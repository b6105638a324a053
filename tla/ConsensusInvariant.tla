------------------------- MODULE ConsensusInvariant -------------------------
(***************************************************************************)
(* The inductive invariant behind value agreement of the finality          *)
(* protocol, what it implies, and that it holds initially; the types are   *)
(* kept by every step.  The handlers that sign no vote (proposals,         *)
(* prevotes received, round changes, finalization and catch-up) keep the   *)
(* invariant; ConsensusProofs shows that the others do.                    *)
(***************************************************************************)
EXTENDS Consensus, TLAPS

NoFaults == Faulty = {} /\ Dipping = {}

----------------------------------------------------------------------------
(* The inductive invariant. *)

(* A vote in a box was signed for the round the box belongs to. *)
BoxesSigned ==
  \A n, v \in Validators :
    /\ prevotes[n][v] # None => Ballot("prevote", round[n], v, prevotes[n][v]) \in signed
    /\ precommits[n][v] # None => Ballot("precommit", round[n], v, precommits[n][v]) \in signed

(* A validator finds its own votes of the current round in its boxes. *)
OwnVotes ==
  \A w \in signed :
    /\ w.round <= round[w.voter]
    /\ tip[w.voter] = None /\ w.round = round[w.voter] => Box(w.voter, w.kind)[w.voter] = w.target

SignedOnce ==
  \A v, w \in signed :
    v.voter = w.voter /\ v.kind = w.kind /\ v.round = w.round => v.target = w.target

ProposalsCurrent ==
  \A n \in Validators : proposal[n] # None => proposal[n] \in proposed /\ proposal[n].round = round[n]

PrecommitsHavePolka ==
  \A w \in signed : w.kind = "precommit" /\ w.target # Nil =>
    w.target \in proposed /\ w.target.round = w.round /\ Polka(w.target)

ValidHasPolka ==
  \A n \in Validators : valid[n] # None =>
    valid[n] \in proposed /\ valid[n].round < round[n] /\ Polka(valid[n])

LockIsOwn ==
  \A n \in Validators : lock[n] # None => Ballot("precommit", lock[n].round, n, lock[n]) \in signed

(* What a validator remembers of a precommit it signed: in the same round the
   block and its prevote quorum, in later rounds a valid value at least as new. *)
PrecommitRemembered ==
  \A w \in signed : w.kind = "precommit" /\ w.target # Nil /\ tip[w.voter] = None =>
    /\ lock[w.voter] # None
    /\ w.round = round[w.voter] =>
         /\ proposal[w.voter] = w.target
         /\ Count(prevotes[w.voter], w.target) >= Quorum
    /\ w.round < round[w.voter] =>
         /\ valid[w.voter] # None
         /\ w.round <= valid[w.voter].round

(* A vote after a precommit is for a value that had a prevote quorum in between. *)
Justified ==
  \A p, v \in signed :
    p.kind = "precommit" /\ p.voter = v.voter /\ p.round < v.round /\ p.target # Nil /\ v.target # Nil =>
      \E b \in proposed :
        p.round <= b.round /\ b.round < v.round /\ ValueId(b) = ValueId(v.target) /\ Polka(b)

TipsCertified ==
  \A n \in Validators : tip[n] # None =>
    tip[n] \in Block /\ Cardinality(Signers("precommit", tip[n].round, tip[n])) >= Quorum

IInv ==
  /\ TypeOK
  /\ BoxesSigned
  /\ OwnVotes
  /\ SignedOnce
  /\ ProposalsCurrent
  /\ PrecommitsHavePolka
  /\ ValidHasPolka
  /\ LockIsOwn
  /\ PrecommitRemembered
  /\ Justified
  /\ TipsCertified

----------------------------------------------------------------------------
(* Quorums. *)

(* consensus_quorum is positive and two quorums exceed the committee. *)
LEMMA QuorumSize == Quorum \in Nat /\ Quorum >= 1 /\ 2 * Quorum > N
BY CommitteeAssumption DEF Quorum

(* What counting votes and comparing rounds comes down to: a superset of a
   quorum is one, two quorums have a member in common, and a nonempty set of
   rounds has a least element.  The lemmas take it as a hypothesis; it follows
   from the cardinality of finite sets, see CountingHolds. *)
Counting ==
  /\ \A S, T \in SUBSET Validators :
       S \subseteq T /\ Cardinality(S) >= Quorum => Cardinality(T) >= Quorum
  /\ \A S, T \in SUBSET Validators :
       Cardinality(S) >= Quorum /\ Cardinality(T) >= Quorum => \E v \in Validators : v \in S /\ v \in T
  /\ \A T \in SUBSET Nat : T # {} => \E x \in T : \A y \in T : x <= y

(* A superset of a quorum, within the committee, is a quorum. *)
LEMMA LargerQuorum ==
  ASSUME Counting, NEW S \in SUBSET Validators, NEW T \in SUBSET Validators,
         S \subseteq T, Cardinality(S) >= Quorum
  PROVE  Cardinality(T) >= Quorum
BY Zenon DEF Counting

(* Two quorums have a member in common. *)
LEMMA QuorumsMeet ==
  ASSUME Counting, NEW S \in SUBSET Validators, NEW T \in SUBSET Validators,
         Cardinality(S) >= Quorum, Cardinality(T) >= Quorum
  PROVE  \E v \in Validators : v \in S /\ v \in T
BY Zenon DEF Counting

(* A nonempty set of rounds has a least element. *)
LEMMA LeastRound ==
  ASSUME Counting, NEW T \in SUBSET Nat, T # {}
  PROVE  \E x \in T : \A y \in T : x <= y
BY Zenon DEF Counting

(* A quorum is not empty. *)
LEMMA QuorumNonempty ==
  ASSUME Counting, NEW S \in SUBSET Validators, Cardinality(S) >= Quorum
  PROVE  \E v \in Validators : v \in S
BY QuorumsMeet

(* A box that keeps its votes for t keeps a quorum for t. *)
LEMMA CountMonotone ==
  ASSUME Counting, NEW old, NEW new, NEW t, Count(old, t) >= Quorum,
         \A v \in Validators : old[v] = t => new[v] = t
  PROVE  Count(new, t) >= Quorum
<1> DEFINE S == {v \in Validators : old[v] = t}
<1> DEFINE T == {v \in Validators : new[v] = t}
<1>1. S \in SUBSET Validators /\ T \in SUBSET Validators /\ S \subseteq T
  OBVIOUS
<1>2. Cardinality(S) >= Quorum
  BY DEF Count
<1> HIDE DEF S, T
<1>3. Cardinality(T) >= Quorum
  BY <1>1, <1>2, LargerQuorum
<1> QED
  BY <1>3 DEF T, Count

(* Signed votes are never withdrawn, so a prevote quorum stays one. *)
LEMMA PolkaMonotone ==
  ASSUME Counting, signed \subseteq signed', NEW b, Polka(b)
  PROVE  Polka(b)'
<1>1. Signers("prevote", b.round, b) \subseteq Signers("prevote", b.round, b)'
  BY DEF Signers
<1>2. /\ Signers("prevote", b.round, b) \in SUBSET Validators
      /\ Signers("prevote", b.round, b)' \in SUBSET Validators
  BY DEF Signers
<1> QED
  BY <1>1, <1>2, LargerQuorum DEF Polka, Quorum, Validators

----------------------------------------------------------------------------
(* What the invariant implies. *)

(* A block with a precommit quorum has a prevote quorum. *)
LEMMA DecidedHasPolka ==
  ASSUME Counting, IInv, NEW b \in Block,
         Cardinality(Signers("precommit", b.round, b)) >= Quorum
  PROVE  Polka(b)
<1>1. PICK v \in Validators : v \in Signers("precommit", b.round, b)
  BY QuorumNonempty DEF Signers
<1>2. Ballot("precommit", b.round, v, b) \in signed
  BY <1>1 DEF Signers
<1>3. b # Nil
  BY AbsentAssumption
<1> QED
  BY <1>2, <1>3 DEF IInv, PrecommitsHavePolka, Ballot

(* Once a block has a precommit quorum, every prevote quorum of its round or a
   later one is for the same value: take the least round with another value;
   the two quorums share a validator, whose later prevote was justified by a
   prevote quorum in between, for that other value, in a smaller round. *)
LEMMA DecisionIsFinal ==
  ASSUME Counting, IInv,
         NEW b0 \in Block, Cardinality(Signers("precommit", b0.round, b0)) >= Quorum,
         NEW b1 \in Block, Polka(b1), b0.round <= b1.round
  PROVE  ValueId(b1) = ValueId(b0)
<1> DEFINE Other == {b \in Block : Polka(b) /\ b0.round <= b.round /\ ValueId(b) # ValueId(b0)}
<1>1. SUFFICES ASSUME Other # {} PROVE FALSE
  OBVIOUS
<1>2. PICK r \in {b.round : b \in Other} : \A q \in {b.round : b \in Other} : r <= q
  <2>1. {b.round : b \in Other} \in SUBSET Nat
    BY DEF Block
  <2>2. {b.round : b \in Other} # {}
    BY <1>1
  <2> QED
    BY Zenon, <2>1, <2>2, LeastRound
<1>3. PICK b \in Other : b.round = r
  OBVIOUS
<1>4. /\ b \in Block /\ Polka(b) /\ b0.round <= b.round /\ ValueId(b) # ValueId(b0)
      /\ \A c \in Block : Polka(c) /\ b0.round <= c.round /\ ValueId(c) # ValueId(b0) => b.round <= c.round
  BY <1>2, <1>3
<1> HIDE DEF Other
<1>5. b0.round \in Nat /\ b.round \in Nat /\ b0 # Nil /\ b # Nil
  BY <1>4, AbsentAssumption DEF Block
<1>6. Polka(b0)
  BY DecidedHasPolka
<1>7. CASE b.round = b0.round
  <2>1. PICK v \in Validators : /\ v \in Signers("prevote", b0.round, b0)
                                /\ v \in Signers("prevote", b.round, b)
    BY <1>4, <1>6, QuorumsMeet DEF Polka, Signers
  <2>2. /\ Ballot("prevote", b0.round, v, b0) \in signed
        /\ Ballot("prevote", b0.round, v, b) \in signed
    BY <2>1, <1>7 DEF Signers
  <2>3. b0 = b
    BY <2>2 DEF IInv, SignedOnce, Ballot
  <2> QED
    BY <2>3, <1>4
<1>8. CASE b0.round < b.round
  <2>1. PICK v \in Validators : /\ v \in Signers("precommit", b0.round, b0)
                                /\ v \in Signers("prevote", b.round, b)
    BY <1>4, QuorumsMeet DEF Polka, Signers
  <2> DEFINE p == Ballot("precommit", b0.round, v, b0)
  <2> DEFINE w == Ballot("prevote", b.round, v, b)
  <2>2. p \in signed /\ w \in signed
    BY <2>1 DEF Signers
  <2>3. /\ p.kind = "precommit" /\ p.voter = w.voter /\ p.round = b0.round /\ w.round = b.round
        /\ p.target = b0 /\ w.target = b
    BY DEF Ballot
  <2> HIDE DEF p, w
  <2>4. PICK c \in proposed : /\ b0.round <= c.round /\ c.round < b.round
                              /\ ValueId(c) = ValueId(b) /\ Polka(c)
    BY <2>2, <2>3, <1>5, <1>8 DEF IInv, Justified
  <2>5. c \in Block
    BY <2>4 DEF IInv, TypeOK
  <2>6. c.round \in Nat
    BY <2>5 DEF Block
  <2> QED
    BY <2>4, <2>5, <2>6, <1>4, <1>5
<1> QED
  BY <1>4, <1>5, <1>7, <1>8

(* The invariant implies value agreement. *)
LEMMA AgreementFromInvariant ==
  ASSUME Counting
  PROVE  IInv => ValueAgreement
<1> SUFFICES ASSUME IInv, NEW m \in Validators, NEW n \in Validators, tip[m] # None, tip[n] # None
             PROVE  ValueId(tip[m]) = ValueId(tip[n])
  BY DEF ValueAgreement
<1>1. /\ tip[m] \in Block /\ Cardinality(Signers("precommit", tip[m].round, tip[m])) >= Quorum
      /\ tip[n] \in Block /\ Cardinality(Signers("precommit", tip[n].round, tip[n])) >= Quorum
  BY DEF IInv, TipsCertified
<1>2. Polka(tip[m]) /\ Polka(tip[n])
  BY <1>1, DecidedHasPolka
<1>3. tip[m].round <= tip[n].round \/ tip[n].round <= tip[m].round
  BY <1>1 DEF Block
<1> QED
  BY <1>1, <1>2, <1>3, DecisionIsFinal

----------------------------------------------------------------------------
(* Initiation and type correctness. *)

(* No validator has voted, locked or finalized in the initial state. *)
LEMMA InitInvariant == Init => IInv
<1> SUFFICES ASSUME Init PROVE IInv
  OBVIOUS
<1>1. TypeOK
  BY CommitteeAssumption DEF Init, TypeOK, NoVotes
<1>2. /\ BoxesSigned /\ OwnVotes /\ SignedOnce /\ ProposalsCurrent /\ PrecommitsHavePolka
      /\ ValidHasPolka /\ LockIsOwn /\ PrecommitRemembered /\ Justified /\ TipsCertified
  BY DEF Init, NoVotes, BoxesSigned, OwnVotes, SignedOnce, ProposalsCurrent, PrecommitsHavePolka,
         ValidHasPolka, LockIsOwn, PrecommitRemembered, Justified, TipsCertified
<1> QED
  BY <1>1, <1>2 DEF IInv

(* finalize_consensus_block_if_quorum keeps the types. *)
LEMMA FinalizeType ==
  ASSUME TypeOK, NEW n \in Validators, NEW b \in Block, Finalize(n, b)
  PROVE  /\ round' \in [Validators -> Nat]
         /\ proposal' \in [Validators -> Block \cup {None}]
         /\ valid' \in [Validators -> Block \cup {None}]
         /\ prevotes' \in [Validators -> [Validators -> Target \cup {None}]]
         /\ precommits' \in [Validators -> [Validators -> Target \cup {None}]]
         /\ lock' \in [Validators -> Block \cup {None}]
         /\ evidence' \in [Validators -> SUBSET Validators]
         /\ tip' \in [Validators -> Block \cup {None}]
BY DEF Finalize, TypeOK, NoVotes

(* Recording precommits, with or without finalizing, keeps the types. *)
LEMMA AddPrecommitsType ==
  ASSUME TypeOK, NEW n \in Validators, NEW Q \in SUBSET Validators, NEW t \in Target,
         AddPrecommits(n, Q, t)
  PROVE  /\ round' \in [Validators -> Nat]
         /\ proposal' \in [Validators -> Block \cup {None}]
         /\ valid' \in [Validators -> Block \cup {None}]
         /\ prevotes' \in [Validators -> [Validators -> Target \cup {None}]]
         /\ precommits' \in [Validators -> [Validators -> Target \cup {None}]]
         /\ lock' \in [Validators -> Block \cup {None}]
         /\ evidence' \in [Validators -> SUBSET Validators]
         /\ tip' \in [Validators -> Block \cup {None}]
<1> DEFINE box == [v \in Validators |-> IF v \in Q THEN t ELSE precommits[n][v]]
<1>1. CASE t # Nil /\ Finalize(n, t)
  BY <1>1, FinalizeType DEF Target
<1>2. CASE /\ precommits' = [precommits EXCEPT ![n] = box]
           /\ lock' = IF n \in Q /\ t # Nil THEN [lock EXCEPT ![n] = t] ELSE lock
           /\ UNCHANGED <<round, proposal, valid, prevotes, evidence, tip>>
  <2>1. box \in [Validators -> Target \cup {None}]
    BY DEF TypeOK
  <2> HIDE DEF box
  <2> QED
    BY Zenon, <1>2, <2>1 DEF TypeOK, Target
<1> QED
  BY <1>1, <1>2 DEF AddPrecommits

(* The step of every handler keeps the types. *)
LEMMA TypeStep == TypeOK /\ [Next]_vars => TypeOK'
<1> SUFFICES ASSUME TypeOK, [Next]_vars PROVE TypeOK'
  OBVIOUS
<1>1. ASSUME NEW n \in Validators, ProposeConsensusBlock(n) PROVE TypeOK'
  <2>1. PICK s \in Stamps, ops \in ProposableOps(n) :
          /\ proposal' = [proposal EXCEPT ![n] = [round |-> round[n], stamp |-> s, ops |-> ops]]
          /\ proposed' = proposed \cup {[round |-> round[n], stamp |-> s, ops |-> ops]}
    BY Zenon, <1>1 DEF ProposeConsensusBlock
  <2>2. ops \in SUBSET Operations
    BY DEF ProposableOps, TypeOK, Block
  <2>3. [round |-> round[n], stamp |-> s, ops |-> ops] \in Block
    BY <2>2 DEF TypeOK, Block
  <2> QED
    BY <1>1, <2>1, <2>3 DEF ProposeConsensusBlock, TypeOK
<1>2. ASSUME NEW n \in Validators, CastPrevote(n) PROVE TypeOK'
  <2>1. PICK t \in Targets(n) : /\ prevotes' = [prevotes EXCEPT ![n][n] = t]
                                /\ signed' = signed \cup {Ballot("prevote", round[n], n, t)}
    BY Zenon, <1>2 DEF CastPrevote
  <2>2. t \in Target
    BY DEF Targets, Target, TypeOK
  <2>3. Ballot("prevote", round[n], n, t) \in Vote
    BY <2>2 DEF Ballot, Vote, TypeOK
  <2> QED
    BY <1>2, <2>1, <2>2, <2>3 DEF CastPrevote, TypeOK
<1>3. ASSUME NEW n \in Validators, CastPrecommit(n) PROVE TypeOK'
  <2>1. PICK t \in Targets(n) : /\ AddPrecommits(n, {n}, t)
                                /\ signed' = signed \cup {Ballot("precommit", round[n], n, t)}
    BY <1>3 DEF CastPrecommit
  <2>2. t \in Target
    BY DEF Targets, Target, TypeOK
  <2>3. Ballot("precommit", round[n], n, t) \in Vote
    BY <2>2 DEF Ballot, Vote, TypeOK
  <2>4. proposed' = proposed
    BY <1>3 DEF CastPrecommit
  <2> QED
    BY Zenon, <2>1, <2>2, <2>3, <2>4, AddPrecommitsType DEF TypeOK
<1>4. ASSUME NEW n \in Validators, AdvanceConsensusRound(n) PROVE TypeOK'
  BY <1>4 DEF AdvanceConsensusRound, TypeOK, NoVotes
<1>5. ASSUME NEW n \in Validators, ResetToNode1Mode(n) PROVE TypeOK'
  BY <1>5 DEF ResetToNode1Mode, TypeOK, NoVotes
<1>6. ASSUME NEW n \in Validators, DoubleSign(n) PROVE TypeOK'
  <2>1. PICK v \in signed, t \in proposed \cup {Nil} : signed' = signed \cup {[v EXCEPT !.target = t]}
    BY <1>6 DEF DoubleSign
  <2>2. [v EXCEPT !.target = t] \in Vote
    BY Zenon DEF TypeOK, Vote, Target
  <2> QED
    BY Zenon, <1>6, <2>1, <2>2 DEF DoubleSign, TypeOK
<1>7. ASSUME NEW n \in Validators, NEW b \in proposed, SubmitConsensusProposal(n, b) PROVE TypeOK'
  BY <1>7 DEF SubmitConsensusProposal, TypeOK
<1>8. ASSUME NEW n \in Validators, NEW t \in proposed \cup {Nil}, NEW Q \in SUBSET Validators,
             SubmitPrevotes(n, t, Q)
      PROVE  TypeOK'
  BY <1>8 DEF SubmitPrevotes, TypeOK, Target
<1>9. ASSUME NEW n \in Validators, NEW t \in proposed \cup {Nil}, NEW Q \in SUBSET Validators,
             SubmitPrecommits(n, t, Q)
      PROVE  TypeOK'
  <2>1. t \in Target /\ AddPrecommits(n, Q, t) /\ proposed' = proposed /\ signed' = signed
    BY <1>9 DEF SubmitPrecommits, TypeOK, Target
  <2> QED
    BY Zenon, <2>1, AddPrecommitsType DEF TypeOK
<1>10. ASSUME NEW n \in Validators, NEW v \in signed, SubmitConflictingVote(n, v) PROVE TypeOK'
  BY <1>10 DEF SubmitConflictingVote, TypeOK, NoVotes, Vote
<1>11. ASSUME NEW n \in Validators, NEW m \in Validators, ApplyConsensusCatchUp(n, m) PROVE TypeOK'
  <2>1. tip[m] \in Block /\ Finalize(n, tip[m]) /\ proposed' = proposed /\ signed' = signed
    BY <1>11 DEF ApplyConsensusCatchUp, TypeOK
  <2> QED
    BY <2>1, FinalizeType DEF TypeOK
<1>12. CASE UNCHANGED vars
  BY <1>12 DEF vars, TypeOK
<1> QED
  BY <1>1, <1>2, <1>3, <1>4, <1>5, <1>6, <1>7, <1>8, <1>9, <1>10, <1>11, <1>12 DEF Next

(* Every record keeps its type in every reachable state, with or without faults. *)
THEOREM TypeCorrect == Spec => []TypeOK
<1>1. Init => TypeOK
  BY InitInvariant DEF IInv
<1> QED
  BY <1>1, TypeStep, PTL DEF Spec

----------------------------------------------------------------------------
(* The handlers that sign no vote keep the invariant. *)

(* Steps that sign nothing keep every conjunct about signatures alone. *)
LEMMA NothingSigned ==
  ASSUME Counting, IInv, signed' = signed, proposed \subseteq proposed'
  PROVE  /\ SignedOnce' /\ PrecommitsHavePolka' /\ Justified'
         /\ \A b : Polka(b) => Polka(b)'
<1>1. \A b : Polka(b) => Polka(b)'
  BY PolkaMonotone
<1>2. SignedOnce'
  BY DEF IInv, SignedOnce
<1>3. PrecommitsHavePolka'
  BY <1>1 DEF IInv, PrecommitsHavePolka
<1>4. Justified'
  BY <1>1 DEF IInv, Justified, ValueId, StateRoot
<1> QED
  BY <1>1, <1>2, <1>3, <1>4

(* A proposal in hand: no precommit of this round can precede it. *)
LEMMA ProposalStep ==
  ASSUME Counting, IInv, TypeOK', NEW n \in Validators, NEW b \in proposed',
         tip[n] = None, proposal[n] = None, b.round = round[n],
         proposal' = [proposal EXCEPT ![n] = b], proposed \subseteq proposed',
         UNCHANGED <<round, valid, prevotes, precommits, lock, evidence, tip, signed>>
  PROVE  IInv'
<1>1. SignedOnce' /\ PrecommitsHavePolka' /\ Justified' /\ \A c : Polka(c) => Polka(c)'
  BY NothingSigned
<1>2. BoxesSigned' /\ OwnVotes' /\ LockIsOwn'
  BY DEF IInv, BoxesSigned, OwnVotes, Box, LockIsOwn
<1>3. ProposalsCurrent'
  BY DEF IInv, ProposalsCurrent, TypeOK
<1>4. ValidHasPolka'
  BY <1>1 DEF IInv, ValidHasPolka
<1>5. PrecommitRemembered'
  <2> SUFFICES ASSUME NEW w \in signed, w.kind = "precommit", w.target # Nil, tip[w.voter] = None
               PROVE  /\ lock[w.voter] # None
                      /\ w.round = round[w.voter] =>
                           /\ proposal'[w.voter] = w.target
                           /\ Count(prevotes[w.voter], w.target) >= Quorum
                      /\ w.round < round[w.voter] =>
                           /\ valid[w.voter] # None
                           /\ w.round <= valid[w.voter].round
    BY Zenon DEF PrecommitRemembered, Count, Quorum
  <2>1. w.voter \in Validators /\ w.target # None
    BY AbsentAssumption DEF IInv, TypeOK, Vote
  <2>2. w.voter = n => w.round # round[n]
    BY <2>1 DEF IInv, PrecommitRemembered
  <2> QED
    BY <2>1, <2>2 DEF IInv, PrecommitRemembered, TypeOK
<1>6. TipsCertified'
  BY DEF IInv, TipsCertified, Signers, Quorum
<1> QED
  BY <1>1, <1>2, <1>3, <1>4, <1>5, <1>6 DEF IInv

(* propose_consensus_block keeps the invariant. *)
LEMMA ProposeStep ==
  ASSUME Counting, IInv, TypeOK', NEW n \in Validators, ProposeConsensusBlock(n)
  PROVE  IInv'
<1>1. PICK s \in Stamps, ops \in ProposableOps(n) :
        /\ proposal' = [proposal EXCEPT ![n] = [round |-> round[n], stamp |-> s, ops |-> ops]]
        /\ proposed' = proposed \cup {[round |-> round[n], stamp |-> s, ops |-> ops]}
  BY Zenon DEF ProposeConsensusBlock
<1> DEFINE b == [round |-> round[n], stamp |-> s, ops |-> ops]
<1>2. b \in proposed' /\ b.round = round[n] /\ proposed \subseteq proposed'
  BY <1>1
<1>3. proposal' = [proposal EXCEPT ![n] = b]
  BY <1>1
<1> HIDE DEF b
<1> QED
  BY Zenon, <1>2, <1>3, ProposalStep DEF ProposeConsensusBlock

(* submit_consensus_proposal keeps the invariant. *)
LEMMA SubmitProposalStep ==
  ASSUME Counting, IInv, TypeOK', NEW n \in Validators, NEW b \in proposed, SubmitConsensusProposal(n, b)
  PROVE  IInv'
BY Zenon, ProposalStep DEF SubmitConsensusProposal

(* Prevotes received by submit_consensus_vote keep the invariant. *)
LEMMA SubmitPrevotesStep ==
  ASSUME Counting, IInv, TypeOK', NEW n \in Validators, NEW t \in Target, NEW Q \in SUBSET Validators,
         SubmitPrevotes(n, t, Q)
  PROVE  IInv'
<1>1. SignedOnce' /\ PrecommitsHavePolka' /\ Justified' /\ \A c : Polka(c) => Polka(c)'
  BY NothingSigned DEF SubmitPrevotes
<1>2. \A m, v \in Validators :
        prevotes'[m][v] = IF m = n /\ v \in Q THEN t ELSE prevotes[m][v]
  BY DEF SubmitPrevotes, IInv, TypeOK
<1>3. BoxesSigned'
  BY <1>2 DEF SubmitPrevotes, IInv, BoxesSigned
<1>4. OwnVotes'
  <2> SUFFICES ASSUME NEW w \in signed
               PROVE  /\ w.round <= round[w.voter]
                      /\ tip[w.voter] = None /\ w.round = round[w.voter] =>
                           Box(w.voter, w.kind)'[w.voter] = w.target
    BY DEF OwnVotes, SubmitPrevotes, Box
  <2>1. w.voter \in Validators /\ w.target # None /\ w.kind \in {"prevote", "precommit"}
    BY AbsentAssumption DEF IInv, TypeOK, Vote
  <2>2. w.round <= round[w.voter]
    BY DEF IInv, OwnVotes
  <2>3. ASSUME tip[w.voter] = None, w.round = round[w.voter]
        PROVE  Box(w.voter, w.kind)'[w.voter] = w.target
    <3>1. Box(w.voter, w.kind)[w.voter] = w.target
      BY <2>3 DEF IInv, OwnVotes
    <3>2. CASE w.kind = "precommit"
      BY <3>1, <3>2 DEF Box, SubmitPrevotes
    <3>3. CASE w.kind = "prevote"
      BY <1>2, <2>1, <3>1, <3>3 DEF Box, SubmitPrevotes
    <3> QED
      BY <2>1, <3>2, <3>3
  <2> QED
    BY <2>2, <2>3
<1>5. ProposalsCurrent' /\ LockIsOwn'
  BY DEF SubmitPrevotes, IInv, ProposalsCurrent, LockIsOwn
<1>6. ValidHasPolka'
  BY <1>1 DEF SubmitPrevotes, IInv, ValidHasPolka
<1>7. PrecommitRemembered'
  <2> SUFFICES ASSUME NEW w \in signed, w.kind = "precommit", w.target # Nil, tip[w.voter] = None
               PROVE  /\ lock[w.voter] # None
                      /\ w.round = round[w.voter] =>
                           /\ proposal[w.voter] = w.target
                           /\ Count(prevotes'[w.voter], w.target) >= Quorum
                      /\ w.round < round[w.voter] =>
                           /\ valid[w.voter] # None
                           /\ w.round <= valid[w.voter].round
    BY Zenon DEF PrecommitRemembered, SubmitPrevotes, Count, Quorum
  <2>1. w.voter \in Validators /\ w.target # None
    BY AbsentAssumption DEF IInv, TypeOK, Vote
  <2>2. \A v \in Validators : prevotes[w.voter][v] = w.target => prevotes'[w.voter][v] = w.target
    BY <1>2, <2>1 DEF SubmitPrevotes
  <2>3. Count(prevotes[w.voter], w.target) >= Quorum => Count(prevotes'[w.voter], w.target) >= Quorum
    BY <2>2, CountMonotone
  <2> QED
    BY <2>1, <2>3 DEF IInv, PrecommitRemembered
<1>8. TipsCertified'
  BY DEF SubmitPrevotes, IInv, TipsCertified, Signers, Quorum
<1> QED
  BY <1>1, <1>3, <1>4, <1>5, <1>6, <1>7, <1>8 DEF IInv

(* A round change keeps the lock and turns a prevote quorum into the valid value. *)
LEMMA AdvanceStep ==
  ASSUME Counting, IInv, TypeOK', NEW n \in Validators, AdvanceConsensusRound(n)
  PROVE  IInv'
<1>1. SignedOnce' /\ PrecommitsHavePolka' /\ Justified' /\ \A c : Polka(c) => Polka(c)'
  BY NothingSigned DEF AdvanceConsensusRound
<1>2. /\ round'[n] = round[n] + 1 /\ proposal'[n] = None /\ prevotes'[n] = NoVotes /\ precommits'[n] = NoVotes
      /\ \A m \in Validators : m # n =>
           /\ round'[m] = round[m] /\ proposal'[m] = proposal[m]
           /\ prevotes'[m] = prevotes[m] /\ precommits'[m] = precommits[m]
      /\ \A m \in Validators : round[m] \in Nat
      /\ lock' = lock /\ tip' = tip /\ signed' = signed /\ proposed' = proposed
  BY DEF AdvanceConsensusRound, IInv, TypeOK
<1>3. /\ \A m \in Validators : m # n => valid'[m] = valid[m]
      /\ \/ valid'[n] = proposal[n] /\ proposal[n] # None /\ Count(prevotes[n], proposal[n]) >= Quorum
         \/ /\ valid'[n] = valid[n]
            /\ proposal[n] = None \/ ~(Count(prevotes[n], proposal[n]) >= Quorum)
  BY DEF AdvanceConsensusRound, IInv, TypeOK
<1>4. BoxesSigned'
  <2> SUFFICES ASSUME NEW m \in Validators, NEW v \in Validators
               PROVE  /\ prevotes'[m][v] # None => Ballot("prevote", round'[m], v, prevotes'[m][v]) \in signed'
                      /\ precommits'[m][v] # None => Ballot("precommit", round'[m], v, precommits'[m][v]) \in signed'
    BY Zenon DEF BoxesSigned
  <2>1. CASE m = n
    <3>1. prevotes'[m] = NoVotes /\ precommits'[m] = NoVotes /\ NoVotes[v] = None
      BY <1>2, <2>1 DEF NoVotes
    <3> QED
      BY Zenon, <3>1
  <2>2. CASE m # n
    <3>1. round'[m] = round[m] /\ prevotes'[m] = prevotes[m] /\ precommits'[m] = precommits[m]
      BY Zenon, <1>2, <2>2
    <3>2. BoxesSigned /\ signed' = signed
      BY Zenon, <1>2 DEF IInv
    <3> QED
      BY Zenon, <3>1, <3>2 DEF BoxesSigned
  <2> QED
    BY Zenon, <2>1, <2>2
<1>5. ASSUME NEW w \in signed
      PROVE  w.voter \in Validators /\ w.round \in Nat /\ w.round <= round[w.voter] /\ w.target # None
  BY AbsentAssumption DEF IInv, TypeOK, Vote, OwnVotes
<1>6. OwnVotes'
  <2> SUFFICES ASSUME NEW w \in signed
               PROVE  /\ w.round <= round'[w.voter]
                      /\ tip[w.voter] = None /\ w.round = round'[w.voter] =>
                           Box(w.voter, w.kind)'[w.voter] = w.target
    BY <1>2 DEF OwnVotes, Box
  <2>1. w.voter = n => w.round < round'[w.voter]
    BY <1>2, <1>5
  <2>2. w.voter # n => Box(w.voter, w.kind)' = Box(w.voter, w.kind)
    BY <1>2, <1>5 DEF Box
  <2> QED
    BY <1>2, <1>5, <2>1, <2>2 DEF IInv, OwnVotes
<1>7. ProposalsCurrent' /\ LockIsOwn'
  BY <1>2 DEF IInv, ProposalsCurrent, LockIsOwn
<1>8. ValidHasPolka'
  <2> SUFFICES ASSUME NEW m \in Validators, valid'[m] # None
               PROVE  valid'[m] \in proposed /\ valid'[m].round < round'[m] /\ Polka(valid'[m])
    BY <1>1, <1>2 DEF ValidHasPolka
  <2>1. CASE m = n /\ valid'[n] = proposal[n] /\ proposal[n] # None /\ Count(prevotes[n], proposal[n]) >= Quorum
    <3>1. proposal[n] \in proposed /\ proposal[n].round = round[n]
      BY <2>1 DEF IInv, ProposalsCurrent
    <3>2. {v \in Validators : prevotes[n][v] = proposal[n]} \subseteq Signers("prevote", round[n], proposal[n])
      BY <2>1 DEF IInv, BoxesSigned, Signers
    <3>3. Cardinality(Signers("prevote", round[n], proposal[n])) >= Quorum
      BY <2>1, <3>2, LargerQuorum DEF Count, Signers
    <3>4. Polka(proposal[n])
      BY <3>1, <3>3 DEF Polka
    <3> QED
      BY <1>2, <2>1, <3>1, <3>4
  <2>2. CASE valid'[m] = valid[m]
    <3>1. valid[m] \in proposed /\ valid[m].round < round[m] /\ Polka(valid[m]) /\ valid[m].round \in Nat
      BY <2>2 DEF IInv, ValidHasPolka, TypeOK, Block
    <3> QED
      BY <1>2, <2>2, <3>1
  <2> QED
    BY <1>3, <2>1, <2>2
<1>9. PrecommitRemembered'
  <2> SUFFICES ASSUME NEW w \in signed, w.kind = "precommit", w.target # Nil, tip[w.voter] = None
               PROVE  /\ lock[w.voter] # None
                      /\ w.round = round'[w.voter] =>
                           /\ proposal'[w.voter] = w.target
                           /\ Count(prevotes'[w.voter], w.target) >= Quorum
                      /\ w.round < round'[w.voter] =>
                           /\ valid'[w.voter] # None
                           /\ w.round <= valid'[w.voter].round
    BY Zenon, <1>2 DEF PrecommitRemembered, Count, Quorum
  <2>1. /\ lock[w.voter] # None
        /\ w.round = round[w.voter] =>
             proposal[w.voter] = w.target /\ Count(prevotes[w.voter], w.target) >= Quorum
        /\ w.round < round[w.voter] => valid[w.voter] # None /\ w.round <= valid[w.voter].round
    BY DEF IInv, PrecommitRemembered
  <2>2. CASE w.voter # n
    BY <1>2, <1>3, <1>5, <2>1, <2>2
  <2>3. CASE w.voter = n /\ w.round = round[n]
    <3>1. valid'[n] = proposal[n] /\ proposal[n] = w.target /\ w.target # None
      BY <1>3, <1>5, <2>1, <2>3
    <3>2. proposal[n].round = round[n]
      BY <3>1 DEF IInv, ProposalsCurrent
    <3> QED
      BY <1>2, <1>5, <2>1, <2>3, <3>1, <3>2
  <2>4. CASE w.voter = n /\ w.round < round[n]
    <3>1. valid[n] # None /\ w.round <= valid[n].round
      BY <2>1, <2>4
    <3>2. valid'[n] # None /\ w.round <= valid'[n].round
      <4>1. CASE valid'[n] = valid[n]
        BY <3>1, <4>1
      <4>2. CASE valid'[n] = proposal[n] /\ proposal[n] # None
        <5>1. proposal[n].round = round[n]
          BY <4>2 DEF IInv, ProposalsCurrent
        <5> QED
          BY <1>2, <1>5, <2>4, <4>2, <5>1
      <4> QED
        BY <1>3, <4>1, <4>2
    <3> QED
      BY <1>2, <1>5, <2>1, <2>4, <3>2
  <2> QED
    BY <1>2, <1>5, <2>2, <2>3, <2>4
<1>10. TipsCertified'
  BY Zenon, <1>2 DEF IInv, TipsCertified, Signers, Quorum
<1> QED
  BY <1>1, <1>4, <1>6, <1>7, <1>8, <1>9, <1>10 DEF IInv

(* The validator ends the height: its records are cleared and it signs no more. *)
LEMMA FinalizeStep ==
  ASSUME Counting, IInv, TypeOK', NEW n \in Validators, NEW b \in Block, Finalize(n, b),
         signed \subseteq signed', proposed' = proposed,
         \A w \in signed' : w \in signed \/ (w.voter = n /\ w.round = round[n]),
         SignedOnce', PrecommitsHavePolka', Justified', \A c : Polka(c) => Polka(c)',
         Cardinality(Signers("precommit", b.round, b)') >= Quorum
  PROVE  IInv'
<1>1. /\ proposal'[n] = None /\ valid'[n] = None /\ lock'[n] = None /\ tip'[n] = b
      /\ prevotes'[n] = NoVotes /\ precommits'[n] = NoVotes
      /\ \A m \in Validators : m # n =>
           /\ proposal'[m] = proposal[m] /\ valid'[m] = valid[m] /\ lock'[m] = lock[m] /\ tip'[m] = tip[m]
           /\ prevotes'[m] = prevotes[m] /\ precommits'[m] = precommits[m]
      /\ round' = round /\ b # None
  BY AbsentAssumption DEF Finalize, IInv, TypeOK, Target
<1>2. BoxesSigned'
  <2> SUFFICES ASSUME NEW m \in Validators, NEW v \in Validators
               PROVE  /\ prevotes'[m][v] # None =>
                           Ballot("prevote", round[m], v, prevotes'[m][v]) \in signed
                      /\ precommits'[m][v] # None =>
                           Ballot("precommit", round[m], v, precommits'[m][v]) \in signed
    BY Zenon, <1>1 DEF BoxesSigned, Ballot
  <2>1. CASE m = n
    BY Zenon, <1>1, <2>1 DEF NoVotes
  <2>2. CASE m # n
    BY Zenon, <1>1, <2>2 DEF IInv, BoxesSigned
  <2> QED
    BY <2>1, <2>2
<1>3. \A w \in signed' : w.voter \in Validators /\ w.round \in Nat
  BY DEF TypeOK, Vote
<1>4. \A m \in Validators : round[m] \in Nat
  BY DEF IInv, TypeOK
<1>5. OwnVotes'
  <2> SUFFICES ASSUME NEW w \in signed'
               PROVE  /\ w.round <= round[w.voter]
                      /\ tip'[w.voter] = None /\ w.round = round[w.voter] =>
                           Box(w.voter, w.kind)'[w.voter] = w.target
    BY Zenon, <1>1 DEF OwnVotes, Box
  <2>1. CASE w.voter = n /\ w.round = round[n]
    <3>1. tip'[w.voter] # None
      BY Zenon, <1>1, <2>1
    <3>2. w.round <= round[w.voter]
      BY <1>4, <2>1
    <3> QED
      BY Zenon, <3>1, <3>2
  <2>2. CASE w \in signed
    <3>1. w.voter # n => Box(w.voter, w.kind)' = Box(w.voter, w.kind)
      BY Zenon, <1>1, <1>3 DEF Box
    <3> QED
      BY Zenon, <1>1, <1>3, <2>2, <3>1 DEF IInv, OwnVotes
  <2> QED
    BY <2>1, <2>2
<1>6. ProposalsCurrent' /\ LockIsOwn'
  BY Zenon, <1>1 DEF IInv, ProposalsCurrent, LockIsOwn
<1>7. ValidHasPolka'
  <2> SUFFICES ASSUME NEW m \in Validators, valid'[m] # None
               PROVE  valid'[m] \in proposed /\ valid'[m].round < round[m] /\ Polka(valid'[m])
    BY <1>1 DEF ValidHasPolka
  <2> QED
    BY Zenon, <1>1 DEF IInv, ValidHasPolka
<1>8. PrecommitRemembered'
  <2> SUFFICES ASSUME NEW w \in signed', w.kind = "precommit", w.target # Nil, tip'[w.voter] = None
               PROVE  /\ lock'[w.voter] # None
                      /\ w.round = round[w.voter] =>
                           /\ proposal'[w.voter] = w.target
                           /\ Count(prevotes'[w.voter], w.target) >= Quorum
                      /\ w.round < round[w.voter] =>
                           /\ valid'[w.voter] # None
                           /\ w.round <= valid'[w.voter].round
    BY Zenon, <1>1 DEF PrecommitRemembered, Count, Quorum
  <2>1. w.voter # n /\ w \in signed
    BY Zenon, <1>1, <1>3
  <2> QED
    BY <1>1, <1>3, <2>1 DEF IInv, PrecommitRemembered
<1>9. TipsCertified'
  <2> SUFFICES ASSUME NEW m \in Validators, tip'[m] # None
               PROVE  /\ tip'[m] \in Block
                      /\ Cardinality({v \in Validators : Ballot("precommit", tip'[m].round, v, tip'[m]) \in signed'}) >= Quorum
    BY Zenon DEF TipsCertified, Signers, Quorum
  <2>1. CASE m = n
    BY Zenon, <1>1, <2>1 DEF Signers
  <2>2. CASE m # n
    <3>1. tip'[m] = tip[m] /\ tip[m] \in Block /\ Cardinality(Signers("precommit", tip[m].round, tip[m])) >= Quorum
      BY <1>1, <2>2 DEF IInv, TipsCertified
    <3> DEFINE S == Signers("precommit", tip[m].round, tip[m])
    <3> DEFINE T == {v \in Validators : Ballot("precommit", tip[m].round, v, tip[m]) \in signed'}
    <3>2. S \in SUBSET Validators /\ T \in SUBSET Validators /\ S \subseteq T
      BY DEF Signers
    <3>3. Cardinality(T) >= Quorum
      BY <3>1, <3>2, LargerQuorum
    <3> QED
      BY <3>1, <3>3
  <2> QED
    BY <2>1, <2>2
<1> QED
  BY <1>2, <1>5, <1>6, <1>7, <1>8, <1>9 DEF IInv

(* apply_consensus_catch_up keeps the invariant. *)
LEMMA CatchUpStep ==
  ASSUME Counting, IInv, TypeOK', NEW n \in Validators, NEW m \in Validators, ApplyConsensusCatchUp(n, m)
  PROVE  IInv'
<1>1. SignedOnce' /\ PrecommitsHavePolka' /\ Justified' /\ \A c : Polka(c) => Polka(c)'
  BY NothingSigned DEF ApplyConsensusCatchUp
<1>2. PICK b \in Block : b = tip[m]
  BY DEF ApplyConsensusCatchUp, IInv, TypeOK
<1>3. Cardinality(Signers("precommit", b.round, b)) >= Quorum
  BY <1>2 DEF ApplyConsensusCatchUp, IInv, TipsCertified
<1>4. Cardinality(Signers("precommit", b.round, b)') >= Quorum
  BY <1>3 DEF ApplyConsensusCatchUp, Signers
<1> QED
  BY Zenon, <1>1, <1>2, <1>4, FinalizeStep DEF ApplyConsensusCatchUp

(* The invariant is kept by the handlers that sign or receive precommits. *)

=============================================================================
