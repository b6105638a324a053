-------------------------- MODULE ConsensusProofs --------------------------
(***************************************************************************)
(* Agreement of the finality protocol, for every committee, and the truth  *)
(* of its evidence, for every set of faulty validators: the handlers that  *)
(* sign votes keep the invariant of ConsensusInvariant; the invariant      *)
(* behind the evidence, which needs no honest validator; the theorems.     *)
(***************************************************************************)
EXTENDS ConsensusInvariant

(* What the checks of cast_consensus_vote give for the new signature. *)
LEMMA VoteSigned ==
  ASSUME Counting, IInv, NEW n \in Validators, NEW t \in Target, NEW k \in {"prevote", "precommit"},
         tip[n] = None, Box(n, k)[n] = None, MayVote(n, t),
         k = "precommit" => Count(prevotes[n], t) >= Quorum,
         signed' = signed \cup {Ballot(k, round[n], n, t)}, proposed' = proposed
  PROVE  /\ SignedOnce' /\ PrecommitsHavePolka' /\ Justified'
         /\ \A b : Polka(b) => Polka(b)'
<1> DEFINE x == Ballot(k, round[n], n, t)
<1>1. \A b : Polka(b) => Polka(b)'
  BY PolkaMonotone
<1>2. /\ x.kind = k /\ x.round = round[n] /\ x.voter = n /\ x.target = t
      /\ signed' = signed \cup {x} /\ round[n] \in Nat
  BY DEF Ballot, IInv, TypeOK
<1> HIDE DEF x
<1>3. \A w \in signed : w.target # None /\ w.voter \in Validators /\ w.round \in Nat
  BY AbsentAssumption DEF IInv, TypeOK, Vote
<1>4. SignedOnce'
  <2>1. \A w \in signed : ~(w.voter = n /\ w.kind = k /\ w.round = round[n])
    BY <1>3 DEF IInv, OwnVotes
  <2> QED
    BY <1>2, <2>1 DEF IInv, SignedOnce
<1>5. t # Nil => t \in proposed /\ t.round = round[n] /\ proposal[n] = t /\ t # None
  BY AbsentAssumption DEF MayVote, IInv, ProposalsCurrent
<1>6. k = "precommit" /\ t # Nil => Polka(t)
  <2> SUFFICES ASSUME k = "precommit", t # Nil PROVE Polka(t)
    OBVIOUS
  <2>1. {v \in Validators : prevotes[n][v] = t} \subseteq Signers("prevote", round[n], t)
    BY <1>5 DEF IInv, BoxesSigned, Signers
  <2>2. Cardinality(Signers("prevote", round[n], t)) >= Quorum
    BY <2>1, LargerQuorum DEF Count, Signers
  <2> QED
    BY <1>5, <2>2 DEF Polka
<1>7. PrecommitsHavePolka'
  <2> SUFFICES ASSUME NEW w \in signed', w.kind = "precommit", w.target # Nil
               PROVE  w.target \in proposed /\ w.target.round = w.round /\ Polka(w.target)
    BY <1>1 DEF PrecommitsHavePolka
  <2>1. CASE w \in signed
    BY <2>1 DEF IInv, PrecommitsHavePolka
  <2>2. CASE w = x
    BY <1>2, <1>5, <1>6, <2>2
  <2> QED
    BY <1>2, <2>1, <2>2
<1>8. Justified'
  <2> SUFFICES ASSUME NEW p \in signed', NEW v \in signed',
                      p.kind = "precommit", p.voter = v.voter, p.round < v.round,
                      p.target # Nil, v.target # Nil
               PROVE  \E b \in proposed : /\ p.round <= b.round /\ b.round < v.round
                                          /\ ValueId(b) = ValueId(v.target) /\ Polka(b)
    BY ZenonT(30), <1>1 DEF Justified, ValueId, StateRoot
  <2>1. CASE p \in signed /\ v \in signed
    BY <2>1 DEF IInv, Justified
  <2>2. CASE p = x
    <3>1. v \in signed => v.round <= round[n]
      BY <1>2, <2>2 DEF IInv, OwnVotes
    <3>2. v.round <= round[n] /\ v.round \in Nat
      BY <1>2, <1>3, <3>1
    <3> QED
      BY <1>2, <2>2, <3>2
  <2>3. CASE p \in signed /\ v = x
    <3>1. p.voter = n /\ p.round < round[n] /\ t # Nil
      BY <1>2, <2>3
    <3>2. lock[n] # None /\ valid[n] # None /\ p.round <= valid[n].round
      BY <2>3, <3>1 DEF IInv, PrecommitRemembered
    <3>3. CASE lock[n] = t
      <4> DEFINE q == Ballot("precommit", t.round, n, t)
      <4>1. q \in signed
        BY <3>2, <3>3 DEF IInv, LockIsOwn
      <4>2. q.voter = n /\ q.round = round[n] /\ q.target = t
        BY <1>5, <3>1 DEF Ballot
      <4> HIDE DEF q
      <4>3. \E b \in proposed : /\ p.round <= b.round /\ b.round < q.round
                                /\ ValueId(b) = ValueId(q.target) /\ Polka(b)
        BY <2>3, <3>1, <4>1, <4>2 DEF IInv, Justified
      <4> QED
        BY <1>2, <2>3, <4>2, <4>3
    <3>4. CASE ValueId(valid[n]) = ValueId(t)
      <4>1. valid[n] \in proposed /\ valid[n].round < round[n] /\ Polka(valid[n])
        BY <3>2 DEF IInv, ValidHasPolka
      <4> QED
        BY <1>2, <2>3, <3>2, <3>4, <4>1
    <3> QED
      BY <3>2, <3>3, <3>4 DEF MayVote
  <2> QED
    BY <1>2, <2>1, <2>2, <2>3
<1> QED
  BY <1>1, <1>4, <1>7, <1>8

(* A precommit quorum, once signed, stays signed. *)
LEMMA TipsStayCertified ==
  ASSUME Counting, IInv, signed \subseteq signed', tip' = tip
  PROVE  TipsCertified'
<1> SUFFICES ASSUME NEW m \in Validators, tip[m] # None
             PROVE  /\ tip[m] \in Block
                    /\ Cardinality({v \in Validators : Ballot("precommit", tip[m].round, v, tip[m]) \in signed'}) >= Quorum
  BY DEF TipsCertified, Signers, Quorum
<1>1. tip[m] \in Block /\ Cardinality(Signers("precommit", tip[m].round, tip[m])) >= Quorum
  BY DEF IInv, TipsCertified
<1> DEFINE S == Signers("precommit", tip[m].round, tip[m])
<1> DEFINE T == {v \in Validators : Ballot("precommit", tip[m].round, v, tip[m]) \in signed'}
<1>2. S \in SUBSET Validators /\ T \in SUBSET Validators /\ S \subseteq T
  BY DEF Signers
<1>3. Cardinality(T) >= Quorum
  BY <1>1, <1>2, LargerQuorum
<1> QED
  BY <1>1, <1>3

(* cast_consensus_vote for a prevote keeps the invariant. *)
LEMMA CastPrevoteStep ==
  ASSUME Counting, IInv, TypeOK', NEW n \in Validators, CastPrevote(n)
  PROVE  IInv'
<1>1. PICK t \in Targets(n) : /\ MayVote(n, t)
                              /\ prevotes' = [prevotes EXCEPT ![n][n] = t]
                              /\ signed' = signed \cup {Ballot("prevote", round[n], n, t)}
  BY Zenon DEF CastPrevote
<1>2. t \in Target
  BY DEF Targets, Target, IInv, TypeOK
<1>3. SignedOnce' /\ PrecommitsHavePolka' /\ Justified' /\ \A c : Polka(c) => Polka(c)'
  <2>1. Box(n, "prevote")[n] = None /\ tip[n] = None /\ proposed' = proposed
    BY DEF CastPrevote, Box
  <2> QED
    BY <1>1, <1>2, <2>1, VoteSigned
<1>4. /\ \A m, v \in Validators : prevotes'[m][v] = IF m = n /\ v = n THEN t ELSE prevotes[m][v]
      /\ prevotes[n][n] = None /\ signed \subseteq signed'
      /\ UNCHANGED <<round, proposal, valid, precommits, lock, tip, proposed>>
  BY <1>1 DEF CastPrevote, IInv, TypeOK
<1>5. BoxesSigned'
  BY <1>1, <1>4 DEF IInv, BoxesSigned
<1>6. OwnVotes'
  <2> SUFFICES ASSUME NEW w \in signed'
               PROVE  /\ w.round <= round[w.voter]
                      /\ tip[w.voter] = None /\ w.round = round[w.voter] =>
                           Box(w.voter, w.kind)'[w.voter] = w.target
    BY <1>4 DEF OwnVotes, Box
  <2>1. CASE w = Ballot("prevote", round[n], n, t)
    <3>1. w.kind = "prevote" /\ w.round = round[n] /\ w.voter = n /\ w.target = t /\ round[n] \in Nat
      BY <2>1 DEF Ballot, IInv, TypeOK
    <3>2. Box(w.voter, w.kind)' = prevotes'[n]
      BY <3>1 DEF Box
    <3>3. prevotes'[n][n] = t
      BY <1>4
    <3> QED
      BY <3>1, <3>2, <3>3
  <2>2. CASE w \in signed
    <3>1. w.voter \in Validators /\ w.target # None /\ w.kind \in {"prevote", "precommit"}
      BY <2>2, AbsentAssumption DEF IInv, TypeOK, Vote
    <3>2. w.round <= round[w.voter]
      BY <2>2 DEF IInv, OwnVotes
    <3>3. ASSUME tip[w.voter] = None, w.round = round[w.voter]
          PROVE  Box(w.voter, w.kind)'[w.voter] = w.target
      <4>1. Box(w.voter, w.kind)[w.voter] = w.target
        BY <2>2, <3>3 DEF IInv, OwnVotes
      <4>2. CASE w.kind = "precommit"
        BY <1>4, <4>1, <4>2 DEF Box
      <4>3. CASE w.kind = "prevote"
        BY <1>4, <3>1, <4>1, <4>3 DEF Box
      <4> QED
        BY <3>1, <4>2, <4>3
    <3> QED
      BY <3>2, <3>3
  <2> QED
    BY <1>1, <2>1, <2>2
<1>7. ProposalsCurrent' /\ LockIsOwn'
  BY <1>4 DEF IInv, ProposalsCurrent, LockIsOwn
<1>8. ValidHasPolka'
  BY <1>3, <1>4 DEF IInv, ValidHasPolka
<1>9. PrecommitRemembered'
  <2>0. \A w \in signed' : w.kind = "precommit" => w \in signed
    BY <1>1 DEF Ballot
  <2> SUFFICES ASSUME NEW w \in signed, w.kind = "precommit", w.target # Nil, tip[w.voter] = None
               PROVE  /\ lock[w.voter] # None
                      /\ w.round = round[w.voter] =>
                           /\ proposal[w.voter] = w.target
                           /\ Count(prevotes'[w.voter], w.target) >= Quorum
                      /\ w.round < round[w.voter] =>
                           /\ valid[w.voter] # None
                           /\ w.round <= valid[w.voter].round
    BY Zenon, <2>0, <1>4 DEF PrecommitRemembered, Count, Quorum
  <2>1. w.voter \in Validators /\ w.target # None
    BY AbsentAssumption DEF IInv, TypeOK, Vote
  <2>2. \A v \in Validators : prevotes[w.voter][v] = w.target => prevotes'[w.voter][v] = w.target
    BY <1>4, <2>1
  <2>3. Count(prevotes[w.voter], w.target) >= Quorum => Count(prevotes'[w.voter], w.target) >= Quorum
    BY <2>2, CountMonotone
  <2> QED
    BY <2>1, <2>3 DEF IInv, PrecommitRemembered
<1>10. TipsCertified'
  BY <1>4, TipsStayCertified
<1> QED
  BY <1>3, <1>5, <1>6, <1>7, <1>8, <1>9, <1>10 DEF IInv

(* Precommits recorded without a quorum, or the height finalized by them. *)
LEMMA AddPrecommitsStep ==
  ASSUME Counting, IInv, TypeOK', NEW n \in Validators, NEW Q \in SUBSET Validators, NEW t \in Target,
         tip[n] = None, AddPrecommits(n, Q, t), signed \subseteq signed', proposed' = proposed,
         \A v \in Q : Ballot("precommit", round[n], v, t) \in signed' /\ precommits[n][v] = None,
         \A w \in signed' : \/ w \in signed
                            \/ /\ w = Ballot("precommit", round[n], n, t)
                               /\ n \in Q
                               /\ t # Nil => proposal[n] = t /\ Count(prevotes[n], t) >= Quorum,
         SignedOnce', PrecommitsHavePolka', Justified', \A c : Polka(c) => Polka(c)'
  PROVE  IInv'
<1> DEFINE box == [v \in Validators |-> IF v \in Q THEN t ELSE precommits[n][v]]
<1>1. t # None /\ (t # Nil => t \in Block)
  BY AbsentAssumption DEF Target
<1>2. round[n] \in Nat
  BY DEF IInv, TypeOK
<1>3. /\ Ballot("precommit", round[n], n, t).kind = "precommit"
      /\ Ballot("precommit", round[n], n, t).round = round[n]
      /\ Ballot("precommit", round[n], n, t).voter = n
      /\ Ballot("precommit", round[n], n, t).target = t
  BY DEF Ballot
<1>4. CASE t # Nil /\ Count(box, t) >= Quorum /\ proposal[n] = t /\ Finalize(n, t)
  <2>1. t.round = round[n]
    BY <1>1, <1>4 DEF IInv, ProposalsCurrent
  <2>2. {v \in Validators : box[v] = t} \subseteq Signers("precommit", t.round, t)'
    <3> SUFFICES ASSUME NEW v \in Validators, box[v] = t
                 PROVE  Ballot("precommit", round[n], v, t) \in signed'
      BY <2>1 DEF Signers
    <3>1. v \in Q \/ precommits[n][v] = t
      OBVIOUS
    <3> QED
      BY <1>1, <3>1 DEF IInv, BoxesSigned
  <2>3. /\ {v \in Validators : box[v] = t} \in SUBSET Validators
        /\ Signers("precommit", t.round, t)' \in SUBSET Validators
        /\ Cardinality({v \in Validators : box[v] = t}) >= Quorum
    BY <1>4 DEF Signers, Count
  <2>4. Cardinality(Signers("precommit", t.round, t)') >= Quorum
    BY Zenon, <2>2, <2>3, LargerQuorum
  <2>5. \A w \in signed' : w \in signed \/ (w.voter = n /\ w.round = round[n])
    BY <1>3
  <2> QED
    BY <1>1, <1>4, <2>4, <2>5, FinalizeStep
<1>5. CASE /\ precommits' = [precommits EXCEPT ![n] = box]
           /\ lock' = IF n \in Q /\ t # Nil THEN [lock EXCEPT ![n] = t] ELSE lock
           /\ UNCHANGED <<round, proposal, valid, prevotes, evidence, tip>>
  <2>1. /\ \A m, v \in Validators :
             precommits'[m][v] = IF m = n /\ v \in Q THEN t ELSE precommits[m][v]
        /\ \A m \in Validators : lock'[m] = IF m = n /\ n \in Q /\ t # Nil THEN t ELSE lock[m]
        /\ UNCHANGED <<round, proposal, valid, prevotes, tip>>
    BY <1>5 DEF IInv, TypeOK
  <2>2. BoxesSigned'
    BY <2>1 DEF IInv, BoxesSigned
  <2>3. OwnVotes'
    <3> SUFFICES ASSUME NEW w \in signed'
                 PROVE  /\ w.round <= round[w.voter]
                        /\ tip[w.voter] = None /\ w.round = round[w.voter] =>
                             Box(w.voter, w.kind)'[w.voter] = w.target
      BY <2>1 DEF OwnVotes, Box
    <3>1. CASE w = Ballot("precommit", round[n], n, t) /\ n \in Q
      <4>1. w.kind = "precommit" /\ w.round = round[n] /\ w.voter = n /\ w.target = t
        BY <1>3, <3>1
      <4>2. Box(w.voter, w.kind)' = precommits'[n]
        BY <4>1 DEF Box
      <4>3. precommits'[n][n] = t
        BY <2>1, <3>1
      <4> QED
        BY <1>2, <4>1, <4>2, <4>3
    <3>2. CASE w \in signed
      <4>1. w.voter \in Validators /\ w.target # None /\ w.kind \in {"prevote", "precommit"}
        BY <3>2, AbsentAssumption DEF IInv, TypeOK, Vote
      <4>2. w.round <= round[w.voter]
        BY <3>2 DEF IInv, OwnVotes
      <4>3. ASSUME tip[w.voter] = None, w.round = round[w.voter]
            PROVE  Box(w.voter, w.kind)'[w.voter] = w.target
        <5>1. Box(w.voter, w.kind)[w.voter] = w.target
          BY <3>2, <4>3 DEF IInv, OwnVotes
        <5>2. CASE w.kind = "prevote"
          BY <2>1, <5>1, <5>2 DEF Box
        <5>3. CASE w.kind = "precommit"
          BY <2>1, <4>1, <5>1, <5>3 DEF Box
        <5> QED
          BY <4>1, <5>2, <5>3
      <4> QED
        BY <4>2, <4>3
    <3> QED
      BY <3>1, <3>2
  <2>4. ProposalsCurrent'
    BY <2>1 DEF IInv, ProposalsCurrent
  <2>5. LockIsOwn'
    <3> SUFFICES ASSUME NEW m \in Validators, lock'[m] # None
                 PROVE  Ballot("precommit", lock'[m].round, m, lock'[m]) \in signed'
      BY DEF LockIsOwn
    <3>1. CASE m = n /\ n \in Q /\ t # Nil
      <4>1. Ballot("precommit", round[n], n, t) \in signed'
        BY <3>1
      <4>2. t.round = round[n]
        BY <1>3, <3>1, <4>1 DEF PrecommitsHavePolka
      <4> QED
        BY <2>1, <3>1, <4>1, <4>2
    <3>2. CASE ~(m = n /\ n \in Q /\ t # Nil)
      BY <2>1, <3>2 DEF IInv, LockIsOwn
    <3> QED
      BY <3>1, <3>2
  <2>6. ValidHasPolka'
    BY <2>1 DEF IInv, ValidHasPolka
  <2>7. PrecommitRemembered'
    <3> SUFFICES ASSUME NEW w \in signed', w.kind = "precommit", w.target # Nil, tip[w.voter] = None
                 PROVE  /\ lock'[w.voter] # None
                        /\ w.round = round[w.voter] =>
                             /\ proposal[w.voter] = w.target
                             /\ Count(prevotes[w.voter], w.target) >= Quorum
                        /\ w.round < round[w.voter] =>
                             /\ valid[w.voter] # None
                             /\ w.round <= valid[w.voter].round
      BY Zenon, <2>1 DEF PrecommitRemembered, Count, Quorum
    <3>1. CASE w \in signed
      <4>1. w.voter \in Validators
        BY <3>1 DEF IInv, TypeOK, Vote
      <4> QED
        BY <1>1, <2>1, <3>1, <4>1 DEF IInv, PrecommitRemembered
    <3>2. CASE /\ w = Ballot("precommit", round[n], n, t) /\ n \in Q
               /\ t # Nil => proposal[n] = t /\ Count(prevotes[n], t) >= Quorum
      <4>1. w.round = round[n] /\ w.voter = n /\ w.target = t
        BY <1>3, <3>2
      <4> QED
        BY <1>1, <1>2, <2>1, <3>2, <4>1
    <3> QED
      BY Zenon, <3>1, <3>2
  <2>8. TipsCertified'
    BY Zenon, <2>1, TipsStayCertified
  <2> QED
    BY <2>2, <2>3, <2>4, <2>5, <2>6, <2>7, <2>8 DEF IInv
<1> QED
  BY <1>4, <1>5 DEF AddPrecommits

(* Precommits received by submit_consensus_vote keep the invariant. *)
LEMMA SubmitPrecommitsStep ==
  ASSUME Counting, IInv, TypeOK', NEW n \in Validators, NEW t \in Target, NEW Q \in SUBSET Validators,
         SubmitPrecommits(n, t, Q)
  PROVE  IInv'
<1>1. SignedOnce' /\ PrecommitsHavePolka' /\ Justified' /\ \A c : Polka(c) => Polka(c)'
  BY Zenon, NothingSigned DEF SubmitPrecommits
<1>2. /\ tip[n] = None /\ AddPrecommits(n, Q, t) /\ signed' = signed /\ proposed' = proposed
      /\ \A v \in Q : Ballot("precommit", round[n], v, t) \in signed' /\ precommits[n][v] = None
  BY DEF SubmitPrecommits
<1> QED
  BY Zenon, <1>1, <1>2, AddPrecommitsStep

(* cast_consensus_vote for a precommit keeps the invariant. *)
LEMMA CastPrecommitStep ==
  ASSUME Counting, IInv, TypeOK', NEW n \in Validators, CastPrecommit(n)
  PROVE  IInv'
<1>1. PICK t \in Targets(n) : /\ MayVote(n, t)
                              /\ Count(prevotes[n], t) >= Quorum
                              /\ AddPrecommits(n, {n}, t)
                              /\ signed' = signed \cup {Ballot("precommit", round[n], n, t)}
  BY DEF CastPrecommit
<1>2. t \in Target
  BY DEF Targets, Target, IInv, TypeOK
<1>3. tip[n] = None /\ precommits[n][n] = None /\ proposed' = proposed
  BY DEF CastPrecommit
<1>4. SignedOnce' /\ PrecommitsHavePolka' /\ Justified' /\ \A c : Polka(c) => Polka(c)'
  <2>1. Box(n, "precommit")[n] = None
    BY <1>3 DEF Box
  <2> QED
    BY <1>1, <1>2, <1>3, <2>1, VoteSigned
<1>5. t # Nil => proposal[n] = t
  BY <1>1 DEF MayVote
<1> QED
  BY <1>1, <1>2, <1>3, <1>4, <1>5, AddPrecommitsStep

(* Two different votes of a kind and round do not exist. *)
LEMMA NoConflict ==
  ASSUME IInv, NEW n \in Validators, NEW v \in signed
  PROVE  ~SubmitConflictingVote(n, v)
<1> SUFFICES ASSUME SubmitConflictingVote(n, v) PROVE FALSE
  OBVIOUS
<1>1. v.voter \in Validators /\ v.kind \in {"prevote", "precommit"} /\ v.round = round[n]
  BY DEF SubmitConflictingVote, IInv, TypeOK, Vote
<1> DEFINE held == Box(n, v.kind)[v.voter]
<1>2. held # None /\ held # v.target
  BY DEF SubmitConflictingVote
<1>3. Ballot(v.kind, round[n], v.voter, held) \in signed
  BY <1>1, <1>2 DEF Box, IInv, BoxesSigned
<1> HIDE DEF held
<1>4. held = v.target
  BY <1>1, <1>3 DEF IInv, SignedOnce, Ballot
<1> QED
  BY <1>2, <1>4

----------------------------------------------------------------------------
(* The invariant is inductive when no validator is faulty or falls back. *)
LEMMA InvariantStep ==
  ASSUME Counting, NoFaults
  PROVE  IInv /\ [Next]_vars => IInv'
<1> SUFFICES ASSUME IInv, [Next]_vars PROVE IInv'
  OBVIOUS
<1>1. TypeOK'
  BY TypeStep DEF IInv
<1>2. \A t \in proposed \cup {Nil} : t \in Target
  BY DEF IInv, TypeOK, Target
<1>3. ASSUME NEW n \in Validators, ProposeConsensusBlock(n) PROVE IInv'
  BY <1>1, <1>3, ProposeStep
<1>4. ASSUME NEW n \in Validators, CastPrevote(n) PROVE IInv'
  BY <1>1, <1>4, CastPrevoteStep
<1>5. ASSUME NEW n \in Validators, CastPrecommit(n) PROVE IInv'
  BY <1>1, <1>5, CastPrecommitStep
<1>6. ASSUME NEW n \in Validators, AdvanceConsensusRound(n) PROVE IInv'
  BY <1>1, <1>6, AdvanceStep
<1>7. ASSUME NEW n \in Validators, ResetToNode1Mode(n) \/ DoubleSign(n) PROVE IInv'
  BY <1>7 DEF NoFaults, ResetToNode1Mode, DoubleSign
<1>8. ASSUME NEW n \in Validators, NEW b \in proposed, SubmitConsensusProposal(n, b) PROVE IInv'
  BY <1>1, <1>8, SubmitProposalStep
<1>9. ASSUME NEW n \in Validators, NEW t \in proposed \cup {Nil}, NEW Q \in SUBSET Validators,
             SubmitPrevotes(n, t, Q)
      PROVE  IInv'
  BY <1>1, <1>2, <1>9, SubmitPrevotesStep
<1>10. ASSUME NEW n \in Validators, NEW t \in proposed \cup {Nil}, NEW Q \in SUBSET Validators,
              SubmitPrecommits(n, t, Q)
       PROVE  IInv'
  BY <1>1, <1>2, <1>10, SubmitPrecommitsStep
<1>11. ASSUME NEW n \in Validators, NEW v \in signed, SubmitConflictingVote(n, v) PROVE IInv'
  BY <1>11, NoConflict
<1>12. ASSUME NEW n \in Validators, NEW m \in Validators, ApplyConsensusCatchUp(n, m) PROVE IInv'
  BY <1>1, <1>12, CatchUpStep
<1>13. CASE UNCHANGED vars
  <2>1. SignedOnce' /\ PrecommitsHavePolka' /\ Justified' /\ \A c : Polka(c) => Polka(c)'
    BY <1>13, NothingSigned DEF vars
  <2>2. BoxesSigned' /\ OwnVotes' /\ ProposalsCurrent' /\ LockIsOwn'
    BY <1>13 DEF vars, IInv, BoxesSigned, OwnVotes, Box, ProposalsCurrent, LockIsOwn
  <2>3. ValidHasPolka'
    BY <1>13, <2>1 DEF vars, IInv, ValidHasPolka
  <2>4. PrecommitRemembered'
    BY <1>13 DEF vars, IInv, PrecommitRemembered, Count, Quorum
  <2>5. TipsCertified'
    BY <1>13, TipsStayCertified DEF vars
  <2> QED
    BY <1>1, <2>1, <2>2, <2>3, <2>4, <2>5 DEF IInv
<1> QED
  BY <1>3, <1>4, <1>5, <1>6, <1>7, <1>8, <1>9, <1>10, <1>11, <1>12, <1>13 DEF Next

(* The invariant implies the properties the runs check. *)
LEMMA PropertiesFromInvariant ==
  ASSUME Counting, NoFaults, IInv
  PROVE  Certified /\ LockRespected /\ HonestSignOnce
<1>1. Certified
  BY DecidedHasPolka DEF IInv, TipsCertified, Certified
<1>2. LockRespected
  BY DEF IInv, Justified, LockRespected
<1>3. HonestSignOnce
  <2> SUFFICES ASSUME NEW v \in signed, NEW w \in signed,
                      v.voter = w.voter, v.kind = w.kind, v.round = w.round
               PROVE  v = w
    BY DEF HonestSignOnce
  <2>1. v \in Vote /\ w \in Vote /\ v.target = w.target
    BY DEF IInv, TypeOK, SignedOnce
  <2> QED
    BY <2>1 DEF Vote
<1> QED
  BY <1>1, <1>2, <1>3

----------------------------------------------------------------------------
(* Evidence. *)

\* Two different votes of one kind and round, signed by f.
SignedTwice(f) ==
  \E v, w \in signed :
    v.voter = f /\ w.voter = f /\ v.kind = w.kind /\ v.round = w.round /\ v.target # w.target

EvidenceInv == TypeOK /\ BoxesSigned /\ EvidenceIsTrue

----------------------------------------------------------------------------
(* Signatures are never withdrawn. *)
LEMMA SignedGrows == ASSUME Next PROVE signed \subseteq signed'
BY ZenonT(30) DEF Next, ProposeConsensusBlock, CastPrevote, CastPrecommit, AdvanceConsensusRound,
       ResetToNode1Mode, DoubleSign, SubmitConsensusProposal, SubmitPrevotes, SubmitPrecommits,
       SubmitConflictingVote, ApplyConsensusCatchUp

(* What was signed twice stays so. *)
LEMMA TwiceStays ==
  ASSUME signed \subseteq signed', NEW f, SignedTwice(f)
  PROVE  SignedTwice(f)'
BY DEF SignedTwice

(* A handler that leaves the boxes and the round of every validator alone, or
   empties them, keeps the boxes signed. *)
LEMMA BoxesKept ==
  ASSUME TypeOK, BoxesSigned, signed \subseteq signed',
         \A n \in Validators :
           \/ round'[n] = round[n] /\ prevotes'[n] = prevotes[n] /\ precommits'[n] = precommits[n]
           \/ prevotes'[n] = NoVotes /\ precommits'[n] = NoVotes
  PROVE  BoxesSigned'
BY DEF BoxesSigned, NoVotes, Ballot

(* submit_consensus_vote and cast_consensus_vote put only signed votes of the
   current round into a box, and finalization empties it. *)
LEMMA PrecommitsAdded ==
  ASSUME TypeOK, BoxesSigned, signed \subseteq signed', NEW n \in Validators, NEW t,
         NEW Q \in SUBSET Validators, AddPrecommits(n, Q, t),
         \A v \in Q : Ballot("precommit", round[n], v, t) \in signed'
  PROVE  BoxesSigned' /\ (evidence' = evidence \/ evidence' = [evidence EXCEPT ![n] = {}])
<1> DEFINE box == [v \in Validators |-> IF v \in Q THEN t ELSE precommits[n][v]]
<1>1. CASE Finalize(n, t)
  <2>1. \A m \in Validators :
          \/ round'[m] = round[m] /\ prevotes'[m] = prevotes[m] /\ precommits'[m] = precommits[m]
          \/ prevotes'[m] = NoVotes /\ precommits'[m] = NoVotes
    BY <1>1 DEF Finalize, TypeOK
  <2> QED
    BY <1>1, <2>1, BoxesKept DEF Finalize
<1>2. CASE /\ precommits' = [precommits EXCEPT ![n] = box]
           /\ UNCHANGED <<round, prevotes, evidence>>
  <2>1. \A m, v \in Validators :
          precommits'[m][v] = IF m = n /\ v \in Q THEN t ELSE precommits[m][v]
    BY <1>2 DEF TypeOK
  <2> HIDE DEF box
  <2>2. ASSUME NEW m \in Validators, NEW v \in Validators
        PROVE  /\ prevotes'[m][v] # None => Ballot("prevote", round'[m], v, prevotes'[m][v]) \in signed'
               /\ precommits'[m][v] # None => Ballot("precommit", round'[m], v, precommits'[m][v]) \in signed'
    <3>1. prevotes'[m][v] # None => Ballot("prevote", round'[m], v, prevotes'[m][v]) \in signed'
      BY <1>2 DEF BoxesSigned
    <3>2. CASE m = n /\ v \in Q
      BY <1>2, <2>1, <3>1, <3>2
    <3>3. CASE ~(m = n /\ v \in Q)
      BY <1>2, <2>1, <3>1, <3>3 DEF BoxesSigned
    <3> QED
      BY <3>2, <3>3
  <2> QED
    BY Zenon, <1>2, <2>2 DEF BoxesSigned, Ballot
<1> QED
  BY <1>1, <1>2 DEF AddPrecommits

(* A vote that differs from the one in the box is a second one. *)
LEMMA ConflictIsTrue ==
  ASSUME TypeOK, BoxesSigned, NEW n \in Validators, NEW v \in signed, SubmitConflictingVote(n, v)
  PROVE  SignedTwice(v.voter)
<1>1. v \in Vote /\ v.voter \in Validators /\ v.kind \in {"prevote", "precommit"}
  BY DEF TypeOK, Vote
<1> DEFINE held == Box(n, v.kind)[v.voter]
<1>2. held # None /\ held # v.target
  BY DEF SubmitConflictingVote
<1>3. Ballot(v.kind, round[n], v.voter, held) \in signed
  BY <1>1, <1>2 DEF Box, BoxesSigned
<1> HIDE DEF held
<1> QED
  BY <1>2, <1>3 DEF SubmitConflictingVote, SignedTwice, Ballot

(* Evidence only grows by true evidence. *)
LEMMA EvidenceKept ==
  ASSUME EvidenceIsTrue, signed \subseteq signed',
         \A n \in Validators : \A f \in evidence'[n] : f \in evidence[n] \/ SignedTwice(f)
  PROVE  EvidenceIsTrue'
<1> SUFFICES ASSUME NEW n \in Validators, NEW f \in evidence'[n]
             PROVE  SignedTwice(f)'
  BY DEF EvidenceIsTrue, SignedTwice
<1>1. SignedTwice(f)
  BY DEF EvidenceIsTrue, SignedTwice
<1> QED
  BY <1>1, TwiceStays

----------------------------------------------------------------------------
(* Every handler keeps the invariant, those of faulty validators included. *)
LEMMA EvidenceStep == EvidenceInv /\ [Next]_vars => EvidenceInv'
<1> SUFFICES ASSUME EvidenceInv, [Next]_vars PROVE EvidenceInv'
  OBVIOUS
<1>1. TypeOK'
  BY TypeStep DEF EvidenceInv
<1>2. CASE UNCHANGED vars
  BY <1>1, <1>2 DEF vars, EvidenceInv, BoxesSigned, EvidenceIsTrue
<1>3. CASE Next
  <2>1. signed \subseteq signed'
    BY <1>3, SignedGrows
  <2>2. ASSUME \A n \in Validators :
                 \/ round'[n] = round[n] /\ prevotes'[n] = prevotes[n] /\ precommits'[n] = precommits[n]
                 \/ prevotes'[n] = NoVotes /\ precommits'[n] = NoVotes,
               \A n \in Validators : evidence'[n] = evidence[n] \/ evidence'[n] = {}
        PROVE  EvidenceInv'
    BY <1>1, <2>1, <2>2, BoxesKept, EvidenceKept DEF EvidenceInv
  <2>3. ASSUME NEW n \in Validators,
               ProposeConsensusBlock(n) \/ AdvanceConsensusRound(n) \/ ResetToNode1Mode(n) \/ DoubleSign(n)
        PROVE  EvidenceInv'
    BY <2>2, <2>3 DEF ProposeConsensusBlock, AdvanceConsensusRound, ResetToNode1Mode, DoubleSign,
                      EvidenceInv, TypeOK
  <2>4. ASSUME NEW n \in Validators, NEW b \in proposed, SubmitConsensusProposal(n, b)
        PROVE  EvidenceInv'
    BY <2>2, <2>4 DEF SubmitConsensusProposal
  <2>5. ASSUME NEW n \in Validators, NEW m \in Validators, ApplyConsensusCatchUp(n, m)
        PROVE  EvidenceInv'
    BY <2>2, <2>5 DEF ApplyConsensusCatchUp, Finalize, EvidenceInv, TypeOK
  <2>6. ASSUME NEW n \in Validators, NEW t, NEW Q \in SUBSET Validators,
               \A v \in Q : Ballot("prevote", round[n], v, t) \in signed',
               prevotes' = [prevotes EXCEPT ![n] = [v \in Validators |-> IF v \in Q THEN t ELSE @[v]]],
               UNCHANGED <<round, precommits, evidence>>
        PROVE  EvidenceInv'
    <3>1. \A m, v \in Validators : prevotes'[m][v] = IF m = n /\ v \in Q THEN t ELSE prevotes[m][v]
      BY <2>6 DEF EvidenceInv, TypeOK
    <3>2. ASSUME NEW m \in Validators, NEW v \in Validators
          PROVE  /\ prevotes'[m][v] # None => Ballot("prevote", round[m], v, prevotes'[m][v]) \in signed'
                 /\ precommits[m][v] # None => Ballot("precommit", round[m], v, precommits[m][v]) \in signed'
      <4>1. precommits[m][v] # None => Ballot("precommit", round[m], v, precommits[m][v]) \in signed'
        BY <2>1 DEF EvidenceInv, BoxesSigned
      <4>2. CASE m = n /\ v \in Q
        BY <2>6, <3>1, <4>1, <4>2
      <4>3. CASE ~(m = n /\ v \in Q)
        BY <2>1, <3>1, <4>1, <4>3 DEF EvidenceInv, BoxesSigned
      <4> QED
        BY <4>2, <4>3
    <3>3. BoxesSigned'
      BY <2>6, <3>2 DEF BoxesSigned, Ballot
    <3> QED
      BY <1>1, <2>1, <2>6, <3>3, EvidenceKept DEF EvidenceInv
  <2>7. ASSUME NEW n \in Validators, CastPrevote(n)
        PROVE  EvidenceInv'
    <3>1. PICK t \in Targets(n) : /\ prevotes' = [prevotes EXCEPT ![n][n] = t]
                                  /\ signed' = signed \cup {Ballot("prevote", round[n], n, t)}
      BY Zenon, <2>7 DEF CastPrevote
    <3>2. prevotes' = [prevotes EXCEPT ![n] = [v \in Validators |-> IF v \in {n} THEN t ELSE @[v]]]
      BY Zenon, <3>1 DEF EvidenceInv, TypeOK
    <3>3. \A v \in {n} : Ballot("prevote", round[n], v, t) \in signed'
      BY <3>1
    <3>4. UNCHANGED <<round, precommits, evidence>>
      BY <2>7 DEF CastPrevote
    <3>5. {n} \in SUBSET Validators
      OBVIOUS
    <3> QED
      BY Zenon, <2>6, <3>2, <3>3, <3>4, <3>5
  <2>8. ASSUME NEW n \in Validators, NEW t, NEW Q \in SUBSET Validators, SubmitPrevotes(n, t, Q)
        PROVE  EvidenceInv'
    BY <2>6, <2>8 DEF SubmitPrevotes
  <2>9. ASSUME NEW n \in Validators, NEW t, NEW Q \in SUBSET Validators, AddPrecommits(n, Q, t),
               \A v \in Q : Ballot("precommit", round[n], v, t) \in signed'
        PROVE  EvidenceInv'
    <3>1. BoxesSigned' /\ (evidence' = evidence \/ evidence' = [evidence EXCEPT ![n] = {}])
      BY <2>1, <2>9, PrecommitsAdded DEF EvidenceInv
    <3>2. \A m \in Validators : \A f \in evidence'[m] : f \in evidence[m]
      BY <3>1 DEF EvidenceInv, TypeOK
    <3> QED
      BY <1>1, <2>1, <3>1, <3>2, EvidenceKept DEF EvidenceInv
  <2>10. ASSUME NEW n \in Validators, CastPrecommit(n)
         PROVE  EvidenceInv'
    <3>1. PICK t \in Targets(n) : /\ AddPrecommits(n, {n}, t)
                                  /\ signed' = signed \cup {Ballot("precommit", round[n], n, t)}
      BY <2>10 DEF CastPrecommit
    <3> QED
      BY <2>9, <3>1
  <2>11. ASSUME NEW n \in Validators, NEW t, NEW Q \in SUBSET Validators, SubmitPrecommits(n, t, Q)
         PROVE  EvidenceInv'
    BY <2>9, <2>11 DEF SubmitPrecommits
  <2>12. ASSUME NEW n \in Validators, NEW v \in signed, SubmitConflictingVote(n, v)
         PROVE  EvidenceInv'
    <3>1. SignedTwice(v.voter)
      BY <2>12, ConflictIsTrue DEF EvidenceInv
    <3>2. \A m \in Validators : \A f \in evidence'[m] : f \in evidence[m] \/ f = v.voter
      BY <2>12 DEF SubmitConflictingVote, EvidenceInv, TypeOK
    <3>3. BoxesSigned'
      <4>1. \A m \in Validators :
              \/ round'[m] = round[m] /\ prevotes'[m] = prevotes[m] /\ precommits'[m] = precommits[m]
              \/ prevotes'[m] = NoVotes /\ precommits'[m] = NoVotes
        BY <2>12 DEF SubmitConflictingVote, EvidenceInv, TypeOK
      <4> QED
        BY <2>1, <4>1, BoxesKept DEF EvidenceInv
    <3> QED
      BY <1>1, <2>1, <3>1, <3>2, <3>3, EvidenceKept DEF EvidenceInv
  <2> QED
    BY <1>3, <2>3, <2>4, <2>5, <2>7, <2>8, <2>10, <2>11, <2>12 DEF Next
<1> QED
  BY <1>2, <1>3

(* Whoever is slashed has signed two different votes of a kind in one round,
   for every set of faulty validators and every fallback to Node 1 mode
   (submit_consensus_vote). *)
THEOREM EvidenceIsTrueHolds == Spec => []EvidenceIsTrue
<1>1. Init => EvidenceInv
  <2>1. Init => TypeOK
    BY InitInvariant DEF IInv
  <2> QED
    BY <2>1 DEF Init, EvidenceInv, BoxesSigned, NoVotes, EvidenceIsTrue
<1>2. EvidenceInv => EvidenceIsTrue
  BY DEF EvidenceInv
<1> QED
  BY <1>1, <1>2, EvidenceStep, PTL DEF Spec

----------------------------------------------------------------------------
(* The theorems on agreement, with Counting established. *)

INSTANCE FiniteSetTheorems

(* The committee is a finite set of N validators. *)
LEMMA ValidatorsFinite == IsFiniteSet(Validators) /\ Cardinality(Validators) = N
BY FS_Interval, CommitteeAssumption DEF Validators

(* Quorums of the committee and rounds count as they should. *)
LEMMA CountingHolds == Counting
<1>1. ASSUME NEW S \in SUBSET Validators, NEW T \in SUBSET Validators,
             S \subseteq T, Cardinality(S) >= Quorum
      PROVE  Cardinality(T) >= Quorum
  <2>1. IsFiniteSet(T)
    BY ValidatorsFinite, FS_Subset
  <2>2. Cardinality(S) <= Cardinality(T) /\ IsFiniteSet(S)
    BY <1>1, <2>1, FS_Subset
  <2>3. Cardinality(S) \in Nat /\ Cardinality(T) \in Nat
    BY <2>1, <2>2, FS_CardinalityType
  <2> QED
    BY <1>1, <2>2, <2>3, QuorumSize
<1>2. ASSUME NEW S \in SUBSET Validators, NEW T \in SUBSET Validators,
             Cardinality(S) >= Quorum, Cardinality(T) >= Quorum
      PROVE  \E v \in Validators : v \in S /\ v \in T
  <2>1. IsFiniteSet(S) /\ IsFiniteSet(T)
    BY ValidatorsFinite, FS_Subset
  <2>2. Cardinality(S) \in Nat /\ Cardinality(T) \in Nat
    BY <2>1, FS_CardinalityType
  <2>3. Cardinality(S) + Cardinality(T) > Cardinality(Validators)
    BY <1>2, <2>2, QuorumSize, ValidatorsFinite, CommitteeAssumption
  <2>4. S \cap T # {}
    BY <2>3, ValidatorsFinite, FS_MajoritiesIntersect
  <2> QED
    BY <2>4
<1>3. ASSUME NEW T \in SUBSET Nat, T # {}
      PROVE  \E x \in T : \A y \in T : x <= y
  <2> DEFINE Below == OpToRel(<, Nat)
  <2>1. IsWellFoundedOn(Below, Nat)
    BY Zenon, NatLessThanWellFounded
  <2>2. PICK x \in T : \A y \in T : ~ (<<y, x>> \in Below)
    BY Zenon, <1>3, <2>1, WFMin
  <2>3. \A a, b \in Nat : a < b => <<a, b>> \in Below
    BY DEF Below, OpToRel
  <2>4. ASSUME NEW y \in T PROVE x <= y
    <3>1. ~ (<<y, x>> \in Below)
      BY Zenon, <2>2
    <3>2. ~ (y < x)
      BY Zenon, <2>3, <3>1
    <3> QED
      BY <3>2
  <2> QED
    BY <2>4
<1> QED
  BY Zenon, <1>1, <1>2, <1>3 DEF Counting

(* Validators that finalize the height finalize the same state root and the
   same operations, for every committee, every number of rounds and every
   order of delivery (cast_consensus_vote, advance_consensus_round). *)
THEOREM ValueAgreementHolds ==
  ASSUME NoFaults
  PROVE  Spec => []ValueAgreement
<1>1. IInv /\ [Next]_vars => IInv'
  BY Zenon, CountingHolds, InvariantStep
<1>2. IInv => ValueAgreement
  BY Zenon, CountingHolds, AgreementFromInvariant
<1> QED
  BY <1>1, <1>2, InitInvariant, PTL DEF Spec

(* Every finalized block has its precommit and prevote quorums, no lock is
   abandoned without a newer prevote quorum, and nobody signs twice in a round. *)
THEOREM VotingRulesHold ==
  ASSUME NoFaults
  PROVE  Spec => [](Certified /\ LockRespected /\ HonestSignOnce)
<1>1. IInv /\ [Next]_vars => IInv'
  BY Zenon, CountingHolds, InvariantStep
<1>2. IInv => Certified /\ LockRespected /\ HonestSignOnce
  BY Zenon, CountingHolds, PropertiesFromInvariant
<1> QED
  BY <1>1, <1>2, InitInvariant, PTL DEF Spec

(* Without faults a validator that precommitted a block votes for another value
   only after a prevote quorum for it in a round from the precommit's on: the
   lock rule of cast_consensus_vote is never bypassed. *)
THEOREM LockRespectedHolds ==
  ASSUME NoFaults
  PROVE  Spec => []LockRespected
  BY VotingRulesHold, PTL

=============================================================================
