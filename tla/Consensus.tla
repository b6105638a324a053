----------------------------- MODULE Consensus -----------------------------
(***************************************************************************)
(* One height of the multi-Validator finality protocol                     *)
(* (mrk-core/src/service.rs, "submit_consensus_*", "propose_*", "cast_*",   *)
(* "advance_*", "finalize_consensus_block_if_quorum").                      *)
(*                                                                         *)
(* Every handler runs in one redb write transaction, so a handler is one   *)
(* action and its effects survive a crash of the process; a crash only     *)
(* stops a validator from taking further steps.  What a validator signs    *)
(* goes to the sets "proposed" and "signed"; gossip may deliver an element *)
(* of them to any validator, at any time, in any order, any number of      *)
(* times, or never.                                                        *)
(*                                                                         *)
(* Data abstraction.  A block is identified by what its hash commits to    *)
(* that can differ within a height: the round, the time stamp (relative to *)
(* the round) and the ordered operations.  The set of operations stands    *)
(* for the ordered list, since every pool is kept in canonical order.      *)
(* Whether a validator's pool already holds the operations of a proposal   *)
(* is left open: a proposal that is refused is one that is not delivered.  *)
(***************************************************************************)
EXTENDS Integers, FiniteSets

CONSTANTS
  N,           \* size of the active committee
  Height,      \* the height being decided
  MaxRound,    \* bound: rounds explored are 0..MaxRound
  Operations,  \* operations that may be pending
  Stamped,     \* operations whose execution writes the block time into the state
  Stamps,      \* time stamps a proposer may use within one round
  NilVoters,   \* validators whose operator may use the manual nil votes of the CLI
  Faulty,      \* validators that may sign conflicting votes
  Dipping,     \* validators that may see fewer than 20 eligible Nodes for a while
  None, Nil    \* no value; the empty target of a vote

Validators == 1 .. N

Block == [round : Nat, stamp : Stamps, ops : SUBSET Operations]

Target == Block \cup {Nil}

Vote == [kind : {"prevote", "precommit"}, round : Nat, voter : Validators, target : Target]

ASSUME CommitteeAssumption ==
  /\ N \in Nat \ {0}
  /\ Height \in Nat \ {0}
  /\ MaxRound \in Nat
  /\ NilVoters \subseteq Validators
  /\ Faulty \subseteq Validators
  /\ Dipping \subseteq Validators

ASSUME AbsentAssumption ==
  /\ None \notin Target
  /\ Nil \notin Block

VARIABLES
  round,       \* consensus.round of each validator
  proposal,    \* consensus.proposal
  valid,       \* consensus.valid_proposal; valid_round is the round of that block
  prevotes,    \* consensus.prevotes, by voter
  precommits,  \* consensus.precommits, by voter
  lock,        \* the validator's own entry of consensus.locks, the only one it reads
  evidence,    \* validators this one holds double-sign evidence on and has slashed
  tip,         \* the block this validator has finalized at this height
  proposed,    \* every proposal signed so far
  signed       \* every vote signed so far

vars == <<round, proposal, valid, prevotes, precommits, lock, evidence, tip, proposed, signed>>

----------------------------------------------------------------------------
(* consensus_quorum and consensus_proposer. *)
Quorum == (2 * N) \div 3 + 1

(* Mutant: the proposer does not rotate with the round. *)
FixedProposer(r) == ((Height - 1) % N) + 1

Proposer(r) == ((Height - 1 + r) % N) + 1

(* A vote as it is signed and gossiped. *)
Ballot(kind, r, v, t) == [kind |-> kind, round |-> r, voter |-> v, target |-> t]

NoVotes == [v \in Validators |-> None]

Count(votes, t) == Cardinality({v \in Validators : votes[v] = t})

(* The state root of a block re-executed from the finalized checkpoint at its
   own time stamp: it depends on the time when an operation records it.  What
   the time itself does (an epoch begins or is settled, a node has drained) is an
   element of Stamped like such an operation. *)
StateRoot(ops, r, s) == <<ops, IF ops \cap Stamped = {} THEN None ELSE <<r, s>>>>

(* consensus_value_id: height, state root and ordered operations. *)
ValueId(b) == <<b.ops, StateRoot(b.ops, b.round, b.stamp)>>

----------------------------------------------------------------------------
Init ==
  /\ round = [n \in Validators |-> 0]
  /\ proposal = [n \in Validators |-> None]
  /\ valid = [n \in Validators |-> None]
  /\ prevotes = [n \in Validators |-> NoVotes]
  /\ precommits = [n \in Validators |-> NoVotes]
  /\ lock = [n \in Validators |-> None]
  /\ evidence = [n \in Validators |-> {}]
  /\ tip = [n \in Validators |-> None]
  /\ proposed = {}
  /\ signed = {}

(* The block a proposer signs: the retained valid value if there is one, else
   what it executes from its pool.  Either way it must pass its own
   verification, which executes the operations again at the new time stamp. *)
ProposableOps(n) == IF valid[n] = None THEN SUBSET Operations ELSE {valid[n].ops}

RootVerifies(n, b) ==
  valid[n] # None =>
    StateRoot(valid[n].ops, valid[n].round, valid[n].stamp) = StateRoot(b.ops, b.round, b.stamp)

ProposeConsensusBlock(n) ==
  /\ tip[n] = None
  /\ n = Proposer(round[n])
  /\ proposal[n] = None
  /\ \E s \in Stamps, ops \in ProposableOps(n) :
       LET b == [round |-> round[n], stamp |-> s, ops |-> ops] IN
       /\ RootVerifies(n, b)
       /\ proposal' = [proposal EXCEPT ![n] = b]
       /\ proposed' = proposed \cup {b}
  /\ UNCHANGED <<round, valid, prevotes, precommits, lock, evidence, tip, signed>>

(* A second, different proposal of the round is an error and changes nothing. *)
SubmitConsensusProposal(n, b) ==
  /\ tip[n] = None
  /\ proposal[n] = None
  /\ b.round = round[n]
  /\ proposal' = [proposal EXCEPT ![n] = b]
  /\ UNCHANGED <<round, valid, prevotes, precommits, lock, evidence, tip, proposed, signed>>

(* Mutant: the lock is not looked at. *)
MayVoteUnlocked(n, t) == t # Nil => proposal[n] = t

(* The lock rule of cast_consensus_vote. *)
MayVote(n, t) ==
  /\ t # Nil => proposal[n] = t
  /\ \/ lock[n] \in {None, t}
     \/ /\ t # Nil
        /\ valid[n] # None
        /\ ValueId(valid[n]) = ValueId(t)

(* Mutant: a vote is cast before there is a proposal. *)
UncheckedTargets(n) == {proposal[n]} \cup (IF n \in NilVoters THEN {Nil} ELSE {})

Targets(n) == ({proposal[n]} \ {None}) \cup (IF n \in NilVoters THEN {Nil} ELSE {})

CastPrevote(n) ==
  /\ tip[n] = None
  /\ prevotes[n][n] = None
  /\ \E t \in Targets(n) :
       /\ MayVote(n, t)
       /\ prevotes' = [prevotes EXCEPT ![n][n] = t]
       /\ signed' = signed \cup {Ballot("prevote", round[n], n, t)}
  /\ UNCHANGED <<round, proposal, valid, precommits, lock, evidence, tip, proposed>>

(* finalize_consensus_block_if_quorum: the ledger becomes the post-state of the
   block, computed from the previous finalized checkpoint, and the records of
   the height are cleared.  "round" keeps the round in which the height ended. *)
Finalize(n, b) ==
  /\ tip' = [tip EXCEPT ![n] = b]
  /\ proposal' = [proposal EXCEPT ![n] = None]
  /\ valid' = [valid EXCEPT ![n] = None]
  /\ prevotes' = [prevotes EXCEPT ![n] = NoVotes]
  /\ precommits' = [precommits EXCEPT ![n] = NoVotes]
  /\ lock' = [lock EXCEPT ![n] = None]
  /\ evidence' = [evidence EXCEPT ![n] = {}]
  /\ UNCHANGED round

(* Mutant: two thirds of the votes count as a quorum, not more than two thirds. *)
AddPrecommitsTwoThirds(n, Q, t) ==
  LET box == [v \in Validators |-> IF v \in Q THEN t ELSE precommits[n][v]] IN
  \/ /\ t # Nil
     /\ Count(box, t) >= Quorum - 1
     /\ proposal[n] = t
     /\ Finalize(n, t)
  \/ /\ t = Nil \/ Count(box, t) < Quorum - 1
     /\ precommits' = [precommits EXCEPT ![n] = box]
     /\ lock' = IF n \in Q /\ t # Nil THEN [lock EXCEPT ![n] = t] ELSE lock
     /\ UNCHANGED <<round, proposal, valid, prevotes, evidence, tip>>

(* Precommits of the validators Q for t enter the box; with a quorum for its
   block the height ends.  A quorum for a block the validator does not hold is
   an error: the transaction rolls back and nothing changes. *)
AddPrecommits(n, Q, t) ==
  LET box == [v \in Validators |-> IF v \in Q THEN t ELSE precommits[n][v]] IN
  \/ /\ t # Nil
     /\ Count(box, t) >= Quorum
     /\ proposal[n] = t
     /\ Finalize(n, t)
  \/ /\ t = Nil \/ Count(box, t) < Quorum
     /\ precommits' = [precommits EXCEPT ![n] = box]
     /\ lock' = IF n \in Q /\ t # Nil THEN [lock EXCEPT ![n] = t] ELSE lock
     /\ UNCHANGED <<round, proposal, valid, prevotes, evidence, tip>>

(* The precommit of cast_consensus_vote, which needs a prevote quorum. *)
CastPrecommit(n) ==
  /\ tip[n] = None
  /\ precommits[n][n] = None
  /\ \E t \in Targets(n) :
       /\ MayVote(n, t)
       /\ Count(prevotes[n], t) >= Quorum
       /\ AddPrecommits(n, {n}, t)
       /\ signed' = signed \cup {Ballot("precommit", round[n], n, t)}
  /\ UNCHANGED proposed

(* submit_consensus_vote, over the votes of a gossip message: those for t that
   the validators Q signed in the receiver's round.  Votes of another round are
   refused, not kept, and a vote already held is a duplicate. *)
SubmitPrevotes(n, t, Q) ==
  /\ tip[n] = None
  /\ \A v \in Q :
       /\ Ballot("prevote", round[n], v, t) \in signed
       /\ prevotes[n][v] = None
  /\ prevotes' = [prevotes EXCEPT ![n] = [v \in Validators |-> IF v \in Q THEN t ELSE @[v]]]
  /\ UNCHANGED <<round, proposal, valid, precommits, lock, evidence, tip, proposed, signed>>

SubmitPrecommits(n, t, Q) ==
  /\ tip[n] = None
  /\ \A v \in Q :
       /\ Ballot("precommit", round[n], v, t) \in signed
       /\ precommits[n][v] = None
  /\ AddPrecommits(n, Q, t)
  /\ UNCHANGED <<proposed, signed>>

(* The votes of a kind that n holds. *)
Box(n, kind) == IF kind = "prevote" THEN prevotes[n] ELSE precommits[n]

(* Mutant: a vote that arrives a second time counts as a conflict. *)
SubmitRepeatedVote(n, v) ==
  /\ tip[n] = None
  /\ v.round = round[n]
  /\ Box(n, v.kind)[v.voter] # None
  /\ evidence' = [evidence EXCEPT ![n] = @ \cup {v.voter}]
  /\ proposal' = [proposal EXCEPT ![n] = None]
  /\ valid' = [valid EXCEPT ![n] = None]
  /\ prevotes' = [prevotes EXCEPT ![n] = NoVotes]
  /\ precommits' = [precommits EXCEPT ![n] = NoVotes]
  /\ lock' = [lock EXCEPT ![n] = None]
  /\ UNCHANGED <<round, tip, proposed, signed>>

(* A vote that conflicts with the recorded one slashes its signer and clears
   the round: proposal, valid value, votes and locks, at the same round. *)
SubmitConflictingVote(n, v) ==
  /\ tip[n] = None
  /\ v.round = round[n]
  /\ Box(n, v.kind)[v.voter] \notin {None, v.target}
  /\ evidence' = [evidence EXCEPT ![n] = @ \cup {v.voter}]
  /\ proposal' = [proposal EXCEPT ![n] = None]
  /\ valid' = [valid EXCEPT ![n] = None]
  /\ prevotes' = [prevotes EXCEPT ![n] = NoVotes]
  /\ precommits' = [precommits EXCEPT ![n] = NoVotes]
  /\ lock' = [lock EXCEPT ![n] = None]
  /\ UNCHANGED <<round, tip, proposed, signed>>

(* advance_consensus_round once the timeout has elapsed: a proposal with a
   prevote quorum becomes the value to repropose, votes are dropped, the lock
   stays. *)
AdvanceConsensusRound(n) ==
  /\ tip[n] = None
  /\ round[n] < MaxRound
  /\ valid' = IF proposal[n] # None /\ Count(prevotes[n], proposal[n]) >= Quorum
                THEN [valid EXCEPT ![n] = proposal[n]] ELSE valid
  /\ round' = [round EXCEPT ![n] = @ + 1]
  /\ proposal' = [proposal EXCEPT ![n] = None]
  /\ prevotes' = [prevotes EXCEPT ![n] = NoVotes]
  /\ precommits' = [precommits EXCEPT ![n] = NoVotes]
  /\ UNCHANGED <<lock, evidence, tip, proposed, signed>>

(* apply_consensus_catch_up: a lagging validator adopts the finalized block of
   a peer together with its commit certificate and checkpoint. *)
ApplyConsensusCatchUp(n, m) ==
  /\ tip[n] = None
  /\ tip[m] # None
  /\ Finalize(n, tip[m])
  /\ UNCHANGED <<proposed, signed>>

(* reset_multi_validator_consensus_if_node1_mode, run by finalize_operation
   when the validator counts fewer than 20 eligible Nodes at its own clock. *)
ResetToNode1Mode(n) ==
  /\ n \in Dipping
  /\ tip[n] = None
  /\ round' = [round EXCEPT ![n] = 0]
  /\ proposal' = [proposal EXCEPT ![n] = None]
  /\ valid' = [valid EXCEPT ![n] = None]
  /\ prevotes' = [prevotes EXCEPT ![n] = NoVotes]
  /\ precommits' = [precommits EXCEPT ![n] = NoVotes]
  /\ lock' = [lock EXCEPT ![n] = None]
  /\ UNCHANGED <<evidence, tip, proposed, signed>>

(* A faulty validator signs a second vote of a kind and round. *)
DoubleSign(f) ==
  /\ f \in Faulty
  /\ \E v \in signed :
       /\ v.voter = f
       /\ \E t \in proposed \cup {Nil} : signed' = signed \cup {[v EXCEPT !.target = t]}
  /\ UNCHANGED <<round, proposal, valid, prevotes, precommits, lock, evidence, tip, proposed>>

Next ==
  \/ \E n \in Validators :
       \/ ProposeConsensusBlock(n)
       \/ CastPrevote(n)
       \/ CastPrecommit(n)
       \/ AdvanceConsensusRound(n)
       \/ ResetToNode1Mode(n)
       \/ DoubleSign(n)
       \/ \E b \in proposed : SubmitConsensusProposal(n, b)
       \/ \E t \in proposed \cup {Nil}, Q \in SUBSET Validators : SubmitPrevotes(n, t, Q)
       \/ \E t \in proposed \cup {Nil}, Q \in SUBSET Validators : SubmitPrecommits(n, t, Q)
       \/ \E v \in signed : SubmitConflictingVote(n, v)
       \/ \E m \in Validators : ApplyConsensusCatchUp(n, m)

Spec == Init /\ [][Next]_vars

----------------------------------------------------------------------------
Honest == Validators \ Faulty

Signers(kind, r, t) ==
  {v \in Validators : Ballot(kind, r, v, t) \in signed}

(* A block that a quorum of validators prevoted in its round. *)
Polka(b) == Cardinality(Signers("prevote", b.round, b)) >= Quorum

(* Every record of a validator has the shape its type in model.rs gives it. *)
TypeOK ==
  /\ round \in [Validators -> Nat]
  /\ proposal \in [Validators -> Block \cup {None}]
  /\ valid \in [Validators -> Block \cup {None}]
  /\ prevotes \in [Validators -> [Validators -> Target \cup {None}]]
  /\ precommits \in [Validators -> [Validators -> Target \cup {None}]]
  /\ lock \in [Validators -> Block \cup {None}]
  /\ evidence \in [Validators -> SUBSET Validators]
  /\ tip \in [Validators -> Block \cup {None}]
  /\ proposed \subseteq Block
  /\ signed \subseteq Vote

(* Two validators that finalize the height finalize the same state root and the
   same operations, whatever the rounds in which they do so: the lock rule of
   cast_consensus_vote and the valid value kept by advance_consensus_round
   together exclude a second value. *)
ValueAgreement ==
  \A m, n \in Validators :
    tip[m] # None /\ tip[n] # None => ValueId(tip[m]) = ValueId(tip[n])

(* Two validators that finalize the height finalize the same block, hence the
   same tip hash for the next height to build on. *)
BlockAgreement ==
  \A m, n \in Validators : tip[m] # None /\ tip[n] # None => tip[m] = tip[n]

(* A finalized block carries the precommits of a quorum, and an honest one of
   them was cast only after a quorum had prevoted the block: no interleaving of
   gossip, round changes and catch-up finalizes a block without both steps. *)
Certified ==
  \A n \in Validators : tip[n] # None =>
    /\ Cardinality(Signers("precommit", tip[n].round, tip[n])) >= Quorum
    /\ Polka(tip[n])

(* A validator that precommitted a block and later votes for another value does
   so only because that value gathered a prevote quorum in a round from the
   precommit's on: a lock is never simply forgotten. *)
LockRespected ==
  \A p, v \in signed :
    /\ p.kind = "precommit"
    /\ p.voter = v.voter
    /\ p.voter \in Honest
    /\ p.round < v.round
    /\ p.target # Nil
    /\ v.target # Nil
    => \/ ValueId(p.target) = ValueId(v.target)
       \/ \E b \in proposed :
            /\ p.round <= b.round
            /\ b.round < v.round
            /\ ValueId(b) = ValueId(v.target)
            /\ Polka(b)

(* An honest validator signs at most one vote of a kind in a round. *)
HonestSignOnce ==
  \A v, w \in signed :
    /\ v.voter = w.voter
    /\ v.voter \in Honest
    /\ v.kind = w.kind
    /\ v.round = w.round
    => v = w

(* Whoever is slashed has signed two different votes of a kind in one round. *)
EvidenceIsTrue ==
  \A n \in Validators : \A f \in evidence[n] :
    \E v, w \in signed :
      v.voter = f /\ w.voter = f /\ v.kind = w.kind /\ v.round = w.round /\ v.target # w.target

============================================================================
