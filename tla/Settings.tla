------------------------------ MODULE Settings ------------------------------
(***************************************************************************)
(* Governed parameters: batches of changes, the rules between parameters,  *)
(* and the queue of batches that take effect at a later epoch.             *)
(*                                                                         *)
(* Six parameters stand for the thirty-seven of the code: one that needs   *)
(* no CRITICAL proposal (service), a pair bound by a rule (the committee's *)
(* size and its rotations), and the fee policy, which is only changed as a *)
(* whole (its base fee and its least and greatest multiplier).             *)
(***************************************************************************)
EXTENDS Integers, FiniteSetsExt

CONSTANTS
  Values,      \* for every parameter the values set_governance_parameter_value accepts
  NoEpoch      \* an absent effective epoch

ASSUME ValuesAssumption ==
  /\ DOMAIN Values = {"service", "max", "rotations", "base", "least", "most"}
  /\ \A p \in DOMAIN Values : Values[p] \subseteq Nat

Parameters == DOMAIN Values

(* The two lists of parameter names in the code. *)
CriticalParameters == Parameters \ {"service"}

FeePolicy == {"base", "least", "most"}

(* Settings have a value for every parameter and a version of the fee policy. *)
InRange(changes) == \A p \in DOMAIN changes : changes[p] \in Values[p]

Assign(settings, changes) ==
  [p \in DOMAIN settings |-> IF p \in DOMAIN changes THEN changes[p] ELSE settings[p]]

(* The rules between parameters. *)
ValidSettings(s) == s.rotations <= s.max \div 3 /\ s.least <= s.most

NewFees(old, new) == \E p \in FeePolicy : new[p] # old[p]

(* A new fee policy moves the base fee by at most a factor of two. *)
FeeStep(old, new) == NewFees(old, new) => new.base <= 2 * old.base /\ 2 * new.base >= old.base

Changeable(s, changes) ==
  /\ DOMAIN changes # {}
  /\ InRange(changes)
  /\ FeeStep(s, Assign(s, changes))
  /\ ValidSettings(Assign(s, changes))

Changed(s, changes) ==
  LET new == Assign(s, changes)
  IN  IF NewFees(s, new) THEN [new EXCEPT !.version = @ + 1] ELSE new

(***************************************************************************)
(* The queue is a function from epochs to batches.  Planned gives the      *)
(* settings of every epoch, were the queue applied from settings s of      *)
(* epoch c on; QueueApplies says that no batch would be refused.           *)
(***************************************************************************)
Planned(s, q, c) ==
  LET at[e \in c .. Max(DOMAIN q \cup {c})] ==
        IF e = c THEN s ELSE IF e \in DOMAIN q THEN Changed(at[e - 1], q[e]) ELSE at[e - 1]
  IN  at

Later(q, e) == [f \in {f \in DOMAIN q : f > e} |-> q[f]]

Due(q, e) == [f \in {f \in DOMAIN q : f <= e} |-> q[f]]

QueueApplies(s, q, c) ==
  \A e \in DOMAIN q : e > c /\ Changeable(Planned(s, q, c)[e - 1], q[e])

Merge(old, changes) ==
  [p \in DOMAIN old \cup DOMAIN changes |-> IF p \in DOMAIN changes THEN changes[p] ELSE old[p]]

Enqueue(q, e, changes) ==
  [f \in DOMAIN q \cup {e} |->
     IF f # e THEN q[f] ELSE IF e \in DOMAIN q THEN Merge(q[e], changes) ELSE changes]

(* What a batch makes of the settings and of the queue. *)
BatchSettings(s, changes, effective) == IF effective = NoEpoch THEN Changed(s, changes) ELSE s

BatchQueue(q, changes, effective) ==
  IF effective = NoEpoch THEN q ELSE Enqueue(q, effective, changes)

(* A fee policy is changed whole and at least two epochs ahead. *)
FeeRule(changes, effective, epoch) ==
  DOMAIN changes \cap FeePolicy # {} =>
    FeePolicy \subseteq DOMAIN changes /\ effective # NoEpoch /\ effective >= epoch + 2

(* Mutant: what is queued already is not looked at. *)
MutValidBatch(s, q, changes, effective, epoch) ==
  /\ DOMAIN changes # {}
  /\ FeeRule(changes, effective, epoch)
  /\ IF effective = NoEpoch THEN Changeable(s, changes) ELSE effective > epoch

ValidBatch(s, q, changes, effective, epoch) ==
  /\ DOMAIN changes # {}
  /\ FeeRule(changes, effective, epoch)
  /\ IF effective = NoEpoch THEN Changeable(s, changes) ELSE effective > epoch
  /\ QueueApplies(BatchSettings(s, changes, effective), BatchQueue(q, changes, effective), epoch)

=============================================================================
