-------------------------------- MODULE Stake --------------------------------
(***************************************************************************)
(* Governance and Validator Bonds, eligibility, and the selection of the   *)
(* validator committee (StakeVault operations, refresh_validator_committee).*)
(***************************************************************************)
EXTENDS Registry

CONSTANTS
  RequiredService, MinService, RequiredGovernance, Maturity, GovernanceUnlock, ProbeValidity,
  ValidatorBond, ValidatorUnlock,
  MaxActive, MaxRotations, RotationInterval,
  MultiNodes, MinActive, MinDecentralized, DirectEnd

ASSUME StakeAssumption ==
  /\ RequiredService \in Nat /\ RequiredGovernance \in Nat /\ ValidatorBond \in Nat
  /\ MaxActive \in Nat \ {0} /\ MaxRotations \in Nat /\ RotationInterval \in Nat \ {0}

-----------------------------------------------------------------------------
(* Eligibility. *)

BondMature(node, now) ==
  RequiredGovernance = 0 \/
    /\ node.governance >= RequiredGovernance
    /\ node.governanceUnlock = None
    /\ node.bondedAt # None /\ now >= node.bondedAt + Maturity

GovernanceEligible(L, n, now) ==
  LET node == L.nodes[n]
  IN  /\ n \in Serving(L, now, ProbeValidity)
      /\ node.service >= RequiredService
      /\ node.total >= MinService
      /\ BondMature(node, now)

EligibleNodes(L, now) == {n \in DOMAIN L.nodes : GovernanceEligible(L, n, now)}

CandidateNodes(L, now) ==
  {n \in EligibleNodes(L, now) :
     /\ L.nodes[n].validatorBond >= ValidatorBond
     /\ L.nodes[n].candidateSince # None /\ L.nodes[n].validatorUnlock = None}

MultiValidatorReady(L, now) ==
  Cardinality(EligibleNodes(L, now)) >= MultiNodes /\ Cardinality(L.active) >= MinActive

-----------------------------------------------------------------------------
(* The committee. *)

(* Too small a committee hands availability back to Node 1. *)
FallbackToNode1(L) ==
  IF Cardinality(L.active) < MinDecentralized THEN [L EXCEPT !.mode = "node1"] ELSE L

(* A block is one step, so that no proposal is pending when it is decided. *)
SelectionDue(L, candidates, now) ==
  \/ L.active = {} \/ L.lastSelection = None
  \/ L.lastSelection # None /\ L.epoch - L.lastSelection >= RotationInterval
  \/ ~MultiValidatorReady(L, now) /\ Cardinality(candidates) <= MaxActive /\ candidates # L.active
  \/ L.active \ candidates # {}

(* The first k of S, the smaller by an order that puts a before b. *)
FirstOf(k, S, before(_, _)) ==
  {x \in S : Cardinality({y \in S : before(y, x)}) < k}

Since(L, a, b) ==
  \/ L.nodes[a].candidateSince < L.nodes[b].candidateSince
  \/ L.nodes[a].candidateSince = L.nodes[b].candidateSince /\ a < b

WaitsLonger(L, a, b) ==
  \/ L.nodes[a].lastEpoch < L.nodes[b].lastEpoch
  \/ L.nodes[a].lastEpoch = L.nodes[b].lastEpoch /\ Since(L, a, b)

ServesLonger(L, a, b) ==
  \/ L.nodes[a].consecutive > L.nodes[b].consecutive
  \/ L.nodes[a].consecutive = L.nodes[b].consecutive /\ a < b

(* Members that are still candidates stay; of a full committee at most
   MaxRotations, the longest serving, make room for those who wait. *)
Rotated(L, kept, waiting) ==
  IF Cardinality(kept) = MaxActive
    THEN FirstOf(Min({MaxRotations, Cardinality(waiting)}), kept, LAMBDA a, b : ServesLonger(L, a, b))
    ELSE {}

Filled(L, stay, waiting) ==
  stay \cup FirstOf(MaxActive - Cardinality(stay), waiting, LAMBDA a, b : WaitsLonger(L, a, b))

Selected(L, candidates) ==
  LET kept == L.active \cap candidates
      waiting == candidates \ kept
  IN  IF Cardinality(candidates) <= MaxActive THEN candidates
      ELSE IF kept = {} THEN FirstOf(MaxActive, candidates, LAMBDA a, b : Since(L, a, b))
      ELSE Filled(L, kept \ Rotated(L, kept, waiting), waiting)

Seat(L, new) ==
  [L EXCEPT
     !.active = new, !.lastSelection = L.epoch,
     !.nodes = [n \in DOMAIN @ |->
        [@[n] EXCEPT
           !.validator = n \in new,
           !.consecutive = IF n \notin new THEN 0 ELSE IF n \in L.active THEN @ + 1 ELSE 1,
           !.lastEpoch = IF n \in new THEN L.epoch ELSE @]]]

SelectCommittee(L, candidates, now) ==
  IF SelectionDue(L, candidates, now) THEN FallbackToNode1(Seat(L, Selected(L, candidates))) ELSE L

RefreshCommittee(L, now) ==
  LET F == FallbackToNode1(L) IN SelectCommittee(F, CandidateNodes(F, now), now)

-----------------------------------------------------------------------------
(* Bonds.  The command computes the amount from its ledger; the operation that
   is replayed checks it again. *)

NeededGovernance(L, n) == RequiredGovernance - L.nodes[n].governance

NeededValidator(L, n) == ValidatorBond - L.nodes[n].validatorBond

CanBondGovernance(L, op) ==
  LET node == L.nodes[op.node]
  IN  /\ node.status \notin Leaving /\ node.governanceUnlock = None
      /\ op.amount > 0 /\ node.governance + op.amount >= RequiredGovernance
      /\ L.balances[node.owner] >= op.amount

GovernanceBonded(L, op) ==
  Paid([L EXCEPT !.nodes[op.node].governance = @ + op.amount, !.nodes[op.node].bondedAt = op.stamp],
       L.nodes[op.node].owner, 0 - op.amount)

CanExitGovernance(L, op) ==
  L.nodes[op.node].governance > 0 /\ L.nodes[op.node].governanceUnlock = None

GovernanceExited(L, op) ==
  [L EXCEPT !.nodes[op.node].governanceUnlock = op.stamp + GovernanceUnlock]

CanWithdrawGovernance(L, op) ==
  LET node == L.nodes[op.node]
  IN  /\ node.governanceUnlock # None /\ op.stamp >= node.governanceUnlock
      /\ op.amount > 0 /\ op.amount = node.governance

GovernanceWithdrawn(L, op) ==
  Paid([L EXCEPT !.nodes[op.node].governance = 0, !.nodes[op.node].bondedAt = None,
                 !.nodes[op.node].governanceUnlock = None],
       L.nodes[op.node].owner, op.amount)

CanBondValidator(L, op) == L.balances[L.nodes[op.node].owner] >= op.amount

CanJoinValidators(L, op) ==
  L.nodes[op.node].validatorUnlock = None /\ op.amount > 0 /\ CanBondValidator(L, op)

ValidatorBonded(L, op) ==
  LET node == L.nodes[op.node]
      B == Paid([L EXCEPT !.nodes[op.node].validatorBond = @ + op.amount,
                          !.nodes[op.node].candidateSince =
                             IF node.validatorBond + op.amount >= ValidatorBond /\ @ = None
                               THEN op.stamp ELSE @],
                node.owner, 0 - op.amount)
  IN  RefreshCommittee(B, op.stamp)

CanExitValidator(L, op) ==
  L.nodes[op.node].validatorBond > 0 /\ L.nodes[op.node].validatorUnlock = None

ValidatorExited(L, op) == [L EXCEPT !.nodes[op.node].validatorUnlock = op.stamp + ValidatorUnlock]

(* Mutant: an active validator takes its bond back. *)
MutCanWithdrawValidator(L, op, now) ==
  LET node == L.nodes[op.node]
  IN  /\ node.validatorUnlock # None /\ now >= node.validatorUnlock
      /\ op.amount > 0 /\ op.amount = node.validatorBond

CanWithdrawValidator(L, op, now) ==
  LET node == L.nodes[op.node]
  IN  /\ node.validatorUnlock # None /\ now >= node.validatorUnlock
      /\ ~node.validator /\ op.amount > 0 /\ op.amount = node.validatorBond

ValidatorWithdrawn(L, op) ==
  Paid([L EXCEPT !.nodes[op.node].validatorBond = 0, !.nodes[op.node].candidateSince = None,
                 !.nodes[op.node].validatorUnlock = None],
       L.nodes[op.node].owner, op.amount)

=============================================================================
