------------------------------ MODULE Emission ------------------------------
(***************************************************************************)
(* Epochs: how the protocol clock advances with blocks, how the budget of  *)
(* an epoch is shared, how rewards vest, and how nodes that drain or stay  *)
(* offline leave.                                                          *)
(***************************************************************************)
EXTENDS Availability

CONSTANTS
  EpochLength, Grace, Budget,       \* epoch_seconds, finality grace, epoch_mint_amount
  ImmediatePart, Parts,             \* reward_immediate_bps of BPS_DENOMINATOR
  VestingTime, VestingStep, Quantum,
  OfflineSlash, SingleWeight, BaseWeight

ASSUME EmissionAssumption ==
  /\ EpochLength % SlotLength = 0 /\ EpochLength > 0 /\ Budget \in Nat
  /\ ImmediatePart \in 0 .. Parts /\ VestingTime > 0 /\ VestingStep > 0 /\ Quantum > 0

Without(f, S) == [x \in DOMAIN f \ S |-> f[x]]

-----------------------------------------------------------------------------
(* Epoch contexts.  No code raises the signature rate of a validator, and its
   threshold is at least a half: closing a context finds nobody for the bonus. *)

NewContext(L) ==
  [start |-> L.started, end |-> L.started + EpochLength, deadline |-> L.started + EpochLength + Grace,
   mode |-> L.mode, validators |-> L.active, single |-> ~MultiValidatorReady(L, L.started)]

WithContext(L) == [L EXCEPT !.contexts = @ @@ (L.epoch :> NewContext(L))]

EnsureContext(L) == IF L.epoch \in DOMAIN L.contexts THEN L ELSE WithContext(L)

ActivateMulti(L) ==
  IF L.mode = "node1" /\ Cardinality(L.active) >= MinDecentralized
    THEN [L EXCEPT !.mode = "multi"] ELSE L

NextEpoch(L) ==
  LET end == L.contexts[L.epoch].end
      N == [L EXCEPT !.started = end, !.epoch = @ + 1]
  IN  WithContext(ActivateMulti(RefreshCommittee(N, end)))

(* Enters every epoch that has begun by the time t of a block. *)
AdvanceEpochs(L, t) ==
  LET begun == IF t < L.started THEN 0 ELSE (t - L.started) \div EpochLength
      at[i \in 0 .. begun] == IF i = 0 THEN EnsureContext(L) ELSE NextEpoch(at[i - 1])
  IN  at[begun]

-----------------------------------------------------------------------------
(* Vesting: a reward unlocks in steps, each rounded up to a quantum. *)

Elapsed(i) == Min({i * VestingStep, VestingTime})

Steps == (VestingTime + VestingStep - 1) \div VestingStep

Vested(amount, i) == (amount * Elapsed(i)) \div VestingTime

Tranche(amount, i) == Vested(amount, i) - Vested(amount, i - 1)

QuantizeUp(t) == ((t + Quantum - 1) \div Quantum) * Quantum

AddVesting(vesting, amount, start) ==
  LET parts(u) == {i \in 1 .. Steps : QuantizeUp(start + Elapsed(i)) = u}
      added(u) == MapThenSumSet(LAMBDA i : Tranche(amount, i), parts(u))
      times == {u \in {QuantizeUp(start + Elapsed(i)) : i \in 1 .. Steps} : added(u) > 0}
  IN  [u \in DOMAIN vesting \cup times |->
         (IF u \in DOMAIN vesting THEN vesting[u] ELSE 0) + IF u \in times THEN added(u) ELSE 0]

VestingReward(node) == SumOver(node.vesting, DOMAIN node.vesting)

SettleVesting(node, end) ==
  LET matured == {u \in DOMAIN node.vesting : u <= end}
  IN  [node EXCEPT !.claimable = @ + SumOver(node.vesting, matured), !.vesting = Without(@, matured)]

-----------------------------------------------------------------------------
(* Sharing the budget of an epoch in proportion to weighted seconds, the largest
   remainders first. *)

SecondsIn(node, e) == IF e \in DOMAIN node.seconds THEN node.seconds[e] ELSE 0

Weight(L, e, n) ==
  SecondsIn(L.nodes[n], e) * IF n = 1 /\ L.contexts[e].single THEN SingleWeight ELSE BaseWeight

(* Mutant: every share is rounded up. *)
MutShares(L, e, budget) ==
  LET W == [n \in DOMAIN L.nodes |-> Weight(L, e, n)]
      total == SumOver(W, DOMAIN W)
  IN  [n \in DOMAIN W |-> (budget * W[n] + total - 1) \div total]

LargestRemainder(W, total, budget) ==
  LET whole(n) == (budget * W[n]) \div total
      rest(n) == (budget * W[n]) % total
      left == budget - MapThenSumSet(whole, DOMAIN W)
      lucky == FirstOf(left, {n \in DOMAIN W : W[n] > 0},
                       LAMBDA a, b : rest(a) > rest(b) \/ (rest(a) = rest(b) /\ a < b))
  IN  [n \in DOMAIN W |-> whole(n) + IF n \in lucky THEN 1 ELSE 0]

Shares(L, e, budget) ==
  LET W == [n \in DOMAIN L.nodes |-> Weight(L, e, n)]
  IN  LargestRemainder(W, SumOver(W, DOMAIN W), budget)

(* A reward first fills the Service Bond; of the rest a part is claimable at
   once and the other vests. *)
WithReward(node, toBond, rest, immediate, end) ==
  [node EXCEPT !.service = @ + toBond, !.claimable = @ + immediate,
               !.vesting = AddVesting(@, rest - immediate, end)]

Rewarded(node, reward, end) ==
  LET toBond == Min({reward, Max({RequiredService - node.service, 0})})
  IN  WithReward(node, toBond, reward - toBond, ((reward - toBond) * ImmediatePart) \div Parts, end)

(* Settling fails, and with it every later block, if a node has more seconds
   than the epoch. *)
CanSettle(L, e) == \A n \in DOMAIN L.nodes : SecondsIn(L.nodes[n], e) <= EpochLength

PayEpoch(V, e, share, budget) ==
  [V EXCEPT !.pool = @ - budget,
            !.nodes = [n \in DOMAIN @ |->
               IF Weight(V, e, n) = 0 THEN @[n] ELSE Rewarded(@[n], share[n], V.contexts[e].end)]]

Distribute(V, e, budget) ==
  IF (\A n \in DOMAIN V.nodes : Weight(V, e, n) = 0) \/ budget = 0 THEN V
  ELSE PayEpoch(V, e, Shares(V, e, budget), budget)

ClearSeconds(L, e) ==
  [L EXCEPT !.nodes = [n \in DOMAIN @ |-> [@[n] EXCEPT !.seconds = Without(@, {e})]]]

(* Mutant: the rest of the pool is not looked at. *)
MutEpochBudget(L) == Budget

EpochBudget(L) == Min({Budget, L.pool})

SettleOneEpoch(L, e) ==
  LET V == [L EXCEPT !.nodes = [n \in DOMAIN @ |-> SettleVesting(@[n], L.contexts[e].end)]]
  IN  ClearSeconds(Distribute(V, e, EpochBudget(L)), e)

Closed(L, t) == {e \in DOMAIN L.contexts : e < L.epoch /\ t >= L.contexts[e].deadline}

Forget(L, e) ==
  [L EXCEPT !.contexts = Without(@, {e}), !.avail = Without(@, {k \in DOMAIN @ : k[1] = e})]

CanSettleEpochs(L, t) == \A e \in Closed(L, t) : CanSettle(L, e)

SettleFinalizedEpochs(L, t) ==
  FoldLeft(LAMBDA M, e : Forget(SettleOneEpoch(M, e), e), L, SetToSortSeq(Closed(L, t), <))

-----------------------------------------------------------------------------
(* Nodes that leave.  Both return what vests to the treasury; a node that stays
   offline also loses its Service Bond. *)

Offline(L, t) ==
  {n \in DOMAIN L.nodes :
     LET node == L.nodes[n]
         since == IF node.probe = None THEN node.registered ELSE node.probe
     IN  node.status # "exited" /\ t >= since + OfflineSlash}

Exit(L, n, t, lost, unlock) ==
  LET R == ReleaseNodeIpSlot(L, n, t)
  IN  [R EXCEPT !.treasury = @ + VestingReward(L.nodes[n]) + lost,
                !.nodes[n] = [@ EXCEPT !.status = "exited", !.vesting = <<>>,
                                       !.service = @ - lost, !.serviceUnlock = unlock]]

SlashAll(L, gone, t) ==
  [FoldLeft(LAMBDA M, n : Exit(M, n, t, M.nodes[n].service, None), L, SetToSortSeq(gone, <)) EXCEPT
     !.active = @ \ gone,
     !.nodes = [n \in DOMAIN @ |-> [@[n] EXCEPT !.validator = @ /\ n \notin gone]]]

FinalizeOffline(L, t) ==
  LET gone == Offline(L, t)
  IN  IF gone = {} THEN L ELSE FallbackToNode1(SlashAll(L, gone, t))

FinalizeDraining(L, t) ==
  LET gone == {n \in DOMAIN L.nodes : L.nodes[n].status = "draining"}
      unlock(node) == IF node.service > 0 THEN t + ServiceUnlock ELSE None
  IN  FoldLeft(LAMBDA M, n : Exit(M, n, t, 0, unlock(M.nodes[n])), L, SetToSortSeq(gone, <))

(* What a block does after its operations. *)
EndBlock(L, t) ==
  [FinalizeDraining(FinalizeOffline(SettleFinalizedEpochs(L, t), t), t) EXCEPT
     !.avail = [k \in DOMAIN @ |-> [@[k] EXCEPT !.seenInBlock = None]]]

=============================================================================
