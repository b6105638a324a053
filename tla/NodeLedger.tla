----------------------------- MODULE NodeLedger -----------------------------
(***************************************************************************)
(* The life of nodes on a daemon: commands check and execute on mem, the   *)
(* ledger with all pending operations; a block replays the pending         *)
(* operations from fin, the last finalized ledger, between entering the    *)
(* epochs that have begun and settling the ones that are closed.  Fees and *)
(* nonces are in the module Chain, proposals in Governance.                *)
(***************************************************************************)
EXTENDS Emission

CONSTANTS Supply, Balance, Validity, MaxTime, MaxPending, Prices

VARIABLES now, mem, fin, pending

vars == <<now, mem, fin, pending>>

Genesis ==
  [nodes |-> <<>>, balances |-> [o \in Owners |-> Balance], slots |-> <<>>, avail |-> <<>>,
   contexts |-> <<>>, epoch |-> 0, started |-> 0, active |-> {}, lastSelection |-> None,
   mode |-> "node1", paused |-> FALSE, treasury |-> 0, pool |-> Supply, next |-> 1]

Init == now = 0 /\ mem = Genesis /\ fin = Genesis /\ pending = <<>>

-----------------------------------------------------------------------------
(* An operation, as submit_signed_node_operation executes it: at the time t of
   the block, and stamped when it was signed. *)

Allowed(L, op, t) ==
  /\ op.type \notin {"register", "pause", "attest"} => op.node \in DOMAIN L.nodes
  /\ CASE op.type = "register" -> CanRegister(L, op)
       [] op.type = "updateIp" -> CanUpdateIp(L, op)
       [] op.type = "updatePrice" -> CanUpdateTerms(L, op)
       [] op.type = "updateCapabilities" -> CanUpdateCapabilities(L, op)
       [] op.type = "drain" -> CanDrain(L, op)
       [] op.type = "withdrawService" -> CanWithdrawService(L, op, t)
       [] op.type = "claim" -> CanClaim(L, op)
       [] op.type = "bondGovernance" -> CanBondGovernance(L, op)
       [] op.type = "exitGovernance" -> CanExitGovernance(L, op)
       [] op.type = "withdrawGovernance" -> CanWithdrawGovernance(L, op)
       [] op.type = "bondValidator" -> CanBondValidator(L, op)
       [] op.type = "exitValidator" -> CanExitValidator(L, op)
       [] op.type = "withdrawValidator" -> CanWithdrawValidator(L, op, t)
       [] op.type = "attest" -> CanAttest(L, op)
       [] op.type = "pause" -> L.paused # op.on

Effect(L, op, t, full) ==
  CASE op.type = "register" -> Registered(L, op, t)
    [] op.type = "updateIp" -> IpUpdated(L, op, t, Cardinality(EligibleNodes(L, t)) < DirectEnd)
    [] op.type = "updatePrice" -> PriceUpdated(L, op)
    [] op.type = "updateCapabilities" -> CapabilitiesUpdated(L, op)
    [] op.type = "drain" -> Drained(L, op)
    [] op.type = "withdrawService" -> ServiceWithdrawn(L, op)
    [] op.type = "claim" -> Claimed(L, op)
    [] op.type = "bondGovernance" -> GovernanceBonded(L, op)
    [] op.type = "exitGovernance" -> GovernanceExited(L, op)
    [] op.type = "withdrawGovernance" -> GovernanceWithdrawn(L, op)
    [] op.type = "bondValidator" -> ValidatorBonded(L, op)
    [] op.type = "exitValidator" -> ValidatorExited(L, op)
    [] op.type = "withdrawValidator" -> ValidatorWithdrawn(L, op)
    [] op.type = "attest" -> Attested(L, op, full)
    [] op.type = "pause" -> [L EXCEPT !.paused = op.on]

(* An operation that fails changes nothing here; one that expired is dropped. *)
Replay(L, op, t) ==
  IF t <= op.stamp + Validity /\ Allowed(L, op, t) THEN Effect(L, op, t, FALSE) ELSE L

-----------------------------------------------------------------------------
(* Commands.  Each signs an operation with the values of mem and executes it. *)

(* Pending operations are ordered by expiry, signer and nonce. *)
Key(op) ==
  <<op.stamp, 2 * op.node + IF op.type \in {"bondGovernance", "bondValidator"} THEN 1 ELSE 0>>

Before(j, k) == j[1] < k[1] \/ (j[1] = k[1] /\ j[2] <= k[2])

Sorted(ops, op) ==
  SelectSeq(ops, LAMBDA o : Before(Key(o), Key(op))) \o <<op>>
    \o SelectSeq(ops, LAMBDA o : ~Before(Key(o), Key(op)))

Submit(op) ==
  /\ Len(pending) < MaxPending
  /\ Allowed(mem, op, now)
  /\ mem' = Effect(mem, op, now, TRUE)
  /\ pending' = Sorted(pending, op)
  /\ UNCHANGED <<now, fin>>

JoinNode(owner, endpoint) ==
  LET mine == NodesOf(mem, owner)
  IN  /\ mem.next <= MaxNodes
      /\ Submit([type |-> "register", node |-> mem.next, owner |-> owner, endpoint |-> endpoint,
                 previous |-> IF mine = {} THEN None ELSE Max(mine),
                 price |-> MedianPrice(mem, now, ProbeValidity), stamp |-> now])

UpdateRewardIp(n, endpoint) ==
  Submit([type |-> "updateIp", node |-> n, endpoint |-> endpoint, stamp |-> now])

UpdateNodePrice(n, price) ==
  Submit([type |-> "updatePrice", node |-> n, price |-> price, stamp |-> now])

UpdateRelayCapabilities(n) ==
  Submit([type |-> "updateCapabilities", node |-> n, revision |-> mem.nodes[n].revision + 1,
          stamp |-> now])

DrainNode(n) == Submit([type |-> "drain", node |-> n, stamp |-> now])

WithdrawServiceBond(n) ==
  Submit([type |-> "withdrawService", node |-> n, amount |-> mem.nodes[n].service, stamp |-> now])

ClaimNodeRewards(n) ==
  Submit([type |-> "claim", node |-> n, amount |-> mem.nodes[n].claimable, stamp |-> now])

BondGovernance(n) ==
  Submit([type |-> "bondGovernance", node |-> n, amount |-> NeededGovernance(mem, n), stamp |-> now])

RequestGovernanceExit(n) == Submit([type |-> "exitGovernance", node |-> n, stamp |-> now])

WithdrawGovernanceBond(n) ==
  Submit([type |-> "withdrawGovernance", node |-> n, amount |-> mem.nodes[n].governance, stamp |-> now])

JoinValidatorPool(n) ==
  LET op == [type |-> "bondValidator", node |-> n, amount |-> NeededValidator(mem, n), stamp |-> now]
  IN  CanJoinValidators(mem, op) /\ Submit(op)

RequestValidatorExit(n) == Submit([type |-> "exitValidator", node |-> n, stamp |-> now])

WithdrawValidatorBond(n) ==
  Submit([type |-> "withdrawValidator", node |-> n, amount |-> mem.nodes[n].validatorBond, stamp |-> now])

(* A verifier finds a target due, probes it now, and submits the attestation. *)
AttestProbe(verifier, target) ==
  LET slot == ActiveSlot(mem.contexts[mem.epoch], now)
  IN  /\ mem.epoch \in DOMAIN mem.contexts
      /\ ShouldProbe(mem, verifier, target, now)
      /\ Submit([type |-> "attest", node |-> verifier, target |-> target, epoch |-> mem.epoch,
                 slot |-> slot, role |-> RoleOf(VerifierSet(mem, mem.epoch, target, slot), verifier),
                 stamp |-> now])

PauseEmission(on) == Submit([type |-> "pause", node |-> 1, on |-> on, stamp |-> now])

-----------------------------------------------------------------------------
(* Blocks and time. *)

Executed(t) == FoldLeft(LAMBDA L, op : Replay(L, op, t), AdvanceEpochs(fin, t), pending)

(* A block of Node 1 ends with another look at the committee, a block of the
   committee does not. *)
Reseated(L) == IF MultiValidatorReady(mem, now) THEN L ELSE RefreshCommittee(L, now)

Commit(L) ==
  /\ CanSettleEpochs(L, now)
  /\ fin' = Reseated(EndBlock(L, now))
  /\ mem' = fin'
  /\ pending' = <<>>
  /\ UNCHANGED now

ProduceBlock == Commit(Executed(now))

Tick == now < MaxTime /\ now' = now + 1 /\ UNCHANGED <<mem, fin, pending>>

RegistryStep(n) ==
  \/ \E e \in Endpoints : UpdateRewardIp(n, e)
  \/ \E p \in Prices : UpdateNodePrice(n, p)
  \/ UpdateRelayCapabilities(n)
  \/ DrainNode(n)
  \/ WithdrawServiceBond(n)
  \/ ClaimNodeRewards(n)

StakeStep(n) ==
  \/ BondGovernance(n) \/ RequestGovernanceExit(n) \/ WithdrawGovernanceBond(n)
  \/ JoinValidatorPool(n) \/ RequestValidatorExit(n) \/ WithdrawValidatorBond(n)

Next ==
  \/ \E o \in Owners, e \in Endpoints : JoinNode(o, e)
  \/ \E n \in DOMAIN mem.nodes : RegistryStep(n) \/ StakeStep(n)
  \/ \E v, t \in DOMAIN mem.nodes : AttestProbe(v, t)
  \/ \E on \in BOOLEAN : PauseEmission(on)
  \/ ProduceBlock
  \/ Tick

NodeSpec == Init /\ [][Next]_vars

-----------------------------------------------------------------------------
Held(node) ==
  node.service + node.governance + node.validatorBond + node.claimable + VestingReward(node)

Wealth(L) ==
  SumOver(L.balances, Owners) + L.treasury + L.pool
    + MapThenSumSet(LAMBDA n : Held(L.nodes[n]), DOMAIN L.nodes)

(* Both ledgers are well formed, and no amount is ever negative. *)
NodeTypeOK ==
  \A L \in {mem, fin} :
    /\ DOMAIN L.nodes = 1 .. (L.next - 1) /\ L.active \subseteq DOMAIN L.nodes
    /\ L.mode \in {"node1", "multi"} /\ L.treasury \in Nat /\ L.pool \in Nat
    /\ \A o \in Owners : L.balances[o] \in Nat
    /\ \A n \in DOMAIN L.nodes :
         L.nodes[n].status \in Statuses /\ L.nodes[n].service \in Nat /\ L.nodes[n].claimable \in Nat

(* Rewards, vesting, bonds, slashing and withdrawals move money and never make
   or lose any: largest-remainder shares spend exactly the budget, and the
   tranches of a reward add up to it (settle_one_epoch, add_node_reward_vesting). *)
SupplyConserved ==
  \A L \in {mem, fin} : Wealth(L) = Supply + Balance * Cardinality(Owners)

(* Whoever sits on the committee is marked as validator, has its bond at stake
   and is neither draining nor exited; and availability is in the hands of the committee only while it is
   large enough (refresh_validator_committee, finalize_offline_nodes,
   WithdrawValidatorBond). *)
CommitteeBacked ==
  /\ {n \in DOMAIN fin.nodes : fin.nodes[n].validator} = fin.active
  /\ \A n \in fin.active :
       fin.nodes[n].status \notin Leaving /\ fin.nodes[n].validatorBond >= ValidatorBond
  /\ fin.mode = "multi" => Cardinality(fin.active) >= MinDecentralized

(* The seconds of a node in an open epoch are those of the slots credited to it,
   each once, and fit into the epoch.  More would make settle_one_epoch fail in
   every block after the deadline. *)
SecondsWithinEpoch ==
  \A L \in {mem, fin} : \A n \in DOMAIN L.nodes, e \in DOMAIN L.contexts :
    /\ SecondsIn(L.nodes[n], e) <= EpochLength
    /\ SecondsIn(L.nodes[n], e) =
         MapThenSumSet(LAMBDA k : L.avail[k].seconds, {k \in DOMAIN L.avail : k[1] = e /\ k[2] = n})

(* In one slot one address earns for one node, whoever releases it and whoever
   binds it next: several keys do not increase the reward of an address. *)
OneNodePerAddress ==
  \A j, k \in DOMAIN fin.avail :
    /\ j[1] = k[1] /\ j[3] = k[3] /\ fin.avail[j].ip = fin.avail[k].ip
    /\ fin.avail[j].seconds > 0 /\ fin.avail[k].seconds > 0
    => j = k

(* A node that has exited stays out: it never serves, earns time, sits on the
   committee or holds an address again, whatever was still pending when it left
   (finalize_draining_nodes, finalize_offline_nodes). *)
ExitIsFinal ==
  [][\A n \in DOMAIN fin.nodes :
       fin.nodes[n].status = "exited" =>
         /\ fin'.nodes[n].status = "exited" /\ fin'.nodes[n].total = fin.nodes[n].total
         /\ n \notin fin'.active /\ \A s \in DOMAIN fin'.slots : ~Bound(fin', s, n)]_vars

=============================================================================
