------------------------------ MODULE Registry ------------------------------
(***************************************************************************)
(* Node records, the registry operations and the binding of a public IP to *)
(* one node.                                                               *)
(*                                                                         *)
(* A ledger is a record: nodes (node id -> NodeRecord), balances (of the   *)
(* reward account of every owner), slots (IP slot -> binding), treasury,   *)
(* pool (not yet minted), and what the modules Stake and Emission add.  An *)
(* operation is a guard and a function from ledgers to ledgers; NodeLedger *)
(* runs them.  Times are small numbers; None is an absent time.            *)
(***************************************************************************)
EXTENDS Integers, FiniteSetsExt, SequencesExt, Functions

CONSTANTS
  Owners,                  \* owners; each has one reward account
  Endpoints, SlotOf,       \* WSS endpoints and the IP slot each resolves to
  MaxNodes,                \* bound on node ids
  Warmup, Cooldown, ServiceUnlock,
  DefaultPrice, None

ASSUME RegistryAssumption ==
  /\ SlotOf \in [Endpoints -> STRING]
  /\ MaxNodes \in Nat /\ Warmup \in Nat /\ Cooldown \in Nat /\ ServiceUnlock \in Nat
  /\ None \notin Int

Statuses == {"warmingUp", "active", "draining", "exited"}

(* Statuses of a node that serves nobody any more.  SUSPENDED is never assigned. *)
Leaving == {"draining", "exited"}

SumOver(f, S) == MapThenSumSet(LAMBDA x : f[x], S)

NodesOf(L, owner) == {n \in DOMAIN L.nodes : L.nodes[n].owner = owner}

IpSlot(L, n) == SlotOf[L.nodes[n].endpoint]

-----------------------------------------------------------------------------
(* IP slots. *)

Bound(L, s, n) == s \in DOMAIN L.slots /\ L.slots[s].node = n /\ L.slots[s].released = None

SlotAvailable(L, s, at) ==
  s \in DOMAIN L.slots =>
    /\ L.slots[s].released # None
    /\ at >= L.slots[s].released /\ at - L.slots[s].released >= Cooldown

WithSlot(L, s, n, at) ==
  [L EXCEPT !.slots = [t \in DOMAIN @ \cup {s} |->
                         IF t = s THEN [node |-> n, bound |-> at, released |-> None] ELSE @[t]]]

BindIpSlotIfAvailable(L, s, n, at) ==
  IF ~Bound(L, s, n) /\ SlotAvailable(L, s, at) THEN WithSlot(L, s, n, at) ELSE L

NodeOwnsIpSlotAt(L, n, at) == Bound(L, IpSlot(L, n), n) /\ L.slots[IpSlot(L, n)].bound <= at

ReleaseNodeIpSlot(L, n, at) ==
  IF Bound(L, IpSlot(L, n), n) THEN [L EXCEPT !.slots[IpSlot(L, n)].released = at] ELSE L

-----------------------------------------------------------------------------
(* Registration. *)

EndpointAvailable(L, endpoint, except) ==
  \A n \in DOMAIN L.nodes \ except :
    L.nodes[n].status # "exited" => L.nodes[n].endpoint # endpoint

Settled(node) ==
  node.claimable = 0 /\ DOMAIN node.vesting = {} /\ node.service = 0
    /\ node.governance = 0 /\ node.validatorBond = 0

(* An owner has one live node; a new one continues from the last, which has
   exited and holds nothing. *)
OwnerMayRegister(L, owner, previous) ==
  LET mine == NodesOf(L, owner)
  IN  /\ \A n \in mine : L.nodes[n].status = "exited"
      /\ IF mine = {} THEN previous = None
         ELSE previous = Max(mine) /\ previous # 1 /\ Settled(L.nodes[previous])

NewNode(n, op) ==
  [owner |-> op.owner, endpoint |-> op.endpoint, price |-> op.price, revision |-> 1,
   status |-> IF n = 1 THEN "active" ELSE "warmingUp",
   registered |-> op.stamp, warmupUntil |-> IF n = 1 THEN op.stamp ELSE op.stamp + Warmup,
   probe |-> None, seconds |-> <<>>, total |-> 0,
   service |-> 0, serviceUnlock |-> None,
   governance |-> 0, bondedAt |-> None, governanceUnlock |-> None,
   claimable |-> 0, vesting |-> <<>>,
   validator |-> FALSE, validatorBond |-> 0, candidateSince |-> None, lastEpoch |-> 0,
   consecutive |-> 0, validatorUnlock |-> None]

CanRegister(L, op) ==
  /\ op.node = L.next
  /\ OwnerMayRegister(L, op.owner, op.previous)
  /\ EndpointAvailable(L, op.endpoint, {})

Registered(L, op, now) ==
  LET M == [L EXCEPT !.nodes = @ @@ (op.node :> NewNode(op.node, op)), !.next = @ + 1]
  IN  BindIpSlotIfAvailable(M, SlotOf[op.endpoint], op.node, now)

(* join_node proposes the median price of the nodes that serve. *)
Serving(L, now, validity) ==
  {n \in DOMAIN L.nodes : /\ L.nodes[n].status = "active" /\ NodeOwnsIpSlotAt(L, n, now)
                          /\ L.nodes[n].probe # None /\ L.nodes[n].probe <= now
                          /\ now - L.nodes[n].probe <= validity}

MedianPrice(L, now, validity) ==
  LET S == Serving(L, now, validity)
      prices == SortSeq(SetToSeq({<<L.nodes[n].price, n>> : n \in S}),
                        LAMBDA a, b : a[1] < b[1] \/ (a[1] = b[1] /\ a[2] < b[2]))
      mid == Len(prices) \div 2
      at(i) == prices[i][1]
  IN  IF S = {} THEN DefaultPrice
      ELSE IF Len(prices) % 2 = 1 THEN at(mid + 1)
      ELSE at(mid) + (at(mid + 1) - at(mid)) \div 2

-----------------------------------------------------------------------------
(* Updates by the owner. *)

CanUpdateTerms(L, op) == L.nodes[op.node].status \notin Leaving

PriceUpdated(L, op) == [L EXCEPT !.nodes[op.node].price = op.price]

CanUpdateCapabilities(L, op) ==
  CanUpdateTerms(L, op) /\ op.revision = L.nodes[op.node].revision + 1

CapabilitiesUpdated(L, op) == [L EXCEPT !.nodes[op.node].revision = op.revision]

(* Mutant: a leaving node takes a new address. *)
MutCanUpdateIp(L, op) == EndpointAvailable(L, op.endpoint, {op.node})

CanUpdateIp(L, op) ==
  EndpointAvailable(L, op.endpoint, {op.node}) /\ L.nodes[op.node].status \notin Leaving

(* A new address warms up again; the probe clock goes on.  While Node 1 governs
   directly it does not wait. *)
IpUpdated(L, op, now, direct) ==
  LET new == SlotOf[op.endpoint]
      same == IpSlot(L, op.node) = new
      R == IF same THEN L ELSE ReleaseNodeIpSlot(L, op.node, now)
      U == [R EXCEPT !.nodes[op.node] =
              [@ EXCEPT !.endpoint = op.endpoint, !.status = "warmingUp",
                        !.warmupUntil = now + IF op.node = 1 /\ direct THEN 0 ELSE Warmup]]
  IN  IF same /\ Bound(L, new, op.node) THEN [U EXCEPT !.slots[new].bound = now]
      ELSE BindIpSlotIfAvailable(U, new, op.node, now)

(* A node is drained only after every stake has been withdrawn. *)
CanDrain(L, op) ==
  LET node == L.nodes[op.node]
  IN  /\ node.status \notin Leaving
      /\ ~node.validator /\ node.validatorBond = 0 /\ node.candidateSince = None
      /\ node.validatorUnlock = None
      /\ node.governance = 0 /\ node.bondedAt = None /\ node.governanceUnlock = None

Drained(L, op) == [L EXCEPT !.nodes[op.node].status = "draining"]

Paid(L, owner, amount) == [L EXCEPT !.balances[owner] = @ + amount]

CanWithdrawService(L, op, now) ==
  LET node == L.nodes[op.node]
  IN  /\ node.status = "exited" /\ node.serviceUnlock # None /\ now >= node.serviceUnlock
      /\ op.amount > 0 /\ op.amount = node.service

ServiceWithdrawn(L, op) ==
  Paid([L EXCEPT !.nodes[op.node].service = 0, !.nodes[op.node].serviceUnlock = None],
       L.nodes[op.node].owner, op.amount)

CanClaim(L, op) == op.amount > 0 /\ op.amount <= L.nodes[op.node].claimable

Claimed(L, op) ==
  Paid([L EXCEPT !.nodes[op.node].claimable = @ - op.amount], L.nodes[op.node].owner, op.amount)

=============================================================================
