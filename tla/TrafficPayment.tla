--------------------------- MODULE TrafficPayment ---------------------------
(***************************************************************************)
(* The payment side of a relay session on the ledger: the Network fund,    *)
(* the spending policy, the authorizations that reserve part of the fund   *)
(* for one session, their settlement from dual-signed receipts, and their  *)
(* refund.  One Network and one serving Node; the Network Owner (the       *)
(* payer) and the Node Owner are different accounts, and the Node's reward *)
(* address is its owner's.                                                 *)
(*                                                                         *)
(* An operation is judged by the stamp `at' its signer gave it             *)
(* (valid_until minus the default validity) and executes at most Validity  *)
(* later, so operations execute out of stamp order.  A failing operation   *)
(* leaves the ledger as it was: with_ledger_mut discards the draft.        *)
(* Amounts are u128 with checked arithmetic far above the supply: Nat.     *)
(***************************************************************************)
EXTENDS Integers, FiniteSets, FiniteSetsExt

CONSTANTS Sessions,       \* session ids; one authorization each
          Members,
          Policies,       \* spending policies the Owner may set
          Requests,       \* amounts members ask for and the Owner funds
          Prices,         \* prices per unit of traffic the Node may publish
          Receipts,       \* [direction, sequence, bytes, final] both ends sign
          GiB,            \* bytes per priced unit
          Validity,       \* life of a signed operation
          ClaimWindow,    \* RELAY_PAYMENT_CLAIM_SECONDS
          ReceiptDelay,   \* the 30 s between checkpoint and receipt
          FeePerUnit, FeeBps, TreasuryBps, BpsDenominator,
          Expiry,         \* expires_at of every member credential
          OwnerFunds, NodeFunds,   \* account balances at the start
          MaxTime, MaxRevision   \* bounds

Directions == {"SenderToReceiver", "ReceiverToSender"}

\* validate_network_spending_policy; amounts above MAX_SUPPLY are left out.
PolicyType ==
    {p \in [enabled : BOOLEAN, maxSession : Nat, maxMember : Nat,
            maxPrice : Nat, maxDuration : Nat] :
        /\ p.maxSession > 0 /\ p.maxMember >= p.maxSession
        /\ p.maxPrice > 0 /\ p.maxDuration > 0}

ASSUME PaymentAssumption ==
    /\ IsFiniteSet(Sessions) /\ IsFiniteSet(Members)
    /\ Policies \subseteq PolicyType
    /\ Requests \subseteq Nat \ {0}
    /\ Prices \subseteq Nat
    /\ Receipts \subseteq [direction : Directions, sequence : Nat,
                           bytes : Nat, final : BOOLEAN]
    /\ GiB \in Nat \ {0} /\ BpsDenominator \in Nat \ {0}
    /\ Validity \in Nat /\ ClaimWindow \in Nat /\ ReceiptDelay \in Nat
    /\ FeePerUnit \in Nat
    /\ FeeBps \in 0 .. BpsDenominator /\ TreasuryBps \in 0 .. BpsDenominator
    /\ Expiry \in Nat /\ OwnerFunds \in Nat /\ NodeFunds \in Nat
    /\ MaxTime \in Nat /\ MaxRevision \in Nat

VARIABLES now,
          owner, node,        \* account balances
          escrow,             \* escrow_balance of the Network
          treasury, burned,
          policy, revision,   \* spending_policy
          price, accepting,   \* the Node's quote; not draining or exited
          revokedAt,          \* per member; Never when not revoked
          auth                \* payment_authorizations; NoAuth when absent

vars == <<now, owner, node, escrow, treasury, burned, policy, revision,
          price, accepting, revokedAt, auth>>

Never == MaxTime + 1
NoAuth == [status |-> "absent"]

DirectionType == [sequence : Nat, bytes : Nat, amount : Nat, finalized : BOOLEAN]

\* "refunded" and "closed" stand for refunded_at and closed_at being set.
AuthType ==
    [status : {"issued"}, initiator : Members, receiver : Members,
     price : Nat, max : Nat, reserved : Nat, settled : Nat,
     created : Nat, validUntil : Nat, claimUntil : Nat,
     refunded : BOOLEAN, closed : BOOLEAN,
     directions : [Directions -> DirectionType]]

Issued == {s \in Sessions : auth[s] # NoAuth}
Ended(a) == a.refunded \/ a.closed

\* Stamps an operation executing now may carry.
Stamps == {at \in 0 .. now : now <= at + Validity}

PaymentInit ==
    /\ now = 0
    /\ owner = OwnerFunds /\ node = NodeFunds
    /\ escrow = 0 /\ treasury = 0 /\ burned = 0
    /\ policy \in Policies /\ revision = 0
    /\ price \in Prices /\ accepting = TRUE
    /\ revokedAt = [m \in Members |-> Never]
    /\ auth = [s \in Sessions |-> NoAuth]

----------------------------------------------------------------------------
\* The Owner's operations and the Node's quote.

\* Operation fees are burned.
Fee(units) == units * FeePerUnit

FundNetwork(amount) ==
    /\ owner >= amount + Fee(1)
    /\ owner' = owner - amount - Fee(1)
    /\ escrow' = escrow + amount
    /\ burned' = burned + Fee(1)
    /\ UNCHANGED <<now, node, treasury, policy, revision, price, accepting,
                   revokedAt, auth>>

SetSpendingPolicy(p) ==
    /\ revision < MaxRevision
    /\ owner >= Fee(1)
    /\ policy' = p /\ revision' = revision + 1
    /\ owner' = owner - Fee(1) /\ burned' = burned + Fee(1)
    /\ UNCHANGED <<now, node, escrow, treasury, price, accepting, revokedAt, auth>>

RevokeMember(m, at) ==
    /\ revokedAt[m] = Never
    /\ owner >= Fee(1)
    /\ revokedAt' = [revokedAt EXCEPT ![m] = at]
    /\ owner' = owner - Fee(1) /\ burned' = burned + Fee(1)
    /\ UNCHANGED <<now, node, escrow, treasury, policy, revision, price,
                   accepting, auth>>

UpdatePrice(p) ==
    /\ accepting
    /\ node >= Fee(10)
    /\ price' = p
    /\ node' = node - Fee(10) /\ burned' = burned + Fee(10)
    /\ UNCHANGED <<now, owner, escrow, treasury, policy, revision, accepting,
                   revokedAt, auth>>

DrainNode ==
    /\ accepting
    /\ accepting' = FALSE
    /\ UNCHANGED <<now, owner, node, escrow, treasury, burned, policy, revision,
                   price, revokedAt, auth>>

----------------------------------------------------------------------------
\* ReserveSession.  It first takes back every authorization whose claim
\* window is over, then reserves for the new session out of what is there.

Expired(at) == {s \in Issued : ~Ended(auth[s]) /\ at > auth[s].claimUntil}

\* Mutant: the reserve is given back and not cleared.
TakeBackKept(a) == [a EXCEPT !.refunded = TRUE]

TakeBack(a) == [a EXCEPT !.reserved = 0, !.refunded = TRUE]

Swept(at) == [s \in Sessions |-> IF s \in Expired(at) THEN TakeBack(auth[s]) ELSE auth[s]]

\* What each session has reserved.
Reserves(auths) == [s \in Sessions |-> IF auths[s] = NoAuth THEN 0 ELSE auths[s].reserved]

SweptFund(at) == escrow + SumFunctionOnSet(Reserves(auth), Expired(at))

MemberReserved(auths, m) ==
    SumFunctionOnSet(Reserves(auths),
                     {s \in Sessions : /\ auths[s] # NoAuth
                                       /\ auths[s].initiator = m
                                       /\ ~auths[s].refunded})

Saturating(x) == IF x < 0 THEN 0 ELSE x

\* Mutant: the member's other sessions are not counted.
GrantedAlone(m, request, at) ==
    Min({request, policy.maxSession, SweptFund(at), policy.maxMember})

\* max_amount of a reservation: the request cut down to what the policy, the
\* member's remaining capacity and the fund allow.
Granted(m, request, at) ==
    Min({request, policy.maxSession, SweptFund(at),
         Saturating(policy.maxMember - MemberReserved(Swept(at), m))})

MayReserve(m, r, until, at) ==
    /\ m # r
    /\ accepting
    /\ policy.enabled
    /\ price <= policy.maxPrice
    /\ until > at /\ until - at <= policy.maxDuration
    /\ \A x \in {m, r} : revokedAt[x] = Never /\ Expiry >= until

NewAuthorization(m, r, amount, until, at) ==
    [status |-> "issued", initiator |-> m, receiver |-> r, price |-> price,
     max |-> amount, reserved |-> amount, settled |-> 0,
     created |-> at, validUntil |-> until, claimUntil |-> until + ClaimWindow,
     refunded |-> FALSE, closed |-> FALSE,
     directions |-> [d \in Directions |->
        [sequence |-> 0, bytes |-> 0, amount |-> 0, finalized |-> FALSE]]]

\* Mutant: the fee is looked at before the reserve is taken.
FeeCoveredBefore(fund, amount) == fund >= Fee(1)

\* The fee of a reservation is paid by the fund, after the reserve has been
\* taken out of it.
FeeCovered(fund, amount) == fund - amount >= Fee(1)

\* Mutant: an id may be used again once its session has ended.
IdNotOpen(s) == s \in Issued => Ended(auth[s])

IdUnused(s) == auth[s] = NoAuth

\* The price, policy revision and capability quoted in the operation are
\* those of the ledger, or the operation fails.
ReserveSession(s, m, r, request, until, at) ==
    /\ IdUnused(s)
    /\ MayReserve(m, r, until, at)
    /\ \E amount \in 1 .. request :
        /\ amount = Granted(m, request, at)
        /\ FeeCovered(SweptFund(at), amount)
        /\ escrow' = SweptFund(at) - amount - Fee(1)
        /\ auth' = [Swept(at) EXCEPT ![s] = NewAuthorization(m, r, amount, until, at)]
    /\ burned' = burned + Fee(1)
    /\ UNCHANGED <<now, owner, node, treasury, policy, revision, price,
                   accepting, revokedAt>>

----------------------------------------------------------------------------
\* Refund, by the Network Owner after the claim window or by the Node Owner,
\* who thereby abandons the session, at any time.

ClaimWindowOver(s, at) == at > auth[s].claimUntil

Refund(s) ==
    /\ s \in Issued
    /\ ~auth[s].refunded
    /\ escrow' = escrow + auth[s].reserved
    /\ auth' = [auth EXCEPT ![s] = TakeBack(@)]
    /\ UNCHANGED <<now, owner, node, treasury, burned, policy, revision, price,
                   accepting, revokedAt>>

RefundByOwner(s, at) == s \in Issued /\ ClaimWindowOver(s, at) /\ Refund(s)
RefundByNode(s) == Refund(s)

----------------------------------------------------------------------------
\* Settle: apply_traffic_settlement, submitted by the Node Owner.

\* ceil(bytes * price / 1 GiB)
Owed(bytes, p) == (bytes * p + GiB - 1) \div GiB

ValidAt(m, t) == t < Expiry /\ t < revokedAt[m]

\* Times at which the two ends may have signed a receipt that settles: the
\* data sender at `sent', the data receiver at `received'.
ReceiptInTime(a, d, at) ==
    LET sender == IF d = "SenderToReceiver" THEN a.initiator ELSE a.receiver
        receiver == IF d = "SenderToReceiver" THEN a.receiver ELSE a.initiator
    IN  /\ at <= a.claimUntil
        /\ \E sent, received \in 0 .. now :
            /\ sent >= a.created
            /\ received >= sent /\ received - sent <= ReceiptDelay
            /\ received <= a.validUntil
            /\ ValidAt(sender, sent) /\ ValidAt(receiver, received)

\* Mutant: a final receipt does not end its direction.
NewerPrefix(rcpt, prev) ==
    /\ rcpt.sequence >= prev.sequence /\ rcpt.bytes >= prev.bytes
    /\ rcpt.final \/ rcpt.sequence # prev.sequence \/ rcpt.bytes # prev.bytes

StrictlyNewer(rcpt, prev) ==
    /\ rcpt.sequence >= prev.sequence /\ rcpt.bytes >= prev.bytes
    /\ rcpt.final \/ rcpt.sequence # prev.sequence \/ rcpt.bytes # prev.bytes
    /\ ~prev.finalized

Claimable(a) == ~a.refunded /\ a.reserved > 0

\* Mutant: every window is rounded up on its own.
AmountPerWindow(a, rcpt) == Owed(rcpt.bytes - a.directions[rcpt.direction].bytes, a.price)

\* What a receipt adds to what its direction has been paid.
Amount(a, rcpt) == Owed(rcpt.bytes, a.price) - a.directions[rcpt.direction].amount

\* The settled direction.
Advanced(a, rcpt, amount) ==
    [a.directions EXCEPT ![rcpt.direction] =
        [sequence |-> rcpt.sequence, bytes |-> rcpt.bytes,
         amount |-> @.amount + amount, finalized |-> rcpt.final]]

\* Mutant: closing leaves the rest reserved.
SettledUnreleased(a, rcpt, amount) ==
    LET directions == Advanced(a, rcpt, amount)
    IN  [a EXCEPT !.reserved = @ - amount, !.settled = @ + amount,
                  !.directions = directions,
                  !.closed = \A x \in Directions : directions[x].finalized]

\* The authorization after a settlement; when both directions are final the
\* rest of the reserve is released.
SettledAuthorization(a, rcpt, amount) ==
    LET directions == Advanced(a, rcpt, amount)
        done == \A x \in Directions : directions[x].finalized
    IN  [a EXCEPT !.reserved = IF done THEN 0 ELSE @ - amount,
                  !.settled = @ + amount,
                  !.directions = directions,
                  !.closed = done]

Settle(s, rcpt, at) ==
    /\ s \in Issued
    /\ rcpt.final \/ (rcpt.sequence > 0 /\ rcpt.bytes > 0)
    /\ Claimable(auth[s])
    /\ ReceiptInTime(auth[s], rcpt.direction, at)
    /\ StrictlyNewer(rcpt, auth[s].directions[rcpt.direction])
    /\ \E amount \in 0 .. auth[s].reserved :
        LET settled == SettledAuthorization(auth[s], rcpt, amount)
            fee == (amount * FeeBps) \div BpsDenominator
            toTreasury == (fee * TreasuryBps) \div BpsDenominator
        IN  /\ amount = Amount(auth[s], rcpt)
            /\ auth' = [auth EXCEPT ![s] = settled]
            /\ escrow' = escrow + (auth[s].reserved - amount - settled.reserved)
            /\ treasury' = treasury + toTreasury
            /\ burned' = burned + (fee - toTreasury)
            /\ node' = node + (amount - fee)
    /\ UNCHANGED <<now, owner, policy, revision, price, accepting, revokedAt>>

Tick ==
    /\ now < MaxTime
    /\ now' = now + 1
    /\ UNCHANGED <<owner, node, escrow, treasury, burned, policy, revision,
                   price, accepting, revokedAt, auth>>

PaymentNext ==
    \/ Tick
    \/ \E amount \in Requests : FundNetwork(amount)
    \/ \E p \in Policies : SetSpendingPolicy(p)
    \/ \E m \in Members, at \in Stamps : RevokeMember(m, at)
    \/ \E p \in Prices : UpdatePrice(p)
    \/ DrainNode
    \/ \E s \in Sessions, m, r \in Members, request \in Requests, at \in Stamps :
          \E until \in at + 1 .. Expiry : ReserveSession(s, m, r, request, until, at)
    \/ \E s \in Sessions, at \in Stamps : RefundByOwner(s, at)
    \/ \E s \in Sessions : RefundByNode(s)
    \/ \E s \in Sessions, rcpt \in Receipts, at \in Stamps : Settle(s, rcpt, at)

PaymentSpec == PaymentInit /\ [][PaymentNext]_vars

----------------------------------------------------------------------------
\* Type invariant.  Balances never go negative: no operation spends what its
\* payer does not have.
PaymentTypeOK ==
    /\ now \in 0 .. MaxTime
    /\ {owner, node, escrow, treasury, burned} \subseteq Nat
    /\ policy \in Policies /\ revision \in 0 .. MaxRevision
    /\ price \in Prices /\ accepting \in BOOLEAN
    /\ revokedAt \in [Members -> 0 .. Never]
    /\ auth \in [Sessions -> AuthType \cup {NoAuth}]

\* Traffic payment moves or burns MRK and never creates or loses any: the
\* accounts, the fund, every reserve, the treasury and the burn counter always
\* add up to what was there at the start.  Reservations, reclaims, partial
\* settlements, closes and refunds of several sessions interleave.
Conservation ==
    owner + node + escrow + treasury + burned + SumFunctionOnSet(Reserves(auth), Sessions)
        = OwnerFunds + NodeFunds

\* While an authorization is open, what is reserved and what is settled make
\* up max_amount; once it is refunded or closed nothing stays reserved; and
\* the Node never gets more than max_amount.
AuthorizationAccounted ==
    \A s \in Issued :
        LET a == auth[s]
        IN  /\ a.settled <= a.max
            /\ IF Ended(a) THEN a.reserved = 0 ELSE a.reserved + a.settled = a.max

\* Aggregation is exact: whatever receipts of a session were settled, in how
\* many steps and after whatever price updates, what the Node was paid for a
\* direction is the price fixed at reservation times the largest settled
\* prefix, rounded up once, and the authorization's total is the sum of both
\* directions.
PaidForTraffic ==
    \A s \in Issued :
        LET a == auth[s]
        IN  /\ \A d \in Directions :
                a.directions[d].amount = Owed(a.directions[d].bytes, a.price)
            /\ a.settled = a.directions["SenderToReceiver"].amount
                            + a.directions["ReceiverToSender"].amount

\* A step that reserves for a member leaves what the member has reserved in
\* all its sessions within the policy in force, also when the policy was
\* lowered while sessions were open and when the step reclaims others.
MemberWithinLimit ==
    [][\A m \in Members :
          MemberReserved(auth', m) > MemberReserved(auth, m)
              => MemberReserved(auth', m) <= policy.maxMember]_vars

\* A receipt that was settled is never undone or overtaken by an older one,
\* and terms of an issued authorization never change: UpdatePrice,
\* SetSpendingPolicy and RevokeMember have no effect on it.
SettledPrefixStands ==
    [][\A s \in Issued :
          /\ \A f \in {"initiator", "receiver", "price", "max", "created",
                       "validUntil", "claimUntil"} : auth'[s][f] = auth[s][f]
          /\ \A d \in Directions :
                LET old == auth[s].directions[d]
                    new == auth'[s].directions[d]
                IN  /\ new.sequence >= old.sequence /\ new.bytes >= old.bytes
                    /\ new.amount >= old.amount
                    /\ old.finalized => new = old]_vars

\* The ledger implements PaymentPromise.
Promise == INSTANCE PaymentPromise WITH
    phase <- [s \in Sessions |-> IF auth[s] = NoAuth THEN "absent"
                                 ELSE IF Ended(auth[s]) THEN "ended" ELSE "open"],
    deposit <- [s \in Sessions |-> IF auth[s] = NoAuth THEN 0 ELSE auth[s].max],
    paid <- [s \in Sessions |-> IF auth[s] = NoAuth THEN 0 ELSE auth[s].settled],
    held <- [s \in Sessions |-> IF auth[s] = NoAuth THEN 0 ELSE auth[s].reserved]

\* Every operation moves every session as PaymentPromise allows: the deposit
\* is fixed when the session opens, payments come out of it and are never
\* taken back, and an ended session neither pays nor holds anything again.
KeepsPromise == Promise!PromiseSpec
=============================================================================
