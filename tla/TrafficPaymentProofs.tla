------------------------ MODULE TrafficPaymentProofs ------------------------
(***************************************************************************)
(* Proofs about TrafficPayment, for every set of sessions, members,        *)
(* policies, prices and receipts and for all fees and time spans.          *)
(*                                                                         *)
(* One operation may touch many authorizations, but it does to each one of *)
(* four things: nothing, issue it, take its reserve back, or settle a      *)
(* receipt.  StepForms says so; the rest of the argument is about one      *)
(* authorization, until the sums over all sessions (Conservation and       *)
(* MemberWithinLimit), which rest on FiniteSums.                           *)
(***************************************************************************)
EXTENDS TrafficPayment, FiniteSums

\* What an issued authorization satisfies at all times.
Sound(a) ==
    /\ a \in AuthType
    /\ a.max > 0
    /\ a.settled <= a.max
    /\ IF Ended(a) THEN a.reserved = 0 ELSE a.reserved + a.settled = a.max
    /\ \A d \in Directions : a.directions[d].amount = Owed(a.directions[d].bytes, a.price)
    /\ a.settled = a.directions["SenderToReceiver"].amount
                    + a.directions["ReceiverToSender"].amount
    /\ a.closed <=> \A d \in Directions : a.directions[d].finalized

\* The inductive invariant.
IInv ==
    /\ now \in Nat /\ price \in Nat
    /\ DOMAIN auth = Sessions
    /\ \A s \in Sessions : auth[s] = NoAuth \/ Sound(auth[s])

\* What one operation can do to one authorization.
Issue(a, b) ==
    /\ a = NoAuth
    /\ \E m, r \in Members, amount \in Nat \ {0}, until, at \in Nat :
          b = NewAuthorization(m, r, amount, until, at)

GiveBack(a, b) == a # NoAuth /\ ~a.refunded /\ b = TakeBack(a)

SettleOne(a, b) ==
    /\ a # NoAuth
    /\ Claimable(a)
    /\ \E rcpt \in Receipts : \E amount \in 0 .. a.reserved :
          /\ StrictlyNewer(rcpt, a.directions[rcpt.direction])
          /\ amount = Amount(a, rcpt)
          /\ b = SettledAuthorization(a, rcpt, amount)

SessionStep(a, b) == b = a \/ Issue(a, b) \/ GiveBack(a, b) \/ SettleOne(a, b)

----------------------------------------------------------------------------
\* The price of a prefix is a natural number, and an empty prefix is free.
LEMMA OwedNat ==
    ASSUME NEW bytes \in Nat, NEW p \in Nat
    PROVE  Owed(bytes, p) \in Nat /\ Owed(0, p) = 0
  <1>1. bytes * p \in Nat
    OBVIOUS
  <1>2. GiB \in Nat \ {0}
    BY PaymentAssumption
  <1>3. ASSUME NEW x \in Nat PROVE (x + GiB - 1) \div GiB \in Nat
    BY <1>2
  <1>4. Owed(bytes, p) \in Nat
    BY <1>1, <1>3 DEF Owed
  <1>5. 0 * p = 0
    OBVIOUS
  <1>6. (GiB - 1) \div GiB = 0
    BY <1>2
  <1> QED
    BY <1>2, <1>4, <1>5, <1>6 DEF Owed

\* An issued authorization is not the absent one.
LEMMA IssuedIsNotAbsent ==
    ASSUME NEW a \in AuthType
    PROVE  a # NoAuth
  <1>1. a.status = "issued"
    BY DEF AuthType
  <1>2. NoAuth.status = "absent"
    BY DEF NoAuth
  <1> QED
    BY <1>1, <1>2

\* A new authorization is sound.
LEMMA NewIsSound ==
    ASSUME NEW m \in Members, NEW r \in Members, NEW amount \in Nat \ {0},
           NEW until \in Nat, NEW at \in Nat, price \in Nat
    PROVE  Sound(NewAuthorization(m, r, amount, until, at))
  <1> DEFINE a == NewAuthorization(m, r, amount, until, at)
  <1>1. ClaimWindow \in Nat
    BY PaymentAssumption
  <1>2. a \in AuthType
    BY <1>1 DEF NewAuthorization, AuthType, DirectionType
  <1>3. \A d \in Directions : /\ a.directions[d].amount = 0
                              /\ a.directions[d].bytes = 0
                              /\ ~a.directions[d].finalized
    BY DEF NewAuthorization
  <1>4. /\ a.max = amount /\ a.reserved = amount /\ a.settled = 0
        /\ a.price = price /\ ~a.refunded /\ ~a.closed
    BY DEF NewAuthorization
  <1>5. Owed(0, price) = 0
    BY OwedNat
  <1> HIDE DEF a
  <1>6. Sound(a)
    BY <1>2, <1>3, <1>4, <1>5 DEF Sound, Ended, Directions
  <1> QED
    BY <1>6 DEF a

\* Taking the reserve back keeps an authorization sound.
LEMMA TakeBackIsSound ==
    ASSUME NEW a, Sound(a)
    PROVE  Sound(TakeBack(a))
  <1>1. a \in AuthType
    BY DEF Sound
  <1>2. TakeBack(a) \in AuthType
    BY Zenon, <1>1 DEF TakeBack, AuthType
  <1>3. /\ TakeBack(a).reserved = 0 /\ TakeBack(a).refunded
        /\ TakeBack(a).max = a.max /\ TakeBack(a).settled = a.settled
        /\ TakeBack(a).price = a.price /\ TakeBack(a).closed = a.closed
        /\ TakeBack(a).directions = a.directions
    BY <1>1 DEF TakeBack, AuthType
  <1> QED
    BY <1>2, <1>3 DEF Sound, Ended

\* What settling one receipt does to a sound, claimable authorization.
LEMMA SettledFields ==
    ASSUME NEW a, Sound(a), Claimable(a), NEW rcpt \in Receipts,
           NEW amount \in 0 .. a.reserved, amount = Amount(a, rcpt)
    PROVE  LET b == SettledAuthorization(a, rcpt, amount)
           IN  /\ b \in AuthType
               /\ b.settled = a.settled + amount
               /\ b.directions = Advanced(a, rcpt, amount)
               /\ b.closed <=> \A d \in Directions : b.directions[d].finalized
               /\ b.reserved = IF b.closed THEN 0 ELSE a.reserved - amount
               /\ ~a.refunded /\ ~a.closed /\ ~b.refunded
               /\ \A f \in {"initiator", "receiver", "price", "max", "created",
                            "validUntil", "claimUntil"} : b[f] = a[f]
  <1> DEFINE b == SettledAuthorization(a, rcpt, amount)
             dirs == Advanced(a, rcpt, amount)
             done == \A d \in Directions : dirs[d].finalized
  <1>1. a \in AuthType
    BY DEF Sound
  <1>2. /\ rcpt.direction \in Directions /\ rcpt.sequence \in Nat
        /\ rcpt.bytes \in Nat /\ rcpt.final \in BOOLEAN
    BY PaymentAssumption
  <1>3. dirs \in [Directions -> DirectionType]
    <2>1. a.directions \in [Directions -> DirectionType] /\ a.reserved \in Nat
      BY <1>1 DEF AuthType
    <2>2. a.directions[rcpt.direction].amount + amount \in Nat
      BY <1>2, <2>1 DEF DirectionType
    <2> QED
      BY <1>2, <2>1, <2>2 DEF Advanced, DirectionType
  <1>4. done \in BOOLEAN
    OBVIOUS
  <1>5. b = [a EXCEPT !.reserved = IF done THEN 0 ELSE a.reserved - amount,
                      !.settled = a.settled + amount,
                      !.directions = dirs, !.closed = done]
    BY <1>1 DEF SettledAuthorization, AuthType
  <1> HIDE DEF dirs, done, b
  <1>6. /\ b.settled = a.settled + amount /\ b.directions = dirs /\ b.closed = done
        /\ b.reserved = (IF done THEN 0 ELSE a.reserved - amount)
        /\ b.refunded = a.refunded
        /\ b.initiator = a.initiator /\ b.receiver = a.receiver /\ b.price = a.price
        /\ b.max = a.max /\ b.created = a.created /\ b.validUntil = a.validUntil
        /\ b.claimUntil = a.claimUntil
    BY <1>1, <1>5 DEF AuthType
  <1>8. b \in AuthType
    <2>1. a.reserved \in Nat /\ a.settled \in Nat
      BY <1>1 DEF AuthType
    <2>2. (IF done THEN 0 ELSE a.reserved - amount) \in Nat /\ a.settled + amount \in Nat
      BY <2>1
    <2> DEFINE left == IF done THEN 0 ELSE a.reserved - amount
               paid == a.settled + amount
    <2> HIDE DEF left, paid
    <2>3. left \in Nat /\ paid \in Nat
      BY <2>2 DEF left, paid
    <2>4. b = [a EXCEPT !.reserved = left, !.settled = paid,
                        !.directions = dirs, !.closed = done]
      BY <1>5 DEF left, paid
    <2> QED
      BY Zenon, <1>1, <1>3, <1>4, <2>3, <2>4 DEF AuthType
  <1>7. ~a.refunded /\ ~a.closed
    BY <1>1 DEF Sound, Claimable, Ended, AuthType
  <1> QED
    BY <1>4, <1>6, <1>7, <1>8 DEF b, dirs, done

\* Settling one receipt keeps an authorization sound.
LEMMA SettledIsSound ==
    ASSUME NEW a, Sound(a), Claimable(a), NEW rcpt \in Receipts,
           NEW amount \in 0 .. a.reserved, amount = Amount(a, rcpt)
    PROVE  Sound(SettledAuthorization(a, rcpt, amount))
  <1> DEFINE b == SettledAuthorization(a, rcpt, amount)
  <1>1. /\ b \in AuthType
        /\ b.settled = a.settled + amount
        /\ b.directions = Advanced(a, rcpt, amount)
        /\ b.closed <=> \A d \in Directions : b.directions[d].finalized
        /\ b.reserved = IF b.closed THEN 0 ELSE a.reserved - amount
        /\ ~a.refunded /\ ~a.closed /\ ~b.refunded
        /\ b.price = a.price /\ b.max = a.max
    BY SettledFields
  <1> HIDE DEF b
  <1>2. a \in AuthType
    BY DEF Sound
  <1>3. /\ a.max \in Nat /\ a.reserved \in Nat /\ a.settled \in Nat /\ a.price \in Nat
        /\ a.directions \in [Directions -> DirectionType]
    BY <1>2 DEF AuthType
  <1>4. a.max > 0 /\ a.reserved + a.settled = a.max
    BY <1>1 DEF Sound, Ended
  <1>5. rcpt.direction \in Directions /\ rcpt.bytes \in Nat
    BY PaymentAssumption
  <1>6. /\ b.directions[rcpt.direction].bytes = rcpt.bytes
        /\ b.directions[rcpt.direction].amount
              = a.directions[rcpt.direction].amount + amount
        /\ \A d \in Directions \ {rcpt.direction} : b.directions[d] = a.directions[d]
    BY <1>1, <1>3, <1>5 DEF Advanced
  <1>7. \A d \in Directions : a.directions[d].amount \in Nat
    BY <1>3 DEF DirectionType
  <1>8. Owed(rcpt.bytes, a.price) \in Nat
    BY Zenon, <1>3, <1>5, OwedNat
  <1>9. b.directions[rcpt.direction].amount = Owed(rcpt.bytes, a.price)
    BY <1>5, <1>6, <1>7, <1>8 DEF Amount
  <1>10. \A d \in Directions : b.directions[d].amount = Owed(b.directions[d].bytes, b.price)
    BY <1>1, <1>5, <1>6, <1>9 DEF Sound
  <1>11. b.settled = b.directions["SenderToReceiver"].amount
                      + b.directions["ReceiverToSender"].amount
    BY <1>1, <1>5, <1>6, <1>7 DEF Sound, Directions
  <1>12. b.settled <= b.max
    BY <1>1, <1>3, <1>4
  <1>13. IF Ended(b) THEN b.reserved = 0 ELSE b.reserved + b.settled = b.max
    BY <1>1, <1>3, <1>4 DEF Ended
  <1>14. Sound(b)
    BY <1>1, <1>4, <1>10, <1>11, <1>12, <1>13 DEF Sound
  <1> QED
    BY <1>14 DEF b

\* Settling amount makes b out of a.
SettledInto(a, b, amount) ==
    /\ Sound(b) /\ b \in AuthType /\ b # NoAuth /\ b.initiator = a.initiator
    /\ a.reserved \in Nat /\ amount \in Nat /\ amount <= a.reserved
    /\ b.reserved = IF b.closed THEN 0 ELSE a.reserved - amount
    /\ ~a.refunded /\ ~b.refunded

\* What later lemmas need of a settlement.
LEMMA SettledCounts ==
    ASSUME NEW a, Sound(a), Claimable(a), NEW rcpt \in Receipts,
           NEW amount \in 0 .. a.reserved, amount = Amount(a, rcpt)
    PROVE  SettledInto(a, SettledAuthorization(a, rcpt, amount), amount)
  <1> DEFINE b == SettledAuthorization(a, rcpt, amount)
  <1>1. /\ b \in AuthType /\ b.reserved = IF b.closed THEN 0 ELSE a.reserved - amount
        /\ ~a.refunded /\ ~b.refunded /\ b["initiator"] = a["initiator"]
    BY SettledFields
  <1>2. Sound(b)
    BY Zenon, SettledIsSound
  <1> HIDE DEF b
  <1>3. b # NoAuth
    BY Zenon, <1>1, IssuedIsNotAbsent
  <1>4. a.reserved \in Nat
    BY DEF Sound, AuthType
  <1>5. amount \in Nat /\ amount <= a.reserved
    BY <1>4
  <1> QED
    BY Zenon, <1>1, <1>2, <1>3, <1>4, <1>5 DEF SettledInto, b

\* A new authorization is issued, the absent one is not.
LEMMA NewStatus ==
    ASSUME NEW m, NEW r, NEW amount, NEW until, NEW at
    PROVE  NewAuthorization(m, r, amount, until, at) # NoAuth
  <1>1. NewAuthorization(m, r, amount, until, at).status = "issued"
    BY DEF NewAuthorization
  <1>2. NoAuth.status = "absent"
    BY DEF NoAuth
  <1> QED
    BY <1>1, <1>2

----------------------------------------------------------------------------
\* Each operation does to each authorization one of the four things.
LEMMA StepForms ==
    ASSUME IInv, PaymentNext
    PROVE  /\ \A s \in Sessions : SessionStep(auth[s], auth'[s])
           /\ DOMAIN auth' = Sessions
           /\ now' \in Nat /\ price' \in Nat
  <1> DEFINE Formed == /\ \A s \in Sessions : SessionStep(auth[s], auth'[s])
                       /\ DOMAIN auth' = Sessions
                       /\ now' \in Nat /\ price' \in Nat
  <1> SUFFICES Formed
    OBVIOUS
  <1> USE DEF SessionStep
  <1>1. CASE Tick
    BY <1>1 DEF Tick, IInv
  <1>2. ASSUME NEW amount \in Requests, FundNetwork(amount) PROVE Formed
    BY <1>2 DEF FundNetwork, IInv
  <1>3. ASSUME NEW p \in Policies, SetSpendingPolicy(p) PROVE Formed
    BY <1>3 DEF SetSpendingPolicy, IInv
  <1>4. ASSUME NEW m \in Members, NEW at \in Stamps, RevokeMember(m, at) PROVE Formed
    BY <1>4 DEF RevokeMember, IInv
  <1>5. ASSUME NEW p \in Prices, UpdatePrice(p) PROVE Formed
    BY <1>5, PaymentAssumption DEF UpdatePrice, IInv
  <1>6. CASE DrainNode
    BY <1>6 DEF DrainNode, IInv
  <1>7. ASSUME NEW s \in Sessions, NEW m \in Members, NEW r \in Members,
               NEW request \in Requests, NEW at \in Stamps,
               NEW until \in at + 1 .. Expiry,
               ReserveSession(s, m, r, request, until, at)
        PROVE  Formed
    <2>1. at \in Nat /\ until \in Nat
      BY PaymentAssumption DEF Stamps, IInv
    <2>2. PICK amount \in 1 .. request :
             auth' = [Swept(at) EXCEPT ![s] = NewAuthorization(m, r, amount, until, at)]
      BY Zenon, <1>7 DEF ReserveSession
    <2>3. amount \in Nat \ {0}
      BY PaymentAssumption
    <2>4. SessionStep(auth[s], auth'[s])
      <3>1. auth'[s] = NewAuthorization(m, r, amount, until, at)
        BY <2>2 DEF Swept
      <3>2. auth[s] = NoAuth
        BY <1>7 DEF ReserveSession, IdUnused
      <3> QED
        BY <2>1, <2>3, <3>1, <3>2, Zenon DEF Issue
    <2>5. ASSUME NEW x \in Sessions \ {s} PROVE SessionStep(auth[x], auth'[x])
      <3>1. auth'[x] = IF x \in Expired(at) THEN TakeBack(auth[x]) ELSE auth[x]
        BY <2>2 DEF Swept
      <3>2. CASE x \in Expired(at)
        BY <3>1, <3>2 DEF Expired, Issued, Ended, GiveBack
      <3> QED
        BY <3>1, <3>2
    <2>6. DOMAIN auth' = Sessions /\ now' = now /\ price' = price
      BY <1>7, <2>2 DEF ReserveSession, Swept
    <2> QED
      BY <2>4, <2>5, <2>6 DEF IInv
  <1>8. ASSUME NEW s \in Sessions, Refund(s) PROVE Formed
    <2>1. /\ auth' = [auth EXCEPT ![s] = TakeBack(@)]
          /\ auth[s] # NoAuth /\ ~auth[s].refunded
          /\ now' = now /\ price' = price
      BY <1>8 DEF Refund, Issued
    <2> QED
      BY <2>1 DEF IInv, GiveBack
  <1>9. ASSUME NEW s \in Sessions, NEW rcpt \in Receipts, NEW at \in Stamps,
               Settle(s, rcpt, at)
        PROVE  Formed
    <2>1. /\ auth[s] # NoAuth /\ Claimable(auth[s])
          /\ StrictlyNewer(rcpt, auth[s].directions[rcpt.direction])
          /\ now' = now /\ price' = price
      BY <1>9 DEF Settle, Issued
    <2>2. PICK amount \in 0 .. auth[s].reserved :
             /\ amount = Amount(auth[s], rcpt)
             /\ auth' = [auth EXCEPT ![s] = SettledAuthorization(auth[s], rcpt, amount)]
      BY Zenon, <1>9 DEF Settle
    <2>3. auth'[s] = SettledAuthorization(auth[s], rcpt, amount)
      BY <2>2 DEF IInv
    <2>4. SettleOne(auth[s], auth'[s])
      BY <2>1, <2>2, <2>3, Zenon DEF SettleOne
    <2>5. \A x \in Sessions \ {s} : auth'[x] = auth[x]
      BY <2>2 DEF IInv
    <2>6. DOMAIN auth' = Sessions
      BY <2>2 DEF IInv
    <2> QED
      BY <2>1, <2>4, <2>5, <2>6 DEF IInv
  <1> QED
    BY <1>1, <1>2, <1>3, <1>4, <1>5, <1>6, <1>7, <1>8, <1>9
       DEF PaymentNext, RefundByOwner, RefundByNode

\* The four things keep an authorization sound.
LEMMA SessionStepIsSound ==
    ASSUME price \in Nat, NEW a, NEW b, a = NoAuth \/ Sound(a), SessionStep(a, b)
    PROVE  b = NoAuth \/ Sound(b)
  <1>1. CASE Issue(a, b)
    BY <1>1, NewIsSound DEF Issue
  <1>2. CASE GiveBack(a, b)
    BY <1>2, TakeBackIsSound DEF GiveBack
  <1>3. CASE SettleOne(a, b)
    BY <1>3, SettledIsSound DEF SettleOne
  <1> QED
    BY <1>1, <1>2, <1>3 DEF SessionStep

\* The ledger starts with no authorization.
LEMMA InitInvariant == PaymentInit => IInv
  BY PaymentAssumption DEF PaymentInit, IInv

\* Every operation keeps the invariant.
LEMMA StepInvariant == IInv /\ [PaymentNext]_vars => IInv'
  <1> SUFFICES ASSUME IInv, [PaymentNext]_vars PROVE IInv'
    OBVIOUS
  <1>1. CASE UNCHANGED vars
    BY <1>1 DEF vars, IInv, Sound, Ended, AuthType
  <1>2. CASE PaymentNext
    <2>1. /\ \A s \in Sessions : SessionStep(auth[s], auth'[s])
          /\ DOMAIN auth' = Sessions
          /\ now' \in Nat /\ price' \in Nat
      BY <1>2, StepForms
    <2>2. \A s \in Sessions : auth'[s] = NoAuth \/ Sound(auth'[s])
      BY <2>1, SessionStepIsSound DEF IInv
    <2> QED
      BY <2>1, <2>2 DEF IInv
  <1> QED
    BY <1>1, <1>2

\* On the way from reservation to refund or close, every authorization is
\* accounted for to the last base unit, and the Node has been paid exactly the
\* price of the settled prefixes and never more than max_amount.
THEOREM AuthorizationsHold ==
    PaymentSpec => [](AuthorizationAccounted /\ PaidForTraffic)
  <1>1. IInv => AuthorizationAccounted /\ PaidForTraffic
    BY DEF IInv, Issued, Sound, AuthorizationAccounted, PaidForTraffic
  <1> QED
    BY <1>1, InitInvariant, StepInvariant, PTL DEF PaymentSpec

\* Reserved and settled make up max_amount while an authorization is open, and
\* nothing stays reserved once it is refunded or closed, whatever the order of
\* reserve, settle, refund and abandon.
THEOREM AuthorizationAccountedHolds == PaymentSpec => []AuthorizationAccounted
  BY AuthorizationsHold, PTL

----------------------------------------------------------------------------
\* What a step of one authorization leaves alone and lets grow.
LEMMA PrefixStep ==
    ASSUME NEW a, NEW b, Sound(a), SessionStep(a, b)
    PROVE  /\ \A f \in {"initiator", "receiver", "price", "max", "created",
                        "validUntil", "claimUntil"} : b[f] = a[f]
           /\ \A d \in Directions :
                LET old == a.directions[d]
                    new == b.directions[d]
                IN  /\ new.sequence >= old.sequence /\ new.bytes >= old.bytes
                    /\ new.amount >= old.amount
                    /\ old.finalized => new = old
  <1>1. a \in AuthType
    BY DEF Sound
  <1>2. a # NoAuth
    BY <1>1, IssuedIsNotAbsent
  <1>3. /\ a.directions \in [Directions -> DirectionType] /\ a.reserved \in Nat
        /\ \A d \in Directions : /\ a.directions[d].sequence \in Nat
                                 /\ a.directions[d].bytes \in Nat
                                 /\ a.directions[d].amount \in Nat
    BY <1>1 DEF AuthType, DirectionType
  <1>4. CASE b = a
    BY <1>3, <1>4
  <1>5. CASE GiveBack(a, b)
    <2>1. b.directions = a.directions
      BY <1>1, <1>5 DEF GiveBack, TakeBack, AuthType
    <2>2. /\ b.initiator = a.initiator /\ b.receiver = a.receiver /\ b.price = a.price
          /\ b.max = a.max /\ b.created = a.created /\ b.validUntil = a.validUntil
          /\ b.claimUntil = a.claimUntil
      BY <1>1, <1>5 DEF GiveBack, TakeBack, AuthType
    <2> QED
      BY <1>3, <2>1, <2>2
  <1>6. CASE SettleOne(a, b)
    <2>1. PICK rcpt \in Receipts, amount \in 0 .. a.reserved :
             /\ StrictlyNewer(rcpt, a.directions[rcpt.direction])
             /\ amount = Amount(a, rcpt)
             /\ b = SettledAuthorization(a, rcpt, amount)
      BY <1>6 DEF SettleOne
    <2>2. /\ b.directions = Advanced(a, rcpt, amount)
          /\ \A f \in {"initiator", "receiver", "price", "max", "created",
                       "validUntil", "claimUntil"} : b[f] = a[f]
      BY <1>6, <2>1, SettledFields DEF SettleOne
    <2>3. rcpt.direction \in Directions /\ rcpt.sequence \in Nat /\ rcpt.bytes \in Nat
      BY PaymentAssumption
    <2>4. /\ b.directions[rcpt.direction].sequence = rcpt.sequence
          /\ b.directions[rcpt.direction].bytes = rcpt.bytes
          /\ b.directions[rcpt.direction].amount
                = a.directions[rcpt.direction].amount + amount
          /\ \A d \in Directions \ {rcpt.direction} : b.directions[d] = a.directions[d]
      BY <1>3, <2>2, <2>3 DEF Advanced
    <2>5. /\ rcpt.sequence >= a.directions[rcpt.direction].sequence
          /\ rcpt.bytes >= a.directions[rcpt.direction].bytes
          /\ ~a.directions[rcpt.direction].finalized
      BY <2>1 DEF StrictlyNewer
    <2>6. a.directions[rcpt.direction].amount + amount >= a.directions[rcpt.direction].amount
      BY <1>3, <2>3
    <2> QED
      BY <1>3, <2>2, <2>3, <2>4, <2>5, <2>6
  <1> QED
    BY <1>2, <1>4, <1>5, <1>6 DEF SessionStep, Issue

\* The terms of an authorization are fixed when it is issued and a settled
\* prefix is never undone, whatever operations execute in whatever order.
THEOREM SettledPrefixStandsHolds == PaymentSpec => SettledPrefixStands
  <1>1. IInv /\ [PaymentNext]_vars =>
          [\A s \in Issued :
              /\ \A f \in {"initiator", "receiver", "price", "max", "created",
                           "validUntil", "claimUntil"} : auth'[s][f] = auth[s][f]
              /\ \A d \in Directions :
                    LET old == auth[s].directions[d]
                        new == auth'[s].directions[d]
                    IN  /\ new.sequence >= old.sequence /\ new.bytes >= old.bytes
                        /\ new.amount >= old.amount
                        /\ old.finalized => new = old]_vars
    <2> SUFFICES ASSUME IInv, PaymentNext, NEW s \in Issued
                 PROVE  /\ \A f \in {"initiator", "receiver", "price", "max", "created",
                                     "validUntil", "claimUntil"} : auth'[s][f] = auth[s][f]
                        /\ \A d \in Directions :
                              LET old == auth[s].directions[d]
                                  new == auth'[s].directions[d]
                              IN  /\ new.sequence >= old.sequence /\ new.bytes >= old.bytes
                                  /\ new.amount >= old.amount
                                  /\ old.finalized => new = old
      OBVIOUS
    <2>1. Sound(auth[s]) /\ s \in Sessions
      BY DEF IInv, Issued
    <2>2. SessionStep(auth[s], auth'[s])
      BY <2>1, StepForms
    <2> QED
      BY <2>1, <2>2, PrefixStep
  <1> QED
    BY <1>1, InitInvariant, StepInvariant, PTL DEF PaymentSpec, SettledPrefixStands

----------------------------------------------------------------------------
\* Each of the four things is a move that PaymentPromise allows.
LEMMA PromiseStep ==
    ASSUME price \in Nat, NEW s \in Sessions,
           auth[s] = NoAuth \/ Sound(auth[s]), SessionStep(auth[s], auth'[s])
    PROVE  Promise!Open(s) \/ Promise!Pay(s) \/ Promise!End(s) \/ Promise!Rest(s)
  <1> DEFINE a == auth[s]
             b == auth'[s]
  <1>0. b = NoAuth \/ Sound(b)
    BY SessionStepIsSound
  <1> HIDE DEF a, b
  <1>1. CASE b = a
    BY <1>1 DEF a, b, Promise!Rest, Ended
  <1>2. CASE Issue(a, b)
    <2>1. PICK m \in Members, r \in Members, amount \in Nat \ {0}, until \in Nat, at \in Nat :
             b = NewAuthorization(m, r, amount, until, at)
      BY <1>2, Zenon DEF Issue
    <2>2. Sound(b)
      BY <2>1, NewIsSound
    <2>3. b # NoAuth
      BY <2>2, IssuedIsNotAbsent DEF Sound
    <2>4. b.max = amount /\ b.reserved = amount /\ b.settled = 0 /\ ~Ended(b)
      BY <2>1 DEF NewAuthorization, Ended
    <2>5. a = NoAuth
      BY <1>2 DEF Issue
    <2>6. Promise!Open(s)
      BY <2>3, <2>4, <2>5 DEF a, b, Promise!Open
    <2> QED
      BY <2>6
  <1>3. CASE GiveBack(a, b)
    <2>1. a # NoAuth /\ Sound(a) /\ b = TakeBack(a)
      BY <1>3 DEF GiveBack, a
    <2>2. a \in AuthType /\ a.settled \in Nat /\ a.max \in Nat /\ a.settled <= a.max
      BY <2>1 DEF Sound, AuthType
    <2>3. b # NoAuth
      BY <2>1, TakeBackIsSound, IssuedIsNotAbsent DEF Sound
    <2>4. b.max = a.max /\ b.settled = a.settled /\ b.reserved = 0 /\ Ended(b)
      BY <2>1, <2>2 DEF TakeBack, AuthType, Ended
    <2>5. CASE Ended(a)
      <3>1. a.reserved = 0
        BY <2>1, <2>5 DEF Sound
      <3>2. Promise!Rest(s)
        BY <2>1, <2>3, <2>4, <2>5, <3>1 DEF a, b, Promise!Rest
      <3> QED
        BY <3>2
    <2>6. CASE ~Ended(a)
      <3>1. Promise!End(s)
        BY <2>1, <2>2, <2>3, <2>4, <2>6 DEF a, b, Promise!End
      <3> QED
        BY <3>1
    <2> QED
      BY <2>5, <2>6
  <1>4. CASE SettleOne(a, b)
    <2>1. a # NoAuth /\ Sound(a) /\ Claimable(a)
      BY <1>4 DEF SettleOne, a
    <2>2. PICK rcpt \in Receipts, amount \in 0 .. a.reserved :
             amount = Amount(a, rcpt) /\ b = SettledAuthorization(a, rcpt, amount)
      BY <1>4 DEF SettleOne
    <2>3. /\ b \in AuthType /\ b.settled = a.settled + amount
          /\ b.reserved = IF b.closed THEN 0 ELSE a.reserved - amount
          /\ ~a.refunded /\ ~a.closed /\ ~b.refunded /\ b.max = a.max
      BY <2>1, <2>2, SettledFields
    <2>4. b # NoAuth
      BY <2>3, IssuedIsNotAbsent
    <2>5. a.settled \in Nat /\ a.max \in Nat /\ a.reserved \in Nat
      BY <2>1 DEF Sound, AuthType
    <2>6. ~Ended(a) /\ a.reserved + a.settled = a.max
      BY <2>1, <2>3 DEF Sound, Ended
    <2>7. b.settled \in a.settled .. a.max
      BY <2>3, <2>5, <2>6
    <2>8. CASE b.closed
      <3>1. Ended(b) /\ b.reserved = 0
        BY <2>3, <2>8 DEF Ended
      <3>2. Promise!End(s)
        BY <2>1, <2>3, <2>4, <2>6, <2>7, <3>1 DEF a, b, Promise!End
      <3> QED
        BY <3>2
    <2>9. CASE ~b.closed
      <3>1. ~Ended(b) /\ b.reserved = a.max - b.settled
        BY <2>3, <2>5, <2>6, <2>9 DEF Ended
      <3>2. Promise!Pay(s)
        BY <2>1, <2>3, <2>4, <2>6, <2>7, <3>1 DEF a, b, Promise!Pay
      <3> QED
        BY <3>2
    <2> QED
      BY <2>8, <2>9
  <1> QED
    BY <1>1, <1>2, <1>3, <1>4 DEF SessionStep, a, b

\* TrafficPayment implements PaymentPromise: the ledger starts with every
\* session absent, and every operation moves every session as promised.
THEOREM PromiseKept == PaymentSpec => KeepsPromise
  <1>1. PaymentInit => Promise!PromiseInit
    BY DEF PaymentInit, Promise!PromiseInit
  <1>2. IInv /\ [PaymentNext]_vars => [Promise!PromiseNext]_(Promise!promise)
    <2> SUFFICES ASSUME IInv, [PaymentNext]_vars
                 PROVE  [Promise!PromiseNext]_(Promise!promise)
      OBVIOUS
    <2>1. CASE UNCHANGED vars
      BY <2>1 DEF vars, Promise!promise, Ended
    <2>2. CASE PaymentNext
      <3>1. \A s \in Sessions : SessionStep(auth[s], auth'[s])
        BY <2>2, StepForms
      <3>2. \A s \in Sessions :
              Promise!Open(s) \/ Promise!Pay(s) \/ Promise!End(s) \/ Promise!Rest(s)
        BY <3>1, PromiseStep DEF IInv
      <3> QED
        BY <3>2 DEF Promise!PromiseNext
    <2> QED
      BY <2>1, <2>2
  <1> QED
    BY <1>1, <1>2, InitInvariant, StepInvariant, PTL
       DEF PaymentSpec, KeepsPromise, Promise!PromiseSpec
----------------------------------------------------------------------------
\* The fund and the member limits: sums over all sessions.

\* Part of an amount, rounded down, is at most the amount.
LEMMA ShareWithin ==
    ASSUME NEW n \in Nat, NEW D \in Nat \ {0}, NEW k \in 0 .. D
    PROVE  (n * k) \div D \in 0 .. n
  <1> DEFINE q == (n * k) \div D
  <1>1. n * k \in Nat /\ n * D \in Nat /\ n * k <= n * D
    <2>1. n * (D - k) \in Nat
      OBVIOUS
    <2>2. n * (D - k) = n * D - n * k
      OBVIOUS
    <2> QED
      BY <2>1, <2>2
  <1>2. \A x \in Nat : x \div D \in Nat /\ D * (x \div D) <= x
    OBVIOUS
  <1>3. q \in Nat /\ D * q <= n * k
    BY <1>1, <1>2
  <1> HIDE DEF q
  <1>4. D * q <= D * n
    BY <1>1, <1>3
  <1>5. ASSUME q > n PROVE FALSE
    <2>1. D * (q - n) >= D
      BY <1>3, <1>5
    <2>2. D * (q - n) = D * q - D * n
      BY <1>3
    <2> QED
      BY <1>3, <1>4, <2>1, <2>2
  <1>6. q <= n
    BY <1>3, <1>5
  <1> QED
    BY <1>3, <1>6 DEF q

\* What an authorization has reserved is a natural number.
LEMMA ReservesNat ==
    ASSUME NEW A, \A s \in Sessions : A[s] = NoAuth \/ Sound(A[s])
    PROVE  \A s \in Sessions : Reserves(A)[s] \in Nat
  BY DEF Reserves, Sound, AuthType

\* One session is replaced in the authorizations.
LEMMA ReservesUpdate ==
    ASSUME Induction, NEW A, DOMAIN A = Sessions, NEW s \in Sessions, NEW b,
           \A x \in Sessions : A[x] = NoAuth \/ Sound(A[x]), Sound(b)
    PROVE  LET B == [A EXCEPT ![s] = b]
           IN  SumFunctionOnSet(Reserves(B), Sessions)
                 = SumFunctionOnSet(Reserves(A), Sessions) - Reserves(A)[s] + b.reserved
  <1> DEFINE B == [A EXCEPT ![s] = b]
             f == Reserves(A)
             g == Reserves(B)
  <1>1. B[s] = b /\ \A x \in Sessions : x # s => B[x] = A[x]
    OBVIOUS
  <1> HIDE DEF B
  <1>2. b # NoAuth
    BY IssuedIsNotAbsent DEF Sound
  <1>3. g[s] = b.reserved /\ \A x \in Sessions : x # s => g[x] = f[x]
    BY <1>1, <1>2 DEF Reserves
  <1>4. \A x \in Sessions : f[x] \in Nat
    BY Zenon, ReservesNat
  <1>5. \A x \in Sessions : g[x] \in Nat
    <2>1. \A x \in Sessions : B[x] = NoAuth \/ Sound(B[x])
      BY Zenon, <1>1
    <2> QED
      BY Zenon, <2>1, ReservesNat
  <1> HIDE DEF f, g
  <1>6. IsFiniteSet(Sessions) /\ \A x \in Sessions : f[x] \in Int /\ g[x] \in Int
    BY <1>4, <1>5, PaymentAssumption
  <1>7. SumFunctionOnSet(g, Sessions) = SumFunctionOnSet(f, Sessions) - f[s] + g[s]
    BY <1>3, <1>6, SumUpdate
  <1> QED
    BY <1>3, <1>7 DEF f, g, B

\* The sweep moves what the expired sessions had reserved into the fund.
LEMMA SweepMoves ==
    ASSUME Induction, IInv, escrow \in Nat, NEW at
    PROVE  /\ SweptFund(at) \in Nat
           /\ DOMAIN Swept(at) = Sessions
           /\ \A s \in Sessions : Swept(at)[s] = NoAuth \/ Sound(Swept(at)[s])
           /\ SweptFund(at) + SumFunctionOnSet(Reserves(Swept(at)), Sessions)
                = escrow + SumFunctionOnSet(Reserves(auth), Sessions)
           /\ \A s \in Sessions : /\ Reserves(Swept(at))[s] <= Reserves(auth)[s]
                                  /\ auth[s] = NoAuth => Swept(at)[s] = NoAuth
  <1> DEFINE f == Reserves(auth)
             g == Reserves(Swept(at))
             E == Expired(at)
  <1>1. E \in SUBSET Sessions /\ \A s \in E : auth[s] # NoAuth
    BY DEF Expired, Issued
  <1>2. DOMAIN Swept(at) = Sessions
    BY DEF Swept
  <1>3. \A s \in Sessions : Swept(at)[s] = IF s \in E THEN TakeBack(auth[s]) ELSE auth[s]
    BY DEF Swept
  <1> HIDE DEF E
  <1>4. \A s \in Sessions : Swept(at)[s] = NoAuth \/ Sound(Swept(at)[s])
    BY <1>1, <1>3, TakeBackIsSound DEF IInv
  <1>5. \A s \in Sessions : f[s] \in Nat /\ g[s] \in Nat
    BY <1>4, ReservesNat DEF IInv
  <1>6. \A s \in Sessions : g[s] = IF s \in E THEN 0 ELSE f[s]
    <2> TAKE s \in Sessions
    <2>1. CASE s \in E
      <3>1. Sound(auth[s])
        BY <1>1, <2>1 DEF IInv
      <3>2. TakeBack(auth[s]).reserved = 0
        BY <3>1 DEF Sound, AuthType, TakeBack
      <3>3. TakeBack(auth[s]) # NoAuth
        BY <3>1, TakeBackIsSound, IssuedIsNotAbsent DEF Sound
      <3> QED
        BY <1>3, <2>1, <3>2, <3>3 DEF Reserves
    <2>2. CASE s \notin E
      BY <1>3, <2>2 DEF Reserves
    <2> QED
      BY <2>1, <2>2
  <1>7. IsFiniteSet(Sessions)
    BY PaymentAssumption
  <1> DEFINE total == SumFunctionOnSet(f, Sessions)
             swept == SumFunctionOnSet(f, E)
             left == SumFunctionOnSet(g, Sessions)
  <1>8. SweptFund(at) = escrow + swept
    BY Zenon DEF SweptFund, E
  <1> HIDE DEF f, g
  <1>9. swept \in Nat /\ total \in Nat
    BY <1>1, <1>5, <1>7, SumNat
  <1>10. left = total - swept
    BY <1>1, <1>5, <1>6, <1>7, SumCleared
  <1> HIDE DEF total, swept, left
  <1>11. SweptFund(at) \in Nat /\ SweptFund(at) + left = escrow + total
    BY <1>8, <1>9, <1>10
  <1>12. \A s \in Sessions : g[s] <= f[s] /\ (auth[s] = NoAuth => Swept(at)[s] = NoAuth)
    BY <1>1, <1>3, <1>5, <1>6
  <1> QED
    BY <1>2, <1>4, <1>11, <1>12 DEF f, g, total, left

\* Min picks a smallest element of the four bounds of a grant.
LEMMA MinOfFour ==
    ASSUME NEW a \in Int, NEW b \in Int, NEW c \in Int, NEW d \in Int
    PROVE  LET n == Min({a, b, c, d})
           IN  n \in {a, b, c, d} /\ n <= a /\ n <= b /\ n <= c /\ n <= d
  <1> DEFINE S == {a, b, c, d}
  <1>1. \E x \in S : \A y \in S : x <= y
    OBVIOUS
  <1>2. Min(S) \in S /\ \A y \in S : Min(S) <= y
    <2> HIDE DEF S
    <2> QED
      BY Zenon, <1>1 DEF Min
  <1> QED
    BY <1>2

MoneyInv == IInv /\ PaymentTypeOK /\ Conservation

Reserved == SumFunctionOnSet(Reserves(auth), Sessions)

\* The sum of the reserves after a step.
LEMMA ReservedAfter == Reserved' = SumFunctionOnSet(Reserves(auth'), Sessions)
  BY DEF Reserved, Reserves

\* What the invariant says of the amounts.
LEMMA MoneyTypes ==
    ASSUME Induction, MoneyInv
    PROVE  /\ owner \in Nat /\ node \in Nat /\ escrow \in Nat /\ treasury \in Nat /\ burned \in Nat
           /\ Fee(1) \in Nat /\ Fee(10) \in Nat
           /\ Reserved \in Nat
           /\ IsFiniteSet(Sessions)
           /\ \A s \in Sessions : auth[s] = NoAuth \/ Sound(auth[s])
           /\ \A s \in Sessions : Reserves(auth)[s] \in Nat
           /\ DOMAIN auth = Sessions
  <1>1. owner \in Nat /\ node \in Nat /\ escrow \in Nat /\ treasury \in Nat /\ burned \in Nat
    BY DEF MoneyInv, PaymentTypeOK
  <1>2. Fee(1) \in Nat /\ Fee(10) \in Nat /\ IsFiniteSet(Sessions)
    BY PaymentAssumption DEF Fee
  <1>3. DOMAIN auth = Sessions /\ \A s \in Sessions : auth[s] = NoAuth \/ Sound(auth[s])
    BY DEF MoneyInv, IInv
  <1>4. \A s \in Sessions : Reserves(auth)[s] \in Nat
    BY Zenon, <1>3, ReservesNat
  <1>5. Reserved \in Nat
    BY Zenon, <1>2, <1>4, SumNat DEF Reserved
  <1> QED
    BY <1>1, <1>2, <1>3, <1>4, <1>5

\* The authorizations after a step that replaced one of them.
LEMMA AuthReplaced ==
    ASSUME NEW A \in [Sessions -> AuthType \cup {NoAuth}], NEW s \in Sessions, NEW b, Sound(b)
    PROVE  [A EXCEPT ![s] = b] \in [Sessions -> AuthType \cup {NoAuth}]
  BY DEF Sound

\* A reservation takes the reserve and the fee out of the swept fund.
LEMMA ReserveMoney ==
    ASSUME Induction, MoneyInv, NEW s \in Sessions, NEW m \in Members, NEW r \in Members,
           NEW request \in Requests, NEW at \in Stamps, NEW until \in at + 1 .. Expiry,
           ReserveSession(s, m, r, request, until, at)
    PROVE  /\ auth' \in [Sessions -> AuthType \cup {NoAuth}]
           /\ escrow' \in Nat
           /\ escrow' + Fee(1) + Reserved' = escrow + Reserved
  <1>1. IInv /\ at \in Nat /\ until \in Nat /\ price \in Nat
    BY PaymentAssumption DEF Stamps, IInv, MoneyInv
  <1> DEFINE fund == SweptFund(at)
             A == Swept(at)
  <1>2. PICK amount \in 1 .. request :
           /\ FeeCovered(fund, amount)
           /\ escrow' = fund - amount - Fee(1)
           /\ auth' = [A EXCEPT ![s] = NewAuthorization(m, r, amount, until, at)]
    BY Zenon DEF ReserveSession
  <1> DEFINE b == NewAuthorization(m, r, amount, until, at)
  <1>3. amount \in Nat \ {0}
    BY PaymentAssumption
  <1>4. Sound(b)
    BY Zenon, <1>1, <1>3, NewIsSound
  <1>5. b.reserved = amount
    BY DEF NewAuthorization
  <1>6. escrow \in Nat /\ Fee(1) \in Nat
    BY MoneyTypes
  <1>7. /\ fund \in Nat /\ DOMAIN A = Sessions
        /\ \A x \in Sessions : A[x] = NoAuth \/ Sound(A[x])
        /\ fund + SumFunctionOnSet(Reserves(A), Sessions) = escrow + Reserved
        /\ auth[s] = NoAuth => A[s] = NoAuth
    BY <1>1, <1>6, SweepMoves DEF Reserved
  <1>8. A = [x \in Sessions |-> A[x]]
    BY DEF Swept
  <1>9. A[s] = NoAuth
    BY <1>7 DEF ReserveSession, IdUnused
  <1> HIDE DEF b, A, fund
  <1>10. Reserves(A)[s] = 0
    BY <1>9 DEF Reserves
  <1>11. Reserved' = SumFunctionOnSet(Reserves(A), Sessions) - Reserves(A)[s] + b.reserved
    <2>1. Reserved' = SumFunctionOnSet(Reserves([A EXCEPT ![s] = b]), Sessions)
      BY Zenon, <1>2, ReservedAfter DEF b
    <2> QED
      BY ZenonT(30), <1>4, <1>7, <2>1, ReservesUpdate
  <1>12. SumFunctionOnSet(Reserves(A), Sessions) \in Nat
    <2>1. \A x \in Sessions : Reserves(A)[x] \in Nat
      BY Zenon, <1>7, ReservesNat
    <2> QED
      BY Zenon, <2>1, SumNat, MoneyTypes
  <1>13. auth' \in [Sessions -> AuthType \cup {NoAuth}]
    <2>1. A \in [Sessions -> AuthType \cup {NoAuth}]
      BY <1>7, <1>8 DEF Sound
    <2> QED
      BY Zenon, <1>2, <1>4, <2>1, AuthReplaced DEF b
  <1>14. escrow' \in Nat
    BY <1>2, <1>3, <1>6, <1>7 DEF FeeCovered
  <1> QED
    BY <1>2, <1>3, <1>5, <1>6, <1>7, <1>10, <1>11, <1>12, <1>13, <1>14

\* A refund moves the reserve back into the fund.
LEMMA RefundMoney ==
    ASSUME Induction, MoneyInv, NEW s \in Sessions, Refund(s)
    PROVE  /\ auth' \in [Sessions -> AuthType \cup {NoAuth}]
           /\ escrow' \in Nat
           /\ escrow' + Reserved' = escrow + Reserved
  <1> DEFINE b == TakeBack(auth[s])
  <1>1. /\ auth[s] # NoAuth /\ escrow' = escrow + auth[s].reserved
        /\ auth' = [auth EXCEPT ![s] = b]
    BY DEF Refund, Issued
  <1>2. Sound(auth[s])
    BY <1>1, MoneyTypes
  <1>3. Sound(b)
    BY Zenon, <1>2, TakeBackIsSound
  <1>4. b.reserved = 0 /\ Reserves(auth)[s] = auth[s].reserved
    BY <1>1, <1>2 DEF TakeBack, Sound, AuthType, Reserves
  <1>5. Reserves(auth)[s] \in Nat /\ Reserved \in Nat /\ escrow \in Nat
    BY MoneyTypes
  <1> HIDE DEF b
  <1>6. Reserved' = SumFunctionOnSet(Reserves([auth EXCEPT ![s] = b]), Sessions)
    BY Zenon, <1>1, ReservedAfter
  <1>7. Reserved' = Reserved - Reserves(auth)[s] + b.reserved
    BY Zenon, <1>3, <1>6, ReservesUpdate, MoneyTypes DEF Reserved
  <1>8. auth' \in [Sessions -> AuthType \cup {NoAuth}]
    <2>1. auth \in [Sessions -> AuthType \cup {NoAuth}]
      BY DEF MoneyInv, PaymentTypeOK
    <2> QED
      BY Zenon, <1>1, <1>3, <2>1, AuthReplaced
  <1> QED
    BY <1>1, <1>4, <1>5, <1>7, <1>8

\* A settlement pays the Node and the treasury and burns what it takes from
\* the reserve, and releases the rest of a closed session into the fund.
LEMMA SettleMoney ==
    ASSUME Induction, MoneyInv, NEW s \in Sessions, NEW rcpt \in Receipts, NEW at, Settle(s, rcpt, at)
    PROVE  /\ auth' \in [Sessions -> AuthType \cup {NoAuth}]
           /\ escrow' \in Nat /\ node' \in Nat /\ treasury' \in Nat /\ burned' \in Nat
           /\ node' + escrow' + treasury' + burned' + Reserved'
                = node + escrow + treasury + burned + Reserved
  <1> DEFINE a == auth[s]
  <1>1. /\ a # NoAuth /\ Claimable(a)
        /\ StrictlyNewer(rcpt, a.directions[rcpt.direction])
    BY DEF Settle, Issued
  <1>2. PICK amount \in 0 .. a.reserved :
          LET b == SettledAuthorization(a, rcpt, amount)
              fee == (amount * FeeBps) \div BpsDenominator
              toTreasury == (fee * TreasuryBps) \div BpsDenominator
          IN  /\ amount = Amount(a, rcpt)
              /\ auth' = [auth EXCEPT ![s] = b]
              /\ escrow' = escrow + (a.reserved - amount - b.reserved)
              /\ treasury' = treasury + toTreasury
              /\ burned' = burned + (fee - toTreasury)
              /\ node' = node + (amount - fee)
    BY Zenon DEF Settle
  <1> DEFINE b == SettledAuthorization(a, rcpt, amount)
             fee == (amount * FeeBps) \div BpsDenominator
             toTreasury == (fee * TreasuryBps) \div BpsDenominator
  <1>3. Sound(a)
    BY <1>1, MoneyTypes
  <1>i. SettledInto(a, b, amount)
    BY Zenon, <1>1, <1>2, <1>3, SettledCounts
  <1>4. a.reserved \in Nat /\ amount \in Nat
    BY Zenon, <1>i DEF SettledInto
  <1>5. Sound(b) /\ b.reserved = IF b.closed THEN 0 ELSE a.reserved - amount
    BY Zenon, <1>i DEF SettledInto
  <1>6. fee \in 0 .. amount
    BY <1>4, ShareWithin, PaymentAssumption
  <1>7. toTreasury \in 0 .. fee
    <2> HIDE DEF fee
    <2>1. fee \in Nat
      BY <1>4, <1>6
    <2> QED
      BY <2>1, ShareWithin, PaymentAssumption
  <1>8. /\ auth' = [auth EXCEPT ![s] = b]
        /\ escrow' = escrow + (a.reserved - amount - b.reserved)
        /\ treasury' = treasury + toTreasury
        /\ burned' = burned + (fee - toTreasury)
        /\ node' = node + (amount - fee)
    BY Zenon, <1>2
  <1>9. Reserves(auth)[s] = a.reserved
    BY <1>1 DEF Reserves
  <1> HIDE DEF a, b, fee, toTreasury
  <1>10. Reserved' = SumFunctionOnSet(Reserves([auth EXCEPT ![s] = b]), Sessions)
    BY Zenon, <1>8, ReservedAfter
  <1>11. Reserved' = Reserved - Reserves(auth)[s] + b.reserved
    BY Zenon, <1>5, <1>10, ReservesUpdate, MoneyTypes DEF Reserved
  <1>12. auth' \in [Sessions -> AuthType \cup {NoAuth}]
    <2>1. auth \in [Sessions -> AuthType \cup {NoAuth}]
      BY DEF MoneyInv, PaymentTypeOK
    <2> QED
      BY Zenon, <1>5, <1>8, <2>1, AuthReplaced
  <1>13. /\ node \in Nat /\ escrow \in Nat /\ treasury \in Nat /\ burned \in Nat /\ Reserved \in Nat
    BY MoneyTypes
  <1>14. b.reserved \in Nat /\ b.reserved <= a.reserved - amount
    BY <1>4, <1>5
  <1>15. escrow' \in Nat /\ node' \in Nat /\ treasury' \in Nat /\ burned' \in Nat
    BY <1>4, <1>6, <1>7, <1>8, <1>13, <1>14
  <1> QED
    BY <1>4, <1>6, <1>7, <1>8, <1>9, <1>11, <1>12, <1>13, <1>14, <1>15

\* What is reserved after a step is natural again.
LEMMA ReservedStaysNat ==
    ASSUME Induction, IInv, PaymentNext
    PROVE  Reserved' \in Nat
  <1>1. \A s \in Sessions : auth'[s] = NoAuth \/ Sound(auth'[s])
    BY StepInvariant DEF IInv
  <1>2. \A s \in Sessions : Reserves(auth')[s] \in Nat
    BY Zenon, <1>1, ReservesNat
  <1>3. IsFiniteSet(Sessions)
    BY PaymentAssumption
  <1> QED
    BY Zenon, <1>2, <1>3, ReservedAfter, SumNat

\* Every operation keeps the amounts natural and their total.
LEMMA MoneyStep ==
    ASSUME Induction, MoneyInv, PaymentNext
    PROVE  PaymentTypeOK' /\ Conservation'
  <1> DEFINE Kept == PaymentTypeOK' /\ Conservation'
  <1> SUFFICES Kept
    OBVIOUS
  <1>0. Reserved' \in Nat
    BY ReservedStaysNat DEF MoneyInv
  <1>1. /\ owner \in Nat /\ node \in Nat /\ escrow \in Nat /\ treasury \in Nat /\ burned \in Nat
        /\ Fee(1) \in Nat /\ Fee(10) \in Nat /\ Reserved \in Nat
    BY MoneyTypes
  <1>2. /\ now \in 0 .. MaxTime /\ policy \in Policies /\ revision \in 0 .. MaxRevision
        /\ price \in Prices /\ accepting \in BOOLEAN /\ revokedAt \in [Members -> 0 .. Never]
        /\ auth \in [Sessions -> AuthType \cup {NoAuth}]
        /\ MaxTime \in Nat /\ MaxRevision \in Nat
    BY PaymentAssumption DEF MoneyInv, PaymentTypeOK
  <1>3. owner + node + escrow + treasury + burned + Reserved = OwnerFunds + NodeFunds
    BY DEF MoneyInv, Conservation, Reserved
  <1>4. Conservation' <=> owner' + node' + escrow' + treasury' + burned' + Reserved'
                              = OwnerFunds + NodeFunds
    BY ReservedAfter DEF Conservation, Reserved, Reserves
  <1>5. auth' = auth => Reserved' = Reserved
    BY Zenon, ReservedAfter DEF Reserved
  <1> HIDE DEF Conservation
  <1>6. CASE Tick
    BY <1>1, <1>2, <1>3, <1>4, <1>5, <1>6 DEF Tick, PaymentTypeOK
  <1>7. ASSUME NEW amount \in Requests, FundNetwork(amount) PROVE Kept
    <2>1. amount \in Nat
      BY PaymentAssumption
    <2> QED
      BY <1>1, <1>2, <1>3, <1>4, <1>5, <1>7, <2>1 DEF FundNetwork, PaymentTypeOK
  <1>8. ASSUME NEW p \in Policies, SetSpendingPolicy(p) PROVE Kept
    BY <1>1, <1>2, <1>3, <1>4, <1>5, <1>8 DEF SetSpendingPolicy, PaymentTypeOK
  <1>9. ASSUME NEW m \in Members, NEW at \in Stamps, RevokeMember(m, at) PROVE Kept
    <2>1. at \in 0 .. Never
      BY <1>2 DEF Stamps, Never
    <2>2. revokedAt' \in [Members -> 0 .. Never]
      BY <1>2, <1>9, <2>1 DEF RevokeMember
    <2> QED
      BY <1>1, <1>2, <1>3, <1>4, <1>5, <1>9, <2>2 DEF RevokeMember, PaymentTypeOK
  <1>10. ASSUME NEW p \in Prices, UpdatePrice(p) PROVE Kept
    BY <1>1, <1>2, <1>3, <1>4, <1>5, <1>10 DEF UpdatePrice, PaymentTypeOK
  <1>11. CASE DrainNode
    BY Zenon, <1>1, <1>2, <1>3, <1>4, <1>5, <1>11 DEF DrainNode, PaymentTypeOK
  <1>12. ASSUME NEW s \in Sessions, NEW m \in Members, NEW r \in Members,
                NEW request \in Requests, NEW at \in Stamps, NEW until \in at + 1 .. Expiry,
                ReserveSession(s, m, r, request, until, at)
         PROVE  Kept
    <2>1. /\ auth' \in [Sessions -> AuthType \cup {NoAuth}] /\ escrow' \in Nat
          /\ escrow' + Fee(1) + Reserved' = escrow + Reserved
      BY Zenon, <1>12, ReserveMoney
    <2>2. /\ burned' = burned + Fee(1)
          /\ UNCHANGED <<now, owner, node, treasury, policy, revision, price, accepting, revokedAt>>
      BY Zenon, <1>12 DEF ReserveSession
    <2>3. Conservation'
      <3>1. owner' + node' + escrow' + treasury' + burned' + Reserved'
              = owner + node + escrow + treasury + burned + Reserved
        BY <1>0, <1>1, <2>1, <2>2
      <3> QED
        BY Zenon, <1>3, <1>4, <3>1
    <2>4. PaymentTypeOK'
      BY <1>1, <1>2, <2>1, <2>2 DEF PaymentTypeOK
    <2> QED
      BY <2>3, <2>4
  <1>13. ASSUME NEW s \in Sessions, Refund(s) PROVE Kept
    <2>1. /\ auth' \in [Sessions -> AuthType \cup {NoAuth}] /\ escrow' \in Nat
          /\ escrow' + Reserved' = escrow + Reserved
      BY Zenon, <1>13, RefundMoney
    <2>2. UNCHANGED <<now, owner, node, treasury, burned, policy, revision, price, accepting, revokedAt>>
      BY Zenon, <1>13 DEF Refund
    <2>3. Conservation'
      <3>1. owner' + node' + escrow' + treasury' + burned' + Reserved'
              = owner + node + escrow + treasury + burned + Reserved
        <4>1. /\ owner' = owner /\ node' = node /\ treasury' = treasury /\ burned' = burned
              /\ escrow' \in Nat /\ escrow' + Reserved' = escrow + Reserved
          BY Zenon, <2>1, <2>2
        <4>2. PICK e2 \in Nat, r2 \in Nat : e2 = escrow' /\ r2 = Reserved'
          BY Zenon, <1>0, <4>1
        <4>3. e2 + r2 = escrow + Reserved
          BY Zenon, <4>1, <4>2
        <4>4. owner + node + e2 + treasury + burned + r2
                = owner + node + escrow + treasury + burned + Reserved
          BY <1>1, <4>3
        <4> QED
          BY Zenon, <4>1, <4>2, <4>4
      <3> QED
        BY Zenon, <1>3, <1>4, <3>1
    <2>4. PaymentTypeOK'
      BY <1>1, <1>2, <2>1, <2>2 DEF PaymentTypeOK
    <2> QED
      BY <2>3, <2>4
  <1>14. ASSUME NEW s \in Sessions, NEW rcpt \in Receipts, NEW at \in Stamps,
                Settle(s, rcpt, at)
         PROVE  Kept
    <2>1. /\ auth' \in [Sessions -> AuthType \cup {NoAuth}]
          /\ escrow' \in Nat /\ node' \in Nat /\ treasury' \in Nat /\ burned' \in Nat
          /\ node' + escrow' + treasury' + burned' + Reserved'
               = node + escrow + treasury + burned + Reserved
      BY Zenon, <1>14, SettleMoney
    <2>2. UNCHANGED <<now, owner, policy, revision, price, accepting, revokedAt>>
      BY Zenon, <1>14 DEF Settle
    <2>3. Conservation'
      <3>1. owner' + node' + escrow' + treasury' + burned' + Reserved'
              = owner + node + escrow + treasury + burned + Reserved
        <4>1. /\ owner' = owner
              /\ escrow' \in Nat /\ node' \in Nat /\ treasury' \in Nat /\ burned' \in Nat
              /\ node' + escrow' + treasury' + burned' + Reserved'
                   = node + escrow + treasury + burned + Reserved
          BY Zenon, <2>1, <2>2
        <4>2. PICK n2 \in Nat, e2 \in Nat, t2 \in Nat, b2 \in Nat, r2 \in Nat :
                 /\ n2 = node' /\ e2 = escrow' /\ t2 = treasury' /\ b2 = burned'
                 /\ r2 = Reserved'
          BY Zenon, <1>0, <4>1
        <4>3. n2 + e2 + t2 + b2 + r2 = node + escrow + treasury + burned + Reserved
          BY Zenon, <4>1, <4>2
        <4>4. owner + n2 + e2 + t2 + b2 + r2
                = owner + node + escrow + treasury + burned + Reserved
          BY <1>1, <4>3
        <4> QED
          BY Zenon, <4>1, <4>2, <4>4
      <3> QED
        BY Zenon, <1>3, <1>4, <3>1
    <2>4. PaymentTypeOK'
      BY <1>1, <1>2, <2>1, <2>2 DEF PaymentTypeOK
    <2> QED
      BY <2>3, <2>4
  <1> QED
    BY <1>6, <1>7, <1>8, <1>9, <1>10, <1>11, <1>12, <1>13, <1>14
       DEF PaymentNext, RefundByOwner, RefundByNode

\* The initial ledger.
LEMMA MoneyInit ==
    ASSUME Induction, PaymentInit
    PROVE  MoneyInv
  <1>1. IInv
    BY InitInvariant
  <1>2. PaymentTypeOK
    BY PaymentAssumption DEF PaymentInit, PaymentTypeOK, Never
  <1>3. Conservation
    <2> DEFINE f == Reserves(auth)
    <2>1. \A s \in Sessions : f[s] = IF s \in {} THEN 0 ELSE 0
      BY DEF PaymentInit, Reserves
    <2>2. SumFunctionOnSet(f, Sessions) = SumFunctionOnSet([s \in Sessions |-> 0], {})
      <3> HIDE DEF f
      <3> QED
        BY <2>1, SumMasked, PaymentAssumption
    <2>3. SumFunctionOnSet(f, Sessions) = 0
      BY Zenon, <2>2, SumEmpty
    <2> HIDE DEF f
    <2> QED
      BY <2>3, PaymentAssumption DEF PaymentInit, Conservation, f
  <1> QED
    BY <1>1, <1>2, <1>3 DEF MoneyInv

\* The ledger after a step.
LEMMA MoneyNext ==
    ASSUME Induction, MoneyInv, [PaymentNext]_vars
    PROVE  MoneyInv'
  <1>1. IInv'
    BY StepInvariant DEF MoneyInv
  <1>2. CASE UNCHANGED vars
    <2>1. PaymentTypeOK' /\ Conservation'
      BY <1>2 DEF vars, MoneyInv, PaymentTypeOK, Conservation, Reserves
    <2> QED
      BY <1>1, <2>1 DEF MoneyInv
  <1>3. CASE PaymentNext
    BY <1>1, <1>3, MoneyStep DEF MoneyInv
  <1> QED
    BY <1>2, <1>3

----------------------------------------------------------------------------
\* MemberWithinLimit.

\* What a session counts against the limit of member m.
Counted(a, m) ==
    IF a # NoAuth /\ a.initiator = m /\ ~a.refunded THEN a.reserved ELSE 0

Counts(auths, m) == [s \in Sessions |-> Counted(auths[s], m)]

AllSound(auths) == \A s \in Sessions : auths[s] = NoAuth \/ Sound(auths[s])

\* Every count is a natural number.
LEMMA CountsNat ==
    ASSUME NEW A, AllSound(A), NEW m
    PROVE  \A s \in Sessions : Counts(A, m)[s] \in Nat /\ Counts(A, m)[s] \in Int
  BY DEF AllSound, Counts, Counted, Sound, AuthType

\* MemberReserved adds up the counts of all sessions.
LEMMA MemberReservedCounts ==
    ASSUME Induction, NEW A, AllSound(A), NEW m
    PROVE  MemberReserved(A, m) = SumFunctionOnSet(Counts(A, m), Sessions)
  <1> DEFINE f == Reserves(A)
             g == Counts(A, m)
             E == {s \in Sessions : A[s] # NoAuth /\ A[s].initiator = m /\ ~A[s].refunded}
  <1>1. E \in SUBSET Sessions /\ \A s \in Sessions : g[s] = IF s \in E THEN f[s] ELSE 0
    BY DEF Counts, Counted, Reserves
  <1>2. \A s \in Sessions : f[s] \in Nat
    BY Zenon, ReservesNat DEF AllSound
  <1>3. MemberReserved(A, m) = SumFunctionOnSet(f, E)
    BY Zenon DEF MemberReserved
  <1>4. IsFiniteSet(Sessions)
    BY PaymentAssumption
  <1> HIDE DEF f, g, E
  <1>5. \A s \in Sessions : f[s] \in Int
    BY <1>2
  <1>6. SumFunctionOnSet(g, Sessions) = SumFunctionOnSet(f, E)
    BY <1>1, <1>4, <1>5, SumMasked
  <1> QED
    BY Zenon, <1>3, <1>6 DEF g

\* If no session counts more, the member has not reserved more.
LEMMA CountsLess ==
    ASSUME Induction, NEW A, NEW B, AllSound(A), AllSound(B), NEW m,
           \A s \in Sessions : Counted(B[s], m) <= Counted(A[s], m)
    PROVE  ~(MemberReserved(B, m) > MemberReserved(A, m))
  <1> DEFINE f == Counts(A, m)
             g == Counts(B, m)
  <1>1. \A s \in Sessions : g[s] <= f[s]
    BY DEF Counts
  <1>2. \A s \in Sessions : f[s] \in Int /\ g[s] \in Int
    BY Zenon, CountsNat
  <1>3. IsFiniteSet(Sessions)
    BY PaymentAssumption
  <1>4. /\ MemberReserved(A, m) = SumFunctionOnSet(f, Sessions)
        /\ MemberReserved(B, m) = SumFunctionOnSet(g, Sessions)
    BY Zenon, MemberReservedCounts
  <1> HIDE DEF f, g
  <1>5. SumFunctionOnSet(g, Sessions) <= SumFunctionOnSet(f, Sessions)
    BY <1>1, <1>2, <1>3, SumLeq
  <1>6. SumFunctionOnSet(f, Sessions) \in Int /\ SumFunctionOnSet(g, Sessions) \in Int
    BY Zenon, <1>2, <1>3, SumInt
  <1> DEFINE x == SumFunctionOnSet(f, Sessions)
             y == SumFunctionOnSet(g, Sessions)
  <1> HIDE DEF x, y
  <1>7. ~(y > x)
    BY <1>5, <1>6 DEF x, y
  <1> QED
    BY Zenon, <1>4, <1>7 DEF x, y

\* An authorization that was there counts no more after an operation.
LEMMA CountedShrinks ==
    ASSUME NEW a, NEW b, a = NoAuth \/ Sound(a), SessionStep(a, b), ~Issue(a, b), NEW m
    PROVE  Counted(b, m) <= Counted(a, m)
  <1>1. CASE b = a
    BY <1>1 DEF Counted, Sound, AuthType
  <1>2. CASE GiveBack(a, b)
    BY <1>2 DEF GiveBack, TakeBack, Counted, Sound, AuthType
  <1>3. CASE SettleOne(a, b)
    <2>1. a # NoAuth /\ Claimable(a) /\ Sound(a)
      BY <1>3 DEF SettleOne
    <2>2. PICK rcpt \in Receipts, amount \in 0 .. a.reserved :
             amount = Amount(a, rcpt) /\ b = SettledAuthorization(a, rcpt, amount)
      BY Zenon, <1>3 DEF SettleOne
    <2>3. SettledInto(a, b, amount)
      BY Zenon, <2>1, <2>2, SettledCounts
    <2> QED
      BY <2>1, <2>3 DEF Counted, SettledInto
  <1> QED
    BY <1>1, <1>2, <1>3 DEF SessionStep

\* A reservation counts what was granted on top of what the sweep left.
LEMMA ReserveCounts ==
    ASSUME Induction, MoneyInv, NEW s \in Sessions, NEW m \in Members, NEW r \in Members,
           NEW request \in Requests, NEW at \in Stamps, NEW until \in at + 1 .. Expiry,
           ReserveSession(s, m, r, request, until, at)
    PROVE  MemberReserved(auth', m) <= policy.maxMember
  <1>1. IInv /\ at \in Nat /\ until \in Nat /\ price \in Nat /\ escrow \in Nat
    <2>1. IInv /\ now \in Nat /\ price \in Nat
      BY Zenon DEF MoneyInv, IInv
    <2>2. escrow \in Nat
      BY Zenon, MoneyTypes
    <2>3. at \in Nat /\ until \in Nat
      BY <2>1, PaymentAssumption DEF Stamps
    <2> QED
      BY Zenon, <2>1, <2>2, <2>3
  <1> DEFINE A == Swept(at)
             B == auth'
  <1>2. PICK amount \in 1 .. request :
           /\ amount = Granted(m, request, at)
           /\ B = [A EXCEPT ![s] = NewAuthorization(m, r, amount, until, at)]
    BY Zenon DEF ReserveSession
  <1> DEFINE b == NewAuthorization(m, r, amount, until, at)
             f == Counts(A, m)
             g == Counts(B, m)
  <1>3. amount \in Nat \ {0} /\ request \in Nat
    BY PaymentAssumption
  <1>4. Sound(b)
    BY Zenon, <1>1, <1>3, NewIsSound
  <1>5. b.reserved = amount /\ b.initiator = m /\ ~b.refunded /\ b # NoAuth
    BY Zenon, <1>4, IssuedIsNotAbsent DEF NewAuthorization, Sound
  <1>6. DOMAIN A = Sessions /\ AllSound(A) /\ A[s] = NoAuth /\ SweptFund(at) \in Nat
    BY Zenon, <1>1, SweepMoves DEF AllSound, ReserveSession, IdUnused
  <1> HIDE DEF b, A, B
  <1>7. B[s] = b /\ \A x \in Sessions : x # s => B[x] = A[x]
    BY <1>2, <1>6 DEF b
  <1>8. AllSound(B)
    BY Zenon, <1>4, <1>6, <1>7 DEF AllSound
  <1>9. f[s] = 0 /\ g[s] = amount /\ \A x \in Sessions : x # s => g[x] = f[x]
    BY <1>5, <1>6, <1>7 DEF Counts, Counted
  <1>10. \A x \in Sessions : f[x] \in Int /\ g[x] \in Int
    BY Zenon, <1>6, <1>8, CountsNat
  <1>11. \A x \in Sessions : f[x] \in Nat
    BY Zenon, <1>6, CountsNat
  <1>12. IsFiniteSet(Sessions)
    BY PaymentAssumption
  <1>13. /\ MemberReserved(A, m) = SumFunctionOnSet(f, Sessions)
         /\ MemberReserved(B, m) = SumFunctionOnSet(g, Sessions)
    BY Zenon, <1>6, <1>8, MemberReservedCounts
  <1> DEFINE before == SumFunctionOnSet(f, Sessions)
             after == SumFunctionOnSet(g, Sessions)
  <1> HIDE DEF f, g
  <1>14. before \in Nat
    BY Zenon, <1>11, <1>12, SumNat
  <1>15. after = before + amount
    <2>1. after = before - f[s] + g[s]
      BY <1>9, <1>10, <1>12, SumUpdate
    <2> QED
      BY <1>3, <1>9, <1>14, <2>1
  <1> HIDE DEF before, after
  <1>16. policy.maxMember \in Nat /\ policy.maxSession \in Nat
    BY PaymentAssumption DEF MoneyInv, PaymentTypeOK, PolicyType
  <1>17. amount <= Saturating(policy.maxMember - before)
    <2> DEFINE room == Saturating(policy.maxMember - before)
    <2>1. room \in Int
      BY <1>14, <1>16 DEF Saturating
    <2>2. amount = Min({request, policy.maxSession, SweptFund(at), room})
      BY Zenon, <1>2, <1>13 DEF Granted, before, A
    <2> HIDE DEF room
    <2>3. request \in Int /\ policy.maxSession \in Int /\ SweptFund(at) \in Int
      BY <1>3, <1>6, <1>16
    <2>4. Min({request, policy.maxSession, SweptFund(at), room}) <= room
      BY Zenon, <2>1, <2>3, MinOfFour
    <2> QED
      BY Zenon, <2>2, <2>4 DEF room
  <1>18. after <= policy.maxMember
    BY <1>3, <1>14, <1>15, <1>16, <1>17 DEF Saturating
  <1> QED
    BY Zenon, <1>13, <1>18 DEF after, B

\* Only a reservation issues an authorization, and it issues one.
LEMMA OnlyReserveIssues ==
    ASSUME IInv, PaymentNext, NEW x \in Sessions, Issue(auth[x], auth'[x])
    PROVE  \E s \in Sessions, m, r \in Members, request \in Requests, at \in Stamps :
              \E until \in at + 1 .. Expiry : ReserveSession(s, m, r, request, until, at)
  <1>1. auth[x] = NoAuth /\ auth'[x] # NoAuth
    <2>1. auth[x] = NoAuth
      BY DEF Issue
    <2>2. PICK m \in Members, r \in Members, amount \in Nat \ {0}, until \in Nat, at \in Nat :
             auth'[x] = NewAuthorization(m, r, amount, until, at)
      BY Zenon DEF Issue
    <2>3. auth'[x] # NoAuth
      BY Zenon, <2>2, NewStatus
    <2> QED
      BY <2>1, <2>3
  <1>2. auth' # auth
    BY <1>1
  <1>3. ASSUME NEW s \in Sessions, Refund(s) PROVE FALSE
    BY <1>1, <1>3 DEF Refund, Issued, IInv
  <1>4. ASSUME NEW s \in Sessions, NEW rcpt \in Receipts, NEW at \in Stamps, Settle(s, rcpt, at)
        PROVE  FALSE
    <2>1. auth[s] # NoAuth
      BY <1>4 DEF Settle, Issued
    <2>2. PICK b : auth' = [auth EXCEPT ![s] = b]
      BY Zenon, <1>4 DEF Settle
    <2> QED
      BY <1>1, <2>1, <2>2 DEF IInv
  <1> QED
    BY Zenon, <1>2, <1>3, <1>4
       DEF PaymentNext, Tick, FundNetwork, SetSpendingPolicy, RevokeMember, UpdatePrice,
           DrainNode, RefundByOwner, RefundByNode

\* A reservation issues the one authorization it names, for its initiator.
LEMMA ReserveIssuesOne ==
    ASSUME IInv, NEW s \in Sessions, NEW m \in Members, NEW r \in Members,
           NEW request \in Requests, NEW at \in Stamps, NEW until \in at + 1 .. Expiry,
           ReserveSession(s, m, r, request, until, at)
    PROVE  /\ auth[s] = NoAuth /\ auth'[s].initiator = m
           /\ \A x \in Sessions : x # s => ~Issue(auth[x], auth'[x])
  <1>1. PICK amount \in 1 .. request :
           auth' = [Swept(at) EXCEPT ![s] = NewAuthorization(m, r, amount, until, at)]
    BY Zenon DEF ReserveSession
  <1>2. auth[s] = NoAuth /\ auth'[s].initiator = m
    BY Zenon, <1>1 DEF ReserveSession, IdUnused, Swept, NewAuthorization
  <1>3. ASSUME NEW x \in Sessions, x # s, Issue(auth[x], auth'[x]) PROVE FALSE
    <2>1. auth[x] = NoAuth
      BY <1>3 DEF Issue
    <2>2. auth'[x] = NoAuth
      BY <1>1, <1>3, <2>1 DEF Swept, Expired, Issued
    <2>3. PICK m2 \in Members, r2 \in Members, a2 \in Nat \ {0}, u2 \in Nat, t2 \in Nat :
             auth'[x] = NewAuthorization(m2, r2, a2, u2, t2)
      BY Zenon, <1>3 DEF Issue
    <2> QED
      BY Zenon, <2>2, <2>3, NewStatus
  <1> QED
    BY <1>2, <1>3

\* A step never leaves a member for whom it reserved above the limit.
LEMMA MemberStep ==
    ASSUME Induction, MoneyInv, PaymentNext, NEW m \in Members
    PROVE  MemberReserved(auth', m) > MemberReserved(auth, m)
               => MemberReserved(auth', m) <= policy.maxMember
  <1>1. IInv
    BY DEF MoneyInv
  <1>2. AllSound(auth) /\ AllSound(auth')
    BY <1>1, StepInvariant DEF IInv, AllSound
  <1>3. \A x \in Sessions : SessionStep(auth[x], auth'[x])
    BY Zenon, <1>1, StepForms
  <1>4. \A x \in Sessions : auth[x] = NoAuth \/ Sound(auth[x])
    BY Zenon, <1>2 DEF AllSound
  <1>5. CASE \A x \in Sessions : ~Issue(auth[x], auth'[x])
    <2>1. \A x \in Sessions : Counted(auth'[x], m) <= Counted(auth[x], m)
      BY Zenon, <1>3, <1>4, <1>5, CountedShrinks
    <2> QED
      BY Zenon, <1>2, <2>1, CountsLess
  <1>6. CASE \E x \in Sessions : Issue(auth[x], auth'[x])
    <2>1. PICK s \in Sessions, i \in Members, r \in Members, request \in Requests,
               at \in Stamps :
             \E until \in at + 1 .. Expiry : ReserveSession(s, i, r, request, until, at)
      BY Zenon, <1>1, <1>6, OnlyReserveIssues
    <2>2. PICK until \in at + 1 .. Expiry : ReserveSession(s, i, r, request, until, at)
      BY Zenon, <2>1
    <2>3. /\ auth[s] = NoAuth /\ auth'[s].initiator = i
          /\ \A x \in Sessions : x # s => ~Issue(auth[x], auth'[x])
      BY Zenon, <1>1, <2>2, ReserveIssuesOne
    <2>4. CASE m = i
      BY Zenon, <2>2, <2>4, ReserveCounts
    <2>5. CASE m # i
      <3>1. Counted(auth[s], m) = 0 /\ Counted(auth'[s], m) = 0
        BY <2>3, <2>5 DEF Counted
      <3>2. \A x \in Sessions : x # s => Counted(auth'[x], m) <= Counted(auth[x], m)
        BY Zenon, <1>3, <1>4, <2>3, CountedShrinks
      <3>3. \A x \in Sessions : Counted(auth'[x], m) <= Counted(auth[x], m)
        BY <3>1, <3>2
      <3> QED
        BY Zenon, <1>2, <3>3, CountsLess
    <2> QED
      BY Zenon, <2>4, <2>5
  <1> QED
    BY Zenon, <1>5, <1>6

----------------------------------------------------------------------------
\* The theorems about sums, with induction established.

INSTANCE WellFoundedInduction

\* Induction over the natural numbers, on which the lemmas rest.
LEMMA NaturalInduction == Induction
  <1> SUFFICES ASSUME NEW G \in SUBSET Nat, 0 \in G, \A n \in G : n + 1 \in G
               PROVE  G = Nat
    BY DEF Induction
  <1> DEFINE R == OpToRel(<, Nat)
             B == Nat \ G
  <1>1. SUFFICES ASSUME B # {} PROVE FALSE
    BY Zenon
  <1>2. IsWellFoundedOn(R, Nat)
    BY Zenon, NatLessThanWellFounded
  <1> HIDE DEF R
  <1>3. PICK x \in B : \A y \in B : ~(<<y, x>> \in R)
    BY Zenon, <1>1, <1>2, WFMin
  <1>4. x \in Nat /\ x # 0 /\ x - 1 \in Nat /\ x - 1 < x
    BY <1>3
  <1>5. x - 1 \in G
    BY Zenon, <1>3, <1>4 DEF R, OpToRel
  <1> QED
    BY <1>4, <1>5

\* Every reachable ledger has natural balances that add up to what was there
\* at the start.
LEMMA MoneyInvariant == PaymentSpec => []MoneyInv
  <1>1. PaymentInit => MoneyInv
    BY Zenon, NaturalInduction, MoneyInit
  <1>2. MoneyInv /\ [PaymentNext]_vars => MoneyInv'
    BY Zenon, NaturalInduction, MoneyNext
  <1> QED
    BY <1>1, <1>2, PTL DEF PaymentSpec

\* No payer spends what it does not have: balances, fund, treasury and burn
\* counter stay natural numbers whatever is reserved, settled and refunded.
THEOREM PaymentTypeOKHolds == PaymentSpec => []PaymentTypeOK
  <1>1. MoneyInv => PaymentTypeOK
    BY DEF MoneyInv
  <1> QED
    BY <1>1, MoneyInvariant, PTL

\* Reserve, sweep, settle, close, refund and abandon move or burn MRK and never
\* create or lose any, for any number of sessions and any fees.
THEOREM ConservationHolds == PaymentSpec => []Conservation
  <1>1. MoneyInv => Conservation
    BY DEF MoneyInv
  <1> QED
    BY <1>1, MoneyInvariant, PTL

\* No reservation takes a member above maximum_member_reserved, whatever other
\* sessions of the member are open or reclaimed by the same operation.
THEOREM MemberWithinLimitHolds == PaymentSpec => MemberWithinLimit
  <1> DEFINE Within == \A m \in Members :
                          MemberReserved(auth', m) > MemberReserved(auth, m)
                              => MemberReserved(auth', m) <= policy.maxMember
  <1>1. MoneyInv /\ [PaymentNext]_vars => [Within]_vars
    BY Zenon, NaturalInduction, MemberStep
  <1>2. MemberWithinLimit <=> [][Within]_vars
    BY DEF MemberWithinLimit
  <1> QED
    BY <1>1, <1>2, MoneyInvariant, PTL DEF PaymentSpec

=============================================================================
