-------------------------- MODULE GovernanceProofs --------------------------
(***************************************************************************)
(* The invariants of Governance, for every number of nodes, proposals,     *)
(* epochs and settings.                                                    *)
(*                                                                         *)
(* GovernanceInv is the inductive invariant: both ledgers are in order     *)
(* (module GovernanceLedger), the operations that wait are well formed,    *)
(* and the finalized ledger is sound, that is what passed or was executed  *)
(* had its majority and every spend was within its limits.  The recursive  *)
(* functions that replay a batch of operations and enter several epochs    *)
(* are handled by induction over their length.                             *)
(***************************************************************************)
EXTENDS GovernanceLedger

\* The recorded spends are a list of amounts with their times.
SpendList(g, n) ==
  List(g.spends, n) /\ \A k \in 1 .. n : g.spends[k].amount \in Nat /\ g.spends[k].at \in Nat

\* The k-th spend is within every limit.
Within(g, k) ==
  /\ WithinPart(g, k, {k}, SingleSpend)
  /\ WithinPart(g, k, Counted(g, k, ShortWindow), ShortSpend)
  /\ WithinPart(g, k, Counted(g, k, LongWindow), LongSpend)

\* All spends are.
Accounted(g) ==
  /\ \E n \in Nat : SpendList(g, n)
  /\ \A k \in DOMAIN g.spends : Within(g, k)

\* The length of a list.
LEMMA ListLen == ASSUME NEW s, NEW n \in Nat, List(s, n) PROVE Len(s) = n /\ DOMAIN s = 1 .. n
<1> DEFINE T == {s[i] : i \in 1 .. n}
<1>1. s \in [1 .. n -> T]
  BY DEF List
<1>2. s \in Seq(T) /\ Len(s) = n
  BY <1>1
<1> QED
  BY <1>2 DEF List

\* Sums of recorded spends are natural numbers.
LEMMA SpendFacts ==
  ASSUME Induction, NEW g, NEW n \in Nat, SpendList(g, n)
  PROVE  /\ DOMAIN g.spends = 1 .. n /\ Len(g.spends) = n /\ IsFiniteSet(1 .. n)
         /\ \A k \in 1 .. n : Spends(g)[k] = g.spends[k].amount /\ Spends(g)[k] \in Nat
         /\ \A J \in SUBSET (1 .. n) : IsFiniteSet(J) /\ SumFunctionOnSet(Spends(g), J) \in Nat
<1>1. DOMAIN g.spends = 1 .. n /\ Len(g.spends) = n
  BY Zenon, ListLen DEF SpendList
<1>2. IsFiniteSet(1 .. n)
  BY FiniteInterval
<1>3. \A k \in 1 .. n : Spends(g)[k] = g.spends[k].amount /\ Spends(g)[k] \in Nat
  BY <1>1 DEF Spends, SpendList
<1>4. \A J \in SUBSET (1 .. n) : IsFiniteSet(J)
  BY Zenon, <1>2, FiniteSubset
<1>5. \A J \in SUBSET (1 .. n) : SumFunctionOnSet(Spends(g), J) \in Nat
  BY Zenon, <1>2, <1>3, SumNat
<1> QED
  BY Zenon, <1>1, <1>2, <1>3, <1>4, <1>5

\* How one more spend extends the list.
NextSpend(g, n, m, at, h) ==
  /\ SpendList(g, n) /\ g.treasury \in Nat /\ m \in Nat /\ at \in Nat /\ m <= g.treasury
  /\ h.treasury = g.treasury - m
  /\ h.spends = Append(g.spends, [amount |-> m, at |-> at])

\* What the longer list then holds.
SpendAdded(g, n, m, at, h) ==
  /\ SpendList(h, n + 1) /\ h.treasury \in Nat
  /\ h.spends[n + 1].at = at /\ Spends(h)[n + 1] = m
  /\ \A k \in 1 .. n : h.spends[k] = g.spends[k] /\ Spends(h)[k] = Spends(g)[k]

\* The earlier spends stay as they are.
LEMMA NextSpendFacts ==
  ASSUME NEW g, NEW n \in Nat, NEW m, NEW at, NEW h, NextSpend(g, n, m, at, h)
  PROVE  SpendAdded(g, n, m, at, h)
<1> DEFINE e == [amount |-> m, at |-> at]
<1>0. e.amount = m /\ e.at = at /\ m \in Nat /\ at \in Nat
  BY DEF NextSpend
<1> HIDE DEF e
<1>1. Longer(g.spends, n, e, h.spends)
  <2>1. h.spends = Append(g.spends, e) /\ List(g.spends, n)
    BY DEF NextSpend, SpendList, e
  <2> QED
    BY Zenon, <2>1, AppendFacts
<1>2. /\ List(h.spends, n + 1) /\ h.spends[n + 1] = e /\ \A k \in 1 .. n : h.spends[k] = g.spends[k]
  BY Zenon, <1>1 DEF Longer
<1>3. \A k \in 1 .. (n + 1) : k \in 1 .. n \/ k = n + 1
  OBVIOUS
<1>4. SpendList(h, n + 1)
  <2>1. \A k \in 1 .. n : g.spends[k].amount \in Nat /\ g.spends[k].at \in Nat
    BY DEF NextSpend, SpendList
  <2> QED
    BY Zenon, <1>0, <1>2, <1>3, <2>1 DEF SpendList
<1>5. n + 1 \in Nat /\ n + 1 \in 1 .. (n + 1) /\ \A k \in 1 .. n : k \in 1 .. (n + 1)
  OBVIOUS
<1>6. DOMAIN h.spends = 1 .. (n + 1) /\ DOMAIN g.spends = 1 .. n
  BY Zenon, <1>2 DEF NextSpend, SpendList, List
<1>7. Spends(h)[n + 1] = m /\ \A k \in 1 .. n : Spends(h)[k] = Spends(g)[k]
  BY Zenon, <1>0, <1>2, <1>5, <1>6 DEF Spends
<1>8. h.treasury \in Nat
  BY DEF NextSpend
<1> QED
  BY Zenon, <1>0, <1>2, <1>4, <1>7, <1>8 DEF SpendAdded

\* A spend stays within its part when later spends follow.
LEMMA OldSpend ==
  ASSUME Induction, NEW g, NEW n \in Nat, NEW m, NEW at, NEW h, NextSpend(g, n, m, at, h),
         NEW k \in 1 .. n, NEW J \in SUBSET (1 .. n), NEW part \in Nat, WithinPart(g, k, J, part)
  PROVE  WithinPart(h, k, J, part)
<1> DEFINE S == Spends(g)
           T == Spends(h)
<1>1. /\ SpendList(h, n + 1) /\ h.treasury \in Nat /\ T[n + 1] = m
      /\ \A i \in 1 .. n : h.spends[i] = g.spends[i] /\ T[i] = S[i]
  <2>1. SpendAdded(g, n, m, at, h)
    BY Zenon, NextSpendFacts
  <2> QED
    BY Zenon, <2>1 DEF SpendAdded
<1>2. SpendList(g, n) /\ m \in Nat /\ g.treasury \in Nat /\ h.treasury = g.treasury - m
  BY DEF NextSpend
<1>3. n + 1 \in Nat /\ \A i \in 1 .. k : i \in 1 .. n
  OBVIOUS
<1>5. J \in SUBSET (1 .. n) /\ k .. n \in SUBSET (1 .. n)
  BY <1>3
<1>6. /\ Len(g.spends) = n /\ Len(h.spends) = n + 1 /\ IsFiniteSet(J) /\ IsFiniteSet(k .. n)
      /\ SumFunctionOnSet(S, J) \in Nat /\ SumFunctionOnSet(S, k .. n) \in Nat
      /\ \A i \in 1 .. n : S[i] \in Nat
  BY Zenon, <1>1, <1>2, <1>3, <1>5, SpendFacts
<1> HIDE DEF S, T
<1>7. SumFunctionOnSet(T, J) = SumFunctionOnSet(S, J)
  <2>1. \A i \in J : T[i] = S[i]
    BY <1>1, <1>5
  <2> QED
    BY Zenon, <1>6, <2>1, SumSame
<1>8. SumFunctionOnSet(T, k .. (n + 1)) = m + SumFunctionOnSet(S, k .. n)
  <2> DEFINE K == k .. n
  <2>1. k .. (n + 1) = K \cup {n + 1} /\ n + 1 \notin K
    BY <1>3
  <2>2. \A i \in K : T[i] = S[i]
    BY <1>1, <1>5
  <2>3. \A i \in K \cup {n + 1} : T[i] \in Int
    <3>1. \A i \in K : T[i] \in Nat
      BY <1>5, <1>6, <2>2
    <3>2. T[n + 1] \in Nat
      BY Zenon, <1>1, <1>2
    <3> QED
      BY <3>1, <3>2
  <2> HIDE DEF K
  <2>4. SumFunctionOnSet(T, K \cup {n + 1}) = T[n + 1] + SumFunctionOnSet(T, K)
    BY Zenon, <1>6, <2>1, <2>3, SumAdd DEF K
  <2>5. SumFunctionOnSet(T, K) = SumFunctionOnSet(S, K)
    BY Zenon, <1>6, <2>2, SumSame DEF K
  <2> QED
    BY Zenon, <1>1, <2>1, <2>4, <2>5 DEF K
<1>9. PICK x \in Nat, y \in Nat, t \in Nat :
        x = SumFunctionOnSet(S, J) /\ y = SumFunctionOnSet(S, k .. n) /\ t = g.treasury
  BY Zenon, <1>2, <1>6
<1>10. x * SpendUnit <= (t + y) * part
  BY Zenon, <1>6, <1>9 DEF WithinPart, S
<1>11. (t - m) + (m + y) = t + y
  BY <1>2
<1>12. SumFunctionOnSet(T, J) * SpendUnit
         <= (h.treasury + SumFunctionOnSet(T, k .. Len(h.spends))) * part
  BY Zenon, <1>2, <1>6, <1>7, <1>8, <1>9, <1>10, <1>11
<1> QED
  BY Zenon, <1>12 DEF WithinPart, T

\* The spends that count towards a window are those that did before.
LEMMA OldCounted ==
  ASSUME NEW g, NEW n \in Nat, NEW m, NEW at, NEW h, NextSpend(g, n, m, at, h), NEW k \in 1 .. n, NEW window
  PROVE  /\ Counted(h, k, window) = Counted(g, k, window) /\ Counted(g, k, window) \in SUBSET (1 .. n)
         /\ {k} \in SUBSET (1 .. n)
<1>1. \A i \in 1 .. n : h.spends[i] = g.spends[i]
  <2>1. SpendAdded(g, n, m, at, h)
    BY Zenon, NextSpendFacts
  <2> QED
    BY Zenon, <2>1 DEF SpendAdded
<1>2. \A i \in 1 .. k : i \in 1 .. n
  OBVIOUS
<1> QED
  BY <1>1, <1>2 DEF Counted

\* A spend that, with earlier ones, is within the limit is within its part.
LEMMA NewSpend ==
  ASSUME Induction, NEW g, NEW n \in Nat, NEW m, NEW at, NEW h, NextSpend(g, n, m, at, h),
         NEW E \in SUBSET (1 .. n), NEW part \in Nat, SumFunctionOnSet(Spends(g), E) + m <= Limit(g, part)
  PROVE  WithinPart(h, n + 1, E \cup {n + 1}, part)
<1> DEFINE S == Spends(g)
           T == Spends(h)
<1>1. /\ SpendList(h, n + 1) /\ h.spends[n + 1].at = at /\ T[n + 1] = m
      /\ \A i \in 1 .. n : h.spends[i] = g.spends[i] /\ T[i] = S[i]
  <2>1. SpendAdded(g, n, m, at, h)
    BY Zenon, NextSpendFacts
  <2> QED
    BY Zenon, <2>1 DEF SpendAdded
<1>2. SpendList(g, n) /\ m \in Nat /\ g.treasury \in Nat /\ h.treasury = g.treasury - m
  BY DEF NextSpend
<1>3. n + 1 \in Nat /\ E \in SUBSET (1 .. n)
  OBVIOUS
<1>4. /\ DOMAIN g.spends = 1 .. n /\ Len(h.spends) = n + 1 /\ IsFiniteSet(E)
      /\ SumFunctionOnSet(S, E) \in Nat /\ \A i \in 1 .. n : S[i] \in Nat
  BY Zenon, <1>1, <1>2, <1>3, SpendFacts
<1>6. n + 1 \notin E /\ (n + 1) .. (n + 1) = {} \cup {n + 1}
  BY <1>3
<1>7. \A i \in E \cup {n + 1} : T[i] \in Int
  <2>1. \A i \in E : T[i] \in Nat
    BY Zenon, <1>1, <1>3, <1>4
  <2>2. T[n + 1] \in Nat /\ \A x \in Nat : x \in Int
    BY <1>1, <1>2
  <2> QED
    BY Zenon, <2>1, <2>2
<1>8. \A i \in E : T[i] = S[i]
  BY <1>1, <1>3
<1> HIDE DEF S, T
<1>9. SumFunctionOnSet(T, E \cup {n + 1}) = m + SumFunctionOnSet(S, E)
  <2>1. SumFunctionOnSet(T, E \cup {n + 1}) = T[n + 1] + SumFunctionOnSet(T, E)
    BY Zenon, <1>4, <1>6, <1>7, SumAdd
  <2>2. SumFunctionOnSet(T, E) = SumFunctionOnSet(S, E)
    BY Zenon, <1>4, <1>8, SumSame
  <2> QED
    BY Zenon, <1>1, <2>1, <2>2
<1>10. SumFunctionOnSet(T, (n + 1) .. (n + 1)) = m + 0
  <2>1. IsFiniteSet({}) /\ n + 1 \notin {} /\ \A i \in {} \cup {n + 1} : T[i] \in Int
    BY <1>7, FiniteEmpty
  <2>2. SumFunctionOnSet(T, {} \cup {n + 1}) = T[n + 1] + SumFunctionOnSet(T, {})
    BY Zenon, <2>1, SumAdd
  <2>3. SumFunctionOnSet(T, {}) = 0
    BY Zenon, SumEmpty
  <2> QED
    BY Zenon, <1>1, <1>6, <2>2, <2>3
<1>11. PICK x \in Nat, t \in Nat, U \in Nat :
         x = SumFunctionOnSet(S, E) /\ t = g.treasury /\ U = SpendUnit /\ U > 0
  <2>1. SpendUnit \in Nat /\ SpendUnit > 0
    BY GovernanceAssumption
  <2> QED
    BY Zenon, <1>2, <1>4, <2>1
<1>12. x + m <= (t * part) \div U
  BY Zenon, <1>11 DEF Limit, S
<1>13. (m + x) * U <= ((t - m) + (m + 0)) * part
  <2>1. PICK z \in Nat : z = t * part
    BY Products
  <2>2. PICK l \in Nat : l = z \div U /\ U * l <= z
    BY <1>11
  <2>3. x + m <= l
    BY Zenon, <1>12, <2>1, <2>2
  <2>4. (m + x) * U <= l * U
    BY <1>2, <2>3
  <2>5. (m + x) * U <= z
    BY <1>2, <2>2, <2>4
  <2>6. (t - m) + (m + 0) = t
    BY <1>2
  <2> QED
    BY Zenon, <2>1, <2>5, <2>6
<1>14. SumFunctionOnSet(T, E \cup {n + 1}) * SpendUnit
         <= (h.treasury + SumFunctionOnSet(T, (n + 1) .. Len(h.spends))) * part
  BY Zenon, <1>2, <1>4, <1>6, <1>9, <1>10, <1>11, <1>13
<1> QED
  BY Zenon, <1>14 DEF WithinPart, T

\* The earlier spends of a window of the new one.
NewWindow(g, n, at, h, window) ==
  \E E \in SUBSET (1 .. n) : /\ Counted(h, n + 1, window) = E \cup {n + 1}
                             /\ SpentSince(g, at - window) = SumFunctionOnSet(Spends(g), E)

\* What counts towards a window of the new spend is what SpentSince adds up.
LEMMA NewCounted ==
  ASSUME NEW g, NEW n \in Nat, NEW m, NEW at, NEW h, NextSpend(g, n, m, at, h), NEW window \in Nat
  PROVE  NewWindow(g, n, at, h, window)
<1> DEFINE E == {j \in 1 .. n : g.spends[j].at > at - window}
<1>1. h.spends[n + 1].at = at /\ \A i \in 1 .. n : h.spends[i] = g.spends[i]
  <2>1. SpendAdded(g, n, m, at, h)
    BY Zenon, NextSpendFacts
  <2> QED
    BY Zenon, <2>1 DEF SpendAdded
<1>2. DOMAIN g.spends = 1 .. n
  BY Zenon DEF NextSpend, SpendList, List
<1>3. \A j \in 1 .. (n + 1) : j \in 1 .. n \/ j = n + 1
  OBVIOUS
<1>4. \A j \in 1 .. n : j \in 1 .. (n + 1) /\ j # n + 1
  OBVIOUS
<1>5. Counted(h, n + 1, window) = E \cup {n + 1}
  BY <1>1, <1>3, <1>4 DEF Counted
<1>6. SpentSince(g, at - window) = SumFunctionOnSet(Spends(g), E)
  BY Zenon, <1>2 DEF SpentSince
<1>7. E \in SUBSET (1 .. n)
  OBVIOUS
<1> HIDE DEF E
<1> QED
  BY Zenon, <1>5, <1>6, <1>7 DEF NewWindow

-----------------------------------------------------------------------------
\* What holds of the finalized ledger beyond Ledger.
Sound(g) == Trusted(g) /\ Accounted(g)

\* Spends that stay as they are stay accounted for.
LEMMA SameAccounted ==
  ASSUME NEW g, NEW h, h.treasury = g.treasury, h.spends = g.spends, Accounted(g)
  PROVE  Accounted(h)
<1>1. Spends(h) = Spends(g)
  BY Zenon DEF Spends
<1>2. \A k, w : Counted(h, k, w) = Counted(g, k, w)
  BY Zenon DEF Counted
<1>3. \A k, J, p : WithinPart(g, k, J, p) => WithinPart(h, k, J, p)
  BY Zenon, <1>1 DEF WithinPart
<1>4. \E n \in Nat : SpendList(h, n)
  BY Zenon DEF Accounted, SpendList
<1>5. \A k \in DOMAIN h.spends : Within(h, k)
  BY Zenon, <1>2, <1>3 DEF Accounted, Within
<1> QED
  BY Zenon, <1>4, <1>5 DEF Accounted

\* An operation that spends nothing and passes or executes nothing new.
LEMMA QuietSound ==
  ASSUME NEW g, NEW h, Quiet(g, h), Sound(g)
  PROVE  Sound(h)
<1>1. h.treasury = g.treasury /\ h.spends = g.spends
  BY Zenon DEF Quiet
<1>2. Trusted(h)
  BY Zenon DEF Quiet, Sound, Trusted
<1> QED
  BY Zenon, <1>1, <1>2, SameAccounted DEF Sound

\* An allowed spend leaves every spend within its parts.
LEMMA SpendSound ==
  ASSUME Induction, NEW g, g.treasury \in Nat, NEW h, NEW m \in Nat, NEW at \in Nat,
         Accounted(g), SpendAllowed(g, m, at),
         h.treasury = g.treasury - m, h.spends = Append(g.spends, [amount |-> m, at |-> at])
  PROVE  Accounted(h)
<1>1. PICK n \in Nat : SpendList(g, n)
  BY DEF Accounted
<1>2. m <= g.treasury
  BY DEF SpendAllowed
<1>3. NextSpend(g, n, m, at, h)
  BY Zenon, <1>1, <1>2 DEF NextSpend
<1>4. DOMAIN g.spends = 1 .. n /\ n + 1 \in Nat
  BY <1>1, SpendFacts
<1>5. SpendList(h, n + 1)
  <2>1. SpendAdded(g, n, m, at, h)
    BY Zenon, <1>3, NextSpendFacts
  <2> QED
    BY Zenon, <2>1 DEF SpendAdded
<1>6. DOMAIN h.spends = 1 .. (n + 1)
  BY Zenon, <1>5 DEF SpendList, List
<1>7. \A k \in 1 .. (n + 1) : k \in 1 .. n \/ k = n + 1
  OBVIOUS
<1>8. /\ SingleSpend \in Nat /\ ShortSpend \in Nat /\ LongSpend \in Nat
      /\ ShortWindow \in Nat /\ LongWindow \in Nat
  BY GovernanceAssumption
<1>9. ASSUME NEW k \in 1 .. n PROVE Within(h, k)
  <2>1. Within(g, k)
    BY Zenon, <1>4 DEF Accounted
  <2>2. \A w : /\ Counted(h, k, w) = Counted(g, k, w) /\ Counted(g, k, w) \in SUBSET (1 .. n)
               /\ {k} \in SUBSET (1 .. n)
    BY Zenon, <1>3, OldCounted
  <2> QED
    BY Zenon, <1>3, <1>8, <2>1, <2>2, OldSpend DEF Within
<1>10. Within(h, n + 1)
  <2>1. WithinPart(h, n + 1, {n + 1}, SingleSpend)
    <3>1. {} \in SUBSET (1 .. n) /\ {} \cup {n + 1} = {n + 1} /\ 0 + m = m
      OBVIOUS
    <3>2. SumFunctionOnSet(Spends(g), {}) + m <= Limit(g, SingleSpend)
      BY Zenon, <3>1, SumEmpty DEF SpendAllowed
    <3>3. WithinPart(h, n + 1, {} \cup {n + 1}, SingleSpend)
      BY Zenon, <1>3, <1>8, <3>1, <3>2, NewSpend
    <3> QED
      BY Zenon, <3>1, <3>3
  <2>2. ASSUME NEW w \in Nat, NEW part \in Nat, SpentSince(g, at - w) + m <= Limit(g, part)
        PROVE  WithinPart(h, n + 1, Counted(h, n + 1, w), part)
    <3>1. PICK E \in SUBSET (1 .. n) : /\ Counted(h, n + 1, w) = E \cup {n + 1}
                                       /\ SpentSince(g, at - w) = SumFunctionOnSet(Spends(g), E)
      <4>1. NewWindow(g, n, at, h, w)
        BY Zenon, <1>3, <2>2, NewCounted
      <4> QED
        BY Zenon, <4>1 DEF NewWindow
    <3>2. SumFunctionOnSet(Spends(g), E) + m <= Limit(g, part)
      BY Zenon, <2>2, <3>1
    <3>3. WithinPart(h, n + 1, E \cup {n + 1}, part)
      BY Zenon, <1>3, <2>2, <3>1, <3>2, NewSpend
    <3> QED
      BY Zenon, <3>1, <3>3
  <2>3. /\ SpentSince(g, at - ShortWindow) + m <= Limit(g, ShortSpend)
        /\ SpentSince(g, at - LongWindow) + m <= Limit(g, LongSpend)
    BY Zenon DEF SpendAllowed
  <2> QED
    BY Zenon, <1>8, <2>1, <2>2, <2>3 DEF Within
<1> QED
  BY Zenon, <1>4, <1>5, <1>6, <1>7, <1>9, <1>10 DEF Accounted

\* The operations there are.
OpTypes == {"create", "vote", "validatorVote", "veto", "finalize", "execute", "direct"}

\* The operations of this daemon and of others.
GoodOp(op) ==
  /\ op.type \in OpTypes /\ op.node \in Nodes /\ op.stamp \in Nat
  /\ op.type = "create" => op.action \in Actions /\ SnapshotPower(op.power)
  /\ op.type = "direct" => op.action \in DirectActions

\* What an operation makes of a finalized ledger.
Carries(g, h) == Keeps(g, h) /\ (Sound(g) => Sound(h))

\* A quiet operation carries a sound ledger over.
LEMMA QuietCarries ==
  ASSUME NEW g, NEW h, Keeps(g, h), Quiet(g, h)
  PROVE  Carries(g, h)
  BY Zenon, QuietSound DEF Carries

\* So does an execution, whatever it spends: it is checked against the limits at
\* the time it carries, and every spend recorded after that time counts.
LEMMA ExecutedCarries ==
  ASSUME Induction, NEW g, Ledger(g), NEW op, op.prop \in DOMAIN g.props, g.props[op.prop].status = "passed",
         op.stamp \in Nat,
         op.stamp >= g.props[op.prop].after, ActionApplies(g, g.props[op.prop].action, op.stamp)
  PROVE  Carries(g, Executed(g, op))
<1> DEFINE p == g.props[op.prop]
           h == Executed(g, op)
<1>1. /\ Keeps(g, h) /\ (Trusted(g) => Trusted(h))
      /\ ~IsSpend(p.action) => h.treasury = g.treasury /\ h.spends = g.spends
      /\ IsSpend(p.action) =>
           /\ p.action.amount \in Nat /\ SpendAllowed(g, p.action.amount, op.stamp)
           /\ h.treasury = g.treasury - p.action.amount
           /\ h.spends = Append(g.spends, [amount |-> p.action.amount, at |-> op.stamp])
  BY Zenon, ExecutedKeeps
<1> HIDE DEF p, h
<1>2. ASSUME Sound(g) PROVE Sound(h)
  <2>1. Trusted(h) /\ Accounted(g) /\ g.treasury \in Nat
    BY Zenon, <1>1, <1>2 DEF Sound, Ledger
  <2>2. CASE IsSpend(p.action)
    BY Zenon, <1>1, <2>1, <2>2, SpendSound DEF Sound
  <2>3. CASE ~IsSpend(p.action)
    BY Zenon, <1>1, <2>1, <2>3, SameAccounted DEF Sound
  <2> QED
    BY Zenon, <2>2, <2>3
<1>3. Carries(g, h)
  BY Zenon, <1>1, <1>2 DEF Carries
<1> QED
  BY <1>3 DEF h

\* Direct governance: the ledger is tidied and the action applied.
LEMMA DirectKeeps ==
  ASSUME Induction, NEW g, Ledger(g), NEW action \in DirectActions, NEW at,
         ActionApplies(CancelBelowThreshold(g), action, at)
  PROVE  LET h == ActionApplied(CancelBelowThreshold(g), action)
         IN  Keeps(g, h) /\ Quiet(g, h)
<1> DEFINE c == CancelBelowThreshold(g)
           h == ActionApplied(c, action)
<1>1. Keeps(g, c) /\ Quiet(g, c)
  BY Zenon, CancelKeeps
<1>2. Ledger(c)
  BY Zenon, <1>1 DEF Keeps
<1>3. ~IsSpend(action) /\ action \in Actions \cup DirectActions
  BY GovernanceAssumption DEF IsSpend
<1> HIDE DEF c
<1>4. ActionApplies(c, action, at)
  BY DEF c
<1>5. Keeps(c, h) /\ Quiet(c, h)
  BY Zenon, <1>2, <1>3, <1>4, AppliedFacts
<1> HIDE DEF h
<1>6. Keeps(g, h) /\ Quiet(g, h)
  BY Zenon, <1>1, <1>5, KeepsTransitive, QuietTransitive
<1> QED
  BY Zenon, <1>6 DEF h, c

\* Every command that is allowed keeps the ledger.
LEMMA CommandKeeps ==
  ASSUME Induction, NEW g, Ledger(g), NEW op, GoodOp(op), CommandAllowed(g, op)
  PROVE  Keeps(g, CommandEffect(g, op))
<1> DEFINE p == g.props[op.prop]
<1>1. CASE op.type = "create"
  <2>1. op.node \in Nodes /\ op.action \in Actions /\ SnapshotPower(op.power) /\ g.funds[op.node] >= Bond
    BY <1>1 DEF GoodOp, CommandAllowed
  <2>2. CommandEffect(g, op) = Created(g, op)
    BY <1>1 DEF CommandEffect
  <2> QED
    BY Zenon, <2>1, <2>2, CreatedKeeps
<1>2. CASE op.type = "vote"
  <2>1. op.prop \in DOMAIN g.props /\ p.status = "voting"
    BY <1>2 DEF CommandAllowed
  <2>2. CommandEffect(g, op) = Voted(g, op)
    BY <1>2 DEF CommandEffect
  <2> QED
    BY Zenon, <2>1, <2>2, VotedKeeps
<1>3. CASE op.type = "validatorVote"
  <2>1. op.prop \in DOMAIN g.props /\ p.status = "voting"
    BY <1>3 DEF CommandAllowed
  <2>2. CommandEffect(g, op) = ValidatorVoted(g, op)
    BY <1>3 DEF CommandEffect
  <2> QED
    BY Zenon, <2>1, <2>2, VotedKeeps
<1>4. CASE op.type = "veto"
  <2>1. op.prop \in DOMAIN g.props /\ p.status = "passed" /\ op.node \in DOMAIN p.power
    BY <1>4 DEF CommandAllowed
  <2>2. CommandEffect(g, op) = CommandVeto(g, op)
    BY <1>4 DEF CommandEffect
  <2> QED
    BY Zenon, <2>1, <2>2, VetoedKeeps
<1>5. CASE op.type = "finalize"
  <2>1. op.prop \in DOMAIN g.props /\ p.status = "voting"
    BY <1>5 DEF CommandAllowed
  <2>2. CommandEffect(g, op) = CommandFinalize(g, op)
    BY <1>5 DEF CommandEffect
  <2> QED
    BY Zenon, <2>1, <2>2, DecidedKeeps
<1>6. CASE op.type = "execute"
  <2>1. /\ op.prop \in DOMAIN g.props /\ p.status = "passed" /\ op.stamp >= p.after
        /\ ActionApplies(g, p.action, op.stamp)
    BY <1>6 DEF CommandAllowed
  <2>2. CommandEffect(g, op) = Executed(g, op)
    BY <1>6 DEF CommandEffect
  <2> QED
    BY Zenon, <2>1, <2>2, ExecutedKeeps
<1>7. CASE op.type = "direct"
  <2>1. op.action \in DirectActions /\ ActionApplies(CancelBelowThreshold(g), op.action, op.stamp)
    BY <1>7 DEF GoodOp, CommandAllowed
  <2>2. CommandEffect(g, op) = ActionApplied(CancelBelowThreshold(g), op.action)
    BY <1>7 DEF CommandEffect
  <2> QED
    BY Zenon, <2>1, <2>2, DirectKeeps
<1> QED
  BY <1>1, <1>2, <1>3, <1>4, <1>5, <1>6, <1>7 DEF GoodOp, OpTypes

\* Every replicated operation that is allowed carries the ledger over.
LEMMA ReplicatedKeeps ==
  ASSUME Induction, NEW g, Ledger(g), NEW op, GoodOp(op), ReplicatedAllowed(g, op)
  PROVE  Carries(g, ReplicatedEffect(g, op))
<1> DEFINE p == g.props[op.prop]
<1>0. op.stamp \in Nat
  BY DEF GoodOp
<1>1. CASE op.type = "create"
  <2>1. op.node \in Nodes /\ op.action \in Actions /\ SnapshotPower(op.power) /\ g.funds[op.node] >= Bond
    BY <1>1 DEF GoodOp, ReplicatedAllowed
  <2>2. ReplicatedEffect(g, op) = Created(g, op)
    BY <1>1 DEF ReplicatedEffect, CommandEffect
  <2> QED
    BY Zenon, <2>1, <2>2, CreatedKeeps, QuietCarries
<1>2. CASE op.type = "vote"
  <2>1. op.prop \in DOMAIN g.props /\ p.status = "voting"
    BY <1>2 DEF ReplicatedAllowed
  <2>2. ReplicatedEffect(g, op) = Voted(g, op)
    BY <1>2 DEF ReplicatedEffect, CommandEffect
  <2> QED
    BY Zenon, <2>1, <2>2, VotedKeeps, QuietCarries
<1>3. CASE op.type = "validatorVote"
  <2>1. op.prop \in DOMAIN g.props /\ p.status = "voting"
    BY <1>3 DEF ReplicatedAllowed
  <2>2. ReplicatedEffect(g, op) = ValidatorVoted(g, op)
    BY <1>3 DEF ReplicatedEffect, CommandEffect
  <2> QED
    BY Zenon, <2>1, <2>2, VotedKeeps, QuietCarries
<1>4. CASE op.type = "veto"
  <2>1. op.prop \in DOMAIN g.props /\ p.status = "passed" /\ op.node \in DOMAIN p.power
    BY <1>4 DEF ReplicatedAllowed
  <2>2. ReplicatedEffect(g, op) = ReplicatedVeto(g, op)
    BY <1>4 DEF ReplicatedEffect
  <2> QED
    BY Zenon, <2>1, <2>2, VetoedKeeps, QuietCarries
<1>5. CASE op.type = "finalize"
  <2>1. op.prop \in DOMAIN g.props /\ p.status = "voting"
    BY <1>5 DEF ReplicatedAllowed
  <2>2. ReplicatedEffect(g, op) = ReplicatedFinalize(g, op)
    BY <1>5 DEF ReplicatedEffect
  <2> QED
    BY Zenon, <2>1, <2>2, DecidedKeeps, QuietCarries
<1>6. CASE op.type = "execute"
  <2>1. /\ op.prop \in DOMAIN g.props /\ p.status = "passed" /\ op.stamp >= p.after
        /\ ActionApplies(g, p.action, op.stamp)
    BY <1>6 DEF ReplicatedAllowed
  <2>2. ReplicatedEffect(g, op) = Executed(g, op)
    BY <1>6 DEF ReplicatedEffect, CommandEffect
  <2> QED
    BY Zenon, <1>0, <2>1, <2>2, ExecutedCarries
<1>7. CASE op.type = "direct"
  <2>1. op.action \in DirectActions /\ ActionApplies(CancelBelowThreshold(g), op.action, op.stamp)
    BY <1>7 DEF GoodOp, ReplicatedAllowed
  <2>2. ReplicatedEffect(g, op) = ActionApplied(CancelBelowThreshold(g), op.action)
    BY <1>7 DEF ReplicatedEffect, CommandEffect
  <2> QED
    BY Zenon, <2>1, <2>2, DirectKeeps, QuietCarries
<1> QED
  BY <1>1, <1>2, <1>3, <1>4, <1>5, <1>6, <1>7 DEF GoodOp, OpTypes

\* Two parts of one operation.
LEMMA CarriesTransitive ==
  ASSUME NEW f, NEW g, NEW h, Carries(f, g), Carries(g, h)
  PROVE  Carries(f, h)
<1>1. Keeps(f, h)
  BY Zenon, KeepsTransitive DEF Carries
<1> QED
  BY Zenon, <1>1 DEF Carries

\* Nothing happens.
LEMMA NothingCarries ==
  ASSUME NEW g, Ledger(g)
  PROVE  Keeps(g, g) /\ Carries(g, g)
<1>1. Keeps(g, g)
  BY Zenon, SameMoney DEF Ledger
<1> QED
  BY Zenon, <1>1 DEF Carries

\* A replicated operation, executed, rejected or expired.
LEMMA ReplicateCarries ==
  ASSUME Induction, NEW g, Ledger(g), NEW op, GoodOp(op), NEW t
  PROVE  Carries(g, Replicate(g, op, t))
<1> DEFINE r == ReplicatedEffect(g, op)
<1>0. op.node \in Nodes
  BY DEF GoodOp
<1>1. Carries(g, g)
  BY Zenon, NothingCarries
<1>2. \A f : Ledger(f) /\ FeePayable(f, op) => Carries(f, FinalizeOperation(f, op))
  BY Zenon, <1>0, FinalizeKeeps, QuietCarries
<1>3. ReplicatedAllowed(g, op) => Carries(g, r)
  BY Zenon, ReplicatedKeeps
<1> HIDE DEF r
<1>4. ReplicatedAllowed(g, op) => Ledger(r)
  BY Zenon, <1>3 DEF Carries, Keeps
<1>5. ReplicatedAllowed(g, op) /\ FeePayable(r, op) => Carries(g, FinalizeOperation(r, op))
  BY Zenon, <1>2, <1>3, <1>4, CarriesTransitive
<1> QED
  BY Zenon, <1>1, <1>2, <1>5 DEF Replicate, r

-----------------------------------------------------------------------------
\* Replaying the pending operations.

\* Pending operations are well formed.
Waiting(ops, n) == List(ops, n) /\ \A i \in 1 .. n : GoodOp(ops[i])

\* What the recursive function of Replayed has to satisfy.
ReplayStep(g, ops, t, h, n) == [k \in 0 .. n |-> IF k = 0 THEN g ELSE Replicate(h[k - 1], ops[k], t)]

IsReplay(g, ops, t, h, n) == h = ReplayStep(g, ops, t, h, n)

\* There is such a function for any number of operations (induction on it).
LEMMA ReplayExists == ASSUME Induction, NEW g, NEW ops, NEW t, NEW n \in Nat PROVE \E h : IsReplay(g, ops, t, h, n)
<1> DEFINE G == {d \in Nat : \E h : IsReplay(g, ops, t, h, d)}
<1>1. 0 \in G
  <2> DEFINE h == [k \in 0 .. 0 |-> g]
  <2>1. h = ReplayStep(g, ops, t, h, 0)
    BY DEF ReplayStep
  <2> HIDE DEF h
  <2>2. \E x : IsReplay(g, ops, t, x, 0)
    BY Zenon, <2>1 DEF IsReplay
  <2>3. 0 \in Nat
    OBVIOUS
  <2> QED
    BY Zenon, <2>2, <2>3
<1>2. ASSUME NEW d \in Nat, d \in G PROVE d + 1 \in G
  <2>1. PICK h : h = ReplayStep(g, ops, t, h, d)
    BY Zenon, <1>2 DEF IsReplay
  <2> DEFINE x == [k \in 0 .. (d + 1) |-> IF k = d + 1 THEN Replicate(h[d], ops[d + 1], t) ELSE h[k]]
  <2>2. \A k \in 0 .. d : x[k] = h[k]
    OBVIOUS
  <2>3. x[d + 1] = Replicate(h[d], ops[d + 1], t)
    OBVIOUS
  <2>4. \A k \in 0 .. d : h[k] = IF k = 0 THEN g ELSE Replicate(h[k - 1], ops[k], t)
    BY <2>1 DEF ReplayStep
  <2>5. DOMAIN x = 0 .. (d + 1) /\ x = [k \in 0 .. (d + 1) |-> x[k]]
    OBVIOUS
  <2> HIDE DEF x
  <2>6. \A k \in 0 .. (d + 1) : x[k] = IF k = 0 THEN g ELSE Replicate(x[k - 1], ops[k], t)
    <3> SUFFICES ASSUME NEW k \in 0 .. (d + 1) PROVE x[k] = IF k = 0 THEN g ELSE Replicate(x[k - 1], ops[k], t)
      OBVIOUS
    <3>1. CASE k \in 0 .. d
      <4>1. k # 0 => k - 1 \in 0 .. d
        BY <3>1
      <4> QED
        BY Zenon, <2>2, <2>4, <3>1, <4>1
    <3>2. CASE k = d + 1
      <4>1. k # 0 /\ k - 1 = d /\ d \in 0 .. d
        BY <3>2
      <4> QED
        BY Zenon, <2>2, <2>3, <3>2, <4>1
    <3> QED
      BY <3>1, <3>2
  <2>7. x = ReplayStep(g, ops, t, x, d + 1)
    BY Zenon, <2>5, <2>6 DEF ReplayStep
  <2>8. d + 1 \in Nat
    OBVIOUS
  <2> QED
    BY Zenon, <2>7, <2>8 DEF IsReplay
<1> HIDE DEF G
<1>3. G \subseteq Nat
  BY DEF G
<1>4. n \in G
  BY Zenon, <1>1, <1>2, <1>3, NatSetInduction
<1> QED
  BY Zenon, <1>4 DEF G

\* The replay ends with its last ledger.
ReplayEnds(g, ops, t, n) == \E h : IsReplay(g, ops, t, h, n) /\ Replayed(g, ops, t) = h[n]

\* Replayed is what the replay ends with.
LEMMA ReplayedIs ==
  ASSUME Induction, NEW g, NEW ops, NEW t, NEW n \in Nat, List(ops, n)
  PROVE  ReplayEnds(g, ops, t, n)
<1>1. Len(ops) = n
  BY Zenon, ListLen
<1>2. \E h : h = [k \in 0 .. n |-> IF k = 0 THEN g ELSE Replicate(h[k - 1], ops[k], t)]
  <2>1. PICK h : IsReplay(g, ops, t, h, n)
    BY Zenon, ReplayExists
  <2>2. h = [k \in 0 .. n |-> IF k = 0 THEN g ELSE Replicate(h[k - 1], ops[k], t)]
    BY Zenon, <2>1 DEF IsReplay, ReplayStep
  <2> QED
    BY Zenon, <2>2
<1> QED
  BY Zenon, <1>1, <1>2 DEF Replayed, ReplayEnds, IsReplay, ReplayStep

\* Replaying all pending operations keeps the ledger and leaves it sound.
LEMMA ReplayedCarries ==
  ASSUME Induction, NEW g, Ledger(g), NEW ops, NEW n \in Nat, NEW t, Waiting(ops, n)
  PROVE  Carries(g, Replayed(g, ops, t))
<1>1. List(ops, n) /\ \A i \in 1 .. n : GoodOp(ops[i])
  BY Zenon DEF Waiting
<1>2. PICK h : IsReplay(g, ops, t, h, n) /\ Replayed(g, ops, t) = h[n]
  <2>1. ReplayEnds(g, ops, t, n)
    BY Zenon, <1>1, ReplayedIs
  <2> QED
    BY Zenon, <2>1 DEF ReplayEnds
<1>3. \A k \in 0 .. n : h[k] = IF k = 0 THEN g ELSE Replicate(h[k - 1], ops[k], t)
  <2>1. h = [k \in 0 .. n |-> IF k = 0 THEN g ELSE Replicate(h[k - 1], ops[k], t)]
    BY Zenon, <1>2 DEF IsReplay, ReplayStep
  <2> DEFINE F(k) == IF k = 0 THEN g ELSE Replicate(h[k - 1], ops[k], t)
  <2>2. h = [k \in 0 .. n |-> F(k)]
    BY Zenon, <2>1
  <2> HIDE DEF F
  <2>3. \A k \in 0 .. n : h[k] = F(k)
    BY <2>2
  <2> QED
    BY Zenon, <2>3 DEF F
<1> DEFINE G == {k \in Nat : k \in 0 .. n => Carries(g, h[k])}
<1>4. 0 \in G
  <2>1. 0 \in 0 .. n /\ 0 \in Nat
    OBVIOUS
  <2>2. h[0] = g
    BY Zenon, <1>3, <2>1
  <2> QED
    BY Zenon, <2>1, <2>2, NothingCarries
<1>5. ASSUME NEW k \in Nat, k \in G PROVE k + 1 \in G
  <2>1. CASE k + 1 \in 0 .. n
    <3>1. k \in 0 .. n /\ k + 1 # 0 /\ (k + 1) - 1 = k /\ k + 1 \in Nat /\ k + 1 \in 1 .. n
      BY <2>1
    <3>2. Carries(g, h[k]) /\ Ledger(h[k])
      BY Zenon, <1>5, <3>1 DEF Carries, Keeps
    <3>3. h[k + 1] = Replicate(h[k], ops[k + 1], t)
      BY Zenon, <1>3, <2>1, <3>1
    <3>4. Carries(h[k], h[k + 1])
      BY Zenon, <1>1, <3>1, <3>2, <3>3, ReplicateCarries
    <3> QED
      BY Zenon, <3>1, <3>2, <3>4, CarriesTransitive
  <2>2. CASE k + 1 \notin 0 .. n
    <3>1. k + 1 \in Nat
      OBVIOUS
    <3> QED
      BY Zenon, <2>2, <3>1
  <2> QED
    BY <2>1, <2>2
<1>6. Carries(g, h[n])
  <2>1. n \in G
    <3>1. G \subseteq Nat
      BY Zenon
    <3> HIDE DEF G
    <3> QED
      BY Zenon, <1>4, <1>5, <3>1, NatSetInduction
  <2>2. n \in 0 .. n
    OBVIOUS
  <2> QED
    BY Zenon, <2>1, <2>2
<1> QED
  BY Zenon, <1>2, <1>6

-----------------------------------------------------------------------------
\* A list with e inserted at position p.
Inserted(s, n, p, e, t) ==
  /\ List(t, n + 1) /\ t[p] = e
  /\ \A i \in 1 .. (p - 1) : t[i] = s[i]
  /\ \A i \in (p + 1) .. (n + 1) : t[i] = s[i - 1]

\* Inserting shifts the elements behind.
LEMMA InsertFacts ==
  ASSUME NEW s, NEW n \in Nat, List(s, n), NEW p \in 1 .. (n + 1), NEW e
  PROVE  Inserted(s, n, p, e, InsertedAt(s, p, e))
<1> DEFINE T == {s[i] : i \in 1 .. n} \cup {e}
           a == SubSeq(s, 1, p - 1)
           b == SubSeq(s, p, n)
           t == InsertedAt(s, p, e)
<1>1. s \in [1 .. n -> T]
  BY DEF List
<1>2. s \in Seq(T) /\ Len(s) = n /\ e \in T
  BY <1>1
<1> HIDE DEF T
<1>3. a \in Seq(T) /\ Len(a) = p - 1 /\ \A i \in 1 .. (p - 1) : a[i] = s[i]
  BY <1>2
<1>4. b \in Seq(T) /\ Len(b) = n - p + 1 /\ \A i \in 1 .. (n - p + 1) : b[i] = s[p + i - 1]
  BY <1>2
<1>5. t = a \o <<e>> \o b
  BY <1>2 DEF InsertedAt
<1> HIDE DEF a, b, t
<1>6. PICK c : c = a \o <<e>>
  BY Zenon
<1>7. c \in Seq(T) /\ Len(c) = p /\ c[p] = e /\ \A i \in 1 .. (p - 1) : c[i] = s[i]
  BY <1>2, <1>3, <1>6
<1>8. /\ t \in Seq(T) /\ Len(t) = n + 1 /\ \A i \in 1 .. p : t[i] = c[i]
      /\ \A i \in (p + 1) .. (n + 1) : t[i] = b[i - p]
  <2>1. t = c \o b
    BY Zenon, <1>5, <1>6
  <2>2. t \in Seq(T)
    BY <1>4, <1>7, <2>1
  <2>5. Len(t) = n + 1
    <3>1. c \in Seq(T) /\ b \in Seq(T) /\ Len(c) = p /\ Len(b) = n - p + 1
      BY Zenon, <1>4, <1>7
    <3>2. Len(c \o b) = Len(c) + Len(b)
      BY <3>1
    <3> QED
      BY <2>1, <3>1, <3>2
  <2>3. \A i \in 1 .. p : t[i] = c[i]
    BY <1>4, <1>7, <2>1
  <2>4. \A i \in (p + 1) .. (n + 1) : t[i] = b[i - p]
    BY <1>4, <1>7, <2>1
  <2> QED
    BY Zenon, <2>2, <2>3, <2>4, <2>5
<1>9. List(t, n + 1)
  BY <1>8 DEF List
<1>10. t[p] = e /\ \A i \in 1 .. (p - 1) : t[i] = s[i]
  BY <1>7, <1>8
<1>11. \A i \in (p + 1) .. (n + 1) : t[i] = s[i - 1]
  BY <1>4, <1>8
<1> QED
  BY Zenon, <1>9, <1>10, <1>11 DEF t, Inserted

\* One more operation waits.
LEMMA SortedWaiting ==
  ASSUME Induction, NEW ops, NEW n \in Nat, Waiting(ops, n), NEW op, GoodOp(op)
  PROVE  Waiting(Sorted(ops, op), n + 1)
<1> DEFINE B == {i \in DOMAIN ops : Before(Key(ops[i]), Key(op))}
           p == Cardinality(B) + 1
           s == Sorted(ops, op)
<1>1. List(ops, n) /\ DOMAIN ops = 1 .. n /\ \A i \in 1 .. n : GoodOp(ops[i])
  BY Zenon DEF Waiting, List
<1>2. IsFiniteSet(1 .. n) /\ Cardinality(1 .. n) = n
  BY CardinalityInterval
<1>3. B \in SUBSET (1 .. n)
  BY <1>1
<1> HIDE DEF B
<1>4. IsFiniteSet(B) /\ Cardinality(B) \in Nat /\ Cardinality(B) <= n
  BY Zenon, <1>2, <1>3, CardinalitySubset
<1>5. p \in 1 .. (n + 1)
  BY <1>4
<1>6. s = InsertedAt(ops, p, op)
  BY Zenon DEF Sorted, B
<1> HIDE DEF p, s
<1>7. /\ List(s, n + 1) /\ s[p] = op
      /\ \A i \in 1 .. (p - 1) : s[i] = ops[i]
      /\ \A i \in (p + 1) .. (n + 1) : s[i] = ops[i - 1]
  <2>1. Inserted(ops, n, p, op, s)
    BY Zenon, <1>1, <1>5, <1>6, InsertFacts
  <2> QED
    BY Zenon, <2>1 DEF Inserted
<1>8. \A i \in 1 .. (n + 1) :
        \/ i \in 1 .. (p - 1) /\ i \in 1 .. n
        \/ i = p
        \/ i \in (p + 1) .. (n + 1) /\ i - 1 \in 1 .. n
  BY <1>5
<1>9. \A i \in 1 .. (n + 1) : GoodOp(s[i])
  BY Zenon, <1>1, <1>7, <1>8
<1> QED
  BY Zenon, <1>7, <1>9 DEF Waiting, s

-----------------------------------------------------------------------------
\* Entering epochs moves no money.
LEMMA EnterKeeps ==
  ASSUME Induction, NEW g, Ledger(g), NEW e \in Nat
  PROVE  Keeps(g, EnterEpochs(g, e)) /\ Quiet(g, EnterEpochs(g, e))
<1> DEFINE h == EnterEpochs(g, e)
<1>1. CASE e <= g.epoch
  <2>1. h = g
    BY Zenon, <1>1 DEF EnterEpochs
  <2> QED
    BY Zenon, <2>1, NothingCarries, QuietSame
<1>2. CASE ~ (e <= g.epoch)
  <2> DEFINE t == Planned(g.settings, Due(g.queue, e), g.epoch)[LastEpoch(Due(g.queue, e), g.epoch)]
  <2>1. h = [g EXCEPT !.epoch = e, !.queue = Later(g.queue, e), !.settings = t]
    BY <1>2 DEF EnterEpochs, LastEpoch
  <2>2. DOMAIN g = Fields
    BY LedgerFacts
  <2> HIDE DEF t
  <2>3. /\ DOMAIN h = Fields /\ h.props = g.props /\ h.funds = g.funds /\ h.treasury = g.treasury
        /\ h.burned = g.burned /\ h.spends = g.spends
        /\ h.epoch = e /\ h.queue = Later(g.queue, e) /\ h.settings = t
    BY <2>1, <2>2 DEF Fields
  <2> HIDE DEF h
  <2>4. ASSUME Plan(g) PROVE Plan(h)
    <3>1. /\ Fine(g.settings) /\ g.epoch \in Nat /\ GoodQueue(g.queue)
          /\ QueueApplies(g.settings, g.queue, g.epoch)
      BY Zenon, <2>4 DEF Plan
    <3>2. g.epoch < e
      BY <1>2, <3>1
    <3>3. Fine(t) /\ GoodQueue(Later(g.queue, e)) /\ QueueApplies(t, Later(g.queue, e), e)
      BY Zenon, <3>1, <3>2, EpochPlan DEF t
    <3> QED
      BY Zenon, <2>3, <3>3 DEF Plan
  <2>5. Keeps(g, h)
    BY Zenon, <2>3, <2>4, SameMoney
  <2>6. Quiet(g, h)
    BY Zenon, <2>3, QuietSame
  <2> QED
    BY <2>5, <2>6 DEF h
<1> QED
  BY <1>1, <1>2

-----------------------------------------------------------------------------
\* The inductive invariant.

\* All the money there is.
Supply == Treasury + Funds * Cardinality(Nodes)

\* What holds of both ledgers.
Kept(g) == Ledger(g) /\ Worth(g) = Supply /\ Plan(g)

\* The inductive invariant.
GovernanceInv ==
  /\ now \in 0 .. MaxTime /\ eligible \subseteq Nodes /\ committee \subseteq Nodes
  /\ Kept(mem) /\ Kept(fin)
  /\ Sound(fin) /\ \E n \in Nat : Waiting(pending, n)

\* Every operation keeps it.
LEMMA KeptKeeps == ASSUME NEW g, Kept(g), NEW h, Keeps(g, h) PROVE Kept(h)
  BY Zenon DEF Kept, Keeps

\* It holds at the start.
LEMMA GenesisKept ==
  ASSUME Induction
  PROVE  Kept(Genesis) /\ Sound(Genesis)
<1> DEFINE g == Genesis
<1>1. /\ DOMAIN g = Fields /\ g.props = <<>> /\ g.spends = <<>> /\ g.treasury = Treasury /\ g.burned = 0
      /\ g.funds = [a \in Accounts |-> IF a = Recipient THEN 0 ELSE Funds]
      /\ g.settings = InitialSettings /\ g.queue = [e \in {} |-> 0] /\ g.epoch = 0
  BY DEF Genesis, Fields
<1>2. /\ Treasury \in Nat /\ Funds \in Nat /\ 0 \in Nat /\ Recipient \notin Nodes /\ IsFiniteSet(Nodes)
      /\ Fine(InitialSettings)
  BY GovernanceAssumption DEF Fine
<1> HIDE DEF g
<1>3. g.funds \in [Accounts -> Nat]
  BY <1>1, <1>2
<1>4. List(g.props, 0) /\ List(g.spends, 0) /\ DOMAIN g.props = {} /\ DOMAIN g.spends = {}
  BY <1>1 DEF List
<1>5. Ledger(g)
  BY Zenon, <1>1, <1>2, <1>3, <1>4 DEF Ledger, Listed
<1>6. Held(g) = Funds * Cardinality(Nodes)
  <2>1. Accounts = Nodes \cup {Recipient} /\ \A a \in Nodes \cup {Recipient} : g.funds[a] \in Int
    BY <1>3 DEF Accounts
  <2>2. g.funds[Recipient] = 0 /\ \A a \in Nodes : g.funds[a] = Funds
    BY <1>1, <1>2 DEF Accounts
  <2>3. SumFunctionOnSet(g.funds, Nodes \cup {Recipient}) = g.funds[Recipient] + SumFunctionOnSet(g.funds, Nodes)
    BY Zenon, <1>2, <2>1, SumAdd
  <2>4. SumFunctionOnSet(g.funds, Nodes) = Funds * Cardinality(Nodes)
    <3>1. Funds \in Int
      BY <1>2
    <3> QED
      BY Zenon, <1>2, <2>2, <3>1, SumConstant
  <2>5. Cardinality(Nodes) \in Nat
    BY <1>2, CardinalityNat
  <2>6. PICK x \in Nat : x = Funds * Cardinality(Nodes)
    <3>1. \A a, b \in Nat : a * b \in Nat
      BY Products
    <3> QED
      BY Zenon, <1>2, <2>5, <3>1
  <2>7. 0 + x = x
    OBVIOUS
  <2> QED
    BY Zenon, <2>1, <2>2, <2>3, <2>4, <2>6, <2>7 DEF Held
<1>7. Bonded(g) = 0
  BY Zenon, <1>4, SumEmpty DEF Bonded
<1>8. Worth(g) = Supply
  <2>1. Cardinality(Nodes) \in Nat
    BY <1>2, CardinalityNat
  <2>2. PICK x \in Nat : x = Funds * Cardinality(Nodes)
    <3>1. \A a, b \in Nat : a * b \in Nat
      BY Products
    <3> QED
      BY Zenon, <1>2, <2>1, <3>1
  <2>3. x + Treasury + 0 + 0 = Treasury + x
    BY <1>2
  <2> QED
    BY Zenon, <1>1, <1>6, <1>7, <2>2, <2>3 DEF Worth, Supply
<1>9. Plan(g)
  <2>1. DOMAIN g.queue = {} /\ IsFiniteSet(DOMAIN g.queue)
    BY <1>1, FiniteEmpty
  <2>2. GoodQueue(g.queue) /\ QueueApplies(g.settings, g.queue, g.epoch)
    BY <2>1 DEF GoodQueue, QueueApplies
  <2> QED
    BY Zenon, <1>1, <1>2, <2>2 DEF Plan
<1>10. Sound(g)
  <2>1. \A k \in 1 .. 0 : FALSE
    OBVIOUS
  <2>2. SpendList(g, 0)
    BY Zenon, <1>4, <2>1 DEF SpendList
  <2> QED
    BY Zenon, <1>2, <1>4, <2>2 DEF Sound, Trusted, Accounted
<1>11. Kept(g)
  BY Zenon, <1>5, <1>8, <1>9 DEF Kept
<1> QED
  BY Zenon, <1>10, <1>11 DEF g

\* Nothing is pending.
LEMMA NothingWaiting == Waiting(<<>>, 0) /\ 0 \in Nat
<1>1. \A k \in 1 .. 0 : FALSE
  OBVIOUS
<1>2. List(<<>>, 0)
  BY DEF List
<1> QED
  BY Zenon, <1>1, <1>2 DEF Waiting

\* Any operation, as a command or as it arrives from another daemon.
LEMMA SubmitKeeps ==
  ASSUME Induction, GovernanceInv, NEW op, GoodOp(op), Submit(op)
  PROVE  GovernanceInv' /\ Stands(fin, fin')
<1> DEFINE c == CommandEffect(mem, op)
           r == ReplicatedEffect(mem, op)
<1>1. /\ pending' = Sorted(pending, op)
      /\ now' = now /\ eligible' = eligible /\ committee' = committee /\ fin' = fin
  BY DEF Submit
<1>2. \/ CommandAllowed(mem, op) /\ FeePayable(c, op) /\ mem' = FinalizeOperation(c, op)
      \/ ReplicatedAllowed(mem, op) /\ FeePayable(r, op) /\ mem' = FinalizeOperation(r, op)
      \/ mem' = mem
  BY Zenon DEF Submit, Command, Arrive, Executable
<1>3. Kept(mem) /\ Ledger(mem) /\ op.node \in Nodes
  BY Zenon DEF GovernanceInv, Kept, GoodOp
<1>4. (CommandAllowed(mem, op) => Keeps(mem, c)) /\ (ReplicatedAllowed(mem, op) => Keeps(mem, r))
  BY Zenon, <1>3, CommandKeeps, ReplicatedKeeps DEF Carries
<1> HIDE DEF c, r
<1>5. \A f : Keeps(mem, f) => Kept(f) /\ Ledger(f)
  BY Zenon, <1>3, KeptKeeps DEF Kept
<1>6. \A f : Keeps(mem, f) /\ FeePayable(f, op) => Kept(FinalizeOperation(f, op))
  BY Zenon, <1>3, <1>5, FinalizeKeeps, KeptKeeps
<1>7. Kept(mem')
  BY Zenon, <1>2, <1>3, <1>4, <1>6
<1>8. PICK n \in Nat : Waiting(pending, n)
  BY Zenon DEF GovernanceInv
<1>9. n + 1 \in Nat
  OBVIOUS
<1>10. Waiting(pending', n + 1)
  BY Zenon, <1>1, <1>8, SortedWaiting
<1>11. GovernanceInv'
  BY Zenon, <1>1, <1>7, <1>9, <1>10 DEF GovernanceInv
<1>12. Stands(fin, fin')
  BY Zenon, <1>1, StandsSame
<1> QED
  BY <1>11, <1>12

\* A block enters epochs, replays what is pending and replaces both ledgers.
LEMMA BlockKeeps == ASSUME Induction, GovernanceInv, ProduceBlock PROVE GovernanceInv' /\ Stands(fin, fin')
<1> DEFINE g == EnterEpochs(fin, now \div EpochLength)
<1>1. /\ fin' = Replayed(g, pending, now) /\ mem' = fin' /\ pending' = <<>>
      /\ now' = now /\ eligible' = eligible /\ committee' = committee
  BY DEF ProduceBlock
<1>2. now \div EpochLength \in Nat
  BY GovernanceAssumption DEF GovernanceInv
<1>3. Kept(fin) /\ Ledger(fin) /\ Sound(fin)
  BY Zenon DEF GovernanceInv, Kept
<1>4. Keeps(fin, g) /\ Quiet(fin, g)
  BY Zenon, <1>2, <1>3, EnterKeeps
<1>5. Ledger(g) /\ Carries(fin, g)
  BY Zenon, <1>4, QuietCarries DEF Keeps
<1>6. PICK n \in Nat : Waiting(pending, n)
  BY Zenon DEF GovernanceInv
<1> HIDE DEF g
<1>7. Carries(g, fin')
  BY Zenon, <1>1, <1>5, <1>6, ReplayedCarries
<1>8. Carries(fin, fin')
  BY Zenon, <1>5, <1>7, CarriesTransitive
<1>9. Kept(fin') /\ Sound(fin') /\ Stands(fin, fin')
  BY Zenon, <1>3, <1>8, KeptKeeps DEF Keeps, Carries
<1>10. GovernanceInv'
  BY Zenon, <1>1, <1>9, NothingWaiting DEF GovernanceInv
<1> QED
  BY <1>9, <1>10

\* Time passes.
LEMMA TickKeeps == ASSUME GovernanceInv, Tick PROVE GovernanceInv' /\ Stands(fin, fin')
<1>1. /\ now' = now + 1 /\ now < MaxTime /\ pending' = pending /\ mem' = mem /\ fin' = fin
      /\ eligible' = eligible /\ committee' = committee
  BY DEF Tick
<1>2. now' \in 0 .. MaxTime
  BY <1>1, GovernanceAssumption DEF GovernanceInv
<1>3. GovernanceInv'
  BY Zenon, <1>1, <1>2 DEF GovernanceInv
<1> QED
  BY Zenon, <1>1, <1>3, StandsSame

-----------------------------------------------------------------------------
\* The invariant holds initially.
LEMMA InitKeeps ==
  ASSUME Induction
  PROVE  Init => GovernanceInv
<1> SUFFICES ASSUME Init PROVE GovernanceInv
  OBVIOUS
<1>1. /\ now = 0 /\ eligible = Nodes /\ committee \in Committees /\ mem = Genesis /\ fin = Genesis
      /\ pending = <<>>
  BY DEF Init
<1>2. now \in 0 .. MaxTime /\ committee \subseteq Nodes
  BY <1>1, GovernanceAssumption
<1>3. \E n \in Nat : Waiting(pending, n)
  BY Zenon, <1>1, NothingWaiting
<1> QED
  BY Zenon, <1>1, <1>2, <1>3, GenesisKept DEF GovernanceInv

\* The operations of the daemons are well formed.
LEMMA CreateKeeps ==
  ASSUME Induction, GovernanceInv, NEW n \in Nodes, NEW kind \in Kinds, NEW action \in Actions,
         NEW times \in Times, NEW sent \in Sent, CreateProposal(n, kind, action, times, sent)
  PROVE  GovernanceInv' /\ Stands(fin, fin')
<1> DEFINE op == [type |-> "create", node |-> n, prop |-> Len(mem.props) + 1, kind |-> kind,
                  action |-> action, epoch |-> mem.epoch, power |-> PowerSnapshot(SnapshotNodes(action)),
                  validators |-> IF IsSpend(action) THEN committee ELSE {},
                  ends |-> times.ends, after |-> times.after,
                  stamp |-> sent.stamp, staged |-> sent.staged]
<1>1. SnapshotNodes(action) # {} /\ Submit(op)
  BY Zenon DEF CreateProposal
<1>2. /\ op.type = "create" /\ op.node = n /\ op.action = action /\ op.stamp = sent.stamp
      /\ op.power = PowerSnapshot(SnapshotNodes(action))
  BY Zenon
<1> HIDE DEF op
<1>3. SnapshotNodes(action) \in SUBSET Nodes
  BY DEF SnapshotNodes, Mature, GovernanceInv
<1>4. SnapshotPower(op.power)
  BY Zenon, <1>1, <1>2, <1>3 DEF SnapshotPower
<1>5. sent.stamp \in Nat
  BY DEF Sent
<1>6. GoodOp(op)
  BY <1>2, <1>4, <1>5 DEF GoodOp, OpTypes
<1> QED
  BY Zenon, <1>1, <1>6, SubmitKeeps

\* An operation on a proposal.
PropOp(op) ==
  /\ op.type \in {"vote", "validatorVote", "veto", "finalize", "execute"}
  /\ op.node \in Nodes /\ op.stamp \in Nat

\* Votes, vetoes, decisions and executions.
LEMMA PropOpKeeps ==
  ASSUME Induction, GovernanceInv, NEW op, PropOp(op), Submit(op)
  PROVE  GovernanceInv' /\ Stands(fin, fin')
<1>1. GoodOp(op)
  BY DEF PropOp, GoodOp, OpTypes
<1> QED
  BY Zenon, <1>1, SubmitKeeps

\* Direct governance by Node 1.
LEMMA DirectStepKeeps ==
  ASSUME Induction, GovernanceInv, NEW action \in DirectActions, NEW sent \in Sent, DirectGovernance(action, sent)
  PROVE  GovernanceInv' /\ Stands(fin, fin')
<1> DEFINE op == [type |-> "direct", node |-> 1, prop |-> 0, action |-> action,
                  stamp |-> sent.stamp, staged |-> sent.staged]
<1>1. Submit(op)
  BY Zenon DEF DirectGovernance
<1>2. op.type = "direct" /\ op.node = 1 /\ op.action = action /\ op.stamp = sent.stamp
  OBVIOUS
<1> HIDE DEF op
<1>3. sent.stamp \in Nat /\ 1 \in Nodes
  BY GovernanceAssumption DEF Sent
<1>4. GoodOp(op)
  BY <1>2, <1>3 DEF GoodOp, OpTypes
<1> QED
  BY Zenon, <1>1, <1>4, SubmitKeeps

\* Nodes gain and lose eligibility.
LEMMA RegistryKeeps ==
  ASSUME GovernanceInv, NEW E \in EligibleSets, NEW C \in Committees, RegistryChanges(E, C)
  PROVE  GovernanceInv' /\ Stands(fin, fin')
<1>1. /\ eligible' = E /\ committee' = C /\ now' = now /\ mem' = mem /\ fin' = fin /\ pending' = pending
  BY DEF RegistryChanges
<1>2. eligible' \subseteq Nodes /\ committee' \subseteq Nodes
  BY <1>1, GovernanceAssumption
<1> QED
  BY Zenon, <1>1, <1>2, StandsSame DEF GovernanceInv

\* Every step keeps the invariant, and the finalized proposals stand.
LEMMA NextKeeps ==
  ASSUME Induction
  PROVE  GovernanceInv /\ [Next]_vars => GovernanceInv' /\ Stands(fin, fin')
<1> SUFFICES ASSUME GovernanceInv, [Next]_vars PROVE GovernanceInv' /\ Stands(fin, fin')
  OBVIOUS
<1>1. CASE \E sent \in Sent, n \in Nodes, kind \in Kinds, action \in Actions, times \in Times :
             CreateProposal(n, kind, action, times, sent)
  BY Zenon, <1>1, CreateKeeps
<1>2. ASSUME NEW sent \in Sent, NEW n \in Nodes, NEW i,
             \/ \E c \in Ballots : VoteProposal(n, i, c, sent) \/ ValidatorVoteProposal(n, i, c, sent)
             \/ VetoTreasuryProposal(n, i, sent)
             \/ FinalizeProposal(n, i, sent)
             \/ \E action \in Actions : ExecuteProposal(n, i, action, sent)
      PROVE  GovernanceInv' /\ Stands(fin, fin')
  <2>0. sent.stamp \in Nat
    BY DEF Sent
  <2>1. ASSUME NEW c, VoteProposal(n, i, c, sent) PROVE \E op : PropOp(op) /\ Submit(op)
    <3> DEFINE op == [type |-> "vote", node |-> n, prop |-> i, choice |-> c,
                      stamp |-> sent.stamp, staged |-> sent.staged]
    <3>1. PropOp(op)
      BY <2>0 DEF PropOp
    <3>2. Submit(op)
      BY Zenon, <2>1 DEF VoteProposal
    <3> HIDE DEF op
    <3> QED
      BY Zenon, <3>1, <3>2
  <2>2. ASSUME NEW c, ValidatorVoteProposal(n, i, c, sent) PROVE \E op : PropOp(op) /\ Submit(op)
    <3> DEFINE op == [type |-> "validatorVote", node |-> n, prop |-> i, choice |-> c,
                      stamp |-> sent.stamp, staged |-> sent.staged]
    <3>1. PropOp(op)
      BY <2>0 DEF PropOp
    <3>2. Submit(op)
      BY Zenon, <2>2 DEF ValidatorVoteProposal
    <3> HIDE DEF op
    <3> QED
      BY Zenon, <3>1, <3>2
  <2>3. ASSUME VetoTreasuryProposal(n, i, sent) PROVE \E op : PropOp(op) /\ Submit(op)
    <3> DEFINE op == [type |-> "veto", node |-> n, prop |-> i, stamp |-> sent.stamp, staged |-> sent.staged]
    <3>1. PropOp(op)
      BY <2>0 DEF PropOp
    <3>2. Submit(op)
      BY Zenon, <2>3 DEF VetoTreasuryProposal
    <3> HIDE DEF op
    <3> QED
      BY Zenon, <3>1, <3>2
  <2>4. ASSUME FinalizeProposal(n, i, sent) PROVE \E op : PropOp(op) /\ Submit(op)
    <3> DEFINE op == [type |-> "finalize", node |-> n, prop |-> i, stamp |-> sent.stamp, staged |-> sent.staged]
    <3>1. PropOp(op)
      BY <2>0 DEF PropOp
    <3>2. Submit(op)
      BY Zenon, <2>4 DEF FinalizeProposal
    <3> HIDE DEF op
    <3> QED
      BY Zenon, <3>1, <3>2
  <2>5. ASSUME NEW a, ExecuteProposal(n, i, a, sent) PROVE \E op : PropOp(op) /\ Submit(op)
    <3> DEFINE op == [type |-> "execute", node |-> n, prop |-> i, action |-> a,
                      stamp |-> sent.stamp, staged |-> sent.staged]
    <3>1. PropOp(op)
      BY <2>0 DEF PropOp
    <3>2. Submit(op)
      BY Zenon, <2>5 DEF ExecuteProposal
    <3> HIDE DEF op
    <3> QED
      BY Zenon, <3>1, <3>2
  <2>6. PICK op : PropOp(op) /\ Submit(op)
    BY Zenon, <1>2, <2>1, <2>2, <2>3, <2>4, <2>5
  <2> QED
    BY Zenon, <2>6, PropOpKeeps
<1>3. CASE \E sent \in Sent, action \in DirectActions : DirectGovernance(action, sent)
  BY Zenon, <1>3, DirectStepKeeps
<1>4. CASE ProduceBlock
  BY Zenon, <1>4, BlockKeeps
<1>5. CASE Tick
  BY Zenon, <1>5, TickKeeps
<1>6. CASE \E E \in EligibleSets, C \in Committees : RegistryChanges(E, C)
  BY Zenon, <1>6, RegistryKeeps
<1>7. CASE UNCHANGED vars
  <2>1. /\ eligible' = eligible /\ committee' = committee /\ now' = now /\ mem' = mem /\ fin' = fin
        /\ pending' = pending
    BY Zenon, <1>7 DEF vars
  <2> QED
    BY Zenon, <2>1, StandsSame DEF GovernanceInv
<1> QED
  BY Zenon, <1>1, <1>2, <1>3, <1>4, <1>5, <1>6, <1>7 DEF Next

\* The types of a ledger and of its proposals.
LEMMA KeptTypes ==
  ASSUME NEW g, Kept(g)
  PROVE  /\ g.funds \in [Accounts -> Nat] /\ g.treasury \in Nat /\ g.burned \in Nat
         /\ \A i \in DOMAIN g.props : GoodProp(g.props[i]) /\ g.props[i].status \in Statuses
  BY Zenon DEF Kept, Ledger, GoodProp

\* A snapshot caps every node at its share, by the greatest cap that does so.
LEMMA CappedPower ==
  ASSUME Induction, NEW p, SnapshotPower(p.power)
  PROVE  LET N == DOMAIN p.power
             raw == [n \in N |-> Clamp(Age[n])]
             cap == Max({p.power[n] : n \in N})
         IN  /\ \A n \in N : p.power[n] * ShareUnit <= Share(N) * Total(p)
             /\ \A c \in (cap + 1) .. Max({raw[n] : n \in N}) : ~Fits(raw, N, c)
<1>1. PICK N \in SUBSET Nodes : N # {} /\ p.power = PowerSnapshot(N)
  BY Zenon DEF SnapshotPower
<1> DEFINE w == PowerSnapshot(N)
           raw == [n \in N |-> Clamp(Age[n])]
<1>2. /\ DOMAIN w = N
      /\ \A n \in N : w[n] * ShareUnit <= Share(N) * SumFunctionOnSet(w, N)
      /\ \A c \in (Greatest(w, N) + 1) .. Greatest(raw, N) : ~Fits(raw, N, c)
  BY Zenon, <1>1, SnapshotFacts DEF RawPower
<1>3. DOMAIN p.power = N /\ Total(p) = SumFunctionOnSet(w, N)
  BY Zenon, <1>1, <1>2 DEF Total
<1> QED
  BY Zenon, <1>1, <1>2, <1>3 DEF Greatest

-----------------------------------------------------------------------------
INSTANCE WellFoundedInduction

\* Induction over the natural numbers, on which the lemmas rest.
LEMMA NaturalInduction == Induction
<1> SUFFICES ASSUME NEW G \in SUBSET Nat, 0 \in G, \A n \in G : n + 1 \in G
             PROVE  G = Nat
  BY DEF Induction
<1> DEFINE R == OpToRel(<, Nat)
           B == Nat \ G
<1>1. SUFFICES ASSUME B # {} PROVE FALSE
  BY Zenon
<1>2. IsWellFoundedOn(R, Nat)
  BY Zenon, NatLessThanWellFounded
<1> HIDE DEF R
<1>3. PICK x \in B : \A y \in B : ~(<<y, x>> \in R)
  BY Zenon, <1>1, <1>2, WFMin
<1>4. x \in Nat /\ x # 0 /\ x - 1 \in Nat /\ x - 1 < x
  BY <1>3
<1>5. x - 1 \in G
  BY Zenon, <1>3, <1>4 DEF R, OpToRel
<1> QED
  BY <1>4, <1>5

\* The invariant holds in every reachable state.
THEOREM GovernanceInvHolds == GovernanceSpec => []GovernanceInv
<1>1. Init => GovernanceInv
  BY InitKeeps, NaturalInduction
<1>2. GovernanceInv /\ [Next]_vars => GovernanceInv'
  BY NextKeeps, NaturalInduction
<1> QED
  BY <1>1, <1>2, PTL DEF GovernanceSpec

\* Balances never go below zero.
THEOREM GovernanceTypeOKHolds == GovernanceSpec => []GovernanceTypeOK
<1>1. GovernanceInv => GovernanceTypeOK
  <2> SUFFICES ASSUME GovernanceInv PROVE GovernanceTypeOK
    OBVIOUS
  <2>1. Kept(mem) /\ Kept(fin)
    BY DEF GovernanceInv
  <2> QED
    BY Zenon, <2>1, KeptTypes DEF GovernanceInv, GovernanceTypeOK, Statuses
<1> QED
  BY <1>1, GovernanceInvHolds, PTL

\* Neither the operator's ledger nor the finalized one creates or loses money, for
\* any nodes, bonds, fees, actions and any order of operations.
THEOREM GovernanceConservesHolds == GovernanceSpec => []GovernanceConserves
<1>1. GovernanceInv => GovernanceConserves
  BY Zenon DEF GovernanceInv, Kept, GovernanceConserves, Worth, Held, Bonded, Supply
<1> QED
  BY <1>1, GovernanceInvHolds, PTL

\* Every queued batch will be accepted at its epoch, for any parameters, batches
\* and epoch lengths: none can be invalidated by a later change.
THEOREM QueueStaysApplicableHolds == GovernanceSpec => []QueueStaysApplicable
<1>1. GovernanceInv => QueueStaysApplicable
  BY Zenon DEF GovernanceInv, Kept, Plan, Fine, QueueStaysApplicable
<1> QED
  BY <1>1, GovernanceInvHolds, PTL

\* The epochs that have begun when a block is produced can be entered.
EpochsCanBegin == CanEnterEpochs(fin, now \div EpochLength)

\* Block production is never stopped by a queued batch: the guard of ProduceBlock,
\* which stands for the errors of advance_epochs_for_block, always holds.
THEOREM EpochsCanBeginHolds == GovernanceSpec => []EpochsCanBegin
<1>1. GovernanceInv => EpochsCanBegin
  <2> SUFFICES ASSUME GovernanceInv PROVE EpochsCanBegin
    OBVIOUS
  <2>1. now \div EpochLength \in Nat
    BY GovernanceAssumption DEF GovernanceInv
  <2>2. Plan(fin)
    BY Zenon DEF GovernanceInv, Kept
  <2> QED
    BY Zenon, <2>1, <2>2, DueApplies, NaturalInduction DEF Plan, EpochsCanBegin, CanEnterEpochs
<1> QED
  BY <1>1, GovernanceInvHolds, PTL

\* Only what had its majority, waited for its timelock and was not vetoed is executed
\* in the finalized ledger, and every spend was within the limits of its windows.
THEOREM ExecutedWithMandateHolds == GovernanceSpec => []ExecutedWithMandate
<1>1. GovernanceInv => ExecutedWithMandate
  <2> SUFFICES ASSUME GovernanceInv PROVE ExecutedWithMandate
    OBVIOUS
  <2>1. Kept(fin) /\ Sound(fin)
    BY Zenon DEF GovernanceInv
  <2>2. Trusted(fin) /\ Accounted(fin)
    BY Zenon, <2>1 DEF Sound
  <2>3. ASSUME NEW i \in DOMAIN fin.props, fin.props[i].status = "executed"
        PROVE  LET p == fin.props[i]
               IN  TallyPassed(p) /\ p.executed >= p.after /\ 3 * VetoPower(p) <= Total(p)
    <3> DEFINE p == fin.props[i]
    <3>1. GoodProp(p) /\ Unvetoed(p)
      BY Zenon, <2>1, <2>2, KeptTypes DEF Trusted
    <3>2. p.status = "executed" /\ p.status \in {"passed", "executed"}
      BY <2>3
    <3> HIDE DEF p
    <3>3. TallyPassed(p) /\ p.executed >= p.after /\ 10 * VetoPower(p) < Total(p)
      BY Zenon, <3>1, <3>2 DEF GoodProp, Unvetoed
    <3>4. VetoPower(p) \in Nat /\ Total(p) \in Nat
      BY Zenon, <3>1, PowerFacts, NaturalInduction DEF GoodProp
    <3>5. \A v, w \in Nat : 10 * v < w => 3 * v <= w
      OBVIOUS
    <3> QED
      BY Zenon, <3>3, <3>4, <3>5 DEF p
  <2>4. \A k \in DOMAIN fin.spends : Within(fin, k)
    BY Zenon, <2>2 DEF Accounted
  <2> QED
    BY Zenon, <2>3, <2>4 DEF ExecutedWithMandate, Within
<1> QED
  BY <1>1, GovernanceInvHolds, PTL

\* The snapshots of all finalized proposals are capped, for any ages and any shares.
THEOREM SnapshotCappedHolds == GovernanceSpec => []SnapshotCapped
<1>1. GovernanceInv => SnapshotCapped
  <2> SUFFICES ASSUME GovernanceInv PROVE SnapshotCapped
    OBVIOUS
  <2>1. \A i \in DOMAIN fin.props : SnapshotPower(fin.props[i].power)
    BY Zenon, KeptTypes DEF GovernanceInv, GoodProp
  <2> QED
    BY Zenon, <2>1, CappedPower, NaturalInduction DEF SnapshotCapped
<1> QED
  BY <1>1, GovernanceInvHolds, PTL

\* No step changes what was decided, in any ledger a block produces.
THEOREM OutcomeStandsHolds == GovernanceSpec => OutcomeStands
<1> DEFINE Step == \A i \in DOMAIN fin.props :
                     LET p == fin.props[i]
                         q == fin'.props[i]
                     IN  /\ i \in DOMAIN fin'.props /\ q.power = p.power /\ q.ends = p.ends /\ q.after = p.after
                         /\ p.status # "voting" => q.votes = p.votes /\ q.vvotes = p.vvotes /\ q.bond = 0
                         /\ ~Open(p) => q = p
<1>1. GovernanceInv /\ GovernanceInv' /\ [Next]_vars => [Step]_vars
  <2> SUFFICES ASSUME GovernanceInv, GovernanceInv', [Next]_vars PROVE Step
    OBVIOUS
  <2>1. Stands(fin, fin') /\ Kept(fin')
    BY Zenon, NextKeeps, NaturalInduction DEF GovernanceInv
  <2>2. \A i \in DOMAIN fin'.props : GoodProp(fin'.props[i])
    BY Zenon, <2>1, KeptTypes
  <2>3. ASSUME NEW p, NEW q, Follows(p, q), GoodProp(q)
        PROVE  /\ q.power = p.power /\ q.ends = p.ends /\ q.after = p.after
               /\ p.status # "voting" => q.votes = p.votes /\ q.vvotes = p.vvotes /\ q.bond = 0
               /\ ~Open(p) => q = p
    BY Zenon, <2>3 DEF Follows, GoodProp
  <2> SUFFICES ASSUME NEW i \in DOMAIN fin.props
               PROVE  LET p == fin.props[i]
                          q == fin'.props[i]
                      IN  /\ i \in DOMAIN fin'.props
                          /\ q.power = p.power /\ q.ends = p.ends /\ q.after = p.after
                          /\ p.status # "voting" => q.votes = p.votes /\ q.vvotes = p.vvotes /\ q.bond = 0
                          /\ ~Open(p) => q = p
    BY Zenon
  <2> DEFINE p == fin.props[i]
             q == fin'.props[i]
  <2>4. i \in DOMAIN fin'.props /\ Follows(p, q)
    BY Zenon, <2>1 DEF Stands
  <2>5. GoodProp(q)
    BY Zenon, <2>2, <2>4
  <2> HIDE DEF p, q
  <2>6. /\ q.power = p.power /\ q.ends = p.ends /\ q.after = p.after
        /\ p.status # "voting" => q.votes = p.votes /\ q.vvotes = p.vvotes /\ q.bond = 0
        /\ ~Open(p) => q = p
    BY Zenon, <2>3, <2>4, <2>5
  <2> QED
    BY Zenon, <2>4, <2>6 DEF p, q
<1> QED
  BY <1>1, GovernanceInvHolds, PTL DEF GovernanceSpec, OutcomeStands
=============================================================================
