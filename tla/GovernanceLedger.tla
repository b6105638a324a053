-------------------------- MODULE GovernanceLedger --------------------------
(***************************************************************************)
(* What one governance operation does to a ledger, for every number of     *)
(* nodes, proposals, epochs and settings.                                  *)
(*                                                                         *)
(* The module has three parts.  The snapshot of voting power: the search   *)
(* for the largest cap that still fits returns one, for every set of       *)
(* nodes, so no node has more than its share.  The plan of scheduled       *)
(* changes: a queue that is applicable stays so when a batch is replaced   *)
(* or an epoch begins.  The operations: each of them carries a ledger that *)
(* is in order (Ledger) to one that is in order and holds the same money.  *)
(***************************************************************************)
EXTENDS Governance, FiniteSums

\* The intervals of the search that are at most d wide.
Narrow(high, d) == {i \in (1 .. high) \X (1 .. high) : i[2] - i[1] <= d}

\* The middle of an interval, rounded up.
Mid(i) == i[1] + (i[2] - i[1] + 1) \div 2

\* One step of the search.
SearchStep(raw, N, h, i) ==
  IF i[1] >= i[2] THEN i[1]
  ELSE IF Fits(raw, N, Mid(i)) THEN h[<<Mid(i), i[2]>>] ELSE h[<<i[1], Mid(i) - 1>>]

\* What the recursive function of CapSearch has to satisfy.
IsSearch(raw, N, high, h) ==
  h = [i \in (1 .. high) \X (1 .. high) |-> SearchStep(raw, N, h, i)]

\* The two halves of an interval are narrower than the interval.
LEMMA Halves ==
  ASSUME NEW high \in Nat, NEW d \in Nat, NEW i \in Narrow(high, d + 1), i[1] < i[2]
  PROVE  /\ Mid(i) \in 1 .. high /\ i[1] < Mid(i) /\ Mid(i) <= i[2]
         /\ <<Mid(i), i[2]>> \in Narrow(high, d) /\ <<i[1], Mid(i) - 1>> \in Narrow(high, d)
<1>1. PICK a \in 1 .. high, b \in 1 .. high : i = <<a, b>>
  BY DEF Narrow
<1>2. i[1] = a /\ i[2] = b /\ a < b /\ b - a <= d + 1
  BY <1>1 DEF Narrow
<1>3. PICK m \in Int : m = Mid(i) /\ m = a + (b - a + 1) \div 2
  BY <1>2 DEF Mid
<1>4. a < m /\ m <= b
  BY <1>2, <1>3
<1>5. /\ m \in 1 .. high /\ m - 1 \in 1 .. high /\ b - m <= d /\ m - 1 - a <= d
  BY <1>2, <1>4
<1>6. <<m, b>> \in Narrow(high, d) /\ <<a, m - 1>> \in Narrow(high, d)
  BY <1>5 DEF Narrow
<1> QED
  BY <1>2, <1>3, <1>4, <1>5, <1>6

\* The recursive search exists.
LEMMA SearchExists ==
  ASSUME Induction, NEW raw, NEW N, NEW high \in Nat
  PROVE  \E h : IsSearch(raw, N, high, h)
<1> DEFINE Step(h, d) == [i \in Narrow(high, d) |-> SearchStep(raw, N, h, i)]
           G == {d \in Nat : \E h : h = Step(h, d)}
<1>1. 0 \in G
  <2> DEFINE h == [i \in Narrow(high, 0) |-> i[1]]
  <2>1. \A i \in Narrow(high, 0) : i[1] >= i[2]
    BY DEF Narrow
  <2>2. h = Step(h, 0)
    BY <2>1 DEF SearchStep
  <2> QED
    BY Zenon, <2>2
<1>2. ASSUME NEW d \in G PROVE d + 1 \in G
  <2>1. PICK h : h = Step(h, d)
    BY <1>2
  <2> DEFINE k == Step(h, d + 1)
  <2>2. d \in Nat /\ \A i \in Narrow(high, d) : i \in Narrow(high, d + 1)
    BY <1>2 DEF Narrow
  <2>3. \A i \in Narrow(high, d) : h[i] = SearchStep(raw, N, h, i)
    BY Zenon, <2>1
  <2>4. \A i \in Narrow(high, d) : k[i] = h[i]
    BY Zenon, <2>2, <2>3
  <2>5. ASSUME NEW i \in Narrow(high, d + 1)
        PROVE  SearchStep(raw, N, h, i) = SearchStep(raw, N, k, i)
    <3>1. CASE i[1] >= i[2]
      BY Zenon, <3>1 DEF SearchStep
    <3>2. CASE ~(i[1] >= i[2])
      <4>1. i[1] < i[2]
        BY <2>2, <3>2 DEF Narrow
      <4>2. <<Mid(i), i[2]>> \in Narrow(high, d) /\ <<i[1], Mid(i) - 1>> \in Narrow(high, d)
        BY Zenon, <2>2, <4>1, Halves
      <4> HIDE DEF k
      <4> QED
        BY Zenon, <2>4, <4>2 DEF SearchStep
    <3> QED
      BY Zenon, <3>1, <3>2
  <2>6. k = Step(k, d + 1)
    BY Zenon, <2>5
  <2>7. d + 1 \in Nat
    BY <2>2
  <2> QED
    BY Zenon, <2>6, <2>7
<1>3. G = Nat
  <2>1. G \in SUBSET Nat
    OBVIOUS
  <2> HIDE DEF G
  <2> QED
    BY Zenon, <1>1, <1>2, <2>1, NatSetInduction
<1>4. PICK h : h = Step(h, high)
  BY <1>3
<1>5. Narrow(high, high) = (1 .. high) \X (1 .. high)
  BY DEF Narrow
<1>6. IsSearch(raw, N, high, h)
  BY Zenon, <1>4, <1>5 DEF IsSearch
<1> QED
  BY Zenon, <1>6

\* It is the one that CapSearch applies.
LEMMA CapSearchIs ==
  ASSUME Induction, NEW raw, NEW N, NEW high \in Nat
  PROVE  \E h : IsSearch(raw, N, high, h) /\ CapSearch(raw, N, high) = h[<<1, high>>]
<1> DEFINE h == CHOOSE h : IsSearch(raw, N, high, h)
<1>1. IsSearch(raw, N, high, h)
  BY Zenon, SearchExists
<1>2. CapSearch(raw, N, high) = h[<<1, high>>]
  BY Zenon DEF CapSearch, IsSearch, SearchStep, Mid
<1> QED
  BY Zenon, <1>1, <1>2

\* Where the search from an interval ends.
Found(raw, N, i, r) ==
  /\ r \in i[1] .. i[2]
  /\ r = i[1] \/ Fits(raw, N, r)
  /\ r = i[2] \/ ~Fits(raw, N, r + 1)

\* The search ends with a cap that fits, and its successor does not.
LEMMA SearchFinds ==
  ASSUME Induction, NEW raw, NEW N, NEW high \in Nat, NEW h, IsSearch(raw, N, high, h)
  PROVE  \A i \in (1 .. high) \X (1 .. high) : i[1] <= i[2] => Found(raw, N, i, h[i])
<1> DEFINE Right(d) == \A i \in Narrow(high, d) : i[1] <= i[2] => Found(raw, N, i, h[i])
           G == {d \in Nat : Right(d)}
<1>1. \A i \in (1 .. high) \X (1 .. high) : h[i] = SearchStep(raw, N, h, i)
  BY Zenon DEF IsSearch
<1>2. \A d : \A i \in Narrow(high, d) : i \in (1 .. high) \X (1 .. high)
  BY DEF Narrow
<1>3. 0 \in G
  <2> SUFFICES ASSUME NEW i \in Narrow(high, 0), i[1] <= i[2] PROVE Found(raw, N, i, h[i])
    BY Zenon, 0 \in Nat
  <2>1. i[1] = i[2] /\ i[1] \in Int
    BY DEF Narrow
  <2>2. i[1] >= i[2] /\ i[1] \in i[1] .. i[2]
    BY <2>1
  <2>3. h[i] = i[1]
    BY Zenon, <1>1, <1>2, <2>2 DEF SearchStep
  <2> QED
    BY Zenon, <2>1, <2>2, <2>3 DEF Found
<1>4. ASSUME NEW d \in G PROVE d + 1 \in G
  <2>0. d \in Nat /\ d + 1 \in Nat /\ Right(d)
    BY <1>4
  <2> SUFFICES ASSUME NEW i \in Narrow(high, d + 1), i[1] <= i[2] PROVE Found(raw, N, i, h[i])
    BY Zenon, <2>0
  <2>i. h[i] = SearchStep(raw, N, h, i) /\ i[1] \in Int /\ i[2] \in Int
    <3>1. i \in (1 .. high) \X (1 .. high)
      BY Zenon, <1>2
    <3>2. i[1] \in Int /\ i[2] \in Int
      BY <3>1
    <3> QED
      BY Zenon, <1>1, <3>1, <3>2
  <2>1. CASE i[1] >= i[2]
    <3>1. i[1] = i[2] /\ i[1] \in i[1] .. i[2]
      BY <2>1, <2>i
    <3>2. h[i] = i[1]
      BY Zenon, <2>1, <2>i DEF SearchStep
    <3> QED
      BY Zenon, <3>1, <3>2 DEF Found
  <2>2. CASE ~(i[1] >= i[2])
    <3> DEFINE m == Mid(i)
               u == <<m, i[2]>>
               v == <<i[1], m - 1>>
    <3>1. i[1] < i[2]
      BY <2>2, <2>i
    <3>2. /\ m \in 1 .. high /\ i[1] < m /\ m <= i[2]
          /\ u \in Narrow(high, d) /\ v \in Narrow(high, d)
      BY Zenon, <2>0, <3>1, Halves
    <3> HIDE DEF m
    <3>3. u[1] = m /\ u[2] = i[2] /\ v[1] = i[1] /\ v[2] = m - 1 /\ i[1] <= m - 1 /\ m \in Int
      BY <2>i, <3>2
    <3>4. Found(raw, N, u, h[u]) /\ Found(raw, N, v, h[v])
      <4> HIDE DEF u, v
      <4> QED
        BY <2>0, <3>2, <3>3
    <3>5. CASE Fits(raw, N, m)
      <4>1. h[i] = h[u]
        BY Zenon, <2>2, <2>i, <3>5 DEF SearchStep, m
      <4> HIDE DEF u, v
      <4>2. Found(raw, N, i, h[u])
        BY <2>i, <3>2, <3>3, <3>4, <3>5 DEF Found
      <4> QED
        BY Zenon, <4>1, <4>2
    <3>6. CASE ~Fits(raw, N, m)
      <4>1. h[i] = h[v]
        BY Zenon, <2>2, <2>i, <3>6 DEF SearchStep, m
      <4> HIDE DEF u, v
      <4>2. h[v] \in i[1] .. (m - 1) /\ (h[v] = i[1] \/ Fits(raw, N, h[v]))
            /\ (h[v] = m - 1 \/ ~Fits(raw, N, h[v] + 1))
        BY Zenon, <3>3, <3>4 DEF Found
      <4>3. h[v] = m - 1 => ~Fits(raw, N, h[v] + 1)
        <5> SUFFICES ASSUME h[v] = m - 1 PROVE h[v] + 1 = m
          BY Zenon, <3>6
        <5> QED
          BY <3>3
      <4>4. h[v] \in i[1] .. i[2]
        BY <2>i, <3>2, <3>3, <4>2
      <4> QED
        BY Zenon, <4>1, <4>2, <4>3, <4>4 DEF Found
    <3> QED
      BY Zenon, <3>5, <3>6
  <2> QED
    BY Zenon, <2>1, <2>2
<1>5. high \in G
  <2>1. G \in SUBSET Nat
    OBVIOUS
  <2> HIDE DEF G
  <2> QED
    BY Zenon, <1>3, <1>4, <2>1, NatSetInduction
<1>6. Narrow(high, high) = (1 .. high) \X (1 .. high)
  BY DEF Narrow
<1> QED
  BY Zenon, <1>5, <1>6

\* What the binary search returns: a cap that fits, or the least one, such that
\* the next one does not fit.
LEMMA CapSearchFacts ==
  ASSUME Induction, NEW raw, NEW N, NEW high \in Nat, 1 <= high
  PROVE  LET r == CapSearch(raw, N, high)
         IN  /\ r \in 1 .. high
             /\ r = 1 \/ Fits(raw, N, r)
             /\ r = high \/ ~Fits(raw, N, r + 1)
<1>1. PICK h : IsSearch(raw, N, high, h) /\ CapSearch(raw, N, high) = h[<<1, high>>]
  BY Zenon, CapSearchIs
<1> DEFINE i == <<1, high>>
<1>2. i \in (1 .. high) \X (1 .. high) /\ i[1] = 1 /\ i[2] = high
  OBVIOUS
<1> HIDE DEF i
<1>3. Found(raw, N, i, h[i])
  BY Zenon, <1>1, <1>2, SearchFinds
<1> QED
  BY Zenon, <1>1, <1>2, <1>3 DEF Found, i

-----------------------------------------------------------------------------
\* The greatest value of a function.
Greatest(f, N) == Max({f[n] : n \in N})

\* The greatest value of a function on a finite set is one of its values.
LEMMA ImageMax ==
  ASSUME Induction, NEW N, IsFiniteSet(N), N # {}, NEW f, \A n \in N : f[n] \in Int
  PROVE  (\E n \in N : f[n] = Greatest(f, N)) /\ \A n \in N : f[n] <= Greatest(f, N)
<1> DEFINE T == {f[m] : m \in N}
<1>1. IsFiniteSet(T)
  <2>1. \A t \in T : \E m \in N : f[m] = t
    OBVIOUS
  <2> HIDE DEF T
  <2> QED
    BY Zenon, <2>1, FiniteImage
<1>2. T # {} /\ T \subseteq Int
  OBVIOUS
<1>3. \E x \in T : \A y \in T : x >= y
  <2> HIDE DEF T
  <2> QED
    BY Zenon, <1>1, <1>2, FiniteMax
<1>4. Max(T) \in T /\ \A y \in T : Max(T) >= y
  <2> HIDE DEF T
  <2> QED
    BY Zenon, <1>3 DEF Max
<1>5. PICK M : M = Max(T)
  OBVIOUS
<1>6. M \in T /\ \A y \in T : M >= y
  BY Zenon, <1>4, <1>5
<1>7. (\E n \in N : f[n] = M) /\ \A n \in N : f[n] <= M
  BY <1>6
<1> QED
  BY Zenon, <1>5, <1>7 DEF Greatest

\* The days of service that count, before the cap.
RawPower(N) == [n \in N |-> Clamp(Age[n])]

\* The cap the search finds for a set of nodes.
Cap(N) == CapSearch(RawPower(N), N, Max({RawPower(N)[n] : n \in N}))

\* Raw powers lie between 1 and MatureDays.
LEMMA RawFacts ==
  ASSUME NEW N \in SUBSET Nodes, N # {}
  PROVE  /\ IsFiniteSet(N) /\ DOMAIN RawPower(N) = N
         /\ \A n \in N : RawPower(N)[n] \in Nat /\ RawPower(N)[n] >= 1
<1>1. IsFiniteSet(N)
  BY Zenon, GovernanceAssumption, FiniteSubset
<1>2. \A n \in N : Age[n] \in Nat
  BY GovernanceAssumption
<1>3. MatureDays \in Nat /\ MatureDays >= 1
  BY GovernanceAssumption
<1>4. \A n \in N : Clamp(Age[n]) \in Nat /\ Clamp(Age[n]) >= 1
  BY <1>2, <1>3 DEF Clamp
<1> QED
  BY <1>1, <1>4 DEF RawPower

\* The cap lies between one day and the longest service, with which one node is
\* capped exactly.
LEMMA CapFacts ==
  ASSUME Induction, NEW N \in SUBSET Nodes, N # {}
  PROVE  LET raw == RawPower(N)
             high == Max({raw[n] : n \in N})
         IN  /\ high \in Nat /\ high >= 1 /\ (\E n \in N : raw[n] = high) /\ \A n \in N : raw[n] <= high
             /\ Cap(N) \in 1 .. high
             /\ Cap(N) = 1 \/ Fits(raw, N, Cap(N))
             /\ Cap(N) = high \/ ~Fits(raw, N, Cap(N) + 1)
             /\ PowerSnapshot(N) = Capped(raw, N, Cap(N))
<1> DEFINE raw == RawPower(N)
<1>1. PICK high : high = Max({raw[n] : n \in N})
  BY Zenon
<1>2. IsFiniteSet(N) /\ \A n \in N : raw[n] \in Nat /\ raw[n] \in Int /\ raw[n] >= 1
  BY RawFacts
<1> HIDE DEF raw
<1>3. (\E n \in N : raw[n] = high) /\ \A n \in N : raw[n] <= high
  <2>1. \A n \in N : raw[n] \in Int
    BY <1>2
  <2>2. IsFiniteSet(N)
    BY <1>2
  <2>3. (\E n \in N : raw[n] = Greatest(raw, N)) /\ \A n \in N : raw[n] <= Greatest(raw, N)
    BY Zenon, <2>1, <2>2, ImageMax
  <2> QED
    BY Zenon, <1>1, <2>3 DEF Greatest
<1>4. high \in Nat /\ 1 <= high /\ high >= 1
  BY <1>2, <1>3
<1>5. Cap(N) = CapSearch(raw, N, high)
  BY Zenon, <1>1 DEF Cap, raw
<1>6. /\ Cap(N) \in 1 .. high
      /\ Cap(N) = 1 \/ Fits(raw, N, Cap(N))
      /\ Cap(N) = high \/ ~Fits(raw, N, Cap(N) + 1)
  BY Zenon, <1>4, <1>5, CapSearchFacts
<1>7. PowerSnapshot(N) = Capped(raw, N, Cap(N))
  BY Zenon DEF PowerSnapshot, Cap, RawPower, raw
<1> QED
  BY Zenon, <1>1, <1>3, <1>4, <1>6, <1>7 DEF raw

\* Capped powers are positive and never above the cap.
LEMMA CappedFacts ==
  ASSUME Induction, NEW N \in SUBSET Nodes, N # {}, NEW c \in Nat, c >= 1
  PROVE  LET w == Capped(RawPower(N), N, c)
         IN  /\ DOMAIN w = N /\ \A n \in N : w[n] \in Nat /\ w[n] >= 1 /\ w[n] <= c
             /\ SumFunctionOnSet(w, N) \in Nat /\ SumFunctionOnSet(w, N) >= Cardinality(N)
             /\ Cardinality(N) \in Nat /\ Cardinality(N) >= 1
<1> DEFINE w == Capped(RawPower(N), N, c)
<1>1. IsFiniteSet(N) /\ \A n \in N : RawPower(N)[n] \in Nat /\ RawPower(N)[n] >= 1
  BY RawFacts
<1>2. DOMAIN w = N /\ \A n \in N : w[n] \in Nat /\ w[n] >= 1 /\ w[n] <= c
  BY <1>1 DEF Capped, AtMost
<1> HIDE DEF w
<1>3. SumFunctionOnSet(w, N) \in Nat
  BY Zenon, <1>1, <1>2, SumNat
<1>4. Cardinality(N) \in Nat /\ Cardinality(N) >= 1
  <2>1. Cardinality(N) \in Nat /\ Cardinality(N) # 0
    BY <1>1, CardinalityPositive, CardinalityNat
  <2> QED
    BY <2>1
<1>5. SumFunctionOnSet(w, N) >= Cardinality(N)
  <2> DEFINE one == [n \in N |-> 1]
  <2>1. SumFunctionOnSet(one, N) = 1 * Cardinality(N)
    <3>1. 1 \in Int /\ \A n \in N : one[n] = 1
      OBVIOUS
    <3> HIDE DEF one
    <3> QED
      BY Zenon, <1>1, <3>1, SumConstant
  <2>2. \A n \in N : one[n] \in Int /\ w[n] \in Int /\ one[n] <= w[n]
    BY <1>2
  <2> HIDE DEF one
  <2>3. SumFunctionOnSet(one, N) <= SumFunctionOnSet(w, N)
    BY Zenon, <1>1, <2>2, SumLeq
  <2> QED
    BY <1>3, <1>4, <2>1, <2>3
<1> QED
  BY Zenon, <1>2, <1>3, <1>4, <1>5 DEF w

\* An even share of the power is a natural number.
LEMMA ShareFacts ==
  ASSUME Induction, NEW N, IsFiniteSet(N), N # {}
  PROVE  Share(N) \in Nat /\ Cardinality(N) * Share(N) >= ShareUnit
<1>1. PICK k \in Nat : k = Cardinality(N) /\ k >= 1
  <2>1. Cardinality(N) \in Nat /\ Cardinality(N) # 0
    BY CardinalityPositive, CardinalityNat
  <2> QED
    BY <2>1
<1>2. ShareUnit \in Nat /\ ShareFloor \in Nat
  BY GovernanceAssumption
<1>3. PICK even \in Int : even = (ShareUnit + k - 1) \div k
  BY <1>1, <1>2
<1>4. k * even <= ShareUnit + k - 1 /\ ShareUnit + k - 1 < k * even + k
  BY <1>1, <1>2, <1>3
<1>5. even \in Nat
  BY <1>1, <1>2, <1>3, <1>4
<1>6. Share(N) = IF even > ShareFloor THEN even ELSE ShareFloor
  BY Zenon, <1>1, <1>3 DEF Share
<1>7. Share(N) \in Nat /\ Share(N) >= even
  BY <1>2, <1>5, <1>6
<1>8. PICK sh \in Nat : sh = Share(N) /\ sh >= even
  BY Zenon, <1>7
<1>9. k * sh >= k * even
  BY <1>5, <1>8
<1>10. k * sh >= ShareUnit
  BY <1>1, <1>2, <1>4, <1>5, <1>9
<1> QED
  BY Zenon, <1>1, <1>7, <1>8, <1>10

\* Arithmetic of products.
LEMMA Products ==
  /\ \A a \in Nat, b \in Nat, k \in Nat : a <= b => a * k <= b * k
  /\ \A a \in Nat, b \in Nat, k \in Nat : k >= 1 /\ a * k <= b * k => a <= b
  /\ \A a \in Nat, b \in Nat : a * b \in Nat /\ a * b = b * a
  /\ \A a \in Nat, b \in Nat, k \in Nat : (a * b) * k = a * (b * k)
  BY SMT

\* A cap that fits leaves every smaller one fitting: the share of the capped
\* power only falls as the cap rises.
LEMMA SmallerFits ==
  ASSUME Induction, NEW N \in SUBSET Nodes, N # {}, NEW c \in Nat, NEW d \in Nat, 1 <= d, d <= c,
         Fits(RawPower(N), N, c)
  PROVE  Fits(RawPower(N), N, d)
<1> DEFINE raw == RawPower(N)
           u == Capped(raw, N, c)
           v == Capped(raw, N, d)
           du == [n \in N |-> d * u[n]]
           cv == [n \in N |-> c * v[n]]
<1>1. IsFiniteSet(N) /\ \A n \in N : raw[n] \in Nat /\ raw[n] >= 1
  BY RawFacts
<1>2. c >= 1
  OBVIOUS
<1>3. \A n \in N : u[n] \in Nat /\ v[n] \in Nat /\ d * u[n] <= c * v[n]
  <2> SUFFICES ASSUME NEW n \in N PROVE u[n] \in Nat /\ v[n] \in Nat /\ d * u[n] <= c * v[n]
    OBVIOUS
  <2>1. PICK r \in Nat : r = raw[n]
    BY <1>1
  <2> HIDE DEF raw
  <2>2. u[n] = (IF r <= c THEN r ELSE c) /\ v[n] = (IF r <= d THEN r ELSE d)
    BY <2>1 DEF Capped, AtMost
  <2> HIDE DEF u, v
  <2>3. CASE r <= d
    <3>1. u[n] = r /\ v[n] = r
      BY <2>2, <2>3
    <3>2. d * r <= c * r
      BY SMT
    <3> QED
      BY Zenon, <3>1, <3>2
  <2>4. CASE ~(r <= d) /\ r <= c
    <3>1. u[n] = r /\ v[n] = d
      BY <2>2, <2>4
    <3>2. d * r <= c * d
      BY <2>4
    <3> QED
      BY Zenon, <3>1, <3>2
  <2>5. CASE ~(r <= c)
    <3>1. u[n] = c /\ v[n] = d
      BY <2>2, <2>5
    <3>2. d * c <= c * d
      BY SMT
    <3> QED
      BY Zenon, <3>1, <3>2
  <2> QED
    BY <2>3, <2>4, <2>5
<1> HIDE DEF u, v
<1>4. PICK su \in Nat, sv \in Nat : su = SumFunctionOnSet(u, N) /\ sv = SumFunctionOnSet(v, N)
  BY Zenon, <1>1, <1>3, SumNat
<1>5. d * su <= c * sv
  <2>1. c \in Int /\ d \in Int /\ \A n \in N : u[n] \in Int /\ v[n] \in Int
    BY <1>3
  <2>2. \A n \in N : du[n] = d * u[n] /\ cv[n] = c * v[n]
    OBVIOUS
  <2>3. \A n \in N : du[n] \in Int /\ cv[n] \in Int /\ du[n] <= cv[n]
    BY <1>3
  <2> HIDE DEF du, cv
  <2>4. SumFunctionOnSet(du, N) = d * su /\ SumFunctionOnSet(cv, N) = c * sv
    BY Zenon, <1>1, <1>4, <2>1, <2>2, SumScale
  <2>5. SumFunctionOnSet(du, N) <= SumFunctionOnSet(cv, N)
    BY Zenon, <1>1, <2>3, SumLeq
  <2> QED
    BY Zenon, <2>4, <2>5
<1>6. PICK sh \in Nat : sh = Share(N)
  BY <1>1, ShareFacts
<1>7. PICK U \in Nat : U = ShareUnit
  BY GovernanceAssumption
<1>8. su * sh >= c * U
  BY Zenon, <1>4, <1>6, <1>7 DEF Fits, u
<1>9. sv * sh >= d * U
  <2>1. (c * U) * d <= (su * sh) * d
    BY <1>8
  <2>2. (d * su) * sh <= (c * sv) * sh
    BY <1>5
  <2>3. (d * U) * c = (c * U) * d /\ (su * sh) * d = (d * su) * sh /\ (c * sv) * sh = (sv * sh) * c
    BY SMT
  <2>4. /\ (d * U) * c \in Nat /\ (su * sh) * d \in Nat /\ (sv * sh) * c \in Nat
        /\ sv * sh \in Nat /\ d * U \in Nat
    BY SMT
  <2>5. (d * U) * c <= (sv * sh) * c
    <3>1. (d * U) * c <= (su * sh) * d
      BY Zenon, <2>1, <2>3
    <3>2. (su * sh) * d <= (sv * sh) * c
      BY Zenon, <2>2, <2>3
    <3>3. \A a \in Nat, b \in Nat, e \in Nat : a <= b /\ b <= e => a <= e
      OBVIOUS
    <3> QED
      BY Zenon, <2>4, <3>1, <3>2, <3>3
  <2>6. d * U <= sv * sh
    BY Zenon, <1>2, <2>4, <2>5, Products
  <2> QED
    BY <2>4, <2>6
<1> QED
  BY Zenon, <1>4, <1>6, <1>7, <1>9 DEF Fits, v

\* The power of a snapshot: at least one day for each node, none with more than
\* its share, under the greatest cap that achieves this.
LEMMA SnapshotFacts ==
  ASSUME Induction, NEW N \in SUBSET Nodes, N # {}
  PROVE  LET w == PowerSnapshot(N)
             raw == RawPower(N)
             total == SumFunctionOnSet(w, N)
         IN  /\ IsFiniteSet(N) /\ DOMAIN w = N /\ \A n \in N : w[n] \in Nat
             /\ total \in Nat /\ total >= 1
             /\ \A n \in N : w[n] * ShareUnit <= Share(N) * total
             /\ \A c \in (Greatest(w, N) + 1) .. Greatest(raw, N) : ~Fits(raw, N, c)
<1> DEFINE w == PowerSnapshot(N)
           raw == RawPower(N)
<1>0. IsFiniteSet(N) /\ \A n \in N : raw[n] \in Nat /\ raw[n] >= 1
  BY RawFacts
<1>1. PICK high \in Nat, cap \in Nat :
        /\ high = Greatest(raw, N) /\ cap = Cap(N) /\ high >= 1 /\ cap >= 1 /\ cap <= high
        /\ (\E n \in N : raw[n] = high) /\ \A n \in N : raw[n] <= high
        /\ cap = 1 \/ Fits(raw, N, cap)
        /\ cap = high \/ ~Fits(raw, N, cap + 1)
        /\ w = Capped(raw, N, cap)
  <2>1. LET high == Greatest(raw, N)
        IN  /\ high \in Nat /\ high >= 1 /\ (\E n \in N : raw[n] = high) /\ \A n \in N : raw[n] <= high
            /\ Cap(N) \in 1 .. high
            /\ Cap(N) = 1 \/ Fits(raw, N, Cap(N))
            /\ Cap(N) = high \/ ~Fits(raw, N, Cap(N) + 1)
            /\ w = Capped(raw, N, Cap(N))
    BY Zenon, CapFacts DEF Greatest
  <2> HIDE DEF raw, w
  <2>2. Cap(N) \in Nat /\ Cap(N) >= 1 /\ Cap(N) <= Greatest(raw, N)
    BY <2>1
  <2> QED
    BY Zenon, <2>1, <2>2
<1>2. /\ DOMAIN w = N /\ \A n \in N : w[n] \in Nat /\ w[n] >= 1 /\ w[n] <= cap
      /\ SumFunctionOnSet(w, N) \in Nat /\ SumFunctionOnSet(w, N) >= Cardinality(N)
      /\ Cardinality(N) \in Nat /\ Cardinality(N) >= 1
  BY Zenon, <1>1, CappedFacts
<1>3. PICK total \in Nat, k \in Nat :
        total = SumFunctionOnSet(w, N) /\ k = Cardinality(N) /\ total >= k /\ k >= 1
  BY Zenon, <1>2
<1>4. PICK sh \in Nat, U \in Nat : sh = Share(N) /\ U = ShareUnit /\ k * sh >= U
  <2>1. ShareUnit \in Nat
    BY GovernanceAssumption
  <2> QED
    BY Zenon, <1>0, <1>3, <2>1, ShareFacts
<1> HIDE DEF w, raw
<1>5. cap * U <= sh * total
  <2>1. CASE cap = 1
    <3>1. k * sh <= total * sh
      BY <1>3
    <3> QED
      BY <1>4, <2>1, <3>1
  <2>2. CASE Fits(raw, N, cap)
    <3>1. total * sh >= cap * U
      BY Zenon, <1>1, <1>3, <1>4, <2>2 DEF Fits
    <3> QED
      BY <3>1
  <2> QED
    BY Zenon, <1>1, <2>1, <2>2
<1>6. \A n \in N : w[n] * ShareUnit <= Share(N) * SumFunctionOnSet(w, N)
  <2> SUFFICES ASSUME NEW n \in N PROVE w[n] * U <= sh * total
    BY Zenon, <1>3, <1>4
  <2>1. PICK x \in Nat : x = w[n] /\ x <= cap
    BY Zenon, <1>2
  <2>2. x * U <= cap * U
    BY <2>1
  <2>3. x * U <= sh * total
    BY <1>5, <2>2
  <2> QED
    BY Zenon, <2>1, <2>3
<1>7. Greatest(w, N) = cap
  <2>1. \A n \in N : w[n] \in Int
    BY <1>2
  <2>2. PICK n \in N : w[n] = Greatest(w, N)
    BY Zenon, <1>0, <2>1, ImageMax
  <2>3. PICK m \in N : raw[m] = high
    BY Zenon, <1>1
  <2>4. w[m] = cap
    BY <1>1, <2>3 DEF Capped, AtMost
  <2>5. w[m] <= Greatest(w, N)
    BY Zenon, <1>0, <2>1, ImageMax
  <2>6. w[n] \in Nat /\ w[n] <= cap
    BY Zenon, <1>2
  <2> QED
    BY <2>2, <2>4, <2>5, <2>6
<1>8. \A c \in (cap + 1) .. high : ~Fits(raw, N, c)
  <2> SUFFICES ASSUME NEW c \in (cap + 1) .. high, Fits(raw, N, c) PROVE FALSE
    OBVIOUS
  <2>1. c \in Nat /\ cap + 1 \in Nat /\ 1 <= cap + 1 /\ cap + 1 <= c /\ cap # high
    BY <1>1
  <2>2. Fits(raw, N, cap + 1)
    BY Zenon, <2>1, SmallerFits DEF raw
  <2> QED
    BY Zenon, <1>1, <2>1, <2>2
<1>9. \A c \in (Greatest(w, N) + 1) .. Greatest(raw, N) : ~Fits(raw, N, c)
  BY Zenon, <1>1, <1>7, <1>8
<1>10. SumFunctionOnSet(w, N) \in Nat /\ SumFunctionOnSet(w, N) >= 1
  BY <1>3
<1> QED
  BY Zenon, <1>0, <1>2, <1>6, <1>9, <1>10 DEF w, raw

-----------------------------------------------------------------------------
\* Settings of the right shape that obey the rules between parameters.
Fine(s) == DOMAIN s = Parameters \cup {"version"} /\ ValidSettings(s)

\* A queue holds finitely many batches, each for an epoch.
GoodQueue(q) == IsFiniteSet(DOMAIN q) /\ DOMAIN q \subseteq Nat

\* The last epoch a queue reaches from epoch c.
LastEpoch(q, c) == Max(DOMAIN q \cup {c})

\* A batch that is accepted leaves settings that obey the rules.
LEMMA ChangedFine == ASSUME NEW s, Fine(s), NEW changes, Changeable(s, changes) PROVE Fine(Changed(s, changes))
<1> DEFINE n == Assign(s, changes)
           t == Changed(s, changes)
<1>1. ValidSettings(n)
  BY DEF Changeable
<1>2. DOMAIN n = Parameters \cup {"version"}
  BY DEF Assign, Fine
<1>3. t = n \/ t = [n EXCEPT !.version = @ + 1]
  BY DEF Changed
<1>4. {"rotations", "max", "least", "most"} \subseteq DOMAIN n
  BY <1>2, ValuesAssumption DEF Parameters
<1> HIDE DEF n, t
<1>5. /\ t.rotations = n.rotations /\ t.max = n.max /\ t.least = n.least /\ t.most = n.most
      /\ DOMAIN t = DOMAIN n
  BY <1>3, <1>4
<1>6. Fine(t)
  BY Zenon, <1>1, <1>2, <1>5 DEF Fine, ValidSettings
<1> QED
  BY <1>6 DEF t

\* The last epoch a queue reaches is the current one or one with a batch.
LEMMA LastEpochFacts ==
  ASSUME Induction, NEW q, GoodQueue(q), NEW c \in Nat
  PROVE  /\ LastEpoch(q, c) \in Nat /\ c <= LastEpoch(q, c) /\ LastEpoch(q, c) \in DOMAIN q \cup {c}
         /\ \A e \in DOMAIN q : e <= LastEpoch(q, c)
<1> DEFINE S == DOMAIN q \cup {c}
<1>1. IsFiniteSet(S) /\ S # {} /\ S \subseteq Int /\ S \subseteq Nat
  <2>1. IsFiniteSet(DOMAIN q) /\ DOMAIN q \subseteq Nat
    BY Zenon DEF GoodQueue
  <2>2. IsFiniteSet(S)
    BY Zenon, <2>1, FiniteAdd
  <2> QED
    BY <2>1, <2>2
<1>2. \E x \in S : \A y \in S : x >= y
  BY Zenon, <1>1, FiniteMax
<1>3. LastEpoch(q, c) \in S /\ \A y \in S : LastEpoch(q, c) >= y
  BY Zenon, <1>2 DEF LastEpoch, Max
<1> QED
  BY <1>1, <1>3

\* The plan from epoch c to epoch m.
PlanBody(s, q, c, h, e) ==
  IF e = c THEN s ELSE IF e \in DOMAIN q THEN Changed(h[e - 1], q[e]) ELSE h[e - 1]

\* What the recursive function of Planned has to satisfy.
PlanStep(s, q, c, m, h) == [e \in c .. m |-> PlanBody(s, q, c, h, e)]

\* A function that satisfies it.
IsPlan(s, q, c, m, h) == h = PlanStep(s, q, c, m, h)

\* What a plan holds at every epoch.
Planning(s, q, c, m, h) == \A e \in c .. m : h[e] = PlanBody(s, q, c, h, e)

\* A plan, epoch by epoch.
LEMMA PlanningIs == ASSUME NEW s, NEW q, NEW c, NEW m, NEW h, IsPlan(s, q, c, m, h) PROVE Planning(s, q, c, m, h)
<1> DEFINE F(e) == PlanBody(s, q, c, h, e)
<1>1. h = [e \in c .. m |-> F(e)]
  BY Zenon DEF IsPlan, PlanStep
<1> HIDE DEF F
<1>2. \A e \in c .. m : h[e] = F(e)
  BY <1>1
<1> QED
  BY Zenon, <1>2 DEF F, Planning

\* There is a plan for any number of epochs (induction on that number).
LEMMA PlanExists ==
  ASSUME Induction, NEW s, NEW q, NEW c \in Nat, NEW d \in Nat
  PROVE  \E h : IsPlan(s, q, c, c + d, h)
<1> DEFINE G == {n \in Nat : \E h : IsPlan(s, q, c, c + n, h)}
<1>1. 0 \in G
  <2> DEFINE h == [e \in c .. (c + 0) |-> s]
  <2>1. h = PlanStep(s, q, c, c + 0, h)
    BY DEF PlanStep, PlanBody
  <2> HIDE DEF h
  <2>2. \E x : IsPlan(s, q, c, c + 0, x)
    BY Zenon, <2>1 DEF IsPlan
  <2>3. 0 \in Nat
    OBVIOUS
  <2> QED
    BY Zenon, <2>2, <2>3
<1>2. ASSUME NEW n \in Nat, n \in G PROVE n + 1 \in G
  <2>1. PICK h : IsPlan(s, q, c, c + n, h)
    BY Zenon, <1>2
  <2> DEFINE m == c + (n + 1)
             x == [e \in c .. m |-> IF e = m THEN PlanBody(s, q, c, h, m) ELSE h[e]]
  <2>2. \A e \in c .. (c + n) : x[e] = h[e]
    OBVIOUS
  <2>3. x[m] = PlanBody(s, q, c, h, m)
    OBVIOUS
  <2>4. \A e \in c .. (c + n) : h[e] = PlanBody(s, q, c, h, e)
    BY Zenon, <2>1, PlanningIs DEF Planning
  <2>5. x = [e \in c .. m |-> x[e]]
    OBVIOUS
  <2>6. n + 1 \in Nat /\ m - 1 = c + n /\ c + n \in c .. (c + n)
    OBVIOUS
  <2>7. \A e \in c .. m : e \in c .. (c + n) \/ e = m
    OBVIOUS
  <2>8. \A e \in c .. (c + n) : e # c => e - 1 \in c .. (c + n)
    OBVIOUS
  <2> HIDE DEF x, m
  <2>9. \A e \in c .. m : x[e] = PlanBody(s, q, c, x, e)
    <3>1. PlanBody(s, q, c, x, m) = PlanBody(s, q, c, h, m)
      BY Zenon, <2>2, <2>6 DEF PlanBody
    <3>2. \A e \in c .. (c + n) : PlanBody(s, q, c, x, e) = PlanBody(s, q, c, h, e)
      BY Zenon, <2>2, <2>8 DEF PlanBody
    <3> QED
      BY Zenon, <2>2, <2>3, <2>4, <2>7, <3>1, <3>2
  <2>10. x = PlanStep(s, q, c, m, x)
    BY Zenon, <2>5, <2>9 DEF PlanStep
  <2> QED
    BY Zenon, <2>6, <2>10 DEF IsPlan, m
<1> HIDE DEF G
<1>3. G \subseteq Nat
  BY DEF G
<1>4. d \in G
  BY Zenon, <1>1, <1>2, <1>3, NatSetInduction
<1> QED
  BY Zenon, <1>4 DEF G

\* Planned is a plan up to the last epoch of the queue.
LEMMA PlannedIs ==
  ASSUME Induction, NEW s, NEW q, GoodQueue(q), NEW c \in Nat
  PROVE  Planning(s, q, c, LastEpoch(q, c), Planned(s, q, c))
<1> DEFINE m == LastEpoch(q, c)
<1>1. m \in Nat /\ c <= m
  BY Zenon, LastEpochFacts
<1> HIDE DEF m
<1>2. m - c \in Nat /\ c + (m - c) = m
  BY <1>1
<1>3. PICK h : IsPlan(s, q, c, m, h)
  BY Zenon, <1>2, PlanExists
<1>4. \E p : p = [e \in c .. m |->
                IF e = c THEN s ELSE IF e \in DOMAIN q THEN Changed(p[e - 1], q[e]) ELSE p[e - 1]]
  BY Zenon, <1>3 DEF IsPlan, PlanStep, PlanBody
<1>5. IsPlan(s, q, c, m, Planned(s, q, c))
  BY Zenon, <1>4 DEF Planned, IsPlan, PlanStep, PlanBody, m, LastEpoch
<1> QED
  BY Zenon, <1>5, PlanningIs DEF m

\* Two queues that hold the same batches between c and m.
SameBatches(q, r, c, m) ==
  \A e \in (c + 1) .. m : /\ e \in DOMAIN q <=> e \in DOMAIN r
                          /\ e \in DOMAIN q => r[e] = q[e]

\* Two plans hold the same settings from epoch d to epoch k.
Agree(h, j, d, k) == \A e \in d .. k : j[e] = h[e]

\* A plan continues another one that starts earlier, if both queues hold the
\* same batches from there on (induction on the epochs).
LEMMA PlansAgree ==
  ASSUME Induction, NEW s, NEW q, NEW c \in Nat, NEW m \in Nat, NEW h, Planning(s, q, c, m, h),
         NEW z, NEW r, NEW d \in Nat, NEW k \in Nat, NEW j, Planning(z, r, d, k, j), z = h[d],
         c <= d, k <= m, SameBatches(q, r, d, k)
  PROVE  Agree(h, j, d, k)
<1> DEFINE G == {n \in Nat : d + n \in d .. k => j[d + n] = h[d + n]}
<1>1. 0 \in G
  <2>1. d + 0 = d /\ 0 \in Nat
    OBVIOUS
  <2>2. d \in d .. k => j[d] = h[d]
    BY Zenon DEF Planning, PlanBody
  <2> QED
    BY Zenon, <2>1, <2>2
<1>2. ASSUME NEW n \in Nat, n \in G PROVE n + 1 \in G
  <2> DEFINE e == d + (n + 1)
  <2>1. n + 1 \in Nat
    OBVIOUS
  <2>2. ASSUME e \in d .. k PROVE j[e] = h[e]
    <3>1. /\ e - 1 = d + n /\ d + n \in d .. k /\ e \in c .. m /\ e # d /\ e # c
          /\ e \in (d + 1) .. k
      BY <2>2
    <3>2. j[e - 1] = h[e - 1]
      BY Zenon, <1>2, <3>1
    <3> HIDE DEF e
    <3>3. j[e] = IF e \in DOMAIN r THEN Changed(j[e - 1], r[e]) ELSE j[e - 1]
      BY Zenon, <2>2, <3>1 DEF Planning, PlanBody
    <3>4. h[e] = IF e \in DOMAIN q THEN Changed(h[e - 1], q[e]) ELSE h[e - 1]
      BY Zenon, <3>1 DEF Planning, PlanBody
    <3>5. (e \in DOMAIN q <=> e \in DOMAIN r) /\ (e \in DOMAIN q => r[e] = q[e])
      BY Zenon, <3>1 DEF SameBatches
    <3>6. CASE e \in DOMAIN q
      BY Zenon, <3>2, <3>3, <3>4, <3>5, <3>6
    <3>7. CASE e \notin DOMAIN q
      BY Zenon, <3>2, <3>3, <3>4, <3>5, <3>7
    <3> QED
      BY <3>6, <3>7
  <2> QED
    BY Zenon, <2>1, <2>2
<1> HIDE DEF G
<1>3. G \subseteq Nat
  BY DEF G
<1>4. \A n \in Nat : n \in G
  BY Zenon, <1>1, <1>2, <1>3, NatSetInduction
<1> SUFFICES ASSUME NEW e \in d .. k PROVE j[e] = h[e]
  BY DEF Agree
<1>5. e - d \in Nat /\ d + (e - d) = e
  OBVIOUS
<1> QED
  BY Zenon, <1>4, <1>5 DEF G

\* A queue that applies plans only settings that obey the rules.
LEMMA PlanFine ==
  ASSUME Induction, NEW s, Fine(s), NEW q, NEW c \in Nat, NEW m \in Nat, NEW h, Planning(s, q, c, m, h),
         \A e \in DOMAIN q : Changeable(h[e - 1], q[e])
  PROVE  \A e \in c .. m : Fine(h[e])
<1> DEFINE G == {n \in Nat : c + n \in c .. m => Fine(h[c + n])}
<1>1. 0 \in G
  <2>1. c + 0 = c /\ 0 \in Nat
    OBVIOUS
  <2>2. c \in c .. m => h[c] = s
    BY Zenon DEF Planning, PlanBody
  <2> QED
    BY Zenon, <2>1, <2>2
<1>2. ASSUME NEW n \in Nat, n \in G PROVE n + 1 \in G
  <2> DEFINE e == c + (n + 1)
  <2>1. n + 1 \in Nat
    OBVIOUS
  <2>2. ASSUME e \in c .. m PROVE Fine(h[e])
    <3>1. e - 1 = c + n /\ c + n \in c .. m /\ e # c
      BY <2>2
    <3>2. Fine(h[e - 1])
      BY Zenon, <1>2, <3>1
    <3> HIDE DEF e
    <3>3. h[e] = IF e \in DOMAIN q THEN Changed(h[e - 1], q[e]) ELSE h[e - 1]
      BY Zenon, <2>2, <3>1 DEF Planning, PlanBody
    <3> QED
      BY Zenon, <3>2, <3>3, ChangedFine
  <2> QED
    BY Zenon, <2>1, <2>2
<1> HIDE DEF G
<1>3. G \subseteq Nat
  BY DEF G
<1>4. \A n \in Nat : n \in G
  BY Zenon, <1>1, <1>2, <1>3, NatSetInduction
<1> SUFFICES ASSUME NEW e \in c .. m PROVE Fine(h[e])
  OBVIOUS
<1>5. e - c \in Nat /\ c + (e - c) = e
  OBVIOUS
<1> QED
  BY Zenon, <1>4, <1>5 DEF G

\* Nothing is queued between two epochs.
Idle(q, a, b) == \A e \in (a + 1) .. b : e \notin DOMAIN q

\* A plan holds the same settings in two epochs.
Unchanged(h, a, b) == h[b] = h[a]

\* Between two batches the settings stay.
LEMMA PlanSteady ==
  ASSUME Induction, NEW s, NEW q, NEW c \in Nat, NEW m \in Nat, NEW h, Planning(s, q, c, m, h),
         NEW a \in Nat, NEW b \in Nat, c <= a, a <= b, b <= m, Idle(q, a, b)
  PROVE  Unchanged(h, a, b)
<1> DEFINE r == [e \in {} |-> 0]
           j == [e \in a .. b |-> h[a]]
<1>1. \A e \in a .. b : j[e] = h[a] /\ (e # a => j[e - 1] = h[a])
  OBVIOUS
<1>2. DOMAIN r = {}
  OBVIOUS
<1> HIDE DEF r, j
<1>3. Planning(h[a], r, a, b, j)
  BY Zenon, <1>1, <1>2 DEF Planning, PlanBody
<1>4. SameBatches(q, r, a, b)
  BY Zenon, <1>2 DEF SameBatches, Idle
<1>5. b \in a .. b
  OBVIOUS
<1>6. j[b] = h[b]
  <2>1. Agree(h, j, a, b)
    BY Zenon, <1>3, <1>4, PlansAgree
  <2> QED
    BY Zenon, <1>5, <2>1 DEF Agree
<1> QED
  BY Zenon, <1>1, <1>5, <1>6 DEF Unchanged

\* Entering an epoch applies the batches due by then and leaves the others applicable.
LEMMA EpochPlan ==
  ASSUME Induction, NEW s, Fine(s), NEW q, GoodQueue(q), NEW c \in Nat, QueueApplies(s, q, c), NEW e \in Nat, c < e
  PROVE  LET t == Planned(s, Due(q, e), c)[LastEpoch(Due(q, e), c)]
         IN  Fine(t) /\ GoodQueue(Later(q, e)) /\ QueueApplies(t, Later(q, e), e)
<1> DEFINE due == Due(q, e)
           later == Later(q, e)
           l == LastEpoch(due, c)
           m == LastEpoch(q, c)
           h == Planned(s, q, c)
           j == Planned(s, due, c)
           t == j[l]
<1>1. DOMAIN due = {f \in DOMAIN q : f <= e} /\ DOMAIN later = {f \in DOMAIN q : f > e}
  BY DEF Due, Later
<1>2. (\A f \in DOMAIN due : due[f] = q[f]) /\ (\A f \in DOMAIN later : later[f] = q[f])
  BY DEF Due, Later
<1>3. GoodQueue(due) /\ GoodQueue(later)
  <2>1. DOMAIN due \subseteq DOMAIN q /\ DOMAIN later \subseteq DOMAIN q
    BY <1>1
  <2> QED
    BY <2>1, FiniteSubset DEF GoodQueue
<1>4. /\ l \in Nat /\ c <= l /\ l \in DOMAIN due \cup {c} /\ \A f \in DOMAIN due : f <= l
      /\ m \in Nat /\ c <= m /\ \A f \in DOMAIN q : f <= m
  BY Zenon, <1>3, LastEpochFacts
<1>5. Planning(s, q, c, m, h) /\ Planning(s, due, c, l, j)
  BY Zenon, <1>3, PlannedIs
<1>6. \A f \in DOMAIN q : f \in Nat /\ f > c /\ Changeable(h[f - 1], q[f])
  BY Zenon DEF QueueApplies, GoodQueue
<1> HIDE DEF due, later, h, j, l, m
<1>7. l <= e /\ l <= m
  BY <1>1, <1>4
<1>8. h[c] = s
  <2>1. c \in c .. m
    BY <1>4
  <2> QED
    BY Zenon, <1>5, <2>1 DEF Planning, PlanBody
<1>9. SameBatches(q, due, c, l)
  <2>1. \A f \in (c + 1) .. l : f <= e
    BY <1>4, <1>7
  <2> QED
    BY Zenon, <1>1, <1>2, <2>1 DEF SameBatches
<1>10. t = h[l]
  <2>1. c <= c /\ l \in c .. l
    BY <1>4
  <2>2. Agree(h, j, c, l)
    BY Zenon, <1>4, <1>5, <1>7, <1>8, <1>9, <2>1, PlansAgree
  <2> QED
    BY Zenon, <2>1, <2>2 DEF Agree
<1>11. Fine(t)
  <2>1. l \in c .. m
    BY <1>4, <1>7
  <2> QED
    BY Zenon, <1>4, <1>5, <1>6, <1>10, <2>1, PlanFine
<1>12. ASSUME NEW f \in DOMAIN later PROVE f > e /\ Changeable(Planned(t, later, e)[f - 1], later[f])
  <2> DEFINE k == LastEpoch(later, e)
             w == Planned(t, later, e)
  <2>1. f \in DOMAIN q /\ f > e /\ later[f] = q[f] /\ f \in Nat
    BY <1>1, <1>2, <1>6
  <2>2. /\ k \in Nat /\ e <= k /\ k \in DOMAIN later \cup {e} /\ f <= k
    BY Zenon, <1>3, <1>12, LastEpochFacts
  <2>3. Planning(t, later, e, k, w)
    BY Zenon, <1>3, PlannedIs
  <2> HIDE DEF k, w
  <2>4. k <= m
    <3>1. k \in DOMAIN q
      BY <1>1, <2>1, <2>2
    <3> QED
      BY Zenon, <1>4, <3>1
  <2>5. e <= m
    BY <1>4, <2>2, <2>4
  <2>6. h[e] = h[l]
    <3>1. Idle(q, l, e)
      <4>1. \A x \in (l + 1) .. e : x <= e /\ ~ (x <= l)
        BY <1>4
      <4> QED
        BY Zenon, <1>1, <1>4, <4>1 DEF Idle
    <3>2. Planning(s, q, c, m, h) /\ m \in Nat /\ l \in Nat /\ c <= l /\ l <= e /\ e <= m
      BY Zenon, <1>4, <1>5, <1>7, <2>5
    <3>3. Unchanged(h, l, e)
      BY Zenon, <3>1, <3>2, PlanSteady
    <3> QED
      BY Zenon, <3>3 DEF Unchanged
  <2>7. Planning(h[e], later, e, k, w)
    BY Zenon, <1>10, <2>3, <2>6
  <2>8. SameBatches(q, later, e, k)
    <3>1. \A x \in (e + 1) .. k : x > e
      OBVIOUS
    <3> QED
      BY Zenon, <1>1, <1>2, <3>1 DEF SameBatches
  <2>9. f - 1 \in e .. k /\ c <= e
    BY <2>1, <2>2
  <2>10. w[f - 1] = h[f - 1]
    <3>1. Agree(h, w, e, k)
      BY Zenon, <1>4, <1>5, <2>2, <2>4, <2>7, <2>8, <2>9, PlansAgree
    <3> QED
      BY Zenon, <2>9, <3>1 DEF Agree
  <2> QED
    BY Zenon, <1>6, <2>1, <2>10 DEF w
<1>13. Fine(t) /\ GoodQueue(later) /\ QueueApplies(t, later, e)
  BY Zenon, <1>3, <1>11, <1>12 DEF QueueApplies
<1> QED
  BY Zenon, <1>13 DEF due, later, j, l

\* Until then every batch that is due is accepted.
LEMMA DueApplies ==
  ASSUME Induction, NEW s, NEW q, GoodQueue(q), NEW c \in Nat, QueueApplies(s, q, c), NEW e \in Nat
  PROVE  QueueApplies(s, Due(q, e), c)
<1> DEFINE due == Due(q, e)
           l == LastEpoch(due, c)
           m == LastEpoch(q, c)
           h == Planned(s, q, c)
           j == Planned(s, due, c)
<1>1. DOMAIN due = {f \in DOMAIN q : f <= e} /\ \A f \in DOMAIN due : due[f] = q[f]
  BY DEF Due
<1>2. GoodQueue(due)
  <2>1. DOMAIN due \subseteq DOMAIN q
    BY <1>1
  <2> QED
    BY <2>1, FiniteSubset DEF GoodQueue
<1>3. /\ l \in Nat /\ c <= l /\ l \in DOMAIN due \cup {c} /\ \A f \in DOMAIN due : f <= l
      /\ m \in Nat /\ c <= m /\ \A f \in DOMAIN q : f <= m
  BY Zenon, <1>2, LastEpochFacts
<1>4. Planning(s, q, c, m, h) /\ Planning(s, due, c, l, j)
  BY Zenon, <1>2, PlannedIs
<1>5. \A f \in DOMAIN q : f \in Nat /\ f > c /\ Changeable(h[f - 1], q[f])
  BY Zenon DEF QueueApplies, GoodQueue
<1> HIDE DEF due, h, j, l, m
<1>6. l <= m /\ c <= c
  BY <1>1, <1>3
<1>7. h[c] = s
  <2>1. c \in c .. m
    BY <1>3
  <2> QED
    BY Zenon, <1>4, <2>1 DEF Planning, PlanBody
<1>8. SameBatches(q, due, c, l)
  <2>1. l <= e \/ l = c
    BY <1>1, <1>3
  <2>2. \A f \in (c + 1) .. l : f <= e
    BY <1>3, <2>1
  <2> QED
    BY Zenon, <1>1, <2>2 DEF SameBatches
<1>9. Agree(h, j, c, l)
  BY Zenon, <1>3, <1>4, <1>6, <1>7, <1>8, PlansAgree
<1>10. ASSUME NEW f \in DOMAIN due PROVE f > c /\ Changeable(j[f - 1], due[f])
  <2>1. f \in DOMAIN q /\ due[f] = q[f] /\ f \in Nat /\ f > c /\ f <= l
    BY <1>1, <1>3, <1>5
  <2>2. f - 1 \in c .. l
    BY <1>3, <2>1
  <2>3. j[f - 1] = h[f - 1]
    BY Zenon, <1>9, <2>2 DEF Agree
  <2> QED
    BY Zenon, <1>5, <2>1, <2>3
<1> QED
  BY Zenon, <1>10 DEF QueueApplies, due, j

-----------------------------------------------------------------------------
\* The fields of a ledger and of a proposal, and the states of a proposal.
Fields == {"props", "funds", "treasury", "burned", "spends", "paused", "settings", "queue", "epoch"}

PropFields == {"kind", "action", "proposer", "ends", "after", "status", "power", "votes",
               "validators", "vvotes", "vetoes", "bond", "executed"}

Statuses == {"voting", "passed", "rejected", "cancelled", "executed"}

\* The power of the voters of a proposal is a snapshot of some nodes.
SnapshotPower(w) == \E N \in SUBSET Nodes : N # {} /\ w = PowerSnapshot(N)

\* What holds of a proposal by itself: a bond is held exactly while voting, what
\* passed has its majority, and vetoes come from voters and only after voting.
GoodProp(p) ==
  /\ DOMAIN p = PropFields
  /\ p.bond \in Nat /\ p.proposer \in Nodes /\ p.action \in Actions /\ p.status \in Statuses
  /\ SnapshotPower(p.power) /\ p.vetoes \subseteq DOMAIN p.power
  /\ p.status = "voting" => p.vetoes = {}
  /\ p.status # "voting" => p.bond = 0
  /\ p.status \in {"passed", "executed"} => TallyPassed(p)
  /\ p.status = "executed" => p.executed >= p.after

\* How a proposal may change: what was decided is never decided again.
Follows(p, q) ==
  /\ q.power = p.power /\ q.ends = p.ends /\ q.after = p.after
  /\ p.status # "voting" => q.status # "voting" /\ q.votes = p.votes /\ q.vvotes = p.vvotes
  /\ ~Open(p) => q = p

\* A tenth of the power has not vetoed what passed.  It holds in the finalized
\* ledger only: the command of a daemon cancels at a third (CommandVeto).
Unvetoed(p) == p.status \in {"passed", "executed"} => 10 * VetoPower(p) < Total(p)

Trusted(g) == \A i \in DOMAIN g.props : Unvetoed(g.props[i])

\* Nothing is spent, and nothing that changes is in the way of a tenth of vetoes.
Quiet(g, h) ==
  /\ h.treasury = g.treasury /\ h.spends = g.spends
  /\ \A i \in DOMAIN h.props :
       Unvetoed(h.props[i]) \/ (i \in DOMAIN g.props /\ h.props[i] = g.props[i])

\* One proposal, or one account, is replaced.
PropSet(g, h, i, q) == h.props = [g.props EXCEPT ![i] = q]

FundSet(g, h, a, x) == h.funds = [g.funds EXCEPT ![a] = x]

\* Every proposal is still there and only changed as it may.
Stands(g, h) ==
  \A i \in DOMAIN g.props : i \in DOMAIN h.props /\ Follows(g.props[i], h.props[i])

\* The settings obey the rules and every queued batch will apply.
Plan(g) ==
  /\ Fine(g.settings) /\ g.epoch \in Nat /\ GoodQueue(g.queue)
  /\ QueueApplies(g.settings, g.queue, g.epoch)

SamePlan(g, h) == h.settings = g.settings /\ h.queue = g.queue /\ h.epoch = g.epoch

\* A sequence of n elements, and one that has one more.
List(s, n) == DOMAIN s = 1 .. n /\ s = [i \in 1 .. n |-> s[i]]

Longer(s, n, e, t) == List(t, n + 1) /\ t[n + 1] = e /\ \A i \in 1 .. n : t[i] = s[i]

Listed(s) == \E n \in Nat : List(s, n)

\* What holds of a ledger by itself.
Ledger(g) ==
  /\ DOMAIN g = Fields
  /\ Listed(g.props)
  /\ \A i \in DOMAIN g.props : GoodProp(g.props[i])
  /\ g.funds \in [Accounts -> Nat] /\ g.treasury \in Nat /\ g.burned \in Nat

\* The money in accounts, in bonds, and altogether.
Held(g) == SumFunctionOnSet(g.funds, Accounts)

Bonded(g) == SumFunctionOnSet(Bonds(g), DOMAIN g.props)

Worth(g) == Held(g) + g.treasury + g.burned + Bonded(g)

\* What every operation keeps.
Keeps(g, h) == Ledger(h) /\ Worth(h) = Worth(g) /\ Stands(g, h) /\ (Plan(g) => Plan(h))

-----------------------------------------------------------------------------
\* Appending to a list.
LEMMA AppendFacts ==
  ASSUME NEW s, NEW n \in Nat, List(s, n), NEW e
  PROVE  Longer(s, n, e, Append(s, e))
<1> DEFINE T == {s[i] : i \in 1 .. n} \cup {e}
           t == Append(s, e)
<1>1. s \in [1 .. n -> T]
  BY DEF List
<1>2. s \in Seq(T) /\ e \in T /\ Len(s) = n
  BY <1>1
<1> HIDE DEF T
<1>3. t \in Seq(T) /\ Len(t) = n + 1 /\ t[n + 1] = e /\ \A i \in 1 .. n : t[i] = s[i]
  BY <1>2
<1> QED
  BY <1>3 DEF List, Longer

\* The accounts and what they hold.
LEMMA AccountsFinite == IsFiniteSet(Accounts) /\ Nodes \subseteq Accounts /\ Recipient \in Accounts
<1>1. IsFiniteSet(Nodes)
  BY GovernanceAssumption
<1> QED
  BY <1>1, FiniteAdd DEF Accounts

\* The types of a ledger, one by one.
LEMMA LedgerFacts ==
  ASSUME NEW g, Ledger(g)
  PROVE  /\ DOMAIN g = Fields /\ Listed(g.props) /\ g.funds \in [Accounts -> Nat]
         /\ g.treasury \in Nat /\ g.burned \in Nat
         /\ \A a \in Accounts : g.funds[a] \in Nat
         /\ \A i \in DOMAIN g.props : GoodProp(g.props[i]) /\ g.props[i].bond \in Nat
  BY DEF Ledger, GoodProp

\* The sums of a ledger are natural numbers.
LEMMA LedgerSums ==
  ASSUME Induction, NEW g, Ledger(g)
  PROVE  /\ IsFiniteSet(DOMAIN g.props) /\ Held(g) \in Nat /\ Bonded(g) \in Nat /\ Worth(g) \in Nat
         /\ \A i \in DOMAIN g.props : Bonds(g)[i] \in Nat /\ Bonds(g)[i] = g.props[i].bond
<1>1. IsFiniteSet(DOMAIN g.props)
  <2>1. PICK n \in Nat : DOMAIN g.props = 1 .. n
    BY DEF Ledger, Listed, List
  <2>2. IsFiniteSet(1 .. n)
    BY FiniteInterval
  <2> QED
    BY Zenon, <2>1, <2>2
<1>2. \A a \in Accounts : g.funds[a] \in Nat
  BY DEF Ledger
<1>3. \A i \in DOMAIN g.props : Bonds(g)[i] \in Nat /\ Bonds(g)[i] = g.props[i].bond
  BY DEF Ledger, GoodProp, Bonds
<1>4. Held(g) \in Nat
  BY Zenon, <1>2, AccountsFinite, SumNat DEF Held
<1>5. Bonded(g) \in Nat
  BY Zenon, <1>1, <1>3, SumNat DEF Bonded
<1>6. Worth(g) \in Nat
  BY <1>4, <1>5 DEF Worth, Ledger
<1> QED
  BY <1>1, <1>3, <1>4, <1>5, <1>6

\* One account changes.
LEMMA FundsMove ==
  ASSUME Induction, NEW g, Ledger(g), NEW a \in Accounts, NEW x \in Nat,
         NEW h, FundSet(g, h, a, x)
  PROVE  Held(h) = Held(g) - g.funds[a] + x
<1> DEFINE f == h.funds
<1>1. g.funds \in [Accounts -> Nat]
  BY DEF Ledger
<1>2. f \in [Accounts -> Nat] /\ f[a] = x /\ \A b \in Accounts : b # a => f[b] = g.funds[b]
  BY <1>1 DEF FundSet
<1>3. \A b \in Accounts : g.funds[b] \in Int /\ f[b] \in Int
  BY <1>1, <1>2
<1>4. SumFunctionOnSet(f, Accounts) = SumFunctionOnSet(g.funds, Accounts) - g.funds[a] + f[a]
  BY <1>2, <1>3, AccountsFinite, SumUpdate
<1> QED
  BY Zenon, <1>2, <1>4 DEF Held

\* What becomes of the list of proposals when the i-th becomes q.
Moved(g, h, i, q) ==
  /\ Listed(h.props) /\ DOMAIN h.props = DOMAIN g.props
  /\ \A j \in DOMAIN h.props : GoodProp(h.props[j])
  /\ Bonded(h) = Bonded(g) - g.props[i].bond + q.bond

\* One proposal changes.
LEMMA PropsMove ==
  ASSUME Induction, NEW g, Ledger(g), NEW i \in DOMAIN g.props, NEW q, GoodProp(q),
         NEW h, PropSet(g, h, i, q)
  PROVE  Moved(g, h, i, q)
<1> DEFINE D == DOMAIN g.props
<1>1. DOMAIN h.props = D /\ h.props[i] = q /\ \A j \in D : j # i => h.props[j] = g.props[j]
  BY DEF PropSet
<1>2. Listed(h.props)
  BY Zenon DEF Ledger, Listed, List, PropSet
<1>3. \A j \in D : GoodProp(h.props[j])
  BY <1>1 DEF Ledger
<1> DEFINE b == Bonds(g)
           c == Bonds(h)
<1>4. \A j \in D : b[j] \in Int /\ c[j] \in Int
  <2>1. \A j \in D : g.props[j].bond \in Nat /\ h.props[j].bond \in Nat
    BY Zenon, <1>3 DEF Ledger, GoodProp
  <2>2. \A j \in D : b[j] = g.props[j].bond /\ c[j] = h.props[j].bond
    BY Zenon, <1>1 DEF Bonds
  <2> HIDE DEF b, c
  <2> QED
    BY <2>1, <2>2
<1>5. c[i] = q.bond /\ b[i] = g.props[i].bond /\ \A j \in D : j # i => c[j] = b[j]
  BY <1>1 DEF Bonds
<1>6. IsFiniteSet(D)
  BY Zenon, LedgerSums
<1> HIDE DEF b, c
<1>7. SumFunctionOnSet(c, D) = SumFunctionOnSet(b, D) - b[i] + c[i]
  BY <1>4, <1>5, <1>6, SumUpdate
<1>8. Bonded(h) = Bonded(g) - g.props[i].bond + q.bond
  BY Zenon, <1>1, <1>5, <1>7 DEF b, c, Bonded
<1> QED
  BY Zenon, <1>1, <1>2, <1>3, <1>8 DEF Moved

\* The history of the proposals, when one of them moves on.
LEMMA StandsMove ==
  ASSUME NEW g, NEW i \in DOMAIN g.props, NEW q, Follows(g.props[i], q),
         NEW h, PropSet(g, h, i, q)
  PROVE  Stands(g, h)
<1>1. ASSUME NEW j \in DOMAIN g.props
      PROVE  j \in DOMAIN h.props /\ Follows(g.props[j], h.props[j])
  <2>1. CASE j = i
    BY <2>1 DEF PropSet
  <2>2. CASE j # i
    <3>1. j \in DOMAIN h.props /\ h.props[j] = g.props[j]
      BY <2>2 DEF PropSet
    <3> QED
      BY <3>1 DEF Follows
  <2> QED
    BY <2>1, <2>2
<1> QED
  BY <1>1 DEF Stands

\* Proposals that do not change stand.
LEMMA StandsSame == ASSUME NEW g, NEW h, h.props = g.props PROVE Stands(g, h)
  BY DEF Stands, Follows

\* Two changes in a row.
LEMMA StandsTransitive ==
  ASSUME NEW f, NEW g, NEW h, Stands(f, g), Stands(g, h)
  PROVE  Stands(f, h)
<1>1. ASSUME NEW i \in DOMAIN f.props
      PROVE  i \in DOMAIN h.props /\ Follows(f.props[i], h.props[i])
  <2>1. i \in DOMAIN g.props /\ i \in DOMAIN h.props
    BY DEF Stands
  <2>2. Follows(f.props[i], g.props[i]) /\ Follows(g.props[i], h.props[i])
    BY <2>1 DEF Stands
  <2> QED
    BY <2>1, <2>2 DEF Follows
<1> QED
  BY <1>1 DEF Stands

\* One proposal is replaced by one that was not vetoed.
LEMMA QuietMove ==
  ASSUME NEW g, NEW i \in DOMAIN g.props, NEW q, Unvetoed(q), NEW h, PropSet(g, h, i, q),
         h.treasury = g.treasury, h.spends = g.spends
  PROVE  Quiet(g, h)
<1>1. DOMAIN h.props = DOMAIN g.props
  BY DEF PropSet
<1>2. ASSUME NEW j \in DOMAIN g.props PROVE h.props[j] = q \/ h.props[j] = g.props[j]
  BY DEF PropSet
<1> QED
  BY Zenon, <1>1, <1>2 DEF Quiet

\* Neither proposals nor the treasury change.
LEMMA QuietSame ==
  ASSUME NEW g, NEW h, h.props = g.props, h.treasury = g.treasury, h.spends = g.spends
  PROVE  Quiet(g, h)
  BY Zenon DEF Quiet

\* Two quiet changes in a row.
LEMMA QuietTransitive ==
  ASSUME NEW f, NEW g, NEW h, Quiet(f, g), Quiet(g, h)
  PROVE  Quiet(f, h)
<1>1. ASSUME NEW i \in DOMAIN h.props
      PROVE  Unvetoed(h.props[i]) \/ (i \in DOMAIN f.props /\ h.props[i] = f.props[i])
  BY Zenon, <1>1 DEF Quiet
<1> QED
  BY Zenon, <1>1 DEF Quiet

\* Settings, queue and epoch are all that Plan is about.
LEMMA PlanKept == ASSUME NEW g, NEW h, SamePlan(g, h), Plan(g) PROVE Plan(h)
  BY Zenon DEF SamePlan, Plan

\* Two operations in a row.
LEMMA KeepsTransitive ==
  ASSUME NEW f, NEW g, NEW h, Keeps(f, g), Keeps(g, h)
  PROVE  Keeps(f, h)
<1>1. Stands(f, h)
  BY StandsTransitive DEF Keeps
<1> QED
  BY <1>1 DEF Keeps

\* The parts of a ledger that hold no money may change at will.
LEMMA SameMoney ==
  ASSUME NEW g, Ledger(g), NEW h, DOMAIN h = Fields, h.props = g.props, h.funds = g.funds,
         h.treasury = g.treasury, h.burned = g.burned, Plan(g) => Plan(h)
  PROVE  Keeps(g, h)
<1>1. Ledger(h)
  BY DEF Ledger
<1>2. Worth(h) = Worth(g)
  BY Zenon DEF Worth, Held, Bonded, Bonds
<1>3. Stands(g, h)
  BY Zenon, StandsSame
<1> QED
  BY <1>1, <1>2, <1>3 DEF Keeps

\* A proposal changes and its bond stays: votes, vetoes and statuses.
LEMMA SameBond ==
  ASSUME Induction, NEW g, Ledger(g), NEW h, DOMAIN h = Fields, NEW i \in DOMAIN g.props, NEW q, GoodProp(q),
         q.bond = g.props[i].bond, Follows(g.props[i], q),
         PropSet(g, h, i, q), h.funds = g.funds,
         h.treasury = g.treasury, h.burned = g.burned, SamePlan(g, h)
  PROVE  Keeps(g, h)
<1>1. /\ Listed(h.props) /\ DOMAIN h.props = DOMAIN g.props
      /\ \A j \in DOMAIN h.props : GoodProp(h.props[j])
      /\ Bonded(h) = Bonded(g) - g.props[i].bond + q.bond
  <2>1. Moved(g, h, i, q)
    BY Zenon, PropsMove
  <2> QED
    BY Zenon, <2>1 DEF Moved
<1>2. Ledger(h)
  BY <1>1 DEF Ledger
<1>3. g.props[i].bond \in Nat /\ Bonded(g) \in Nat
  BY Zenon, LedgerSums, LedgerFacts
<1>4. Bonded(h) = Bonded(g)
  BY <1>1, <1>3
<1>5. Worth(h) = Worth(g)
  BY Zenon, <1>4 DEF Worth, Held
<1>6. Stands(g, h)
  BY Zenon, StandsMove
<1> QED
  BY <1>2, <1>5, <1>6, PlanKept DEF Keeps

\* A bond is returned, less what goes to the treasury or is burned.
LEMMA BondReturned ==
  ASSUME Induction, NEW g, Ledger(g), NEW h, DOMAIN h = Fields, NEW i \in DOMAIN g.props, NEW q, GoodProp(q),
         PropSet(g, h, i, q), q.bond = 0, Follows(g.props[i], q),
         NEW t \in Nat, NEW b \in Nat, NEW a \in Accounts, NEW x \in Nat,
         FundSet(g, h, a, x), x + t + b = g.funds[a] + g.props[i].bond,
         h.treasury = g.treasury + t, h.burned = g.burned + b, SamePlan(g, h)
  PROVE  Keeps(g, h)
<1>1. /\ g.props[i].bond \in Nat /\ g.funds[a] \in Nat /\ g.treasury \in Nat /\ g.burned \in Nat
      /\ Bonded(g) \in Nat /\ Held(g) \in Nat
  BY Zenon, LedgerSums, LedgerFacts
<1>2. /\ Listed(h.props) /\ DOMAIN h.props = DOMAIN g.props
      /\ \A j \in DOMAIN h.props : GoodProp(h.props[j])
      /\ Bonded(h) = Bonded(g) - g.props[i].bond + q.bond
  <2>1. Moved(g, h, i, q)
    BY Zenon, PropsMove
  <2> QED
    BY Zenon, <2>1 DEF Moved
<1>3. Held(h) = Held(g) - g.funds[a] + x
  BY Zenon, FundsMove
<1>4. h.funds \in [Accounts -> Nat]
  BY LedgerFacts DEF FundSet
<1>5. Ledger(h)
  BY <1>1, <1>2, <1>4 DEF Ledger
<1>6. Worth(h) = Worth(g)
  BY ONLY <1>1, <1>2, <1>3, q.bond = 0, x \in Nat, t \in Nat, b \in Nat,
     x + t + b = g.funds[a] + g.props[i].bond, h.treasury = g.treasury + t, h.burned = g.burned + b
     DEF Worth
<1>7. Stands(g, h)
  BY Zenon, StandsMove
<1> QED
  BY <1>5, <1>6, <1>7, PlanKept DEF Keeps

-----------------------------------------------------------------------------
\* The tally looks at the kind, the action, the power and the votes only.
LEMMA TallySame ==
  ASSUME NEW p, NEW q, q.kind = p.kind, q.action = p.action, q.power = p.power, q.votes = p.votes,
         q.validators = p.validators, q.vvotes = p.vvotes
  PROVE  TallyPassed(p) <=> TallyPassed(q)
<1>1. Total(q) = Total(p) /\ Participation(q) = Participation(p)
  BY Zenon DEF Total, Participation
<1>2. Cast(q, "yes") = Cast(p, "yes") /\ Cast(q, "no") = Cast(p, "no")
  BY Zenon DEF Cast
<1>3. ValidatorYes(q) = ValidatorYes(p)
  BY Zenon DEF ValidatorYes
<1>4. QuorumReached(p) <=> QuorumReached(q)
  BY Zenon, <1>1 DEF QuorumReached
<1> QED
  BY Zenon, <1>1, <1>2, <1>3, <1>4 DEF TallyPassed

\* The power of the vetoes depends on the vetoes and the snapshot only.
LEMMA VetoSame ==
  ASSUME NEW p, NEW q, q.power = p.power, q.vetoes = p.vetoes
  PROVE  VetoPower(q) = VetoPower(p) /\ Total(q) = Total(p)
  BY Zenon DEF VetoPower, Total

\* The power of a proposal's snapshot and of those who vetoed it.
LEMMA PowerFacts ==
  ASSUME Induction, NEW p, GoodProp(p)
  PROVE  /\ Total(p) \in Nat /\ Total(p) >= 1 /\ VetoPower(p) \in Nat
         /\ p.vetoes = {} => VetoPower(p) = 0
<1>1. PICK N \in SUBSET Nodes : N # {} /\ p.power = PowerSnapshot(N)
  BY Zenon DEF GoodProp, SnapshotPower
<1>2. /\ IsFiniteSet(N) /\ DOMAIN p.power = N /\ \A n \in N : p.power[n] \in Nat
      /\ SumFunctionOnSet(p.power, N) \in Nat /\ SumFunctionOnSet(p.power, N) >= 1
  BY Zenon, <1>1, SnapshotFacts
<1>3. p.vetoes \in SUBSET N
  BY <1>2 DEF GoodProp
<1>4. VetoPower(p) \in Nat
  BY Zenon, <1>2, <1>3, SumNat DEF VetoPower
<1>5. p.vetoes = {} => VetoPower(p) = 0
  BY Zenon, SumEmpty DEF VetoPower
<1> QED
  BY Zenon, <1>2, <1>4, <1>5 DEF Total

\* A vote is counted while the voting lasts.
LEMMA VotedKeeps ==
  ASSUME Induction, NEW g, Ledger(g), NEW op, op.prop \in DOMAIN g.props, g.props[op.prop].status = "voting"
  PROVE  /\ Keeps(g, Voted(g, op)) /\ Quiet(g, Voted(g, op))
         /\ Keeps(g, ValidatorVoted(g, op)) /\ Quiet(g, ValidatorVoted(g, op))
<1> DEFINE p == g.props[op.prop]
           Fit(q) == GoodProp(q) /\ Follows(p, q) /\ q.bond = p.bond /\ Unvetoed(q)
<1>1. GoodProp(p) /\ DOMAIN g = Fields /\ p.status = "voting"
  BY DEF Ledger
<1>2. ASSUME NEW v PROVE LET q == [p EXCEPT !.votes = v] IN Fit(q)
  BY <1>1 DEF GoodProp, Follows, Open, PropFields, Unvetoed
<1>3. ASSUME NEW v PROVE LET q == [p EXCEPT !.vvotes = v] IN Fit(q)
  BY <1>1 DEF GoodProp, Follows, Open, PropFields, Unvetoed
<1>4. ASSUME NEW q, Fit(q)
      PROVE  LET h == [g EXCEPT !.props = [@ EXCEPT ![op.prop] = q]] IN Keeps(g, h) /\ Quiet(g, h)
  <2> DEFINE h == [g EXCEPT !.props = [@ EXCEPT ![op.prop] = q]]
  <2>1. /\ DOMAIN h = Fields /\ PropSet(g, h, op.prop, q) /\ h.funds = g.funds
        /\ h.treasury = g.treasury /\ h.burned = g.burned /\ SamePlan(g, h) /\ h.spends = g.spends
    BY <1>1 DEF Fields, SamePlan, PropSet
  <2> HIDE DEF h
  <2>2. Keeps(g, h)
    BY Zenon, <1>4, <2>1, SameBond
  <2>3. Quiet(g, h)
    BY Zenon, <1>4, <2>1, QuietMove
  <2> QED
    BY <2>2, <2>3 DEF h
<1> HIDE DEF Fit
<1>5. Keeps(g, Voted(g, op)) /\ Quiet(g, Voted(g, op))
  BY Zenon, <1>2, <1>4 DEF Voted
<1>6. Keeps(g, ValidatorVoted(g, op)) /\ Quiet(g, ValidatorVoted(g, op))
  BY Zenon, <1>3, <1>4 DEF ValidatorVoted
<1> QED
  BY <1>5, <1>6

\* A veto is noted while the timelock of a passed proposal runs, and may end it.
LEMMA VetoFacts ==
  ASSUME NEW g, Ledger(g), NEW op, op.prop \in DOMAIN g.props, g.props[op.prop].status = "passed",
         op.node \in DOMAIN g.props[op.prop].power
  PROVE  LET p == g.props[op.prop]
             v == Vetoed(g, op)
             w == [p EXCEPT !.vetoes = @ \cup {op.node}]
         IN  /\ DOMAIN v = Fields /\ v.props = [g.props EXCEPT ![op.prop] = w]
             /\ v.props[op.prop] = w /\ w.proposer \in Nodes /\ w.bond = 0 /\ p.bond = 0
             /\ v.funds = g.funds /\ v.treasury = g.treasury /\ v.burned = g.burned
             /\ v.spends = g.spends /\ SamePlan(g, v) /\ GoodProp(w) /\ Follows(p, w)
<1> DEFINE p == g.props[op.prop]
           w == [p EXCEPT !.vetoes = @ \cup {op.node}]
<1>1. GoodProp(p) /\ DOMAIN g = Fields /\ p.status = "passed" /\ DOMAIN p = PropFields
  BY DEF Ledger, GoodProp
<1>2. /\ DOMAIN w = PropFields /\ w.kind = p.kind /\ w.action = p.action /\ w.power = p.power
      /\ w.votes = p.votes /\ w.validators = p.validators /\ w.vvotes = p.vvotes
      /\ w.status = p.status /\ w.bond = p.bond /\ w.proposer = p.proposer
      /\ w.ends = p.ends /\ w.after = p.after /\ w.executed = p.executed
      /\ w.vetoes = p.vetoes \cup {op.node}
  BY <1>1 DEF PropFields
<1>3. TallyPassed(w)
  <2>1. TallyPassed(p)
    BY Zenon, <1>1 DEF GoodProp
  <2> HIDE DEF w
  <2> QED
    BY Zenon, <1>2, <2>1, TallySame
<1>4. /\ Vetoed(g, op).props = [g.props EXCEPT ![op.prop] = w]
      /\ Vetoed(g, op).props[op.prop] = w
      /\ DOMAIN Vetoed(g, op) = Fields
  BY <1>1 DEF Vetoed, Fields
<1>5. /\ Vetoed(g, op).funds = g.funds /\ Vetoed(g, op).treasury = g.treasury
      /\ Vetoed(g, op).burned = g.burned /\ Vetoed(g, op).spends = g.spends
      /\ SamePlan(g, Vetoed(g, op))
  BY <1>1 DEF Vetoed, Fields, SamePlan
<1> HIDE DEF w
<1>6. GoodProp(w) /\ Follows(p, w) /\ w.proposer \in Nodes /\ w.bond = 0 /\ p.bond = 0
  BY Zenon, <1>1, <1>2, <1>3 DEF GoodProp, Follows, Open, Statuses
<1> QED
  BY Zenon, <1>4, <1>5, <1>6 DEF w

\* A veto, as a command and as replicated: it takes effect at different thresholds.
LEMMA VetoedKeeps ==
  ASSUME Induction, NEW g, Ledger(g), NEW op, op.prop \in DOMAIN g.props, g.props[op.prop].status = "passed",
         op.node \in DOMAIN g.props[op.prop].power
  PROVE  /\ Keeps(g, CommandVeto(g, op))
         /\ Keeps(g, ReplicatedVeto(g, op)) /\ Quiet(g, ReplicatedVeto(g, op))
<1> DEFINE p == g.props[op.prop]
           v == Vetoed(g, op)
           w == [p EXCEPT !.vetoes = @ \cup {op.node}]
           c == [w EXCEPT !.status = "cancelled"]
           r == [w EXCEPT !.status = "rejected", !.bond = 0]
<1>1. /\ DOMAIN v = Fields /\ v.props = [g.props EXCEPT ![op.prop] = w]
      /\ v.props[op.prop] = w /\ w.proposer \in Nodes /\ w.bond = 0 /\ p.bond = 0
      /\ v.funds = g.funds /\ v.treasury = g.treasury /\ v.burned = g.burned
      /\ v.spends = g.spends /\ SamePlan(g, v) /\ GoodProp(w) /\ Follows(p, w)
  BY Zenon, VetoFacts
<1> HIDE DEF v, w
<1>2. Keeps(g, v)
  <2>1. PropSet(g, v, op.prop, w)
    BY <1>1 DEF PropSet
  <2> QED
    BY Zenon, <1>1, <2>1, SameBond
<1>3. /\ GoodProp(c) /\ GoodProp(r) /\ Follows(p, c) /\ Follows(p, r) /\ c.bond = 0 /\ r.bond = 0
      /\ Unvetoed(r)
  BY <1>1 DEF GoodProp, Follows, Open, PropFields, Statuses, Unvetoed
<1>4. Keeps(g, [v EXCEPT !.props[op.prop].status = "cancelled"])
  <2> DEFINE h == [v EXCEPT !.props[op.prop].status = "cancelled"]
  <2>1. /\ DOMAIN h = Fields /\ PropSet(g, h, op.prop, c) /\ h.funds = g.funds
        /\ h.treasury = g.treasury /\ h.burned = g.burned /\ SamePlan(g, h)
    BY <1>1 DEF Fields, SamePlan, PropSet
  <2> HIDE DEF h, c, r
  <2>2. Keeps(g, h)
    BY Zenon, <1>1, <1>3, <2>1, SameBond
  <2> QED
    BY Zenon, <2>2 DEF h
<1>5. LET h == [v EXCEPT !.props[op.prop].status = "rejected", !.props[op.prop].bond = 0,
                         !.funds[w.proposer] = @ + w.bond]
      IN  Keeps(g, h) /\ Quiet(g, h)
  <2> DEFINE h == [v EXCEPT !.props[op.prop].status = "rejected", !.props[op.prop].bond = 0,
                            !.funds[w.proposer] = @ + w.bond]
  <2>1. g.funds \in [Accounts -> Nat] /\ w.proposer \in Accounts
    BY Zenon, <1>1, AccountsFinite, LedgerFacts
  <2>2. /\ DOMAIN h = Fields /\ PropSet(g, h, op.prop, r)
        /\ h.treasury = g.treasury /\ h.burned = g.burned /\ SamePlan(g, h) /\ h.spends = g.spends
    BY <1>1 DEF Fields, SamePlan, PropSet
  <2>3. h.funds = [g.funds EXCEPT ![w.proposer] = g.funds[w.proposer] + w.bond]
    BY <1>1 DEF Fields
  <2>4. h.funds = g.funds
    BY <1>1, <2>1, <2>3
  <2> HIDE DEF h, c, r
  <2>5. Keeps(g, h)
    BY Zenon, <1>1, <1>3, <2>2, <2>4, SameBond
  <2>6. Quiet(g, h)
    BY Zenon, <1>3, <2>2, QuietMove
  <2> QED
    BY Zenon, <2>5, <2>6 DEF h
<1>6. ~(10 * VetoPower(w) >= Total(w)) => Quiet(g, v)
  <2> SUFFICES ASSUME ~(10 * VetoPower(w) >= Total(w)) PROVE Quiet(g, v)
    OBVIOUS
  <2>1. Total(w) \in Nat /\ VetoPower(w) \in Nat
    BY Zenon, <1>1, PowerFacts
  <2>2. Unvetoed(w)
    BY <2>1 DEF Unvetoed
  <2>3. PropSet(g, v, op.prop, w)
    BY <1>1 DEF PropSet
  <2> QED
    BY Zenon, <1>1, <2>2, <2>3, QuietMove
<1>7. Keeps(g, CommandVeto(g, op))
  BY Zenon, <1>1, <1>2, <1>4 DEF CommandVeto, v
<1>8. Keeps(g, ReplicatedVeto(g, op)) /\ Quiet(g, ReplicatedVeto(g, op))
  BY Zenon, <1>1, <1>2, <1>5, <1>6 DEF ReplicatedVeto, v
<1> QED
  BY Zenon, <1>7, <1>8

\* The end of the voting: the bond goes back, a forfeited part of it to the
\* treasury or nowhere.
LEMMA DecidedFacts ==
  ASSUME Induction, NEW g, Ledger(g), NEW op, op.prop \in DOMAIN g.props, g.props[op.prop].status = "voting"
  PROVE  LET p == g.props[op.prop]
             d == Decided(g, op)
             q == [p EXCEPT !.status = IF TallyPassed(p) THEN "passed" ELSE "rejected", !.bond = 0]
         IN  /\ DOMAIN d = Fields /\ d.props = [g.props EXCEPT ![op.prop] = q]
             /\ GoodProp(q) /\ Follows(p, q) /\ q.bond = 0 /\ Unvetoed(q)
             /\ d.treasury = g.treasury /\ d.burned = g.burned /\ d.spends = g.spends
             /\ SamePlan(g, d)
             /\ Forfeit(p) \in 0 .. p.bond /\ p.proposer \in Accounts
             /\ d.funds = [g.funds EXCEPT ![p.proposer] = g.funds[p.proposer] + p.bond - Forfeit(p)]
<1> DEFINE p == g.props[op.prop]
           q == [p EXCEPT !.status = IF TallyPassed(p) THEN "passed" ELSE "rejected", !.bond = 0]
<1>1. GoodProp(p) /\ DOMAIN g = Fields /\ p.status = "voting" /\ DOMAIN p = PropFields
  BY DEF Ledger, GoodProp
<1>2. /\ DOMAIN q = PropFields /\ q.kind = p.kind /\ q.action = p.action /\ q.power = p.power
      /\ q.votes = p.votes /\ q.validators = p.validators /\ q.vvotes = p.vvotes
      /\ q.bond = 0 /\ q.proposer = p.proposer /\ q.ends = p.ends /\ q.after = p.after
      /\ q.status = (IF TallyPassed(p) THEN "passed" ELSE "rejected") /\ q.vetoes = p.vetoes
  BY <1>1 DEF PropFields
<1>3. /\ Decided(g, op).props = [g.props EXCEPT ![op.prop] = q] /\ DOMAIN Decided(g, op) = Fields
  BY <1>1 DEF Decided, Fields
<1>4. /\ Decided(g, op).treasury = g.treasury /\ Decided(g, op).burned = g.burned
      /\ Decided(g, op).spends = g.spends /\ SamePlan(g, Decided(g, op))
      /\ Decided(g, op).funds
           = [g.funds EXCEPT ![p.proposer] = g.funds[p.proposer] + p.bond - Forfeit(p)]
  BY <1>1 DEF Decided, Fields, SamePlan
<1> HIDE DEF q
<1>5. q.status = "passed" => TallyPassed(q)
  BY Zenon, <1>2, TallySame
<1>6. GoodProp(q) /\ Follows(p, q) /\ q.bond = 0 /\ Unvetoed(q)
  <2>4. q.status \in {"passed", "rejected"} /\ 0 \in Nat
    BY <1>2
  <2>5. GoodProp(q)
    BY Zenon, <1>1, <1>2, <1>5, <2>4 DEF GoodProp, Statuses
  <2>6. Follows(p, q)
    BY Zenon, <1>1, <1>2 DEF Follows, Open
  <2>1. GoodProp(q) /\ Follows(p, q) /\ q.bond = 0
    BY Zenon, <1>2, <2>5, <2>6
  <2>2. q.vetoes = {}
    BY Zenon, <1>1, <1>2 DEF GoodProp
  <2>3. VetoPower(q) = 0 /\ Total(q) \in Nat /\ Total(q) >= 1
    BY Zenon, <2>1, <2>2, PowerFacts
  <2> QED
    BY <2>1, <2>3 DEF Unvetoed
<1>7. Forfeit(p) \in 0 .. p.bond /\ p.proposer \in Accounts
  <2>1. p.bond \in Nat /\ p.proposer \in Accounts
    BY Zenon, <1>1, AccountsFinite DEF GoodProp
  <2>2. PICK b \in Nat : b = p.bond
    BY Zenon, <2>1
  <2>3. Forfeit(p) = b \div 5 \/ Forfeit(p) = 0
    BY Zenon, <2>2 DEF Forfeit
  <2> QED
    BY <2>1, <2>2, <2>3
<1> QED
  BY Zenon, <1>3, <1>4, <1>6, <1>7 DEF q

\* Deciding a proposal: the command credits what is forfeited to the treasury, the
\* replicated operation burns it.
LEMMA DecidedKeeps ==
  ASSUME Induction, NEW g, Ledger(g), NEW op, op.prop \in DOMAIN g.props, g.props[op.prop].status = "voting"
  PROVE  /\ Keeps(g, CommandFinalize(g, op))
         /\ Keeps(g, ReplicatedFinalize(g, op)) /\ Quiet(g, ReplicatedFinalize(g, op))
<1> DEFINE p == g.props[op.prop]
           d == Decided(g, op)
           q == [p EXCEPT !.status = IF TallyPassed(p) THEN "passed" ELSE "rejected", !.bond = 0]
<1>1. /\ DOMAIN d = Fields /\ d.props = [g.props EXCEPT ![op.prop] = q]
      /\ GoodProp(q) /\ Follows(p, q) /\ q.bond = 0 /\ Unvetoed(q)
      /\ d.treasury = g.treasury /\ d.burned = g.burned /\ d.spends = g.spends
      /\ SamePlan(g, d)
      /\ Forfeit(p) \in 0 .. p.bond /\ p.proposer \in Accounts
      /\ d.funds = [g.funds EXCEPT ![p.proposer] = g.funds[p.proposer] + p.bond - Forfeit(p)]
  BY Zenon, DecidedFacts
<1> HIDE DEF d, q
<1>2. p.bond \in Nat /\ g.funds[p.proposer] \in Nat /\ g.treasury \in Nat /\ g.burned \in Nat
  BY Zenon, <1>1, LedgerFacts
<1>f. Forfeit(p) \in Nat /\ Forfeit(p) <= p.bond
  <2>1. Forfeit(p) \in 0 .. p.bond /\ p.bond \in Nat
    BY Zenon, <1>1, <1>2
  <2> HIDE DEF p
  <2> QED
    BY <2>1
<1>3. PICK f \in Nat, b \in Nat, u \in Nat :
         f = Forfeit(p) /\ b = p.bond /\ u = g.funds[p.proposer] /\ f <= b
  BY Zenon, <1>2, <1>f
<1>x. PICK x \in Nat : x = u + b - f
  <2>1. u + b - f \in Nat
    BY <1>3
  <2> QED
    BY Zenon, <2>1
<1>4. d.funds = [g.funds EXCEPT ![p.proposer] = x]
  BY Zenon, <1>1, <1>3, <1>x
<1>5. Keeps(g, CommandFinalize(g, op))
  <2> DEFINE h == CommandFinalize(g, op)
  <2>1. DOMAIN h = Fields /\ h.props = d.props /\ h.funds = d.funds /\ SamePlan(g, h)
    BY <1>1 DEF CommandFinalize, Fields, SamePlan, d
  <2>2. h.treasury = d.treasury + Forfeit(p)
    BY <1>1 DEF CommandFinalize, Fields, d
  <2>3. h.burned = d.burned
    BY <1>1 DEF CommandFinalize, Fields, d
  <2> HIDE DEF h
  <2>4. h.treasury = g.treasury + f /\ h.burned = g.burned + 0
    <3>1. g.treasury + 0 = g.treasury /\ g.burned + 0 = g.burned
      BY <1>2
    <3> QED
      BY Zenon, <1>1, <1>3, <2>2, <2>3, <3>1
  <2>5. PropSet(g, h, op.prop, q) /\ FundSet(g, h, p.proposer, x) /\ 0 \in Nat
    BY Zenon, <1>1, <1>4, <2>1 DEF PropSet, FundSet
  <2>6. x + f + 0 = g.funds[p.proposer] + p.bond
    <3>1. x + f + 0 = u + b
      BY <1>x
    <3> QED
      BY Zenon, <1>3, <3>1
  <2>7. Keeps(g, h)
    BY Zenon, <1>1, <2>1, <2>4, <2>5, <2>6, BondReturned
  <2> QED
    BY <2>7 DEF h
<1>6. Keeps(g, ReplicatedFinalize(g, op)) /\ Quiet(g, ReplicatedFinalize(g, op))
  <2> DEFINE h == ReplicatedFinalize(g, op)
  <2>1. DOMAIN h = Fields /\ h.props = d.props /\ h.funds = d.funds /\ SamePlan(g, h)
        /\ h.spends = d.spends
    BY <1>1 DEF ReplicatedFinalize, Fields, SamePlan, d
  <2>2. h.treasury = d.treasury
    BY <1>1 DEF ReplicatedFinalize, Fields, d
  <2>3. h.burned = d.burned + Forfeit(p)
    BY <1>1 DEF ReplicatedFinalize, Fields, d
  <2> HIDE DEF h
  <2>4. h.treasury = g.treasury + 0 /\ h.burned = g.burned + f
    <3>1. g.treasury + 0 = g.treasury /\ g.burned + 0 = g.burned
      BY <1>2
    <3> QED
      BY Zenon, <1>1, <1>3, <2>2, <2>3, <3>1
  <2>5. PropSet(g, h, op.prop, q) /\ FundSet(g, h, p.proposer, x) /\ 0 \in Nat
    BY Zenon, <1>1, <1>4, <2>1 DEF PropSet, FundSet
  <2>6. x + 0 + f = g.funds[p.proposer] + p.bond
    <3>1. x + 0 + f = u + b
      BY <1>x
    <3> QED
      BY Zenon, <1>3, <3>1
  <2>7. Keeps(g, h)
    BY Zenon, <1>1, <2>1, <2>4, <2>5, <2>6, BondReturned
  <2>8. Quiet(g, h)
    BY Zenon, <1>1, <2>1, <2>2, <2>5, QuietMove
  <2> QED
    BY <2>7, <2>8 DEF h
<1> QED
  BY <1>5, <1>6

\* A proposal is created: its bond leaves the proposer's account.
LEMMA CreatedKeeps ==
  ASSUME Induction, NEW g, Ledger(g), NEW op, op.node \in Nodes, op.action \in Actions, SnapshotPower(op.power),
         g.funds[op.node] >= Bond
  PROVE  Keeps(g, Created(g, op)) /\ Quiet(g, Created(g, op))
<1> DEFINE h == Created(g, op)
           e == [kind |-> op.kind, action |-> op.action, proposer |-> op.node, ends |-> op.ends,
                 after |-> op.after, status |-> "voting", power |-> op.power, votes |-> <<>>,
                 validators |-> op.validators, vvotes |-> <<>>, vetoes |-> {}, bond |-> Bond,
                 executed |-> -1]
<1>0. Bond \in Nat /\ op.node \in Accounts
  BY Zenon, GovernanceAssumption, AccountsFinite
<1>1. GoodProp(e) /\ e.bond = Bond /\ Unvetoed(e)
  BY Zenon, <1>0 DEF GoodProp, PropFields, Statuses, Unvetoed
<1>2. /\ DOMAIN g = Fields /\ g.funds \in [Accounts -> Nat] /\ g.treasury \in Nat /\ g.burned \in Nat
      /\ g.funds[op.node] \in Nat
  BY Zenon, <1>0, LedgerFacts
<1>3. /\ DOMAIN h = Fields /\ h.props = Append(g.props, e) /\ h.treasury = g.treasury
      /\ h.burned = g.burned /\ SamePlan(g, h) /\ h.spends = g.spends
      /\ h.funds = [g.funds EXCEPT ![op.node] = g.funds[op.node] - Bond]
  BY <1>2 DEF Created, Fields, SamePlan
<1>4. PICK n \in Nat : List(g.props, n) /\ DOMAIN g.props = 1 .. n
  BY DEF Ledger, Listed, List
<1> HIDE DEF h, e
<1>m. PICK m \in Nat : m = n + 1
  OBVIOUS
<1>5. /\ List(h.props, m) /\ DOMAIN h.props = 1 .. m
      /\ h.props[m] = e /\ \A i \in 1 .. n : h.props[i] = g.props[i]
  <2>1. List(h.props, m) /\ h.props[m] = e /\ \A i \in 1 .. n : h.props[i] = g.props[i]
    <3>1. h.props = Append(g.props, e)
      BY <1>3
    <3>2. Longer(g.props, n, e, h.props)
      BY Zenon, <1>4, <3>1, AppendFacts
    <3> QED
      BY Zenon, <1>m, <3>2 DEF Longer
  <2> QED
    BY Zenon, <2>1 DEF List
<1>6. \A i \in DOMAIN h.props : GoodProp(h.props[i])
  <2>1. \A i \in 1 .. n : GoodProp(g.props[i])
    BY Zenon, <1>4, LedgerFacts
  <2>2. \A i \in 1 .. m : i \in 1 .. n \/ i = m
    BY <1>m
  <2> QED
    BY Zenon, <1>1, <1>5, <2>1, <2>2
<1>u. PICK u \in Nat : u = g.funds[op.node] /\ u >= Bond
  BY Zenon, <1>2
<1>7. PICK x \in Nat : x = u - Bond
  <2>1. u - Bond \in Nat
    BY <1>0, <1>u
  <2> QED
    BY Zenon, <2>1
<1>8. FundSet(g, h, op.node, x) /\ h.funds \in [Accounts -> Nat]
  <2>1. FundSet(g, h, op.node, x)
    BY Zenon, <1>3, <1>7, <1>u DEF FundSet
  <2> QED
    BY Zenon, <1>2, <2>1 DEF FundSet
<1>9. Ledger(h)
  <2>1. Listed(h.props)
    BY Zenon, <1>5 DEF Listed
  <2> QED
    BY <1>2, <1>3, <1>6, <1>8, <2>1 DEF Ledger
<1>10. Held(h) = Held(g) - u + x
  BY Zenon, <1>0, <1>8, <1>u, FundsMove
<1>11. Bonded(h) = Bonded(g) + Bond
  <2> DEFINE b == Bonds(h)
             D == 1 .. n
  <2>1. IsFiniteSet(D) /\ m \notin D /\ DOMAIN h.props = D \cup {m}
    <3>1. IsFiniteSet(D)
      BY FiniteInterval
    <3>2. m \notin D /\ 1 .. m = D \cup {m}
      BY <1>m
    <3> QED
      BY Zenon, <1>5, <3>1, <3>2
  <2>2. b[m] = Bond /\ \A i \in D : b[i] = Bonds(g)[i]
    <3>1. m \in 1 .. m /\ \A i \in D : i \in 1 .. m
      BY <1>m
    <3> QED
      BY Zenon, <1>1, <1>4, <1>5, <3>1 DEF Bonds
  <2>3. \A i \in D \cup {m} : b[i] \in Int
    BY <1>9, <2>1, LedgerSums
  <2>4. D = DOMAIN g.props
    BY <1>4
  <2>5. Bonded(g) \in Nat
    BY Zenon, LedgerSums
  <2> HIDE DEF b, D
  <2>6. SumFunctionOnSet(b, D \cup {m}) = b[m] + SumFunctionOnSet(b, D)
    BY Zenon, <2>1, <2>3, SumAdd
  <2>7. SumFunctionOnSet(b, D) = SumFunctionOnSet(Bonds(g), D)
    BY Zenon, <2>1, <2>2, SumSame
  <2>8. Bonded(h) = Bond + Bonded(g)
    BY Zenon, <2>1, <2>2, <2>4, <2>6, <2>7 DEF Bonded, b
  <2> QED
    BY <1>0, <2>5, <2>8
<1>12. Worth(h) = Worth(g)
  <2>1. Held(g) \in Nat /\ Bonded(g) \in Nat
    BY Zenon, LedgerSums
  <2>2. /\ Worth(h) = Held(h) + h.treasury + h.burned + Bonded(h)
        /\ Worth(g) = Held(g) + g.treasury + g.burned + Bonded(g)
    BY Zenon DEF Worth
  <2> QED
    BY ONLY <1>0, <1>2, <1>3, <1>7, <1>10, <1>11, <2>1, <2>2
<1>13. Stands(g, h)
  <2>1. \A i \in 1 .. n : i \in 1 .. m
    BY <1>m
  <2> QED
    BY <1>4, <1>5, <2>1 DEF Stands, Follows
<1>14. Keeps(g, h)
  BY Zenon, <1>3, <1>9, <1>12, <1>13, PlanKept DEF Keeps
<1>15. Quiet(g, h)
  <2>1. \A i \in 1 .. m : i \in 1 .. n \/ i = m
    BY <1>m
  <2> QED
    BY Zenon, <1>1, <1>3, <1>4, <1>5, <2>1 DEF Quiet
<1> QED
  BY <1>14, <1>15 DEF h

\* Proposals that no longer have enough eligible nodes are cancelled, and
\* every proposer gets the bonds of their proposals back.
LEMMA CancelKeeps ==
  ASSUME Induction, NEW g, Ledger(g)
  PROVE  LET h == CancelBelowThreshold(g)
         IN  Keeps(g, h) /\ Quiet(g, h) /\ SamePlan(g, h)
<1> DEFINE h == CancelBelowThreshold(g)
           D == DOMAIN g.props
           gone == {i \in D : Open(g.props[i]) /\ ~EnoughFor(g.props[i].kind)}
           end(i) == [g.props[i] EXCEPT !.status = "cancelled", !.bond = 0]
           b == Bonds(g)
           refund == [a \in Accounts |-> SumFunctionOnSet(b, {i \in gone : g.props[i].proposer = a})]
<1>1. /\ DOMAIN g = Fields /\ g.funds \in [Accounts -> Nat] /\ g.treasury \in Nat /\ g.burned \in Nat
      /\ Listed(g.props) /\ \A i \in D : GoodProp(g.props[i])
  BY LedgerFacts
<1>2. /\ DOMAIN h = Fields /\ h.treasury = g.treasury /\ h.burned = g.burned /\ h.spends = g.spends
      /\ SamePlan(g, h)
  BY <1>1 DEF CancelBelowThreshold, Fields, SamePlan
<1>3. h.props = [i \in D |-> IF i \in gone THEN end(i) ELSE g.props[i]]
  BY <1>1 DEF CancelBelowThreshold, Fields
<1>4. h.funds = [a \in Accounts |-> g.funds[a] + refund[a]]
  BY <1>1 DEF CancelBelowThreshold, Fields
<1>5. \A i \in D : b[i] \in Nat /\ b[i] = g.props[i].bond
  BY Zenon, LedgerSums
<1>6. ASSUME NEW i \in gone
      PROVE  GoodProp(end(i)) /\ Follows(g.props[i], end(i)) /\ end(i).bond = 0 /\ end(i).status = "cancelled"
  <2>1. GoodProp(g.props[i]) /\ Open(g.props[i])
    BY <1>1
  <2> QED
    BY <2>1 DEF GoodProp, Follows, Open, PropFields, Statuses
<1>7. IsFiniteSet(D) /\ Held(g) \in Nat /\ Bonded(g) \in Nat
  BY Zenon, LedgerSums
<1>8. gone \in SUBSET D /\ IsFiniteSet(gone)
  BY <1>7, FiniteSubset
<1> HIDE DEF h, gone, end
<1>9. DOMAIN h.props = D /\ \A i \in D : h.props[i] = IF i \in gone THEN end(i) ELSE g.props[i]
  BY <1>3
<1>10. \A i \in D : /\ GoodProp(h.props[i]) /\ Follows(g.props[i], h.props[i])
                    /\ Bonds(h)[i] = IF i \in gone THEN 0 ELSE b[i]
  <2> SUFFICES ASSUME NEW i \in D
               PROVE  /\ GoodProp(h.props[i]) /\ Follows(g.props[i], h.props[i])
                      /\ Bonds(h)[i] = IF i \in gone THEN 0 ELSE b[i]
    OBVIOUS
  <2>1. Bonds(h)[i] = h.props[i].bond
    BY <1>9 DEF Bonds
  <2>2. CASE i \in gone
    BY <1>6, <1>9, <2>1, <2>2
  <2>3. CASE i \notin gone
    BY Zenon, <1>1, <1>5, <1>9, <2>1, <2>3 DEF Follows
  <2> QED
    BY <2>2, <2>3
<1>11. Listed(h.props)
  BY <1>1, <1>3 DEF Listed, List
<1> HIDE DEF b
<1>12. Bonded(h) = Bonded(g) - SumFunctionOnSet(b, gone)
  <2>1. \A i \in D : b[i] \in Int
    BY <1>5
  <2> DEFINE c == Bonds(h)
  <2>2. \A i \in D : c[i] = IF i \in gone THEN 0 ELSE b[i]
    BY <1>10
  <2> HIDE DEF c, D
  <2>3. SumFunctionOnSet(c, D) = SumFunctionOnSet(b, D) - SumFunctionOnSet(b, gone)
    BY <1>7, <1>8, <2>1, <2>2, SumCleared
  <2> QED
    BY Zenon, <1>9, <2>3 DEF Bonded, b, c, D
<1>13. \A a \in Accounts : refund[a] \in Nat
  <2> SUFFICES ASSUME NEW a \in Accounts PROVE refund[a] \in Nat
    OBVIOUS
  <2> DEFINE T == {i \in gone : g.props[i].proposer = a}
  <2>1. refund[a] = SumFunctionOnSet(b, T) /\ T \in SUBSET D
    BY <1>8
  <2> HIDE DEF T
  <2>2. SumFunctionOnSet(b, T) \in Nat
    BY Zenon, <1>5, <1>7, <2>1, SumNat
  <2> QED
    BY Zenon, <2>1, <2>2
<1>14. SumFunctionOnSet(refund, Accounts) = SumFunctionOnSet(b, gone)
  <2> DEFINE key == [i \in gone |-> g.props[i].proposer]
  <2>1. key \in [gone -> Accounts]
    BY <1>1, <1>8, AccountsFinite DEF GoodProp
  <2>2. \A i \in gone : b[i] \in Int
    BY <1>5, <1>8
  <2>3. \A a \in Accounts : refund[a] = SumFunctionOnSet(b, {i \in gone : key[i] = a})
    <3> SUFFICES ASSUME NEW a \in Accounts
                 PROVE  refund[a] = SumFunctionOnSet(b, {i \in gone : key[i] = a})
      OBVIOUS
    <3>1. {i \in gone : key[i] = a} = {i \in gone : g.props[i].proposer = a}
      OBVIOUS
    <3> QED
      BY Zenon, <3>1
  <2> HIDE DEF key, refund, D
  <2>4. Keyed(refund, Accounts, b, gone, key)
    BY Zenon, <2>3 DEF Keyed
  <2>5. SameTotal(refund, Accounts, b, gone)
    BY Zenon, <1>8, <2>1, <2>2, <2>4, AccountsFinite, SumByKey
  <2> QED
    BY Zenon, <2>5 DEF SameTotal
<1> HIDE DEF refund
<1>15. h.funds \in [Accounts -> Nat]
  BY <1>1, <1>4, <1>13
<1>16. Held(h) = Held(g) + SumFunctionOnSet(b, gone)
  <2> DEFINE f == g.funds
             c == h.funds
  <2>1. \A a \in Accounts : f[a] \in Int /\ refund[a] \in Int /\ c[a] = f[a] + refund[a]
    BY <1>1, <1>4, <1>13
  <2> HIDE DEF f, c
  <2>2. SumFunctionOnSet(c, Accounts) = SumFunctionOnSet(f, Accounts) + SumFunctionOnSet(refund, Accounts)
    BY Zenon, <2>1, AccountsFinite, SumPlus
  <2> QED
    BY Zenon, <1>14, <2>2 DEF Held, f, c
<1>17. Ledger(h)
  BY Zenon, <1>1, <1>2, <1>9, <1>10, <1>11, <1>15 DEF Ledger
<1>18. Worth(h) = Worth(g)
  <2>1. SumFunctionOnSet(b, gone) \in Nat
    BY Zenon, <1>5, <1>7, <1>8, SumNat
  <2> QED
    BY <1>1, <1>2, <1>7, <1>12, <1>16, <2>1 DEF Worth
<1>19. Stands(g, h)
  BY Zenon, <1>9, <1>10 DEF Stands
<1>20. Keeps(g, h)
  BY Zenon, <1>2, <1>17, <1>18, <1>19, PlanKept DEF Keeps
<1>21. Quiet(g, h)
  <2>1. \A i \in D : h.props[i] = g.props[i] \/ Unvetoed(h.props[i])
    BY <1>6, <1>9 DEF Unvetoed
  <2> QED
    BY Zenon, <1>2, <1>9, <2>1 DEF Quiet
<1> QED
  BY Zenon, <1>2, <1>20, <1>21 DEF h

\* What every operation ends with.
LEMMA FinalizeKeeps ==
  ASSUME Induction, NEW g, Ledger(g), NEW op, op.node \in Nodes, FeePayable(g, op)
  PROVE  Keeps(g, FinalizeOperation(g, op)) /\ Quiet(g, FinalizeOperation(g, op))
<1> DEFINE c == CancelBelowThreshold(g)
           h == FinalizeOperation(g, op)
<1>1. Keeps(g, c) /\ Quiet(g, c) /\ Ledger(c)
  BY CancelKeeps DEF Keeps
<1>2. FeeOf(op) \in Nat /\ op.node \in Accounts /\ c.funds[op.node] >= FeeOf(op)
  BY Zenon, GovernanceAssumption, AccountsFinite DEF FeeOf, FeePayable
<1>3. /\ DOMAIN h = Fields /\ h.props = c.props /\ h.treasury = c.treasury /\ SamePlan(c, h)
      /\ h.funds = [c.funds EXCEPT ![op.node] = c.funds[op.node] - FeeOf(op)]
      /\ h.burned = c.burned + FeeOf(op) /\ h.spends = c.spends
  <2>1. DOMAIN c = Fields
    BY <1>1 DEF Ledger
  <2> HIDE DEF c
  <2>2. h = [c EXCEPT !.funds[op.node] = @ - FeeOf(op), !.burned = @ + FeeOf(op)]
    BY DEF FinalizeOperation, c
  <2> HIDE DEF h
  <2> QED
    BY <2>1, <2>2 DEF Fields, SamePlan
<1> HIDE DEF c, h
<1>4. c.funds \in [Accounts -> Nat] /\ c.treasury \in Nat /\ c.burned \in Nat /\ c.funds[op.node] \in Nat
  BY <1>1, <1>2, LedgerFacts
<1>5. PICK f \in Nat, u \in Nat : f = FeeOf(op) /\ u = c.funds[op.node] /\ u >= f
  BY Zenon, <1>2, <1>4
<1>6. PICK x \in Nat : x = u - f
  <2>1. u - f \in Nat
    BY <1>5
  <2> QED
    BY Zenon, <2>1
<1>7. FundSet(c, h, op.node, x) /\ h.burned = c.burned + f
  BY Zenon, <1>3, <1>5, <1>6 DEF FundSet
<1>8. Ledger(h)
  <2>1. h.funds \in [Accounts -> Nat]
    BY Zenon, <1>4, <1>7 DEF FundSet
  <2>2. h.burned \in Nat
    BY <1>4, <1>7
  <2> QED
    BY Zenon, <1>1, <1>3, <2>1, <2>2 DEF Ledger
<1>9. Held(h) = Held(c) - u + x
  BY Zenon, <1>1, <1>2, <1>5, <1>7, FundsMove
<1>10. Bonded(h) = Bonded(c)
  BY Zenon, <1>3 DEF Bonded, Bonds
<1>11. Worth(h) = Worth(c)
  <2>1. Held(c) \in Nat /\ Bonded(c) \in Nat
    BY Zenon, <1>1, LedgerSums
  <2>2. h.treasury = c.treasury /\ h.burned = c.burned + f /\ Held(h) = Held(c) - u + x /\ x = u - f
    BY Zenon, <1>3, <1>6, <1>7, <1>9
  <2>3. PICK a \in Nat, b \in Nat, v \in Nat, w \in Nat :
           a = Held(c) /\ b = Bonded(c) /\ v = c.treasury /\ w = c.burned
    BY Zenon, <1>4, <2>1
  <2>4. a - u + x + v + (w + f) + b = a + v + w + b
    BY <1>5, <1>6
  <2> QED
    BY Zenon, <1>10, <2>2, <2>3, <2>4 DEF Worth
<1>12. Keeps(c, h)
  BY Zenon, <1>3, <1>8, <1>11, StandsSame, PlanKept DEF Keeps
<1>13. Keeps(g, h)
  BY Zenon, <1>1, <1>12, KeepsTransitive
<1>14. Quiet(g, h)
  BY Zenon, <1>1, <1>3, QuietSame, QuietTransitive
<1> QED
  BY <1>13, <1>14 DEF h

-----------------------------------------------------------------------------
\* A batch that is valid leaves valid settings and a queue that applies.
LEMMA BatchPlan ==
  ASSUME NEW g, Ledger(g), NEW action \in Actions \cup DirectActions, NEW at, action.type = "set",
         ActionApplies(g, action, at), Plan(g)
  PROVE  Plan(ActionApplied(g, action))
<1> DEFINE h == ActionApplied(g, action)
           s == BatchSettings(g.settings, action.changes, action.effective)
           q == BatchQueue(g.queue, action.changes, action.effective)
<1>1. h.settings = s /\ h.queue = q /\ h.epoch = g.epoch
  BY Zenon DEF ActionApplied, Ledger, Fields
<1>2. /\ QueueApplies(s, q, g.epoch)
      /\ action.effective = NoEpoch => Changeable(g.settings, action.changes)
  BY DEF ActionApplies, ValidBatch
<1>3. Fine(g.settings) /\ g.epoch \in Nat /\ GoodQueue(g.queue)
  BY DEF Plan
<1>4. Fine(s)
  BY Zenon, <1>2, <1>3, ChangedFine DEF BatchSettings
<1>5. GoodQueue(q)
  <2>1. CASE action.effective = NoEpoch
    BY Zenon, <1>3, <2>1 DEF BatchQueue
  <2>2. CASE action.effective # NoEpoch
    <3>1. action.effective \in Nat
      BY <2>2, GovernanceAssumption
    <3>2. DOMAIN q = DOMAIN g.queue \cup {action.effective}
      BY <2>2 DEF BatchQueue, Enqueue
    <3>3. IsFiniteSet(DOMAIN q)
      BY Zenon, <1>3, <3>2, FiniteAdd DEF GoodQueue
    <3> QED
      BY <1>3, <3>1, <3>2, <3>3 DEF GoodQueue
  <2> QED
    BY <2>1, <2>2
<1> QED
  BY Zenon, <1>1, <1>2, <1>3, <1>4, <1>5 DEF Plan

\* What an action does to the accounts.
LEMMA AppliedFacts ==
  ASSUME Induction, NEW g, Ledger(g), NEW action \in Actions \cup DirectActions, NEW at, ActionApplies(g, action, at)
  PROVE  LET h == ActionApplied(g, action)
         IN  /\ Keeps(g, h) /\ h.props = g.props /\ h.spends = g.spends
             /\ ~IsSpend(action) => h.treasury = g.treasury /\ Quiet(g, h)
             /\ IsSpend(action) => /\ action.amount \in Nat /\ SpendAllowed(g, action.amount, at)
                                   /\ h.treasury = g.treasury - action.amount
<1> DEFINE h == ActionApplied(g, action)
<1>1. /\ DOMAIN g = Fields /\ g.funds \in [Accounts -> Nat] /\ g.treasury \in Nat /\ g.burned \in Nat
  BY Zenon, LedgerFacts
<1>2. \/ action.type \in {"set", "pause", "resume"}
      \/ action.type = "spend" /\ action.amount \in Nat
  BY GovernanceAssumption
<1>3. CASE action.type = "set"
  <2>1. /\ DOMAIN h = Fields /\ h.props = g.props /\ h.funds = g.funds /\ h.treasury = g.treasury
        /\ h.burned = g.burned /\ h.spends = g.spends
    BY Zenon, <1>1, <1>3 DEF ActionApplied, Fields
  <2>2. Plan(g) => Plan(h)
    BY Zenon, <1>3, BatchPlan
  <2>3. Keeps(g, h)
    <3> HIDE DEF h
    <3> QED
      BY Zenon, <2>1, <2>2, SameMoney
  <2>4. action.type # "spend"
    BY <1>3
  <2> QED
    BY Zenon, <1>3, <2>1, <2>3, <2>4, QuietSame DEF IsSpend
<1>4. CASE action.type \in {"pause", "resume"}
  <2>1. /\ DOMAIN h = Fields /\ h.props = g.props /\ h.funds = g.funds /\ h.treasury = g.treasury
        /\ h.burned = g.burned /\ h.spends = g.spends /\ SamePlan(g, h)
    BY <1>1, <1>4 DEF ActionApplied, Fields, SamePlan
  <2>2. Keeps(g, h)
    <3> HIDE DEF h
    <3> QED
      BY Zenon, <2>1, SameMoney, PlanKept
  <2>3. action.type # "spend"
    BY <1>4
  <2> QED
    BY Zenon, <1>4, <2>1, <2>2, <2>3, QuietSame DEF IsSpend
<1>5. CASE action.type = "spend"
  <2>1. /\ action.amount \in Nat /\ SpendAllowed(g, action.amount, at) /\ IsSpend(action)
        /\ action.amount <= g.treasury
    BY <1>2, <1>5 DEF ActionApplies, SpendAllowed, IsSpend
  <2>2. /\ DOMAIN h = Fields /\ h.props = g.props /\ h.burned = g.burned /\ h.spends = g.spends
        /\ SamePlan(g, h) /\ h.treasury = g.treasury - action.amount
        /\ h.funds = [g.funds EXCEPT ![Recipient] = g.funds[Recipient] + action.amount]
    BY Zenon, <1>1, <1>5 DEF ActionApplied, Fields, SamePlan
  <2> HIDE DEF h
  <2>3. PICK m \in Nat, t \in Nat, u \in Nat :
           m = action.amount /\ t = g.treasury /\ u = g.funds[Recipient] /\ m <= t
    BY Zenon, <1>1, <2>1, AccountsFinite, LedgerFacts
  <2>4. PICK x \in Nat, y \in Nat : x = u + m /\ y = t - m
    <3>1. u + m \in Nat /\ t - m \in Nat
      BY <2>3
    <3> QED
      BY Zenon, <3>1
  <2>5. FundSet(g, h, Recipient, x) /\ h.treasury = y
    BY Zenon, <2>2, <2>3, <2>4 DEF FundSet
  <2>6. h.funds \in [Accounts -> Nat]
    BY Zenon, <1>1, <2>5 DEF FundSet
  <2>7. Ledger(h)
    BY Zenon, <1>1, <2>2, <2>5, <2>6 DEF Ledger
  <2>8. Held(h) = Held(g) - u + x /\ Held(g) \in Nat
    BY Zenon, <2>3, <2>5, AccountsFinite, FundsMove, LedgerSums
  <2>9. Bonded(h) = Bonded(g) /\ Bonded(g) \in Nat
    BY Zenon, <2>2, LedgerSums DEF Bonded, Bonds
  <2>10. Held(h) + h.treasury = Held(g) + t
    BY <2>4, <2>5, <2>8
  <2>11. Worth(h) = Worth(g)
    BY Zenon, <2>2, <2>3, <2>9, <2>10 DEF Worth
  <2>12. Keeps(g, h)
    BY Zenon, <2>2, <2>7, <2>11, StandsSame, PlanKept DEF Keeps
  <2> QED
    BY Zenon, <2>1, <2>2, <2>12 DEF h
<1> QED
  BY Zenon, <1>2, <1>3, <1>4, <1>5

\* A passed proposal is executed after its timelock.
LEMMA ExecutedKeeps ==
  ASSUME Induction, NEW g, Ledger(g), NEW op, op.prop \in DOMAIN g.props, g.props[op.prop].status = "passed",
         op.stamp >= g.props[op.prop].after, ActionApplies(g, g.props[op.prop].action, op.stamp)
  PROVE  LET p == g.props[op.prop]
             h == Executed(g, op)
             q == [p EXCEPT !.status = "executed", !.executed = op.stamp]
         IN  /\ Keeps(g, h) /\ (Trusted(g) => Trusted(h))
             /\ ~IsSpend(p.action) => h.treasury = g.treasury /\ h.spends = g.spends
             /\ IsSpend(p.action) =>
                  /\ p.action.amount \in Nat /\ SpendAllowed(g, p.action.amount, op.stamp)
                  /\ h.treasury = g.treasury - p.action.amount
                  /\ h.spends = Append(g.spends, [amount |-> p.action.amount, at |-> op.stamp])
<1> DEFINE p == g.props[op.prop]
           d == ActionApplied(g, p.action)
           h == Executed(g, op)
           q == [p EXCEPT !.status = "executed", !.executed = op.stamp]
<1>1. GoodProp(p) /\ p.status = "passed" /\ DOMAIN p = PropFields /\ p.action \in Actions \cup DirectActions
  BY Zenon DEF Ledger, GoodProp
<1>2. /\ Keeps(g, d) /\ d.props = g.props /\ d.spends = g.spends
      /\ ~IsSpend(p.action) => d.treasury = g.treasury
      /\ IsSpend(p.action) => /\ p.action.amount \in Nat /\ SpendAllowed(g, p.action.amount, op.stamp)
                              /\ d.treasury = g.treasury - p.action.amount
  BY Zenon, <1>1, AppliedFacts
<1>3. Ledger(d) /\ DOMAIN d = Fields
  BY Zenon, <1>2 DEF Keeps, Ledger
<1>4. /\ DOMAIN q = PropFields /\ q.kind = p.kind /\ q.action = p.action /\ q.power = p.power
      /\ q.votes = p.votes /\ q.validators = p.validators /\ q.vvotes = p.vvotes
      /\ q.bond = p.bond /\ q.proposer = p.proposer /\ q.ends = p.ends /\ q.after = p.after
      /\ q.status = "executed" /\ q.executed = op.stamp /\ q.vetoes = p.vetoes
  BY <1>1 DEF PropFields
<1> HIDE DEF q
<1>5. TallyPassed(q)
  <2>1. TallyPassed(p)
    BY Zenon, <1>1 DEF GoodProp
  <2> QED
    BY Zenon, <1>4, <2>1, TallySame
<1>6. GoodProp(q) /\ Follows(p, q)
  BY Zenon, <1>1, <1>4, <1>5 DEF GoodProp, Follows, Open, Statuses
<1>7. /\ DOMAIN h = Fields /\ PropSet(d, h, op.prop, q) /\ h.funds = d.funds
      /\ h.treasury = d.treasury /\ h.burned = d.burned /\ SamePlan(d, h)
      /\ h.spends = IF IsSpend(p.action)
                      THEN Append(d.spends, [amount |-> p.action.amount, at |-> op.stamp]) ELSE d.spends
  <2> HIDE DEF d
  <2>1. h = [d EXCEPT !.props[op.prop].status = "executed", !.props[op.prop].executed = op.stamp,
                      !.spends = IF IsSpend(p.action)
                                   THEN Append(@, [amount |-> p.action.amount, at |-> op.stamp])
                                   ELSE @]
    BY Zenon DEF Executed, d
  <2> HIDE DEF h
  <2> QED
    BY <1>2, <1>3, <2>1 DEF Fields, SamePlan, PropSet, q
<1> HIDE DEF d, h
<1>8. Keeps(d, h)
  <2>1. op.prop \in DOMAIN d.props /\ d.props[op.prop] = p
    BY Zenon, <1>2
  <2> QED
    BY Zenon, <1>3, <1>4, <1>6, <1>7, <2>1, SameBond
<1>9. Keeps(g, h)
  BY Zenon, <1>2, <1>8, KeepsTransitive
<1>10. PropSet(g, h, op.prop, q)
  BY Zenon, <1>2, <1>7 DEF PropSet
<1>11. Trusted(g) => Trusted(h)
  <2> SUFFICES ASSUME Trusted(g) PROVE Trusted(h)
    OBVIOUS
  <2>1. Unvetoed(p)
    BY Zenon DEF Trusted
  <2>2. Unvetoed(q)
    <3>1. VetoPower(q) = VetoPower(p) /\ Total(q) = Total(p)
      BY Zenon, <1>4, VetoSame
    <3> QED
      BY Zenon, <1>1, <2>1, <3>1 DEF Unvetoed
  <2>3. DOMAIN h.props = DOMAIN g.props
    BY <1>10 DEF PropSet
  <2>4. ASSUME NEW j \in DOMAIN g.props PROVE h.props[j] = q \/ h.props[j] = g.props[j]
    BY <1>10 DEF PropSet
  <2> QED
    BY Zenon, <2>2, <2>3, <2>4 DEF Trusted
<1> QED
  BY Zenon, <1>2, <1>7, <1>9, <1>11 DEF h
=============================================================================
