----------------------------- MODULE FiniteSums -----------------------------
(***************************************************************************)
(* Finite sets, their cardinality, and sums over them, from the            *)
(* definitions.                                                            *)
(*                                                                         *)
(* Every proof by induction comes down to one fact, Induction, that a set  *)
(* of natural numbers with 0 and the successors of its elements has all of *)
(* them.  It is a hypothesis here: the modules that extend this one        *)
(* establish it from the well-foundedness of the natural numbers where     *)
(* they state their theorems, and the library's theory of well-founded     *)
(* relations is in nobody's way before.                                    *)
(***************************************************************************)
EXTENDS Integers, Sequences, FiniteSets, Functions, TLAPS

Induction == \A G \in SUBSET Nat : (0 \in G /\ \A n \in G : n + 1 \in G) => G = Nat

\* Induction over the natural numbers.
LEMMA NatSetInduction ==
    ASSUME Induction, NEW G \in SUBSET Nat, 0 \in G, \A n \in G : n + 1 \in G
    PROVE  G = Nat
  BY Zenon DEF Induction

-----------------------------------------------------------------------------
\* The elements of S can be numbered, some of them several times, from 1 to n.
Numbered(S, n) == \E q : \A s \in S : \E i \in 1 .. n : q[i] = s

\* Finite sets are those that can be numbered.
LEMMA FiniteNumbered == ASSUME NEW S, IsFiniteSet(S) PROVE \E n \in Nat : Numbered(S, n)
  <1>1. PICK q \in Seq(S) : \A s \in S : \E i \in 1 .. Len(q) : q[i] = s
    BY Zenon DEF IsFiniteSet
  <1>2. Len(q) \in Nat
    BY <1>1
  <1> QED
    BY Zenon, <1>1, <1>2 DEF Numbered

\* A numbered set is finite.
LEMMA NumberedFinite == ASSUME NEW S, NEW n \in Nat, Numbered(S, n) PROVE IsFiniteSet(S)
  <1>1. PICK q : \A s \in S : \E i \in 1 .. n : q[i] = s
    BY Zenon DEF Numbered
  <1>2. CASE S = {}
    <2>1. <<>> \in Seq(S) /\ \A s \in S : \E i \in 1 .. Len(<<>>) : <<>>[i] = s
      BY <1>2
    <2> QED
      BY Zenon, <2>1 DEF IsFiniteSet
  <1>3. CASE S # {}
    <2>1. PICK d : d \in S
      BY <1>3
    <2> DEFINE r == [i \in 1 .. n |-> IF q[i] \in S THEN q[i] ELSE d]
    <2>2. r \in Seq(S) /\ Len(r) = n
      <3>1. r \in [1 .. n -> S]
        BY <2>1
      <3> HIDE DEF r
      <3> QED
        BY <3>1
    <2>3. \A s \in S : \E i \in 1 .. n : r[i] = s
      BY <1>1
    <2> HIDE DEF r
    <2>4. \A s \in S : \E i \in 1 .. Len(r) : r[i] = s
      BY <2>2, <2>3
    <2> QED
      BY Zenon, <2>2, <2>4 DEF IsFiniteSet
  <1> QED
    BY <1>2, <1>3

\* Without one of its elements a set needs a number less.
LEMMA NumberedLess ==
    ASSUME NEW S, NEW n \in Nat, Numbered(S, n + 1), NEW x \in S
    PROVE  Numbered(S \ {x}, n)
  <1>1. PICK q : \A s \in S : \E i \in 1 .. (n + 1) : q[i] = s
    BY Zenon DEF Numbered
  <1>2. PICK j \in 1 .. (n + 1) : q[j] = x
    BY Zenon, <1>1
  <1> DEFINE r == [i \in 1 .. n |-> IF i < j THEN q[i] ELSE q[i + 1]]
  <1>3. ASSUME NEW s \in S \ {x} PROVE \E i \in 1 .. n : r[i] = s
    <2>1. PICK i \in 1 .. (n + 1) : q[i] = s
      BY Zenon, <1>1
    <2>2. CASE i < j
      <3>1. i \in 1 .. n
        BY <2>2
      <3>2. r[i] = s
        BY <2>1, <2>2, <3>1
      <3> QED
        BY Zenon, <3>1, <3>2
    <2>3. CASE ~(i < j)
      <3>1. i # j
        BY <1>2, <2>1
      <3>2. i - 1 \in 1 .. n /\ ~(i - 1 < j) /\ (i - 1) + 1 = i
        BY <2>3, <3>1
      <3>3. r[i - 1] = s
        BY <2>1, <3>2
      <3> QED
        BY Zenon, <3>2, <3>3
    <2> QED
      BY <2>2, <2>3
  <1> QED
    BY Zenon, <1>3 DEF Numbered

\* Only the empty set is numbered by nothing.
LEMMA NumberedNothing == ASSUME NEW S, Numbered(S, 0) PROVE S = {}
  BY DEF Numbered

\* A part is numbered by the same numbers.
LEMMA NumberedPart == ASSUME NEW S, NEW T, NEW n, T \subseteq S, Numbered(S, n) PROVE Numbered(T, n)
  BY Zenon DEF Numbered

\* A spare number does no harm.
LEMMA NumberedMore == ASSUME NEW S, NEW n \in Nat, Numbered(S, n) PROVE Numbered(S, n + 1)
  <1>1. \A i \in 1 .. n : i \in 1 .. (n + 1)
    OBVIOUS
  <1> QED
    BY Zenon, <1>1 DEF Numbered

\* Finite sets are closed under the usual operations.
LEMMA FiniteEmpty == IsFiniteSet({})
  <1>1. Numbered({}, 0)
    BY Zenon DEF Numbered
  <1> QED
    BY <1>1, NumberedFinite

\* A part of a finite set is finite.
LEMMA FiniteSubset == ASSUME NEW S, IsFiniteSet(S), NEW T, T \subseteq S PROVE IsFiniteSet(T)
  BY Zenon, FiniteNumbered, NumberedPart, NumberedFinite

\* One more element leaves a set finite.
LEMMA FiniteAdd == ASSUME NEW S, IsFiniteSet(S), NEW x PROVE IsFiniteSet(S \cup {x})
  <1>1. PICK n \in Nat : Numbered(S, n)
    BY Zenon, FiniteNumbered
  <1>2. PICK q : \A s \in S : \E i \in 1 .. n : q[i] = s
    BY Zenon, <1>1 DEF Numbered
  <1> DEFINE r == [i \in 1 .. (n + 1) |-> IF i = n + 1 THEN x ELSE q[i]]
  <1>3. \A s \in S \cup {x} : \E i \in 1 .. (n + 1) : r[i] = s
    <2>1. r[n + 1] = x /\ n + 1 \in 1 .. (n + 1)
      OBVIOUS
    <2>2. \A i \in 1 .. n : i \in 1 .. (n + 1) /\ r[i] = q[i]
      OBVIOUS
    <2> HIDE DEF r
    <2> QED
      BY Zenon, <1>2, <2>1, <2>2
  <1>4. n + 1 \in Nat
    OBVIOUS
  <1>5. Numbered(S \cup {x}, n + 1)
    <2> HIDE DEF r
    <2> QED
      BY Zenon, <1>3 DEF Numbered
  <1> QED
    BY Zenon, <1>4, <1>5, NumberedFinite

\* The image of a finite set is finite.
LEMMA FiniteImage ==
    ASSUME NEW S, IsFiniteSet(S), NEW f, NEW T, \A t \in T : \E s \in S : f[s] = t
    PROVE  IsFiniteSet(T)
  <1>1. PICK n \in Nat : Numbered(S, n)
    BY Zenon, FiniteNumbered
  <1>2. PICK q : \A s \in S : \E i \in 1 .. n : q[i] = s
    BY Zenon, <1>1 DEF Numbered
  <1> DEFINE r == [i \in 1 .. n |-> f[q[i]]]
  <1>3. \A i \in 1 .. n : r[i] = f[q[i]]
    OBVIOUS
  <1> HIDE DEF r
  <1>4. ASSUME NEW t \in T PROVE \E i \in 1 .. n : r[i] = t
    <2>1. PICK s \in S : f[s] = t
      BY Zenon
    <2>2. PICK i \in 1 .. n : q[i] = s
      BY Zenon, <1>2
    <2> QED
      BY Zenon, <1>3, <2>1, <2>2
  <1>5. Numbered(T, n)
    BY Zenon, <1>4 DEF Numbered
  <1> QED
    BY Zenon, <1>1, <1>5, NumberedFinite

\* An interval is finite.
LEMMA FiniteInterval == ASSUME NEW a \in Int, NEW b \in Int PROVE IsFiniteSet(a .. b)
  <1> DEFINE n == IF a <= b THEN b - a + 1 ELSE 0
             q == [i \in 1 .. n |-> a + i - 1]
  <1>1. n \in Nat
    OBVIOUS
  <1>2. ASSUME NEW s \in a .. b PROVE \E i \in 1 .. n : q[i] = s
    <2>1. s - a + 1 \in 1 .. n /\ a + (s - a + 1) - 1 = s
      OBVIOUS
    <2> HIDE DEF n
    <2>2. q[s - a + 1] = s
      BY <2>1
    <2> HIDE DEF q
    <2> QED
      BY Zenon, <2>1, <2>2
  <1>3. Numbered(a .. b, n)
    <2> HIDE DEF n, q
    <2> QED
      BY Zenon, <1>2 DEF Numbered
  <1> HIDE DEF n
  <1> QED
    BY Zenon, <1>1, <1>3, NumberedFinite

-----------------------------------------------------------------------------
\* G has each subset of S all of whose proper subsets it has.
Hereditary(G, S) ==
    \A T \in SUBSET S : (\A U \in SUBSET T : U # T => U \in G) => T \in G

\* Induction over the subsets of a finite set.
LEMMA SubsetInduction ==
    ASSUME Induction, NEW S, IsFiniteSet(S), NEW G, Hereditary(G, S)
    PROVE  S \in G
  <1> DEFINE K == {n \in Nat : \A T \in SUBSET S : Numbered(T, n) => T \in G}
  <1>1. 0 \in K
    <2>1. ASSUME NEW T \in SUBSET S, Numbered(T, 0) PROVE T \in G
      <3>1. T = {}
        BY Zenon, <2>1, NumberedNothing
      <3>2. \A U \in SUBSET T : U # T => U \in G
        BY <3>1
      <3> QED
        BY Zenon, <3>2 DEF Hereditary
    <2> QED
      BY <2>1
  <1>2. ASSUME NEW n \in K PROVE n + 1 \in K
    <2>1. n \in Nat /\ n + 1 \in Nat /\ \A T \in SUBSET S : Numbered(T, n) => T \in G
      OBVIOUS
    <2>2. ASSUME NEW T \in SUBSET S, Numbered(T, n + 1) PROVE T \in G
      <3>1. ASSUME NEW U \in SUBSET T, U # T PROVE U \in G
        <4>1. PICK x \in T : x \notin U
          BY <3>1
        <4>2. Numbered(T \ {x}, n)
          BY Zenon, <2>1, <2>2, NumberedLess
        <4>3. U \subseteq T \ {x}
          BY <4>1
        <4>4. Numbered(U, n)
          BY Zenon, <4>2, <4>3, NumberedPart
        <4>5. U \in SUBSET S
          OBVIOUS
        <4> QED
          BY Zenon, <2>1, <4>4, <4>5
      <3> QED
        BY Zenon, <3>1 DEF Hereditary
    <2> QED
      BY Zenon, <2>1, <2>2
  <1>3. K = Nat
    <2>1. K \in SUBSET Nat
      OBVIOUS
    <2> HIDE DEF K
    <2> QED
      BY Zenon, <1>1, <1>2, <2>1, NatSetInduction
  <1>4. PICK n \in Nat : Numbered(S, n)
    BY Zenon, FiniteNumbered
  <1>5. n \in K /\ S \in SUBSET S
    BY Zenon, <1>3, <1>4
  <1> QED
    BY Zenon, <1>4, <1>5

-----------------------------------------------------------------------------
\* A choice from every subset of S, and the partial sums over the subsets, each
\* of which loses its chosen element.
Choice(p, S) == \A s \in SUBSET S : s # {} => p[s] \in s

Running(f, p, S, iter) ==
    iter = [s \in SUBSET S |-> IF s = {} THEN 0 ELSE f[p[s]] + iter[s \ {p[s]}]]

\* The partial sums exist.
LEMMA RunningExists ==
    ASSUME Induction, NEW S, IsFiniteSet(S), NEW f, NEW p, Choice(p, S)
    PROVE  \E iter : Running(f, p, S, iter)
  <1> DEFINE D(n) == {s \in SUBSET S : Numbered(s, n)}
             Step(h, n) == [s \in D(n) |-> IF s = {} THEN 0 ELSE f[p[s]] + h[s \ {p[s]}]]
             G == {n \in Nat : \E h : h = Step(h, n)}
  <1>1. 0 \in G
    <2> DEFINE h == [s \in D(0) |-> 0]
    <2>1. \A s \in D(0) : s = {}
      BY Zenon, NumberedNothing
    <2>2. h = Step(h, 0)
      BY <2>1
    <2> QED
      BY <2>2
  <1>2. ASSUME NEW n \in G PROVE n + 1 \in G
    <2>1. n \in Nat
      OBVIOUS
    <2>2. PICK h : h = Step(h, n)
      OBVIOUS
    <2> DEFINE k == Step(h, n + 1)
    <2>3. \A s \in D(n) : s \in D(n + 1)
      BY Zenon, <2>1, NumberedMore
    <2>4. ASSUME NEW s \in D(n + 1), s # {}
          PROVE  s \ {p[s]} \in D(n) /\ s \ {p[s]} \in D(n + 1)
      <3>1. s \in SUBSET S /\ Numbered(s, n + 1) /\ p[s] \in s
        BY Zenon, <2>4 DEF Choice
      <3>2. Numbered(s \ {p[s]}, n)
        BY Zenon, <2>1, <3>1, NumberedLess
      <3>3. s \ {p[s]} \in SUBSET S
        BY <3>1
      <3> QED
        BY Zenon, <2>3, <3>2, <3>3
    <2>5. \A s \in D(n) : h[s] = IF s = {} THEN 0 ELSE f[p[s]] + h[s \ {p[s]}]
      BY <2>2
    <2> HIDE DEF D
    <2>6. \A s \in D(n) : k[s] = h[s]
      BY <2>3, <2>5
    <2>7. \A s \in D(n + 1) : s # {} => k[s \ {p[s]}] = h[s \ {p[s]}]
      BY <2>4, <2>6
    <2>8. k = Step(k, n + 1)
      BY <2>7
    <2> HIDE DEF k, Step
    <2>9. n + 1 \in Nat
      BY <2>1
    <2> QED
      BY Zenon, <2>8, <2>9
  <1>3. G = Nat
    <2>1. G \in SUBSET Nat
      OBVIOUS
    <2> HIDE DEF G
    <2> QED
      BY Zenon, <1>1, <1>2, <2>1, NatSetInduction
  <1>4. PICK n \in Nat : Numbered(S, n)
    BY Zenon, FiniteNumbered
  <1>5. D(n) = SUBSET S
    BY Zenon, <1>4, NumberedPart
  <1>6. PICK h : h = Step(h, n)
    BY Zenon, <1>3
  <1> HIDE DEF D
  <1> QED
    BY Zenon, <1>5, <1>6 DEF Running

\* The partial sums over the subsets of S, each of which loses the element that
\* the definition of a sum picks.
Picked(s) == CHOOSE x \in s : TRUE
Partial(f, S, iter) ==
    iter = [s \in SUBSET S |-> IF s = {} THEN 0 ELSE f[Picked(s)] + iter[s \ {Picked(s)}]]

\* There is a function of the partial sums.
LEMMA PartialExists ==
    ASSUME Induction, NEW S, IsFiniteSet(S), NEW f
    PROVE  \E iter : Partial(f, S, iter)
  <1> DEFINE p == [s \in SUBSET S |-> Picked(s)]
  <1>1. \A s \in SUBSET S : p[s] = Picked(s) /\ (s # {} => Picked(s) \in s)
    BY DEF Picked
  <1> HIDE DEF p
  <1>2. Choice(p, S)
    BY Zenon, <1>1 DEF Choice
  <1>3. PICK iter : Running(f, p, S, iter)
    BY Zenon, <1>2, RunningExists
  <1>4. iter = [s \in SUBSET S |-> IF s = {} THEN 0 ELSE f[p[s]] + iter[s \ {p[s]}]]
    BY Zenon, <1>3 DEF Running
  <1>5. iter = [s \in SUBSET S |-> IF s = {} THEN 0 ELSE f[Picked(s)] + iter[s \ {Picked(s)}]]
    BY <1>1, <1>4
  <1> QED
    BY Zenon, <1>5 DEF Partial

\* A sum is the last partial sum.
LEMMA SumIsPartial ==
    ASSUME Induction, NEW S, IsFiniteSet(S), NEW f
    PROVE  \E iter : Partial(f, S, iter) /\ SumFunctionOnSet(f, S) = iter[S]
  <1> DEFINE it == CHOOSE iter : Partial(f, S, iter)
  <1>1. Partial(f, S, it)
    BY Zenon, PartialExists
  <1>2. SumFunctionOnSet(f, S) = it[S]
    BY Zenon DEF SumFunctionOnSet, FoldFunctionOnSet, MapThenFoldSet, Partial, Picked
  <1> QED
    BY Zenon, <1>1, <1>2

-----------------------------------------------------------------------------
\* Partial sums do not depend on the set in which they are formed.
LEMMA PartialSame ==
    ASSUME Induction, NEW S, NEW T \in SUBSET S, IsFiniteSet(T), NEW f, NEW g,
           \A x \in T : f[x] = g[x],
           NEW i, Partial(f, S, i), NEW j, Partial(g, T, j)
    PROVE  i[T] = j[T]
  <1> DEFINE G == {s \in SUBSET T : i[s] = j[s]}
  <1>1. \A s \in SUBSET T :
          /\ i[s] = IF s = {} THEN 0 ELSE f[Picked(s)] + i[s \ {Picked(s)}]
          /\ j[s] = IF s = {} THEN 0 ELSE g[Picked(s)] + j[s \ {Picked(s)}]
    BY DEF Partial
  <1>2. ASSUME NEW s \in SUBSET T, \A u \in SUBSET s : u # s => u \in G
        PROVE  s \in G
    <2>1. CASE s = {}
      BY <1>1, <2>1
    <2>2. CASE s # {}
      <3>1. Picked(s) \in s
        BY <2>2 DEF Picked
      <3>2. s \ {Picked(s)} \in G /\ f[Picked(s)] = g[Picked(s)]
        BY <1>2, <3>1
      <3> QED
        BY <1>1, <2>2, <3>2
    <2> QED
      BY <2>1, <2>2
  <1>3. T \in G
    <2>1. Hereditary(G, T)
      BY Zenon, <1>2 DEF Hereditary
    <2> HIDE DEF G
    <2> QED
      BY Zenon, <2>1, SubsetInduction
  <1> QED
    BY <1>3

\* The sums of two functions that agree on S are the same.
LEMMA SumSame ==
    ASSUME Induction, NEW S, IsFiniteSet(S), NEW f, NEW g, \A x \in S : f[x] = g[x]
    PROVE  SumFunctionOnSet(f, S) = SumFunctionOnSet(g, S)
  <1>1. PICK i : Partial(f, S, i) /\ SumFunctionOnSet(f, S) = i[S]
    BY Zenon, SumIsPartial
  <1>2. PICK j : Partial(g, S, j) /\ SumFunctionOnSet(g, S) = j[S]
    BY Zenon, SumIsPartial
  <1>3. i[S] = j[S]
    BY <1>1, <1>2, PartialSame
  <1> QED
    BY <1>1, <1>2, <1>3

\* The empty sum.
LEMMA SumEmpty ==
    ASSUME Induction, NEW f
    PROVE  SumFunctionOnSet(f, {}) = 0
  <1>1. PICK i : Partial(f, {}, i) /\ SumFunctionOnSet(f, {}) = i[{}]
    BY SumIsPartial, FiniteEmpty
  <1> QED
    BY <1>1 DEF Partial

\* Taking out the element that CHOOSE picks.
LEMMA SumPicked ==
    ASSUME Induction, NEW S, IsFiniteSet(S), S # {}, NEW f
    PROVE  Picked(S) \in S /\ SumFunctionOnSet(f, S) = f[Picked(S)] + SumFunctionOnSet(f, S \ {Picked(S)})
  <1> DEFINE T == S \ {Picked(S)}
  <1>1. PICK i : Partial(f, S, i) /\ SumFunctionOnSet(f, S) = i[S]
    BY Zenon, SumIsPartial
  <1>2. IsFiniteSet(T) /\ T \in SUBSET S
    BY FiniteSubset
  <1> HIDE DEF T
  <1>3. PICK j : Partial(f, T, j) /\ SumFunctionOnSet(f, T) = j[T]
    BY Zenon, <1>2, SumIsPartial
  <1>4. i[T] = j[T]
    BY <1>1, <1>2, <1>3, PartialSame
  <1>5. i[S] = f[Picked(S)] + i[T]
    BY <1>1 DEF Partial, T
  <1>6. Picked(S) \in S
    BY DEF Picked
  <1> QED
    BY <1>1, <1>3, <1>4, <1>5, <1>6 DEF T

\* A sum of integers is an integer.
LEMMA SumInt ==
    ASSUME Induction, NEW S, IsFiniteSet(S), NEW f, \A x \in S : f[x] \in Int
    PROVE  SumFunctionOnSet(f, S) \in Int
  <1> DEFINE G == {T \in SUBSET S : SumFunctionOnSet(f, T) \in Int}
  <1>1. ASSUME NEW T \in SUBSET S, \A U \in SUBSET T : U # T => U \in G
        PROVE  T \in G
    <2>1. CASE T = {}
      BY <2>1, SumEmpty
    <2>2. CASE T # {}
      <3>1. IsFiniteSet(T)
        BY FiniteSubset
      <3>2. Picked(T) \in T /\ SumFunctionOnSet(f, T) = f[Picked(T)] + SumFunctionOnSet(f, T \ {Picked(T)})
        BY Zenon, <2>2, <3>1, SumPicked
      <3>3. T \ {Picked(T)} \in G /\ f[Picked(T)] \in Int
        BY <1>1, <3>2
      <3> QED
        BY <3>2, <3>3
    <2> QED
      BY <2>1, <2>2
  <1>2. S \in G
    <2>1. Hereditary(G, S)
      BY Zenon, <1>1 DEF Hereditary
    <2> HIDE DEF G
    <2> QED
      BY Zenon, <2>1, SubsetInduction
  <1> QED
    BY <1>2

\* Any element may be taken out first.
LEMMA SumRemove ==
    ASSUME Induction, NEW S, IsFiniteSet(S), NEW f, \A x \in S : f[x] \in Int, NEW y \in S
    PROVE  SumFunctionOnSet(f, S) = f[y] + SumFunctionOnSet(f, S \ {y})
  <1> DEFINE Fine(T) == \A x \in T : SumFunctionOnSet(f, T) = f[x] + SumFunctionOnSet(f, T \ {x})
             G == {T \in SUBSET S : Fine(T)}
  <1>1. ASSUME NEW T \in SUBSET S, \A U \in SUBSET T : U # T => U \in G
        PROVE  T \in G
    <2> SUFFICES ASSUME NEW x \in T PROVE SumFunctionOnSet(f, T) = f[x] + SumFunctionOnSet(f, T \ {x})
      OBVIOUS
    <2> DEFINE p == Picked(T)
               U == T \ {p}
               V == T \ {x}
               W == U \ {x}
    <2>1. IsFiniteSet(T)
      BY FiniteSubset
    <2>2. p \in T /\ SumFunctionOnSet(f, T) = f[p] + SumFunctionOnSet(f, U)
      BY Zenon, <2>1, SumPicked
    <2> HIDE DEF p
    <2>3. CASE p = x
      BY <2>2, <2>3
    <2>4. CASE p # x
      <3>1. /\ U \in SUBSET T /\ U # T /\ x \in U
            /\ V \in SUBSET T /\ V # T /\ p \in V
            /\ V \ {p} = W /\ W \in SUBSET S
        BY <2>2, <2>4
      <3>2. U \in G /\ V \in G
        BY <1>1, <3>1
      <3>3. SumFunctionOnSet(f, U) = f[x] + SumFunctionOnSet(f, W) /\ SumFunctionOnSet(f, V) = f[p] + SumFunctionOnSet(f, W)
        BY <3>1, <3>2
      <3>4. f[x] \in Int /\ f[p] \in Int
        BY <2>2
      <3>5. SumFunctionOnSet(f, W) \in Int
        <4> HIDE DEF W
        <4>1. IsFiniteSet(W)
          BY <3>1, FiniteSubset
        <4> QED
          BY <3>1, <4>1, SumInt
      <3> HIDE DEF U, V, W
      <3> QED
        BY <2>2, <3>3, <3>4, <3>5 DEF V
    <2> QED
      BY <2>3, <2>4
  <1>2. S \in G
    <2>1. Hereditary(G, S)
      BY Zenon, <1>1 DEF Hereditary
    <2> HIDE DEF G
    <2> QED
      BY Zenon, <2>1, SubsetInduction
  <1> QED
    BY <1>2

\* One element more.
LEMMA SumAdd ==
    ASSUME Induction, NEW S, IsFiniteSet(S), NEW y, y \notin S, NEW f, \A x \in S \cup {y} : f[x] \in Int
    PROVE  SumFunctionOnSet(f, S \cup {y}) = f[y] + SumFunctionOnSet(f, S)
  <1>1. IsFiniteSet(S \cup {y}) /\ y \in S \cup {y}
    BY FiniteAdd
  <1>2. SumFunctionOnSet(f, S \cup {y}) = f[y] + SumFunctionOnSet(f, (S \cup {y}) \ {y})
    BY Zenon, <1>1, SumRemove
  <1>3. (S \cup {y}) \ {y} = S
    OBVIOUS
  <1> QED
    BY Zenon, <1>2, <1>3

\* A sum changes by what one summand changes.
LEMMA SumUpdate ==
    ASSUME Induction, NEW S, IsFiniteSet(S), NEW f, NEW g, \A x \in S : f[x] \in Int /\ g[x] \in Int,
           NEW y \in S, \A x \in S : x # y => g[x] = f[x]
    PROVE  SumFunctionOnSet(g, S) = SumFunctionOnSet(f, S) - f[y] + g[y]
  <1> DEFINE T == S \ {y}
  <1>1. IsFiniteSet(T) /\ \A x \in T : g[x] = f[x] /\ f[x] \in Int
    BY FiniteSubset
  <1>2. /\ SumFunctionOnSet(f, S) = f[y] + SumFunctionOnSet(f, T)
        /\ SumFunctionOnSet(g, S) = g[y] + SumFunctionOnSet(g, T)
    BY Zenon, SumRemove
  <1> HIDE DEF T
  <1>3. SumFunctionOnSet(g, T) = SumFunctionOnSet(f, T) /\ SumFunctionOnSet(f, T) \in Int
    BY Zenon, <1>1, SumSame, SumInt
  <1> QED
    BY <1>2, <1>3

\* A smaller function has a smaller sum.
LEMMA SumLeq ==
    ASSUME Induction, NEW S, IsFiniteSet(S), NEW f, NEW g,
           \A x \in S : f[x] \in Int /\ g[x] \in Int /\ f[x] <= g[x]
    PROVE  SumFunctionOnSet(f, S) <= SumFunctionOnSet(g, S)
  <1> DEFINE G == {T \in SUBSET S : SumFunctionOnSet(f, T) <= SumFunctionOnSet(g, T)}
  <1>1. ASSUME NEW T \in SUBSET S, \A U \in SUBSET T : U # T => U \in G
        PROVE  T \in G
    <2>1. CASE T = {}
      BY <2>1, SumEmpty
    <2>2. CASE T # {}
      <3> DEFINE p == Picked(T)
                 U == T \ {p}
      <3>1. IsFiniteSet(T)
        BY FiniteSubset
      <3>2. /\ p \in T
            /\ SumFunctionOnSet(f, T) = f[p] + SumFunctionOnSet(f, U)
            /\ SumFunctionOnSet(g, T) = g[p] + SumFunctionOnSet(g, U)
        BY Zenon, <2>2, <3>1, SumPicked
      <3> HIDE DEF p
      <3>3. U \in SUBSET T /\ U # T /\ IsFiniteSet(U)
        BY <3>1, <3>2, FiniteSubset
      <3>4. U \in G
        BY Zenon, <1>1, <3>3
      <3> HIDE DEF U
      <3>5. SumFunctionOnSet(f, U) \in Int /\ SumFunctionOnSet(g, U) \in Int
        BY <3>3, SumInt
      <3> QED
        BY <3>2, <3>4, <3>5
    <2> QED
      BY <2>1, <2>2
  <1>2. S \in G
    <2>1. Hereditary(G, S)
      BY Zenon, <1>1 DEF Hereditary
    <2> HIDE DEF G
    <2> QED
      BY Zenon, <2>1, SubsetInduction
  <1> QED
    BY <1>2

\* A set of summands and the rest.
LEMMA SumSplit ==
    ASSUME Induction, NEW S, IsFiniteSet(S), NEW f, \A x \in S : f[x] \in Int, NEW A \in SUBSET S
    PROVE  SumFunctionOnSet(f, S) = SumFunctionOnSet(f, A) + SumFunctionOnSet(f, S \ A)
  <1> DEFINE Both(T) == SumFunctionOnSet(f, T) = SumFunctionOnSet(f, T \cap A) + SumFunctionOnSet(f, T \ A)
             G == {T \in SUBSET S : Both(T)}
  <1>1. ASSUME NEW T \in SUBSET S, \A U \in SUBSET T : U # T => U \in G
        PROVE  T \in G
    <2>1. CASE T = {}
      <3>1. T \cap A = {} /\ T \ A = {}
        BY <2>1
      <3>2. SumFunctionOnSet(f, {}) = 0
        BY Zenon, SumEmpty
      <3> QED
        BY <2>1, <3>1, <3>2
    <2>2. CASE T # {}
      <3> DEFINE p == Picked(T)
                 U == T \ {p}
      <3>1. IsFiniteSet(T)
        BY FiniteSubset
      <3>2. p \in T /\ SumFunctionOnSet(f, T) = f[p] + SumFunctionOnSet(f, U)
        BY Zenon, <2>2, <3>1, SumPicked
      <3> HIDE DEF p
      <3>3. U \in SUBSET T /\ U # T /\ IsFiniteSet(U)
        BY <3>1, <3>2, FiniteSubset
      <3>4. U \in G
        BY Zenon, <1>1, <3>3
      <3> DEFINE Q == U \cap A
                 R == U \ A
      <3>5. IsFiniteSet(Q) /\ IsFiniteSet(R) /\ Q \in SUBSET S /\ R \in SUBSET S
        BY <3>3, FiniteSubset
      <3>6. SumFunctionOnSet(f, Q) \in Int /\ SumFunctionOnSet(f, R) \in Int /\ f[p] \in Int
        <4> HIDE DEF Q, R
        <4> QED
          BY <3>2, <3>5, SumInt
      <3>7. CASE p \in A
        <4>1. T \cap A = Q \cup {p} /\ T \ A = R /\ p \notin Q
          BY <3>2, <3>7
        <4>2. SumFunctionOnSet(f, Q \cup {p}) = f[p] + SumFunctionOnSet(f, Q)
          <5> HIDE DEF Q
          <5> QED
            BY <3>2, <3>5, <4>1, SumAdd
        <4>3. SumFunctionOnSet(f, U) = SumFunctionOnSet(f, Q) + SumFunctionOnSet(f, R)
          BY <3>4
        <4> HIDE DEF Q, R, U
        <4>4. /\ SumFunctionOnSet(f, T \cap A) = SumFunctionOnSet(f, Q \cup {p})
              /\ SumFunctionOnSet(f, T \ A) = SumFunctionOnSet(f, R)
          BY Zenon, <4>1
        <4>5. SumFunctionOnSet(f, T) = SumFunctionOnSet(f, T \cap A) + SumFunctionOnSet(f, T \ A)
          BY <3>2, <3>6, <4>2, <4>3, <4>4
        <4> QED
          BY <4>5
      <3>8. CASE p \notin A
        <4>1. T \ A = R \cup {p} /\ T \cap A = Q /\ p \notin R
          BY <3>2, <3>8
        <4>2. SumFunctionOnSet(f, R \cup {p}) = f[p] + SumFunctionOnSet(f, R)
          <5> HIDE DEF R
          <5> QED
            BY <3>2, <3>5, <4>1, SumAdd
        <4>3. SumFunctionOnSet(f, U) = SumFunctionOnSet(f, Q) + SumFunctionOnSet(f, R)
          BY <3>4
        <4> HIDE DEF Q, R, U
        <4>4. /\ SumFunctionOnSet(f, T \cap A) = SumFunctionOnSet(f, Q)
              /\ SumFunctionOnSet(f, T \ A) = SumFunctionOnSet(f, R \cup {p})
          BY Zenon, <4>1
        <4>5. SumFunctionOnSet(f, T) = SumFunctionOnSet(f, T \cap A) + SumFunctionOnSet(f, T \ A)
          BY <3>2, <3>6, <4>2, <4>3, <4>4
        <4> QED
          BY <4>5
      <3> QED
        BY <3>7, <3>8
    <2> QED
      BY <2>1, <2>2
  <1>2. S \in G
    <2>1. Hereditary(G, S)
      BY Zenon, <1>1 DEF Hereditary
    <2> HIDE DEF G
    <2> QED
      BY Zenon, <2>1, SubsetInduction
  <1>3. S \cap A = A
    OBVIOUS
  <1> QED
    BY <1>2, <1>3

\* A sum of natural numbers is natural, and no part of it exceeds it.
LEMMA SumNat ==
    ASSUME Induction, NEW S, IsFiniteSet(S), NEW f, \A x \in S : f[x] \in Nat
    PROVE  /\ SumFunctionOnSet(f, S) \in Nat
           /\ \A T \in SUBSET S : SumFunctionOnSet(f, T) \in Nat
                                /\ SumFunctionOnSet(f, T) <= SumFunctionOnSet(f, S)
           /\ \A x \in S : f[x] <= SumFunctionOnSet(f, S)
  <1>1. ASSUME NEW T, IsFiniteSet(T), \A x \in T : f[x] \in Nat
        PROVE  SumFunctionOnSet(f, T) \in Nat
    <2> DEFINE G == {U \in SUBSET T : SumFunctionOnSet(f, U) \in Nat}
    <2>1. ASSUME NEW U \in SUBSET T, \A V \in SUBSET U : V # U => V \in G
          PROVE  U \in G
      <3>1. CASE U = {}
        BY <3>1, SumEmpty
      <3>2. CASE U # {}
        <4>1. IsFiniteSet(U)
          BY <1>1, FiniteSubset
        <4>2. Picked(U) \in U /\ SumFunctionOnSet(f, U) = f[Picked(U)] + SumFunctionOnSet(f, U \ {Picked(U)})
          BY Zenon, <3>2, <4>1, SumPicked
        <4>3. U \ {Picked(U)} \in G /\ f[Picked(U)] \in Nat
          BY <1>1, <2>1, <4>2
        <4> QED
          BY <4>2, <4>3
      <3> QED
        BY <3>1, <3>2
    <2>2. T \in G
      <3>1. Hereditary(G, T)
        BY Zenon, <2>1 DEF Hereditary
      <3> HIDE DEF G
      <3> QED
        BY Zenon, <1>1, <3>1, SubsetInduction
    <2> QED
      BY <2>2
  <1>2. ASSUME NEW T \in SUBSET S
        PROVE  SumFunctionOnSet(f, T) \in Nat /\ SumFunctionOnSet(f, T) <= SumFunctionOnSet(f, S)
    <2>1. SumFunctionOnSet(f, S) = SumFunctionOnSet(f, T) + SumFunctionOnSet(f, S \ T)
      BY SumSplit
    <2>2. IsFiniteSet(T) /\ IsFiniteSet(S \ T)
      BY FiniteSubset
    <2>3. SumFunctionOnSet(f, T) \in Nat /\ SumFunctionOnSet(f, S \ T) \in Nat
      BY <1>1, <2>2
    <2> QED
      BY <2>1, <2>3
  <1>3. ASSUME NEW x \in S PROVE f[x] <= SumFunctionOnSet(f, S)
    <2>1. SumFunctionOnSet(f, S) = f[x] + SumFunctionOnSet(f, S \ {x})
      BY SumRemove
    <2>2. SumFunctionOnSet(f, S \ {x}) \in Nat
      BY <1>2
    <2> QED
      BY <2>1, <2>2
  <1> QED
    BY <1>1, <1>2, <1>3

-----------------------------------------------------------------------------
Ones(S) == [x \in S |-> 1]

Counting(S, iter) ==
    iter = [s \in SUBSET S |-> IF s = {} THEN 0 ELSE 1 + iter[s \ {CHOOSE x : x \in s}]]

\* The cardinality counts the elements one by one.
LEMMA CardinalityCounts ==
    ASSUME Induction, NEW S, IsFiniteSet(S)
    PROVE  \E iter : Counting(S, iter) /\ Cardinality(S) = iter[S]
  <1> DEFINE p == [s \in SUBSET S |-> CHOOSE x : x \in s]
             it == CHOOSE iter : Counting(S, iter)
  <1>1. \A s \in SUBSET S : p[s] = (CHOOSE x : x \in s) /\ (s # {} => p[s] \in s)
    OBVIOUS
  <1> HIDE DEF p
  <1>2. Choice(p, S)
    BY Zenon, <1>1 DEF Choice
  <1>3. PICK iter : Running(Ones(S), p, S, iter)
    BY Zenon, <1>2, RunningExists
  <1>4. iter = [s \in SUBSET S |-> IF s = {} THEN 0 ELSE Ones(S)[p[s]] + iter[s \ {p[s]}]]
    BY Zenon, <1>3 DEF Running
  <1>5. \A s \in SUBSET S : s # {} => Ones(S)[p[s]] = 1
    BY <1>1 DEF Ones
  <1>6. iter = [s \in SUBSET S |-> IF s = {} THEN 0 ELSE 1 + iter[s \ {p[s]}]]
    BY <1>4, <1>5
  <1>7. iter = [s \in SUBSET S |-> IF s = {} THEN 0 ELSE 1 + iter[s \ {CHOOSE x : x \in s}]]
    BY Zenon, <1>1, <1>6
  <1>8. Counting(S, it)
    <2>1. Counting(S, iter)
      BY Zenon, <1>7 DEF Counting
    <2> QED
      BY Zenon, <2>1
  <1>9. Cardinality(S) = it[S]
    BY Zenon DEF Cardinality, Counting
  <1> QED
    BY Zenon, <1>8, <1>9

\* The cardinality of a finite set is the sum of ones.
LEMMA CardinalityIsSum ==
    ASSUME Induction, NEW S, IsFiniteSet(S)
    PROVE  Cardinality(S) = SumFunctionOnSet(Ones(S), S)
  <1>1. PICK c : Counting(S, c) /\ Cardinality(S) = c[S]
    BY Zenon, CardinalityCounts
  <1> DEFINE f == Ones(S)
             G == {T \in SUBSET S : c[T] = SumFunctionOnSet(f, T)}
  <1>2. \A x \in S : f[x] = 1 /\ f[x] \in Int
    BY DEF Ones
  <1> HIDE DEF f
  <1>3. ASSUME NEW T \in SUBSET S, \A U \in SUBSET T : U # T => U \in G
        PROVE  T \in G
    <2>1. c[T] = IF T = {} THEN 0 ELSE 1 + c[T \ {CHOOSE x : x \in T}]
      BY <1>1 DEF Counting
    <2>2. CASE T = {}
      BY <2>1, <2>2, SumEmpty
    <2>3. CASE T # {}
      <3> DEFINE y == CHOOSE x : x \in T
                 U == T \ {y}
      <3>1. y \in T
        BY <2>3
      <3>2. c[T] = 1 + c[U]
        BY <2>1, <2>3
      <3>3. IsFiniteSet(T) /\ \A x \in T : f[x] \in Int
        BY Zenon, <1>2, FiniteSubset
      <3> HIDE DEF y
      <3>4. SumFunctionOnSet(f, T) = f[y] + SumFunctionOnSet(f, U)
        BY Zenon, <3>1, <3>3, SumRemove
      <3>5. U \in SUBSET T /\ U # T
        BY <3>1
      <3>6. c[U] = SumFunctionOnSet(f, U) /\ f[y] = 1
        BY Zenon, <1>2, <1>3, <3>1, <3>5
      <3>7. c[T] = SumFunctionOnSet(f, T)
        BY Zenon, <3>2, <3>4, <3>6
      <3> QED
        BY Zenon, <3>7
    <2> QED
      BY <2>2, <2>3
  <1>4. S \in G
    <2>1. Hereditary(G, S)
      BY Zenon, <1>3 DEF Hereditary
    <2> HIDE DEF G
    <2> QED
      BY Zenon, <2>1, SubsetInduction
  <1> QED
    BY Zenon, <1>1, <1>4 DEF f

\* The cardinality of a part of S is a sum over it.
LEMMA CardinalityOfPart ==
    ASSUME Induction, NEW S, IsFiniteSet(S), NEW T, T \subseteq S
    PROVE  Cardinality(T) = SumFunctionOnSet(Ones(S), T)
  <1>1. IsFiniteSet(T) /\ \A x \in T : Ones(T)[x] = Ones(S)[x]
    <2>1. \A x \in T : Ones(T)[x] = Ones(S)[x]
      BY DEF Ones
    <2> QED
      BY Zenon, <2>1, FiniteSubset
  <1>2. Cardinality(T) = SumFunctionOnSet(Ones(T), T)
    BY Zenon, <1>1, CardinalityIsSum
  <1>3. SumFunctionOnSet(Ones(T), T) = SumFunctionOnSet(Ones(S), T)
    BY Zenon, <1>1, SumSame
  <1> QED
    BY Zenon, <1>2, <1>3

\* The cardinality of a finite set is a natural number.
LEMMA CardinalityNat == ASSUME Induction, NEW S, IsFiniteSet(S) PROVE Cardinality(S) \in Nat
  <1>1. \A x \in S : Ones(S)[x] \in Nat
    BY DEF Ones
  <1>2. SumFunctionOnSet(Ones(S), S) \in Nat
    BY Zenon, <1>1, SumNat
  <1> QED
    BY Zenon, <1>2, CardinalityIsSum

\* Removing an element takes one off.
LEMMA CardinalityRemove ==
    ASSUME Induction, NEW S, IsFiniteSet(S), NEW x \in S
    PROVE  Cardinality(S \ {x}) = Cardinality(S) - 1
  <1> DEFINE T == S \ {x}
             f == Ones(S)
  <1>1. f[x] = 1 /\ \A y \in S : f[y] \in Int
    BY DEF Ones
  <1>2. T \subseteq S /\ S \subseteq S
    OBVIOUS
  <1>3. Cardinality(T) = SumFunctionOnSet(f, T) /\ Cardinality(S) = SumFunctionOnSet(f, S)
    BY Zenon, <1>2, CardinalityOfPart
  <1>4. SumFunctionOnSet(f, S) = f[x] + SumFunctionOnSet(f, T)
    BY Zenon, <1>1, SumRemove
  <1>5. IsFiniteSet(T)
    BY Zenon, <1>2, FiniteSubset
  <1>6. Cardinality(T) \in Nat /\ Cardinality(S) \in Nat
    BY Zenon, <1>5, CardinalityNat
  <1> HIDE DEF T, f
  <1>7. Cardinality(S) = 1 + Cardinality(T)
    BY Zenon, <1>1, <1>3, <1>4
  <1>8. Cardinality(T) = Cardinality(S) - 1
    BY <1>6, <1>7
  <1> QED
    BY <1>8 DEF T

\* Adding an element adds one.
LEMMA CardinalityAdd ==
    ASSUME Induction, NEW S, IsFiniteSet(S), NEW x, x \notin S
    PROVE  Cardinality(S \cup {x}) = Cardinality(S) + 1
  <1> DEFINE T == S \cup {x}
  <1>1. IsFiniteSet(T) /\ x \in T /\ T \ {x} = S
    BY FiniteAdd
  <1> HIDE DEF T
  <1>2. Cardinality(S) = Cardinality(T) - 1
    BY Zenon, <1>1, CardinalityRemove
  <1>3. Cardinality(T) \in Nat
    BY Zenon, <1>1, CardinalityNat
  <1> QED
    BY <1>2, <1>3 DEF T

\* The empty set has no elements.
LEMMA CardinalityEmpty == ASSUME Induction PROVE Cardinality({}) = 0
  <1>1. SumFunctionOnSet(Ones({}), {}) = 0
    BY Zenon, SumEmpty
  <1>2. Cardinality({}) = SumFunctionOnSet(Ones({}), {})
    BY Zenon, FiniteEmpty, CardinalityIsSum
  <1> QED
    BY Zenon, <1>1, <1>2

\* A part has fewer elements, unless it is the whole.
LEMMA CardinalitySplit ==
    ASSUME Induction, NEW S, IsFiniteSet(S), NEW T, T \subseteq S
    PROVE  Cardinality(S) = Cardinality(T) + Cardinality(S \ T)
  <1> DEFINE f == Ones(S)
  <1>1. T \in SUBSET S /\ T \subseteq S /\ S \ T \subseteq S /\ S \subseteq S /\ \A x \in S : f[x] \in Int
    BY DEF Ones
  <1> HIDE DEF f
  <1>2. SumFunctionOnSet(f, S) = SumFunctionOnSet(f, T) + SumFunctionOnSet(f, S \ T)
    BY Zenon, <1>1, SumSplit
  <1> USE DEF f
  <1>3. Cardinality(S) = SumFunctionOnSet(f, S)
    BY Zenon, <1>1, CardinalityOfPart
  <1>4. Cardinality(T) = SumFunctionOnSet(f, T)
    BY Zenon, <1>1, CardinalityOfPart
  <1>5. Cardinality(S \ T) = SumFunctionOnSet(f, S \ T)
    BY Zenon, <1>1, CardinalityOfPart
  <1> HIDE DEF f
  <1> QED
    BY Zenon, <1>2, <1>3, <1>4, <1>5

\* A set with an element has a positive cardinality.
LEMMA CardinalityPositive ==
    ASSUME Induction, NEW S, IsFiniteSet(S), S # {}
    PROVE  Cardinality(S) > 0
  <1>1. PICK x : x \in S
    OBVIOUS
  <1> DEFINE T == S \ {x}
  <1>2. Cardinality(T) = Cardinality(S) - 1
    BY Zenon, <1>1, CardinalityRemove
  <1>3. T \subseteq S
    OBVIOUS
  <1>4. Cardinality(T) \in Nat /\ Cardinality(S) \in Nat
    BY Zenon, <1>3, FiniteSubset, CardinalityNat
  <1> HIDE DEF T
  <1> QED
    BY <1>2, <1>4

\* A part of a finite set has no more elements.
LEMMA CardinalitySubset ==
    ASSUME Induction, NEW S, IsFiniteSet(S), NEW T, T \subseteq S
    PROVE  /\ IsFiniteSet(T) /\ Cardinality(T) \in Nat /\ Cardinality(S) \in Nat
           /\ Cardinality(T) <= Cardinality(S)
           /\ Cardinality(T) = Cardinality(S) => T = S
  <1> DEFINE U == S \ T
  <1>1. U \subseteq S
    OBVIOUS
  <1>2. IsFiniteSet(T) /\ IsFiniteSet(U)
    BY Zenon, <1>1, FiniteSubset
  <1>3. Cardinality(S) = Cardinality(T) + Cardinality(U)
    BY Zenon, CardinalitySplit
  <1>4. T # S => U # {}
    OBVIOUS
  <1> HIDE DEF U
  <1>5. Cardinality(T) \in Nat /\ Cardinality(U) \in Nat /\ Cardinality(S) \in Nat
    BY Zenon, <1>2, CardinalityNat
  <1>6. T # S => Cardinality(U) > 0
    BY Zenon, <1>2, <1>4, CardinalityPositive
  <1>7. Cardinality(T) <= Cardinality(S) /\ (Cardinality(T) = Cardinality(S) => T = S)
    BY <1>3, <1>5, <1>6
  <1> QED
    BY Zenon, <1>2, <1>5, <1>7

\* The numbers from 1 to n.
LEMMA CardinalityInterval ==
    ASSUME Induction, NEW n \in Nat
    PROVE  IsFiniteSet(1 .. n) /\ Cardinality(1 .. n) = n
  <1> DEFINE G == {m \in Nat : Cardinality(1 .. m) = m}
  <1>1. 0 \in G
    <2>1. 1 .. 0 = {}
      OBVIOUS
    <2>2. Cardinality(1 .. 0) = 0
      BY Zenon, <2>1, CardinalityEmpty
    <2> QED
      BY <2>2
  <1>2. ASSUME NEW m \in G PROVE m + 1 \in G
    <2>1. m \in Nat /\ m + 1 \in Nat /\ Cardinality(1 .. m) = m
      OBVIOUS
    <2>2. 1 .. (m + 1) = (1 .. m) \cup {m + 1} /\ m + 1 \notin 1 .. m /\ 1 \in Int /\ m \in Int
      BY <2>1
    <2>3. IsFiniteSet(1 .. m)
      BY Zenon, <2>2, FiniteInterval
    <2>4. Cardinality((1 .. m) \cup {m + 1}) = Cardinality(1 .. m) + 1
      BY Zenon, <2>2, <2>3, CardinalityAdd
    <2>5. Cardinality(1 .. (m + 1)) = m + 1
      BY Zenon, <2>1, <2>2, <2>4
    <2> QED
      BY Zenon, <2>1, <2>5
  <1>3. G = Nat
    <2>1. G \in SUBSET Nat
      OBVIOUS
    <2> HIDE DEF G
    <2> QED
      BY Zenon, <1>1, <1>2, <2>1, NatSetInduction
  <1>4. 1 \in Int /\ n \in Int
    OBVIOUS
  <1>5. IsFiniteSet(1 .. n)
    BY Zenon, <1>4, FiniteInterval
  <1>6. Cardinality(1 .. n) = n
    BY Zenon, <1>3
  <1> QED
    BY Zenon, <1>5, <1>6

\* Clearing some of the summands takes their sum away.
LEMMA SumCleared ==
    ASSUME Induction, NEW S, IsFiniteSet(S), NEW f, NEW g, \A x \in S : f[x] \in Int,
           NEW E \in SUBSET S, \A x \in S : g[x] = IF x \in E THEN 0 ELSE f[x]
    PROVE  SumFunctionOnSet(g, S) = SumFunctionOnSet(f, S) - SumFunctionOnSet(f, E)
  <1> DEFINE R == S \ E
  <1>1. IsFiniteSet(E) /\ IsFiniteSet(R)
    BY FiniteSubset
  <1>2. /\ SumFunctionOnSet(f, S) = SumFunctionOnSet(f, E) + SumFunctionOnSet(f, R)
        /\ SumFunctionOnSet(g, S) = SumFunctionOnSet(g, E) + SumFunctionOnSet(g, R)
    BY SumSplit
  <1>3. SumFunctionOnSet(g, R) = SumFunctionOnSet(f, R)
    BY <1>1, SumSame
  <1>4. SumFunctionOnSet(g, E) = 0
    <2> DEFINE G == {T \in SUBSET E : SumFunctionOnSet(g, T) = 0}
    <2>1. ASSUME NEW T \in SUBSET E, \A U \in SUBSET T : U # T => U \in G
          PROVE  T \in G
      <3>1. CASE T = {}
        BY <3>1, SumEmpty
      <3>2. CASE T # {}
        <4>1. IsFiniteSet(T)
          BY <1>1, FiniteSubset
        <4>2. Picked(T) \in T /\ SumFunctionOnSet(g, T) = g[Picked(T)] + SumFunctionOnSet(g, T \ {Picked(T)})
          BY Zenon, <3>2, <4>1, SumPicked
        <4>3. T \ {Picked(T)} \in G /\ g[Picked(T)] = 0
          BY <2>1, <4>2
        <4> QED
          BY <4>2, <4>3
      <3> QED
        BY <3>1, <3>2
    <2>2. E \in G
      <3>1. Hereditary(G, E)
        BY Zenon, <2>1 DEF Hereditary
      <3> HIDE DEF G
      <3> QED
        BY Zenon, <1>1, <3>1, SubsetInduction
    <2> QED
      BY <2>2
  <1>5. SumFunctionOnSet(f, E) \in Int /\ SumFunctionOnSet(f, R) \in Int
    <2> HIDE DEF R
    <2>1. R \subseteq S
      BY DEF R
    <2> QED
      BY <1>1, <2>1, SumInt
  <1> HIDE DEF R
  <1> QED
    BY <1>2, <1>3, <1>4, <1>5

\* The sum over a part is the sum of what is left when the rest counts nothing.
LEMMA SumMasked ==
    ASSUME Induction, NEW S, IsFiniteSet(S), NEW f, NEW g, \A x \in S : f[x] \in Int,
           NEW A \in SUBSET S, \A x \in S : g[x] = IF x \in A THEN f[x] ELSE 0
    PROVE  SumFunctionOnSet(g, S) = SumFunctionOnSet(f, A)
  <1> DEFINE E == S \ A
  <1>1. E \in SUBSET S /\ \A x \in S : g[x] = IF x \in E THEN 0 ELSE f[x]
    OBVIOUS
  <1>2. SumFunctionOnSet(f, S) = SumFunctionOnSet(f, A) + SumFunctionOnSet(f, E)
    BY SumSplit
  <1>3. IsFiniteSet(A) /\ IsFiniteSet(E) /\ \A x \in A : f[x] \in Int
    BY FiniteSubset
  <1>4. \A x \in E : f[x] \in Int
    OBVIOUS
  <1> HIDE DEF E
  <1>5. SumFunctionOnSet(g, S) = SumFunctionOnSet(f, S) - SumFunctionOnSet(f, E)
    BY <1>1, SumCleared
  <1>6. SumFunctionOnSet(f, A) \in Int /\ SumFunctionOnSet(f, E) \in Int
    BY Zenon, <1>3, <1>4, SumInt
  <1> QED
    BY <1>2, <1>5, <1>6

\* Sums of natural numbers grow with the set.
LEMMA SumPart ==
    ASSUME Induction, NEW S, IsFiniteSet(S), NEW f, \A x \in S : f[x] \in Nat, NEW A \in SUBSET S
    PROVE  SumFunctionOnSet(f, A) \in Nat /\ SumFunctionOnSet(f, A) <= SumFunctionOnSet(f, S)
  <1> DEFINE R == S \ A
  <1>1. \A x \in S : f[x] \in Int
    OBVIOUS
  <1>2. SumFunctionOnSet(f, S) = SumFunctionOnSet(f, A) + SumFunctionOnSet(f, R)
    BY Zenon, <1>1, SumSplit
  <1>3. R \in SUBSET S
    OBVIOUS
  <1> HIDE DEF R
  <1>4. SumFunctionOnSet(f, A) \in Nat /\ SumFunctionOnSet(f, R) \in Nat
    BY Zenon, <1>3, SumNat
  <1> QED
    BY <1>2, <1>4

\* The sum of a sum of two functions.
LEMMA SumPlus ==
    ASSUME Induction, NEW S, IsFiniteSet(S), NEW f, NEW g, NEW h,
           \A x \in S : f[x] \in Int /\ g[x] \in Int /\ h[x] = f[x] + g[x]
    PROVE  SumFunctionOnSet(h, S) = SumFunctionOnSet(f, S) + SumFunctionOnSet(g, S)
  <1> DEFINE G == {T \in SUBSET S : SumFunctionOnSet(h, T) = SumFunctionOnSet(f, T) + SumFunctionOnSet(g, T)}
  <1>1. ASSUME NEW T \in SUBSET S, \A U \in SUBSET T : U # T => U \in G
        PROVE  T \in G
    <2>1. CASE T = {}
      BY <2>1, SumEmpty
    <2>2. CASE T # {}
      <3> DEFINE p == Picked(T)
                 U == T \ {p}
      <3>1. IsFiniteSet(T)
        BY FiniteSubset
      <3>2. /\ p \in T
            /\ SumFunctionOnSet(f, T) = f[p] + SumFunctionOnSet(f, U)
            /\ SumFunctionOnSet(g, T) = g[p] + SumFunctionOnSet(g, U)
            /\ SumFunctionOnSet(h, T) = h[p] + SumFunctionOnSet(h, U)
        BY Zenon, <2>2, <3>1, SumPicked
      <3> HIDE DEF p
      <3>3. U \in SUBSET T /\ U # T /\ IsFiniteSet(U)
        BY <3>1, <3>2, FiniteSubset
      <3>4. U \in G
        BY Zenon, <1>1, <3>3
      <3>5. SumFunctionOnSet(h, U) = SumFunctionOnSet(f, U) + SumFunctionOnSet(g, U)
        BY <3>4
      <3>6. p \in S
        BY <3>2
      <3> HIDE DEF U, G
      <3>7. SumFunctionOnSet(f, U) \in Int /\ SumFunctionOnSet(g, U) \in Int
        BY <3>3, SumInt
      <3>8. SumFunctionOnSet(h, T) = SumFunctionOnSet(f, T) + SumFunctionOnSet(g, T)
        BY <3>2, <3>5, <3>6, <3>7
      <3> QED
        BY <3>8 DEF G
    <2> QED
      BY <2>1, <2>2
  <1>2. S \in G
    <2>1. Hereditary(G, S)
      BY Zenon, <1>1 DEF Hereditary
    <2> HIDE DEF G
    <2> QED
      BY Zenon, <2>1, SubsetInduction
  <1> QED
    BY <1>2

\* The sum of a constant.
LEMMA SumConstant ==
    ASSUME Induction, NEW S, IsFiniteSet(S), NEW f, NEW c \in Int, \A x \in S : f[x] = c
    PROVE  SumFunctionOnSet(f, S) = c * Cardinality(S)
  <1> DEFINE G == {T \in SUBSET S : SumFunctionOnSet(f, T) = c * Cardinality(T)}
  <1>1. ASSUME NEW T \in SUBSET S, \A U \in SUBSET T : U # T => U \in G
        PROVE  T \in G
    <2>1. CASE T = {}
      <3>1. Cardinality({}) = 0 /\ SumFunctionOnSet(f, {}) = 0 /\ c * 0 = 0
        BY SumEmpty, CardinalityEmpty
      <3> QED
        BY <2>1, <3>1
    <2>2. CASE T # {}
      <3> DEFINE p == Picked(T)
                 U == T \ {p}
      <3>1. IsFiniteSet(T)
        BY FiniteSubset
      <3>2. p \in T /\ SumFunctionOnSet(f, T) = f[p] + SumFunctionOnSet(f, U)
        BY Zenon, <2>2, <3>1, SumPicked
      <3> HIDE DEF p
      <3>3. U \in SUBSET T /\ U # T
        BY <3>1, <3>2
      <3>4. U \in G
        BY Zenon, <1>1, <3>3
      <3>5. SumFunctionOnSet(f, U) = c * Cardinality(U) /\ f[p] = c
        BY <3>2, <3>4
      <3> HIDE DEF U, G
      <3>6. Cardinality(T) \in Nat /\ Cardinality(U) = Cardinality(T) - 1
        BY <3>1, <3>2, CardinalityNat, CardinalityRemove DEF U
      <3>7. \A n \in Nat : c + c * (n - 1) = c * n
        BY SMT
      <3>8. SumFunctionOnSet(f, T) = c + c * (Cardinality(T) - 1)
        BY Zenon, <3>2, <3>5, <3>6
      <3>9. SumFunctionOnSet(f, T) = c * Cardinality(T)
        BY Zenon, <3>6, <3>7, <3>8
      <3> QED
        BY <3>9 DEF G
    <2> QED
      BY <2>1, <2>2
  <1>2. S \in G
    <2>1. Hereditary(G, S)
      BY Zenon, <1>1 DEF Hereditary
    <2> HIDE DEF G
    <2> QED
      BY Zenon, <2>1, SubsetInduction
  <1> QED
    BY <1>2

\* g gives every key of A the sum of f over the elements of S with that key.
Keyed(g, A, f, S, key) ==
    \A a \in A : g[a] = SumFunctionOnSet(f, {x \in S : key[x] = a})

SameTotal(g, A, f, S) == SumFunctionOnSet(g, A) = SumFunctionOnSet(f, S)

\* Summing by key: the sums over the elements with each of the keys add up.
LEMMA SumByKey ==
    ASSUME Induction, NEW S, IsFiniteSet(S), NEW f, \A x \in S : f[x] \in Int,
           NEW A, IsFiniteSet(A), NEW key \in [S -> A],
           NEW g, Keyed(g, A, f, S, key)
    PROVE  SameTotal(g, A, f, S)
  <1> DEFINE Of(T) == {x \in S : key[x] \in T}
             G == {T \in SUBSET A : SumFunctionOnSet(g, T) = SumFunctionOnSet(f, Of(T))}
  <1>1. ASSUME NEW T \in SUBSET A, \A U \in SUBSET T : U # T => U \in G
        PROVE  T \in G
    <2>1. CASE T = {}
      <3>1. Of(T) = {}
        BY <2>1
      <3>2. SumFunctionOnSet(g, {}) = 0 /\ SumFunctionOnSet(f, {}) = 0
        BY Zenon, SumEmpty
      <3> QED
        BY <2>1, <3>1, <3>2
    <2>2. CASE T # {}
      <3> DEFINE p == Picked(T)
                 U == T \ {p}
                 V == Of(T)
                 W == {x \in S : key[x] = p}
      <3>1. IsFiniteSet(T)
        BY FiniteSubset
      <3>2. p \in T /\ SumFunctionOnSet(g, T) = g[p] + SumFunctionOnSet(g, U)
        BY Zenon, <2>2, <3>1, SumPicked
      <3> HIDE DEF p
      <3>3. U \in SUBSET T /\ U # T /\ p \in A
        BY <3>1, <3>2
      <3>4. U \in G
        BY Zenon, <1>1, <3>3
      <3>5. SumFunctionOnSet(g, U) = SumFunctionOnSet(f, Of(U)) /\ g[p] = SumFunctionOnSet(f, W)
        BY <3>3, <3>4 DEF Keyed
      <3>6. W \in SUBSET V /\ V \ W = Of(U) /\ V \in SUBSET S
        BY <3>2
      <3>7. IsFiniteSet(V) /\ \A x \in V : f[x] \in Int
        BY <3>6, FiniteSubset
      <3> HIDE DEF U, G, V, W, Of
      <3>8. SumFunctionOnSet(f, V) = SumFunctionOnSet(f, W) + SumFunctionOnSet(f, V \ W)
        <4>1. W \in SUBSET V
          BY Zenon, <3>6
        <4> QED
          BY Zenon, <3>7, <4>1, SumSplit
      <3>9. SumFunctionOnSet(g, T) = SumFunctionOnSet(f, Of(T))
        BY Zenon, <3>2, <3>5, <3>6, <3>8 DEF V
      <3> QED
        BY <3>9 DEF G
    <2> QED
      BY <2>1, <2>2
  <1>2. A \in G
    <2>1. Hereditary(G, A)
      BY Zenon, <1>1 DEF Hereditary
    <2> HIDE DEF G
    <2> QED
      BY Zenon, <2>1, SubsetInduction
  <1>3. Of(A) = S
    OBVIOUS
  <1> QED
    BY <1>2, <1>3 DEF SameTotal

\* A finite set of integers has a greatest element.
LEMMA FiniteMax ==
    ASSUME Induction, NEW S, IsFiniteSet(S), S # {}, S \subseteq Int
    PROVE  \E x \in S : \A y \in S : x >= y
  <1> DEFINE Top(T) == \E x \in T : \A y \in T : x >= y
             G == {T \in SUBSET S : T # {} => Top(T)}
  <1>1. ASSUME NEW T \in SUBSET S, \A U \in SUBSET T : U # T => U \in G
        PROVE  T \in G
    <2> SUFFICES ASSUME NEW e \in T PROVE Top(T)
      OBVIOUS
    <2> DEFINE U == T \ {e}
    <2>1. U \in G /\ e \in Int
      BY <1>1
    <2>2. CASE U = {}
      <3>1. \A y \in T : y = e
        BY <2>2
      <3> QED
        BY <2>1, <3>1
    <2>3. CASE U # {}
      <3>1. PICK x \in U : \A y \in U : x >= y
        BY <2>1, <2>3
      <3>2. x \in Int /\ \A y \in T : y \in Int /\ (y = e \/ y \in U)
        BY <3>1
      <3>3. CASE x >= e
        <4>1. \A y \in T : x >= y
          BY <3>1, <3>2, <3>3
        <4> QED
          BY <4>1
      <3>4. CASE ~(x >= e)
        <4>1. \A y \in T : e >= y
          BY <2>1, <3>1, <3>2, <3>4
        <4> QED
          BY <4>1
      <3> QED
        BY <3>3, <3>4
    <2> QED
      BY <2>2, <2>3
  <1>2. S \in G
    <2>1. Hereditary(G, S)
      BY Zenon, <1>1 DEF Hereditary
    <2> HIDE DEF G
    <2> QED
      BY Zenon, <2>1, SubsetInduction
  <1> QED
    BY <1>2

\* The sum of the multiples.
LEMMA SumScale ==
    ASSUME Induction, NEW S, IsFiniteSet(S), NEW f, NEW g, NEW c \in Int,
           \A x \in S : f[x] \in Int /\ g[x] = c * f[x]
    PROVE  SumFunctionOnSet(g, S) = c * SumFunctionOnSet(f, S)
  <1> DEFINE G == {T \in SUBSET S : SumFunctionOnSet(g, T) = c * SumFunctionOnSet(f, T)}
  <1>0. \A m \in Int, n \in Int : c * 0 = 0 /\ c * m + c * n = c * (m + n)
    BY SMT
  <1>1. ASSUME NEW T \in SUBSET S, \A U \in SUBSET T : U # T => U \in G
        PROVE  T \in G
    <2>1. CASE T = {}
      <3>1. SumFunctionOnSet(f, {}) = 0 /\ SumFunctionOnSet(g, {}) = 0 /\ c * 0 = 0
        BY <1>0, SumEmpty
      <3> QED
        BY Zenon, <2>1, <3>1
    <2>2. CASE T # {}
      <3> DEFINE p == Picked(T)
                 U == T \ {p}
      <3>1. IsFiniteSet(T)
        BY FiniteSubset
      <3>2. /\ p \in T /\ SumFunctionOnSet(f, T) = f[p] + SumFunctionOnSet(f, U)
            /\ SumFunctionOnSet(g, T) = g[p] + SumFunctionOnSet(g, U)
        BY Zenon, <2>2, <3>1, SumPicked
      <3> HIDE DEF p
      <3>3. U \in SUBSET T /\ U # T /\ IsFiniteSet(U) /\ \A x \in U : f[x] \in Int
        BY <3>1, <3>2, FiniteSubset
      <3>4. U \in G
        BY Zenon, <1>1, <3>3
      <3>5. SumFunctionOnSet(g, U) = c * SumFunctionOnSet(f, U) /\ g[p] = c * f[p] /\ f[p] \in Int
        BY <3>2, <3>4
      <3> HIDE DEF U, G
      <3>6. SumFunctionOnSet(f, U) \in Int
        BY Zenon, <3>3, SumInt
      <3>7. SumFunctionOnSet(g, T) = c * f[p] + c * SumFunctionOnSet(f, U)
        BY Zenon, <3>2, <3>5
      <3>8. SumFunctionOnSet(g, T) = c * SumFunctionOnSet(f, T)
        BY Zenon, <1>0, <3>2, <3>5, <3>6, <3>7
      <3> QED
        BY <3>8 DEF G
    <2> QED
      BY <2>1, <2>2
  <1>2. S \in G
    <2>1. Hereditary(G, S)
      BY Zenon, <1>1 DEF Hereditary
    <2> HIDE DEF G
    <2> QED
      BY Zenon, <2>1, SubsetInduction
  <1> QED
    BY <1>2

=============================================================================
