----------------------------- MODULE Foundations -----------------------------
(***************************************************************************)
(* What several of the proofs need of numbers, finite sets and sequences:  *)
(* induction with a set in place of a predicate, so that the provers can   *)
(* use it (the statement to be proved of n is n \in {k \in Nat : ...}), a  *)
(* loop of a known number of rounds, the sum over a finite set that        *)
(* MapThenSumSet computes, and the elements at a set of indexes.           *)
(***************************************************************************)
EXTENDS Integers, Sequences, FiniteSets, IndexedSequences, FiniteSetTheorems,
        WellFoundedInduction, TLAPS

\* A set of numbers that is not empty has a smallest member.
LEMMA Smallest ==
  ASSUME NEW S \in SUBSET Nat, S # {}
  PROVE  \E m \in S : \A k \in S : m <= k
<1> DEFINE R == OpToRel(<, Nat)
<1>1. IsWellFoundedOn(R, Nat)
  BY NatLessThanWellFounded
<1>2. \A x, y \in Nat : <<y, x>> \in R <=> y < x
  BY DEF OpToRel
<1> HIDE DEF R
<1>3. S \subseteq Nat
  OBVIOUS
<1>4. PICK m \in S : \A k \in S : ~(<<k, m>> \in R)
  BY <1>1, <1>3, WFMin
<1>5. ASSUME NEW k \in S PROVE m <= k
  <2>1. m \in Nat /\ k \in Nat /\ ~(k < m)
    BY <1>2, <1>4
  <2> QED BY <2>1
<1> QED BY <1>5

\* A set of numbers that holds 0 and the successor of each of its members holds
\* all of them.
LEMMA Induction ==
  ASSUME NEW S \in SUBSET Nat, 0 \in S, \A n \in S : n + 1 \in S
  PROVE  S = Nat
<1> SUFFICES ASSUME Nat \ S # {} PROVE FALSE
  OBVIOUS
<1> DEFINE T == Nat \ S
<1>1. T \in SUBSET Nat /\ T # {}
  OBVIOUS
<1> HIDE DEF T
<1>2. PICK m \in T : \A k \in T : m <= k
  BY <1>1, Smallest
<1>3. m \in Nat /\ m # 0
  BY <1>1 DEF T
<1>4. m - 1 \in Nat /\ ~(m <= m - 1)
  BY <1>3
<1>5. m - 1 \in S
  BY <1>2, <1>4 DEF T
<1>6. (m - 1) + 1 = m
  BY <1>3
<1> QED BY <1>2, <1>5, <1>6 DEF T

-----------------------------------------------------------------------------
(* The sums of g over the subsets of a finite set.                         *)

Pick(s) == CHOOSE x \in s : TRUE

\* One round of the fold: the sum of g over s from the sums over smaller sets.
Round(g, f, s) == IF s = {} THEN 0 ELSE g[Pick(s)] + f[s \ {Pick(s)}]

\* f holds the sums of g over the sets in D.
HoldsSums(f, g, D) == f = [s \in D |-> Round(g, f, s)]

\* The function the fold is defined by.
Sums(g, S) == CHOOSE f : HoldsSums(f, g, SUBSET S)

\* The subsets of S with at most n elements.
Upto(S, n) == {s \in SUBSET S : Cardinality(s) <= n}

\* What Pick leaves of a set has one element less.
LEMMA PickSmaller ==
    ASSUME NEW S, IsFiniteSet(S), NEW n \in Nat, NEW s \in Upto(S, n + 1), s # {}
    PROVE  Pick(s) \in s /\ s \ {Pick(s)} \in Upto(S, n)
<1>1. Pick(s) \in s
  BY DEF Pick
<1>2. s \in SUBSET S /\ IsFiniteSet(s) /\ Cardinality(s) <= n + 1
  BY FS_Subset DEF Upto
<1>3. Cardinality(s \ {Pick(s)}) = Cardinality(s) - 1 /\ Cardinality(s) \in Nat
  BY <1>1, <1>2, FS_RemoveElement, FS_CardinalityType
<1> QED BY <1>1, <1>2, <1>3 DEF Upto

\* The sums over the sets of at most n elements exist, for every n.
LEMMA SumsUpto ==
    ASSUME NEW S, IsFiniteSet(S), NEW g, NEW n \in Nat
    PROVE  \E f : HoldsSums(f, g, Upto(S, n))
<1> DEFINE Exists(k) == \E f : HoldsSums(f, g, Upto(S, k))
           T == {k \in Nat : Exists(k)}
<1>1. Exists(0)
  <2> DEFINE f == [s \in Upto(S, 0) |-> 0]
  <2>1. ASSUME NEW s \in Upto(S, 0) PROVE s = {}
    <3>1. IsFiniteSet(s) /\ Cardinality(s) <= 0
      BY FS_Subset DEF Upto
    <3>2. Cardinality(s) \in Nat
      BY <3>1, FS_CardinalityType
    <3>3. Cardinality(s) = 0
      BY <3>1, <3>2
    <3> QED BY <3>1, <3>3, FS_EmptySet
  <2>2. HoldsSums(f, g, Upto(S, 0))
    BY <2>1 DEF Round, HoldsSums
  <2> QED BY <2>2
<1>2. ASSUME NEW k \in Nat, Exists(k) PROVE Exists(k + 1)
  <2>1. PICK f : f = [s \in Upto(S, k) |-> Round(g, f, s)]
    BY <1>2, Zenon DEF HoldsSums
  <2> DEFINE h == [s \in Upto(S, k + 1) |-> Round(g, f, s)]
  <2>2. Upto(S, k) \subseteq Upto(S, k + 1)
    <3> SUFFICES ASSUME NEW s \in Upto(S, k) PROVE s \in Upto(S, k + 1)
      OBVIOUS
    <3>1. s \in SUBSET S /\ IsFiniteSet(s) /\ Cardinality(s) <= k
      BY FS_Subset DEF Upto
    <3>2. Cardinality(s) \in Nat
      BY <3>1, FS_CardinalityType
    <3> QED BY <3>1, <3>2 DEF Upto
  <2>3. \A s \in Upto(S, k) : h[s] = f[s]
    BY <2>1, <2>2
  <2>4. ASSUME NEW s \in Upto(S, k + 1) PROVE Round(g, f, s) = Round(g, h, s)
    <3>1. CASE s = {}
      BY <3>1 DEF Round
    <3>2. CASE s # {}
      <4>1. s \ {Pick(s)} \in Upto(S, k)
        BY <3>2, PickSmaller
      <4>2. h[s \ {Pick(s)}] = f[s \ {Pick(s)}]
        BY <2>3, <4>1
      <4> HIDE DEF h
      <4> QED BY <3>2, <4>2 DEF Round
    <3> QED BY <3>1, <3>2
  <2>5. HoldsSums(h, g, Upto(S, k + 1))
    BY <2>4, Zenon DEF HoldsSums
  <2> HIDE DEF h
  <2> QED BY <2>5
<1> HIDE DEF Exists
<1>3. T = Nat
  <2>1. T \in SUBSET Nat /\ 0 \in T /\ \A k \in T : k + 1 \in T
    BY <1>1, <1>2
  <2> HIDE DEF T
  <2> QED BY <2>1, Induction
<1>4. Exists(n)
  BY <1>3
<1> QED BY <1>4 DEF Exists

\* So the function of the fold is what its definition says.
LEMMA SumsRound ==
    ASSUME NEW S, IsFiniteSet(S), NEW g
    PROVE  \A s \in SUBSET S : Sums(g, S)[s] = Round(g, Sums(g, S), s)
<1>1. Cardinality(S) \in Nat
  BY FS_CardinalityType
<1>2. Upto(S, Cardinality(S)) = SUBSET S
  BY FS_Subset DEF Upto
<1>3. \E f : HoldsSums(f, g, SUBSET S)
  BY <1>1, <1>2, SumsUpto
<1>4. Sums(g, S) = [s \in SUBSET S |-> Round(g, Sums(g, S), s)]
  BY <1>3, Zenon DEF Sums, HoldsSums
<1> QED BY <1>4

\* The sum of numbers that are not negative is positive exactly if one of them is.
LEMMA SumPositive ==
    ASSUME NEW S, IsFiniteSet(S), NEW g \in [S -> Nat]
    PROVE  Sums(g, S)[S] > 0 <=> \E x \in S : g[x] > 0
<1> DEFINE f == Sums(g, S)
           Right(s) == f[s] \in Nat /\ (f[s] > 0 <=> \E x \in s : g[x] > 0)
           T == {n \in Nat : \A s \in Upto(S, n) : Right(s)}
<1>1. \A s \in SUBSET S : f[s] = Round(g, f, s)
  BY SumsRound
<1> HIDE DEF f
<1>2. f[{}] = 0
  BY <1>1 DEF Round
<1>3. Right({})
  BY <1>2
<1>4. 0 \in T
  <2> SUFFICES ASSUME NEW s \in Upto(S, 0) PROVE s = {}
    BY <1>3
  <2>1. IsFiniteSet(s) /\ Cardinality(s) <= 0
    BY FS_Subset DEF Upto
  <2>2. Cardinality(s) \in Nat
    BY <2>1, FS_CardinalityType
  <2>3. Cardinality(s) = 0
    BY <2>1, <2>2
  <2> QED BY <2>1, <2>3, FS_EmptySet
<1>5. ASSUME NEW n \in Nat, n \in T PROVE n + 1 \in T
  <2> SUFFICES ASSUME NEW s \in Upto(S, n + 1), s # {} PROVE Right(s)
    <3> HIDE DEF Right
    <3> QED BY <1>3
  <2> DEFINE x == Pick(s)
             r == s \ {x}
  <2>1. x \in s /\ r \in Upto(S, n)
    BY PickSmaller
  <2>2. s \in SUBSET S
    BY DEF Upto
  <2>3. f[s] = g[x] + f[r]
    BY <1>1, <2>2 DEF Round
  <2>4. Right(r)
    BY <1>5, <2>1
  <2> HIDE DEF x
  <2>5. g[x] \in Nat /\ f[r] \in Nat /\ \A y \in s : g[y] \in Nat
    BY <2>1, <2>2, <2>4
  <2>6. (\E y \in s : g[y] > 0) <=> (g[x] > 0 \/ \E y \in r : g[y] > 0)
    BY <2>1
  <2> HIDE DEF r
  <2> QED BY <2>3, <2>4, <2>5, <2>6
<1>6. T = Nat
  <2>1. T \in SUBSET Nat
    OBVIOUS
  <2> HIDE DEF T
  <2> QED BY <1>4, <1>5, <2>1, Induction
<1>7. Cardinality(S) \in Nat
  BY FS_CardinalityType
<1>8. S \in Upto(S, Cardinality(S))
  BY <1>7 DEF Upto
<1>9. Right(S)
  <2> HIDE DEF Right
  <2> QED BY <1>6, <1>7, <1>8
<1> QED BY <1>9 DEF f

\* The sums of whole numbers are whole numbers, and any element may be taken off
\* first: the order in which the fold picks them does not matter.
LEMMA SumsStep ==
    ASSUME NEW S, IsFiniteSet(S), NEW g \in [S -> Int], NEW s \in SUBSET S
    PROVE  /\ Sums(g, S)[s] \in Int
           /\ s = {} => Sums(g, S)[s] = 0
           /\ \A x \in s : Sums(g, S)[s] = g[x] + Sums(g, S)[s \ {x}]
<1> DEFINE f == Sums(g, S)
           Right(u) == /\ f[u] \in Int
                       /\ \A x \in u : f[u] = g[x] + f[u \ {x}]
           T == {n \in Nat : \A u \in Upto(S, n) : Right(u)}
<1>1. \A u \in SUBSET S : f[u] = Round(g, f, u)
  BY SumsRound
<1> HIDE DEF f
<1>2. f[{}] = 0
  BY <1>1 DEF Round
<1>3. Right({})
  BY <1>2
<1>4. 0 \in T
  <2> SUFFICES ASSUME NEW u \in Upto(S, 0) PROVE u = {}
    BY <1>3
  <2>1. IsFiniteSet(u) /\ Cardinality(u) <= 0
    BY FS_Subset DEF Upto
  <2>2. Cardinality(u) \in Nat
    BY <2>1, FS_CardinalityType
  <2>3. Cardinality(u) = 0
    BY <2>1, <2>2
  <2> QED BY <2>1, <2>3, FS_EmptySet
<1>5. ASSUME NEW n \in Nat, n \in T PROVE n + 1 \in T
  <2> SUFFICES ASSUME NEW u \in Upto(S, n + 1), u # {} PROVE Right(u)
    <3> HIDE DEF Right
    <3> QED BY <1>3
  <2> DEFINE p == Pick(u)
             r == u \ {p}
  <2>1. p \in u /\ r \in Upto(S, n)
    BY PickSmaller
  <2>2. u \in SUBSET S /\ IsFiniteSet(u) /\ Cardinality(u) <= n + 1 /\ Cardinality(u) \in Nat
    BY FS_Subset, FS_CardinalityType DEF Upto
  <2>3. f[u] = g[p] + f[r]
    BY <1>1, <2>2 DEF Round
  <2>4. Right(r)
    BY <1>5, <2>1
  <2> HIDE DEF p
  <2>5. g[p] \in Int /\ \A x \in u : g[x] \in Int
    BY <2>1, <2>2
  <2>6. ASSUME NEW x \in u, x # p PROVE f[u] = g[x] + f[u \ {x}]
    <3> DEFINE w == u \ {x}
               v == r \ {x}
    <3>1. w \in Upto(S, n)
      <4>1. Cardinality(w) = Cardinality(u) - 1
        BY <2>2, FS_RemoveElement
      <4>2. w \in SUBSET S
        BY <2>2
      <4> HIDE DEF w
      <4> QED BY <2>2, <4>1, <4>2 DEF Upto
    <3>2. Right(w)
      BY <1>5, <3>1
    <3>3. p \in w /\ w \ {p} = v /\ x \in r
      BY <2>1, <2>6
    <3>4. f[w] = g[p] + f[v] /\ f[r] = g[x] + f[v]
      BY <2>4, <3>2, <3>3
    <3>5. v \in SUBSET S /\ f[w] \in Int /\ f[r] \in Int
      BY <2>2, <2>4, <3>2
    <3>6. v \in Upto(S, n)
      <4>1. v \subseteq w /\ IsFiniteSet(w)
        BY <2>2, FS_Subset
      <4>2. Cardinality(v) <= Cardinality(w) /\ Cardinality(v) \in Nat /\ Cardinality(w) \in Nat
        <5> HIDE DEF v, w
        <5> QED BY <4>1, FS_Subset, FS_CardinalityType
      <4>3. Cardinality(w) <= n
        BY <3>1 DEF Upto
      <4> HIDE DEF v, w
      <4> QED BY <3>5, <4>2, <4>3 DEF Upto
    <3>7. f[v] \in Int
      BY <1>5, <3>6
    <3>8. g[x] \in Int
      BY <2>5
    <3> HIDE DEF v, w, r
    <3>9. f[u] = g[x] + f[w]
      BY <2>3, <2>5, <3>4, <3>7, <3>8
    <3> QED BY <3>9 DEF w
  <2>7. f[u] \in Int
    <3> HIDE DEF r
    <3> QED BY <2>3, <2>4, <2>5
  <2> QED BY <2>3, <2>6, <2>7
<1>6. T = Nat
  <2>1. T \in SUBSET Nat
    OBVIOUS
  <2> HIDE DEF T
  <2> QED BY <1>4, <1>5, <2>1, Induction
<1>7. IsFiniteSet(s) /\ Cardinality(s) \in Nat
  BY FS_Subset, FS_CardinalityType
<1>8. s \in Upto(S, Cardinality(s))
  BY <1>7 DEF Upto
<1>9. Right(s)
  <2> HIDE DEF Right
  <2> QED BY <1>6, <1>7, <1>8
<1> QED BY <1>2, <1>9 DEF f

\* The sum does not depend on what lies outside.
LEMMA SumsSame ==
    ASSUME NEW S, IsFiniteSet(S), NEW T, IsFiniteSet(T),
           NEW g \in [S -> Int], NEW h \in [T -> Int],
           NEW s \in SUBSET (S \cap T), \A x \in s : g[x] = h[x]
    PROVE  Sums(g, S)[s] = Sums(h, T)[s]
<1> DEFINE a == Sums(g, S)
           b == Sums(h, T)
           Same(u) == u \in SUBSET s => a[u] = b[u]
           N == {n \in Nat : \A u \in Upto(s, n) : Same(u)}
<1>1. \A u \in SUBSET s : /\ u = {} => a[u] = b[u]
                          /\ \A x \in u : /\ a[u] = g[x] + a[u \ {x}]
                                          /\ b[u] = g[x] + b[u \ {x}]
  <2> SUFFICES ASSUME NEW u \in SUBSET s
               PROVE  /\ u = {} => a[u] = b[u]
                      /\ \A x \in u : /\ a[u] = g[x] + a[u \ {x}]
                                      /\ b[u] = g[x] + b[u \ {x}]
    OBVIOUS
  <2>1. u \in SUBSET S /\ u \in SUBSET T
    OBVIOUS
  <2>2. \A x \in u : a[u] = g[x] + a[u \ {x}]
    BY <2>1, SumsStep
  <2>3. \A x \in u : b[u] = h[x] + b[u \ {x}]
    BY <2>1, SumsStep, ZenonT(90)
  <2>4. u = {} => a[u] = 0
    BY <2>1, SumsStep
  <2>5. u = {} => b[u] = 0
    BY <2>1, SumsStep
  <2> HIDE DEF a, b
  <2> QED BY <2>2, <2>3, <2>4, <2>5
<1>2. IsFiniteSet(s)
  BY FS_Subset
<1> HIDE DEF a, b
<1>3. 0 \in N
  <2> SUFFICES ASSUME NEW u \in Upto(s, 0) PROVE u = {}
    BY <1>1
  <2>1. IsFiniteSet(u) /\ Cardinality(u) <= 0
    BY <1>2, FS_Subset DEF Upto
  <2>2. Cardinality(u) \in Nat
    BY <2>1, FS_CardinalityType
  <2>3. Cardinality(u) = 0
    BY <2>1, <2>2
  <2> QED BY <2>1, <2>3, FS_EmptySet
<1>4. ASSUME NEW n \in Nat, n \in N PROVE n + 1 \in N
  <2> SUFFICES ASSUME NEW u \in Upto(s, n + 1), u # {} PROVE a[u] = b[u]
    BY <1>1
  <2>1. Pick(u) \in u /\ u \ {Pick(u)} \in Upto(s, n)
    BY <1>2, PickSmaller
  <2>2. u \in SUBSET s /\ u \ {Pick(u)} \in SUBSET s
    BY DEF Upto
  <2>3. a[u \ {Pick(u)}] = b[u \ {Pick(u)}]
    BY <1>4, <2>1, <2>2
  <2> QED BY <1>1, <2>1, <2>2, <2>3
<1>5. N = Nat
  <2>1. N \in SUBSET Nat
    OBVIOUS
  <2> HIDE DEF N
  <2> QED BY <1>3, <1>4, <2>1, Induction
<1>6. Cardinality(s) \in Nat
  BY <1>2, FS_CardinalityType
<1>7. s \in Upto(s, Cardinality(s))
  BY <1>6 DEF Upto
<1>8. Same(s)
  <2> HIDE DEF Same
  <2> QED BY <1>5, <1>6, <1>7
<1> QED BY <1>8 DEF a, b

\* A set of subsets of a finite set that holds the empty one, and each one that is
\* held without one of its elements, holds all of them.
LEMMA SubsetInduction ==
    ASSUME NEW S, IsFiniteSet(S), NEW T, {} \in T,
           \A u \in SUBSET S, x \in S : x \in u /\ u \ {x} \in T => u \in T
    PROVE  \A u \in SUBSET S : u \in T
<1> DEFINE N == {n \in Nat : \A u \in Upto(S, n) : u \in T}
<1>1. 0 \in N
  <2> SUFFICES ASSUME NEW u \in Upto(S, 0) PROVE u = {}
    OBVIOUS
  <2>1. IsFiniteSet(u) /\ Cardinality(u) <= 0
    BY FS_Subset DEF Upto
  <2>2. Cardinality(u) \in Nat
    BY <2>1, FS_CardinalityType
  <2>3. Cardinality(u) = 0
    BY <2>1, <2>2
  <2> QED BY <2>1, <2>3, FS_EmptySet
<1>2. ASSUME NEW n \in Nat, n \in N PROVE n + 1 \in N
  <2> SUFFICES ASSUME NEW u \in Upto(S, n + 1), u # {} PROVE u \in T
    OBVIOUS
  <2>1. Pick(u) \in u /\ u \ {Pick(u)} \in Upto(S, n)
    BY PickSmaller
  <2>2. u \in SUBSET S
    BY DEF Upto
  <2>3. u \ {Pick(u)} \in T
    BY <1>2, <2>1
  <2> QED BY <2>1, <2>2, <2>3
<1>3. N = Nat
  <2>1. N \in SUBSET Nat
    OBVIOUS
  <2> HIDE DEF N
  <2> QED BY <1>1, <1>2, <2>1, Induction
<1> SUFFICES ASSUME NEW u \in SUBSET S PROVE u \in T
  OBVIOUS
<1>4. IsFiniteSet(u) /\ Cardinality(u) \in Nat
  BY FS_Subset, FS_CardinalityType
<1>5. u \in Upto(S, Cardinality(u))
  BY <1>4 DEF Upto
<1> QED BY <1>3, <1>4, <1>5

\* The sum over two sets that have nothing in common.
LEMMA SumsUnion ==
    ASSUME NEW S, IsFiniteSet(S), NEW g \in [S -> Int],
           NEW a \in SUBSET S, NEW b \in SUBSET S, a \cap b = {}
    PROVE  Sums(g, S)[a \cup b] = Sums(g, S)[a] + Sums(g, S)[b]
<1> DEFINE f == Sums(g, S)
           T == {u \in SUBSET S : u \subseteq b => f[a \cup u] = f[a] + f[u]}
<1>1. \A u \in SUBSET S : /\ f[u] \in Int
                          /\ u = {} => f[u] = 0
                          /\ \A x \in u : f[u] = g[x] + f[u \ {x}]
  BY SumsStep
<1> HIDE DEF f
<1>2. {} \in T
  <2>1. f[{}] = 0 /\ f[a] \in Int /\ a \cup {} = a
    BY <1>1
  <2> QED BY <2>1
<1>3. ASSUME NEW u \in SUBSET S, NEW x \in S, x \in u, u \ {x} \in T PROVE u \in T
  <2> SUFFICES ASSUME u \subseteq b PROVE f[a \cup u] = f[a] + f[u]
    OBVIOUS
  <2> DEFINE r == u \ {x}
             w == a \cup u
  <2>1. f[a \cup r] = f[a] + f[r]
    BY <1>3
  <2>2. w \in SUBSET S /\ x \in w /\ w \ {x} = a \cup r /\ r \in SUBSET S
    BY <1>3
  <2>3. f[w] = g[x] + f[w \ {x}] /\ f[u] = g[x] + f[r]
    BY <1>1, <1>3, <2>2
  <2>4. f[a] \in Int /\ f[r] \in Int /\ g[x] \in Int
    BY <1>1, <2>2
  <2>5. f[w] = g[x] + (f[a] + f[r])
    BY <2>1, <2>2, <2>3
  <2> HIDE DEF r, w, T
  <2>6. f[w] = f[a] + f[u]
    BY <2>3, <2>4, <2>5
  <2> QED BY <2>6 DEF w
<1>4. b \in T
  <2>1. \A u \in SUBSET S, x \in S : x \in u /\ u \ {x} \in T => u \in T
    BY <1>3
  <2> HIDE DEF T
  <2>2. \A u \in SUBSET S : u \in T
    BY <1>2, <2>1, SubsetInduction
  <2> QED BY <2>2
<1> QED BY <1>4 DEF f

\* The sum of ones counts them, and the sum of minus ones counts them downwards.
LEMMA SumsOnes ==
    ASSUME NEW S, IsFiniteSet(S), NEW g \in [S -> Int], NEW s \in SUBSET S
    PROVE  /\ (\A x \in s : g[x] = 1) => Sums(g, S)[s] = Cardinality(s)
           /\ (\A x \in s : g[x] = -1) => Sums(g, S)[s] + Cardinality(s) = 0
<1> DEFINE f == Sums(g, S)
           T == {u \in SUBSET S : u \subseteq s =>
                    /\ (\A x \in s : g[x] = 1) => f[u] = Cardinality(u)
                    /\ (\A x \in s : g[x] = -1) => f[u] + Cardinality(u) = 0}
<1>1. \A u \in SUBSET S : /\ f[u] \in Int
                          /\ u = {} => f[u] = 0
                          /\ \A x \in u : f[u] = g[x] + f[u \ {x}]
  BY SumsStep
<1> HIDE DEF f
<1>2. {} \in T
  <2>1. f[{}] = 0 /\ Cardinality({}) = 0
    BY <1>1, FS_EmptySet
  <2> QED BY <2>1
<1>3. ASSUME NEW u \in SUBSET S, NEW x \in S, x \in u, u \ {x} \in T PROVE u \in T
  <2> DEFINE r == u \ {x}
  <2> SUFFICES ASSUME u \subseteq s
               PROVE  /\ (\A y \in s : g[y] = 1) => f[u] = Cardinality(u)
                      /\ (\A y \in s : g[y] = -1) => f[u] + Cardinality(u) = 0
    OBVIOUS
  <2>1. Cardinality(r) = Cardinality(u) - 1 /\ Cardinality(u) \in Nat
    BY <1>3, FS_Subset, FS_RemoveElement, FS_CardinalityType
  <2>2. /\ (\A y \in s : g[y] = 1) => f[r] = Cardinality(r)
        /\ (\A y \in s : g[y] = -1) => f[r] + Cardinality(r) = 0
    BY <1>3
  <2>3. f[u] = g[x] + f[r] /\ x \in s
    BY <1>1, <1>3
  <2> HIDE DEF r
  <2>4. ASSUME \A y \in s : g[y] = 1 PROVE f[u] = Cardinality(u)
    BY <2>1, <2>2, <2>3, <2>4
  <2>5. ASSUME \A y \in s : g[y] = -1 PROVE f[u] + Cardinality(u) = 0
    <3>1. f[r] + Cardinality(r) = 0 /\ g[x] = -1 /\ f[u] = g[x] + f[r] /\ f[r] \in Int
      <4>1. r \in SUBSET S
        BY DEF r
      <4> QED BY <1>1, <2>2, <2>3, <2>5, <4>1
    <3> HIDE DEF T
    <3> QED BY <2>1, <3>1
  <2> QED BY <2>4, <2>5
<1>4. s \in T
  <2>1. \A u \in SUBSET S, x \in S : x \in u /\ u \ {x} \in T => u \in T
    BY <1>3
  <2> HIDE DEF T
  <2>2. \A u \in SUBSET S : u \in T
    BY <1>2, <2>1, SubsetInduction
  <2> QED BY <2>2
<1> QED BY <1>4 DEF f

\* The elements of u that h takes to d.
Fiber(u, h, d) == {x \in u : h[x] = d}

\* The sum over each fiber.
FiberSums(g, S, h, D, u) == [d \in D |-> Sums(g, S)[Fiber(u, h, d)]]

\* The sum of the sums over the fibers is the sum over the whole.
LEMMA SumsFibers ==
    ASSUME NEW S, IsFiniteSet(S), NEW D, IsFiniteSet(D), NEW g \in [S -> Int],
           NEW h \in [S -> D], NEW s \in SUBSET S
    PROVE  Sums(g, S)[s] = Sums(FiberSums(g, S, h, D, s), D)[D]
<1> DEFINE f == Sums(g, S)
           k(u) == FiberSums(g, S, h, D, u)
           T == {u \in SUBSET S : f[u] = Sums(k(u), D)[D]}
<1>1. \A u \in SUBSET S : /\ f[u] \in Int
                          /\ u = {} => f[u] = 0
                          /\ \A x \in u : f[u] = g[x] + f[u \ {x}]
  BY SumsStep
<1>2. \A u \in SUBSET S : k(u) = [d \in D |-> f[Fiber(u, h, d)]]
  BY DEF FiberSums
<1> HIDE DEF f, k
<1>3. \A u \in SUBSET S : k(u) \in [D -> Int]
  <2> SUFFICES ASSUME NEW u \in SUBSET S PROVE k(u) \in [D -> Int]
    OBVIOUS
  <2>1. \A d \in D : Fiber(u, h, d) \in SUBSET S
    BY DEF Fiber
  <2>2. \A d \in D : f[Fiber(u, h, d)] \in Int
    BY <1>1, <2>1
  <2> QED BY <1>2, <2>2
<1>4. ASSUME NEW u \in SUBSET S
      PROVE  /\ Sums(k(u), D)[D] \in Int
             /\ \A d \in D : Sums(k(u), D)[D] = k(u)[d] + Sums(k(u), D)[D \ {d}]
             /\ \A d \in D : Sums(k(u), D)[D \ {d}] \in Int
  <2>1. k(u) \in [D -> Int] /\ D \in SUBSET D
    BY <1>3
  <2>2. /\ Sums(k(u), D)[D] \in Int
        /\ \A d \in D : Sums(k(u), D)[D] = k(u)[d] + Sums(k(u), D)[D \ {d}]
    BY <2>1, SumsStep
  <2>3. ASSUME NEW d \in D PROVE Sums(k(u), D)[D \ {d}] \in Int
    <3>1. D \ {d} \in SUBSET D
      OBVIOUS
    <3> QED BY <2>1, <3>1, SumsStep
  <2> QED BY <2>2, <2>3
<1>5. {} \in T
  <2> DEFINE U == {v \in SUBSET D : Sums(k({}), D)[v] = 0}
  <2>1. k({}) \in [D -> Int] /\ \A d \in D : k({})[d] = 0
    <3>1. \A d \in D : Fiber({}, h, d) = {}
      BY DEF Fiber
    <3>2. f[{}] = 0 /\ {} \in SUBSET S
      BY <1>1
    <3> QED BY <1>2, <1>3, <3>1, <3>2
  <2>2. \A v \in SUBSET D : /\ v = {} => Sums(k({}), D)[v] = 0
                            /\ \A d \in v : Sums(k({}), D)[v] = k({})[d] + Sums(k({}), D)[v \ {d}]
    BY <2>1, SumsStep, ZenonT(40)
  <2>3. {} \in U
    BY <2>2
  <2>4. ASSUME NEW v \in SUBSET D, NEW d \in D, d \in v, v \ {d} \in U PROVE v \in U
    <3>1. Sums(k({}), D)[v] = k({})[d] + Sums(k({}), D)[v \ {d}]
      BY <2>2, <2>4
    <3>2. Sums(k({}), D)[v \ {d}] = 0 /\ k({})[d] = 0
      BY <2>1, <2>4
    <3> QED BY <3>1, <3>2
  <2>5. \A v \in SUBSET D : v \in U
    <3> HIDE DEF U
    <3> QED BY <2>3, <2>4, SubsetInduction
  <2>6. Sums(k({}), D)[D] = 0
    BY <2>5
  <2> QED BY <1>1, <2>6
<1>6. ASSUME NEW u \in SUBSET S, NEW x \in S, x \in u, u \ {x} \in T PROVE u \in T
  <2> DEFINE r == u \ {x}
             e == h[x]
             R == D \ {e}
             a == Fiber(u, h, e)
             b == Fiber(r, h, e)
  <2>1. /\ r \in SUBSET S /\ e \in D /\ R \in SUBSET D
        /\ a \in SUBSET S /\ x \in a /\ a \ {x} = b
    BY <1>6 DEF Fiber
  <2>2. f[u] = g[x] + f[r] /\ f[a] = g[x] + f[b]
    BY <1>1, <1>6, <2>1
  <2>3. k(u)[e] = g[x] + k(r)[e]
    BY <1>2, <2>1, <2>2
  <2>4. \A d \in R : k(u)[d] = k(r)[d]
    <3>1. \A d \in R : Fiber(u, h, d) = Fiber(r, h, d)
      BY DEF Fiber
    <3>2. \A d \in R : d \in D
      OBVIOUS
    <3> HIDE DEF R, r
    <3>3. \A d \in R : k(u)[d] = f[Fiber(u, h, d)] /\ k(r)[d] = f[Fiber(r, h, d)]
      BY <1>2, <2>1, <3>2
    <3> QED BY <3>1, <3>3
  <2>5. Sums(k(u), D)[R] = Sums(k(r), D)[R]
    <3>1. k(u) \in [D -> Int] /\ k(r) \in [D -> Int] /\ R \in SUBSET (D \cap D)
      BY <1>3, <2>1
    <3> HIDE DEF R, r
    <3> QED BY <2>4, <3>1, SumsSame
  <2>6. f[r] = Sums(k(r), D)[D]
    BY <1>6
  <2>7. /\ Sums(k(u), D)[D] = k(u)[e] + Sums(k(u), D)[R]
        /\ Sums(k(r), D)[D] = k(r)[e] + Sums(k(r), D)[R]
        /\ Sums(k(r), D)[R] \in Int
    BY <1>4, <2>1
  <2>8. k(r)[e] \in Int /\ g[x] \in Int
    BY <1>3, <2>1
  <2> HIDE DEF r, e, R, a, b
  <2>9. f[u] = Sums(k(u), D)[D]
    BY <2>2, <2>3, <2>5, <2>6, <2>7, <2>8
  <2> QED BY <2>9
<1>7. s \in T
  <2>1. \A u \in SUBSET S, x \in S : x \in u /\ u \ {x} \in T => u \in T
    BY <1>6
  <2> HIDE DEF T
  <2>2. \A u \in SUBSET S : u \in T
    BY <1>5, <2>1, SubsetInduction
  <2> QED BY <2>2
<1> QED BY <1>7 DEF f, k

-----------------------------------------------------------------------------
(* AtIndexes picks elements of the sequence.                               *)

\* The values of a function on a finite set are finite in number.
LEMMA ValuesFinite ==
  ASSUME NEW S, IsFiniteSet(S), NEW f
  PROVE  IsFiniteSet({f[x] : x \in S})
<1> DEFINE V(u) == {f[x] : x \in u}
           T == {u \in SUBSET S : IsFiniteSet(V(u))}
<1>1. {} \in T
  <2>1. V({}) = {}
    OBVIOUS
  <2>2. IsFiniteSet({})
    BY FS_EmptySet
  <2> QED BY <2>1, <2>2
<1>2. ASSUME NEW u \in SUBSET S, NEW x \in S, x \in u, u \ {x} \in T PROVE u \in T
  <2>1. V(u) = V(u \ {x}) \cup {f[x]}
    BY <1>2
  <2>2. IsFiniteSet(V(u \ {x}))
    BY <1>2
  <2> DEFINE W == V(u \ {x})
  <2>3. IsFiniteSet(W \cup {f[x]})
    <3> HIDE DEF W
    <3> QED BY <2>2, FS_AddElement DEF W
  <2> QED BY <2>1, <2>3
<1>3. \A u \in SUBSET S, x \in S : x \in u /\ u \ {x} \in T => u \in T
  BY <1>2
<1>4. \A u \in SUBSET S : u \in T
  <2> HIDE DEF T
  <2> QED BY <1>1, <1>3, SubsetInduction
<1> QED BY <1>4

\* A finite set of numbers has a bound.
LEMMA FiniteBound ==
  ASSUME NEW I \in SUBSET Nat, IsFiniteSet(I)
  PROVE  \E m \in Nat : \A i \in I : i <= m
<1> DEFINE Bounded(u) == \E m \in Nat : \A i \in u : i <= m
           T == {u \in SUBSET I : Bounded(u)}
<1>1. {} \in T
  BY 0 \in Nat
<1>2. ASSUME NEW u \in SUBSET I, NEW x \in I, x \in u, u \ {x} \in T PROVE u \in T
  <2>1. PICK m \in Nat : \A i \in u \ {x} : i <= m
    BY <1>2
  <2>2. x \in Nat /\ \A i \in u : i \in Nat
    OBVIOUS
  <2>3. \A i \in u : i <= m + x
    BY <2>1, <2>2
  <2>4. m + x \in Nat
    BY <2>2
  <2> QED BY <2>3, <2>4
<1>3. \A u \in SUBSET I, x \in I : x \in u /\ u \ {x} \in T => u \in T
  BY <1>2
<1>4. \A u \in SUBSET I : u \in T
  <2> HIDE DEF T
  <2> QED BY <1>1, <1>3, SubsetInduction
<1> QED BY <1>4

\* Every rank up to the size of a set of numbers is some number's rank.
LEMMA Ranks ==
  ASSUME NEW I \in SUBSET Nat, IsFiniteSet(I), NEW n \in 1..Cardinality(I)
  PROVE  \E i \in I : Cardinality({j \in I : j <= i}) = n
<1> DEFINE C(k) == {j \in I : j <= k}
           T == {k \in Nat : n <= Cardinality(C(k))}
<1>0. PICK m \in Nat : \A j \in I : j \in Nat /\ j <= m
  BY FiniteBound
<1>2. \A k \in Nat : IsFiniteSet(C(k)) /\ Cardinality(C(k)) \in Nat
  <2> SUFFICES ASSUME NEW k \in Nat PROVE IsFiniteSet(C(k)) /\ Cardinality(C(k)) \in Nat
    OBVIOUS
  <2>1. C(k) \in SUBSET I
    OBVIOUS
  <2> QED BY <2>1, FS_Subset, FS_CardinalityType
<1>3. n \in Nat \ {0}
  BY FS_CardinalityType
<1>4. m \in T
  <2>1. C(m) = I
    BY <1>0
  <2>2. Cardinality(I) \in Nat
    BY FS_CardinalityType
  <2> QED BY <2>1, <2>2
<1>5. PICK k \in T : \A l \in T : k <= l
  <2>1. T \in SUBSET Nat /\ T # {}
    BY <1>4
  <2> HIDE DEF T
  <2> QED BY <2>1, Smallest
<1> DEFINE D == {j \in I : j < k}
<1>6. D \in SUBSET I /\ IsFiniteSet(D) /\ Cardinality(D) \in Nat
  <2>1. D \in SUBSET I
    OBVIOUS
  <2> HIDE DEF D
  <2> QED BY <2>1, FS_Subset, FS_CardinalityType
<1>7. Cardinality(D) < n
  <2>1. CASE k = 0
    <3>1. \A j \in I : ~(j < k)
      BY <1>0, <2>1
    <3>2. D = {}
      BY <3>1
    <3> QED BY <1>3, <3>2, FS_EmptySet
  <2>2. CASE k # 0
    <3>1. k \in Nat /\ k - 1 \in Nat /\ ~(k <= k - 1)
      BY <1>5, <2>2
    <3>2. k - 1 \notin T
      BY <1>5, <3>1
    <3>3. \A j \in I : j < k <=> j <= k - 1
      BY <1>0, <3>1
    <3>4. D = C(k - 1)
      BY <3>3
    <3>5. ~(n <= Cardinality(C(k - 1)))
      BY <3>1, <3>2
    <3> HIDE DEF C, D
    <3> QED BY <1>3, <1>6, <3>4, <3>5
  <2> QED BY <2>1, <2>2
<1>9. n <= Cardinality(C(k)) /\ Cardinality(C(k)) \in Nat /\ k \in Nat
  BY <1>2, <1>5
<1>10. CASE k \in I
  <2>0. \A j \in I : j <= k <=> j < k \/ j = k
    BY <1>0, <1>9
  <2>1. C(k) = D \cup {k} /\ k \notin D
    <3>1. ~(k < k)
      BY <1>9
    <3> HIDE DEF T
    <3> QED BY <1>10, <2>0, <3>1
  <2>2. Cardinality(C(k)) = Cardinality(D) + 1
    <3> HIDE DEF C, D
    <3> QED BY <1>6, <2>1, FS_AddElement
  <2> HIDE DEF C, D
  <2>3. Cardinality(C(k)) = n
    BY <1>3, <1>6, <1>7, <1>9, <2>2
  <2> QED BY <1>10, <2>3 DEF C
<1>11. CASE k \notin I
  <2>0. \A j \in I : j <= k <=> j < k
    BY <1>0, <1>9, <1>11
  <2>1. C(k) = D
    BY <2>0
  <2> HIDE DEF C, D
  <2> QED BY <1>3, <1>6, <1>7, <1>9, <2>1
<1> QED BY <1>10, <1>11

\* So Ranked lists the numbers of a finite set, each once and in order.
LEMMA RankedFinite ==
  ASSUME NEW I \in SUBSET Nat, IsFiniteSet(I)
  PROVE  /\ Cardinality(I) \in Nat
         /\ DOMAIN Ranked(I) = 1..Cardinality(I)
         /\ \A n \in DOMAIN Ranked(I) : Ranked(I)[n] \in I
         /\ \A i \in I : \E n \in DOMAIN Ranked(I) : Ranked(I)[n] = i
         /\ \A a, b \in DOMAIN Ranked(I) : a < b => Ranked(I)[a] < Ranked(I)[b]
<1> DEFINE C(k) == {j \in I : j <= k}
           R == Ranked(I)
           c == Cardinality(I)
<1>0. \A j \in I : j \in Nat
  OBVIOUS
<1>1. c \in Nat
  BY FS_CardinalityType
<1>2. \A k \in I : /\ IsFiniteSet(C(k)) /\ Cardinality(C(k)) \in Nat
                   /\ Cardinality(C(k)) <= c
  <2> SUFFICES ASSUME NEW k \in I
               PROVE  /\ IsFiniteSet(C(k)) /\ Cardinality(C(k)) \in Nat
                      /\ Cardinality(C(k)) <= c
    OBVIOUS
  <2>1. C(k) \in SUBSET I
    OBVIOUS
  <2> HIDE DEF C
  <2> QED BY <2>1, FS_Subset, FS_CardinalityType
<1>3. DOMAIN R = 1..c
  BY DEF Ranked
<1>4. ASSUME NEW n \in 1..c PROVE R[n] \in I /\ Cardinality(C(R[n])) = n
  <2>1. \E i \in I : Cardinality(C(i)) = n
    BY Ranks
  <2>2. R[n] = CHOOSE i \in I : Cardinality(C(i)) = n
    BY DEF Ranked
  <2> HIDE DEF C, R
  <2> QED BY <2>1, <2>2
<1>5. \A a, b \in I : a < b => Cardinality(C(a)) < Cardinality(C(b))
  <2> SUFFICES ASSUME NEW a \in I, NEW b \in I, a < b
               PROVE  Cardinality(C(a)) < Cardinality(C(b))
    OBVIOUS
  <2> DEFINE D == C(a) \cup {b}
  <2>1. b \notin C(a)
    BY <1>0
  <2>2. D \in SUBSET C(b)
    <3>1. \A z \in C(a) : z \in I /\ z \in Nat /\ a \in Nat /\ b \in Nat /\ z <= a
      BY <1>0
    <3>2. \A z \in C(a) : z \in I /\ z <= b
      BY <3>1
    <3>3. b \in C(b)
      BY <1>0
    <3>4. \A z \in C(a) : z \in C(b)
      BY <3>2
    <3> HIDE DEF C
    <3> QED BY <3>3, <3>4
  <2> HIDE DEF C
  <2>3. Cardinality(D) = Cardinality(C(a)) + 1
    BY <1>2, <2>1, FS_AddElement
  <2>4. Cardinality(D) <= Cardinality(C(b))
    <3> HIDE DEF D
    <3> QED BY <1>2, <2>2, FS_Subset
  <2> QED BY <1>2, <2>3, <2>4
<1>6. ASSUME NEW i \in I PROVE \E n \in DOMAIN R : R[n] = i
  <2> DEFINE n == Cardinality(C(i))
  <2>1. i \in C(i)
    BY <1>0
  <2>2. n # 0
    <3> HIDE DEF C
    <3> QED BY <1>2, <2>1, FS_EmptySet
  <2>3. n \in 1..c
    <3> HIDE DEF C
    <3> QED BY <1>1, <1>2, <2>2
  <2>4. R[n] \in I /\ Cardinality(C(R[n])) = n
    <3> HIDE DEF n, R
    <3> QED BY <1>4, <2>3
  <2> HIDE DEF C, R
  <2>5. R[n] = i
    <3> DEFINE x == R[n]
    <3>1. x \in I /\ Cardinality(C(x)) = Cardinality(C(i))
      BY <2>4
    <3> HIDE DEF x, n
    <3>2. x \in Nat /\ i \in Nat
      BY <1>0, <3>1
    <3>3. ~(x < i) /\ ~(i < x)
      BY <1>2, <1>5, <3>1
    <3> QED BY <3>2, <3>3 DEF x
  <2> QED BY <1>3, <2>3, <2>5
<1>7. ASSUME NEW a \in DOMAIN R, NEW b \in DOMAIN R, a < b PROVE R[a] < R[b]
  <2>0. a \in 1..c /\ b \in 1..c
    BY <1>3
  <2>1. /\ a \in Nat /\ b \in Nat /\ R[a] \in I /\ R[b] \in I
        /\ Cardinality(C(R[a])) = a /\ Cardinality(C(R[b])) = b
    <3>1. a \in Nat /\ b \in Nat
      BY <1>1, <2>0
    <3> HIDE DEF C, R, c
    <3> QED BY <1>4, <2>0, <3>1
  <2> DEFINE x == R[a]
             y == R[b]
  <2> HIDE DEF C, R
  <2>2. x \in I /\ y \in I /\ Cardinality(C(x)) = a /\ Cardinality(C(y)) = b
    BY <2>1
  <2> HIDE DEF x, y
  <2>3. x \in Nat /\ y \in Nat
    BY <1>0, <2>2
  <2>4. x # y /\ ~(y < x)
    BY <1>5, <1>7, <2>1, <2>2
  <2> QED BY <2>3, <2>4 DEF x, y
<1> HIDE DEF R, c
<1> QED BY <1>1, <1>3, <1>4, <1>6, <1>7 DEF R, c

\* Indexes are a finite set of numbers.
LEMMA IndexesFinite ==
  ASSUME NEW m \in Nat, NEW I \in SUBSET (1..m)
  PROVE  I \in SUBSET Nat /\ IsFiniteSet(I)
<1>1. IsFiniteSet(1..m)
  BY FS_Interval
<1>2. IsFiniteSet(I)
  BY <1>1, FS_Subset
<1>3. I \in SUBSET Nat
  OBVIOUS
<1> QED BY <1>2, <1>3

\* So Ranked lists indexes ...
LEMMA RankedType ==
  ASSUME NEW m \in Nat, NEW I \in SUBSET (1..m)
  PROVE  /\ Cardinality(I) \in Nat
         /\ DOMAIN Ranked(I) = 1..Cardinality(I)
         /\ \A n \in 1..Cardinality(I) : Ranked(I)[n] \in I
<1>1. I \in SUBSET Nat /\ IsFiniteSet(I)
  BY IndexesFinite
<1> QED BY <1>1, RankedFinite

\* ... and what is filtered out of a sequence is a sequence of its elements.
LEMMA AtIndexesType ==
  ASSUME NEW S, NEW s \in Seq(S), NEW I \in SUBSET DOMAIN s
  PROVE  AtIndexes(s, I) \in Seq(S)
<1>1. Len(s) \in Nat /\ DOMAIN s = 1..Len(s)
  OBVIOUS
<1>2. I \in SUBSET (1..Len(s))
  BY <1>1
<1> DEFINE c == Cardinality(I)
           idx == Ranked(I)
<1>3. c \in Nat /\ DOMAIN idx = 1..c /\ \A n \in 1..c : idx[n] \in I
  BY <1>1, <1>2, RankedType
<1>4. AtIndexes(s, I) = [n \in DOMAIN idx |-> s[idx[n]]]
  BY DEF AtIndexes
<1> HIDE DEF c, idx
<1>5. \A n \in 1..c : s[idx[n]] \in S
  BY <1>1, <1>2, <1>3
<1> QED BY <1>3, <1>4, <1>5

\* Sequences that agree at the indexes have the same elements there.
LEMMA AtIndexesSame ==
  ASSUME NEW m \in Nat, NEW I \in SUBSET (1..m), NEW s, NEW t, \A i \in I : s[i] = t[i]
  PROVE  AtIndexes(s, I) = AtIndexes(t, I)
<1> DEFINE idx == Ranked(I)
<1>1. \A n \in DOMAIN idx : idx[n] \in I
  BY RankedType
<1>2. /\ AtIndexes(s, I) = [n \in DOMAIN idx |-> s[idx[n]]]
      /\ AtIndexes(t, I) = [n \in DOMAIN idx |-> t[idx[n]]]
  BY DEF AtIndexes
<1> HIDE DEF idx
<1>3. \A n \in DOMAIN idx : s[idx[n]] = t[idx[n]]
  BY <1>1
<1> QED BY <1>2, <1>3

\* Nothing is nowhere.
LEMMA AtNoIndex ==
  ASSUME NEW s
  PROVE  AtIndexes(s, {}) = <<>> /\ Ranked({}) = <<>>
<1>1. Cardinality({}) = 0
  BY FS_EmptySet
<1>2. DOMAIN Ranked({}) = 1..0 /\ 1..0 = {}
  BY <1>1 DEF Ranked
<1>3. Ranked({}) = [n \in DOMAIN Ranked({}) |-> Ranked({})[n]]
  BY DEF Ranked
<1>4. Ranked({}) = <<>>
  <2> DEFINE r == Ranked({})
  <2> HIDE DEF r
  <2>1. r = [n \in {} |-> r[n]]
    BY <1>2, <1>3 DEF r
  <2>2. r = <<>>
    BY <2>1
  <2> QED BY <2>2 DEF r
<1>5. AtIndexes(s, {}) = [n \in {} |-> s[Ranked({})[n]]]
  BY <1>2 DEF AtIndexes
<1>6. AtIndexes(s, {}) = <<>>
  BY <1>5
<1> QED BY <1>4, <1>6

\* Ranked leaves no index out.
LEMMA RankedAll ==
  ASSUME NEW m \in Nat, NEW I \in SUBSET (1..m), NEW i \in I
  PROVE  \E t \in DOMAIN Ranked(I) : Ranked(I)[t] = i
<1>1. I \in SUBSET Nat /\ IsFiniteSet(I)
  BY IndexesFinite
<1> QED BY <1>1, RankedFinite

\* Different ranks belong to different indexes.
LEMMA RankedOnce ==
  ASSUME NEW m \in Nat, NEW I \in SUBSET (1..m),
         NEW a \in DOMAIN Ranked(I), NEW b \in DOMAIN Ranked(I), Ranked(I)[a] = Ranked(I)[b]
  PROVE  a = b
<1> DEFINE R == Ranked(I)
<1>1. I \in SUBSET Nat /\ IsFiniteSet(I)
  BY IndexesFinite
<1>2. /\ Cardinality(I) \in Nat /\ DOMAIN R = 1..Cardinality(I)
      /\ \A n \in DOMAIN R : R[n] \in I
      /\ \A c, d \in DOMAIN R : c < d => R[c] < R[d]
  BY <1>1, RankedFinite
<1> HIDE DEF R
<1>3. a \in DOMAIN R /\ b \in DOMAIN R /\ R[a] = R[b]
  BY DEF R
<1>4. a \in Nat /\ b \in Nat
  BY <1>2, <1>3
<1>5. R[a] \in Nat
  BY <1>1, <1>2, <1>3
<1>6. ~(R[a] < R[b]) /\ ~(R[b] < R[a])
  BY <1>3, <1>5
<1> QED BY <1>2, <1>3, <1>4, <1>6

\* As many ranks as indexes, for any part J of them.
LEMMA RankedPart ==
  ASSUME NEW m \in Nat, NEW I \in SUBSET (1..m), NEW J \in SUBSET I
  PROVE  Cardinality({n \in DOMAIN Ranked(I) : Ranked(I)[n] \in J}) = Cardinality(J)
<1> DEFINE R == Ranked(I)
           N == {n \in DOMAIN R : R[n] \in J}
           F == [n \in N |-> R[n]]
<1>1. /\ Cardinality(I) \in Nat /\ DOMAIN R = 1..Cardinality(I)
      /\ \A i \in J : \E n \in DOMAIN R : R[n] = i
      /\ \A a, b \in DOMAIN R : R[a] = R[b] => a = b
  BY RankedType, RankedAll, RankedOnce
<1>2. IsFiniteSet(N)
  <2>1. IsFiniteSet(1..Cardinality(I))
    BY <1>1, FS_Interval
  <2>2. N \subseteq 1..Cardinality(I)
    BY <1>1
  <2> QED BY <2>1, <2>2, FS_Subset
<1> HIDE DEF R
<1>3. F \in [N -> J] /\ \A a, b \in N : F[a] = F[b] => a = b
  BY <1>1
<1>4. \A i \in J : \E n \in N : F[n] = i
  BY <1>1
<1> HIDE DEF F, N
<1>5. F \in Bijection(N, J)
  BY <1>3, <1>4 DEF Bijection, Injection, Surjection, IsInjective
<1>6. Cardinality(J) = Cardinality(N)
  BY <1>2, <1>5, FS_Bijection DEF ExistsBijection
<1> QED BY <1>6 DEF N, R

\* A part of a list that is the whole of it is the list.
LEMMA AtAllIndexes ==
  ASSUME NEW S, NEW s \in Seq(S)
  PROVE  AtIndexes(s, DOMAIN s) = s
<1> DEFINE m == Len(s)
           R == Ranked(1..m)
<1>1. m \in Nat /\ DOMAIN s = 1..m /\ s = [n \in 1..m |-> s[n]]
  OBVIOUS
<1>0. m \in Nat
  BY <1>1
<1> HIDE DEF m
<1>2. Cardinality(1..m) = m
  BY <1>0, FS_Interval
<1>3. ASSUME NEW i \in 1..m PROVE Cardinality({j \in 1..m : j <= i}) = i
  <2>1. i \in Nat /\ i <= m
    BY <1>1
  <2>2. {j \in 1..m : j <= i} = 1..i
    BY <1>1, <2>1
  <2>3. Cardinality(1..i) = i
    BY <2>1, FS_Interval
  <2> QED BY <2>2, <2>3
<1>4. DOMAIN R = 1..m
  BY <1>2 DEF Ranked
<1>5. ASSUME NEW n \in 1..m PROVE R[n] = n
  <2>1. R[n] = CHOOSE i \in 1..m : Cardinality({j \in 1..m : j <= i}) = n
    BY <1>2 DEF Ranked
  <2>2. \A i \in 1..m : Cardinality({j \in 1..m : j <= i}) = n <=> i = n
    BY <1>3
  <2> QED BY <2>1, <2>2
<1>6. AtIndexes(s, DOMAIN s) = [n \in DOMAIN R |-> s[R[n]]]
  BY <1>1 DEF AtIndexes
<1> HIDE DEF R
<1> QED BY <1>1, <1>4, <1>5, <1>6

\* The elements of what is filtered out of a sequence.
LEMMA AtIndexesSet ==
  ASSUME NEW S, NEW s \in Seq(S), NEW I \in SUBSET DOMAIN s
  PROVE  {AtIndexes(s, I)[n] : n \in DOMAIN AtIndexes(s, I)} = {s[i] : i \in I}
<1> DEFINE R == Ranked(I)
           t == AtIndexes(s, I)
<1>1. Len(s) \in Nat /\ I \in SUBSET (1..Len(s))
  OBVIOUS
<1>2. /\ \A n \in DOMAIN R : R[n] \in I
      /\ \A i \in I : \E n \in DOMAIN R : R[n] = i
  BY <1>1, RankedType, RankedAll
<1>3. t = [n \in DOMAIN R |-> s[R[n]]]
  BY DEF AtIndexes
<1> HIDE DEF R, t
<1>4. DOMAIN t = DOMAIN R /\ \A n \in DOMAIN R : t[n] = s[R[n]]
  BY <1>3
<1>5. {t[n] : n \in DOMAIN t} = {s[i] : i \in I}
  BY <1>2, <1>4
<1> QED BY <1>5 DEF t

=============================================================================
