----------------------- MODULE ModifierFlagListProofs -----------------------
(***************************************************************************)
(* Proofs about ModifierFlagList for any flags, any finite set of devices  *)
(* and a vector of any length: erase_pairs leaves no pair behind, and the  *)
(* vector implements the net counts of ModifierFlagCounts.                 *)
(***************************************************************************)
EXTENDS ModifierFlagList, Foundations

-----------------------------------------------------------------------------
(* The rounds of erase_pairs.                                              *)

\* g holds the state of the loop on s before and after each of its first m rounds.
HoldsRounds(g, s, m) ==
    g = [n \in 0..m |-> IF n = 0 THEN [v |-> s, i |-> 1] ELSE ErasePairsRound(g[n - 1])]

Rounds(s) == CHOOSE g : HoldsRounds(g, s, Len(s))

\* What erase_pairs leaves is the vector after the last round.
LEMMA ErasePairsRounds ==
    ASSUME NEW s
    PROVE  ErasePairs(s) = Rounds(s)[Len(s)].v
BY DEF ErasePairs, Rounds, HoldsRounds

\* The states of m rounds exist, for every m.
LEMMA RoundsUpto ==
    ASSUME NEW s, NEW m \in Nat
    PROVE  \E g : HoldsRounds(g, s, m)
<1> DEFINE Exists(k) == \E g : HoldsRounds(g, s, k)
           T == {k \in Nat : Exists(k)}
           Start == [v |-> s, i |-> 1]
<1>1. Exists(0)
  <2> DEFINE g == [n \in 0..0 |-> Start]
  <2>1. \A n \in 0..0 : n = 0
    OBVIOUS
  <2>2. HoldsRounds(g, s, 0)
    BY <2>1 DEF HoldsRounds
  <2> QED BY <2>2
<1>2. ASSUME NEW k \in Nat, Exists(k) PROVE Exists(k + 1)
  <2>1. PICK g : HoldsRounds(g, s, k)
    BY <1>2
  <2> DEFINE h == [n \in 0..k+1 |-> IF n = 0 THEN Start ELSE ErasePairsRound(g[n - 1])]
  <2>2. \A n \in 0..k : h[n] = g[n]
    <3>1. \A n \in 0..k : g[n] = IF n = 0 THEN Start ELSE ErasePairsRound(g[n - 1])
      BY <2>1 DEF HoldsRounds
    <3>2. \A n \in 0..k : n \in 0..k+1
      OBVIOUS
    <3> HIDE DEF Start
    <3> QED BY <3>1, <3>2
  <2>3. \A n \in 0..k+1 : n # 0 => n - 1 \in 0..k
    OBVIOUS
  <2>4. \A n \in 0..k+1 : n # 0 => h[n - 1] = g[n - 1]
    BY <2>2, <2>3
  <2>5. h = [n \in 0..k+1 |-> IF n = 0 THEN Start ELSE ErasePairsRound(h[n - 1])]
    <3> DEFINE A(n) == IF n = 0 THEN Start ELSE ErasePairsRound(g[n - 1])
               B(n) == IF n = 0 THEN Start ELSE ErasePairsRound(h[n - 1])
    <3>1. ASSUME NEW n \in 0..k+1 PROVE A(n) = B(n)
      <4>1. CASE n = 0
        BY <4>1
      <4>2. CASE n # 0
        <5>1. h[n - 1] = g[n - 1]
          BY <2>4, <4>2
        <5> HIDE DEF h
        <5> QED BY <4>2, <5>1
      <4> QED BY <4>1, <4>2
    <3> HIDE DEF A, B
    <3>2. [n \in 0..k+1 |-> A(n)] = [n \in 0..k+1 |-> B(n)]
      BY <3>1
    <3> QED BY <3>2 DEF A, B
  <2>6. HoldsRounds(h, s, k + 1)
    <3> HIDE DEF h
    <3> QED BY <2>5 DEF HoldsRounds
  <2> HIDE DEF h
  <2> QED BY <2>6
<1> HIDE DEF Exists
<1>3. T = Nat
  <2>1. T \in SUBSET Nat /\ 0 \in T /\ \A k \in T : k + 1 \in T
    BY <1>1, <1>2
  <2> HIDE DEF T
  <2> QED BY <2>1, Induction
<1>4. Exists(m)
  BY <1>3
<1> QED BY <1>4 DEF Exists

\* So the loop starts at the first entry and goes on round by round.
LEMMA RoundsStep ==
    ASSUME NEW s, Len(s) \in Nat
    PROVE  /\ Rounds(s)[0] = [v |-> s, i |-> 1]
           /\ \A n \in 0..Len(s) - 1 : Rounds(s)[n + 1] = ErasePairsRound(Rounds(s)[n])
<1> DEFINE g == Rounds(s)
           m == Len(s)
<1>1. \E h : HoldsRounds(h, s, m)
  BY RoundsUpto
<1>2. HoldsRounds(g, s, m)
  BY <1>1 DEF Rounds
<1> HIDE DEF g
<1>3. \A n \in 0..m : g[n] = IF n = 0 THEN [v |-> s, i |-> 1] ELSE ErasePairsRound(g[n - 1])
  BY <1>2 DEF HoldsRounds
<1>4. g[0] = [v |-> s, i |-> 1]
  BY <1>3
<1>5. ASSUME NEW n \in 0..m - 1 PROVE g[n + 1] = ErasePairsRound(g[n])
  <2>1. n + 1 \in 0..m /\ n + 1 # 0 /\ (n + 1) - 1 = n
    OBVIOUS
  <2> QED BY <1>3, <2>1
<1> QED BY <1>4, <1>5 DEF g

-----------------------------------------------------------------------------
(* What erase_pairs leaves of a vector without pairs and a pushed entry.   *)

Unpaired(s) == \A i, j \in DOMAIN s : ~IsPaired(s[i], s[j])

Partner(e) == [e EXCEPT !.count = -e.count]

\* An entry has the fields of one, and the LED's lock is a type of its own.
LEMMA EntryFields ==
    ASSUME NEW e \in Entries
    PROVE  /\ e = [kind |-> e.kind, flag |-> e.flag, device |-> e.device, count |-> e.count]
           /\ e.kind \in Kinds /\ e.flag \in Flags /\ e.count \in {-1, 1}
           /\ e.kind = "led_lock" <=> e.device = DeviceZero
           /\ e.kind # "led_lock" <=> e.device \in DeviceIds
           /\ e.kind = "led_lock" => e.count = 1
BY ListAssumption DEF Entries, Kinds

\* It is paired with its partner only, and not with itself.
LEMMA Pairs ==
    ASSUME NEW a \in Entries, NEW b \in Entries
    PROVE  /\ IsPaired(a, b) <=> a = Partner(b)
           /\ IsPaired(a, b) <=> IsPaired(b, a)
           /\ ~IsPaired(a, a)
<1>1. /\ a = [kind |-> a.kind, flag |-> a.flag, device |-> a.device, count |-> a.count]
      /\ a.count \in {-1, 1}
  BY EntryFields
<1>2. /\ b = [kind |-> b.kind, flag |-> b.flag, device |-> b.device, count |-> b.count]
      /\ b.count \in {-1, 1}
  BY EntryFields
<1>3. Partner(b) = [kind |-> b.kind, flag |-> b.flag, device |-> b.device, count |-> -b.count]
  BY <1>2 DEF Partner
<1>4. IsPaired(a, b) => a = Partner(b)
  BY <1>1, <1>3 DEF IsPaired
<1>5. a = Partner(b) => IsPaired(a, b)
  BY <1>3 DEF IsPaired
<1>6. (IsPaired(a, b) <=> IsPaired(b, a)) /\ ~IsPaired(a, a)
  BY <1>1, <1>2 DEF IsPaired
<1> QED BY <1>4, <1>5, <1>6

\* A round finds nothing in a vector without pairs.
LEMMA RoundUnpaired ==
    ASSUME NEW u \in Seq(Entries), Unpaired(u), NEW i \in Nat \ {0}
    PROVE  \E k \in Nat \ {0} : ErasePairsRound([v |-> u, i |-> i]) = [v |-> u, i |-> k]
<1> DEFINE c == [v |-> u, i |-> i]
           paired == {j \in c.i + 1 .. Len(c.v) : IsPaired(c.v[c.i], c.v[j])}
<1>1. CASE i > Len(u)
  <2>1. ErasePairsRound(c) = c
    BY <1>1 DEF ErasePairsRound
  <2> QED BY <2>1
<1>2. CASE ~(i > Len(u))
  <2>1. i <= Len(u) /\ i \in DOMAIN u
    BY <1>2
  <2>2. paired = {}
    BY <2>1 DEF Unpaired
  <2>3. ErasePairsRound(c) = [c EXCEPT !.i = @ + 1]
    BY <1>2, <2>1, <2>2 DEF ErasePairsRound
  <2>4. ErasePairsRound(c) = [v |-> u, i |-> i + 1]
    BY <2>3
  <2> QED BY <2>4
<1> QED BY <1>1, <1>2

\* Up to the first entry that is paired with the pushed one the loop moves on.
LEMMA RoundsBefore ==
    ASSUME NEW s \in Seq(Entries), Unpaired(s), NEW e \in Entries,
           NEW k \in 0..Len(s) + 1, \A j \in DOMAIN s : j <= k => ~IsPaired(s[j], e)
    PROVE  Rounds(Append(s, e))[k] = [v |-> Append(s, e), i |-> k + 1]
<1> DEFINE t == Append(s, e)
           g == Rounds(t)
           T == {n \in Nat : n <= k => g[n] = [v |-> t, i |-> n + 1]}
<1>1. t \in Seq(Entries) /\ Len(t) = Len(s) + 1 /\ Len(t) \in Nat
  OBVIOUS
<1>2. g[0] = [v |-> t, i |-> 1] /\ \A n \in 0..Len(t) - 1 : g[n + 1] = ErasePairsRound(g[n])
  BY <1>1, RoundsStep
<1>3. DOMAIN t = 1..Len(s) + 1 /\ t[Len(s) + 1] = e /\ \A j \in 1..Len(s) : t[j] = s[j]
  OBVIOUS
<1> HIDE DEF t, g
<1>4. 0 \in T
  BY <1>2
<1>5. ASSUME NEW n \in T PROVE n + 1 \in T
  <2> SUFFICES ASSUME n + 1 <= k PROVE g[n + 1] = [v |-> t, i |-> (n + 1) + 1]
    OBVIOUS
  <2>1. n \in Nat /\ n <= k /\ n \in 0..Len(t) - 1 /\ n + 1 \in 1..Len(s) + 1
    BY <1>1
  <2> DEFINE c == [v |-> t, i |-> n + 1]
             paired == {j \in c.i + 1 .. Len(c.v) : IsPaired(c.v[c.i], c.v[j])}
  <2>2. g[n] = c /\ g[n + 1] = ErasePairsRound(c)
    BY <1>2, <2>1
  <2>3. ASSUME NEW j \in (n + 1) + 1 .. Len(t) PROVE ~IsPaired(t[n + 1], t[j])
    <3>1. n + 1 \in DOMAIN s /\ t[n + 1] = s[n + 1]
      <4>1. n + 1 \in 1..Len(s) /\ DOMAIN s = 1..Len(s)
        BY <1>1, <2>1
      <4> QED BY <1>3, <4>1
    <3>2. CASE j = Len(s) + 1
      <4>1. t[j] = e /\ ~IsPaired(s[n + 1], e)
        BY <1>3, <3>1, <3>2
      <4> QED BY <3>1, <4>1
    <3>3. CASE j # Len(s) + 1
      <4>1. j \in DOMAIN s /\ t[j] = s[j]
        BY <1>1, <1>3, <2>1, <3>3, SMTT(30)
      <4> QED BY <3>1, <4>1 DEF Unpaired
    <3> QED BY <3>2, <3>3
  <2>4. paired = {}
    BY <2>3
  <2>5. c.i <= Len(c.v) /\ ~(c.i > Len(c.v))
    BY <1>1, <2>1
  <2>6. ErasePairsRound(c) = [c EXCEPT !.i = @ + 1]
    BY <2>4, <2>5 DEF ErasePairsRound
  <2> QED BY <2>2, <2>6
<1>6. T = Nat
  <2>1. T \in SUBSET Nat
    OBVIOUS
  <2> HIDE DEF T
  <2> QED BY <1>4, <1>5, <2>1, Induction
<1>7. g[k] = [v |-> t, i |-> k + 1]
  <2>1. k \in Nat /\ k <= k
    OBVIOUS
  <2>2. k \in T
    BY <1>6, <2>1
  <2> QED BY <2>1, <2>2
<1> QED BY <1>7 DEF t, g

\* Nothing is erased if the pushed entry has no partner.
LEMMA ErasePairsNothing ==
    ASSUME NEW s \in Seq(Entries), Unpaired(s), NEW e \in Entries,
           \A j \in DOMAIN s : ~IsPaired(s[j], e)
    PROVE  ErasePairs(Append(s, e)) = Append(s, e)
<1> DEFINE t == Append(s, e)
<1>1. Len(t) = Len(s) + 1 /\ Len(s) + 1 \in 0..Len(s) + 1
  OBVIOUS
<1>2. Rounds(t)[Len(s) + 1] = [v |-> t, i |-> (Len(s) + 1) + 1]
  BY <1>1, RoundsBefore
<1> HIDE DEF t
<1>3. ErasePairs(t) = Rounds(t)[Len(t)].v
  BY ErasePairsRounds
<1> QED BY <1>1, <1>2, <1>3 DEF t

\* Elements of a vector without pairs are a vector without pairs.
LEMMA UnpairedPart ==
    ASSUME NEW s \in Seq(Entries), NEW I \in SUBSET DOMAIN s,
           \A i, j \in I : ~IsPaired(s[i], s[j])
    PROVE  AtIndexes(s, I) \in Seq(Entries) /\ Unpaired(AtIndexes(s, I))
<1>1. Len(s) \in Nat /\ I \in SUBSET (1..Len(s))
  OBVIOUS
<1>2. AtIndexes(s, I) \in Seq(Entries)
  BY AtIndexesType
<1> DEFINE idx == Ranked(I)
<1>3. \A n \in DOMAIN idx : idx[n] \in I
  BY <1>1, RankedType
<1>4. AtIndexes(s, I) = [n \in DOMAIN idx |-> s[idx[n]]]
  BY DEF AtIndexes
<1> HIDE DEF idx
<1> QED BY <1>2, <1>3, <1>4 DEF Unpaired

\* The pushed entry and the first entry that it is paired with are erased, and
\* nothing else, wherever that entry is.
LEMMA ErasePairsPair ==
    ASSUME NEW s \in Seq(Entries), Unpaired(s), NEW e \in Entries,
           NEW k \in DOMAIN s, IsPaired(s[k], e),
           \A j \in DOMAIN s : j < k => ~IsPaired(s[j], e)
    PROVE  /\ ErasePairs(Append(s, e)) = AtIndexes(Append(s, e), DOMAIN s \ {k})
           /\ AtIndexes(Append(s, e), DOMAIN s \ {k}) \in Seq(Entries)
           /\ Unpaired(AtIndexes(Append(s, e), DOMAIN s \ {k}))
<1> DEFINE t == Append(s, e)
           g == Rounds(t)
           m == Len(s)
           I == DOMAIN s \ {k}
           u == AtIndexes(t, I)
           Done(n) == \E i \in Nat \ {0} : g[n] = [v |-> u, i |-> i]
           T == {n \in Nat : k <= n /\ n <= m + 1 => Done(n)}
<1>1. /\ t \in Seq(Entries) /\ Len(t) = m + 1 /\ m \in Nat /\ DOMAIN s = 1..m
      /\ DOMAIN t = 1..m + 1 /\ t[m + 1] = e /\ \A j \in 1..m : t[j] = s[j]
  OBVIOUS
<1>2. k \in Nat /\ k >= 1 /\ k <= m /\ k - 1 \in 0..m + 1
  BY <1>1
<1>3. g[k - 1] = [v |-> t, i |-> k]
  <2>1. \A j \in DOMAIN s : j <= k - 1 => ~IsPaired(s[j], e)
    BY <1>1, <1>2
  <2>2. g[k - 1] = [v |-> t, i |-> (k - 1) + 1]
    BY <1>2, <2>1, RoundsBefore
  <2>3. (k - 1) + 1 = k
    BY <1>2
  <2> HIDE DEF t, g
  <2> QED BY <2>2, <2>3
<1>4. u \in Seq(Entries) /\ Unpaired(u)
  <2>1. I \in SUBSET DOMAIN t /\ \A i, j \in I : ~IsPaired(t[i], t[j])
    BY <1>1 DEF Unpaired
  <2> HIDE DEF t, I
  <2> QED BY <1>1, <2>1, UnpairedPart
<1>5. \A n \in 0..m : g[n + 1] = ErasePairsRound(g[n])
  <2>1. Len(t) \in Nat /\ Len(t) - 1 = m
    BY <1>1
  <2> HIDE DEF t, m
  <2> QED BY <2>1, RoundsStep
<1>6. Done(k)
  <2> DEFINE c == [v |-> t, i |-> k]
             paired == {j \in c.i + 1 .. Len(c.v) : IsPaired(c.v[c.i], c.v[j])}
  <2>1. (k - 1) + 1 = k /\ k - 1 \in 0..m
    BY <1>2
  <2>2. g[k] = ErasePairsRound(c)
    BY <1>3, <1>5, <2>1
  <2>3. paired = {m + 1}
    <3>1. \A j \in k + 1 .. m + 1 : IsPaired(t[k], t[j]) <=> j = m + 1
      <4> SUFFICES ASSUME NEW j \in k + 1 .. m + 1
                   PROVE  IsPaired(t[k], t[j]) <=> j = m + 1
        OBVIOUS
      <4>1. t[k] = s[k]
        BY <1>1
      <4>2. CASE j = m + 1
        BY <1>1, <4>1, <4>2
      <4>3. CASE j # m + 1
        <5>1. j \in DOMAIN s /\ t[j] = s[j]
          BY <1>1, <1>2, <4>3
        <5> QED BY <4>1, <4>3, <5>1 DEF Unpaired
      <4> QED BY <4>2, <4>3
    <3>2. m + 1 \in k + 1 .. m + 1
      BY <1>2, <1>1
    <3> HIDE DEF t, m
    <3> QED BY <1>1, <3>1, <3>2
  <2>4. Min({m + 1}) = m + 1
    <3>1. m + 1 \in Nat /\ m + 1 <= m + 1
      BY <1>1
    <3> QED BY <3>1 DEF Min
  <2>5. ~(c.i > Len(c.v)) /\ c.i <= Len(c.v) /\ paired # {}
    BY <1>1, <1>2, <2>3
  <2>6. ErasePairsRound(c) = [v |-> AtIndexes(c.v, DOMAIN c.v \ {c.i, Min(paired)}),
                              i |-> IF c.i > 1 THEN c.i ELSE 2]
    BY <2>5, Zenon DEF ErasePairsRound
  <2>7. DOMAIN t \ {k, m + 1} = I
    BY <1>1
  <2> HIDE DEF paired, t, m
  <2>8. ErasePairsRound(c) = [v |-> u, i |-> IF k > 1 THEN k ELSE 2]
    BY <2>3, <2>4, <2>6, <2>7
  <2> QED BY <1>2, <2>2, <2>8
<1> HIDE DEF u, t, g, m
<1>7. 0 \in T
  BY <1>2
<1>8. ASSUME NEW n \in T PROVE n + 1 \in T
  <2> SUFFICES ASSUME k <= n + 1, n + 1 <= m + 1
               PROVE  Done(n + 1)
    <3> HIDE DEF Done
    <3> QED OBVIOUS
  <2>1. CASE n + 1 = k
    BY <1>6, <2>1
  <2>2. CASE n + 1 # k
    <3>1. n \in Nat /\ k <= n /\ n <= m + 1 /\ n \in 0..m
      BY <1>1, <1>2, <2>2
    <3>2. PICK i \in Nat \ {0} : g[n] = [v |-> u, i |-> i]
      <4>1. Done(n)
        <5> HIDE DEF Done
        <5> QED BY <3>1
      <4> QED BY <4>1
    <3>3. g[n + 1] = ErasePairsRound([v |-> u, i |-> i])
      BY <1>5, <3>1, <3>2
    <3>4. \E j \in Nat \ {0} : ErasePairsRound([v |-> u, i |-> i]) = [v |-> u, i |-> j]
      BY <1>4, RoundUnpaired
    <3> QED BY <3>3, <3>4
  <2> QED BY <2>1, <2>2
<1>9. T = Nat
  <2>1. T \in SUBSET Nat
    OBVIOUS
  <2> HIDE DEF T
  <2> QED BY <1>7, <1>8, <2>1, Induction
<1>10. Done(m + 1)
  <2>1. m + 1 \in Nat /\ k <= m + 1 /\ m + 1 <= m + 1
    BY <1>1, <1>2
  <2> HIDE DEF Done
  <2>2. m + 1 \in T
    BY <1>9, <2>1
  <2> QED BY <2>1, <2>2
<1>11. ErasePairs(t) = u
  <2>1. ErasePairs(t) = g[m + 1].v
    BY <1>1, ErasePairsRounds DEF g
  <2> QED BY <1>10, <2>1
<1> QED BY <1>4, <1>11 DEF t, u

-----------------------------------------------------------------------------
(* How often an entry occurs.                                              *)

\* Where the vector s holds x.
Where(s, x) == {i \in DOMAIN s : s[i] = x}

\* The numbers are numbers, of entries there are.
LEMMA NumType ==
    ASSUME NEW S, NEW s \in Seq(S), NEW x
    PROVE  /\ IsFiniteSet(Where(s, x))
           /\ NumEntries(s, x) = Cardinality(Where(s, x))
           /\ NumEntries(s, x) \in Nat
           /\ NumEntries(s, x) > 0 <=> \E i \in DOMAIN s : s[i] = x
           /\ x \notin S => NumEntries(s, x) = 0
<1> DEFINE I == Where(s, x)
<1>1. Len(s) \in Nat /\ I \subseteq 1..Len(s)
  BY DEF Where
<1>2. IsFiniteSet(I)
  <2>1. IsFiniteSet(1..Len(s))
    BY <1>1, FS_Interval
  <2> HIDE DEF I
  <2> QED BY <1>1, <2>1, FS_Subset
<1>3. Cardinality(I) \in Nat /\ (Cardinality(I) = 0 <=> I = {})
  BY <1>2, FS_CardinalityType, FS_EmptySet
<1>4. x \notin S => I = {}
  BY DEF Where
<1>5. NumEntries(s, x) = Cardinality(I) /\ (I # {} <=> \E i \in DOMAIN s : s[i] = x)
  BY DEF NumEntries, Where
<1> HIDE DEF I
<1>6. NumEntries(s, x) > 0 <=> I # {}
  BY <1>3, <1>5
<1> QED BY <1>2, <1>3, <1>4, <1>5, <1>6 DEF I

\* Of the indexes that are kept.
LEMMA NumAtIndexes ==
    ASSUME NEW S, NEW s \in Seq(S), NEW I \in SUBSET DOMAIN s, NEW x
    PROVE  NumEntries(AtIndexes(s, I), x) = Cardinality(Where(s, x) \cap I)
<1> DEFINE R == Ranked(I)
           J == Where(s, x) \cap I
           u == AtIndexes(s, I)
<1>0. Len(s) \in Nat /\ I \in SUBSET (1..Len(s)) /\ J \in SUBSET I
  OBVIOUS
<1>1. Cardinality({n \in DOMAIN R : R[n] \in J}) = Cardinality(J)
  <2> HIDE DEF J
  <2> QED BY <1>0, RankedPart
<1>2. \A n \in DOMAIN R : R[n] \in I
  BY <1>0, RankedType
<1>3. u = [n \in DOMAIN R |-> s[R[n]]]
  BY DEF AtIndexes
<1> HIDE DEF R, u
<1>4. {n \in DOMAIN u : u[n] = x} = {n \in DOMAIN R : R[n] \in J}
  BY <1>2, <1>3 DEF Where
<1> QED BY <1>1, <1>4 DEF NumEntries, u

\* One more after a push.
LEMMA NumAppend ==
    ASSUME NEW s \in Seq(Entries), NEW e \in Entries, NEW x
    PROVE  NumEntries(Append(s, e), x) = NumEntries(s, x) + (IF x = e THEN 1 ELSE 0)
<1> DEFINE t == Append(s, e)
           m == Len(s)
           I == Where(s, x)
           J == Where(t, x)
<1>1. /\ m \in Nat /\ DOMAIN s = 1..m /\ DOMAIN t = 1..m + 1
      /\ t[m + 1] = e /\ \A j \in 1..m : t[j] = s[j]
  OBVIOUS
<1>2. IsFiniteSet(I) /\ Cardinality(I) \in Nat
  BY NumType
<1>7. NumEntries(t, x) = Cardinality(J) /\ NumEntries(s, x) = Cardinality(I)
  BY DEF NumEntries, Where
<1> HIDE DEF t, m
<1>3. \A j : j \in 1..m + 1 <=> j \in 1..m \/ j = m + 1
  BY <1>1
<1>4. m + 1 \notin I
  BY <1>1 DEF Where
<1>5. CASE x = e
  <2>1. J = I \cup {m + 1}
    BY <1>1, <1>3, <1>5 DEF Where
  <2>2. Cardinality(I \cup {m + 1}) = Cardinality(I) + 1
    <3> HIDE DEF I
    <3> QED BY <1>2, <1>4, FS_AddElement
  <2> QED BY <1>5, <1>7, <2>1, <2>2 DEF t
<1>6. CASE x # e
  <2>1. J = I
    BY <1>1, <1>3, <1>6 DEF Where
  <2> HIDE DEF I, J
  <2> QED BY <1>2, <1>6, <1>7, <2>1 DEF t
<1> QED BY <1>5, <1>6

\* In u there is one e more than in s, or one partner of e less if there is one.
Pushed(u, s, e) ==
    \A x : NumEntries(u, x) = IF NumEntries(s, Partner(e)) > 0
                              THEN NumEntries(s, x) - (IF x = Partner(e) THEN 1 ELSE 0)
                              ELSE NumEntries(s, x) + (IF x = e THEN 1 ELSE 0)

\* What a push leaves: the entry, unless a partner went with it.
LEMMA PushLeaves ==
    ASSUME NEW s \in Seq(Entries), Unpaired(s), NEW e \in Entries
    PROVE  LET u == ErasePairs(Append(s, e))
           IN  u \in Seq(Entries) /\ Unpaired(u) /\ Pushed(u, s, e)
<1> DEFINE t == Append(s, e)
           u == ErasePairs(t)
           p == Partner(e)
           P == {i \in DOMAIN s : IsPaired(s[i], e)}
<1>1. P = {i \in DOMAIN s : s[i] = p}
  BY Pairs
<1>2. NumEntries(s, p) > 0 <=> P # {}
  <2>1. NumEntries(s, p) > 0 <=> \E i \in DOMAIN s : s[i] = p
    BY NumType
  <2> QED BY <1>1, <2>1
<1>3. /\ t \in Seq(Entries) /\ DOMAIN s = 1..Len(s) /\ Len(s) \in Nat
      /\ \A j \in DOMAIN s : j \in DOMAIN t /\ t[j] = s[j]
  OBVIOUS
<1>4. CASE P = {}
  <2>1. u = t
    BY <1>4, ErasePairsNothing
  <2>2. Unpaired(t)
    <3>1. DOMAIN t = 1..Len(s) + 1 /\ t[Len(s) + 1] = e
      OBVIOUS
    <3>2. \A j \in DOMAIN t : t[j] = e \/ (j \in DOMAIN s /\ t[j] = s[j])
      BY <1>3, <3>1
    <3>3. \A j \in DOMAIN s : ~IsPaired(s[j], e) /\ ~IsPaired(e, s[j])
      BY <1>4, Pairs
    <3>4. ~IsPaired(e, e)
      BY Pairs
    <3> HIDE DEF t
    <3> QED BY <3>2, <3>3, <3>4 DEF Unpaired
  <2>3. \A x : NumEntries(u, x) = NumEntries(s, x) + (IF x = e THEN 1 ELSE 0)
    BY <2>1, NumAppend
  <2> HIDE DEF u, t, p, P
  <2> QED BY <1>2, <1>3, <1>4, <2>1, <2>2, <2>3 DEF u, t, p, Pushed
<1>5. CASE P # {}
  <2>1. P \in SUBSET Nat
    BY <1>3
  <2>2. PICK k \in P : \A j \in P : k <= j
    BY <1>5, <2>1, Smallest
  <2> DEFINE I == DOMAIN s \ {k}
             w == AtIndexes(t, I)
  <2>3. k \in DOMAIN s /\ IsPaired(s[k], e) /\ s[k] = p
    BY <1>1
  <2>4. \A j \in DOMAIN s : j < k => ~IsPaired(s[j], e)
    <3> SUFFICES ASSUME NEW j \in DOMAIN s, j < k, IsPaired(s[j], e) PROVE FALSE
      OBVIOUS
    <3>1. j \in P /\ j \in Nat /\ k \in Nat
      BY <1>3, <2>3
    <3> QED BY <2>2, <3>1
  <2>5. u = w /\ w \in Seq(Entries) /\ Unpaired(w)
    BY <2>3, <2>4, ErasePairsPair
  <2>6. ASSUME NEW x
        PROVE  NumEntries(u, x) = NumEntries(s, x) - (IF x = p THEN 1 ELSE 0)
    <3> DEFINE X == Where(s, x)
               Y == Where(t, x) \cap I
    <3>1. NumEntries(w, x) = Cardinality(Y)
      <4>1. I \in SUBSET DOMAIN t
        BY <1>3
      <4> HIDE DEF I, t
      <4> QED BY <1>3, <4>1, NumAtIndexes
    <3>2. Y = X \ {k}
      BY <1>3 DEF Where
    <3>3. IsFiniteSet(X) /\ NumEntries(s, x) = Cardinality(X) /\ Cardinality(X) \in Nat
      BY NumType
    <3>4. CASE x = p
      <4>1. k \in X
        BY <2>3, <3>4 DEF Where
      <4>2. Cardinality(X \ {k}) = Cardinality(X) - 1
        <5> HIDE DEF X
        <5> QED BY <3>3, <4>1, FS_RemoveElement
      <4> HIDE DEF X, Y, u, w, p
      <4> QED BY <2>5, <3>1, <3>2, <3>3, <3>4, <4>2
    <3>5. CASE x # p
      <4>1. X \ {k} = X
        BY <2>3, <3>5 DEF Where
      <4> HIDE DEF X, Y, u, w, p
      <4>2. NumEntries(u, x) = NumEntries(s, x) /\ NumEntries(s, x) \in Nat
        BY <2>5, <3>1, <3>2, <3>3, <4>1
      <4> QED BY <3>5, <4>2
    <3> QED BY <3>4, <3>5
  <2> HIDE DEF u, w, p, P
  <2> QED BY <1>2, <1>5, <2>5, <2>6 DEF u, p, Pushed
<1> QED BY <1>4, <1>5

\* The vector without the entries in Q: what remove_if does.
Kept(s, Q) == AtIndexes(s, {i \in DOMAIN s : s[i] \notin Q})

\* It has no other entries less.
LEMMA KeptLeaves ==
    ASSUME NEW s \in Seq(Entries), Unpaired(s), NEW Q
    PROVE  LET u == Kept(s, Q)
           IN  /\ u \in Seq(Entries) /\ Unpaired(u)
               /\ \A x : NumEntries(u, x) = IF x \in Q THEN 0 ELSE NumEntries(s, x)
<1> DEFINE I == {i \in DOMAIN s : s[i] \notin Q}
           u == AtIndexes(s, I)
<1>1. Len(s) \in Nat /\ DOMAIN s = 1..Len(s) /\ I \in SUBSET (1..Len(s))
  OBVIOUS
<1>2. u \in Seq(Entries) /\ Unpaired(u)
  <2>1. I \in SUBSET DOMAIN s /\ \A i, j \in I : ~IsPaired(s[i], s[j])
    BY DEF Unpaired
  <2> HIDE DEF I
  <2> QED BY <2>1, UnpairedPart
<1>3. ASSUME NEW x PROVE NumEntries(u, x) = IF x \in Q THEN 0 ELSE NumEntries(s, x)
  <2> DEFINE J == Where(s, x) \cap I
  <2>1. NumEntries(u, x) = Cardinality(J)
    <3>1. I \in SUBSET DOMAIN s
      OBVIOUS
    <3> HIDE DEF I
    <3> QED BY <3>1, NumAtIndexes
  <2>2. CASE x \in Q
    <3>1. J = {}
      BY <2>2 DEF Where
    <3> HIDE DEF J, u
    <3> QED BY <2>1, <2>2, <3>1, FS_EmptySet
  <2>3. CASE x \notin Q
    <3>1. J = Where(s, x)
      BY <2>3 DEF Where
    <3>2. NumEntries(s, x) = Cardinality(Where(s, x))
      BY NumType
    <3> HIDE DEF J, u
    <3> QED BY <2>1, <2>3, <3>1, <3>2
  <2> QED BY <2>2, <2>3
<1> HIDE DEF u
<1> QED BY <1>2, <1>3 DEF u, Kept

-----------------------------------------------------------------------------
(* The inductive invariant: besides that it has no pairs, the vector holds *)
(* a lock entry once, and no entry more often than MaxCount allows.        *)

VectorOK(s) ==
    /\ s \in Seq(Entries)
    /\ Unpaired(s)
    /\ \A e \in Entries : NumEntries(s, e) <= (IF e.kind = "lock" THEN 1 ELSE MaxCount)

IInv == VectorOK(active_modifier_flags)

\* The entries that a call can make.
LEMMA EntryMade ==
    ASSUME NEW kind \in Kinds, NEW f \in Flags, NEW d \in DeviceIds, NEW count \in {-1, 1}
    PROVE  /\ kind # "led_lock" =>
                /\ Entry(kind, f, d, count) \in Entries
                /\ Entry(kind, f, d, count) =
                        [kind |-> kind, flag |-> f, device |-> d, count |-> count]
           /\ Entry("led_lock", f, d, count) =
                [kind |-> "led_lock", flag |-> f, device |-> DeviceZero, count |-> count]
           /\ Entry("led_lock", f, d, count) = Entry("led_lock", f, DeviceZero, count)
           /\ Entry("led_lock", f, d, 1) \in Entries
           /\ Entry("led_lock", f, d, -1) \notin Entries
BY DEF Entry, Entries, Kinds

\* The inverse of an entry is made by the opposite call.
LEMMA PartnerMade ==
    ASSUME NEW kind \in Kinds, NEW f, NEW d, NEW count \in {-1, 1}
    PROVE  Partner(Entry(kind, f, d, count)) = Entry(kind, f, d, -count)
BY DEF Partner, Entry

\* The net count of a kind, flag and device is changed by a push of its own
\* entries only, and by the count of that entry, with or without a partner.
LEMMA NetPush ==
    ASSUME NEW s \in Seq(Entries), NEW u, NEW e \in Entries, Pushed(u, s, e),
           NEW kind \in Kinds, NEW f, NEW d
    PROVE  NetCount(u, kind, f, d) =
             NetCount(s, kind, f, d) + (CASE e = Entry(kind, f, d, 1) -> 1
                                          [] e = Entry(kind, f, d, -1) -> -1
                                          [] OTHER -> 0)
<1> DEFINE a == Entry(kind, f, d, 1)
           b == Entry(kind, f, d, -1)
           p == Partner(e)
<1>1. Partner(a) = b /\ Partner(b) = a /\ a # b
  <2>1. Partner(a) = b
    BY DEF Partner, Entry
  <2>2. Partner(b) = a
    <3>1. PICK z \in Int : z + 1 = 0
      OBVIOUS
    <3>2. z = -1 /\ -z = 1
      BY <3>1
    <3>3. Entry(kind, f, d, z).count = z
      BY DEF Entry
    <3>4. Partner(Entry(kind, f, d, z)) = Entry(kind, f, d, -z)
      BY <3>3 DEF Partner, Entry
    <3> QED BY <3>2, <3>4
  <2>3. a.count = 1 /\ b.count = -1
    BY DEF Entry
  <2> QED BY <2>1, <2>2, <2>3
<1>2. Partner(p) = e
  <2>1. /\ e = [kind |-> e.kind, flag |-> e.flag, device |-> e.device, count |-> e.count]
        /\ e.count \in {-1, 1}
    BY EntryFields
  <2>2. -(-e.count) = e.count
    BY <2>1
  <2>3. p = [kind |-> e.kind, flag |-> e.flag, device |-> e.device, count |-> -e.count]
    BY <2>1 DEF Partner
  <2>4. Partner(p) =
          [kind |-> e.kind, flag |-> e.flag, device |-> e.device, count |-> -(-e.count)]
    <3> HIDE DEF p
    <3> QED BY <2>3 DEF Partner
  <2> QED BY <2>1, <2>2, <2>4
<1>3. NumEntries(s, a) \in Nat /\ NumEntries(s, b) \in Nat
  BY NumType
<1>4. /\ NetCount(u, kind, f, d) = NumEntries(u, a) - NumEntries(u, b)
      /\ NetCount(s, kind, f, d) = NumEntries(s, a) - NumEntries(s, b)
  BY DEF NetCount
<1> HIDE DEF a, b, p
<1>5. /\ NumEntries(u, a) = IF NumEntries(s, p) > 0
                            THEN NumEntries(s, a) - (IF a = p THEN 1 ELSE 0)
                            ELSE NumEntries(s, a) + (IF a = e THEN 1 ELSE 0)
      /\ NumEntries(u, b) = IF NumEntries(s, p) > 0
                            THEN NumEntries(s, b) - (IF b = p THEN 1 ELSE 0)
                            ELSE NumEntries(s, b) + (IF b = e THEN 1 ELSE 0)
  BY DEF p, Pushed
<1>6. CASE e = a
  <2>1. p = b
    BY <1>1, <1>6 DEF p
  <2>2. NumEntries(u, a) - NumEntries(u, b) = NumEntries(s, a) - NumEntries(s, b) + 1
    BY <1>1, <1>3, <1>5, <1>6, <2>1
  <2> QED BY <1>1, <1>4, <1>6, <2>2 DEF a, b
<1>7. CASE e = b
  <2>1. p = a
    BY <1>1, <1>7 DEF p
  <2>2. NumEntries(u, a) - NumEntries(u, b) = NumEntries(s, a) - NumEntries(s, b) + (-1)
    BY <1>1, <1>3, <1>5, <1>7, <2>1
  <2> QED BY <1>1, <1>4, <1>7, <2>2 DEF a, b
<1>8. CASE e # a /\ e # b
  <2>1. p # a /\ p # b
    BY <1>1, <1>2, <1>8
  <2>2. NumEntries(u, a) - NumEntries(u, b) = NumEntries(s, a) - NumEntries(s, b)
    BY <1>3, <1>5, <1>8, <2>1
  <2> QED BY <1>3, <1>4, <1>8, <2>2 DEF a, b
<1> QED BY <1>6, <1>7, <1>8

\* No entry is there together with its partner.
LEMMA NotBoth ==
    ASSUME NEW s \in Seq(Entries), Unpaired(s), NEW e \in Entries
    PROVE  NumEntries(s, e) = 0 \/ NumEntries(s, Partner(e)) = 0
<1> SUFFICES ASSUME NumEntries(s, e) # 0, NumEntries(s, Partner(e)) # 0 PROVE FALSE
  OBVIOUS
<1>1. NumEntries(s, e) > 0 /\ NumEntries(s, Partner(e)) > 0
  <2>1. NumEntries(s, e) \in Nat /\ NumEntries(s, Partner(e)) \in Nat
    BY NumType
  <2> QED BY <2>1
<1>2. PICK i \in DOMAIN s : s[i] = e
  BY <1>1, NumType
<1>3. PICK j \in DOMAIN s : s[j] = Partner(e)
  BY <1>1, NumType
<1>4. s[j] \in Entries /\ IsPaired(s[j], s[i])
  BY <1>2, <1>3, Pairs
<1> QED BY <1>4 DEF Unpaired

\* A push keeps the bounds where there is room for the entry.
LEMMA PushedOK ==
    ASSUME NEW s, VectorOK(s), NEW u \in Seq(Entries), Unpaired(u), NEW e \in Entries,
           Pushed(u, s, e),
           NumEntries(s, e) < (IF e.kind = "lock" THEN 1 ELSE MaxCount)
    PROVE  VectorOK(u)
<1> SUFFICES ASSUME NEW x \in Entries
             PROVE  NumEntries(u, x) <= (IF x.kind = "lock" THEN 1 ELSE MaxCount)
  BY DEF VectorOK
<1> DEFINE bound == IF x.kind = "lock" THEN 1 ELSE MaxCount
<1>1. NumEntries(s, x) <= bound /\ bound \in Nat
  BY ListAssumption DEF VectorOK
<1>2. s \in Seq(Entries)
  BY DEF VectorOK
<1>3. NumEntries(s, x) \in Nat
  BY <1>2, NumType
<1>4. \/ NumEntries(u, x) = NumEntries(s, x) - 1
      \/ NumEntries(u, x) = NumEntries(s, x)
      \/ x = e /\ NumEntries(u, x) = NumEntries(s, x) + 1
  BY <1>3 DEF Pushed
<1>5. x = e => NumEntries(s, x) < bound
  OBVIOUS
<1> HIDE DEF bound
<1>6. NumEntries(u, x) <= bound
  BY <1>1, <1>3, <1>4, <1>5
<1> QED BY <1>6 DEF bound

\* push_back_active_modifier_flag of an increase, a decrease or a sticky entry.
LEMMA PushBackPlain ==
    ASSUME NEW s, VectorOK(s), NEW e \in Entries, e.kind \in {"plain", "sticky"},
           NumEntries(s, e) < MaxCount
    PROVE  VectorOK(PushBack(s, e)) /\ Pushed(PushBack(s, e), s, e)
<1> DEFINE u == PushBack(s, e)
<1>1. u = ErasePairs(Append(s, e))
  BY DEF PushBack
<1>2. u \in Seq(Entries) /\ Unpaired(u) /\ Pushed(u, s, e)
  BY <1>1, PushLeaves DEF VectorOK
<1>3. NumEntries(s, e) < (IF e.kind = "lock" THEN 1 ELSE MaxCount)
  OBVIOUS
<1> HIDE DEF u
<1>4. VectorOK(u)
  BY <1>2, <1>3, PushedOK
<1> QED BY <1>2, <1>4 DEF u

\* Of a lock entry: its equals are removed first.
LEMMA PushBackLock ==
    ASSUME NEW s, VectorOK(s), NEW e \in Entries, e.kind \in {"lock", "led_lock"}
    PROVE  /\ VectorOK(PushBack(s, e))
           /\ \E w \in Seq(Entries) :
                /\ \A x : NumEntries(w, x) = IF x = e THEN 0 ELSE NumEntries(s, x)
                /\ Pushed(PushBack(s, e), w, e)
<1> DEFINE u == PushBack(s, e)
           w == Kept(s, {e})
<1>1. Without(s, LAMBDA x : x = e) = w
  <2>1. {i \in DOMAIN s : ~(s[i] = e)} = {i \in DOMAIN s : s[i] \notin {e}}
    OBVIOUS
  <2> QED BY <2>1 DEF Without, FilterIndexes, Kept
<1>2. /\ w \in Seq(Entries) /\ Unpaired(w)
      /\ \A x : NumEntries(w, x) = IF x \in {e} THEN 0 ELSE NumEntries(s, x)
  BY KeptLeaves DEF VectorOK
<1>3. u = ErasePairs(Append(w, e))
  <2>1. e.kind = "lock" \/ (e.kind = "led_lock" /\ e.count = 1)
    BY EntryFields
  <2>2. e.kind \notin {"plain", "sticky"}
    OBVIOUS
  <2> HIDE DEF w
  <2> QED BY <1>1, <2>1, <2>2 DEF PushBack
<1> HIDE DEF u, w
<1>4. u \in Seq(Entries) /\ Unpaired(u) /\ Pushed(u, w, e)
  BY <1>2, <1>3, PushLeaves
<1>5. \A x : NumEntries(w, x) = IF x = e THEN 0 ELSE NumEntries(s, x)
  BY <1>2
<1>6. VectorOK(w)
  <2> SUFFICES ASSUME NEW x \in Entries
               PROVE  NumEntries(w, x) <= (IF x.kind = "lock" THEN 1 ELSE MaxCount)
    BY <1>2 DEF VectorOK
  <2>1. NumEntries(s, x) <= (IF x.kind = "lock" THEN 1 ELSE MaxCount)
    BY DEF VectorOK
  <2> QED BY <1>5, <2>1, ListAssumption
<1>7. NumEntries(w, e) < (IF e.kind = "lock" THEN 1 ELSE MaxCount)
  BY <1>5, ListAssumption
<1>8. VectorOK(u)
  BY <1>4, <1>6, <1>7, PushedOK
<1> QED BY <1>2, <1>4, <1>5, <1>8 DEF u

\* Entries are only removed by remove_if.
LEMMA KeptOK ==
    ASSUME NEW s, VectorOK(s), NEW Q
    PROVE  LET u == Kept(s, Q)
           IN  /\ VectorOK(u)
               /\ \A x : NumEntries(u, x) = IF x \in Q THEN 0 ELSE NumEntries(s, x)
<1> DEFINE u == Kept(s, Q)
<1>1. /\ u \in Seq(Entries) /\ Unpaired(u)
      /\ \A x : NumEntries(u, x) = IF x \in Q THEN 0 ELSE NumEntries(s, x)
  BY KeptLeaves DEF VectorOK
<1> HIDE DEF u
<1>2. ASSUME NEW x \in Entries
      PROVE  NumEntries(u, x) <= (IF x.kind = "lock" THEN 1 ELSE MaxCount)
  <2>1. NumEntries(s, x) <= (IF x.kind = "lock" THEN 1 ELSE MaxCount)
    BY DEF VectorOK
  <2> QED BY <1>1, <2>1, ListAssumption
<1> QED BY <1>1, <1>2 DEF u, VectorOK

\* A decrease of the LED's lock is not stored, it removes the increase.
LEMMA PushBackLedOff ==
    ASSUME NEW s, VectorOK(s), NEW f \in Flags, NEW d \in DeviceIds
    PROVE  LET u == PushBack(s, Entry("led_lock", f, d, -1))
           IN  /\ VectorOK(u)
               /\ \A x : NumEntries(u, x) =
                            IF x = Entry("led_lock", f, d, 1) THEN 0 ELSE NumEntries(s, x)
<1> DEFINE e == Entry("led_lock", f, d, -1)
           o == Entry("led_lock", f, d, 1)
           u == PushBack(s, e)
           w == Kept(s, {o})
<1>1. e = [kind |-> "led_lock", flag |-> f, device |-> DeviceZero, count |-> -1]
  BY DEF Entry
<1>2. o = [kind |-> "led_lock", flag |-> f, device |-> DeviceZero, count |-> 1]
  BY DEF Entry
<1>3. u = Without(s, LAMBDA x : IsPaired(x, e))
  BY <1>1 DEF PushBack
<1>4. ASSUME NEW x \in Entries PROVE IsPaired(x, e) <=> x = o
  <2>1. /\ x = [kind |-> x.kind, flag |-> x.flag, device |-> x.device, count |-> x.count]
        /\ x.count \in {-1, 1}
        /\ x.kind = "led_lock" => x.count = 1
    BY EntryFields
  <2>2. IsPaired(x, e) => x = o
    BY <1>1, <1>2, <2>1 DEF IsPaired
  <2>3. PICK z \in Int : z + 1 = 0
    OBVIOUS
  <2>4. z = -1 /\ -z = 1
    BY <2>3
  <2>5. e.count = z
    BY <1>1, <2>4
  <2>6. x = o => IsPaired(x, e)
    BY <1>1, <1>2, <2>4, <2>5 DEF IsPaired
  <2> QED BY <2>2, <2>6
<1>5. s \in Seq(Entries)
  BY DEF VectorOK
<1>6. u = w
  <2>1. {i \in DOMAIN s : ~IsPaired(s[i], e)} = {i \in DOMAIN s : s[i] \notin {o}}
    <3> HIDE DEF e, o
    <3> QED BY <1>4, <1>5
  <2> QED BY <1>3, <2>1 DEF Without, FilterIndexes, Kept
<1> HIDE DEF u, o
<1>7. VectorOK(w) /\ \A x : NumEntries(w, x) = IF x \in {o} THEN 0 ELSE NumEntries(s, x)
  BY KeptOK
<1> HIDE DEF w
<1> QED BY <1>6, <1>7 DEF u, o

-----------------------------------------------------------------------------
(* What the calls do to the net counts.                                    *)

\* Every net count but one is the same.
SameElsewhere(u, s, kind, f, d) ==
    \A k2 \in Kinds, f2 \in Flags, d2 \in DeviceIds \cup {DeviceZero} :
        k2 # kind \/ f2 # f \/ d2 # d => NetCount(u, k2, f2, d2) = NetCount(s, k2, f2, d2)

\* One net count has changed by count.
ChangedBy(u, s, kind, f, d, count) == NetCount(u, kind, f, d) = NetCount(s, kind, f, d) + count

\* A net count is a whole number.
LEMMA NetType ==
    ASSUME NEW s \in Seq(Entries), NEW kind, NEW f, NEW d
    PROVE  NetCount(s, kind, f, d) \in Int
<1>1. \A x : NumEntries(s, x) \in Nat
  BY NumType
<1> QED BY <1>1 DEF NetCount

\* A push charges the kind, flag and device of the call and no other.
LEMMA PushedNets ==
    ASSUME NEW s \in Seq(Entries), NEW u, NEW kind \in {"plain", "lock", "sticky"},
           NEW f \in Flags, NEW d \in DeviceIds, NEW count \in {-1, 1},
           Pushed(u, s, Entry(kind, f, d, count))
    PROVE  /\ ChangedBy(u, s, kind, f, d, count)
           /\ SameElsewhere(u, s, kind, f, d)
<1> DEFINE e == Entry(kind, f, d, count)
<1>1. kind \in Kinds /\ kind # "led_lock"
  BY DEF Kinds
<1>2. e \in Entries /\ e = [kind |-> kind, flag |-> f, device |-> d, count |-> count]
  BY <1>1, EntryMade
<1>3. ASSUME NEW k2 \in Kinds, NEW f2, NEW d2
      PROVE  NetCount(u, k2, f2, d2) =
               NetCount(s, k2, f2, d2) + (CASE e = Entry(k2, f2, d2, 1) -> 1
                                            [] e = Entry(k2, f2, d2, -1) -> -1
                                            [] OTHER -> 0)
  <2> HIDE DEF e
  <2> QED BY <1>2, NetPush DEF e
<1>4. NetCount(u, kind, f, d) = NetCount(s, kind, f, d) + count
  <2>1. CASE count = 1
    <3>1. e = Entry(kind, f, d, 1)
      BY <2>1
    <3>2. e # Entry(kind, f, d, -1)
      BY <2>1 DEF Entry
    <3> HIDE DEF e
    <3> QED BY <1>1, <1>3, <2>1, <3>1, <3>2
  <2>2. CASE count = -1
    <3>1. e = Entry(kind, f, d, -1)
      BY <2>2
    <3>2. e # Entry(kind, f, d, 1)
      BY <2>2 DEF Entry
    <3> HIDE DEF e
    <3> QED BY <1>1, <1>3, <2>2, <3>1, <3>2
  <2> QED BY <2>1, <2>2
<1>5. ASSUME NEW k2 \in Kinds, NEW f2 \in Flags, NEW d2 \in DeviceIds \cup {DeviceZero},
             k2 # kind \/ f2 # f \/ d2 # d
      PROVE  NetCount(u, k2, f2, d2) = NetCount(s, k2, f2, d2)
  <2>1. e # Entry(k2, f2, d2, 1) /\ e # Entry(k2, f2, d2, -1)
    BY <1>1, <1>2, <1>5 DEF Entry
  <2>2. NetCount(s, k2, f2, d2) \in Int
    BY NetType
  <2> HIDE DEF e
  <2>3. NetCount(u, k2, f2, d2) = NetCount(s, k2, f2, d2) + 0
    BY <1>3, <2>1
  <2> QED BY <2>2, <2>3
<1> QED BY <1>4, <1>5 DEF ChangedBy, SameElsewhere

\* The net counts as functions.
LEMMA SameCounts ==
    ASSUME NEW s, NEW u, NEW kind \in {"plain", "lock", "sticky"},
           NEW f \in Flags, NEW d \in DeviceIds, SameElsewhere(u, s, kind, f, d)
    PROVE  /\ NetCounts(u, kind) = [NetCounts(s, kind) EXCEPT ![f][d] = NetCount(u, kind, f, d)]
           /\ NetCounts(s, kind)[f][d] = NetCount(s, kind, f, d)
           /\ \A k2 \in {"plain", "lock", "sticky"} \ {kind} : NetCounts(u, k2) = NetCounts(s, k2)
           /\ CountsOf(u).led = CountsOf(s).led
<1>1. NetCounts(u, kind) = [NetCounts(s, kind) EXCEPT ![f][d] = NetCount(u, kind, f, d)]
  <2>1. \A f2 \in Flags, d2 \in DeviceIds :
            f2 # f \/ d2 # d => NetCount(u, kind, f2, d2) = NetCount(s, kind, f2, d2)
    BY DEF SameElsewhere, Kinds
  <2> QED BY <2>1 DEF NetCounts
<1>2. NetCounts(s, kind)[f][d] = NetCount(s, kind, f, d)
  BY DEF NetCounts
<1>3. ASSUME NEW k2 \in {"plain", "lock", "sticky"} \ {kind}
      PROVE  NetCounts(u, k2) = NetCounts(s, k2)
  <2>1. \A f2 \in Flags, d2 \in DeviceIds : NetCount(u, k2, f2, d2) = NetCount(s, k2, f2, d2)
    BY DEF SameElsewhere, Kinds
  <2> QED BY <2>1 DEF NetCounts
<1>4. CountsOf(u).led = CountsOf(s).led
  <2>1. \A f2 \in Flags : NetCount(u, "led_lock", f2, DeviceZero)
                            = NetCount(s, "led_lock", f2, DeviceZero)
    BY DEF SameElsewhere, Kinds
  <2> QED BY <2>1 DEF CountsOf
<1> QED BY <1>1, <1>2, <1>3, <1>4

\* increase and decrease, as PushPlain ...
LEMMA PushPlainCounts ==
    ASSUME NEW s \in Seq(Entries), NEW u, NEW f \in Flags, NEW d \in DeviceIds,
           NEW count \in {-1, 1}, Pushed(u, s, Entry("plain", f, d, count))
    PROVE  CountsOf(u) = Abstract!PushPlain(CountsOf(s), f, d, count)
<1> DEFINE P == NetCounts(s, "plain")
           Q == NetCounts(u, "plain")
           L == NetCounts(s, "lock")
           O == NetCounts(s, "sticky")
           D == CountsOf(s).led
<1>0. "plain" \in {"plain", "lock", "sticky"}
  OBVIOUS
<1>1. NetCount(u, "plain", f, d) = NetCount(s, "plain", f, d) + count
  <2>1. ChangedBy(u, s, "plain", f, d, count)
    BY <1>0, PushedNets, Zenon
  <2> QED BY <2>1 DEF ChangedBy
<1>2. SameElsewhere(u, s, "plain", f, d)
  BY <1>0, PushedNets, Zenon
<1>3. /\ Q = [P EXCEPT ![f][d] = NetCount(u, "plain", f, d)]
      /\ P[f][d] = NetCount(s, "plain", f, d)
      /\ \A k2 \in {"plain", "lock", "sticky"} \ {"plain"} : NetCounts(u, k2) = NetCounts(s, k2)
      /\ CountsOf(u).led = CountsOf(s).led
  BY <1>2, SameCounts
<1>4. CountsOf(s) = [plain |-> P, lock |-> L, sticky |-> O, led |-> D]
  BY DEF CountsOf
<1>5. CountsOf(u) = [plain |-> Q, lock |-> L, sticky |-> O, led |-> D]
  <2>1. CountsOf(u) = [plain |-> Q, lock |-> NetCounts(u, "lock"),
                       sticky |-> NetCounts(u, "sticky"), led |-> CountsOf(u).led]
    BY DEF CountsOf
  <2> QED BY <1>3, <2>1
<1> HIDE DEF P, Q, L, O, D
<1>6. Q = [P EXCEPT ![f][d] = @ + count]
  BY <1>1, <1>3
<1>7. Abstract!PushPlain(CountsOf(s), f, d, count)
        = [plain |-> [P EXCEPT ![f][d] = @ + count], lock |-> L, sticky |-> O, led |-> D]
  BY <1>4 DEF Abstract!PushPlain
<1> QED BY <1>5, <1>6, <1>7

\* ... their sticky forms, as PushSticky ...
LEMMA PushStickyCounts ==
    ASSUME NEW s \in Seq(Entries), NEW u, NEW f \in Flags, NEW d \in DeviceIds,
           NEW count \in {-1, 1}, Pushed(u, s, Entry("sticky", f, d, count))
    PROVE  CountsOf(u) = Abstract!PushSticky(CountsOf(s), f, d, count)
<1> DEFINE P == NetCounts(s, "sticky")
           Q == NetCounts(u, "sticky")
           L == NetCounts(s, "lock")
           O == NetCounts(s, "plain")
           D == CountsOf(s).led
<1>0. "sticky" \in {"plain", "lock", "sticky"}
  OBVIOUS
<1>1. NetCount(u, "sticky", f, d) = NetCount(s, "sticky", f, d) + count
  <2>1. ChangedBy(u, s, "sticky", f, d, count)
    BY <1>0, PushedNets, Zenon
  <2> QED BY <2>1 DEF ChangedBy
<1>2. SameElsewhere(u, s, "sticky", f, d)
  BY <1>0, PushedNets, Zenon
<1>3. /\ Q = [P EXCEPT ![f][d] = NetCount(u, "sticky", f, d)]
      /\ P[f][d] = NetCount(s, "sticky", f, d)
      /\ \A k2 \in {"plain", "lock", "sticky"} \ {"sticky"} : NetCounts(u, k2) = NetCounts(s, k2)
      /\ CountsOf(u).led = CountsOf(s).led
  BY <1>2, SameCounts
<1>4. CountsOf(s) = [sticky |-> P, lock |-> L, plain |-> O, led |-> D]
  BY DEF CountsOf
<1>5. CountsOf(u) = [sticky |-> Q, lock |-> L, plain |-> O, led |-> D]
  <2>1. CountsOf(u) = [sticky |-> Q, lock |-> NetCounts(u, "lock"),
                       plain |-> NetCounts(u, "plain"), led |-> CountsOf(u).led]
    BY DEF CountsOf
  <2> QED BY <1>3, <2>1
<1> HIDE DEF P, Q, L, O, D
<1>6. Q = [P EXCEPT ![f][d] = @ + count]
  BY <1>1, <1>3
<1>7. Abstract!PushSticky(CountsOf(s), f, d, count)
        = [sticky |-> [P EXCEPT ![f][d] = @ + count], lock |-> L, plain |-> O, led |-> D]
  BY <1>4 DEF Abstract!PushSticky
<1> QED BY <1>5, <1>6, <1>7

\* ... locks, as PushLock: a lock that is there already is not counted twice ...
LEMMA PushLockCounts ==
    ASSUME NEW s, VectorOK(s), NEW w \in Seq(Entries), NEW u,
           NEW f \in Flags, NEW d \in DeviceIds, NEW count \in {-1, 1},
           \A x : NumEntries(w, x) =
                    IF x = Entry("lock", f, d, count) THEN 0 ELSE NumEntries(s, x),
           Pushed(u, w, Entry("lock", f, d, count))
    PROVE  CountsOf(u) = Abstract!PushLock(CountsOf(s), f, d, count)
<1> DEFINE e == Entry("lock", f, d, count)
           p == Partner(e)
           own == NetCount(s, "lock", f, d)
           new == IF own = count THEN own ELSE own + count
           P == NetCounts(s, "plain")
           S == NetCounts(s, "sticky")
           L == NetCounts(s, "lock")
           D == CountsOf(s).led
<1>1. e \in Entries /\ e = [kind |-> "lock", flag |-> f, device |-> d, count |-> count]
  BY EntryMade DEF Kinds
<1>2. s \in Seq(Entries) /\ Unpaired(s)
  BY DEF VectorOK
<1>3. p = Entry("lock", f, d, -count) /\ p # e /\ p \in Entries
  <2>1. p = [kind |-> "lock", flag |-> f, device |-> d, count |-> -count]
    BY <1>1 DEF Partner
  <2>2. p = Entry("lock", f, d, -count)
    BY <2>1 DEF Entry
  <2>3. e.count = count /\ p.count = -count /\ -count # count /\ -count \in {-1, 1}
    BY <1>1, <2>1
  <2>4. p \in Entries
    BY <2>1, <2>3 DEF Entries, Kinds
  <2> QED BY <2>2, <2>3, <2>4
<1>4. NumEntries(s, e) \in {0, 1} /\ NumEntries(s, p) \in {0, 1}
  <2>1. NumEntries(s, e) \in Nat /\ NumEntries(s, p) \in Nat
    BY <1>2, NumType
  <2>2. e.kind = "lock" /\ p.kind = "lock"
    BY <1>1 DEF Partner
  <2>3. NumEntries(s, e) <= 1 /\ NumEntries(s, p) <= 1
    BY <1>1, <1>3, <2>2 DEF VectorOK
  <2> QED BY <2>1, <2>3
<1>5. NumEntries(s, e) = 0 \/ NumEntries(s, p) = 0
  BY <1>1, <1>2, NotBoth
<1>6. NumEntries(w, e) = 0 /\ NumEntries(w, p) = NumEntries(s, p)
  BY <1>3
<1>0. "lock" \in {"plain", "lock", "sticky"}
  OBVIOUS
<1>7. NetCount(u, "lock", f, d) = NetCount(w, "lock", f, d) + count
  <2>1. ChangedBy(u, w, "lock", f, d, count)
    BY <1>0, PushedNets, Zenon
  <2> QED BY <2>1 DEF ChangedBy
<1>8. NetCount(u, "lock", f, d) = new
  <2>1. CASE count = 1
    <3>1. e = Entry("lock", f, d, 1) /\ p = Entry("lock", f, d, -1)
      BY <1>3, <2>1
    <3> HIDE DEF e, p
    <3>2. /\ own = NumEntries(s, e) - NumEntries(s, p)
          /\ NetCount(w, "lock", f, d) = NumEntries(w, e) - NumEntries(w, p)
      BY <3>1 DEF NetCount
    <3> HIDE DEF own
    <3> QED BY <1>4, <1>5, <1>6, <1>7, <2>1, <3>2
  <2>2. CASE count = -1
    <3>1. e = Entry("lock", f, d, -1) /\ p = Entry("lock", f, d, 1)
      <4>1. PICK z \in Int : z + 1 = 0
        OBVIOUS
      <4>2. z = -1 /\ -z = 1
        BY <4>1
      <4>3. count = z
        BY <2>2, <4>2
      <4> QED BY <1>3, <2>2, <4>2, <4>3
    <3> HIDE DEF e, p
    <3>2. /\ own = NumEntries(s, p) - NumEntries(s, e)
          /\ NetCount(w, "lock", f, d) = NumEntries(w, p) - NumEntries(w, e)
      BY <3>1 DEF NetCount
    <3> HIDE DEF own
    <3> QED BY <1>4, <1>5, <1>6, <1>7, <2>2, <3>2
  <2> QED BY <2>1, <2>2
<1>9. SameElsewhere(u, s, "lock", f, d)
  <2>1. SameElsewhere(u, w, "lock", f, d)
    BY <1>0, PushedNets, Zenon
  <2>2. ASSUME NEW k2 \in Kinds, NEW f2 \in Flags, NEW d2 \in DeviceIds \cup {DeviceZero},
               k2 # "lock" \/ f2 # f \/ d2 # d
        PROVE  NetCount(w, k2, f2, d2) = NetCount(s, k2, f2, d2)
    <3>1. Entry(k2, f2, d2, 1) # e /\ Entry(k2, f2, d2, -1) # e
      BY <1>1, <2>2 DEF Entry
    <3> HIDE DEF e
    <3> QED BY <3>1 DEF NetCount, e
  <2> QED BY <2>1, <2>2 DEF SameElsewhere
<1>10. /\ NetCounts(u, "lock") = [L EXCEPT ![f][d] = NetCount(u, "lock", f, d)]
       /\ L[f][d] = own
       /\ \A k2 \in {"plain", "lock", "sticky"} \ {"lock"} : NetCounts(u, k2) = NetCounts(s, k2)
       /\ CountsOf(u).led = D
  BY <1>9, SameCounts
<1>11. CountsOf(s) = [plain |-> P, lock |-> L, sticky |-> S, led |-> D]
  BY DEF CountsOf
<1>12. CountsOf(u) = [plain |-> P, lock |-> [L EXCEPT ![f][d] = new], sticky |-> S, led |-> D]
  <2>1. CountsOf(u) = [plain |-> NetCounts(u, "plain"), lock |-> NetCounts(u, "lock"),
                       sticky |-> NetCounts(u, "sticky"), led |-> CountsOf(u).led]
    BY DEF CountsOf
  <2> HIDE DEF new
  <2> QED BY <1>8, <1>10, <2>1
<1> HIDE DEF P, L, S, D, own
<1>13. [L EXCEPT ![f][d] = new] = [L EXCEPT ![f][d] = IF @ = count THEN @ ELSE @ + count]
  BY <1>10
<1>14. Abstract!PushLock(CountsOf(s), f, d, count)
         = [plain |-> P, lock |-> [L EXCEPT ![f][d] = IF @ = count THEN @ ELSE @ + count],
            sticky |-> S, led |-> D]
  BY <1>11 DEF Abstract!PushLock
<1> QED BY <1>12, <1>13, <1>14, SMTT(30)

\* ... and the LED's lock, as PushLed.
LEMMA PushLedCounts ==
    ASSUME NEW s \in Seq(Entries), NEW u \in Seq(Entries), NEW f \in Flags, NEW d \in DeviceIds,
           \A x : x # Entry("led_lock", f, d, 1) => NumEntries(u, x) = NumEntries(s, x)
    PROVE  CountsOf(u) = Abstract!PushLed(CountsOf(s), f,
                                          NumEntries(u, Entry("led_lock", f, d, 1)) > 0)
<1> DEFINE e == Entry("led_lock", f, d, 1)
           on == NumEntries(u, e) > 0
<1>1. e = [kind |-> "led_lock", flag |-> f, device |-> DeviceZero, count |-> 1]
  BY EntryMade DEF Kinds
<1>2. ASSUME NEW kind \in {"plain", "lock", "sticky"}
      PROVE  NetCounts(u, kind) = NetCounts(s, kind)
  <2>1. \A f2 \in Flags, d2 \in DeviceIds, c \in {-1, 1} : Entry(kind, f2, d2, c) # e
    BY <1>1 DEF Entry
  <2>2. \A f2 \in Flags, d2 \in DeviceIds : NetCount(u, kind, f2, d2) = NetCount(s, kind, f2, d2)
    <3> HIDE DEF e
    <3> QED BY <2>1 DEF NetCount, e
  <2> QED BY <2>2 DEF NetCounts
<1>3. ASSUME NEW f2 \in Flags
      PROVE  /\ NetCount(u, "led_lock", f2, DeviceZero) > 0
                    <=> NumEntries(u, Entry("led_lock", f2, DeviceZero, 1)) > 0
             /\ NetCount(s, "led_lock", f2, DeviceZero) > 0
                    <=> NumEntries(s, Entry("led_lock", f2, DeviceZero, 1)) > 0
  <2> DEFINE a == Entry("led_lock", f2, DeviceZero, 1)
             b == Entry("led_lock", f2, DeviceZero, -1)
  <2>1. b \notin Entries
    BY DEF Entry, Entries, Kinds
  <2>2. /\ NumEntries(u, b) = 0 /\ NumEntries(s, b) = 0
        /\ NumEntries(u, a) \in Nat /\ NumEntries(s, a) \in Nat
    BY <2>1, NumType
  <2> HIDE DEF a, b
  <2>3. NumEntries(u, a) - NumEntries(u, b) > 0 <=> NumEntries(u, a) > 0
    BY <2>2
  <2>4. NumEntries(s, a) - NumEntries(s, b) > 0 <=> NumEntries(s, a) > 0
    BY <2>2
  <2> QED BY <2>3, <2>4 DEF NetCount, a, b
<1>4. Entry("led_lock", f, DeviceZero, 1) = e
  BY DEF Entry
<1>5. \A f2 \in Flags : f2 # f => Entry("led_lock", f2, DeviceZero, 1) # e
  BY <1>1 DEF Entry
<1>6. CountsOf(u).led = IF on THEN CountsOf(s).led \cup {f} ELSE CountsOf(s).led \ {f}
  <2>1. /\ CountsOf(u).led = {f2 \in Flags : NetCount(u, "led_lock", f2, DeviceZero) > 0}
        /\ CountsOf(s).led = {f2 \in Flags : NetCount(s, "led_lock", f2, DeviceZero) > 0}
    BY DEF CountsOf
  <2>2. \A f2 \in Flags : f2 # f => (f2 \in CountsOf(u).led <=> f2 \in CountsOf(s).led)
    <3> SUFFICES ASSUME NEW f2 \in Flags, f2 # f
                 PROVE  f2 \in CountsOf(u).led <=> f2 \in CountsOf(s).led
      OBVIOUS
    <3>1. NumEntries(u, Entry("led_lock", f2, DeviceZero, 1))
            = NumEntries(s, Entry("led_lock", f2, DeviceZero, 1))
      BY <1>5
    <3> QED BY <1>3, <2>1, <3>1
  <2>3. f \in CountsOf(u).led <=> on
    BY <1>3, <1>4, <2>1
  <2>4. CountsOf(u).led \subseteq Flags /\ CountsOf(s).led \subseteq Flags
    BY <2>1
  <2> HIDE DEF on
  <2> QED BY <2>2, <2>3, <2>4
<1> DEFINE P == NetCounts(s, "plain")
           S == NetCounts(s, "sticky")
           L == NetCounts(s, "lock")
           D == CountsOf(s).led
<1>7. CountsOf(s) = [plain |-> P, lock |-> L, sticky |-> S, led |-> D]
  BY DEF CountsOf
<1>8. CountsOf(u) = [plain |-> P, lock |-> L, sticky |-> S, led |-> CountsOf(u).led]
  <2>1. CountsOf(u) = [plain |-> NetCounts(u, "plain"), lock |-> NetCounts(u, "lock"),
                       sticky |-> NetCounts(u, "sticky"), led |-> CountsOf(u).led]
    BY DEF CountsOf
  <2> QED BY <1>2, <2>1
<1> HIDE DEF P, L, S, D, on
<1>9. Abstract!PushLed(CountsOf(s), f, on) = [CountsOf(s) EXCEPT !.led = CountsOf(u).led]
  <2>1. CASE on
    <3>1. CountsOf(u).led = CountsOf(s).led \cup {f}
      BY <1>6, <2>1
    <3>2. Abstract!PushLed(CountsOf(s), f, on) = [CountsOf(s) EXCEPT !.led = @ \cup {f}]
      BY <2>1 DEF Abstract!PushLed
    <3> QED BY <3>1, <3>2
  <2>2. CASE ~on
    <3>1. CountsOf(u).led = CountsOf(s).led \ {f}
      BY <1>6, <2>2
    <3>2. Abstract!PushLed(CountsOf(s), f, on) = [CountsOf(s) EXCEPT !.led = @ \ {f}]
      BY <2>2 DEF Abstract!PushLed
    <3> QED BY <3>1, <3>2
  <2> QED BY <2>1, <2>2
<1>10. Abstract!PushLed(CountsOf(s), f, on) = CountsOf(u)
  <2> DEFINE N == CountsOf(u).led
  <2> HIDE DEF N
  <2>1. [CountsOf(s) EXCEPT !.led = N] = [plain |-> P, lock |-> L, sticky |-> S, led |-> N]
    BY <1>7
  <2> QED BY <1>8, <1>9, <2>1 DEF N
<1> QED BY <1>10 DEF on

\* remove_if of both an entry and its inverse ends their net count, of neither
\* leaves it as it is.
LEMMA KeptNets ==
    ASSUME NEW s, VectorOK(s), NEW Q, NEW kind, NEW f, NEW d
    PROVE  LET u == Kept(s, Q)
           IN  /\ Entry(kind, f, d, 1) \in Q /\ Entry(kind, f, d, -1) \in Q
                    => NetCount(u, kind, f, d) = 0
               /\ Entry(kind, f, d, 1) \notin Q /\ Entry(kind, f, d, -1) \notin Q
                    => NetCount(u, kind, f, d) = NetCount(s, kind, f, d)
<1> DEFINE u == Kept(s, Q)
           a == Entry(kind, f, d, 1)
           b == Entry(kind, f, d, -1)
<1>1. \A x : NumEntries(u, x) = IF x \in Q THEN 0 ELSE NumEntries(s, x)
  BY KeptOK
<1> HIDE DEF u, a, b
<1>2. /\ a \in Q /\ b \in Q => NumEntries(u, a) - NumEntries(u, b) = 0
      /\ a \notin Q /\ b \notin Q
            => NumEntries(u, a) - NumEntries(u, b) = NumEntries(s, a) - NumEntries(s, b)
  BY <1>1
<1> QED BY <1>2 DEF NetCount, u, a, b

\* The entries whose kind, flag and device K, F and D allow.
Chosen(K, F, D) == {x \in Entries : x.kind \in K /\ x.flag \in F /\ x.device \in D}

\* The net counts of one kind without those of the flags in F and the devices in D.
ErasedAt(counts, F, D) ==
    [f \in Flags |-> [d \in DeviceIds |-> IF f \in F /\ d \in D THEN 0 ELSE counts[f][d]]]

\* The net counts after remove_if of such entries, the LED's locks not among them.
LEMMA ChosenCounts ==
    ASSUME NEW s, VectorOK(s), NEW K \in SUBSET {"plain", "lock", "sticky"},
           NEW F \in SUBSET Flags, NEW D \in SUBSET DeviceIds
    PROVE  LET u == Kept(s, Chosen(K, F, D))
           IN  /\ \A kind \in {"plain", "lock", "sticky"} :
                    NetCounts(u, kind) =
                        IF kind \in K
                        THEN ErasedAt(NetCounts(s, kind), F, D) ELSE NetCounts(s, kind)
               /\ CountsOf(u).led = CountsOf(s).led
<1> DEFINE Q == Chosen(K, F, D)
           u == Kept(s, Q)
<1>1. ASSUME NEW kind \in {"plain", "lock", "sticky"}, NEW f \in Flags, NEW d \in DeviceIds
      PROVE  NetCount(u, kind, f, d) =
                IF kind \in K /\ f \in F /\ d \in D THEN 0 ELSE NetCount(s, kind, f, d)
  <2> DEFINE a == Entry(kind, f, d, 1)
             b == Entry(kind, f, d, -1)
  <2>1. /\ a \in Entries /\ a.kind = kind /\ a.flag = f /\ a.device = d
        /\ b \in Entries /\ b.kind = kind /\ b.flag = f /\ b.device = d
    BY EntryMade DEF Kinds
  <2> HIDE DEF a, b
  <2>2. /\ kind \in K /\ f \in F /\ d \in D => a \in Q /\ b \in Q
        /\ ~(kind \in K /\ f \in F /\ d \in D) => a \notin Q /\ b \notin Q
    BY <2>1 DEF Chosen
  <2> HIDE DEF Q
  <2>3. /\ a \in Q /\ b \in Q => NetCount(u, kind, f, d) = 0
        /\ a \notin Q /\ b \notin Q => NetCount(u, kind, f, d) = NetCount(s, kind, f, d)
    BY KeptNets DEF a, b
  <2> HIDE DEF u
  <2> QED BY <2>2, <2>3
<1>2. ASSUME NEW f \in Flags
      PROVE  NetCount(u, "led_lock", f, DeviceZero) = NetCount(s, "led_lock", f, DeviceZero)
  <2> DEFINE a == Entry("led_lock", f, DeviceZero, 1)
             b == Entry("led_lock", f, DeviceZero, -1)
  <2>1. a.kind = "led_lock" /\ b.kind = "led_lock"
    BY DEF Entry
  <2> HIDE DEF a, b
  <2>2. a \notin Q /\ b \notin Q
    BY <2>1 DEF Chosen
  <2> HIDE DEF Q
  <2> QED BY <2>2, KeptNets DEF a, b
<1> HIDE DEF u
<1>3. CountsOf(u).led = CountsOf(s).led
  BY <1>2 DEF CountsOf
<1>4. ASSUME NEW kind \in {"plain", "lock", "sticky"}
      PROVE  NetCounts(u, kind) =
                IF kind \in K
                THEN ErasedAt(NetCounts(s, kind), F, D) ELSE NetCounts(s, kind)
  <2>1. \A f \in Flags, d \in DeviceIds : NetCounts(s, kind)[f][d] = NetCount(s, kind, f, d)
    BY DEF NetCounts
  <2>2. CASE kind \in K
    <3>1. \A f \in Flags, d \in DeviceIds :
            NetCount(u, kind, f, d) =
                IF f \in F /\ d \in D THEN 0 ELSE NetCounts(s, kind)[f][d]
      BY <1>1, <2>1, <2>2
    <3> QED BY <2>2, <3>1 DEF NetCounts, ErasedAt
  <2>3. CASE kind \notin K
    <3>1. \A f \in Flags, d \in DeviceIds : NetCount(u, kind, f, d) = NetCount(s, kind, f, d)
      BY <1>1, <2>3
    <3> QED BY <2>3, <3>1 DEF NetCounts
  <2> QED BY <2>2, <2>3
<1> QED BY <1>3, <1>4 DEF u

\* erase_all_active_modifier_flags and its form that spares locks and sticky flags.
LEMMA EraseDeviceCounts ==
    ASSUME NEW s, VectorOK(s), NEW d \in DeviceIds
    PROVE  /\ CountsOf(Kept(s, Chosen({"plain", "lock", "sticky"}, Flags, {d})))
                = Abstract!EraseAll(CountsOf(s), d)
           /\ CountsOf(Kept(s, Chosen({"plain"}, Flags, {d})))
                = Abstract!EraseAllExceptLockAndSticky(CountsOf(s), d)
<1> DEFINE P == NetCounts(s, "plain")
           L == NetCounts(s, "lock")
           S == NetCounts(s, "sticky")
           D == CountsOf(s).led
           Erased(c) == ErasedAt(c, Flags, {d})
<1>1. CountsOf(s) = [plain |-> P, lock |-> L, sticky |-> S, led |-> D]
  BY DEF CountsOf
<1>2. ASSUME NEW c PROVE Erased(c) = Abstract!EraseDevice(c, d)
  BY DEF Abstract!EraseDevice, ErasedAt
<1>3. CountsOf(Kept(s, Chosen({"plain", "lock", "sticky"}, Flags, {d})))
        = Abstract!EraseAll(CountsOf(s), d)
  <2> DEFINE u == Kept(s, Chosen({"plain", "lock", "sticky"}, Flags, {d}))
  <2>1. /\ \A kind \in {"plain", "lock", "sticky"} :
            NetCounts(u, kind) = IF kind \in {"plain", "lock", "sticky"}
                                 THEN Erased(NetCounts(s, kind)) ELSE NetCounts(s, kind)
        /\ CountsOf(u).led = D
    BY ChosenCounts
  <2> HIDE DEF u, Erased
  <2>2. CountsOf(u) = [plain |-> NetCounts(u, "plain"), lock |-> NetCounts(u, "lock"),
                       sticky |-> NetCounts(u, "sticky"), led |-> CountsOf(u).led]
    BY DEF CountsOf
  <2>3. CountsOf(u) = [plain |-> Erased(P), lock |-> Erased(L),
                       sticky |-> Erased(S), led |-> D]
    BY <2>1, <2>2
  <2> HIDE DEF P, L, S, D
  <2>4. Abstract!EraseAll(CountsOf(s), d)
          = [plain |-> Abstract!EraseDevice(P, d), lock |-> Abstract!EraseDevice(L, d),
             sticky |-> Abstract!EraseDevice(S, d), led |-> D]
    <3> DEFINE A == Abstract!EraseDevice(P, d)
               B == Abstract!EraseDevice(L, d)
               C == Abstract!EraseDevice(S, d)
    <3>1. CountsOf(s).plain = P /\ CountsOf(s).lock = L /\ CountsOf(s).sticky = S
      BY <1>1
    <3>2. Abstract!EraseAll(CountsOf(s), d)
            = [CountsOf(s) EXCEPT !.plain = A, !.lock = B, !.sticky = C]
      BY <3>1, Zenon DEF Abstract!EraseAll
    <3> HIDE DEF A, B, C
    <3>3. [CountsOf(s) EXCEPT !.plain = A, !.lock = B, !.sticky = C]
            = [plain |-> A, lock |-> B, sticky |-> C, led |-> D]
      <4> DEFINE x == [CountsOf(s) EXCEPT !.plain = A]
                 y == [x EXCEPT !.lock = B]
                 z == [y EXCEPT !.sticky = C]
      <4>1. [CountsOf(s) EXCEPT !.plain = A, !.lock = B, !.sticky = C] = z
        BY Zenon
      <4>2. x = [plain |-> A, lock |-> L, sticky |-> S, led |-> D]
        BY <1>1
      <4> HIDE DEF x
      <4>3. y = [plain |-> A, lock |-> B, sticky |-> S, led |-> D]
        BY <4>2
      <4> HIDE DEF y
      <4>4. z = [plain |-> A, lock |-> B, sticky |-> C, led |-> D]
        BY <4>3
      <4> HIDE DEF z
      <4> QED BY <4>1, <4>4
    <3> QED BY <3>2, <3>3 DEF A, B, C
  <2> QED BY <1>2, <2>3, <2>4 DEF u
<1>4. CountsOf(Kept(s, Chosen({"plain"}, Flags, {d})))
        = Abstract!EraseAllExceptLockAndSticky(CountsOf(s), d)
  <2> DEFINE u == Kept(s, Chosen({"plain"}, Flags, {d}))
  <2>1. /\ \A kind \in {"plain", "lock", "sticky"} :
            NetCounts(u, kind) = IF kind \in {"plain"}
                                 THEN Erased(NetCounts(s, kind)) ELSE NetCounts(s, kind)
        /\ CountsOf(u).led = D
    BY ChosenCounts
  <2> HIDE DEF u, Erased
  <2>2. CountsOf(u) = [plain |-> NetCounts(u, "plain"), lock |-> NetCounts(u, "lock"),
                       sticky |-> NetCounts(u, "sticky"), led |-> CountsOf(u).led]
    BY DEF CountsOf
  <2>3. CountsOf(u) = [plain |-> Erased(P), lock |-> L, sticky |-> S, led |-> D]
    BY <2>1, <2>2
  <2> HIDE DEF P, L, S, D
  <2>4. Abstract!EraseAllExceptLockAndSticky(CountsOf(s), d)
          = [plain |-> Abstract!EraseDevice(P, d), lock |-> L, sticky |-> S, led |-> D]
    BY <1>1 DEF Abstract!EraseAllExceptLockAndSticky
  <2> QED BY <1>2, <2>3, <2>4 DEF u
<1> QED BY <1>3, <1>4

\* erase_caps_lock_sticky_modifier_flags and erase_all_sticky_modifier_flags.
LEMMA EraseStickyCounts ==
    ASSUME NEW s, VectorOK(s)
    PROVE  /\ CountsOf(Kept(s, Chosen({"sticky"}, {CapsLock}, DeviceIds)))
                = Abstract!EraseCapsLockSticky(CountsOf(s))
           /\ CountsOf(Kept(s, Chosen({"sticky"}, Flags, DeviceIds)))
                = Abstract!EraseAllSticky(CountsOf(s))
<1> DEFINE P == NetCounts(s, "plain")
           L == NetCounts(s, "lock")
           S == NetCounts(s, "sticky")
           D == CountsOf(s).led
           Erased(F) == ErasedAt(S, F, DeviceIds)
<1>1. CountsOf(s) = [plain |-> P, lock |-> L, sticky |-> S, led |-> D]
  BY DEF CountsOf
<1>2. ASSUME NEW F \in SUBSET Flags
      PROVE  CountsOf(Kept(s, Chosen({"sticky"}, F, DeviceIds)))
                = [plain |-> P, lock |-> L, sticky |-> Erased(F), led |-> D]
  <2> DEFINE u == Kept(s, Chosen({"sticky"}, F, DeviceIds))
  <2>1. /\ \A kind \in {"plain", "lock", "sticky"} :
            NetCounts(u, kind) = IF kind \in {"sticky"}
                                 THEN ErasedAt(NetCounts(s, kind), F, DeviceIds)
                                 ELSE NetCounts(s, kind)
        /\ CountsOf(u).led = D
    BY ChosenCounts
  <2>2. CountsOf(u) = [plain |-> NetCounts(u, "plain"), lock |-> NetCounts(u, "lock"),
                       sticky |-> NetCounts(u, "sticky"), led |-> CountsOf(u).led]
    BY DEF CountsOf
  <2> HIDE DEF u
  <2>3. NetCounts(u, "sticky") = Erased(F) /\ NetCounts(u, "plain") = P /\ NetCounts(u, "lock") = L
    BY <2>1
  <2> HIDE DEF Erased, P, L, D
  <2> QED BY <2>1, <2>2, <2>3 DEF u
<1>3. CapsLock \in Flags
  BY ListAssumption
<1>4. Erased({CapsLock}) = [f \in Flags |-> IF f = CapsLock THEN Abstract!NoCount[f] ELSE S[f]]
  <2>1. \A f \in Flags : S[f] = [e \in DeviceIds |-> S[f][e]]
    BY DEF NetCounts
  <2> HIDE DEF S
  <2>2. \A f \in Flags : [e \in DeviceIds |->
            IF f \in {CapsLock} /\ e \in DeviceIds THEN 0 ELSE S[f][e]]
                = IF f = CapsLock THEN Abstract!NoCount[f] ELSE S[f]
    <3> SUFFICES ASSUME NEW f \in Flags
                 PROVE  [e \in DeviceIds |->
                            IF f \in {CapsLock} /\ e \in DeviceIds THEN 0 ELSE S[f][e]]
                          = IF f = CapsLock THEN Abstract!NoCount[f] ELSE S[f]
      OBVIOUS
    <3>1. CASE f = CapsLock
      BY <3>1 DEF Abstract!NoCount
    <3>2. CASE f # CapsLock
      <4>1. \A e \in DeviceIds :
                (IF f \in {CapsLock} /\ e \in DeviceIds THEN 0 ELSE S[f][e]) = S[f][e]
        BY <3>2
      <4> QED BY <2>1, <3>2, <4>1
    <3> QED BY <3>1, <3>2
  <2> QED BY <2>2, Zenon DEF ErasedAt
<1>5. Erased(Flags) = Abstract!NoCount
  BY DEF Abstract!NoCount, ErasedAt
<1> HIDE DEF P, L, S, D, Erased
<1>6. Abstract!EraseCapsLockSticky(CountsOf(s))
        = [plain |-> P, lock |-> L, led |-> D,
           sticky |-> [f \in Flags |-> IF f = CapsLock THEN Abstract!NoCount[f] ELSE S[f]]]
  <2>1. CountsOf(s).sticky = S
    BY <1>1
  <2> DEFINE N == [f \in Flags |-> IF f = CapsLock THEN Abstract!NoCount[f] ELSE S[f]]
  <2>2. Abstract!EraseCapsLockSticky(CountsOf(s)) = [CountsOf(s) EXCEPT !.sticky = N]
    BY <2>1 DEF Abstract!EraseCapsLockSticky
  <2> HIDE DEF N
  <2>3. [CountsOf(s) EXCEPT !.sticky = N] = [plain |-> P, lock |-> L, led |-> D, sticky |-> N]
    BY <1>1
  <2> QED BY <2>2, <2>3 DEF N
<1>7. Abstract!EraseAllSticky(CountsOf(s))
        = [plain |-> P, lock |-> L, led |-> D, sticky |-> Abstract!NoCount]
  <2> DEFINE N == Abstract!NoCount
  <2>1. Abstract!EraseAllSticky(CountsOf(s)) = [CountsOf(s) EXCEPT !.sticky = N]
    BY DEF Abstract!EraseAllSticky
  <2> HIDE DEF N
  <2>2. [CountsOf(s) EXCEPT !.sticky = N] = [plain |-> P, lock |-> L, led |-> D, sticky |-> N]
    BY <1>1
  <2> QED BY <2>1, <2>2 DEF N
<1>8. CountsOf(Kept(s, Chosen({"sticky"}, {CapsLock}, DeviceIds)))
        = [plain |-> P, lock |-> L, sticky |-> Erased({CapsLock}), led |-> D]
  BY <1>2, <1>3
<1>9. CountsOf(Kept(s, Chosen({"sticky"}, Flags, DeviceIds)))
        = [plain |-> P, lock |-> L, sticky |-> Erased(Flags), led |-> D]
  BY <1>2
<1> QED BY <1>4, <1>5, <1>6, <1>7, <1>8, <1>9

\* The empty vector stands for no count at all.
LEMMA EmptyCounts ==
    VectorOK(<<>>) /\ CountsOf(<<>>) = Abstract!Empty
<1>1. \A x : NumEntries(<<>>, x) = 0
  <2> SUFFICES ASSUME NEW x PROVE NumEntries(<<>>, x) = 0
    OBVIOUS
  <2>1. {i \in DOMAIN <<>> : <<>>[i] = x} = {}
    OBVIOUS
  <2> QED BY <2>1, FS_EmptySet DEF NumEntries
<1>2. VectorOK(<<>>)
  <2>1. <<>> \in Seq(Entries) /\ Unpaired(<<>>)
    BY DEF Unpaired
  <2>2. ASSUME NEW e \in Entries
        PROVE  NumEntries(<<>>, e) <= (IF e.kind = "lock" THEN 1 ELSE MaxCount)
    BY <1>1, ListAssumption
  <2> QED BY <2>1, <2>2 DEF VectorOK
<1>3. \A kind, f, d : NetCount(<<>>, kind, f, d) = 0
  BY <1>1 DEF NetCount
<1>4. \A kind : NetCounts(<<>>, kind) = Abstract!NoCount
  BY <1>3 DEF NetCounts, Abstract!NoCount
<1>5. CountsOf(<<>>).led = {}
  BY <1>3 DEF CountsOf
<1>6. CountsOf(<<>>) = [plain |-> NetCounts(<<>>, "plain"), lock |-> NetCounts(<<>>, "lock"),
                        sticky |-> NetCounts(<<>>, "sticky"), led |-> CountsOf(<<>>).led]
  BY DEF CountsOf
<1>7. CountsOf(<<>>) = Abstract!Empty
  <2> DEFINE Z == Abstract!NoCount
  <2>1. Abstract!Empty = [plain |-> Z, lock |-> Z, sticky |-> Z, led |-> {}]
    BY DEF Abstract!Empty
  <2> HIDE DEF Z
  <2> QED BY <1>4, <1>5, <1>6, <2>1 DEF Z
<1> QED BY <1>2, <1>7

\* What the four erase methods keep.
LEMMA WithoutChosen ==
    ASSUME NEW s \in Seq(Entries), NEW d \in DeviceIds
    PROVE  /\ Without(s, LAMBDA e : e.device = d)
                = Kept(s, Chosen({"plain", "lock", "sticky"}, Flags, {d}))
           /\ Without(s, LAMBDA e : e.device = d /\ e.kind = "plain")
                = Kept(s, Chosen({"plain"}, Flags, {d}))
<1> DEFINE A == Chosen({"plain", "lock", "sticky"}, Flags, {d})
           B == Chosen({"plain"}, Flags, {d})
<1>1. ASSUME NEW e \in Entries
      PROVE  /\ e.device = d <=> e \in A
             /\ e.device = d /\ e.kind = "plain" <=> e \in B
  BY EntryFields DEF Chosen, Kinds
<1> HIDE DEF A, B
<1>2. {i \in DOMAIN s : ~(s[i].device = d)} = {i \in DOMAIN s : s[i] \notin A}
  BY <1>1
<1>3. {i \in DOMAIN s : ~(s[i].device = d /\ s[i].kind = "plain")}
        = {i \in DOMAIN s : s[i] \notin B}
  BY <1>1
<1> QED BY <1>2, <1>3 DEF Without, FilterIndexes, Kept, A, B

\* The same for the two that take sticky flags.
LEMMA WithoutSticky ==
    ASSUME NEW s \in Seq(Entries)
    PROVE  /\ Without(s, LAMBDA e : e.flag = CapsLock /\ e.kind = "sticky")
                = Kept(s, Chosen({"sticky"}, {CapsLock}, DeviceIds))
           /\ Without(s, LAMBDA e : e.kind = "sticky")
                = Kept(s, Chosen({"sticky"}, Flags, DeviceIds))
<1> DEFINE A == Chosen({"sticky"}, {CapsLock}, DeviceIds)
           B == Chosen({"sticky"}, Flags, DeviceIds)
<1>1. ASSUME NEW e \in Entries
      PROVE  /\ e.flag = CapsLock /\ e.kind = "sticky" <=> e \in A
             /\ e.kind = "sticky" <=> e \in B
  BY EntryFields DEF Chosen, Kinds
<1> HIDE DEF A, B
<1>2. {i \in DOMAIN s : ~(s[i].flag = CapsLock /\ s[i].kind = "sticky")}
        = {i \in DOMAIN s : s[i] \notin A}
  BY <1>1
<1>3. {i \in DOMAIN s : ~(s[i].kind = "sticky")} = {i \in DOMAIN s : s[i] \notin B}
  BY <1>1
<1> QED BY <1>2, <1>3 DEF Without, FilterIndexes, Kept, A, B

\* push_back_active_modifier_flag keeps the invariant and does to the net counts
\* what the push of its kind does in ModifierFlagCounts.
LEMMA PushBackCounts ==
    ASSUME NEW s, VectorOK(s), NEW kind \in Kinds, NEW f \in Flags, NEW d \in DeviceIds,
           NEW count \in {-1, 1}, NumEntries(s, Entry(kind, f, d, count)) < MaxCount
    PROVE  LET u == PushBack(s, Entry(kind, f, d, count))
           IN  /\ VectorOK(u)
               /\ kind = "plain" => CountsOf(u) = Abstract!PushPlain(CountsOf(s), f, d, count)
               /\ kind = "sticky" => CountsOf(u) = Abstract!PushSticky(CountsOf(s), f, d, count)
               /\ kind = "lock" => CountsOf(u) = Abstract!PushLock(CountsOf(s), f, d, count)
               /\ kind = "led_lock" => CountsOf(u) = Abstract!PushLed(CountsOf(s), f, count = 1)
<1> DEFINE e == Entry(kind, f, d, count)
           u == PushBack(s, e)
<1>1. s \in Seq(Entries)
  BY DEF VectorOK
<1>2. CASE kind \in {"plain", "sticky"}
  <2>1. e \in Entries /\ e.kind = kind
    BY <1>2, EntryMade
  <2>2. VectorOK(u) /\ Pushed(u, s, e)
    <3> HIDE DEF e
    <3> QED BY <1>2, <2>1, PushBackPlain DEF e
  <2> HIDE DEF u
  <2>3. kind = "plain" => CountsOf(u) = Abstract!PushPlain(CountsOf(s), f, d, count)
    BY <1>1, <2>2, PushPlainCounts
  <2>4. kind = "sticky" => CountsOf(u) = Abstract!PushSticky(CountsOf(s), f, d, count)
    BY <1>1, <2>2, PushStickyCounts
  <2> QED BY <1>2, <2>2, <2>3, <2>4 DEF u
<1>3. CASE kind = "lock"
  <2>1. e \in Entries /\ e.kind = "lock"
    BY <1>3, EntryMade
  <2>2. /\ VectorOK(u)
        /\ \E w \in Seq(Entries) :
                /\ \A x : NumEntries(w, x) = IF x = e THEN 0 ELSE NumEntries(s, x)
                /\ Pushed(u, w, e)
    <3> HIDE DEF e
    <3> QED BY <2>1, PushBackLock
  <2>3. PICK w \in Seq(Entries) :
                /\ \A x : NumEntries(w, x) = IF x = e THEN 0 ELSE NumEntries(s, x)
                /\ Pushed(u, w, e)
    BY <2>2
  <2>4. e = Entry("lock", f, d, count)
    BY <1>3
  <2> HIDE DEF u, e
  <2>5. CountsOf(u) = Abstract!PushLock(CountsOf(s), f, d, count)
    BY <2>3, <2>4, PushLockCounts
  <2> QED BY <1>3, <2>2, <2>5 DEF u, e
<1>4. CASE kind = "led_lock" /\ count = 1
  <2> DEFINE a == Entry("led_lock", f, d, 1)
  <2>1. e = a /\ a \in Entries /\ a.kind = "led_lock"
    BY <1>4, EntryMade
  <2>2. /\ VectorOK(u)
        /\ \E w \in Seq(Entries) :
                /\ \A x : NumEntries(w, x) = IF x = a THEN 0 ELSE NumEntries(s, x)
                /\ Pushed(u, w, a)
    <3> HIDE DEF e, a
    <3> QED BY <2>1, PushBackLock
  <2>3. PICK w \in Seq(Entries) :
                /\ \A x : NumEntries(w, x) = IF x = a THEN 0 ELSE NumEntries(s, x)
                /\ Pushed(u, w, a)
    BY <2>2
  <2>4. Partner(a) # a /\ Partner(a) \notin Entries
    <3>1. Partner(a) = Entry("led_lock", f, d, -1)
      BY PartnerMade DEF Kinds
    <3>2. Entry("led_lock", f, d, -1) \notin Entries
      BY EntryMade DEF Kinds
    <3> QED BY <2>1, <3>1, <3>2
  <2> HIDE DEF u, e, a
  <2>5. NumEntries(w, Partner(a)) = 0
    BY <2>3, <2>4, NumType
  <2>6. \A x : NumEntries(u, x) = NumEntries(w, x) + (IF x = a THEN 1 ELSE 0)
    BY <2>3, <2>5 DEF Pushed
  <2>7. NumEntries(u, a) > 0
    BY <2>3, <2>6
  <2>8. \A x : x # a => NumEntries(u, x) = NumEntries(s, x)
    <3>1. \A x : NumEntries(s, x) \in Nat
      BY <1>1, NumType
    <3> QED BY <2>3, <2>6, <3>1
  <2>9. u \in Seq(Entries)
    BY <2>2 DEF VectorOK
  <2>10. CountsOf(u) = Abstract!PushLed(CountsOf(s), f, NumEntries(u, a) > 0)
    BY <1>1, <2>8, <2>9, PushLedCounts DEF a
  <2>11. (NumEntries(u, a) > 0) = (count = 1)
    BY <1>4, <2>7
  <2> QED BY <1>4, <2>2, <2>10, <2>11 DEF u, e
<1>5. CASE kind = "led_lock" /\ count = -1
  <2> DEFINE a == Entry("led_lock", f, d, 1)
  <2>1. e = Entry("led_lock", f, d, -1)
    BY <1>5
  <2>2. VectorOK(u) /\ \A x : NumEntries(u, x) = IF x = a THEN 0 ELSE NumEntries(s, x)
    BY <2>1, PushBackLedOff
  <2> HIDE DEF u, e, a
  <2>3. u \in Seq(Entries)
    BY <2>2 DEF VectorOK
  <2>4. CountsOf(u) = Abstract!PushLed(CountsOf(s), f, NumEntries(u, a) > 0)
    BY <1>1, <2>2, <2>3, PushLedCounts DEF a
  <2>5. (NumEntries(u, a) > 0) = (count = 1)
    <3>1. NumEntries(u, a) = 0
      BY <2>2
    <3> QED BY <1>5, <3>1
  <2> QED BY <1>5, <2>2, <2>4, <2>5 DEF u, e
<1> QED BY <1>2, <1>3, <1>4, <1>5 DEF Kinds

-----------------------------------------------------------------------------
(* The specification.                                                      *)

\* A push of the vector is the push of its net counts ...
LEMMA PushStep ==
    ASSUME IInv, NEW kind \in Kinds, NEW f \in Flags, NEW d \in DeviceIds,
           NEW count \in {-1, 1}, Push(kind, f, d, count)
    PROVE  IInv' /\ CountsOfList' = CountsAfterPush(kind, f, d, count)
<1> DEFINE s == active_modifier_flags
           u == active_modifier_flags'
           c == CountsOf(s)
<1>1. /\ VectorOK(s)
      /\ NumEntries(s, Entry(kind, f, d, count)) < MaxCount
      /\ u = PushBack(s, Entry(kind, f, d, count))
  BY DEF IInv, Push
<1>2. /\ VectorOK(u)
      /\ kind = "plain" => CountsOf(u) = Abstract!PushPlain(c, f, d, count)
      /\ kind = "sticky" => CountsOf(u) = Abstract!PushSticky(c, f, d, count)
      /\ kind = "lock" => CountsOf(u) = Abstract!PushLock(c, f, d, count)
      /\ kind = "led_lock" => CountsOf(u) = Abstract!PushLed(c, f, count = 1)
  BY <1>1, PushBackCounts
<1>3. CountsOf(u) = CountsAfterPush(kind, f, d, count)
  <2>1. CASE kind = "plain"
    BY <1>2, <2>1 DEF CountsAfterPush, CountsOfList
  <2>2. CASE kind = "sticky"
    BY <1>2, <2>2 DEF CountsAfterPush, CountsOfList
  <2>3. CASE kind = "lock"
    BY <1>2, <2>3 DEF CountsAfterPush, CountsOfList
  <2>4. CASE kind = "led_lock"
    BY <1>2, <2>4 DEF CountsAfterPush, CountsOfList
  <2> QED BY <2>1, <2>2, <2>3, <2>4 DEF Kinds
<1> QED BY <1>2, <1>3 DEF IInv, CountsOfList

\* ... and so is an erase of a device ...
LEMMA EraseDeviceStep ==
    ASSUME IInv, NEW d \in DeviceIds
    PROVE  /\ EraseAllActive(d)
                => IInv' /\ CountsOfList' = Abstract!EraseAll(CountsOfList, d)
           /\ EraseAllActiveExceptLockAndSticky(d)
                => IInv' /\ CountsOfList' = Abstract!EraseAllExceptLockAndSticky(CountsOfList, d)
<1> DEFINE s == active_modifier_flags
           u == active_modifier_flags'
<1>1. VectorOK(s) /\ s \in Seq(Entries)
  BY DEF IInv, VectorOK
<1>2. ASSUME EraseAllActive(d)
      PROVE  VectorOK(u) /\ CountsOf(u) = Abstract!EraseAll(CountsOf(s), d)
  <2>1. u = Kept(s, Chosen({"plain", "lock", "sticky"}, Flags, {d}))
    BY <1>1, <1>2, WithoutChosen DEF EraseAllActive
  <2> QED BY <1>1, <2>1, KeptOK, EraseDeviceCounts
<1>3. ASSUME EraseAllActiveExceptLockAndSticky(d)
      PROVE  VectorOK(u) /\ CountsOf(u) = Abstract!EraseAllExceptLockAndSticky(CountsOf(s), d)
  <2>1. u = Kept(s, Chosen({"plain"}, Flags, {d}))
    BY <1>1, <1>3, WithoutChosen DEF EraseAllActiveExceptLockAndSticky
  <2> QED BY <1>1, <2>1, KeptOK, EraseDeviceCounts
<1> QED BY <1>2, <1>3 DEF IInv, CountsOfList

\* ... or of sticky flags.
LEMMA EraseStickyStep ==
    ASSUME IInv
    PROVE  /\ EraseCapsLockStickyFlags
                => IInv' /\ CountsOfList' = Abstract!EraseCapsLockSticky(CountsOfList)
           /\ EraseAllStickyFlags
                => IInv' /\ CountsOfList' = Abstract!EraseAllSticky(CountsOfList)
<1> DEFINE s == active_modifier_flags
           u == active_modifier_flags'
<1>1. VectorOK(s) /\ s \in Seq(Entries)
  BY DEF IInv, VectorOK
<1>2. ASSUME EraseCapsLockStickyFlags
      PROVE  VectorOK(u) /\ CountsOf(u) = Abstract!EraseCapsLockSticky(CountsOf(s))
  <2>1. u = Kept(s, Chosen({"sticky"}, {CapsLock}, DeviceIds))
    BY <1>1, <1>2, WithoutSticky DEF EraseCapsLockStickyFlags
  <2> QED BY <1>1, <2>1, KeptOK, EraseStickyCounts
<1>3. ASSUME EraseAllStickyFlags
      PROVE  VectorOK(u) /\ CountsOf(u) = Abstract!EraseAllSticky(CountsOf(s))
  <2>1. u = Kept(s, Chosen({"sticky"}, Flags, DeviceIds))
    BY <1>1, <1>3, WithoutSticky DEF EraseAllStickyFlags
  <2> QED BY <1>1, <2>1, KeptOK, EraseStickyCounts
<1> QED BY <1>2, <1>3 DEF IInv, CountsOfList

\* reset() clears the vector.
LEMMA ResetStep ==
    Reset => IInv' /\ CountsOfList' = Abstract!Empty
BY EmptyCounts DEF Reset, IInv, CountsOfList

\* The vector starts empty, and no call leaves the invariant.
LEMMA InitIInv == Init => IInv
BY EmptyCounts DEF Init, IInv

\* Every step keeps the invariant.
LEMMA NextIInv == IInv /\ [Next]_active_modifier_flags => IInv'
<1> SUFFICES ASSUME IInv, [Next]_active_modifier_flags PROVE IInv'
  OBVIOUS
<1>1. ASSUME NEW kind \in Kinds, NEW f \in Flags, NEW d \in DeviceIds, NEW count \in {-1, 1},
             Push(kind, f, d, count)
      PROVE  IInv'
  BY <1>1, PushStep
<1>2. ASSUME NEW d \in DeviceIds,
             EraseAllActive(d) \/ EraseAllActiveExceptLockAndSticky(d)
      PROVE  IInv'
  BY <1>2, EraseDeviceStep
<1>3. CASE EraseCapsLockStickyFlags \/ EraseAllStickyFlags
  BY <1>3, EraseStickyStep
<1>4. CASE Reset
  BY <1>4, ResetStep
<1>5. CASE UNCHANGED active_modifier_flags
  BY <1>5 DEF IInv
<1> QED BY <1>1, <1>2, <1>3, <1>4, <1>5 DEF Next

(* What holds of the vector between any two calls: its entries are such as *)
(* the calls make, no two of them are inverse, a lock is there once, and   *)
(* no entry more often than the calls' bound allows.                       *)
THEOREM VectorTheorem == Spec => []IInv
<1>1. Init => IInv
  BY InitIInv
<1>2. IInv /\ [Next]_active_modifier_flags => IInv'
  BY NextIInv
<1> QED BY <1>1, <1>2, PTL DEF Spec

(* The vector of modifier_flag_manager holds nothing but entries of the    *)
(* seven types that are stored, a LED's lock without a device.             *)
THEOREM VectorTypeTheorem == Spec => []TypeOK
<1>1. IInv => TypeOK
  BY DEF IInv, VectorOK, TypeOK
<1> QED BY <1>1, VectorTheorem, PTL

(* erase_pairs, which goes on at index 1 after an erase at index 0, leaves *)
(* no pair behind in a vector of any length.                               *)
THEOREM NoPairTheorem == Spec => []NoPairSurvives
<1>1. IInv => NoPairSurvives
  BY DEF IInv, VectorOK, Unpaired, NoPairSurvives
<1> QED BY <1>1, VectorTheorem, PTL

\* One step of the vector does to the net counts what the call it makes does.
LEMMA CallsStep ==
    ASSUME IInv
    PROVE  /\ \A kind \in Kinds, f \in Flags, d \in DeviceIds, count \in {-1, 1} :
                Push(kind, f, d, count) => CountsOfList' = CountsAfterPush(kind, f, d, count)
           /\ \A d \in DeviceIds :
                /\ EraseAllActive(d) => CountsOfList' = Abstract!EraseAll(CountsOfList, d)
                /\ EraseAllActiveExceptLockAndSticky(d)
                     => CountsOfList' = Abstract!EraseAllExceptLockAndSticky(CountsOfList, d)
           /\ EraseCapsLockStickyFlags => CountsOfList' = Abstract!EraseCapsLockSticky(CountsOfList)
           /\ EraseAllStickyFlags => CountsOfList' = Abstract!EraseAllSticky(CountsOfList)
<1>1. ASSUME NEW kind \in Kinds, NEW f \in Flags, NEW d \in DeviceIds, NEW count \in {-1, 1},
             Push(kind, f, d, count)
      PROVE  CountsOfList' = CountsAfterPush(kind, f, d, count)
  BY <1>1, PushStep
<1>2. ASSUME NEW d \in DeviceIds
      PROVE  /\ EraseAllActive(d) => CountsOfList' = Abstract!EraseAll(CountsOfList, d)
             /\ EraseAllActiveExceptLockAndSticky(d)
                  => CountsOfList' = Abstract!EraseAllExceptLockAndSticky(CountsOfList, d)
  BY EraseDeviceStep
<1>3. /\ EraseCapsLockStickyFlags => CountsOfList' = Abstract!EraseCapsLockSticky(CountsOfList)
      /\ EraseAllStickyFlags => CountsOfList' = Abstract!EraseAllSticky(CountsOfList)
  BY EraseStickyStep
<1> QED BY <1>1, <1>2, <1>3, Zenon

(* Each call of modifier_flag_manager charges the kind, the flag and the   *)
(* device it is made for, as the counting specification does, and no other.*)
THEOREM CallsAgreeTheorem == Spec => CallsAgree
<1>1. IInv => /\ \A kind \in Kinds, f \in Flags, d \in DeviceIds, count \in {-1, 1} :
                   Push(kind, f, d, count)
                     => CountsOfList' = CountsAfterPush(kind, f, d, count)
              /\ \A d \in DeviceIds :
                   /\ EraseAllActive(d) => CountsOfList' = Abstract!EraseAll(CountsOfList, d)
                   /\ EraseAllActiveExceptLockAndSticky(d)
                        => CountsOfList' = Abstract!EraseAllExceptLockAndSticky(CountsOfList, d)
              /\ EraseCapsLockStickyFlags
                   => CountsOfList' = Abstract!EraseCapsLockSticky(CountsOfList)
              /\ EraseAllStickyFlags => CountsOfList' = Abstract!EraseAllSticky(CountsOfList)
  BY CallsStep
<1> QED BY <1>1, VectorTheorem, PTL DEF CallsAgree

\* Where a push is made, the net count it leads to is within the bound.
LEMMA PushBounded ==
    ASSUME NEW s, VectorOK(s), NEW kind \in {"plain", "sticky"}, NEW f \in Flags,
           NEW d \in DeviceIds, NEW count \in {-1, 1},
           NumEntries(s, Entry(kind, f, d, count)) < MaxCount
    PROVE  Abstract!Bounded(NetCounts(s, kind)[f][d] + count)
<1> DEFINE a == Entry(kind, f, d, 1)
           b == Entry(kind, f, d, -1)
<1>1. a \in Entries /\ a.kind = kind /\ b \in Entries /\ b.kind = kind
  BY EntryMade DEF Kinds
<1>2. s \in Seq(Entries)
  BY DEF VectorOK
<1>3. NumEntries(s, a) \in Nat /\ NumEntries(s, b) \in Nat
  BY <1>2, NumType
<1>4. NetCounts(s, kind)[f][d] = NumEntries(s, a) - NumEntries(s, b)
  BY DEF NetCounts, NetCount
<1>5. /\ count = 1 => NumEntries(s, a) < MaxCount
      /\ count = -1 => NumEntries(s, b) < MaxCount
  OBVIOUS
<1> HIDE DEF a, b
<1>6. NumEntries(s, a) <= MaxCount /\ NumEntries(s, b) <= MaxCount
  BY <1>1 DEF VectorOK
<1>7. MaxCount \in Nat
  BY ListAssumption
<1>8. NetCounts(s, kind)[f][d] + count \in -MaxCount .. MaxCount
  <2>1. CASE count = 1
    BY <1>3, <1>4, <1>5, <1>6, <1>7, <2>1
  <2>2. CASE count = -1
    BY <1>3, <1>4, <1>5, <1>6, <1>7, <2>2
  <2> QED BY <2>1, <2>2
<1> QED BY <1>8 DEF Abstract!Bounded

\* A push is a step of the counting specification.
LEMMA PushImplements ==
    ASSUME IInv, NEW kind \in Kinds, NEW f \in Flags, NEW d \in DeviceIds,
           NEW count \in {-1, 1}, Push(kind, f, d, count)
    PROVE  Abstract!CountsNext
<1>1. CountsOfList' = CountsAfterPush(kind, f, d, count)
  BY PushStep
<1>2. /\ VectorOK(active_modifier_flags)
      /\ NumEntries(active_modifier_flags, Entry(kind, f, d, count)) < MaxCount
  BY DEF IInv, Push
<1>3. /\ CountsOfList.plain = NetCounts(active_modifier_flags, "plain")
      /\ CountsOfList.sticky = NetCounts(active_modifier_flags, "sticky")
  BY DEF CountsOfList, CountsOf
<1>4. CASE kind = "plain"
  <2>1. CountsOfList' = Abstract!PushPlain(CountsOfList, f, d, count)
    BY <1>1, <1>4 DEF CountsAfterPush
  <2>2. Abstract!Bounded(CountsOfList.plain[f][d] + count)
    BY <1>2, <1>3, <1>4, PushBounded
  <2>3. Abstract!CountsPush(f, d, count)
    BY <2>1, <2>2 DEF Abstract!CountsPush
  <2> QED BY <2>3 DEF Abstract!CountsNext
<1>5. CASE kind = "sticky"
  <2>1. CountsOfList' = Abstract!PushSticky(CountsOfList, f, d, count)
    BY <1>1, <1>5 DEF CountsAfterPush
  <2>2. Abstract!Bounded(CountsOfList.sticky[f][d] + count)
    BY <1>2, <1>3, <1>5, PushBounded
  <2>3. Abstract!CountsPush(f, d, count)
    BY <2>1, <2>2 DEF Abstract!CountsPush
  <2> QED BY <2>3 DEF Abstract!CountsNext
<1>6. CASE kind = "lock"
  <2>1. CountsOfList' = Abstract!PushLock(CountsOfList, f, d, count)
    BY <1>1, <1>6 DEF CountsAfterPush
  <2>2. Abstract!CountsPush(f, d, count)
    BY <2>1 DEF Abstract!CountsPush
  <2> QED BY <2>2 DEF Abstract!CountsNext
<1>7. CASE kind = "led_lock"
  <2>1. CountsOfList' = Abstract!PushLed(CountsOfList, f, count = 1)
    BY <1>1, <1>7 DEF CountsAfterPush
  <2>2. (count = 1) \in BOOLEAN
    OBVIOUS
  <2>3. Abstract!CountsPushLed(f)
    BY <2>1, <2>2, Zenon DEF Abstract!CountsPushLed
  <2> QED BY <2>3 DEF Abstract!CountsNext
<1> QED BY <1>4, <1>5, <1>6, <1>7 DEF Kinds

(* The vector with its rounds of erase_pairs implements the net counts:    *)
(* every call of modifier_flag_manager, on a vector of any length, is a    *)
(* call of the counting specification that PostEventToVirtualDevices uses. *)
THEOREM ImplementsTheorem == Spec => ImplementsCounts
<1>1. Init => Abstract!CountsInit
  BY EmptyCounts DEF Init, Abstract!CountsInit, CountsOfList
<1>2. IInv /\ [Next]_active_modifier_flags => [Abstract!CountsNext]_CountsOfList
  <2> SUFFICES ASSUME IInv, [Next]_active_modifier_flags
               PROVE  Abstract!CountsNext \/ UNCHANGED CountsOfList
    OBVIOUS
  <2>1. ASSUME NEW kind \in Kinds, NEW f \in Flags, NEW d \in DeviceIds, NEW count \in {-1, 1},
               Push(kind, f, d, count)
        PROVE  Abstract!CountsNext
    BY <2>1, PushImplements
  <2>2. ASSUME NEW d \in DeviceIds,
               EraseAllActive(d) \/ EraseAllActiveExceptLockAndSticky(d)
        PROVE  Abstract!CountsNext
    <3>1. Abstract!CountsErase(d)
      BY <2>2, EraseDeviceStep DEF Abstract!CountsErase
    <3> QED BY <3>1 DEF Abstract!CountsNext
  <2>3. CASE EraseCapsLockStickyFlags \/ EraseAllStickyFlags
    <3>1. Abstract!CountsEraseSticky
      BY <2>3, EraseStickyStep DEF Abstract!CountsEraseSticky
    <3> QED BY <3>1 DEF Abstract!CountsNext
  <2>4. CASE Reset
    <3>1. Abstract!CountsReset
      BY <2>4, ResetStep DEF Abstract!CountsReset
    <3> QED BY <3>1 DEF Abstract!CountsNext
  <2>5. CASE UNCHANGED active_modifier_flags
    BY <2>5 DEF CountsOfList
  <2> QED BY <2>1, <2>2, <2>3, <2>4, <2>5 DEF Next
<1> QED BY <1>1, <1>2, VectorTheorem, PTL DEF Spec, ImplementsCounts, Abstract!CountsSpec

-----------------------------------------------------------------------------
(* The queries.                                                            *)

\* The indexes of the entries of f that are no LED's lock ...
Others(s, f) == {i \in DOMAIN s : s[i].flag = f /\ s[i].kind # "led_lock"}

\* ... and of those that are.
Leds(s, f) == {i \in DOMAIN s : s[i].flag = f /\ s[i].kind = "led_lock"}

\* The counts of the entries at the indexes in I.
CountsAt(s, I) == [i \in I |-> s[i].count]

\* The sum that is_pressed takes.
LEMMA SumCountsFold ==
    ASSUME NEW s, NEW I
    PROVE  SumCounts(s, I) = Sums(CountsAt(s, I), I)[I]
BY DEF SumCounts, MapThenSumSet, MapThenFoldSet, Sums, HoldsSums, Round, Pick, CountsAt

\* The net counts of f, by device.
Totals(c, f) == [d \in DeviceIds |-> c.plain[f][d] + c.lock[f][d] + c.sticky[f][d]]

\* The sum of the counting specification.
LEMMA TotalCountFold ==
    ASSUME NEW c, NEW f
    PROVE  Abstract!TotalCount(c, f) = Sums(Totals(c, f), DeviceIds)[DeviceIds]
BY ZenonT(40) DEF Abstract!TotalCount, Abstract!MapThenSumSet, Abstract!MapThenFoldSet,
       Sums, HoldsSums, Round, Pick, Totals

\* Both sets of indexes are finite, and what is there has the fields of an entry.
LEMMA OthersType ==
    ASSUME NEW s \in Seq(Entries), NEW f \in Flags
    PROVE  /\ IsFiniteSet(Others(s, f)) /\ IsFiniteSet(Leds(s, f))
           /\ CountsAt(s, Others(s, f)) \in [Others(s, f) -> Int]
           /\ CountsAt(s, Leds(s, f)) \in [Leds(s, f) -> Nat]
           /\ \A i \in Others(s, f) : \E kind \in {"plain", "lock", "sticky"}, d \in DeviceIds,
                count \in {-1, 1} : s[i] = Entry(kind, f, d, count)
           /\ \A i \in Leds(s, f) : s[i] = Entry("led_lock", f, DeviceZero, 1)
<1>1. IsFiniteSet(DOMAIN s)
  <2>1. Len(s) \in Nat /\ DOMAIN s = 1..Len(s)
    OBVIOUS
  <2> QED BY <2>1, FS_Interval
<1>2. /\ Others(s, f) \in SUBSET DOMAIN s /\ Leds(s, f) \in SUBSET DOMAIN s
      /\ \A i \in Others(s, f) : s[i].flag = f /\ s[i].kind # "led_lock"
      /\ \A i \in Leds(s, f) : s[i].flag = f /\ s[i].kind = "led_lock"
  BY DEF Others, Leds
<1>3. \A i \in DOMAIN s : s[i] \in Entries
  OBVIOUS
<1>4. IsFiniteSet(Others(s, f)) /\ IsFiniteSet(Leds(s, f))
  BY <1>1, <1>2, FS_Subset
<1>5. ASSUME NEW i \in Others(s, f)
      PROVE  /\ s[i].count \in {-1, 1}
             /\ s[i].kind \in {"plain", "lock", "sticky"} /\ s[i].device \in DeviceIds
             /\ s[i] = Entry(s[i].kind, f, s[i].device, s[i].count)
  <2> DEFINE e == s[i]
  <2>1. e \in Entries /\ e.flag = f /\ e.kind # "led_lock"
    BY <1>2, <1>3
  <2> HIDE DEF e
  <2>2. /\ e = [kind |-> e.kind, flag |-> e.flag, device |-> e.device, count |-> e.count]
        /\ e.kind \in Kinds /\ e.count \in {-1, 1} /\ e.device \in DeviceIds
    BY <2>1, EntryFields
  <2>3. e.kind \in {"plain", "lock", "sticky"}
    BY <2>1, <2>2 DEF Kinds
  <2>4. e = Entry(e.kind, f, e.device, e.count)
    BY <2>1, <2>2 DEF Entry
  <2> QED BY <2>2, <2>3, <2>4 DEF e
<1>6. ASSUME NEW i \in Leds(s, f)
      PROVE  s[i].count = 1 /\ s[i] = Entry("led_lock", f, DeviceZero, 1)
  <2> DEFINE e == s[i]
  <2>1. e \in Entries /\ e.flag = f /\ e.kind = "led_lock"
    BY <1>2, <1>3
  <2> HIDE DEF e
  <2>2. /\ e = [kind |-> e.kind, flag |-> e.flag, device |-> e.device, count |-> e.count]
        /\ e.count = 1 /\ e.device = DeviceZero
    BY <2>1, EntryFields
  <2>3. e = Entry("led_lock", f, DeviceZero, 1)
    BY <2>1, <2>2 DEF Entry
  <2> QED BY <2>2, <2>3 DEF e
<1>7. CountsAt(s, Others(s, f)) \in [Others(s, f) -> Int]
  <2>1. \A i \in Others(s, f) : s[i].count \in Int
    BY <1>5
  <2> QED BY <2>1 DEF CountsAt
<1>8. CountsAt(s, Leds(s, f)) \in [Leds(s, f) -> Nat]
  <2>1. \A i \in Leds(s, f) : s[i].count \in Nat
    BY <1>6
  <2> QED BY <2>1 DEF CountsAt
<1>9. \A i \in Others(s, f) : \E kind \in {"plain", "lock", "sticky"}, d \in DeviceIds,
        count \in {-1, 1} : s[i] = Entry(kind, f, d, count)
  BY <1>5, Zenon
<1> QED BY <1>4, <1>6, <1>7, <1>8, <1>9

\* A net count is zero exactly if none of its entries is there, as no increase is
\* there with a decrease.
LEMMA NetZero ==
    ASSUME NEW s, VectorOK(s), NEW kind \in {"plain", "lock", "sticky"}, NEW f \in Flags,
           NEW d \in DeviceIds
    PROVE  NetCount(s, kind, f, d) # 0
             <=> \E i \in DOMAIN s, count \in {-1, 1} : s[i] = Entry(kind, f, d, count)
<1> DEFINE a == Entry(kind, f, d, 1)
           b == Entry(kind, f, d, -1)
<1>1. s \in Seq(Entries) /\ Unpaired(s)
  BY DEF VectorOK
<1>2. a \in Entries /\ Partner(a) = b
  <2>1. a \in Entries
    BY EntryMade DEF Kinds
  <2>2. Partner(a) = Entry(kind, f, d, -1)
    BY PartnerMade DEF Kinds
  <2> QED BY <2>1, <2>2
<1>3. NetCount(s, kind, f, d) = NumEntries(s, a) - NumEntries(s, b)
  BY DEF NetCount
<1>4. (\E i \in DOMAIN s, count \in {-1, 1} : s[i] = Entry(kind, f, d, count))
        <=> (\E i \in DOMAIN s : s[i] = a) \/ (\E i \in DOMAIN s : s[i] = b)
  OBVIOUS
<1> HIDE DEF a, b
<1>5. NumEntries(s, a) = 0 \/ NumEntries(s, b) = 0
  BY <1>1, <1>2, NotBoth
<1>6. /\ NumEntries(s, a) \in Nat /\ (NumEntries(s, a) > 0 <=> \E i \in DOMAIN s : s[i] = a)
      /\ NumEntries(s, b) \in Nat /\ (NumEntries(s, b) > 0 <=> \E i \in DOMAIN s : s[i] = b)
  BY <1>1, NumType
<1>7. NetCount(s, kind, f, d) # 0 <=> NumEntries(s, a) > 0 \/ NumEntries(s, b) > 0
  BY <1>3, <1>5, <1>6
<1> QED BY <1>4, <1>6, <1>7

\* sticky_size(f) is positive exactly if some device has a net count of it.
LEMMA StickySize ==
    ASSUME NEW s, VectorOK(s), NEW f \in Flags
    PROVE  sticky_size(s, f) > 0 <=> Abstract!HasSticky(CountsOf(s), f)
<1> DEFINE I == {i \in DOMAIN s : s[i].flag = f /\ s[i].kind = "sticky"}
<1>1. s \in Seq(Entries)
  BY DEF VectorOK
<1>2. I \in SUBSET Others(s, f) /\ IsFiniteSet(Others(s, f))
  BY <1>1, OthersType DEF Others
<1>3. sticky_size(s, f) > 0 <=> I # {}
  <2>1. sticky_size(s, f) = Cardinality(I)
    BY DEF sticky_size
  <2> HIDE DEF I
  <2>2. Cardinality(I) \in Nat /\ (Cardinality(I) = 0 <=> I = {})
    BY <1>2, FS_Subset, FS_CardinalityType, FS_EmptySet
  <2> QED BY <2>1, <2>2
<1>4. Abstract!HasSticky(CountsOf(s), f)
        <=> \E d \in DeviceIds : NetCount(s, "sticky", f, d) # 0
  <2>1. \A d \in DeviceIds : CountsOf(s).sticky[f][d] = NetCount(s, "sticky", f, d)
    BY DEF CountsOf, NetCounts
  <2> QED BY <2>1 DEF Abstract!HasSticky
<1>5. ASSUME I # {} PROVE \E d \in DeviceIds : NetCount(s, "sticky", f, d) # 0
  <2>1. PICK i \in I : TRUE
    BY <1>5
  <2>2. PICK kind \in {"plain", "lock", "sticky"}, d \in DeviceIds, count \in {-1, 1} :
            s[i] = Entry(kind, f, d, count)
    BY <1>1, <1>2, OthersType
  <2>3. i \in DOMAIN s /\ s[i].kind = "sticky"
    OBVIOUS
  <2>4. kind = "sticky"
    BY <2>2, <2>3 DEF Entry
  <2>5. NetCount(s, "sticky", f, d) # 0
    BY <2>2, <2>3, <2>4, NetZero
  <2> QED BY <2>5
<1>6. ASSUME NEW d \in DeviceIds, NetCount(s, "sticky", f, d) # 0 PROVE I # {}
  <2>1. PICK i \in DOMAIN s, count \in {-1, 1} : s[i] = Entry("sticky", f, d, count)
    BY <1>6, NetZero
  <2>2. s[i].flag = f /\ s[i].kind = "sticky"
    BY <2>1 DEF Entry
  <2> QED BY <2>2
<1> QED BY <1>3, <1>4, <1>5, <1>6

\* There is an entry of f exactly if some device has a net count of it.
LEMMA OthersCounted ==
    ASSUME NEW s, VectorOK(s), NEW f \in Flags
    PROVE  Others(s, f) # {} <=> Abstract!HasEntry(CountsOf(s), f)
<1>1. s \in Seq(Entries)
  BY DEF VectorOK
<1>2. Abstract!HasEntry(CountsOf(s), f)
        <=> \E d \in DeviceIds, kind \in {"plain", "lock", "sticky"} :
                NetCount(s, kind, f, d) # 0
  <2>1. \A d \in DeviceIds : /\ CountsOf(s).plain[f][d] = NetCount(s, "plain", f, d)
                             /\ CountsOf(s).lock[f][d] = NetCount(s, "lock", f, d)
                             /\ CountsOf(s).sticky[f][d] = NetCount(s, "sticky", f, d)
    BY DEF CountsOf, NetCounts
  <2> QED BY <2>1 DEF Abstract!HasEntry
<1>3. ASSUME NEW i \in Others(s, f)
      PROVE  \E d \in DeviceIds, kind \in {"plain", "lock", "sticky"} :
                NetCount(s, kind, f, d) # 0
  <2>1. PICK kind \in {"plain", "lock", "sticky"}, d \in DeviceIds, count \in {-1, 1} :
            s[i] = Entry(kind, f, d, count)
    BY <1>1, OthersType
  <2>2. i \in DOMAIN s
    BY DEF Others
  <2>3. NetCount(s, kind, f, d) # 0
    BY <2>1, <2>2, NetZero
  <2> QED BY <2>3
<1>4. ASSUME NEW d \in DeviceIds, NEW kind \in {"plain", "lock", "sticky"},
             NetCount(s, kind, f, d) # 0
      PROVE  Others(s, f) # {}
  <2>1. PICK i \in DOMAIN s, count \in {-1, 1} : s[i] = Entry(kind, f, d, count)
    BY <1>4, NetZero
  <2>2. s[i].flag = f /\ s[i].kind # "led_lock"
    BY <2>1 DEF Entry
  <2> QED BY <2>2 DEF Others
<1> QED BY <1>2, <1>3, <1>4

\* The LED's locks of f add up to something exactly if f is locked.
LEMMA LedsCounted ==
    ASSUME NEW s, VectorOK(s), NEW f \in Flags
    PROVE  SumCounts(s, Leds(s, f)) > 0 <=> f \in CountsOf(s).led
<1> DEFINE a == Entry("led_lock", f, DeviceZero, 1)
           b == Entry("led_lock", f, DeviceZero, -1)
           I == Leds(s, f)
           g == CountsAt(s, I)
<1>1. s \in Seq(Entries)
  BY DEF VectorOK
<1>2. IsFiniteSet(I) /\ g \in [I -> Nat] /\ \A i \in I : s[i] = a
  BY <1>1, OthersType
<1>3. SumCounts(s, I) = Sums(g, I)[I]
  BY SumCountsFold
<1>4. \A i \in I : g[i] = 1
  <2>1. a.count = 1
    BY DEF Entry
  <2> HIDE DEF a, I
  <2> QED BY <1>2, <2>1 DEF CountsAt
<1>5. SumCounts(s, I) > 0 <=> I # {}
  <2> HIDE DEF g, I
  <2>1. Sums(g, I)[I] > 0 <=> \E i \in I : g[i] > 0
    BY <1>2, SumPositive
  <2> QED BY <1>3, <1>4, <2>1
<1>6. I # {} <=> \E i \in DOMAIN s : s[i] = a
  <2>1. a.flag = f /\ a.kind = "led_lock"
    BY DEF Entry
  <2> HIDE DEF a
  <2> QED BY <1>2, <2>1 DEF Leds
<1>7. b \notin Entries
  BY DEF Entry, Entries, Kinds
<1>8. f \in CountsOf(s).led <=> NumEntries(s, a) - NumEntries(s, b) > 0
  BY DEF CountsOf, NetCount
<1> HIDE DEF a, b, I
<1>9. /\ NumEntries(s, b) = 0 /\ NumEntries(s, a) \in Nat
      /\ NumEntries(s, a) > 0 <=> \E i \in DOMAIN s : s[i] = a
  BY <1>1, <1>7, NumType
<1>10. SumCounts(s, I) > 0 <=> f \in CountsOf(s).led
  BY <1>5, <1>6, <1>8, <1>9
<1> QED BY <1>10 DEF I

\* The entries of one kind and device add up to their net count.
LEMMA KindSum ==
    ASSUME NEW s \in Seq(Entries), NEW f \in Flags, NEW d \in DeviceIds,
           NEW kind \in {"plain", "lock", "sticky"}
    PROVE  LET I == Others(s, f)
               a == Where(s, Entry(kind, f, d, 1))
               b == Where(s, Entry(kind, f, d, -1))
           IN  /\ a \cup b \in SUBSET I
               /\ Sums(CountsAt(s, I), I)[a \cup b] = NetCount(s, kind, f, d)
<1> DEFINE I == Others(s, f)
           g == CountsAt(s, I)
           x == Entry(kind, f, d, 1)
           y == Entry(kind, f, d, -1)
           a == Where(s, x)
           b == Where(s, y)
<1>1. /\ x.flag = f /\ x.kind # "led_lock" /\ x.count = 1
      /\ y.flag = f /\ y.kind # "led_lock" /\ y.count = -1
  BY DEF Entry
<1>2. NetCount(s, kind, f, d) = NumEntries(s, x) - NumEntries(s, y)
  BY DEF NetCount
<1>3. IsFiniteSet(I) /\ g \in [I -> Int]
  BY OthersType
<1> HIDE DEF x, y
<1>4. a \in SUBSET I /\ b \in SUBSET I /\ a \cap b = {}
  <2>1. x # y
    BY <1>1
  <2> QED BY <1>1, <2>1 DEF Where, Others
<1>5. /\ NumEntries(s, x) = Cardinality(a) /\ NumEntries(s, y) = Cardinality(b)
      /\ NumEntries(s, x) \in Nat /\ NumEntries(s, y) \in Nat
  BY NumType
<1>6. (\A i \in a : g[i] = 1) /\ (\A i \in b : g[i] = -1)
  <2>1. (\A i \in a : s[i] = x) /\ (\A i \in b : s[i] = y)
    BY DEF Where
  <2> HIDE DEF a, b, I
  <2> QED BY <1>1, <1>4, <2>1 DEF CountsAt
<1> HIDE DEF I, g, a, b
<1>7. Sums(g, I)[a] = Cardinality(a)
  BY <1>3, <1>4, <1>6, SumsOnes
<1>8. Sums(g, I)[b] + Cardinality(b) = 0 /\ Sums(g, I)[b] \in Int
  BY <1>3, <1>4, <1>6, SumsOnes, SumsStep
<1>9. Sums(g, I)[a \cup b] = Sums(g, I)[a] + Sums(g, I)[b]
  BY <1>3, <1>4, SumsUnion
<1>10. Sums(g, I)[a \cup b] = NetCount(s, kind, f, d)
  BY <1>2, <1>5, <1>7, <1>8, <1>9
<1>11. a \cup b \in SUBSET I
  BY <1>4
<1> QED BY <1>10, <1>11 DEF I, g, a, b, x, y

\* The entries of one device add up to the three net counts.
LEMMA DeviceSum ==
    ASSUME NEW s \in Seq(Entries), NEW f \in Flags, NEW d \in DeviceIds, NEW J,
           J = {i \in Others(s, f) : s[i].device = d}
    PROVE  Sums(CountsAt(s, Others(s, f)), Others(s, f))[J]
             = NetCount(s, "plain", f, d) + NetCount(s, "lock", f, d)
                 + NetCount(s, "sticky", f, d)
<1> DEFINE I == Others(s, f)
           g == CountsAt(s, I)
           K(kind) == Where(s, Entry(kind, f, d, 1)) \cup Where(s, Entry(kind, f, d, -1))
           P == K("plain")
           L == K("lock")
           S == K("sticky")
<1>1. /\ P \in SUBSET I /\ L \in SUBSET I /\ S \in SUBSET I
      /\ Sums(g, I)[P] = NetCount(s, "plain", f, d)
      /\ Sums(g, I)[L] = NetCount(s, "lock", f, d)
      /\ Sums(g, I)[S] = NetCount(s, "sticky", f, d)
  BY KindSum
<1>2. ASSUME NEW kind \in {"plain", "lock", "sticky"}, NEW i \in K(kind)
      PROVE  i \in DOMAIN s /\ s[i].kind = kind /\ s[i].device = d
  BY DEF Where, Entry
<1>3. IsFiniteSet(I) /\ g \in [I -> Int]
  BY OthersType
<1>4. ASSUME NEW i \in J PROVE i \in P \cup L \cup S
  <2>1. i \in Others(s, f) /\ s[i].device = d /\ i \in DOMAIN s
    BY DEF Others
  <2>2. PICK kind \in {"plain", "lock", "sticky"}, e \in DeviceIds, count \in {-1, 1} :
            s[i] = Entry(kind, f, e, count)
    BY <2>1, OthersType
  <2>3. e = d
    BY <2>1, <2>2 DEF Entry
  <2>4. i \in K(kind)
    BY <2>1, <2>2, <2>3 DEF Where
  <2> QED BY <2>4
<1>5. \A i \in P : s[i].kind = "plain" /\ s[i].device = d
  BY <1>2
<1>6. \A i \in L : s[i].kind = "lock" /\ s[i].device = d
  BY <1>2
<1>7. \A i \in S : s[i].kind = "sticky" /\ s[i].device = d
  BY <1>2
<1>8. \A kind \in {"plain", "lock", "sticky"} : NetCount(s, kind, f, d) \in Int
  BY NetType
<1> HIDE DEF P, L, S, I, g
<1>9. J = (P \cup L) \cup S
  BY <1>1, <1>4, <1>5, <1>6, <1>7 DEF I
<1>10. P \cap L = {} /\ (P \cup L) \cap S = {} /\ P \cup L \in SUBSET I
  BY <1>1, <1>5, <1>6, <1>7
<1>11. Sums(g, I)[P \cup L] = Sums(g, I)[P] + Sums(g, I)[L]
  <2>1. P \in SUBSET I /\ L \in SUBSET I /\ P \cap L = {}
    BY <1>1, <1>10
  <2> HIDE DEF K
  <2> QED BY <1>3, <2>1, SumsUnion
<1>12. Sums(g, I)[(P \cup L) \cup S] = Sums(g, I)[P \cup L] + Sums(g, I)[S]
  <2> DEFINE Q == P \cup L
  <2>1. Q \in SUBSET I /\ S \in SUBSET I /\ Q \cap S = {}
    BY <1>1, <1>10
  <2> HIDE DEF Q, K
  <2>2. Sums(g, I)[Q \cup S] = Sums(g, I)[Q] + Sums(g, I)[S]
    BY <1>3, <2>1, SumsUnion
  <2> QED BY <2>2 DEF Q
<1> QED BY <1>1, <1>9, <1>11, <1>12 DEF I, g

\* The sum of is_pressed is the sum over the devices of their net counts.
LEMMA OthersSum ==
    ASSUME NEW s \in Seq(Entries), NEW f \in Flags
    PROVE  SumCounts(s, Others(s, f)) = Abstract!TotalCount(CountsOf(s), f)
<1> DEFINE I == Others(s, f)
           g == CountsAt(s, I)
           h == [i \in I |-> s[i].device]
           F == FiberSums(g, I, h, DeviceIds, I)
           t == Totals(CountsOf(s), f)
<1>1. IsFiniteSet(I) /\ g \in [I -> Int]
  BY OthersType
<1>2. h \in [I -> DeviceIds]
  <2>1. ASSUME NEW i \in I PROVE s[i].device \in DeviceIds
    <3>1. PICK kind \in {"plain", "lock", "sticky"}, d \in DeviceIds, count \in {-1, 1} :
            s[i] = Entry(kind, f, d, count)
      BY OthersType
    <3>2. s[i].device = d
      BY <3>1 DEF Entry
    <3> QED BY <3>2
  <2> QED BY <2>1
<1>3. F = t
  <2>1. ASSUME NEW d \in DeviceIds
        PROVE  Sums(g, I)[Fiber(I, h, d)]
                 = CountsOf(s).plain[f][d] + CountsOf(s).lock[f][d] + CountsOf(s).sticky[f][d]
    <3> DEFINE J == Fiber(I, h, d)
    <3>1. J = {i \in I : s[i].device = d}
      BY DEF Fiber
    <3>2. /\ CountsOf(s).plain[f][d] = NetCount(s, "plain", f, d)
          /\ CountsOf(s).lock[f][d] = NetCount(s, "lock", f, d)
          /\ CountsOf(s).sticky[f][d] = NetCount(s, "sticky", f, d)
      BY DEF CountsOf, NetCounts
    <3> HIDE DEF J
    <3>3. Sums(g, I)[J] = NetCount(s, "plain", f, d) + NetCount(s, "lock", f, d)
                            + NetCount(s, "sticky", f, d)
      BY <3>1, DeviceSum
    <3> QED BY <3>2, <3>3 DEF J
  <2> HIDE DEF g, I, h
  <2> QED BY <2>1 DEF FiberSums, Totals
<1>4. SumCounts(s, I) = Sums(g, I)[I]
  BY SumCountsFold
<1>5. Abstract!TotalCount(CountsOf(s), f) = Sums(t, DeviceIds)[DeviceIds]
  BY TotalCountFold
<1>6. IsFiniteSet(DeviceIds) /\ I \in SUBSET I
  BY ListAssumption
<1> HIDE DEF g, I, h, t
<1>7. Sums(g, I)[I] = Sums(FiberSums(g, I, h, DeviceIds, I), DeviceIds)[DeviceIds]
  BY <1>1, <1>2, <1>6, SumsFibers
<1>8. SumCounts(s, I) = Abstract!TotalCount(CountsOf(s), f)
  BY <1>3, <1>4, <1>5, <1>7
<1> QED BY <1>8 DEF I

\* The queries answer as those of the counting specification.
LEMMA Queries ==
    ASSUME NEW s, VectorOK(s), NEW f \in Flags
    PROVE  /\ is_pressed(s, f) <=> Abstract!IsPressed(CountsOf(s), f)
           /\ sticky_size(s, f) > 0 <=> Abstract!HasSticky(CountsOf(s), f)
<1>1. s \in Seq(Entries)
  BY DEF VectorOK
<1>2. is_pressed(s, f) <=> IF Others(s, f) = {} THEN SumCounts(s, Leds(s, f)) > 0
                                                ELSE SumCounts(s, Others(s, f)) > 0
  <2> DEFINE own == {i \in DOMAIN s : s[i].flag = f}
             led == {i \in own : s[i].kind = "led_lock"}
  <2>1. led = Leds(s, f) /\ own \ led = Others(s, f)
    BY DEF Leds, Others
  <2>2. is_pressed(s, f) <=> IF own \ led = {} THEN SumCounts(s, led) > 0
                                               ELSE SumCounts(s, own \ led) > 0
    BY Zenon DEF is_pressed
  <2> HIDE DEF own, led
  <2> QED BY <2>1, <2>2
<1>3. Others(s, f) # {} <=> Abstract!HasEntry(CountsOf(s), f)
  BY OthersCounted
<1>4. SumCounts(s, Leds(s, f)) > 0 <=> f \in CountsOf(s).led
  BY LedsCounted
<1>5. SumCounts(s, Others(s, f)) = Abstract!TotalCount(CountsOf(s), f)
  BY <1>1, OthersSum
<1>6. Abstract!IsPressed(CountsOf(s), f)
        <=> IF Abstract!HasEntry(CountsOf(s), f)
            THEN Abstract!TotalCount(CountsOf(s), f) > 0 ELSE f \in CountsOf(s).led
  BY Zenon DEF Abstract!IsPressed
<1>7. is_pressed(s, f) <=> Abstract!IsPressed(CountsOf(s), f)
  <2>1. CASE Others(s, f) = {}
    BY <1>2, <1>3, <1>4, <1>6, <2>1, Zenon
  <2>2. CASE Others(s, f) # {}
    BY <1>2, <1>3, <1>5, <1>6, <2>2, Zenon
  <2> QED BY <2>1, <2>2
<1> QED BY <1>7, StickySize

(* is_pressed, whose LED's lock counts only while nothing else is there,   *)
(* and sticky_size tell of the vector what they tell of its net counts:    *)
(* what the posting stage is modelled with is what the manager answers.    *)
THEOREM QueriesTheorem == Spec => []QueriesAgree
<1>1. IInv => QueriesAgree
  BY Queries DEF IInv, QueriesAgree, CountsOfList
<1> QED BY <1>1, VectorTheorem, PTL

=============================================================================
