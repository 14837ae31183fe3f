----------------------- MODULE CoreConfigurationProofs -----------------------
(***************************************************************************)
(* Proofs about CoreConfiguration for any files, devices, settings, rules  *)
(* and numbers of edits and profiles.                                      *)
(***************************************************************************)
EXTENDS CoreConfiguration, Foundations, SequenceTheorems

-----------------------------------------------------------------------------
(* What is true of every part of a configuration in memory.                *)

\* Values of registered keys: usable ones, or the default.
Registered(v, default) ==
  /\ v = [k \in DOMAIN default |-> v[k]]
  /\ \A k \in DOMAIN default : v[k] # Bad \/ v[k] = default[k]

\* Values of other keys.
Unregistered(x, default) ==
  x = [k \in DOMAIN x |-> x[k]] /\ DOMAIN x \cap DOMAIN default = {}

Number == Int \ {Bad}

DeviceKeys ==
  {"ignore", "manipulate_caps_lock_led", "treat_as_built_in_keyboard",
   "disable_built_in_keyboard_if_exists", "mouse_flip_x", "stick_deadzone", "stick_formula"}

\* The settings of a device.
Settings(v) == v \in [DeviceKeys -> Number] /\ v.stick_formula \in 0..999

FlagsOK(v) ==
  /\ Settings(v)
  /\ v.treat_as_built_in_keyboard = 1 => v.disable_built_in_keyboard_if_exists = 0

DeviceOK(e) ==
  /\ e = [id |-> e.id, v |-> e.v, simple |-> e.simple, fn |-> e.fn, extra |-> e.extra]
  /\ FlagsOK(e.v)
  /\ Unregistered(e.extra, DeviceDefault(e.id))
  /\ \A k \in DOMAIN e.extra : e.extra[k] \in Int
  /\ e.simple \in Seq(Pairs) /\ e.fn \in Seq(Pairs)

DevicesOK(s) == \E S : s \in Seq(S) /\ \A e \in S : DeviceOK(e)

Complex == [simultaneous : SimultaneousRange, speed : SpeedRange]

\* A profile's own values are the registered ones and not Bad; the other keys of
\* its json are none of them.
ValsOK(v) ==
  /\ v = [name |-> v.name, selected |-> v.selected]
  /\ v.name \in Nat /\ v.selected \in Nat

ExtraOK(extra) ==
  /\ Unregistered(extra, ProfileDefault)
  /\ \A k \in DOMAIN extra : extra[k] \in Nat \cup {Bad}

\* The function keys of a profile: the one with a default never goes.
FnKeysOK(s) == s \in Seq(Pairs) /\ \E i \in DOMAIN s : s[i].from = 1

\* Every rule has manipulators.
RuleOK(r) == /\ r = [body |-> r.body, enabled |-> r.enabled]
             /\ r.body # 0 /\ r.enabled # Bad

RulesOK(s) == \E S : s \in Seq(S) /\ \A r \in S : RuleOK(r)

ProfileOK(p) ==
  /\ p = [v |-> p.v, parameters |-> p.parameters, keyboard |-> p.keyboard,
          devices |-> p.devices, simple |-> p.simple, fn |-> p.fn,
          complex |-> p.complex, rules |-> p.rules, extra |-> p.extra]
  /\ p.complex \in Complex
  /\ DevicesOK(p.devices)
  /\ ValsOK(p.v) /\ ExtraOK(p.extra) /\ RulesOK(p.rules)
  /\ Registered(p.parameters, ParameterDefault) /\ Registered(p.keyboard, KeyboardDefault)
  /\ p.simple \in Seq(Pairs) /\ FnKeysOK(p.fn)

ProfilesOK(s) == s # <<>> /\ \E S : s \in Seq(S) /\ \A p \in S : ProfileOK(p)

ConfigOK(c) ==
  /\ c = [loaded |-> c.loaded, global |-> c.global, machine |-> c.machine,
          profiles |-> c.profiles, extra |-> c.extra]
  /\ ProfilesOK(c.profiles)
  /\ Registered(c.global, GlobalDefault) /\ Unregistered(c.extra, GlobalDefault)

IInv == ConfigOK(mem) /\ FileOK(file)

-----------------------------------------------------------------------------
(* Pairs of simple modifications and of function keys, saved and loaded.    *)

\* The indexes of the pairs that are not replaced by a later one of the same from.
LastOf(s) == {i \in DOMAIN s : \A j \in i+1..Len(s) : s[j].from # s[i].from}

Survivors(s) == {s[i] : i \in LastOf(s)}

Froms(T) == {p.from : p \in T}

\* One pair for each from.
Functional(T) == \A p, q \in T : p.from = q.from => p = q

OncePerFrom(s) == \A m, n \in DOMAIN s : s[m].from = s[n].from => m = n

\* The pairs of T by their froms.
SortedPairs(T) ==
  [n \in DOMAIN Ranked(Froms(T)) |-> CHOOSE p \in T : p.from = Ranked(Froms(T))[n]]

\* handle_json sorts what survives.
LEMMA HandleSorted ==
  ASSUME NEW a \in Seq(Pairs), NEW b \in Seq(Pairs)
  PROVE  HandleJson(a, b) = SortedPairs(Survivors(a \o b))
<1> DEFINE all == a \o b
           I == LastOf(all)
           last == AtIndexes(all, I)
<1>1. all \in Seq(Pairs)
  BY ConcatProperties
<1>2. I \in SUBSET DOMAIN all
  BY DEF LastOf
<1>3. HandleJson(a, b) = [n \in DOMAIN Ranked({p.from : p \in ToSet(last)}) |->
                            CHOOSE p \in ToSet(last) :
                              p.from = Ranked({q.from : q \in ToSet(last)})[n]]
  BY DEF HandleJson, FilterIndexes, LastOf
<1>4. ToSet(last) = Survivors(all)
  <2> HIDE DEF all, I
  <2>1. {last[n] : n \in DOMAIN last} = {all[i] : i \in I}
    BY <1>1, <1>2, AtIndexesSet
  <2>2. ToSet(last) = {last[n] : n \in DOMAIN last}
    <3> HIDE DEF last
    <3> QED BY DEF ToSet
  <2> QED BY <2>1, <2>2 DEF Survivors, I
<1> HIDE DEF last, all
<1> QED BY <1>3, <1>4 DEF SortedPairs, Froms, all

\* What survives has every from once.
LEMMA SurvivorsOK ==
  ASSUME NEW s \in Seq(Pairs)
  PROVE  /\ Survivors(s) \in SUBSET Pairs /\ Functional(Survivors(s))
         /\ IsFiniteSet(Survivors(s))
         /\ \A i \in DOMAIN s : \E p \in Survivors(s) : p.from = s[i].from
<1> DEFINE T == Survivors(s)
           m == Len(s)
<1>1. m \in Nat /\ DOMAIN s = 1..m /\ \A i \in 1..m : s[i] \in Pairs
  OBVIOUS
<1> HIDE DEF m
<1>2. LastOf(s) = {i \in 1..m : \A j \in i+1..m : s[j].from # s[i].from}
  BY <1>1 DEF LastOf, m
<1>3. T \in SUBSET Pairs
  BY <1>1, <1>2 DEF Survivors
<1>4. Functional(T)
  <2> SUFFICES ASSUME NEW i \in LastOf(s), NEW j \in LastOf(s), s[i].from = s[j].from
               PROVE  i = j
    BY DEF Functional, Survivors
  <2>1. i \in 1..m /\ j \in 1..m /\ j \notin i+1..m /\ i \notin j+1..m
    BY <1>2
  <2> QED BY <1>1, <2>1
<1>5. IsFiniteSet(T)
  <2>1. IsFiniteSet(1..m)
    BY <1>1, FS_Interval
  <2>2. IsFiniteSet(LastOf(s))
    BY <1>2, <2>1, FS_Subset
  <2>3. IsFiniteSet({s[i] : i \in LastOf(s)})
    BY <2>2, ValuesFinite
  <2> QED BY <2>3 DEF Survivors
<1>6. ASSUME NEW i \in DOMAIN s PROVE \E p \in T : p.from = s[i].from
  <2> DEFINE L == {k \in Nat : m - k \in 1..m /\ s[m - k].from = s[i].from}
  <2>1. m - (m - i) = i /\ m - i \in Nat
    BY <1>1
  <2>2. m - i \in L
    BY <1>1, <2>1
  <2>3. PICK k \in L : \A l \in L : k <= l
    <3>1. L \in SUBSET Nat /\ L # {}
      BY <2>2
    <3> HIDE DEF L
    <3> QED BY <3>1, Smallest
  <2> DEFINE n == m - k
  <2>4. n \in 1..m /\ s[n].from = s[i].from /\ k \in Nat
    BY <2>3
  <2>5. ASSUME NEW j \in n+1..m, s[j].from = s[n].from PROVE FALSE
    <3>1. m - (m - j) = j /\ m - j \in Nat /\ j \in 1..m /\ ~(k <= m - j)
      BY <1>1, <2>4
    <3>2. m - j \in L
      BY <2>4, <2>5, <3>1
    <3> HIDE DEF L
    <3> QED BY <2>3, <3>1, <3>2
  <2> HIDE DEF n
  <2>6. n \in LastOf(s)
    BY <1>2, <2>4, <2>5
  <2> QED BY <2>4, <2>6 DEF Survivors
<1> QED BY <1>3, <1>4, <1>5, <1>6

\* Pairs that are sorted are the same pairs.
LEMMA SortedOK ==
  ASSUME NEW T \in SUBSET Pairs, Functional(T), IsFiniteSet(T)
  PROVE  /\ SortedPairs(T) \in Seq(T)
         /\ ToSet(SortedPairs(T)) = T
         /\ OncePerFrom(SortedPairs(T))
<1> DEFINE F == Froms(T)
           R == Ranked(F)
           s == SortedPairs(T)
           c == Cardinality(F)
<1>1. F \in SUBSET Nat
  BY DEF Froms, Pairs
<1>2. IsFiniteSet(F)
  <2> DEFINE from == [p \in T |-> p.from]
  <2>1. IsFiniteSet({from[p] : p \in T})
    <3> HIDE DEF from
    <3> QED BY ValuesFinite
  <2>2. F = {from[p] : p \in T}
    BY DEF Froms
  <2> QED BY <2>1, <2>2
<1>3. /\ c \in Nat /\ DOMAIN R = 1..c
      /\ \A n \in DOMAIN R : R[n] \in F
      /\ \A i \in F : \E n \in DOMAIN R : R[n] = i
      /\ \A a, b \in DOMAIN R : a < b => R[a] < R[b]
  <2> HIDE DEF F
  <2> QED BY <1>1, <1>2, RankedFinite
<1>4. s = [n \in DOMAIN R |-> CHOOSE p \in T : p.from = R[n]]
  BY DEF SortedPairs
<1>5. \A f \in F : \E p \in T : p.from = f
  BY DEF Froms
<1> HIDE DEF R, F, s, c
<1>6. DOMAIN s = 1..c /\ \A n \in 1..c : s[n] \in T /\ s[n].from = R[n]
  BY <1>3, <1>4, <1>5
<1>7. s \in Seq(T)
  BY <1>3, <1>4, <1>6
<1>8. OncePerFrom(s)
  <2> SUFFICES ASSUME NEW a \in 1..c, NEW b \in 1..c, s[a].from = s[b].from PROVE a = b
    BY <1>6 DEF OncePerFrom
  <2>1. R[a] = R[b] /\ R[a] \in Nat
    BY <1>1, <1>3, <1>6
  <2>2. ~(R[a] < R[b]) /\ ~(R[b] < R[a])
    BY <2>1
  <2> QED BY <1>3, <2>2
<1>9. ToSet(s) = T
  <2>1. \A p \in T : p.from \in F
    BY DEF Froms, F
  <2>2. ASSUME NEW p \in T PROVE \E n \in 1..c : s[n] = p
    <3>1. PICK n \in 1..c : R[n] = p.from
      BY <1>3, <2>1
    <3> QED BY <1>6, <3>1 DEF Functional
  <2>3. ToSet(s) = {s[n] : n \in 1..c}
    BY <1>6 DEF ToSet
  <2> QED BY <1>6, <2>2, <2>3
<1> QED BY <1>7, <1>8, <1>9 DEF s

\* Handling json yields pairs, and loses no from.
LEMMA HandleJsonOK ==
  ASSUME NEW a \in Seq(Pairs), NEW b \in Seq(Pairs)
  PROVE  /\ HandleJson(a, b) \in Seq(Pairs)
         /\ \A i \in DOMAIN a : \E n \in DOMAIN HandleJson(a, b) :
              HandleJson(a, b)[n].from = a[i].from
<1> DEFINE all == a \o b
           T == Survivors(all)
           s == SortedPairs(T)
<1>1. all \in Seq(Pairs) /\ \A i \in DOMAIN a : i \in DOMAIN all /\ all[i] = a[i]
  BY ConcatProperties
<1>2. HandleJson(a, b) = s
  BY HandleSorted
<1> HIDE DEF all
<1>3. /\ T \in SUBSET Pairs /\ Functional(T) /\ IsFiniteSet(T)
      /\ \A i \in DOMAIN all : \E p \in T : p.from = all[i].from
  BY <1>1, SurvivorsOK
<1> HIDE DEF T
<1>4. s \in Seq(T) /\ ToSet(s) = T
  BY <1>3, SortedOK
<1> HIDE DEF s
<1>5. s \in Seq(Pairs)
  BY <1>3, <1>4
<1>6. \A p \in T : \E n \in DOMAIN s : s[n] = p
  BY <1>4 DEF ToSet
<1> QED BY <1>1, <1>2, <1>3, <1>5, <1>6

\* The indexes of the complete pairs without a complete one of the same from before.
Firsts(x) ==
  {i \in DOMAIN x : /\ x[i].from # 0 /\ x[i].to # 0
                    /\ ~\E j \in 1..i-1 : x[j].from = x[i].from /\ x[j].to # 0}

\* The pairs that act.
Acting(x) == {x[i] : i \in Firsts(x)}

Complete(T) == {p \in T : p.from # 0 /\ p.to # 0}

\* What acts is complete, has a from once, and stands for every complete pair.
LEMMA ActingOK ==
  ASSUME NEW x \in Seq(Pairs)
  PROVE  /\ Acting(x) \in SUBSET Pairs
         /\ Acting(x) = Complete(Acting(x))
         /\ Functional(Acting(x))
         /\ \A i \in DOMAIN x : x[i].from # 0 /\ x[i].to # 0 =>
              \E p \in Acting(x) : p.from = x[i].from
         /\ OncePerFrom(x) => Acting(x) = Complete(ToSet(x))
<1>1. Len(x) \in Nat /\ DOMAIN x = 1..Len(x) /\ \A i \in 1..Len(x) : x[i] \in Pairs
  OBVIOUS
<1> DEFINE m == Len(x)
<1> HIDE DEF m
<1>2. /\ m \in Nat /\ DOMAIN x = 1..m /\ \A i \in 1..m : x[i] \in Pairs
      /\ \A i \in Firsts(x) : /\ i \in 1..m /\ x[i].from # 0 /\ x[i].to # 0
                              /\ ~\E j \in 1..i-1 : x[j].from = x[i].from /\ x[j].to # 0
  BY <1>1 DEF m, Firsts
<1>3. Acting(x) \in SUBSET Pairs /\ Acting(x) = Complete(Acting(x))
  BY <1>2 DEF Acting, Complete
<1>4. Functional(Acting(x))
  <2> SUFFICES ASSUME NEW i \in Firsts(x), NEW j \in Firsts(x), x[i].from = x[j].from
               PROVE  i = j
    BY DEF Functional, Acting
  <2>1. i \in 1..m /\ j \in 1..m /\ j \notin 1..i-1 /\ i \notin 1..j-1
    BY <1>2
  <2> QED BY <1>2, <2>1
<1>5. ASSUME NEW i \in DOMAIN x, x[i].from # 0, x[i].to # 0
      PROVE  \E p \in Acting(x) : p.from = x[i].from
  <2> DEFINE L == {k \in 1..m : x[k].from = x[i].from /\ x[k].to # 0}
  <2>1. L \in SUBSET Nat /\ i \in L
    BY <1>2, <1>5
  <2>2. PICK k \in L : \A l \in L : k <= l
    <3> HIDE DEF L
    <3> QED BY <2>1, Smallest
  <2>3. k \in 1..m /\ x[k].from = x[i].from /\ x[k].to # 0
    BY <2>2
  <2>4. ASSUME NEW j \in 1..k-1, x[j].from = x[k].from, x[j].to # 0 PROVE FALSE
    <3>1. j \in 1..m /\ ~(k <= j)
      BY <1>2, <2>3
    <3>2. j \in L
      BY <2>3, <2>4, <3>1
    <3> HIDE DEF L
    <3> QED BY <2>2, <3>1, <3>2
  <2> HIDE DEF L
  <2>5. k \in Firsts(x)
    BY <1>2, <1>5, <2>3, <2>4 DEF Firsts
  <2> QED BY <2>3, <2>5 DEF Acting
<1>6. ASSUME OncePerFrom(x) PROVE Acting(x) = Complete(ToSet(x))
  <2>1. \A i \in 1..m : i \in Firsts(x) <=> x[i].from # 0 /\ x[i].to # 0
    <3> SUFFICES ASSUME NEW i \in 1..m, x[i].from # 0, x[i].to # 0 PROVE i \in Firsts(x)
      BY <1>2
    <3>1. ASSUME NEW j \in 1..i-1, x[j].from = x[i].from PROVE FALSE
      <4>1. j \in DOMAIN x /\ i \in DOMAIN x /\ j # i
        BY <1>2
      <4> QED BY <1>6, <3>1, <4>1 DEF OncePerFrom
    <3> QED BY <1>2, <3>1 DEF Firsts
  <2>2. ToSet(x) = {x[i] : i \in 1..m}
    BY <1>2 DEF ToSet
  <2> QED BY <1>2, <2>1, <2>2 DEF Acting, Complete
<1> QED BY <1>3, <1>4, <1>5, <1>6

\* What is saved is what acts without the defaults, each from once.
LEMMA SavedPairs ==
  ASSUME NEW x \in Seq(Pairs), NEW D
  PROVE  /\ PairsToJson(x, D) \in Seq(Pairs)
         /\ ToSet(PairsToJson(x, D)) = Acting(x) \ ToSet(D)
         /\ OncePerFrom(PairsToJson(x, D))
<1> DEFINE I == {i \in Firsts(x) : x[i] \notin ToSet(D)}
           J == AtIndexes(x, I)
           R == Ranked(I)
<1>1. PairsToJson(x, D) = J
  <2>1. I = {i \in DOMAIN x :
               /\ x[i].from # 0 /\ x[i].to # 0
               /\ ~\E j \in 1..i-1 : x[j].from = x[i].from /\ x[j].to # 0
               /\ x[i] \notin ToSet(D)}
    BY DEF Firsts
  <2> QED BY <2>1 DEF PairsToJson, FilterIndexes
<1>2. I \in SUBSET DOMAIN x /\ I \in SUBSET (1..Len(x)) /\ Len(x) \in Nat
  BY DEF Firsts
<1>3. J \in Seq(Pairs)
  <2> HIDE DEF I
  <2> QED BY <1>2, AtIndexesType
<1>4. ToSet(J) = Acting(x) \ ToSet(D)
  <2>1. {J[n] : n \in DOMAIN J} = {x[i] : i \in I}
    <3> HIDE DEF I
    <3> QED BY <1>2, AtIndexesSet
  <2>2. ToSet(J) = {J[n] : n \in DOMAIN J}
    <3> HIDE DEF J
    <3> QED BY DEF ToSet
  <2>3. {x[i] : i \in I} = Acting(x) \ ToSet(D)
    BY DEF Acting
  <2> QED BY <2>1, <2>2, <2>3
<1>5. OncePerFrom(J)
  <2>1. \A n \in DOMAIN R : R[n] \in I
    <3> HIDE DEF I
    <3> QED BY <1>2, RankedType
  <2>2. \A a, b \in DOMAIN R : R[a] = R[b] => a = b
    <3> HIDE DEF I
    <3> QED BY <1>2, RankedOnce
  <2>3. DOMAIN J = DOMAIN R /\ \A n \in DOMAIN R : J[n] = x[R[n]]
    BY DEF AtIndexes
  <2> HIDE DEF J, R
  <2> SUFFICES ASSUME NEW a \in DOMAIN R, NEW b \in DOMAIN R, x[R[a]].from = x[R[b]].from
               PROVE  R[a] = R[b]
    BY <2>2, <2>3 DEF OncePerFrom
  <2> DEFINE i == R[a]
             j == R[b]
  <2>4. i \in Firsts(x) /\ j \in Firsts(x) /\ x[i].from = x[j].from
    BY <2>1
  <2> HIDE DEF i, j
  <2>5. /\ i \in 1..Len(x) /\ j \in 1..Len(x) /\ j \notin 1..i-1 /\ i \notin 1..j-1
    BY <2>4 DEF Firsts
  <2>6. i = j
    BY <1>2, <2>5
  <2> QED BY <2>6 DEF i, j
<1> QED BY <1>1, <1>3, <1>4, <1>5

\* Without defaults, what is saved is what acts.
LEMMA SavedAll ==
  ASSUME NEW x \in Seq(Pairs)
  PROVE  /\ PairsToJson(x, <<>>) \in Seq(Pairs)
         /\ ToSet(PairsToJson(x, <<>>)) = Acting(x)
         /\ OncePerFrom(PairsToJson(x, <<>>))
<1> DEFINE D == <<>>
<1>1. ToSet(D) = {}
  BY DEF ToSet
<1> HIDE DEF D
<1>2. /\ PairsToJson(x, D) \in Seq(Pairs)
      /\ ToSet(PairsToJson(x, D)) = Acting(x) \ ToSet(D)
      /\ OncePerFrom(PairsToJson(x, D))
  BY SavedPairs
<1>3. Acting(x) \ ToSet(D) = Acting(x)
  BY <1>1
<1> QED BY <1>2, <1>3 DEF D

\* Pairs of different froms all survive, and a default before them unless one has
\* its from.
LEMMA AddedSurvivors ==
  ASSUME NEW J \in Seq(Pairs), OncePerFrom(J)
  PROVE  /\ Survivors(<<>> \o J) = ToSet(J)
         /\ \A d \in Pairs : Survivors(<<d>> \o J) =
              ToSet(J) \cup {e \in {d} : e.from \notin Froms(ToSet(J))}
<1> DEFINE m == Len(J)
<1>1. /\ m \in Nat /\ DOMAIN J = 1..m /\ ToSet(J) = {J[i] : i \in 1..m}
      /\ \A i, j \in 1..m : J[i].from = J[j].from => i = j
  BY DEF ToSet, OncePerFrom
<1>2. <<>> \o J = J
  BY ConcatEmptySeq
<1>3. Survivors(J) = ToSet(J)
  <2>1. LastOf(J) = 1..m
    <3> SUFFICES ASSUME NEW i \in 1..m, NEW j \in i+1..m PROVE J[j].from # J[i].from
      BY <1>1 DEF LastOf
    <3>1. j \in 1..m /\ j # i
      BY <1>1
    <3> QED BY <1>1, <3>1
  <2> QED BY <1>1, <2>1 DEF Survivors
<1>4. ASSUME NEW d \in Pairs
      PROVE  Survivors(<<d>> \o J) = ToSet(J) \cup {e \in {d} : e.from \notin Froms(ToSet(J))}
  <2> DEFINE s == <<d>> \o J
  <2>1. s \in Seq(Pairs) /\ Len(s) = m + 1 /\ s[1] = d /\ \A i \in 1..m : s[i + 1] = J[i]
    <3>1. <<d>> \in Seq(Pairs) /\ Len(<<d>>) = 1 /\ <<d>>[1] = d
      OBVIOUS
    <3> DEFINE o == <<d>>
    <3> HIDE DEF o
    <3>2. o \in Seq(Pairs) /\ Len(o) = 1 /\ o[1] = d
      BY <3>1 DEF o
    <3>3. /\ o \o J \in Seq(Pairs) /\ Len(o \o J) = 1 + m
          /\ \A i \in 1..1 + m : (o \o J)[i] = IF i <= 1 THEN o[i] ELSE J[i - 1]
      <4> DEFINE k == Len(o)
      <4>1. /\ o \o J \in Seq(Pairs) /\ Len(o \o J) = k + m
            /\ \A i \in 1..k + m : (o \o J)[i] = IF i <= k THEN o[i] ELSE J[i - k]
        BY <3>2, ConcatProperties, Zenon
      <4>2. k = 1
        BY <3>2
      <4> HIDE DEF k, m
      <4> QED BY <4>1, <4>2
    <3> HIDE DEF m
    <3>4. (o \o J)[1] = d /\ Len(o \o J) = m + 1
      BY <1>1, <3>2, <3>3
    <3>5. \A i \in 1..m : (o \o J)[i + 1] = J[i]
      <4> SUFFICES ASSUME NEW i \in 1..m PROVE (o \o J)[i + 1] = J[i]
        OBVIOUS
      <4>1. i + 1 \in 1..1 + m /\ ~(i + 1 <= 1) /\ (i + 1) - 1 = i
        BY <1>1
      <4> QED BY <3>3, <4>1
    <3> QED BY <3>3, <3>4, <3>5 DEF o
  <2> HIDE DEF s, m
  <2>2. DOMAIN s = 1..m+1
    BY <2>1
  <2>3. \A i \in 1..m+1 : i = 1 \/ (i - 1 \in 1..m /\ s[i] = J[i - 1])
    <3> SUFFICES ASSUME NEW i \in 1..m+1, i # 1 PROVE i - 1 \in 1..m /\ s[i] = J[i - 1]
      OBVIOUS
    <3>1. i - 1 \in 1..m /\ (i - 1) + 1 = i
      BY <1>1
    <3> QED BY <2>1, <3>1
  <2>4. ASSUME NEW i \in 1..m PROVE i + 1 \in LastOf(s)
    <3>1. i + 1 \in 1..m+1
      BY <1>1
    <3>2. ASSUME NEW j \in (i+1)+1..m+1 PROVE s[j].from # s[i + 1].from
      <4>1. j \in 1..m+1 /\ j # 1 /\ j - 1 # i
        BY <1>1
      <4>2. j - 1 \in 1..m /\ s[j] = J[j - 1] /\ s[i + 1] = J[i]
        BY <2>1, <2>3, <4>1
      <4> QED BY <1>1, <4>1, <4>2
    <3> QED BY <2>1, <2>2, <3>1, <3>2 DEF LastOf
  <2>5. 1 \in LastOf(s) <=> d.from \notin Froms(ToSet(J))
    <3>1. 1 \in 1..m+1
      BY <1>1
    <3>2. 1 \in LastOf(s) <=> \A j \in 2..m+1 : s[j].from # d.from
      BY <2>1, <2>2, <3>1 DEF LastOf
    <3>3. \A j \in 2..m+1 : j - 1 \in 1..m /\ s[j] = J[j - 1]
      <4>1. \A j \in 2..m+1 : j \in 1..m+1 /\ j # 1
        BY <1>1
      <4> QED BY <2>3, <4>1
    <3>4. \A i \in 1..m : i + 1 \in 2..m+1 /\ s[i + 1] = J[i]
      BY <1>1, <2>1
    <3>5. (\A j \in 2..m+1 : s[j].from # d.from) <=> \A i \in 1..m : J[i].from # d.from
      BY <3>3, <3>4
    <3> QED BY <1>1, <3>2, <3>5 DEF Froms
  <2>6. LastOf(s) \in SUBSET (1..m+1)
    BY <2>2 DEF LastOf
  <2>7. Survivors(s) = {J[i] : i \in 1..m} \cup {s[i] : i \in LastOf(s) \cap {1}}
    <3>1. \A p \in Survivors(s) : \/ \E i \in 1..m : p = J[i]
                                  \/ p = s[1] /\ 1 \in LastOf(s)
      BY <2>3, <2>6 DEF Survivors
    <3>2. \A i \in 1..m : J[i] \in Survivors(s)
      BY <2>1, <2>4 DEF Survivors
    <3>3. 1 \in LastOf(s) => s[1] \in Survivors(s)
      BY DEF Survivors
    <3> QED BY <3>1, <3>2, <3>3
  <2>8. {s[i] : i \in LastOf(s) \cap {1}} = {e \in {d} : e.from \notin Froms(ToSet(J))}
    BY <2>1, <2>5
  <2> QED BY <1>1, <2>7, <2>8 DEF s
<1> QED BY <1>2, <1>3, <1>4

\* Pairs that are saved and handled again: those that act ...
LEMMA SimpleReload ==
  ASSUME NEW x \in Seq(Pairs)
  PROVE  LET y == HandleJson(<<>>, PairsToJson(x, <<>>))
         IN  /\ y \in Seq(Pairs)
             /\ ToSet(PairsToJson(y, <<>>)) = ToSet(PairsToJson(x, <<>>))
             /\ HandleJson(<<>>, PairsToJson(y, <<>>)) = y
<1> DEFINE H(z) == HandleJson(<<>>, PairsToJson(z, <<>>))
           y == H(x)
<1>0. <<>> \in Seq(Pairs) /\ ToSet(<<>>) = {}
  BY EmptySeq DEF ToSet
<1>1. ASSUME NEW z \in Seq(Pairs)
      PROVE  /\ ToSet(PairsToJson(z, <<>>)) = Acting(z)
             /\ H(z) = SortedPairs(Acting(z))
             /\ H(z) \in Seq(Pairs) /\ Acting(H(z)) = Acting(z)
  <2> DEFINE J == PairsToJson(z, <<>>)
             A == Acting(z)
             s == SortedPairs(A)
  <2>1. J \in Seq(Pairs) /\ ToSet(J) = A /\ OncePerFrom(J)
    BY SavedAll
  <2> HIDE DEF J, A
  <2>2. HandleJson(<<>>, J) = SortedPairs(Survivors(<<>> \o J))
    BY <1>0, <2>1, HandleSorted
  <2>3. Survivors(<<>> \o J) = A
    BY <2>1, AddedSurvivors
  <2>4. <<>> \o J \in Seq(Pairs)
    BY <1>0, <2>1, ConcatProperties
  <2>5. A \in SUBSET Pairs /\ Functional(A) /\ IsFiniteSet(A)
    BY <2>3, <2>4, SurvivorsOK
  <2>6. s \in Seq(A) /\ ToSet(s) = A /\ OncePerFrom(s)
    BY <2>5, SortedOK
  <2> HIDE DEF s
  <2>7. s \in Seq(Pairs)
    BY <2>5, <2>6
  <2>8. A = Complete(A)
    BY ActingOK DEF A
  <2>9. Acting(s) = A
    BY <2>6, <2>7, <2>8, ActingOK
  <2> QED BY <2>1, <2>2, <2>3, <2>7, <2>9 DEF J, A, s
<1> HIDE DEF H
<1>2. y \in Seq(Pairs) /\ Acting(y) = Acting(x)
  BY <1>1
<1>3. ToSet(PairsToJson(y, <<>>)) = ToSet(PairsToJson(x, <<>>))
  BY <1>1, <1>2
<1>4. H(y) = y
  BY <1>1, <1>2
<1> QED BY <1>2, <1>3, <1>4 DEF H

\* ... and the default where none of them has its from.
WithDefault(A, d) == (A \ {d}) \cup {e \in {d} : e.from \notin Froms(A \ {d})}

\* The same with a default, which is not saved.
LEMMA DefaultReload ==
  ASSUME NEW d \in Pairs, NEW x \in Seq(Pairs)
  PROVE  LET y == HandleJson(<<d>>, PairsToJson(x, <<d>>))
         IN  /\ y \in Seq(Pairs)
             /\ Acting(y) = Complete(WithDefault(Acting(x), d))
             /\ HandleJson(<<d>>, PairsToJson(y, <<d>>)) = y
             /\ \E n \in DOMAIN y : y[n].from = d.from
             /\ ToSet(y) = WithDefault(Acting(x), d)
<1> DEFINE H(z) == HandleJson(<<d>>, PairsToJson(z, <<d>>))
           U(z) == WithDefault(Acting(z), d)
           y == H(x)
<1>0. <<d>> \in Seq(Pairs) /\ ToSet(<<d>>) = {d}
  BY DEF ToSet
<1>1. ASSUME NEW z \in Seq(Pairs)
      PROVE  /\ H(z) = SortedPairs(U(z)) /\ H(z) \in Seq(Pairs) /\ ToSet(H(z)) = U(z)
             /\ Acting(H(z)) = Complete(U(z))
  <2> DEFINE J == PairsToJson(z, <<d>>)
             A == Acting(z)
             s == SortedPairs(U(z))
  <2>1. J \in Seq(Pairs) /\ ToSet(J) = A \ {d} /\ OncePerFrom(J)
    BY <1>0, SavedPairs
  <2> HIDE DEF J
  <2>2. HandleJson(<<d>>, J) = SortedPairs(Survivors(<<d>> \o J))
    BY <1>0, <2>1, HandleSorted
  <2>3. Survivors(<<d>> \o J) = U(z)
    <3>1. Survivors(<<d>> \o J) = ToSet(J) \cup {e \in {d} : e.from \notin Froms(ToSet(J))}
      BY <2>1, AddedSurvivors
    <3> QED BY <2>1, <3>1 DEF WithDefault
  <2>4. <<d>> \o J \in Seq(Pairs)
    BY <1>0, <2>1, ConcatProperties
  <2>5. U(z) \in SUBSET Pairs /\ Functional(U(z)) /\ IsFiniteSet(U(z))
    BY <2>3, <2>4, SurvivorsOK
  <2> HIDE DEF U
  <2>6. s \in Seq(U(z)) /\ ToSet(s) = U(z) /\ OncePerFrom(s)
    BY <2>5, SortedOK
  <2> HIDE DEF s
  <2>7. s \in Seq(Pairs)
    BY <2>5, <2>6
  <2>8. Acting(s) = Complete(U(z))
    BY <2>6, <2>7, ActingOK
  <2> QED BY <2>2, <2>3, <2>6, <2>7, <2>8 DEF J, s
<1>2. y \in Seq(Pairs) /\ Acting(y) = Complete(U(x)) /\ ToSet(y) = U(x) /\ y = SortedPairs(U(x))
  <2> HIDE DEF H, U
  <2> QED BY <1>1
<1>3. U(y) = U(x)
  <2> DEFINE A == Acting(x)
  <2>1. A = Complete(A)
    BY ActingOK
  <2> HIDE DEF A, y
  <2>2. Complete(WithDefault(A, d)) \ {d} = A \ {d}
    BY <2>1 DEF Complete, WithDefault
  <2>3. Acting(y) \ {d} = A \ {d}
    BY <1>2, <2>2 DEF A
  <2> QED BY <2>3 DEF WithDefault, A
<1>4. H(y) = y
  <2> HIDE DEF H, U
  <2>1. H(y) = SortedPairs(U(y))
    BY <1>1, <1>2
  <2> QED BY <1>2, <1>3, <2>1
<1>5. \E n \in DOMAIN y : y[n].from = d.from
  <2>1. \E p \in U(x) : p.from = d.from
    BY DEF WithDefault, Froms
  <2> HIDE DEF y, U
  <2> QED BY <1>2, <2>1 DEF ToSet
<1> HIDE DEF H
<1> QED BY <1>2, <1>4, <1>5 DEF H

\* A profile's function keys act as before when each has a to ...
LEMMA FnReload ==
  ASSUME NEW x \in Seq(Pairs), \E i \in DOMAIN x : x[i].from = 1,
         \A i \in DOMAIN x : x[i].to # 0
  PROVE  ToSet(PairsToJson(HandleJson(ProfileFnKeys, PairsToJson(x, ProfileFnKeys)), <<>>))
           = ToSet(PairsToJson(x, <<>>))
<1> DEFINE d == [from |-> 1, to |-> 7]
           A == Acting(x)
           y == HandleJson(ProfileFnKeys, PairsToJson(x, ProfileFnKeys))
<1>1. ProfileFnKeys = <<d>> /\ d \in Pairs /\ d.from = 1 /\ d.to = 7
  BY DEF ProfileFnKeys, Pairs
<1> HIDE DEF d
<1>2. y \in Seq(Pairs) /\ Acting(y) = Complete(WithDefault(A, d))
  BY <1>1, DefaultReload
<1>3. PICK q \in A : q.from = 1
  <2>1. PICK i \in DOMAIN x : x[i].from = 1
    OBVIOUS
  <2>2. x[i].from # 0 /\ x[i].to # 0
    BY <2>1
  <2> QED BY <2>1, <2>2, ActingOK
<1>4. A = Complete(A) /\ Functional(A)
  BY ActingOK
<1> HIDE DEF A, y
<1>5. WithDefault(A, d) = A
  BY <1>1, <1>3, <1>4 DEF WithDefault, Froms, Functional
<1>7. ToSet(PairsToJson(y, <<>>)) = Acting(y) /\ ToSet(PairsToJson(x, <<>>)) = A
  BY <1>2, SavedAll DEF A
<1> QED BY <1>2, <1>4, <1>5, <1>7 DEF y

\* ... and a device's always, as their default has none.
LEMMA DeviceFnReload ==
  ASSUME NEW x \in Seq(Pairs)
  PROVE  /\ ToSet(PairsToJson(HandleJson(DeviceFnKeys, PairsToJson(x, DeviceFnKeys)), <<>>))
              = ToSet(PairsToJson(x, <<>>))
         /\ ToSet(PairsToJson(x, DeviceFnKeys)) = ToSet(PairsToJson(x, <<>>))
<1> DEFINE d == [from |-> 1, to |-> 0]
           A == Acting(x)
           y == HandleJson(DeviceFnKeys, PairsToJson(x, DeviceFnKeys))
<1>1. DeviceFnKeys = <<d>> /\ d \in Pairs /\ d.to = 0
  BY DEF DeviceFnKeys, Pairs
<1> HIDE DEF d
<1>2. y \in Seq(Pairs) /\ Acting(y) = Complete(WithDefault(A, d))
  BY <1>1, DefaultReload
<1>4. A = Complete(A)
  BY ActingOK
<1> HIDE DEF A, y
<1>5. Complete(WithDefault(A, d)) = A /\ A \ {d} = A
  BY <1>1, <1>4 DEF WithDefault, Complete
<1>6. ToSet(DeviceFnKeys) = {d}
  BY <1>1 DEF ToSet
<1>7. ToSet(PairsToJson(y, <<>>)) = Acting(y) /\ ToSet(PairsToJson(x, <<>>)) = A
  BY <1>2, SavedAll DEF A
<1>8. ToSet(PairsToJson(x, DeviceFnKeys)) = A \ {d}
  BY <1>6, SavedPairs DEF A
<1> QED BY <1>2, <1>5, <1>7, <1>8 DEF y

-----------------------------------------------------------------------------
(* Values, saved and loaded.                                               *)

\* What is not negative is not Bad.
LEMMA NotBad == (\A n \in Nat : n # Bad) /\ Bad \in Int
  BY DEF Bad

\* Values that were loaded are registered ones, and usable or the default.
LEMMA UpdateRegistered ==
  ASSUME NEW default, NEW json
  PROVE  Registered(UpdateValue(default, json), default)
<1> DEFINE v == UpdateValue(default, json)
<1>1. v = [k \in DOMAIN default |->
             IF k \in DOMAIN json /\ json[k] # Bad THEN json[k] ELSE default[k]]
  BY DEF UpdateValue
<1> HIDE DEF v
<1>2. Registered(v, default)
  BY <1>1 DEF Registered
<1> QED BY <1>2 DEF v

\* What else the json has is not registered.
LEMMA ExtraUnregistered ==
  ASSUME NEW default, NEW json
  PROVE  Unregistered(Extra(json, default), default)
<1> DEFINE x == Extra(json, default)
<1>1. x = [k \in DOMAIN json \ DOMAIN default |-> json[k]]
  BY DEF Extra
<1> HIDE DEF x
<1>2. Unregistered(x, default)
  BY <1>1 DEF Unregistered
<1> QED BY <1>2 DEF x

\* A setter that stores a usable value.
LEMMA RegisteredSet ==
  ASSUME NEW default, NEW v, Registered(v, default), NEW k, NEW x, x # Bad
  PROVE  Registered([v EXCEPT ![k] = x], default)
<1> DEFINE w == [v EXCEPT ![k] = x]
<1>1. DOMAIN v = DOMAIN default
  BY DEF Registered
<1>2. /\ w = [n \in DOMAIN default |-> w[n]]
      /\ \A n \in DOMAIN default : w[n] = IF n = k THEN x ELSE v[n]
  BY <1>1
<1> HIDE DEF w
<1>3. Registered(w, default)
  BY <1>2 DEF Registered
<1> QED BY <1>3 DEF w

\* What is saved is what is loaded: the registered values and the others.
LEMMA ReloadValues ==
  ASSUME NEW default, NEW v, Registered(v, default), NEW x, Unregistered(x, default)
  PROVE  /\ UpdateValue(default, UpdateJson(x, v, default)) = v
         /\ Extra(UpdateJson(x, v, default), default) = x
<1> DEFINE j == UpdateJson(x, v, default)
           K == {k \in DOMAIN v : v[k] # default[k]}
<1>1. DOMAIN v = DOMAIN default /\ v = [k \in DOMAIN default |-> v[k]]
  BY DEF Registered
<1>2. DOMAIN x \cap DOMAIN default = {} /\ x = [k \in DOMAIN x |-> x[k]]
  BY DEF Unregistered
<1>3. /\ DOMAIN j = DOMAIN x \cup K
      /\ \A k \in DOMAIN x \cup K : j[k] = IF k \in DOMAIN v THEN v[k] ELSE x[k]
  BY DEF UpdateJson
<1> HIDE DEF j
<1>4. \A k \in DOMAIN default :
        (IF k \in DOMAIN j /\ j[k] # Bad THEN j[k] ELSE default[k]) = v[k]
  <2> SUFFICES ASSUME NEW k \in DOMAIN default
               PROVE  (IF k \in DOMAIN j /\ j[k] # Bad THEN j[k] ELSE default[k]) = v[k]
    OBVIOUS
  <2>1. CASE v[k] = default[k]
    BY <1>1, <1>2, <1>3, <2>1
  <2>2. CASE v[k] # default[k]
    <3>1. v[k] # Bad
      BY <2>2 DEF Registered
    <3>2. k \in DOMAIN j /\ j[k] = v[k]
      BY <1>1, <1>3, <2>2
    <3> QED BY <3>1, <3>2
  <2> QED BY <2>1, <2>2
<1>5. UpdateValue(default, j) = v
  <2>1. UpdateValue(default, j) =
          [k \in DOMAIN default |-> IF k \in DOMAIN j /\ j[k] # Bad THEN j[k] ELSE default[k]]
    BY DEF UpdateValue
  <2> QED BY <1>1, <1>4, <2>1
<1>6. Extra(j, default) = x
  <2>1. DOMAIN j \ DOMAIN default = DOMAIN x
    BY <1>1, <1>2, <1>3
  <2>2. \A k \in DOMAIN x : j[k] = x[k]
    BY <1>1, <1>2, <1>3
  <2>3. Extra(j, default) = [k \in DOMAIN x |-> j[k]]
    BY <2>1 DEF Extra
  <2> QED BY <1>2, <2>2, <2>3
<1> QED BY <1>5, <1>6 DEF j

\* The same for an object without other keys.
LEMMA ReloadPlain ==
  ASSUME NEW default, NEW v, Registered(v, default)
  PROVE  UpdateValue(default, UpdateJson(NoKeys, v, default)) = v
<1>1. Unregistered(NoKeys, default)
  BY DEF Unregistered, NoKeys
<1> QED BY <1>1, ReloadValues

\* The defaults of a device are settings.
LEMMA DeviceDefaults ==
  ASSUME NEW d
  PROVE  /\ DeviceDefault(d) \in [DeviceKeys -> Number]
         /\ DeviceDefault(d).stick_formula = 50
         /\ DeviceDefault(d).treat_as_built_in_keyboard = 0
<1> DEFINE f == FlagDefault(d)
           D == DeviceDefault(d)
           F == {"ignore", "manipulate_caps_lock_led", "treat_as_built_in_keyboard",
                 "disable_built_in_keyboard_if_exists"}
           O == {"mouse_flip_x", "stick_deadzone", "stick_formula"}
<1>0. {0, 1, 10, 50} \subseteq Number
  BY NotBad DEF Number
<1>1. /\ DOMAIN f = F /\ \A k \in F : f[k] \in {0, 1, 10, 50}
      /\ f.treat_as_built_in_keyboard = 0
  BY DEF FlagDefault
<1>2. /\ DOMAIN OtherDefault = O /\ \A k \in O : OtherDefault[k] \in {0, 1, 10, 50}
      /\ OtherDefault.stick_formula = 50
  BY DEF OtherDefault
<1>3. D = [k \in DOMAIN f \cup DOMAIN OtherDefault |->
             IF k \in DOMAIN f THEN f[k] ELSE OtherDefault[k]]
  BY DEF DeviceDefault
<1>4. F \cup O = DeviceKeys
  BY DEF DeviceKeys
<1> HIDE DEF f, D
<1>5. D = [k \in DeviceKeys |-> IF k \in F THEN f[k] ELSE OtherDefault[k]]
  BY <1>1, <1>2, <1>3, <1>4
<1>6. \A k \in DeviceKeys : D[k] \in {0, 1, 10, 50}
  BY <1>1, <1>2, <1>4, <1>5
<1>7. D["stick_formula"] = 50 /\ D["treat_as_built_in_keyboard"] = 0
  BY <1>1, <1>2, <1>4, <1>5
<1>8. D \in [DeviceKeys -> Number]
  BY <1>0, <1>5, <1>6
<1> QED BY <1>7, <1>8 DEF D

\* A formula that ends in no newline is saved as it is.
LEMMA TrimmedFormula ==
  ASSUME NEW f \in 0..999, f = Trim(f)
  PROVE  MarshalString(f) = f /\ UnmarshalString(f) = f
  BY NotBad DEF UnmarshalString, MarshalString, Trim

-----------------------------------------------------------------------------
(* Loading.                                                                *)

\* Coordinated settings are never both.
LEMMA CoordinateOK ==
  ASSUME NEW v, Settings(v)
  PROVE  FlagsOK(CoordinateBetweenProperties(v))
<1>1. CASE v.treat_as_built_in_keyboard = 1
  <2> DEFINE w == [v EXCEPT !.disable_built_in_keyboard_if_exists = 0]
  <2>1. w = CoordinateBetweenProperties(v)
    BY <1>1 DEF CoordinateBetweenProperties
  <2>2. 0 \in Number
    BY NotBad DEF Number
  <2>3. w \in [DeviceKeys -> Number] /\ w["stick_formula"] = v["stick_formula"]
    BY <2>2 DEF Settings, DeviceKeys
  <2>4. w["disable_built_in_keyboard_if_exists"] = 0
    BY DEF Settings, DeviceKeys
  <2> HIDE DEF w
  <2> QED BY <2>1, <2>3, <2>4 DEF FlagsOK, Settings
<1>2. CASE v.treat_as_built_in_keyboard # 1
  BY <1>2 DEF CoordinateBetweenProperties, FlagsOK
<1> QED BY <1>1, <1>2

\* A device that was loaded is in order, whatever numbers and pairs its json has.
LEMMA LoadDeviceOK ==
  ASSUME NEW j, DeviceJsonOK(j)
  PROVE  DeviceOK(LoadDevice(j))
<1> DEFINE D == DeviceDefault(j.id)
           m == OnFormula(j.vals, UnmarshalString)
           u == UpdateValue(D, m)
           w == CoordinateBetweenProperties(u)
           e == LoadDevice(j)
<1>1. D \in [DeviceKeys -> Number] /\ D["stick_formula"] = 50
  BY DeviceDefaults
<1>2. /\ DOMAIN m = DOMAIN j.vals
      /\ \A k \in DOMAIN m : m[k] = IF k = "stick_formula" THEN UnmarshalString(j.vals[k])
                                    ELSE j.vals[k]
  BY DEF OnFormula
<1>3. \A k \in DOMAIN m : /\ m[k] \in Int
                          /\ k = "stick_formula" => m[k] \in 0..999 \/ m[k] = Bad
  <2>1. \A k \in DOMAIN m : j.vals[k] \in Int
    BY <1>2 DEF DeviceJsonOK
  <2>3. Bad \in Int /\ 0..999 \subseteq Int
    BY NotBad
  <2> HIDE DEF m
  <2> SUFFICES ASSUME NEW k \in DOMAIN m
               PROVE  /\ m[k] \in Int
                      /\ k = "stick_formula" => m[k] \in 0..999 \/ m[k] = Bad
    OBVIOUS
  <2>4. CASE k = "stick_formula"
    <3>1. m[k] = UnmarshalString(j.vals[k]) /\ j.vals[k] \in Int
      BY <1>2, <2>1, <2>4
    <3>2. m[k] \in 0..999 \/ m[k] = Bad
      BY <3>1, NotBad DEF UnmarshalString
    <3> QED BY <2>3, <3>2
  <2>5. CASE k # "stick_formula"
    BY <1>2, <2>1, <2>5
  <2> QED BY <2>4, <2>5
<1>4. u = [k \in DOMAIN D |-> IF k \in DOMAIN m /\ m[k] # Bad THEN m[k] ELSE D[k]]
  BY DEF UpdateValue
<1> HIDE DEF D, m, u
<1>5. Settings(u)
  <2>1. \A k \in DeviceKeys : u[k] \in Number
    BY <1>1, <1>3, <1>4 DEF Number
  <2>2. "stick_formula" \in DeviceKeys /\ 50 \in 0..999
    BY DEF DeviceKeys
  <2>3. u["stick_formula"] \in 0..999
    BY <1>1, <1>3, <1>4, <2>2
  <2>4. u \in [DeviceKeys -> Number]
    BY <1>1, <1>4, <2>1
  <2> QED BY <2>3, <2>4 DEF Settings
<1>6. FlagsOK(w)
  BY <1>5, CoordinateOK
<1> DEFINE x == Extra(j.vals, D)
           s == HandleJson(<<>>, j.simple)
           f == HandleJson(DeviceFnKeys, j.fn)
<1>7. Unregistered(x, D) /\ \A k \in DOMAIN x : x[k] \in Int
  <2>1. Unregistered(x, D)
    BY ExtraUnregistered
  <2> QED BY <2>1 DEF Extra, DeviceJsonOK
<1>8. s \in Seq(Pairs) /\ f \in Seq(Pairs)
  <2>1. <<>> \in Seq(Pairs) /\ DeviceFnKeys \in Seq(Pairs)
    BY DEF DeviceFnKeys, Pairs
  <2> QED BY <2>1, HandleJsonOK DEF DeviceJsonOK
<1>9. e = [id |-> j.id, v |-> w, simple |-> s, fn |-> f, extra |-> x]
  BY DEF LoadDevice, u, m, D
<1> HIDE DEF w, e, x, s, f
<1>10. /\ e.v = w /\ e.id = j.id /\ e.simple = s /\ e.fn = f /\ e.extra = x
       /\ e = [id |-> e.id, v |-> e.v, simple |-> e.simple, fn |-> e.fn, extra |-> e.extra]
  BY <1>9
<1>11. DeviceOK(e)
  BY <1>6, <1>7, <1>8, <1>10 DEF DeviceOK, D
<1> QED BY <1>11 DEF e

\* A parameter is brought back into its range, where it stays as it is.
LEMMA SimultaneousClamped ==
  /\ \A x \in Int : Clamp(x, 0, 1000) \in SimultaneousRange
  /\ \A x \in SimultaneousRange : x \in Nat /\ Clamp(x, 0, 1000) = x
  BY SMTT(30) DEF Clamp, SimultaneousRange

LEMMA SpeedClamped ==
  /\ \A x \in Int : Clamp(x, 1, 10000) \in SpeedRange
  /\ \A x \in SpeedRange : x \in Nat /\ Clamp(x, 1, 10000) = x
  BY SMTT(30) DEF Clamp, SpeedRange

\* The parameters are brought back into their ranges.
LEMMA AdjustOK ==
  ASSUME NEW v, v.simultaneous \in Int, v.speed \in Int
  PROVE  AdjustValues(v) \in Complex
<1> DEFINE x == v.simultaneous
           y == v.speed
<1>0. x \in Int /\ y \in Int
  OBVIOUS
<1> DEFINE a == Clamp(x, 0, 1000)
           b == Clamp(y, 1, 10000)
<1>1. a \in SimultaneousRange
  <2> HIDE DEF x, y
  <2> QED BY <1>0, SimultaneousClamped
<1>2. b \in SpeedRange
  <2> HIDE DEF x, y
  <2> QED BY <1>0, SpeedClamped
<1>3. AdjustValues(v) = [simultaneous |-> a, speed |-> b]
  BY DEF AdjustValues
<1> HIDE DEF a, b
<1> QED BY <1>1, <1>2, <1>3 DEF Complex

\* A rule that was loaded is enabled or not.
LEMMA LoadRuleOK ==
  ASSUME NEW r, r.body # 0
  PROVE  RuleOK(LoadRule(r))
<1> DEFINE n == LoadRule(r)
           e == IF r.enabled = Bad THEN 1 ELSE r.enabled
<1>1. n = [body |-> r.body, enabled |-> e]
  BY DEF LoadRule
<1>2. e # Bad
  BY NotBad
<1> HIDE DEF n, e
<1>3. RuleOK(n)
  BY <1>1, <1>2 DEF RuleOK
<1> QED BY <1>3 DEF n

\* The function key with a default is among those of a profile that was loaded.
LEMMA FnKeysLoaded ==
  ASSUME NEW j \in Seq(Pairs)
  PROVE  FnKeysOK(HandleJson(ProfileFnKeys, j))
<1> DEFINE r == [from |-> 1, to |-> 7]
<1>1. r \in Pairs /\ r.from = 1 /\ ProfileFnKeys = <<r>>
  BY DEF ProfileFnKeys, Pairs
<1> HIDE DEF r
<1> DEFINE k == <<r>>
<1>2. k \in Seq(Pairs) /\ 1 \in DOMAIN k /\ k[1].from = 1
  BY <1>1
<1> HIDE DEF k
<1>3. /\ HandleJson(k, j) \in Seq(Pairs)
      /\ \A i \in DOMAIN k : \E n \in DOMAIN HandleJson(k, j) :
           HandleJson(k, j)[n].from = k[i].from
  BY <1>2, HandleJsonOK
<1>4. FnKeysOK(HandleJson(k, j))
  BY <1>2, <1>3 DEF FnKeysOK
<1> QED BY <1>1, <1>4 DEF k

\* A profile that was loaded is in order.
LEMMA LoadProfileOK ==
  ASSUME NEW j, ProfileJsonOK(j), ProfileLoads(j)
  PROVE  ProfileOK(LoadProfile(j))
<1> DEFINE c == UpdateValue(ComplexDefault, j.complex)
           ds == [i \in DOMAIN j.devices |-> LoadDevice(j.devices[i])]
           p == LoadProfile(j)
<1>1. c.simultaneous \in Int /\ c.speed \in Int
  BY DEF UpdateValue, ComplexDefault, ProfileJsonOK
<1>2. AdjustValues(c) \in Complex
  <2> HIDE DEF c
  <2> QED BY <1>1, AdjustOK
<1>3. DevicesOK(ds)
  <2> DEFINE S == {LoadDevice(j.devices[i]) : i \in DOMAIN j.devices}
  <2>1. j.devices \in Seq(ToSet(j.devices))
    BY DEF ProfileJsonOK, IsSeq
  <2>2. DOMAIN j.devices = 1..Len(j.devices) /\ Len(j.devices) \in Nat
    BY <2>1
  <2>3. ds \in Seq(S)
    BY <2>2
  <2>4. \A e \in S : DeviceOK(e)
    BY LoadDeviceOK DEF ProfileJsonOK
  <2> HIDE DEF ds, S
  <2> QED BY <2>3, <2>4 DEF DevicesOK
<1> DEFINE ac == AdjustValues(c)
           v == UpdateValue(ProfileDefault, j.vals)
           x == Extra(j.vals, ProfileDefault)
           rs == [i \in DOMAIN j.rules |-> LoadRule(j.rules[i])]
<1>4. p.complex = ac /\ p.devices = ds /\ p.v = v /\ p.extra = x /\ p.rules = rs
  BY DEF LoadProfile
<1>7. ValsOK(v)
  <2>1. /\ DOMAIN v = {"name", "selected"} /\ v = [k \in DOMAIN v |-> v[k]]
        /\ \A k \in DOMAIN v : \/ v[k] = ProfileDefault[k]
                               \/ k \in DOMAIN j.vals /\ v[k] = j.vals[k] /\ v[k] # Bad
    BY DEF UpdateValue, ProfileDefault
  <2>2. ProfileDefault["name"] = 0 /\ ProfileDefault["selected"] = 0
    BY DEF ProfileDefault
  <2> HIDE DEF v
  <2>3. v["name"] \in Nat /\ v["selected"] \in Nat
    BY <2>1, <2>2 DEF ProfileJsonOK
  <2>4. v = [name |-> v.name, selected |-> v.selected]
    BY <2>1
  <2> QED BY <2>3, <2>4 DEF ValsOK
<1>8. ExtraOK(x)
  <2>1. Unregistered(x, ProfileDefault)
    BY ExtraUnregistered
  <2> QED BY <2>1 DEF Extra, ExtraOK, ProfileJsonOK
<1>9. RulesOK(rs)
  <2> DEFINE S == {LoadRule(j.rules[i]) : i \in DOMAIN j.rules}
  <2>1. j.rules \in Seq(ToSet(j.rules))
    BY DEF ProfileJsonOK, IsSeq
  <2>2. DOMAIN j.rules = 1..Len(j.rules) /\ Len(j.rules) \in Nat
    BY <2>1
  <2>3. rs \in Seq(S)
    BY <2>2
  <2>4. ASSUME NEW i \in DOMAIN j.rules PROVE RuleOK(LoadRule(j.rules[i]))
    <3>1. j.rules[i] \in ToSet(j.rules)
      BY DEF ToSet
    <3>2. j.rules[i].body # 0
      BY <3>1 DEF ProfileLoads, RuleLoads
    <3> QED BY <3>2, LoadRuleOK
  <2>5. \A r \in S : RuleOK(r)
    BY <2>4
  <2> HIDE DEF rs, S
  <2> QED BY <2>3, <2>5 DEF RulesOK
<1>5. p = [v |-> p.v, parameters |-> p.parameters, keyboard |-> p.keyboard,
           devices |-> p.devices, simple |-> p.simple, fn |-> p.fn,
           complex |-> p.complex, rules |-> p.rules, extra |-> p.extra]
  BY DEF LoadProfile
<1>10. /\ p.parameters = UpdateValue(ParameterDefault, j.parameters)
       /\ p.keyboard = UpdateValue(KeyboardDefault, j.keyboard)
       /\ p.simple = HandleJson(<<>>, j.simple) /\ p.fn = HandleJson(ProfileFnKeys, j.fn)
  BY DEF LoadProfile, LoadParameters, LoadKeyboard
<1> HIDE DEF ac, ds, p, v, x, rs
<1>11. Registered(p.parameters, ParameterDefault) /\ Registered(p.keyboard, KeyboardDefault)
  BY <1>10, UpdateRegistered
<1>12. p.simple \in Seq(Pairs) /\ FnKeysOK(p.fn)
  <2>1. <<>> \in Seq(Pairs)
    OBVIOUS
  <2>2. HandleJson(<<>>, j.simple) \in Seq(Pairs)
    BY <2>1, HandleJsonOK DEF ProfileJsonOK
  <2> QED BY <1>10, <2>2, FnKeysLoaded DEF ProfileJsonOK
<1>6. ProfileOK(p)
  BY <1>2, <1>3, <1>4, <1>5, <1>7, <1>8, <1>9, <1>11, <1>12 DEF ProfileOK, ac
<1> QED BY <1>6 DEF p

\* A sequence with a new last element.
LEMMA ProfilesAppend ==
  ASSUME NEW s, (\E S : s \in Seq(S) /\ \A p \in S : ProfileOK(p)), NEW p, ProfileOK(p)
  PROVE  ProfilesOK(Append(s, p))
<1>1. PICK S : s \in Seq(S) /\ \A q \in S : ProfileOK(q)
  OBVIOUS
<1> DEFINE T == S \cup {p}
<1>2. Append(s, p) \in Seq(T) /\ Append(s, p) # <<>>
  <2>1. s \in Seq(T)
    BY <1>1
  <2> QED BY <2>1
<1>3. \A q \in T : ProfileOK(q)
  BY <1>1
<1> HIDE DEF T
<1> QED BY <1>2, <1>3 DEF ProfilesOK

\* The profiles before the first one that does not load.
LEMMA PrefixOK ==
  ASSUME NEW js, IsSeq(js), \A i \in DOMAIN js : ProfileJsonOK(js[i])
  PROVE  LET good == LoadedPrefix(js)
         IN  /\ Len(good) \in Nat /\ DOMAIN good = 1..Len(good)
             /\ \A i \in DOMAIN good : ProfileJsonOK(good[i]) /\ ProfileLoads(good[i])
<1> DEFINE bad == {i \in DOMAIN js : ~ProfileLoads(js[i])}
           m == CHOOSE i \in bad : \A j \in bad : i <= j
<1>1. Len(js) \in Nat /\ DOMAIN js = 1..Len(js) /\ js \in Seq(ToSet(js))
  BY DEF IsSeq
<1>2. CASE bad = {}
  <2>1. LoadedPrefix(js) = js
    BY <1>2 DEF LoadedPrefix
  <2>2. \A i \in DOMAIN js : ProfileLoads(js[i])
    BY <1>2
  <2> QED BY <1>1, <2>1, <2>2
<1>3. CASE bad # {}
  <2>1. bad \in SUBSET Nat
    BY <1>1
  <2>2. m \in bad /\ \A j \in bad : m <= j
    <3> HIDE DEF bad
    <3>1. \E i \in bad : \A j \in bad : i <= j
      BY <1>3, <2>1, Smallest
    <3> QED BY <3>1
  <2>3. m \in 1..Len(js)
    BY <1>1, <2>2
  <2>4. LoadedPrefix(js) = SubSeq(js, 1, m - 1)
    BY <1>3 DEF LoadedPrefix
  <2> HIDE DEF m
  <2>7. \A i \in 1..m - 1 : ProfileLoads(js[i])
    BY <1>1, <2>2, <2>3
  <2> DEFINE g == SubSeq(js, 1, m - 1)
  <2>5. g \in Seq(ToSet(js)) /\ Len(g) = m - 1 /\ \A i \in 1..m - 1 : g[i] = js[i]
    BY <1>1, <2>3
  <2>6. /\ Len(g) \in Nat /\ DOMAIN g = 1..Len(g)
        /\ \A i \in DOMAIN g : ProfileJsonOK(g[i]) /\ ProfileLoads(g[i])
    <3> HIDE DEF g
    <3>1. DOMAIN g = 1..m - 1 /\ Len(g) \in Nat
      BY <2>3, <2>5
    <3> QED BY <1>1, <2>3, <2>5, <2>7, <3>1
  <2> QED BY <2>4, <2>6
<1> QED BY <1>2, <1>3

\* The json of a profile that is made for the user.
LEMMA DefaultProfileJson ==
  LET a == [EmptyProfileJson EXCEPT !.vals = DefaultProfile]
      b == [EmptyProfileJson EXCEPT !.vals = [name |-> NewName]]
  IN  ProfileJsonOK(a) /\ ProfileLoads(a) /\ ProfileJsonOK(b) /\ ProfileLoads(b)
<1> DEFINE J(x) == [EmptyProfileJson EXCEPT !.vals = x]
<1>1. \A x : /\ J(x).vals = x /\ J(x).devices = <<>> /\ J(x).rules = <<>>
             /\ J(x).complex = NoKeys /\ J(x).simple = <<>> /\ J(x).fn = <<>>
  BY DEF EmptyProfileJson
<1>2. /\ <<>> \in Seq(ToSet(<<>>)) /\ ToSet(<<>>) = {} /\ DOMAIN NoKeys = {}
      /\ <<>> \in Seq(Pairs) /\ DOMAIN <<>> = {}
  BY EmptySeq DEF ToSet, NoKeys
<1> HIDE DEF J
<1>3. ASSUME NEW x, \A k \in DOMAIN x : x[k] \in Nat
      PROVE  ProfileJsonOK(J(x)) /\ ProfileLoads(J(x))
  BY <1>1, <1>2, <1>3 DEF ProfileJsonOK, ProfileLoads, IsSeq
<1>4. /\ \A k \in DOMAIN DefaultProfile : DefaultProfile[k] \in Nat
      /\ \A k \in DOMAIN [name |-> NewName] : [name |-> NewName][k] \in Nat
  BY DEF DefaultProfile, NewName
<1>5. ProfileJsonOK(J(DefaultProfile)) /\ ProfileLoads(J(DefaultProfile))
  BY <1>3, <1>4
<1>6. ProfileJsonOK(J([name |-> NewName])) /\ ProfileLoads(J([name |-> NewName]))
  BY <1>3, <1>4
<1> QED BY <1>5, <1>6 DEF J

\* A configuration that was loaded is in order, the fallback included.
LEMMA LoadOK ==
  ASSUME NEW f, FileOK(f)
  PROVE  ConfigOK(Load(f))
<1> DEFINE json == IF f.readable THEN f.json
                   ELSE [global |-> NoKeys, machine |-> NoKeys, profiles |-> <<>>]
           good == LoadedPrefix(json.profiles)
           ps == [i \in DOMAIN good |-> LoadProfile(good[i])]
           c == Load(f)
<1>1. IsSeq(json.profiles) /\ \A i \in DOMAIN json.profiles : ProfileJsonOK(json.profiles[i])
  <2>1. CASE f.readable
    BY <2>1 DEF FileOK
  <2>2. CASE ~f.readable
    <3>1. json.profiles = <<>>
      BY <2>2
    <3>2. <<>> \in Seq(ToSet(<<>>)) /\ DOMAIN <<>> = {}
      BY EmptySeq DEF ToSet
    <3> HIDE DEF json
    <3> QED BY <3>1, <3>2 DEF IsSeq
  <2> QED BY <2>1, <2>2
<1>2. /\ Len(good) \in Nat /\ DOMAIN good = 1..Len(good)
      /\ \A i \in DOMAIN good : ProfileJsonOK(good[i]) /\ ProfileLoads(good[i])
  <2> HIDE DEF json
  <2> QED BY <1>1, PrefixOK
<1>3. c.profiles = WithFallback(ps)
  BY DEF Load
<1>4. c = [loaded |-> c.loaded, global |-> c.global, machine |-> c.machine,
           profiles |-> c.profiles, extra |-> c.extra]
  BY DEF Load
<1>8. Registered(c.global, GlobalDefault) /\ Unregistered(c.extra, GlobalDefault)
  <2>1. c.global = UpdateValue(GlobalDefault, json.global)
        /\ c.extra = Extra(json.global, GlobalDefault)
    BY DEF Load, LoadGlobal
  <2> HIDE DEF c, json
  <2> QED BY <2>1, UpdateRegistered, ExtraUnregistered
<1> HIDE DEF c, good
<1>5. \E S : ps \in Seq(S) /\ \A p \in S : ProfileOK(p)
  <2> DEFINE S == {LoadProfile(good[i]) : i \in DOMAIN good}
  <2>1. ps \in Seq(S)
    BY <1>2
  <2>2. \A p \in S : ProfileOK(p)
    BY <1>2, LoadProfileOK
  <2> HIDE DEF ps, S
  <2> QED BY <2>1, <2>2
<1>6. ProfilesOK(WithFallback(ps))
  <2> HIDE DEF ps
  <2>1. CASE ps # <<>>
    BY <1>5, <2>1 DEF WithFallback, ProfilesOK
  <2>2. CASE ps = <<>>
    <3> DEFINE j == [EmptyProfileJson EXCEPT !.vals = DefaultProfile]
               p == LoadProfile(j)
    <3>1. ProfileJsonOK(j) /\ ProfileLoads(j)
      BY DefaultProfileJson
    <3> HIDE DEF j
    <3>2. ProfileOK(p)
      BY <3>1, LoadProfileOK
    <3>3. WithFallback(ps) = <<p>>
      BY <2>2 DEF WithFallback, j
    <3> HIDE DEF p
    <3>4. <<p>> \in Seq({p}) /\ <<p>> # <<>>
      OBVIOUS
    <3> DEFINE s == <<p>>
               S == {p}
    <3>5. s \in Seq(S) /\ s # <<>> /\ \A q \in S : ProfileOK(q)
      BY <3>2, <3>4
    <3>6. WithFallback(ps) = s
      BY <3>3
    <3> HIDE DEF s, S
    <3> QED BY <3>5, <3>6 DEF ProfilesOK
  <2> QED BY <2>1, <2>2
<1>7. ConfigOK(c)
  BY <1>3, <1>4, <1>6, <1>8 DEF ConfigOK
<1> QED BY <1>7 DEF c

-----------------------------------------------------------------------------
(* Saving.                                                                 *)

\* A sequence of whatever elements is a sequence.
LEMMA AnySeq ==
  ASSUME NEW S, NEW s \in Seq(S)
  PROVE  IsSeq(s) /\ \A i \in DOMAIN s : s[i] \in S
<1>1. Len(s) \in Nat /\ DOMAIN s = 1..Len(s) /\ s = [i \in 1..Len(s) |-> s[i]]
  OBVIOUS
<1>2. \A i \in 1..Len(s) : s[i] \in ToSet(s)
  BY <1>1 DEF ToSet
<1> DEFINE T == ToSet(s)
<1> HIDE DEF T
<1>3. s \in Seq(T)
  BY <1>1, <1>2 DEF T
<1> QED BY <1>1, <1>3 DEF IsSeq, T

\* What a device is saved as loads again.
LEMMA DeviceToJsonOK ==
  ASSUME NEW e, DeviceOK(e)
  PROVE  DeviceJsonOK(DeviceToJson(e))
<1> DEFINE D == DeviceDefault(e.id)
           u == UpdateJson(e.extra, e.v, D)
           vals == OnFormula(u, MarshalString)
           j == DeviceToJson(e)
<1>1. /\ j.vals = vals /\ j.simple = PairsToJson(e.simple, <<>>)
      /\ j.fn = PairsToJson(e.fn, DeviceFnKeys)
  BY DEF DeviceToJson
<1>2. \A k \in DOMAIN u : u[k] \in Int
  <2>1. /\ DOMAIN e.v = DeviceKeys /\ \A k \in DeviceKeys : e.v[k] \in Int
        /\ \A k \in DOMAIN e.extra : e.extra[k] \in Int
    BY DEF DeviceOK, FlagsOK, Settings, Number
  <2> QED BY <2>1 DEF UpdateJson
<1> HIDE DEF u
<1>3. \A k \in DOMAIN vals : vals[k] \in Int
  <2>1. \A f \in Int : MarshalString(f) \in Int
    BY DEF MarshalString, AsArray
  <2> QED BY <1>2, <2>1 DEF OnFormula
<1>4. PairsToJson(e.simple, <<>>) \in Seq(Pairs) /\ PairsToJson(e.fn, DeviceFnKeys) \in Seq(Pairs)
  BY SavedAll, SavedPairs DEF DeviceOK
<1> HIDE DEF vals, j
<1>5. DeviceJsonOK(j)
  BY <1>1, <1>3, <1>4 DEF DeviceJsonOK
<1> QED BY <1>5 DEF j

\* What a profile is saved as loads again: arrays of devices and of rules with
\* manipulators, values that are names and flags, parameters that are numbers.
LEMMA ProfileToJsonOK ==
  ASSUME NEW p, ProfileOK(p)
  PROVE  ProfileJsonOK(ProfileToJson(p)) /\ ProfileLoads(ProfileToJson(p))
<1> DEFINE ds == [i \in DOMAIN p.devices |-> DeviceToJson(p.devices[i])]
           S == {DeviceToJson(p.devices[i]) : i \in DOMAIN p.devices}
           I == {i \in DOMAIN ds : ~DeviceJsonEmpty(ds[i])}
           c == UpdateJson(NoKeys, p.complex, ComplexDefault)
           vals == UpdateJson(p.extra, p.v, ProfileDefault)
           rs == [i \in DOMAIN p.rules |-> RuleJson(p.rules[i].body, p.rules[i].enabled)]
           j == ProfileToJson(p)
<1>1. j.devices = AtIndexes(ds, I) /\ j.complex = c /\ j.vals = vals /\ j.rules = rs
  BY DEF ProfileToJson, NonEmpty, FilterIndexes
<1>2. ds \in Seq(S)
  <2>1. PICK T : p.devices \in Seq(T)
    BY DEF ProfileOK, DevicesOK
  <2>2. Len(p.devices) \in Nat /\ DOMAIN p.devices = 1..Len(p.devices)
    BY <2>1
  <2> QED BY <2>2
<1>3. I \in SUBSET DOMAIN ds
  OBVIOUS
<1>10. \A x \in S : DeviceJsonOK(x)
  <2>1. DevicesOK(p.devices)
    BY DEF ProfileOK
  <2>2. \A i \in DOMAIN p.devices : DeviceOK(p.devices[i])
    BY <2>1 DEF DevicesOK
  <2> QED BY <2>2, DeviceToJsonOK
<1>4. IsSeq(j.devices) /\ \A i \in DOMAIN j.devices : DeviceJsonOK(j.devices[i])
  <2> HIDE DEF ds, I, S, j
  <2>1. AtIndexes(ds, I) \in Seq(S)
    BY <1>2, <1>3, AtIndexesType
  <2>2. IsSeq(j.devices) /\ \A i \in DOMAIN j.devices : j.devices[i] \in S
    BY <1>1, <2>1, AnySeq
  <2> QED BY <1>10, <2>2
<1>11. j.simple \in Seq(Pairs) /\ j.fn \in Seq(Pairs)
  <2>1. j.simple = PairsToJson(p.simple, <<>>) /\ j.fn = PairsToJson(p.fn, ProfileFnKeys)
    BY DEF ProfileToJson
  <2> HIDE DEF j
  <2> QED BY <2>1, SavedAll, SavedPairs DEF ProfileOK, FnKeysOK
<1>5. \A k \in DOMAIN c : c[k] \in Int
  <2>1. /\ DOMAIN p.complex = {"simultaneous", "speed"}
        /\ p.complex.simultaneous \in Int /\ p.complex.speed \in Int
    <3> DEFINE x == p.complex
    <3>1. x \in Complex
      BY DEF ProfileOK
    <3> HIDE DEF x
    <3>2. DOMAIN x = {"simultaneous", "speed"}
      BY <3>1 DEF Complex
    <3> DEFINE a == x.simultaneous
               b == x.speed
    <3>3. a \in SimultaneousRange /\ b \in SpeedRange
      BY <3>1 DEF Complex
    <3>5. a \in Int /\ b \in Int
      <4> HIDE DEF a, b
      <4> QED BY <3>3, SimultaneousClamped, SpeedClamped
    <3> QED BY <3>2, <3>5, Zenon DEF x
  <2> QED BY <2>1 DEF UpdateJson, NoKeys
<1>6. \A k \in DOMAIN vals : vals[k] \in Nat \cup {Bad}
  <2>1. /\ DOMAIN p.v = {"name", "selected"} /\ \A k \in DOMAIN p.v : p.v[k] \in Nat
        /\ \A k \in DOMAIN p.extra : p.extra[k] \in Nat \cup {Bad}
    BY DEF ProfileOK, ValsOK, ExtraOK
  <2> QED BY <2>1 DEF UpdateJson
<1>7. IsSeq(rs) /\ \A r \in ToSet(rs) : r.body # 0
  <2> DEFINE R == {RuleJson(p.rules[i].body, p.rules[i].enabled) : i \in DOMAIN p.rules}
  <2>1. PICK T : p.rules \in Seq(T) /\ \A r \in T : RuleOK(r)
    BY DEF ProfileOK, RulesOK
  <2>2. /\ Len(p.rules) \in Nat /\ DOMAIN p.rules = 1..Len(p.rules)
        /\ \A i \in DOMAIN p.rules : p.rules[i].body # 0
    BY <2>1 DEF RuleOK
  <2>3. rs \in Seq(R)
    BY <2>2
  <2>4. \A i \in DOMAIN rs : rs[i].body # 0
    BY <2>2 DEF RuleJson
  <2> HIDE DEF rs, R
  <2>5. IsSeq(rs)
    BY <2>3, AnySeq
  <2> QED BY <2>4, <2>5 DEF ToSet
<1> HIDE DEF j, c, vals, rs
<1>8. ProfileJsonOK(j)
  BY <1>1, <1>4, <1>5, <1>6, <1>7, <1>11 DEF ProfileJsonOK
<1>9. ProfileLoads(j)
  BY <1>1, <1>7 DEF ProfileLoads, RuleLoads
<1> QED BY <1>8, <1>9 DEF j

\* So does the whole file.
LEMMA SaveOK ==
  ASSUME NEW c, ConfigOK(c)
  PROVE  FileOK(FileOf(ToJson(c)))
<1> DEFINE ps == [i \in DOMAIN c.profiles |-> ProfileToJson(c.profiles[i])]
           S == {ProfileToJson(c.profiles[i]) : i \in DOMAIN c.profiles}
           I == {i \in DOMAIN ps : ~ProfileJsonEmpty(ps[i])}
           f == FileOf(ToJson(c))
<1>1. f.readable = TRUE /\ f.json.profiles = AtIndexes(ps, I)
  BY DEF FileOf, ToJson, NonEmpty, FilterIndexes
<1>2. PICK T : c.profiles \in Seq(T) /\ \A p \in T : ProfileOK(p)
  BY DEF ConfigOK, ProfilesOK
<1>3. /\ Len(c.profiles) \in Nat /\ DOMAIN c.profiles = 1..Len(c.profiles)
      /\ \A i \in DOMAIN c.profiles : c.profiles[i] \in T
  BY <1>2
<1>4. ps \in Seq(S)
  BY <1>3
<1>5. \A j \in S : ProfileJsonOK(j)
  BY <1>2, <1>3, ProfileToJsonOK
<1>6. I \in SUBSET DOMAIN ps
  OBVIOUS
<1> HIDE DEF ps, S, I, f
<1>7. AtIndexes(ps, I) \in Seq(S)
  BY <1>4, <1>6, AtIndexesType
<1>8. f.json.profiles \in Seq(S)
  BY <1>1, <1>7
<1>9. IsSeq(f.json.profiles) /\ \A i \in DOMAIN f.json.profiles : f.json.profiles[i] \in S
  BY <1>8, AnySeq
<1>10. FileOK(f)
  BY <1>1, <1>5, <1>9 DEF FileOK
<1> QED BY <1>10 DEF f

-----------------------------------------------------------------------------
(* The selected profile and its devices.                                   *)

\* The least index of a set of them.
LEMMA LeastIndex ==
  ASSUME NEW s, NEW S, s \in Seq(S), NEW I \in SUBSET DOMAIN s, I # {}
  PROVE  (CHOOSE i \in I : \A j \in I : i <= j) \in I
<1>1. DOMAIN s = 1..Len(s) /\ Len(s) \in Nat
  OBVIOUS
<1>2. I \in SUBSET Nat
  BY <1>1
<1>3. \E i \in I : \A j \in I : i <= j
  BY <1>2, Smallest
<1> QED BY <1>3

\* get_selected_profile finds a profile.
LEMMA SelectedOK ==
  ASSUME NEW c, ConfigOK(c)
  PROVE  SelectedIndex(c) \in DOMAIN c.profiles /\ ProfileOK(Selected(c))
<1> DEFINE I == {i \in DOMAIN c.profiles : c.profiles[i].v.selected = 1}
<1>1. PICK S : c.profiles \in Seq(S) /\ \A p \in S : ProfileOK(p)
  BY DEF ConfigOK, ProfilesOK
<1>2. 1 \in DOMAIN c.profiles
  <2>1. c.profiles # <<>>
    BY DEF ConfigOK, ProfilesOK
  <2> QED BY <1>1, <2>1
<1>3. SelectedIndex(c) \in DOMAIN c.profiles
  <2>1. CASE I = {}
    BY <1>2, <2>1 DEF SelectedIndex
  <2>2. CASE I # {}
    <3>1. I \in SUBSET DOMAIN c.profiles
      OBVIOUS
    <3>2. (CHOOSE i \in I : \A j \in I : i <= j) \in I
      <4> HIDE DEF I
      <4> QED BY <1>1, <2>2, <3>1, LeastIndex
    <3> QED BY <2>2, <3>2 DEF SelectedIndex
  <2> QED BY <2>1, <2>2
<1>4. Selected(c) \in S
  <2> DEFINE n == SelectedIndex(c)
  <2> HIDE DEF n
  <2>1. n \in DOMAIN c.profiles
    BY <1>3 DEF n
  <2>2. c.profiles[n] \in S
    BY <1>1, <2>1
  <2> QED BY <2>2 DEF n, Selected
<1> QED BY <1>1, <1>3, <1>4

\* A sequence of devices with a new one ...
LEMMA DevicesAppend ==
  ASSUME NEW s, DevicesOK(s), NEW e, DeviceOK(e)
  PROVE  DevicesOK(Append(s, e))
<1>1. PICK S : s \in Seq(S) /\ \A d \in S : DeviceOK(d)
  BY DEF DevicesOK
<1> DEFINE T == S \cup {e}
<1>2. Append(s, e) \in Seq(T)
  <2>1. s \in Seq(T)
    BY <1>1
  <2> QED BY <2>1
<1>3. \A d \in T : DeviceOK(d)
  BY <1>1
<1> HIDE DEF T
<1> QED BY <1>2, <1>3 DEF DevicesOK

\* ... or with one exchanged.
LEMMA DevicesReplace ==
  ASSUME NEW s, DevicesOK(s), NEW i \in DOMAIN s, NEW e, DeviceOK(e)
  PROVE  DevicesOK([s EXCEPT ![i] = e])
<1>1. PICK S : s \in Seq(S) /\ \A d \in S : DeviceOK(d)
  BY DEF DevicesOK
<1> DEFINE T == S \cup {e}
           t == [s EXCEPT ![i] = e]
<1>2. t \in Seq(T)
  <2>1. s \in Seq(T) /\ i \in 1..Len(s) /\ e \in T
    BY <1>1
  <2> HIDE DEF T
  <2> QED BY <2>1
<1>3. \A d \in T : DeviceOK(d)
  BY <1>1
<1> HIDE DEF T, t
<1>4. DevicesOK(t)
  BY <1>2, <1>3 DEF DevicesOK
<1> QED BY <1>4 DEF t

\* A device of the sequence is in order.
LEMMA DeviceOf ==
  ASSUME NEW s, DevicesOK(s), NEW i \in DOMAIN s
  PROVE  DeviceOK(s[i])
<1>1. PICK S : s \in Seq(S) /\ \A d \in S : DeviceOK(d)
  BY DEF DevicesOK
<1> QED BY <1>1

\* What is required of a profile's fields.
FieldOK(k, x) ==
  /\ k = "complex" => x \in Complex
  /\ k = "devices" => DevicesOK(x)
  /\ k = "v" => ValsOK(x)
  /\ k = "rules" => RulesOK(x)
  /\ k = "parameters" => Registered(x, ParameterDefault)
  /\ k = "keyboard" => Registered(x, KeyboardDefault)
  /\ k = "simple" => x \in Seq(Pairs)
  /\ k = "fn" => FnKeysOK(x)

\* A profile stays in order when a field gets a value that is.
LEMMA ProfileField ==
  ASSUME NEW p, ProfileOK(p), NEW x,
         NEW k \in {"v", "parameters", "keyboard", "devices", "simple", "fn", "complex",
                   "rules"},
         FieldOK(k, x)
  PROVE  ProfileOK([p EXCEPT ![k] = x]) /\ [p EXCEPT ![k] = x][k] = x
<1> DEFINE q == [p EXCEPT ![k] = x]
<1>1. DOMAIN p = {"v", "parameters", "keyboard", "devices", "simple", "fn", "complex",
                  "rules", "extra"}
  BY DEF ProfileOK
<1>2. DOMAIN q = DOMAIN p /\ \A n \in DOMAIN p : q[n] = IF n = k THEN x ELSE p[n]
  BY <1>1
<1>3. q = [n \in DOMAIN q |-> q[n]]
  OBVIOUS
<1> HIDE DEF q
<1>4. q = [v |-> q.v, parameters |-> q.parameters, keyboard |-> q.keyboard,
           devices |-> q.devices, simple |-> q.simple, fn |-> q.fn,
           complex |-> q.complex, rules |-> q.rules, extra |-> q.extra]
  BY <1>1, <1>2, <1>3
<1>5. q["complex"] \in Complex /\ DevicesOK(q["devices"])
  BY <1>1, <1>2 DEF ProfileOK, FieldOK
<1>6. ValsOK(q["v"]) /\ ExtraOK(q["extra"]) /\ RulesOK(q["rules"])
  BY <1>1, <1>2 DEF ProfileOK, FieldOK
<1>8. Registered(q["parameters"], ParameterDefault) /\ Registered(q["keyboard"], KeyboardDefault)
  BY <1>1, <1>2 DEF ProfileOK, FieldOK
<1>9. q["simple"] \in Seq(Pairs) /\ FnKeysOK(q["fn"])
  BY <1>1, <1>2 DEF ProfileOK, FieldOK
<1>7. ProfileOK(q)
  BY <1>4, <1>5, <1>6, <1>8, <1>9 DEF ProfileOK
<1> QED BY <1>1, <1>2, <1>7 DEF q

\* Its devices ...
LEMMA ProfileDevices ==
  ASSUME NEW p, ProfileOK(p), NEW ds, DevicesOK(ds)
  PROVE  /\ ProfileOK([p EXCEPT !.devices = ds])
         /\ [p EXCEPT !.devices = ds].devices = ds
<1>1. FieldOK("devices", ds)
  BY DEF FieldOK
<1> QED BY <1>1, ProfileField, ZenonT(40)

\* ... the parameters of complex modifications ...
LEMMA ProfileComplex ==
  ASSUME NEW p, ProfileOK(p), NEW c \in Complex
  PROVE  ProfileOK([p EXCEPT !.complex = c])
<1>1. FieldOK("complex", c)
  BY DEF FieldOK
<1> QED BY <1>1, ProfileField

\* ... its name and selection ...
LEMMA ProfileVals ==
  ASSUME NEW p, ProfileOK(p), NEW v, ValsOK(v)
  PROVE  ProfileOK([p EXCEPT !.v = v])
<1>1. FieldOK("v", v)
  BY DEF FieldOK
<1> QED BY <1>1, ProfileField

\* ... its rules ...
LEMMA ProfileRules ==
  ASSUME NEW p, ProfileOK(p), NEW rules, RulesOK(rules)
  PROVE  ProfileOK([p EXCEPT !.rules = rules])
<1>1. FieldOK("rules", rules)
  BY DEF FieldOK
<1> QED BY <1>1, ProfileField

\* ... other values ...
LEMMA ProfileValues ==
  ASSUME NEW p, ProfileOK(p), NEW x
  PROVE  /\ Registered(x, ParameterDefault) => ProfileOK([p EXCEPT !.parameters = x])
         /\ Registered(x, KeyboardDefault) => ProfileOK([p EXCEPT !.keyboard = x])
<1>1. ASSUME Registered(x, ParameterDefault) PROVE ProfileOK([p EXCEPT !.parameters = x])
  <2>1. FieldOK("parameters", x)
    BY <1>1 DEF FieldOK
  <2> QED BY <2>1, ProfileField
<1>2. ASSUME Registered(x, KeyboardDefault) PROVE ProfileOK([p EXCEPT !.keyboard = x])
  <2>1. FieldOK("keyboard", x)
    BY <1>2 DEF FieldOK
  <2> QED BY <2>1, ProfileField
<1> QED BY <1>1, <1>2

\* ... or its pairs.
LEMMA ProfilePairs ==
  ASSUME NEW p, ProfileOK(p), NEW k \in {"simple", "fn"}, NEW x \in Seq(Pairs),
         k = "fn" => FnKeysOK(x)
  PROVE  ProfileOK([p EXCEPT ![k] = x])
<1>1. FieldOK(k, x)
  BY DEF FieldOK
<1>2. k \in {"v", "parameters", "keyboard", "devices", "simple", "fn", "complex", "rules"}
  OBVIOUS
<1> QED BY <1>1, <1>2, ProfileField, ZenonT(40)

\* A new device is in order.
LEMMA NewDeviceOK ==
  ASSUME NEW d
  PROVE  DeviceOK(NewDevice(d)) /\ NewDevice(d).id = d
<1> DEFINE j == [id |-> d, vals |-> NoKeys, simple |-> <<>>, fn |-> <<>>]
<1>1. j.id = d /\ j.vals = NoKeys /\ j.simple = <<>> /\ j.fn = <<>>
  OBVIOUS
<1>2. DOMAIN NoKeys = {} /\ <<>> \in Seq(Pairs)
  BY DEF NoKeys
<1>3. NewDevice(d) = LoadDevice(j)
  BY DEF NewDevice
<1> HIDE DEF j
<1>4. DeviceJsonOK(j)
  BY <1>1, <1>2 DEF DeviceJsonOK
<1>5. LoadDevice(j).id = d
  BY <1>1 DEF LoadDevice
<1> QED BY <1>3, <1>4, <1>5, LoadDeviceOK

\* A device that is looked up is there afterwards.
LEMMA GetDeviceOK ==
  ASSUME NEW p, ProfileOK(p), NEW d
  PROVE  /\ ProfileOK(get_device(p, d))
         /\ DeviceIndex(get_device(p, d), d) \in DOMAIN get_device(p, d).devices
<1> DEFINE q == get_device(p, d)
           I == {i \in DOMAIN q.devices : q.devices[i].id = d}
<1>1. ProfileOK(q) /\ \E i \in DOMAIN q.devices : q.devices[i].id = d
  <2>1. CASE \E i \in DOMAIN p.devices : p.devices[i].id = d
    BY <2>1 DEF get_device
  <2>2. CASE ~\E i \in DOMAIN p.devices : p.devices[i].id = d
    <3> DEFINE e == NewDevice(d)
               ds == Append(p.devices, e)
    <3>1. DeviceOK(e) /\ e.id = d
      BY NewDeviceOK
    <3>2. q = [p EXCEPT !.devices = ds]
      BY <2>2 DEF get_device
    <3> HIDE DEF e
    <3>3. DevicesOK(p.devices)
      BY DEF ProfileOK
    <3>4. DevicesOK(ds)
      BY <3>1, <3>3, DevicesAppend
    <3>5. PICK S : p.devices \in Seq(S)
      BY <3>3 DEF DevicesOK
    <3>6. Len(p.devices) + 1 \in DOMAIN ds /\ ds[Len(p.devices) + 1] = e
      <4> DEFINE T == S \cup {e}
      <4>1. p.devices \in Seq(T) /\ e \in T
        BY <3>5
      <4> HIDE DEF T
      <4> QED BY <4>1
    <3> HIDE DEF ds, q
    <3>7. ProfileOK(q) /\ q.devices = ds
      BY <3>2, <3>4, ProfileDevices
    <3> QED BY <3>1, <3>6, <3>7
  <2> QED BY <2>1, <2>2
<1>2. PICK S : q.devices \in Seq(S)
  BY <1>1 DEF ProfileOK, DevicesOK
<1> HIDE DEF q
<1>3. I \in SUBSET DOMAIN q.devices /\ I # {}
  BY <1>1
<1>4. (CHOOSE i \in I : \A j \in I : i <= j) \in I
  <2> HIDE DEF I
  <2> QED BY <1>2, <1>3, LeastIndex
<1>5. DeviceIndex(q, d) = CHOOSE i \in I : \A j \in I : i <= j
  BY DEF DeviceIndex
<1>6. DeviceIndex(q, d) \in DOMAIN q.devices
  BY <1>3, <1>4, <1>5
<1> QED BY <1>1, <1>6 DEF q

-----------------------------------------------------------------------------
(* The edits.                                                              *)

\* A configuration with other profiles ...
LEMMA ConfigProfiles ==
  ASSUME NEW c, ConfigOK(c), NEW ps, ProfilesOK(ps)
  PROVE  ConfigOK([c EXCEPT !.profiles = ps])
<1> DEFINE n == [c EXCEPT !.profiles = ps]
<1>1. n = [loaded |-> c.loaded, global |-> c.global, machine |-> c.machine,
           profiles |-> ps, extra |-> c.extra]
  BY DEF ConfigOK
<1> HIDE DEF n
<1>2. /\ n.profiles = ps /\ n.global = c.global /\ n.extra = c.extra
      /\ n = [loaded |-> n.loaded, global |-> n.global, machine |-> n.machine,
              profiles |-> n.profiles, extra |-> n.extra]
  BY <1>1
<1>3. ConfigOK(n)
  BY <1>2 DEF ConfigOK
<1> QED BY <1>3 DEF n

\* ... or with other settings of the machine.
LEMMA ConfigOther ==
  ASSUME NEW c, ConfigOK(c), NEW x, NEW k \in {"global", "machine"},
         k = "global" => Registered(x, GlobalDefault)
  PROVE  ConfigOK([c EXCEPT ![k] = x])
<1> DEFINE n == [c EXCEPT ![k] = x]
<1>1. DOMAIN c = {"loaded", "global", "machine", "profiles", "extra"}
  BY DEF ConfigOK
<1>2. /\ DOMAIN n = DOMAIN c /\ n.profiles = c.profiles /\ n = [m \in DOMAIN n |-> n[m]]
      /\ n.extra = c.extra /\ (n.global = c.global \/ (k = "global" /\ n.global = x))
  BY <1>1
<1> HIDE DEF n
<1>3. n = [loaded |-> n.loaded, global |-> n.global, machine |-> n.machine,
           profiles |-> n.profiles, extra |-> n.extra]
  BY <1>1, <1>2
<1>4. ConfigOK(n)
  BY <1>2, <1>3 DEF ConfigOK
<1> QED BY <1>4 DEF n

\* One profile exchanged.
LEMMA ConfigProfile ==
  ASSUME NEW c, ConfigOK(c), NEW i \in DOMAIN c.profiles, NEW p, ProfileOK(p)
  PROVE  ConfigOK([c EXCEPT !.profiles[i] = p])
<1> DEFINE ps == [c.profiles EXCEPT ![i] = p]
<1>1. PICK S : c.profiles \in Seq(S) /\ \A q \in S : ProfileOK(q)
  BY DEF ConfigOK, ProfilesOK
<1> DEFINE T == S \cup {p}
<1>2. ps \in Seq(T) /\ ps # <<>>
  <2>1. c.profiles \in Seq(T) /\ i \in 1..Len(c.profiles) /\ p \in T
    BY <1>1
  <2> HIDE DEF T
  <2>2. ps \in Seq(T) /\ DOMAIN ps = DOMAIN c.profiles
    BY <2>1
  <2> HIDE DEF ps
  <2> QED BY <2>1, <2>2
<1>3. \A q \in T : ProfileOK(q)
  BY <1>1
<1>4. [c EXCEPT !.profiles[i] = p] = [c EXCEPT !.profiles = ps]
  OBVIOUS
<1> HIDE DEF T, ps
<1>5. ProfilesOK(ps)
  BY <1>2, <1>3 DEF ProfilesOK
<1>6. ConfigOK([c EXCEPT !.profiles = ps])
  BY <1>5, ConfigProfiles
<1> QED BY <1>4, <1>6

\* What a window does to the selected profile.
LEMMA EditProfileOK ==
  ASSUME ConfigOK(mem), NEW p, ProfileOK(p), EditProfile(p)
  PROVE  ConfigOK(mem')
<1>1. SelectedIndex(mem) \in DOMAIN mem.profiles
  BY SelectedOK
<1>2. mem' = [mem EXCEPT !.profiles[SelectedIndex(mem)] = p]
  BY DEF EditProfile, Edit
<1> QED BY <1>1, <1>2, ConfigProfile

\* What a window does to a device, which becomes e.
LEMMA EditDeviceOK ==
  ASSUME ConfigOK(mem), NEW d, NEW e, DeviceOK(e),
         EditProfile([get_device(Selected(mem), d) EXCEPT
                        !.devices[DeviceIndex(get_device(Selected(mem), d), d)] = e])
  PROVE  ConfigOK(mem')
<1> DEFINE p == get_device(Selected(mem), d)
           i == DeviceIndex(p, d)
           ds == [p.devices EXCEPT ![i] = e]
<1>1. ProfileOK(p) /\ i \in DOMAIN p.devices
  BY SelectedOK, GetDeviceOK
<1>2. EditProfile([p EXCEPT !.devices[i] = e])
  OBVIOUS
<1> HIDE DEF p, i
<1>3. DevicesOK(p.devices)
  BY <1>1 DEF ProfileOK
<1>4. DevicesOK(ds)
  BY <1>1, <1>3, DevicesReplace
<1>5. [p EXCEPT !.devices[i] = e] = [p EXCEPT !.devices = ds]
  OBVIOUS
<1> HIDE DEF ds
<1>6. ProfileOK([p EXCEPT !.devices = ds])
  BY <1>1, <1>4, ProfileDevices
<1> QED BY <1>2, <1>5, <1>6, EditProfileOK

\* The device a window works on.
LEMMA WorkedOnOK ==
  ASSUME ConfigOK(mem), NEW d
  PROVE  LET p == get_device(Selected(mem), d) IN DeviceOK(p.devices[DeviceIndex(p, d)])
<1> DEFINE p == get_device(Selected(mem), d)
<1>1. ProfileOK(p) /\ DeviceIndex(p, d) \in DOMAIN p.devices
  BY SelectedOK, GetDeviceOK
<1> HIDE DEF p
<1>2. DeviceOK(p.devices[DeviceIndex(p, d)])
  BY <1>1, DeviceOf DEF ProfileOK
<1> QED BY <1>2 DEF p

\* Every setter of a device leaves it coordinated.
LEMMA SetterOK ==
  ASSUME NEW e, DeviceOK(e), NEW k, NEW x \in Number, k = "stick_formula" => x \in 0..999
  PROVE  DeviceOK([e EXCEPT !.v = CoordinateBetweenProperties([e.v EXCEPT ![k] = x])])
<1> DEFINE u == [e.v EXCEPT ![k] = x]
           w == CoordinateBetweenProperties(u)
           n == [e EXCEPT !.v = w]
<1>1. Settings(u)
  <2>1. Settings(e.v)
    BY DEF DeviceOK, FlagsOK
  <2>4. "stick_formula" \in DeviceKeys
    BY DEF DeviceKeys
  <2>2. u \in [DeviceKeys -> Number] /\ "stick_formula" \in DeviceKeys
    BY <2>1, <2>4, ZenonT(40) DEF Settings
  <2>3. u["stick_formula"] = IF k = "stick_formula" THEN x ELSE e.v["stick_formula"]
    BY <2>1, <2>2 DEF Settings
  <2> HIDE DEF u
  <2> QED BY <2>1, <2>2, <2>3 DEF Settings
<1> HIDE DEF u
<1>2. FlagsOK(w)
  BY <1>1, CoordinateOK
<1> HIDE DEF w
<1>3. n = [id |-> e.id, v |-> w, simple |-> e.simple, fn |-> e.fn, extra |-> e.extra]
  BY DEF DeviceOK
<1> HIDE DEF n
<1>4. /\ n.v = w /\ n.id = e.id /\ n.simple = e.simple /\ n.fn = e.fn /\ n.extra = e.extra
      /\ n = [id |-> n.id, v |-> n.v, simple |-> n.simple, fn |-> n.fn, extra |-> n.extra]
  BY <1>3
<1>5. DeviceOK(n)
  BY <1>2, <1>4 DEF DeviceOK
<1> QED BY <1>5 DEF n, w, u

\* It may have any pairs.
LEMMA DevicePairs ==
  ASSUME NEW e, DeviceOK(e), NEW x \in Seq(Pairs), NEW k \in {"simple", "fn"}
  PROVE  DeviceOK([e EXCEPT ![k] = x])
<1> DEFINE n == [e EXCEPT ![k] = x]
<1>1. DOMAIN e = {"id", "v", "simple", "fn", "extra"}
  BY DEF DeviceOK
<1>2. /\ DOMAIN n = DOMAIN e /\ n.v = e.v /\ n = [m \in DOMAIN n |-> n[m]]
      /\ n.id = e.id /\ n.extra = e.extra
      /\ n["simple"] \in {e["simple"], x} /\ n["fn"] \in {e["fn"], x}
  BY <1>1
<1> HIDE DEF n
<1>3. n = [id |-> n.id, v |-> n.v, simple |-> n.simple, fn |-> n.fn, extra |-> n.extra]
  BY <1>1, <1>2
<1>5. n.simple \in Seq(Pairs) /\ n.fn \in Seq(Pairs)
  BY <1>2 DEF DeviceOK
<1>4. DeviceOK(n)
  BY <1>2, <1>3, <1>5 DEF DeviceOK
<1> QED BY <1>4 DEF n

-----------------------------------------------------------------------------
(* One lemma per kind of edit.                                             *)

\* What is left when one of several is taken out, and what is put back
\* somewhere.
LEMMA RemoveAtType ==
  ASSUME NEW S, NEW s \in Seq(S), NEW i \in 1..Len(s)
  PROVE  RemoveAt(s, i) \in Seq(S) /\ Len(RemoveAt(s, i)) = Len(s) - 1
<1>1. Len(s) \in Nat /\ i \in Nat /\ i >= 1 /\ i <= Len(s)
  OBVIOUS
<1>2. SubSeq(s, 1, i - 1) \in Seq(S) /\ Len(SubSeq(s, 1, i - 1)) = i - 1
  BY <1>1, SubSeqProperties
<1>3. SubSeq(s, i + 1, Len(s)) \in Seq(S) /\ Len(SubSeq(s, i + 1, Len(s))) = Len(s) - i
  BY <1>1, SubSeqProperties
<1> DEFINE a == SubSeq(s, 1, i - 1)
           b == SubSeq(s, i + 1, Len(s))
<1>4. RemoveAt(s, i) = a \o b
  BY DEF RemoveAt
<1>5. a \in Seq(S) /\ b \in Seq(S) /\ Len(a) = i - 1 /\ Len(b) = Len(s) - i
  BY <1>2, <1>3
<1> HIDE DEF a, b
<1>6. a \o b \in Seq(S) /\ Len(a \o b) = Len(a) + Len(b)
  BY <1>5, ConcatProperties
<1> QED BY <1>1, <1>4, <1>5, <1>6

\* An element put in.
LEMMA InsertAtType ==
  ASSUME NEW S, NEW s \in Seq(S), NEW i \in 1..Len(s) + 1, NEW e \in S
  PROVE  InsertAt(s, i, e) \in Seq(S) /\ InsertAt(s, i, e) # <<>>
<1>1. Len(s) \in Nat /\ i \in Nat /\ i >= 1 /\ i <= Len(s) + 1
  OBVIOUS
<1> DEFINE a == SubSeq(s, 1, i - 1)
           b == SubSeq(s, i, Len(s))
           c == a \o <<e>>
<1>2. a \in Seq(S) /\ b \in Seq(S)
  BY <1>1, SubSeqProperties
<1>3. <<e>> \in Seq(S) /\ Len(<<e>>) = 1
  OBVIOUS
<1>4. InsertAt(s, i, e) = c \o b
  BY DEF InsertAt
<1> HIDE DEF a, b
<1>5. c \in Seq(S) /\ Len(c) = Len(a) + 1
  BY <1>2, <1>3, ConcatProperties
<1> HIDE DEF c
<1>8. c \o b \in Seq(S) /\ Len(c \o b) = Len(c) + Len(b)
  BY <1>2, <1>5, ConcatProperties, Zenon
<1>6. c \o b \in Seq(S) /\ Len(c \o b) = Len(a) + 1 + Len(b)
  BY <1>5, <1>8
<1>7. Len(a) \in Nat /\ Len(b) \in Nat /\ Len(<<>>) = 0
  BY <1>2
<1> QED BY <1>4, <1>6, <1>7

\* move_element loses nothing.
LEMMA MoveElementType ==
  ASSUME NEW S, NEW s \in Seq(S), s # <<>>, NEW i \in 1..Len(s) + 1, NEW j \in 1..Len(s) + 1
  PROVE  MoveElement(s, i, j) \in Seq(S) /\ MoveElement(s, i, j) # <<>>
<1>0. Len(s) \in Nat /\ i \in Nat /\ i >= 1 /\ j \in Nat /\ j >= 1 /\ j <= Len(s) + 1
  OBVIOUS
<1>1. CASE i > Len(s)
  BY <1>1 DEF MoveElement
<1>2. CASE i <= Len(s)
  <2> DEFINE r == RemoveAt(s, i)
             k == IF i < j THEN j - 1 ELSE j
  <2>1. r \in Seq(S) /\ Len(r) = Len(s) - 1
    BY <1>0, <1>2, RemoveAtType
  <2>2. k \in 1..Len(s)
    BY <1>0, <1>2
  <2>3. MoveElement(s, i, j) = InsertAt(r, k, s[i])
    BY <1>0, <1>2 DEF MoveElement
  <2> HIDE DEF r, k
  <2>4. k \in 1..Len(r) + 1 /\ s[i] \in S
    BY <1>0, <1>2, <2>1, <2>2
  <2> QED BY <2>1, <2>3, <2>4, InsertAtType
<1> QED BY <1>0, <1>1, <1>2

\* Profiles are renamed, selected, added, copied, moved and erased.
LEMMA WindowEditOK == ConfigOK(mem) /\ WindowEdit => ConfigOK(mem')
<1> SUFFICES ASSUME ConfigOK(mem), WindowEdit PROVE ConfigOK(mem')
  OBVIOUS
<1> DEFINE ps == mem.profiles
<1>0. ps # <<>> /\ \E S : ps \in Seq(S) /\ \A p \in S : ProfileOK(p)
  BY DEF ConfigOK, ProfilesOK
<1>00. PICK S : ps \in Seq(S) /\ \A p \in S : ProfileOK(p)
  BY <1>0
<1>01. /\ Len(ps) \in Nat /\ DOMAIN ps = 1..Len(ps)
       /\ \A i \in DOMAIN ps : ps[i] \in S /\ ProfileOK(ps[i])
  BY <1>00
<1>1. ASSUME NEW k \in DOMAIN GlobalDefault, NEW x \in {0, 1}, SetGlobal(k, x)
      PROVE  ConfigOK(mem')
  <2> DEFINE g == [mem.global EXCEPT ![k] = x]
  <2>1. mem' = [mem EXCEPT !.global = g]
    BY <1>1 DEF SetGlobal, Edit, set_global
  <2>2. Registered(g, GlobalDefault)
    BY RegisteredSet, NotBad, SMTT(30) DEF ConfigOK
  <2> HIDE DEF g
  <2> QED BY <2>1, <2>2, ConfigOther
<1>2. ASSUME NEW x \in {0, 1}, SetMachineSpecific(x)
      PROVE  ConfigOK(mem')
  <2> DEFINE g == [m \in DOMAIN mem.machine \cup {ThisMachine} |->
                     IF m = ThisMachine THEN x ELSE mem.machine[m]]
  <2>1. mem' = [mem EXCEPT !.machine = g]
    BY <1>2 DEF SetMachineSpecific, Edit, set_machine_specific
  <2> HIDE DEF g
  <2> QED BY <2>1, ConfigOther
<1>3. ASSUME PushBackProfile PROVE ConfigOK(mem')
  <2> DEFINE j == [EmptyProfileJson EXCEPT !.vals = [name |-> NewName]]
             p == LoadProfile(j)
             n == Append(ps, p)
  <2>1. ProfileJsonOK(j) /\ ProfileLoads(j)
    BY DefaultProfileJson
  <2>2. mem' = [mem EXCEPT !.profiles = n]
    BY <1>3 DEF PushBackProfile, Edit, push_back_profile
  <2> HIDE DEF j
  <2>3. ProfileOK(p)
    BY <2>1, LoadProfileOK
  <2> HIDE DEF p, ps
  <2>4. ProfilesOK(n)
    BY <1>0, <2>3, ProfilesAppend
  <2> HIDE DEF n
  <2> QED BY <2>2, <2>4, ConfigProfiles
<1>4. ASSUME NEW i, NEW n \in {0, 3}, SetProfileName(i, n) PROVE ConfigOK(mem')
  <2>1. CASE i \in DOMAIN ps
    <3> DEFINE v == [ps[i].v EXCEPT !.name = n]
               p == [ps[i] EXCEPT !.v = v]
    <3>1. mem' = [mem EXCEPT !.profiles[i] = p]
      BY <1>4, <2>1 DEF SetProfileName, Edit, set_profile_name
    <3>2. ProfileOK(p)
      <4> DEFINE o == ps[i]
      <4>1. ProfileOK(o)
        BY <1>01, <2>1
      <4> HIDE DEF o
      <4>2. ValsOK([o.v EXCEPT !.name = n])
        BY <4>1 DEF ProfileOK, ValsOK
      <4>3. ValsOK(v)
        BY <4>2 DEF o
      <4> HIDE DEF v
      <4>4. ProfileOK([o EXCEPT !.v = v])
        BY <4>1, <4>3, ProfileVals
      <4> QED BY <4>4 DEF o
    <3> HIDE DEF p
    <3> QED BY <2>1, <3>1, <3>2, ConfigProfile
  <2>2. CASE i \notin DOMAIN ps
    BY <1>4, <2>2 DEF SetProfileName, Edit, set_profile_name
  <2> QED BY <2>1, <2>2
<1>5. ASSUME NEW i, SelectProfile(i) PROVE ConfigOK(mem')
  <2>1. CASE i \in DOMAIN ps
    <3> DEFINE p(m) == [ps[m] EXCEPT !.v.selected = IF m = i THEN 1 ELSE 0]
               n == [m \in DOMAIN ps |-> p(m)]
               T == {p(m) : m \in DOMAIN ps}
    <3>1. mem' = [mem EXCEPT !.profiles = n]
      BY <1>5, <2>1 DEF SelectProfile, Edit, select_profile
    <3>2. ASSUME NEW m \in DOMAIN ps PROVE ProfileOK(p(m))
      <4> DEFINE v == [ps[m].v EXCEPT !.selected = IF m = i THEN 1 ELSE 0]
      <4>1. p(m) = [ps[m] EXCEPT !.v = v]
        OBVIOUS
      <4> DEFINE o == ps[m]
      <4>2. ProfileOK(o)
        BY <1>01
      <4> HIDE DEF o
      <4>4. ValsOK([o.v EXCEPT !.selected = IF m = i THEN 1 ELSE 0])
        BY <4>2 DEF ProfileOK, ValsOK
      <4>5. ValsOK(v)
        BY <4>4 DEF o
      <4> HIDE DEF v
      <4>3. ProfileOK([o EXCEPT !.v = v])
        BY <4>2, <4>5, ProfileVals
      <4> QED BY <4>1, <4>3 DEF o
    <3>3. n \in Seq(T) /\ \A q \in T : ProfileOK(q)
      <4> HIDE DEF p
      <4> QED BY <1>01, <3>2
    <3>4. n # <<>>
      <4>1. DOMAIN n = DOMAIN ps
        OBVIOUS
      <4> HIDE DEF n
      <4> QED BY <1>0, <1>01, <4>1
    <3> HIDE DEF n, T
    <3>5. ProfilesOK(n)
      BY <3>3, <3>4 DEF ProfilesOK
    <3> QED BY <3>1, <3>5, ConfigProfiles
  <2>2. CASE i \notin DOMAIN ps
    BY <1>5, <2>2 DEF SelectProfile, Edit, select_profile
  <2> QED BY <2>1, <2>2
<1>6. ASSUME NEW i, EraseProfile(i) PROVE ConfigOK(mem')
  <2>1. CASE i \in DOMAIN ps /\ Len(ps) > 1
    <3> DEFINE n == RemoveAt(ps, i)
    <3>1. mem' = [mem EXCEPT !.profiles = n]
      BY <1>6, <2>1 DEF EraseProfile, Edit, erase_profile
    <3>2. n \in Seq(S) /\ Len(n) = Len(ps) - 1
      BY <1>00, <1>01, <2>1, RemoveAtType
    <3>3. n # <<>>
      <4> HIDE DEF n
      <4> QED BY <1>01, <2>1, <3>2
    <3> HIDE DEF n
    <3>4. ProfilesOK(n)
      BY <1>00, <3>2, <3>3 DEF ProfilesOK
    <3> QED BY <3>1, <3>4, ConfigProfiles
  <2>2. CASE ~(i \in DOMAIN ps /\ Len(ps) > 1)
    BY <1>6, <2>2 DEF EraseProfile, Edit, erase_profile
  <2> QED BY <2>1, <2>2
<1>7. ASSUME NEW i, DuplicateProfile(i) PROVE ConfigOK(mem')
  <2> DEFINE copy == LoadProfile(ProfileToJson(ps[i]))
             p == [copy EXCEPT !.v.name = CopyOf(@), !.v.selected = 0]
             n == Append(ps, p)
  <2>1. i \in DOMAIN ps /\ mem' = [mem EXCEPT !.profiles = n]
    BY <1>7 DEF DuplicateProfile, Edit, duplicate_profile
  <2>2. ProfileOK(copy)
    BY <1>01, <2>1, ProfileToJsonOK, LoadProfileOK
  <2> HIDE DEF copy
  <2>3. ProfileOK(p)
    <3> DEFINE v == [[copy.v EXCEPT !.name = CopyOf(@)] EXCEPT !.selected = 0]
    <3>1. p = [copy EXCEPT !.v = v]
      OBVIOUS
    <3>2. ValsOK(v)
      <4> DEFINE w == copy.v
                 name == w.name
      <4>1. w = [name |-> name, selected |-> w.selected] /\ name \in Nat
        BY <2>2 DEF ProfileOK, ValsOK
      <4>0. v = [[w EXCEPT !.name = CopyOf(name)] EXCEPT !.selected = 0]
        OBVIOUS
      <4> HIDE DEF v, w, name
      <4>2. CopyOf(name) \in Nat
        BY <4>1 DEF CopyOf
      <4> DEFINE newName == CopyOf(name)
                 u == [name |-> newName, selected |-> 0]
      <4> HIDE DEF newName
      <4>3. v = u
        BY <4>0, <4>1 DEF newName
      <4>4. ValsOK(u)
        BY <4>2 DEF ValsOK, newName
      <4> QED BY <4>3, <4>4
    <3> HIDE DEF v
    <3> QED BY <2>2, <3>1, <3>2, ProfileVals
  <2> HIDE DEF p, ps
  <2>4. ProfilesOK(n)
    BY <1>0, <2>3, ProfilesAppend
  <2> HIDE DEF n
  <2> QED BY <2>1, <2>4, ConfigProfiles
<1>8. ASSUME NEW i \in Indexes(ps), NEW j \in Indexes(ps), MoveProfile(i, j)
      PROVE  ConfigOK(mem')
  <2> DEFINE n == MoveElement(ps, i, j)
  <2>1. mem' = [mem EXCEPT !.profiles = n]
    BY <1>8 DEF MoveProfile, Edit, move_profile
  <2>2. i \in 1..Len(ps) + 1 /\ j \in 1..Len(ps) + 1
    BY DEF Indexes
  <2> HIDE DEF ps
  <2>3. n \in Seq(S) /\ n # <<>>
    BY <1>0, <1>00, <2>2, MoveElementType
  <2> HIDE DEF n
  <2>4. ProfilesOK(n)
    BY <1>00, <2>3 DEF ProfilesOK
  <2> QED BY <2>1, <2>4, ConfigProfiles
<1> QED BY <1>1, <1>2, <1>3, <1>4, <1>5, <1>6, <1>7, <1>8 DEF WindowEdit

\* The pairs a window works on.
LEMMA PairsOfOK ==
  ASSUME ConfigOK(mem), NEW o, NEW field \in {"simple", "fn"}
  PROVE  /\ PairsOf(o, field) \in Seq(Pairs)
         /\ field = "fn" /\ o = Profile => FnKeysOK(PairsOf(o, field))
<1>1. CASE o = Profile
  <2> DEFINE p == Selected(mem)
  <2>1. PairsOf(o, field) = p[field] /\ ProfileOK(p)
    BY <1>1, SelectedOK DEF PairsOf
  <2> HIDE DEF p
  <2>2. p["simple"] \in Seq(Pairs) /\ p["fn"] \in Seq(Pairs) /\ FnKeysOK(p["fn"])
    BY <2>1 DEF ProfileOK, FnKeysOK
  <2> QED BY <2>1, <2>2
<1>2. CASE o # Profile
  <2> DEFINE p == get_device(Selected(mem), o)
             e == p.devices[DeviceIndex(p, o)]
  <2>1. PairsOf(o, field) = e[field] /\ DeviceOK(e)
    BY <1>2, WorkedOnOK DEF PairsOf
  <2> HIDE DEF e
  <2>2. e["simple"] \in Seq(Pairs) /\ e["fn"] \in Seq(Pairs)
    BY <2>1 DEF DeviceOK
  <2> QED BY <1>2, <2>1, <2>2
<1> QED BY <1>1, <1>2

\* What a window makes of them.  Only a to of a function key is exchanged.
LEMMA PairEdits ==
  ASSUME NEW x \in Seq(Pairs)
  PROVE  /\ push_back_pair(x) \in Seq(Pairs)
         /\ \A i : erase_pair(x, i) \in Seq(Pairs)
         /\ \A i : \A q \in Pairs : replace_pair(x, i, q) \in Seq(Pairs)
         /\ \A q \in Pairs : /\ replace_second(x, q) \in Seq(Pairs)
                             /\ FnKeysOK(x) => FnKeysOK(replace_second(x, q))
<1>1. push_back_pair(x) \in Seq(Pairs)
  <2> DEFINE r == [from |-> 0, to |-> 0]
  <2>1. r \in Pairs
    BY DEF Pairs
  <2> HIDE DEF r
  <2>2. Append(x, r) \in Seq(Pairs)
    BY <2>1
  <2> QED BY <2>2 DEF push_back_pair, r
<1>2. ASSUME NEW i PROVE erase_pair(x, i) \in Seq(Pairs)
  <2>1. CASE i \in DOMAIN x
    <3>1. i \in 1..Len(x)
      BY <2>1
    <3>2. RemoveAt(x, i) \in Seq(Pairs)
      BY <3>1, RemoveAtType
    <3> QED BY <2>1, <3>2 DEF erase_pair
  <2>2. CASE i \notin DOMAIN x
    BY <2>2 DEF erase_pair
  <2> QED BY <2>1, <2>2
<1>3. ASSUME NEW i \in DOMAIN x, NEW q \in Pairs
      PROVE  /\ [x EXCEPT ![i] = q] \in Seq(Pairs) /\ DOMAIN [x EXCEPT ![i] = q] = DOMAIN x
             /\ \A n \in DOMAIN x : [x EXCEPT ![i] = q][n] = IF n = i THEN q ELSE x[n]
  <2>1. i \in 1..Len(x)
    OBVIOUS
  <2> QED BY <2>1
<1>4. ASSUME NEW i, NEW q \in Pairs PROVE replace_pair(x, i, q) \in Seq(Pairs)
  <2>1. CASE i \in DOMAIN x
    BY <1>3, <2>1 DEF replace_pair
  <2>2. CASE i \notin DOMAIN x
    BY <2>2 DEF replace_pair
  <2> QED BY <2>1, <2>2
<1>5. ASSUME NEW q \in Pairs
      PROVE  /\ replace_second(x, q) \in Seq(Pairs)
             /\ FnKeysOK(x) => FnKeysOK(replace_second(x, q))
  <2> DEFINE I == {i \in DOMAIN x : x[i].from = q.from}
             m == CHOOSE i \in I : \A j \in I : i <= j
             y == [x EXCEPT ![m] = q]
  <2>1. CASE I = {}
    BY <2>1 DEF replace_second
  <2>2. CASE I # {}
    <3>1. I \in SUBSET DOMAIN x
      OBVIOUS
    <3>2. m \in I
      <4> HIDE DEF I
      <4> QED BY <2>2, <3>1, LeastIndex
    <3>3. replace_second(x, q) = y
      BY <2>2 DEF replace_second
    <3>4. m \in DOMAIN x /\ x[m].from = q.from
      BY <3>2
    <3> HIDE DEF m, I
    <3>5. /\ y \in Seq(Pairs) /\ DOMAIN y = DOMAIN x
          /\ \A n \in DOMAIN x : y[n] = IF n = m THEN q ELSE x[n]
      BY <1>3, <3>4
    <3> HIDE DEF y
    <3>6. \A n \in DOMAIN x : y[n].from = x[n].from
      BY <3>4, <3>5
    <3> QED BY <3>3, <3>5, <3>6 DEF FnKeysOK
  <2> QED BY <2>1, <2>2
<1> QED BY <1>1, <1>2, <1>4, <1>5

\* A window changes the pairs of the profile or of a device.
LEMMA EditPairsOK ==
  ASSUME ConfigOK(mem), NEW o, NEW field \in {"simple", "fn"}, NEW pairs \in Seq(Pairs),
         field = "fn" /\ o = Profile => FnKeysOK(pairs), EditPairs(o, field, pairs)
  PROVE  ConfigOK(mem')
<1>1. CASE o = Profile
  <2> DEFINE p == Selected(mem)
             q == [p EXCEPT ![field] = pairs]
  <2>1. EditProfile(q)
    BY <1>1 DEF EditPairs
  <2>2. ProfileOK(p)
    BY SelectedOK
  <2> HIDE DEF p
  <2>3. ProfileOK(q)
    BY <1>1, <2>2, ProfilePairs
  <2> HIDE DEF q
  <2> QED BY <2>1, <2>3, EditProfileOK
<1>2. CASE o # Profile
  <2> DEFINE p == get_device(Selected(mem), o)
             d == p.devices[DeviceIndex(p, o)]
             e == [d EXCEPT ![field] = pairs]
  <2>1. EditProfile([p EXCEPT !.devices[DeviceIndex(p, o)] = e])
    BY <1>2 DEF EditPairs, EditDevice
  <2>2. DeviceOK(d)
    BY WorkedOnOK
  <2> HIDE DEF d
  <2>3. DeviceOK(e)
    BY <2>2, DevicePairs
  <2> HIDE DEF e
  <2> QED BY <2>1, <2>3, EditDeviceOK
<1> QED BY <1>1, <1>2

\* A window changes a setting of a device.
LEMMA SetDeviceOK ==
  ASSUME ConfigOK(mem), NEW d, NEW k, NEW x \in Number, k = "stick_formula" => x \in 0..999,
         LET p == get_device(Selected(mem), d)
             e == p.devices[DeviceIndex(p, d)]
         IN  EditProfile([p EXCEPT !.devices[DeviceIndex(p, d)] =
               [e EXCEPT !.v = CoordinateBetweenProperties([e.v EXCEPT ![k] = x])]])
  PROVE  ConfigOK(mem')
<1> DEFINE p == get_device(Selected(mem), d)
           e == p.devices[DeviceIndex(p, d)]
           n == [e EXCEPT !.v = CoordinateBetweenProperties([e.v EXCEPT ![k] = x])]
<1>1. EditProfile([p EXCEPT !.devices[DeviceIndex(p, d)] = n])
  OBVIOUS
<1>2. DeviceOK(e)
  BY WorkedOnOK
<1> HIDE DEF e
<1>3. DeviceOK(n)
  BY <1>2, SetterOK
<1> HIDE DEF n
<1> QED BY <1>1, <1>3, EditDeviceOK

\* One rule exchanged.
LEMMA RulesReplace ==
  ASSUME NEW s, RulesOK(s), NEW i \in DOMAIN s, NEW r, RuleOK(r)
  PROVE  RulesOK([s EXCEPT ![i] = r])
<1>1. PICK S : s \in Seq(S) /\ \A q \in S : RuleOK(q)
  BY DEF RulesOK
<1> DEFINE T == S \cup {r}
           t == [s EXCEPT ![i] = r]
<1>2. t \in Seq(T)
  <2>1. s \in Seq(T) /\ i \in 1..Len(s) /\ r \in T
    BY <1>1
  <2> HIDE DEF T
  <2> QED BY <2>1
<1>3. \A q \in T : RuleOK(q)
  BY <1>1
<1> HIDE DEF T, t
<1>4. RulesOK(t)
  BY <1>2, <1>3 DEF RulesOK
<1> QED BY <1>4 DEF t

\* The edits of the selected profile that leave its devices alone.
LEMMA ProfileEditOK == ConfigOK(mem) /\ ProfileEdit => ConfigOK(mem')
<1> SUFFICES ASSUME ConfigOK(mem), ProfileEdit PROVE ConfigOK(mem')
  OBVIOUS
<1> DEFINE p == Selected(mem)
<1>0. ProfileOK(p)
  BY SelectedOK
<1>1. ASSUME NEW x, x # Bad, SetParameter(x) PROVE ConfigOK(mem')
  <2> DEFINE y == [p.parameters EXCEPT !.delay = x]
  <2>1. EditProfile([p EXCEPT !.parameters = y])
    BY <1>1 DEF SetParameter
  <2> HIDE DEF p
  <2>3. Registered(y, ParameterDefault)
    BY <1>0, <1>1, RegisteredSet DEF ProfileOK
  <2> HIDE DEF y
  <2>2. ProfileOK([p EXCEPT !.parameters = y])
    BY <1>0, <2>3, ProfileValues
  <2> QED BY <2>1, <2>2, EditProfileOK
<1>2. ASSUME NEW k, NEW x, x # Bad, SetKeyboard(k, x) PROVE ConfigOK(mem')
  <2> DEFINE y == set_keyboard(p.keyboard, k, x)
             z == IF k = "xy_scale" /\ x < 0 THEN 0 ELSE x
  <2>1. EditProfile([p EXCEPT !.keyboard = y])
    BY <1>2 DEF SetKeyboard
  <2>4. z # Bad
    BY <1>2, NotBad
  <2>5. y = [p.keyboard EXCEPT ![k] = z]
    BY DEF set_keyboard
  <2> HIDE DEF p, y, z
  <2>3. Registered(y, KeyboardDefault)
    BY <1>0, <2>4, <2>5, RegisteredSet DEF ProfileOK
  <2>2. ProfileOK([p EXCEPT !.keyboard = y])
    BY <1>0, <2>3, ProfileValues
  <2> QED BY <2>1, <2>2, EditProfileOK
<1>3. ASSUME NEW k \in DOMAIN ComplexDefault, NEW x \in Values, SetComplexParameter(k, x)
      PROVE  ConfigOK(mem')
  <2> DEFINE c == [p.complex EXCEPT ![k] = x]
             y == AdjustValues(c)
  <2>1. EditProfile([p EXCEPT !.complex = y])
    BY <1>3 DEF SetComplexParameter
  <2>2. p.complex \in Complex /\ x \in Int
    BY <1>0, ConfigurationAssumption DEF ProfileOK
  <2> DEFINE z == p.complex
  <2>3. z \in Complex
    BY <2>2
  <2> HIDE DEF p
  <2>4. c.simultaneous \in Int /\ c.speed \in Int
    <3> HIDE DEF z
    <3>1. DOMAIN z = {"simultaneous", "speed"} /\ z.simultaneous \in SimultaneousRange
          /\ z.speed \in SpeedRange
      BY <2>3 DEF Complex
    <3> DEFINE a == z.simultaneous
               b == z.speed
    <3>2. a \in Int /\ b \in Int
      <4>1. a \in SimultaneousRange /\ b \in SpeedRange
        BY <3>1
      <4> HIDE DEF a, b
      <4> QED BY <4>1, SimultaneousClamped, SpeedClamped
    <3>3. [z EXCEPT ![k] = x].simultaneous \in {a, x} /\ [z EXCEPT ![k] = x].speed \in {b, x}
      BY <3>1
    <3> HIDE DEF a, b
    <3> QED BY <2>2, <3>2, <3>3 DEF z
  <2> HIDE DEF c
  <2>5. y \in Complex
    BY <2>4, AdjustOK
  <2> HIDE DEF y
  <2>6. ProfileOK([p EXCEPT !.complex = y])
    BY <1>0, <2>5, ProfileComplex
  <2> QED BY <2>1, <2>6, EditProfileOK
<1>4. ASSUME NEW o, \/ PushBackSimple(o)
                    \/ \E i : EraseSimple(o, i)
                    \/ \E i : \E q \in PairInputs : ReplaceSimple(o, i, q)
      PROVE  ConfigOK(mem')
  <2> DEFINE x == PairsOf(o, "simple")
  <2>1. x \in Seq(Pairs)
    BY PairsOfOK
  <2>2. PairInputs \subseteq Pairs
    BY ConfigurationAssumption
  <2>3. ASSUME NEW pairs \in Seq(Pairs), EditPairs(o, "simple", pairs) PROVE ConfigOK(mem')
    BY <2>3, EditPairsOK
  <2>4. CASE PushBackSimple(o)
    <3>1. EditPairs(o, "simple", push_back_pair(x))
      BY <2>4 DEF PushBackSimple
    <3> QED BY <2>1, <2>3, <3>1, PairEdits
  <2>5. CASE \E i : EraseSimple(o, i)
    <3>1. PICK i : EditPairs(o, "simple", erase_pair(x, i))
      BY <2>5 DEF EraseSimple
    <3> QED BY <2>1, <2>3, <3>1, PairEdits
  <2>6. CASE \E i : \E q \in PairInputs : ReplaceSimple(o, i, q)
    <3>1. PICK i : \E q \in PairInputs : EditPairs(o, "simple", replace_pair(x, i, q))
      BY <2>6 DEF ReplaceSimple
    <3>2. PICK q \in PairInputs : EditPairs(o, "simple", replace_pair(x, i, q))
      BY <3>1
    <3>3. q \in Pairs
      BY <2>2
    <3> QED BY <2>1, <2>3, <3>2, <3>3, PairEdits
  <2> QED BY <1>4, <2>4, <2>5, <2>6
<1>13. ASSUME NEW o, NEW q \in PairInputs, ReplaceFn(o, q) PROVE ConfigOK(mem')
  <2> DEFINE x == PairsOf(o, "fn")
             n == replace_second(x, q)
  <2>1. x \in Seq(Pairs) /\ (o = Profile => FnKeysOK(x))
    BY PairsOfOK
  <2>2. q \in Pairs
    BY ConfigurationAssumption
  <2>3. EditPairs(o, "fn", n)
    BY <1>13 DEF ReplaceFn
  <2> HIDE DEF x
  <2>4. n \in Seq(Pairs) /\ (FnKeysOK(x) => FnKeysOK(n))
    BY <2>1, <2>2, PairEdits
  <2> HIDE DEF n
  <2> QED BY <2>1, <2>3, <2>4, EditPairsOK
<1>5. ASSUME NEW rules, RulesOK(rules), EditRules(rules) PROVE ConfigOK(mem')
  <2>1. EditProfile([p EXCEPT !.rules = rules])
    BY <1>5 DEF EditRules
  <2> HIDE DEF p
  <2>2. ProfileOK([p EXCEPT !.rules = rules])
    BY <1>0, <1>5, ProfileRules
  <2> QED BY <2>1, <2>2, EditProfileOK
<1> DEFINE rs == p.rules
<1>6. PICK S : rs \in Seq(S) /\ \A r \in S : RuleOK(r)
  BY <1>0 DEF ProfileOK, RulesOK
<1>7. Len(rs) \in Nat /\ DOMAIN rs = 1..Len(rs) /\ RulesOK(rs)
  BY <1>6 DEF RulesOK
<1>8. ASSUME NEW i, EraseRule(i) PROVE ConfigOK(mem')
  <2>1. EditRules(erase_rule(rs, i))
    BY <1>8 DEF EraseRule
  <2> HIDE DEF rs
  <2>2. RulesOK(erase_rule(rs, i))
    <3>1. CASE i \in DOMAIN rs
      <4>1. RemoveAt(rs, i) \in Seq(S)
        BY <1>6, <1>7, <3>1, RemoveAtType
      <4> QED BY <1>6, <3>1, <4>1 DEF RulesOK, erase_rule
    <3>2. CASE i \notin DOMAIN rs
      BY <1>7, <3>2 DEF erase_rule
    <3> QED BY <3>1, <3>2
  <2> QED BY <1>5, <2>1, <2>2
<1>9. ASSUME NEW i \in Indexes(rs), NEW j \in Indexes(rs), MoveRule(i, j) PROVE ConfigOK(mem')
  <2>1. EditRules(MoveElement(rs, i, j))
    BY <1>9 DEF MoveRule
  <2>2. i \in 1..Len(rs) + 1 /\ j \in 1..Len(rs) + 1
    BY DEF Indexes
  <2> HIDE DEF rs
  <2>3. RulesOK(MoveElement(rs, i, j))
    <3>1. CASE rs # <<>>
      <4>1. MoveElement(rs, i, j) \in Seq(S)
        BY <1>6, <2>2, <3>1, MoveElementType
      <4> QED BY <1>6, <4>1 DEF RulesOK
    <3>2. CASE rs = <<>>
      <4>1. Len(rs) = 0
        BY <3>2
      <4>2. i > Len(rs)
        BY <2>2, <4>1
      <4> QED BY <1>7, <4>2 DEF MoveElement
    <3> QED BY <3>1, <3>2
  <2> QED BY <1>5, <2>1, <2>3
<1>10. ASSUME NEW i, NEW x, x # Bad, SetRuleEnabled(i, x) PROVE ConfigOK(mem')
  <2> DEFINE r == [rs[i] EXCEPT !.enabled = x]
  <2>1. i \in DOMAIN rs /\ EditRules([rs EXCEPT ![i] = r])
    BY <1>10 DEF SetRuleEnabled
  <2>2. RuleOK(r)
    <3> DEFINE o == rs[i]
    <3>1. RuleOK(o)
      BY <1>6, <2>1
    <3> HIDE DEF o
    <3>2. RuleOK([o EXCEPT !.enabled = x])
      BY <1>10, <3>1 DEF RuleOK
    <3> QED BY <3>2 DEF o
  <2> HIDE DEF r, rs
  <2>3. RulesOK([rs EXCEPT ![i] = r])
    BY <1>7, <2>1, <2>2, RulesReplace
  <2> QED BY <1>5, <2>1, <2>3
<1>11. ASSUME NEW i, NEW r, ReplaceRule(i, r) PROVE ConfigOK(mem')
  <2> DEFINE n == LoadRule(r)
  <2>1. RuleLoads(r) /\ EditRules(replace_rule(rs, i, n))
    BY <1>11 DEF ReplaceRule
  <2>2. RuleOK(n)
    BY <2>1, LoadRuleOK DEF RuleLoads
  <2> HIDE DEF n, rs
  <2>3. RulesOK(replace_rule(rs, i, n))
    <3>1. CASE i \in DOMAIN rs
      <4>1. RulesOK([rs EXCEPT ![i] = n])
        BY <1>7, <2>2, <3>1, RulesReplace
      <4> QED BY <3>1, <4>1 DEF replace_rule
    <3>2. CASE i \notin DOMAIN rs
      BY <1>7, <3>2 DEF replace_rule
    <3> QED BY <3>1, <3>2
  <2> QED BY <1>5, <2>1, <2>3
<1>12. ASSUME NEW r, PushFrontRule(r) PROVE ConfigOK(mem')
  <2> DEFINE n == LoadRule(r)
             T == S \cup {n}
             m == <<n>> \o rs
  <2>1. RuleLoads(r) /\ EditRules(m)
    BY <1>12 DEF PushFrontRule, push_front_rule
  <2>2. RuleOK(n)
    BY <2>1, LoadRuleOK DEF RuleLoads
  <2> HIDE DEF n, rs
  <2>3. <<n>> \in Seq(T) /\ rs \in Seq(T) /\ \A q \in T : RuleOK(q)
    BY <1>6, <2>2
  <2> HIDE DEF T
  <2>4. m \in Seq(T)
    BY <2>3, ConcatProperties
  <2> HIDE DEF m
  <2>5. RulesOK(m)
    BY <2>3, <2>4 DEF RulesOK
  <2> QED BY <1>5, <2>1, <2>5
<1>14. /\ \A x \in Values : x # Bad
       /\ \A x \in {0, 1} : x # Bad
  BY ConfigurationAssumption, NotBad
<1> HIDE DEF p, rs
<1>15. ASSUME NEW o, \/ PushBackSimple(o)
                     \/ \E i \in Indexes(PairsOf(o, "simple")) :
                          EraseSimple(o, i) \/ \E q \in PairInputs : ReplaceSimple(o, i, q)
                     \/ \E q \in PairInputs : ReplaceFn(o, q)
       PROVE  ConfigOK(mem')
  BY <1>4, <1>13, <1>15
<1> QED BY <1>1, <1>2, <1>3, <1>8, <1>9, <1>10, <1>11, <1>12, <1>14, <1>15
        DEF ProfileEdit, p, rs

\* The edits of a device, and the erasure of those that are not connected.
LEMMA DeviceEditOK == ConfigOK(mem) /\ DeviceEdit => ConfigOK(mem')
<1> SUFFICES ASSUME ConfigOK(mem), DeviceEdit PROVE ConfigOK(mem')
  OBVIOUS
<1>1. ASSUME NEW d, LookAtDevice(d) PROVE ConfigOK(mem')
  <2> DEFINE p == get_device(Selected(mem), d)
             e == p.devices[DeviceIndex(p, d)]
  <2>1. EditProfile([p EXCEPT !.devices[DeviceIndex(p, d)] = e])
    BY <1>1 DEF LookAtDevice, EditDevice
  <2>2. DeviceOK(e)
    BY WorkedOnOK
  <2> HIDE DEF e
  <2> QED BY <2>1, <2>2, EditDeviceOK
<1>0. /\ {0, 1} \subseteq Number /\ Values \subseteq Number /\ 0..999 \subseteq Number
      /\ \A x \in Formulas : Trim(x) \in 0..999
  <2>1. {0, 1} \subseteq Number /\ 0..999 \subseteq Number
    BY NotBad DEF Number
  <2>2. Values \subseteq Number
    BY ConfigurationAssumption DEF Number
  <2>3. Formulas \subseteq 0..999
    BY ConfigurationAssumption
  <2>4. ASSUME NEW x \in Formulas PROVE Trim(x) \in 0..999
    <3>1. x \in 0..999
      BY <2>3
    <3> QED BY <3>1 DEF Trim
  <2> QED BY <2>1, <2>2, <2>4
<1>2. ASSUME NEW d, NEW k \in DOMAIN FlagDefault(d), NEW x \in {0, 1}, SetDeviceFlag(d, k, x)
      PROVE  ConfigOK(mem')
  <2>1. k # "stick_formula" /\ x \in Number
    BY <1>0 DEF FlagDefault
  <2> QED BY <1>2, <2>1, SetDeviceOK, ZenonT(40) DEF SetDeviceFlag, EditDevice, SetFlag
<1>3. ASSUME NEW d, NEW x \in {0, 1}, SetMouseFlag(d, x) PROVE ConfigOK(mem')
  <2>1. x \in Number
    BY <1>0
  <2> QED BY <1>3, <2>1, SetDeviceOK, ZenonT(40) DEF SetMouseFlag, EditDevice, SetFlag
<1>4. ASSUME NEW d, NEW x \in Values, SetStickNumber(d, x) PROVE ConfigOK(mem')
  <2>1. x \in Number
    BY <1>0
  <2> QED BY <1>4, <2>1, SetDeviceOK DEF SetStickNumber, EditDevice, SetNumber
<1>5. ASSUME NEW d, NEW x \in Formulas, SetStickFormula(d, x) PROVE ConfigOK(mem')
  <2> DEFINE y == Trim(x)
  <2>1. y \in Number /\ y \in 0..999
    BY <1>0
  <2> QED BY <1>5, <2>1, SetDeviceOK, ZenonT(40) DEF SetStickFormula, EditDevice, SetFormula
<1>6. ASSUME NEW d, ResetStickFormula(d) PROVE ConfigOK(mem')
  <2> DEFINE y == Trim(OtherDefault.stick_formula)
  <2>1. y \in 0..999
    BY DEF Trim, OtherDefault
  <2>2. y \in Number
    <3> HIDE DEF y
    <3> QED BY <2>1, <1>0
  <2> QED BY <1>6, <2>1, <2>2, SetDeviceOK, ZenonT(40) DEF ResetStickFormula, EditDevice, SetFormula
<1>7. ASSUME NEW connected, EraseNotConnectedDevices(connected) PROVE ConfigOK(mem')
  <2> DEFINE p == Selected(mem)
             s == p.devices
             I == {i \in DOMAIN s : s[i].id \in connected \/ DeviceJsonEmpty(DeviceToJson(s[i]))}
             t == AtIndexes(s, I)
  <2>1. EditProfile([p EXCEPT !.devices = t])
    BY <1>7 DEF EraseNotConnectedDevices, erase_not_connected_devices, FilterIndexes
  <2>2. ProfileOK(p)
    BY SelectedOK
  <2> HIDE DEF p
  <2>3. PICK S : s \in Seq(S) /\ \A e \in S : DeviceOK(e)
    BY <2>2 DEF ProfileOK, DevicesOK
  <2> HIDE DEF s
  <2>4. I \in SUBSET DOMAIN s
    OBVIOUS
  <2> HIDE DEF I
  <2>5. t \in Seq(S)
    BY <2>3, <2>4, AtIndexesType
  <2> HIDE DEF t
  <2>6. DevicesOK(t)
    BY <2>3, <2>5 DEF DevicesOK
  <2>7. ProfileOK([p EXCEPT !.devices = t])
    BY <2>2, <2>6, ProfileDevices
  <2> QED BY <2>1, <2>7, EditProfileOK
<1> QED BY <1>1, <1>2, <1>3, <1>4, <1>5, <1>6, <1>7 DEF DeviceEdit

-----------------------------------------------------------------------------
(* The theorems.                                                           *)

\* What is on disk at the start, a user's file, is loaded.
LEMMA InitOK == Init => IInv
<1> SUFFICES ASSUME Init PROVE IInv
  OBVIOUS
<1>1. FileOK(file)
  BY ConfigurationAssumption DEF Init
<1>2. ConfigOK(Load(file))
  BY <1>1, LoadOK
<1> QED BY <1>1, <1>2 DEF Init, IInv

\* Every step keeps the configuration and the file in order.
LEMMA NextOK == IInv /\ [Next]_vars => IInv'
<1> SUFFICES ASSUME IInv, [Next]_vars PROVE IInv'
  OBVIOUS
<1>0. ConfigOK(mem) /\ FileOK(file)
  BY DEF IInv
<1>1. ASSUME ConfigOK(mem'), UNCHANGED file PROVE IInv'
  BY <1>0, <1>1 DEF IInv
<1>2. CASE WindowEdit
  <2>1. UNCHANGED file
    BY <1>2 DEF WindowEdit, SetGlobal, SetMachineSpecific, PushBackProfile, SetProfileName,
                SelectProfile, EraseProfile, DuplicateProfile, MoveProfile, Edit
  <2> QED BY <1>0, <1>1, <1>2, <2>1, WindowEditOK
<1>3. CASE ProfileEdit
  <2>1. UNCHANGED file
    BY <1>3 DEF ProfileEdit, SetParameter, SetKeyboard, SetComplexParameter, PushBackSimple,
                EraseSimple, ReplaceSimple, ReplaceFn, EraseRule, MoveRule, SetRuleEnabled,
                ReplaceRule, PushFrontRule, EditRules, EditPairs, EditDevice, EditProfile, Edit
  <2> QED BY <1>0, <1>1, <1>3, <2>1, ProfileEditOK
<1>4. CASE DeviceEdit
  <2>1. UNCHANGED file
    BY <1>4 DEF DeviceEdit, LookAtDevice, SetDeviceFlag, SetMouseFlag, SetStickNumber,
                SetStickFormula, ResetStickFormula, EraseNotConnectedDevices, EditDevice,
                EditProfile, Edit
  <2> QED BY <1>0, <1>1, <1>4, <2>1, DeviceEditOK
<1>5. CASE Save
  <2>1. FileOK(FileOf(ToJson(mem)))
    BY <1>0, SaveOK
  <2> QED BY <1>0, <1>5, <2>1 DEF Save, IInv
<1>6. CASE \E f \in Files : EditByHand(f)
  <2>1. PICK f \in Files : EditByHand(f)
    BY <1>6
  <2>2. FileOK(f)
    BY ConfigurationAssumption
  <2> QED BY <1>0, <2>1, <2>2 DEF EditByHand, IInv
<1>7. CASE ReadFile
  <2>1. ConfigOK(Load(file))
    BY <1>0, LoadOK
  <2> QED BY <1>0, <1>7, <2>1 DEF ReadFile, IInv
<1>8. CASE UNCHANGED vars
  BY <1>0, <1>8 DEF vars, IInv
<1> QED BY <1>2, <1>3, <1>4, <1>5, <1>6, <1>7, <1>8 DEF Next

\* Whatever is loaded, edited and saved: every profile in memory has its parameters
\* in range and no device that disables itself, and the file on disk can be loaded.
THEOREM Inductive == Spec => []IInv
<1>1. Init => IInv
  BY InitOK
<1>2. IInv /\ [Next]_vars => IInv'
  BY NextOK
<1> QED BY <1>1, <1>2, PTL DEF Spec

\* get_selected_profile always finds a profile, and the parameters of complex
\* modifications are in range.
THEOREM WellFormedTheorem == Spec => []WellFormed
<1>1. IInv => WellFormed
  <2> SUFFICES ASSUME IInv PROVE WellFormed
    OBVIOUS
  <2>1. PICK S : mem.profiles \in Seq(S) /\ \A p \in S : ProfileOK(p)
    BY DEF IInv, ConfigOK, ProfilesOK
  <2>2. mem.profiles # <<>>
    BY DEF IInv, ConfigOK, ProfilesOK
  <2>3. ASSUME NEW i \in DOMAIN mem.profiles
        PROVE  InRange(mem.profiles[i].complex)
    <3> DEFINE c == mem.profiles[i].complex
    <3>1. c \in Complex
      BY <2>1 DEF ProfileOK
    <3> HIDE DEF c
    <3>2. InRange(c)
      BY <3>1 DEF Complex, InRange
    <3> QED BY <3>2 DEF c
  <2> QED BY <2>2, <2>3 DEF WellFormed
<1> QED BY <1>1, Inductive, PTL

\* No device of any profile both stands in for the built-in keyboard and
\* disables it.
THEOREM NoAlwaysDisabledTheorem == Spec => []NoAlwaysDisabledDevice
<1>1. IInv => NoAlwaysDisabledDevice
  <2> SUFFICES ASSUME IInv, NEW i \in DOMAIN mem.profiles,
                      NEW d \in ToSet(mem.profiles[i].devices)
               PROVE  ~(/\ d.v.treat_as_built_in_keyboard = 1
                        /\ d.v.disable_built_in_keyboard_if_exists = 1)
    BY DEF NoAlwaysDisabledDevice
  <2>1. PICK S : mem.profiles \in Seq(S) /\ \A p \in S : ProfileOK(p)
    BY DEF IInv, ConfigOK, ProfilesOK
  <2>2. DevicesOK(mem.profiles[i].devices)
    BY <2>1 DEF ProfileOK
  <2> DEFINE s == mem.profiles[i].devices
  <2>3. PICK n \in DOMAIN s : d = s[n]
    BY DEF ToSet
  <2>4. DeviceOK(d)
    <3> HIDE DEF s
    <3>1. DevicesOK(s)
      BY <2>2 DEF s
    <3>2. DeviceOK(s[n])
      BY <3>1, DeviceOf
    <3> QED BY <2>3, <3>2
  <2>5. FlagsOK(d.v)
    BY <2>4 DEF DeviceOK
  <2> QED BY <2>5 DEF FlagsOK
<1> QED BY <1>1, Inductive, PTL

-----------------------------------------------------------------------------
(* Looking at a device.                                                    *)

\* Pairs that were never set leave nothing to save.
LEMMA NoPairs == PairsToJson(HandleJson(<<>>, <<>>), <<>>) = <<>>
<1> DEFINE all == <<>> \o <<>>
           I == {i \in DOMAIN all : \A j \in i+1..Len(all) : all[j].from # all[i].from}
           last == AtIndexes(all, I)
           F == {p.from : p \in ToSet(last)}
           pairs == HandleJson(<<>>, <<>>)
<1>1. all = <<>>
  BY ConcatEmptySeq, EmptySeq
<1>2. I = {}
  BY <1>1
<1>3. last = <<>>
  <2> HIDE DEF I, all
  <2> QED BY <1>2, AtNoIndex
<1>4. F = {}
  <2>1. ToSet(last) = {}
    <3> HIDE DEF last
    <3> QED BY <1>3 DEF ToSet
  <2> HIDE DEF last
  <2> QED BY <2>1
<1>5. pairs = [n \in DOMAIN Ranked(F) |-> CHOOSE p \in ToSet(last) : p.from = Ranked(F)[n]]
  BY DEF HandleJson, FilterIndexes
<1>6. DOMAIN pairs = {}
  <2>1. DOMAIN pairs = DOMAIN Ranked(F)
    BY <1>5
  <2> HIDE DEF F, pairs
  <2>2. Ranked(F) = <<>>
    BY <1>4, AtNoIndex
  <2> QED BY <2>1, <2>2
<1> HIDE DEF pairs
<1> DEFINE K == {i \in DOMAIN pairs :
                   /\ pairs[i].from # 0 /\ pairs[i].to # 0
                   /\ ~\E j \in 1..i-1 : pairs[j].from = pairs[i].from /\ pairs[j].to # 0
                   /\ pairs[i] \notin ToSet(<<>>)}
<1>7. PairsToJson(pairs, <<>>) = AtIndexes(pairs, K)
  BY DEF PairsToJson, FilterIndexes
<1>8. K = {}
  BY <1>6
<1> HIDE DEF K
<1> QED BY <1>7, <1>8, AtNoIndex DEF pairs

\* Neither does the function key a device starts with, which has no to.
LEMMA NoFunctionKeys == PairsToJson(HandleJson(DeviceFnKeys, <<>>), DeviceFnKeys) = <<>>
<1> DEFINE r == [from |-> 1, to |-> 0]
           all == DeviceFnKeys \o <<>>
           I == {i \in DOMAIN all : \A j \in i+1..Len(all) : all[j].from # all[i].from}
           last == AtIndexes(all, I)
           F == {p.from : p \in ToSet(last)}
           pairs == HandleJson(DeviceFnKeys, <<>>)
<1>0. r.from = 1 /\ r.to = 0
  OBVIOUS
<1>1. pairs = [n \in DOMAIN Ranked(F) |-> CHOOSE p \in ToSet(last) : p.from = Ranked(F)[n]]
  BY DEF HandleJson, FilterIndexes
<1>2. DeviceFnKeys = <<r>>
  BY DEF DeviceFnKeys
<1> HIDE DEF r
<1>3. all \in Seq({r})
  <2>1. <<r>> \in Seq({r})
    OBVIOUS
  <2> QED BY <1>2, <2>1, EmptySeq, ConcatProperties
<1>4. I \in SUBSET DOMAIN all
  OBVIOUS
<1>5. ToSet(last) \in SUBSET {r}
  <2> HIDE DEF I, all
  <2>1. last \in Seq({r})
    BY <1>3, <1>4, AtIndexesType
  <2> HIDE DEF last
  <2> QED BY <2>1 DEF ToSet
<1> HIDE DEF last
<1>6. F \in SUBSET (1..1)
  BY <1>0, <1>5
<1>7. ASSUME NEW n \in DOMAIN pairs PROVE pairs[n] = r
  <2>1. /\ DOMAIN pairs = DOMAIN Ranked(F)
        /\ pairs[n] = CHOOSE p \in ToSet(last) : p.from = Ranked(F)[n]
    BY <1>1
  <2>2. Ranked(F)[n] \in F
    <3> HIDE DEF F, pairs
    <3> QED BY <1>6, <2>1, RankedType
  <2>3. \E p \in ToSet(last) : p.from = Ranked(F)[n]
    BY <2>2
  <2>4. pairs[n] \in ToSet(last)
    <3> HIDE DEF F, pairs
    <3> QED BY <2>1, <2>3
  <2> QED BY <1>5, <2>4
<1> HIDE DEF pairs
<1> DEFINE K == {i \in DOMAIN pairs :
                   /\ pairs[i].from # 0 /\ pairs[i].to # 0
                   /\ ~\E j \in 1..i-1 : pairs[j].from = pairs[i].from /\ pairs[j].to # 0
                   /\ pairs[i] \notin ToSet(DeviceFnKeys)}
<1>8. PairsToJson(pairs, DeviceFnKeys) = AtIndexes(pairs, K)
  BY DEF PairsToJson, FilterIndexes
<1>9. K = {}
  BY <1>0, <1>7
<1> HIDE DEF K
<1> QED BY <1>8, <1>9, AtNoIndex DEF pairs

\* A device that was only looked at has nothing to save.
LEMMA NewDeviceEmpty ==
  ASSUME NEW d
  PROVE  DeviceJsonEmpty(DeviceToJson(NewDevice(d)))
<1> DEFINE D == DeviceDefault(d)
           u == UpdateValue(D, OnFormula(NoKeys, UnmarshalString))
           e == NewDevice(d)
<1>1. /\ e.id = d /\ e.v = CoordinateBetweenProperties(u)
      /\ e.simple = HandleJson(<<>>, <<>>) /\ e.fn = HandleJson(DeviceFnKeys, <<>>)
      /\ e.extra = Extra(NoKeys, D)
  BY DEF NewDevice, LoadDevice
<1>2. D = [k \in DOMAIN D |-> D[k]] /\ D.treat_as_built_in_keyboard = 0
  BY DEF DeviceDefault, FlagDefault
<1>3. DOMAIN OnFormula(NoKeys, UnmarshalString) = {}
  BY DEF OnFormula, NoKeys
<1> DEFINE none == OnFormula(NoKeys, UnmarshalString)
<1>4. u = [k \in DOMAIN D |-> IF k \in DOMAIN none /\ none[k] # Bad THEN none[k] ELSE D[k]]
  BY DEF UpdateValue
<1> HIDE DEF D, none
<1>5. u = D
  BY <1>2, <1>3, <1>4 DEF none
<1> HIDE DEF u
<1>6. e.v = D
  BY <1>1, <1>2, <1>5 DEF CoordinateBetweenProperties
<1>7. e.extra = NoKeys
  BY <1>1 DEF Extra, NoKeys
<1> HIDE DEF e
<1> DEFINE j == DeviceToJson(e)
<1>8. /\ j.vals = OnFormula(UpdateJson(NoKeys, D, D), MarshalString)
      /\ j.simple = PairsToJson(e.simple, <<>>) /\ j.fn = PairsToJson(e.fn, DeviceFnKeys)
  BY <1>1, <1>6, <1>7 DEF DeviceToJson, D
<1>9. UpdateJson(NoKeys, D, D) = NoKeys
  BY DEF UpdateJson, NoKeys
<1>10. j.vals = NoKeys
  BY <1>8, <1>9 DEF OnFormula, NoKeys
<1>11. j.simple = <<>> /\ j.fn = <<>>
  BY <1>1, <1>8, NoPairs, NoFunctionKeys
<1> HIDE DEF j
<1>12. DeviceJsonEmpty(j)
  BY <1>10, <1>11 DEF DeviceJsonEmpty
<1> QED BY <1>12 DEF j, e

\* Looking a device up does not change what the profile is saved as.
LEMMA GetDeviceSaves ==
  ASSUME NEW p, ProfileOK(p), NEW d
  PROVE  ProfileToJson(get_device(p, d)) = ProfileToJson(p)
<1> DEFINE q == get_device(p, d)
<1>1. CASE \E i \in DOMAIN p.devices : p.devices[i].id = d
  BY <1>1 DEF get_device
<1>2. CASE ~\E i \in DOMAIN p.devices : p.devices[i].id = d
  <2> DEFINE e == NewDevice(d)
             s == p.devices
             t == Append(s, e)
  <2>1. q = [p EXCEPT !.devices = t]
    BY <1>2 DEF get_device
  <2>2. /\ q.devices = t /\ q.v = p.v /\ q.parameters = p.parameters
        /\ q.keyboard = p.keyboard /\ q.simple = p.simple /\ q.fn = p.fn
        /\ q.complex = p.complex /\ q.rules = p.rules /\ q.extra = p.extra
    <3> HIDE DEF t, q
    <3> QED BY <2>1 DEF ProfileOK
  <2>3. DeviceJsonEmpty(DeviceToJson(e))
    BY NewDeviceEmpty
  <2>4. PICK S : s \in Seq(S)
    BY DEF ProfileOK, DevicesOK
  <2> HIDE DEF e, s
  <2>5. /\ Len(s) \in Nat /\ DOMAIN s = 1..Len(s) /\ DOMAIN t = 1..Len(s) + 1
        /\ t[Len(s) + 1] = e /\ \A i \in 1..Len(s) : t[i] = s[i]
    <3> DEFINE T == S \cup {e}
    <3>1. s \in Seq(T) /\ e \in T
      BY <2>4
    <3> HIDE DEF T
    <3> QED BY <3>1
  <2> HIDE DEF t
  <2> DEFINE a == [i \in DOMAIN s |-> DeviceToJson(s[i])]
             b == [i \in DOMAIN t |-> DeviceToJson(t[i])]
             I == {i \in DOMAIN a : ~DeviceJsonEmpty(a[i])}
             J == {i \in DOMAIN b : ~DeviceJsonEmpty(b[i])}
  <2>6. DOMAIN a = 1..Len(s) /\ \A i \in 1..Len(s) : b[i] = a[i]
    BY <2>5
  <2>7. DOMAIN b = 1..Len(s) + 1 /\ DeviceJsonEmpty(b[Len(s) + 1])
    BY <2>3, <2>5
  <2>8. /\ NonEmpty(a, DeviceJsonEmpty) = AtIndexes(a, I)
        /\ NonEmpty(b, DeviceJsonEmpty) = AtIndexes(b, J)
    BY DEF NonEmpty, FilterIndexes
  <2> HIDE DEF a, b
  <2>9. I = J /\ I \in SUBSET (1..Len(s))
    <3>1. \A i : i \in 1..Len(s) + 1 <=> i \in 1..Len(s) \/ i = Len(s) + 1
      BY <2>5
    <3> QED BY <2>6, <2>7, <3>1
  <2>10. \A i \in I : a[i] = b[i]
    BY <2>6, <2>9
  <2> HIDE DEF I, J
  <2>11. AtIndexes(a, I) = AtIndexes(b, J)
    BY <2>5, <2>9, <2>10, AtIndexesSame
  <2>12. NonEmpty(b, DeviceJsonEmpty) = NonEmpty(a, DeviceJsonEmpty)
    BY <2>8, <2>11
  <2> HIDE DEF q
  <2>13. /\ ProfileToJson(q).devices = NonEmpty(b, DeviceJsonEmpty)
         /\ ProfileToJson(p).devices = NonEmpty(a, DeviceJsonEmpty)
    BY <2>2 DEF ProfileToJson, a, b, s
  <2>14. \A x : ProfileToJson(x) =
           [vals |-> UpdateJson(x.extra, x.v, ProfileDefault),
            parameters |-> ParametersToJson(x.parameters),
            keyboard |-> KeyboardToJson(x.keyboard),
            devices |-> ProfileToJson(x).devices,
            simple |-> PairsToJson(x.simple, <<>>),
            fn |-> PairsToJson(x.fn, ProfileFnKeys),
            complex |-> UpdateJson(NoKeys, x.complex, ComplexDefault),
            rules |-> [i \in DOMAIN x.rules |-> RuleJson(x.rules[i].body, x.rules[i].enabled)]]
    BY DEF ProfileToJson
  <2>15. ProfileToJson(q) = ProfileToJson(p)
    BY <2>2, <2>12, <2>13, <2>14
  <2> QED BY <2>15 DEF q
<1> QED BY <1>1, <1>2

\* Showing a device adds it to devices_, and yet the saved file is the same.
THEOREM LookingTheorem == Spec => LookingChangesNothing
<1> DEFINE A == (\E d \in Devices : LookAtDevice(d)) => ToJson(mem') = ToJson(mem)
<1>1. IInv /\ [Next]_vars => [A]_vars
  <2> SUFFICES ASSUME IInv, NEW d \in Devices, LookAtDevice(d)
               PROVE  ToJson(mem') = ToJson(mem)
    OBVIOUS
  <2> DEFINE p == Selected(mem)
             q == get_device(p, d)
             i == DeviceIndex(q, d)
             k == SelectedIndex(mem)
  <2>1. k \in DOMAIN mem.profiles /\ ProfileOK(p) /\ p = mem.profiles[k]
    BY SelectedOK DEF IInv, Selected
  <2>2. ProfileOK(q) /\ i \in DOMAIN q.devices /\ ProfileToJson(q) = ProfileToJson(p)
    BY <2>1, GetDeviceOK, GetDeviceSaves
  <2>3. mem' = [mem EXCEPT !.profiles[k] = [q EXCEPT !.devices[i] = q.devices[i]]]
    BY DEF LookAtDevice, EditDevice, EditProfile, Edit
  <2> HIDE DEF p, q, i, k
  <2>4. [q EXCEPT !.devices[i] = q.devices[i]] = q
    <3>1. PICK S : q.devices \in Seq(S)
      BY <2>2 DEF ProfileOK, DevicesOK
    <3> DEFINE ds == q.devices
    <3>2. [ds EXCEPT ![i] = ds[i]] = ds
      BY <2>2, <3>1
    <3>3. [q EXCEPT !.devices = ds] = q
      BY <2>2 DEF ProfileOK
    <3> QED BY <3>2, <3>3
  <2> DEFINE ps == mem.profiles
             n == [ps EXCEPT ![k] = q]
  <2>5. mem' = [mem EXCEPT !.profiles = n]
    BY <2>3, <2>4
  <2>6. DOMAIN n = DOMAIN ps /\ \A m \in DOMAIN ps : ProfileToJson(n[m]) = ProfileToJson(ps[m])
    BY <2>1, <2>2
  <2> HIDE DEF n, ps
  <2>7. /\ mem'.profiles = n /\ mem.profiles = ps
        /\ mem'.global = mem.global /\ mem'.machine = mem.machine /\ mem'.extra = mem.extra
    BY <2>5 DEF IInv, ConfigOK, ps
  <2>8. [m \in DOMAIN n |-> ProfileToJson(n[m])] = [m \in DOMAIN ps |-> ProfileToJson(ps[m])]
    BY <2>6
  <2> QED BY <2>7, <2>8 DEF ToJson
<1> QED BY <1>1, Inductive, PTL DEF Spec, LookingChangesNothing

-----------------------------------------------------------------------------
(* Selecting a profile.                                                    *)

\* A profile is the same after a save and a load, but for its devices and its pairs.
LEMMA ProfileReload ==
  ASSUME NEW p, ProfileOK(p)
  PROVE  LET j == ProfileToJson(p)
             q == LoadProfile(j)
         IN  /\ q.v = p.v /\ q.extra = p.extra /\ q.rules = p.rules
             /\ q.parameters = p.parameters /\ q.keyboard = p.keyboard /\ q.complex = p.complex
             /\ q.devices = [i \in DOMAIN j.devices |-> LoadDevice(j.devices[i])]
             /\ q.simple = HandleJson(<<>>, PairsToJson(p.simple, <<>>))
             /\ q.fn = HandleJson(ProfileFnKeys, PairsToJson(p.fn, ProfileFnKeys))
<1> DEFINE j == ProfileToJson(p)
           q == LoadProfile(j)
           vals == UpdateJson(p.extra, p.v, ProfileDefault)
           rs == [i \in DOMAIN p.rules |-> RuleJson(p.rules[i].body, p.rules[i].enabled)]
           c == UpdateValue(ComplexDefault, UpdateJson(NoKeys, p.complex, ComplexDefault))
<1>1. /\ j.vals = vals /\ j.rules = rs
      /\ j.parameters = UpdateJson(NoKeys, p.parameters, ParameterDefault)
      /\ j.keyboard = UpdateJson(NoKeys, p.keyboard, KeyboardDefault)
      /\ j.complex = UpdateJson(NoKeys, p.complex, ComplexDefault)
      /\ j.simple = PairsToJson(p.simple, <<>>) /\ j.fn = PairsToJson(p.fn, ProfileFnKeys)
  BY DEF ProfileToJson, ParametersToJson, KeyboardToJson
<1> HIDE DEF j
<1>2. /\ q.v = UpdateValue(ProfileDefault, j.vals) /\ q.extra = Extra(j.vals, ProfileDefault)
      /\ q.rules = [i \in DOMAIN j.rules |-> LoadRule(j.rules[i])]
      /\ q.parameters = UpdateValue(ParameterDefault, j.parameters)
      /\ q.keyboard = UpdateValue(KeyboardDefault, j.keyboard)
      /\ q.complex = AdjustValues(UpdateValue(ComplexDefault, j.complex))
      /\ q.devices = [i \in DOMAIN j.devices |-> LoadDevice(j.devices[i])]
      /\ q.simple = HandleJson(<<>>, j.simple) /\ q.fn = HandleJson(ProfileFnKeys, j.fn)
  BY DEF LoadProfile, LoadParameters, LoadKeyboard
<1> HIDE DEF q
<1>3. q.v = p.v /\ q.extra = p.extra
  <2> DEFINE v == p.v
             x == p.extra
  <2>1. ValsOK(v) /\ Unregistered(x, ProfileDefault)
    BY DEF ProfileOK, ExtraOK
  <2> HIDE DEF v, x
  <2>2. Registered(v, ProfileDefault)
    <3>1. /\ v = [k \in {"name", "selected"} |-> v[k]]
          /\ v["name"] \in Nat /\ v["selected"] \in Nat
      BY <2>1 DEF ValsOK
    <3>2. DOMAIN ProfileDefault = {"name", "selected"}
      BY DEF ProfileDefault
    <3> QED BY <3>1, <3>2, NotBad DEF Registered
  <2>3. /\ UpdateValue(ProfileDefault, UpdateJson(x, v, ProfileDefault)) = v
        /\ Extra(UpdateJson(x, v, ProfileDefault), ProfileDefault) = x
    BY <2>1, <2>2, ReloadValues
  <2> QED BY <1>1, <1>2, <2>3 DEF v, x
<1>4. q.parameters = p.parameters /\ q.keyboard = p.keyboard
  <2>1. Registered(p.parameters, ParameterDefault) /\ Registered(p.keyboard, KeyboardDefault)
    BY DEF ProfileOK
  <2> QED BY <1>1, <1>2, <2>1, ReloadPlain
<1>5. q.complex = p.complex
  <2> DEFINE x == p.complex
             s == x.simultaneous
             t == x.speed
  <2>1. x \in Complex
    BY DEF ProfileOK
  <2> HIDE DEF x
  <2>2. /\ x = [simultaneous |-> s, speed |-> t] /\ s \in SimultaneousRange /\ t \in SpeedRange
        /\ x = [k \in {"simultaneous", "speed"} |-> x[k]]
    BY <2>1 DEF Complex
  <2> HIDE DEF s, t
  <2>3. s \in Nat /\ t \in Nat /\ x["simultaneous"] = s /\ x["speed"] = t
    BY <2>2, SimultaneousClamped, SpeedClamped
  <2>4. DOMAIN ComplexDefault = {"simultaneous", "speed"}
    BY DEF ComplexDefault
  <2>5. Registered(x, ComplexDefault)
    BY <2>2, <2>3, <2>4, NotBad DEF Registered
  <2>6. UpdateValue(ComplexDefault, UpdateJson(NoKeys, x, ComplexDefault)) = x
    BY <2>5, ReloadPlain
  <2>7. Clamp(s, 0, 1000) = s /\ Clamp(t, 1, 10000) = t
    BY <2>2, SimultaneousClamped, SpeedClamped
  <2>8. AdjustValues(x) = x
    BY <2>2, <2>3, <2>7 DEF AdjustValues
  <2> QED BY <1>1, <1>2, <2>6, <2>8 DEF x
<1>6. q.rules = p.rules
  <2> DEFINE s == p.rules
  <2>1. PICK S : s \in Seq(S) /\ \A r \in S : RuleOK(r)
    BY DEF ProfileOK, RulesOK
  <2>2. s = [i \in DOMAIN s |-> s[i]] /\ \A i \in DOMAIN s : RuleOK(s[i])
    BY <2>1
  <2>3. q.rules = [i \in DOMAIN s |-> LoadRule(RuleJson(s[i].body, s[i].enabled))]
    BY <1>1, <1>2
  <2> HIDE DEF s
  <2>4. ASSUME NEW r, RuleOK(r) PROVE LoadRule(RuleJson(r.body, r.enabled)) = r
    BY <2>4 DEF RuleOK, LoadRule, RuleJson
  <2> QED BY <2>2, <2>3, <2>4 DEF s
<1> QED BY <1>1, <1>2, <1>3, <1>4, <1>5, <1>6 DEF q, j

\* A selected profile is never left out of the file.
LEMMA SelectedSaved ==
  ASSUME NEW p, ProfileOK(p), p.v.selected = 1
  PROVE  ~ProfileJsonEmpty(ProfileToJson(p))
<1>1. "selected" \in DOMAIN p.v /\ ProfileDefault.selected = 0
  BY DEF ProfileOK, ValsOK, ProfileDefault
<1>2. "selected" \in DOMAIN UpdateJson(p.extra, p.v, ProfileDefault)
  BY <1>1 DEF UpdateJson
<1>3. ProfileToJson(p).vals = UpdateJson(p.extra, p.v, ProfileDefault)
  BY DEF ProfileToJson
<1>4. EmptyProfileJson.vals = NoKeys /\ DOMAIN NoKeys = {}
  BY DEF EmptyProfileJson, NoKeys
<1> QED BY <1>2, <1>3, <1>4 DEF ProfileJsonEmpty

\* Elements that are picked keep their order.
LEMMA PickedFrom ==
  ASSUME NEW A, NEW a \in Seq(A), NEW I \in SUBSET DOMAIN a
  PROVE  LET s == AtIndexes(a, I)
             R == Ranked(I)
         IN  /\ s \in Seq(A) /\ DOMAIN s = DOMAIN R
             /\ \A n \in DOMAIN s : R[n] \in I /\ s[n] = a[R[n]]
             /\ \A i \in I : \E n \in DOMAIN s : R[n] = i
             /\ \A m, n \in DOMAIN s : m < n => R[m] < R[n]
<1> DEFINE s == AtIndexes(a, I)
           R == Ranked(I)
<1>1. Len(a) \in Nat /\ DOMAIN a = 1..Len(a)
  OBVIOUS
<1>2. I \in SUBSET (1..Len(a)) /\ I \in SUBSET Nat
  BY <1>1
<1>3. IsFiniteSet(I)
  BY <1>1, <1>2, IndexesFinite
<1>4. /\ \A n \in DOMAIN R : R[n] \in I
      /\ \A i \in I : \E n \in DOMAIN R : R[n] = i
      /\ \A m, n \in DOMAIN R : m < n => R[m] < R[n]
  BY <1>2, <1>3, RankedFinite
<1>5. s = [n \in DOMAIN R |-> a[R[n]]]
  BY DEF AtIndexes
<1>6. s \in Seq(A)
  BY AtIndexesType
<1> HIDE DEF R, s
<1>7. DOMAIN s = DOMAIN R /\ \A n \in DOMAIN R : s[n] = a[R[n]]
  BY <1>5
<1> QED BY <1>4, <1>6, <1>7 DEF R, s

\* The profiles that are saved: those with any json, in their order.
SavedIndexes(c) ==
  {i \in DOMAIN c.profiles : ~ProfileJsonEmpty(ProfileToJson(c.profiles[i]))}

\* What a configuration is saved as.
LEMMA SavedProfiles ==
  ASSUME NEW c, ConfigOK(c)
  PROVE  LET js == ToJson(c).profiles
             R == Ranked(SavedIndexes(c))
         IN  /\ \E A : js \in Seq(A)
             /\ DOMAIN js = DOMAIN R
             /\ \A n \in DOMAIN js : /\ R[n] \in SavedIndexes(c)
                                     /\ js[n] = ProfileToJson(c.profiles[R[n]])
                                     /\ ~ProfileJsonEmpty(js[n])
                                     /\ ProfileLoads(js[n])
             /\ \A i \in SavedIndexes(c) : \E n \in DOMAIN js : R[n] = i
             /\ \A m, n \in DOMAIN js : m < n => R[m] < R[n]
<1> DEFINE ps == c.profiles
           a == [m \in DOMAIN ps |-> ProfileToJson(ps[m])]
           A == {ProfileToJson(ps[m]) : m \in DOMAIN ps}
           I == {m \in DOMAIN a : ~ProfileJsonEmpty(a[m])}
           js == AtIndexes(a, I)
           R == Ranked(SavedIndexes(c))
<1>1. PICK S : ps \in Seq(S) /\ \A p \in S : ProfileOK(p)
  BY DEF ConfigOK, ProfilesOK
<1>2. Len(ps) \in Nat /\ DOMAIN ps = 1..Len(ps) /\ \A m \in DOMAIN ps : ProfileOK(ps[m])
  BY <1>1
<1>3. ToJson(c).profiles = js
  BY DEF ToJson, NonEmpty, FilterIndexes
<1>4. a \in Seq(A) /\ DOMAIN a = DOMAIN ps /\ \A m \in DOMAIN ps : a[m] = ProfileToJson(ps[m])
  BY <1>2
<1> HIDE DEF a, A
<1>5. I = SavedIndexes(c) /\ I \in SUBSET DOMAIN a
  BY <1>4 DEF SavedIndexes
<1> HIDE DEF I
<1>6. /\ js \in Seq(A) /\ DOMAIN js = DOMAIN R
      /\ \A n \in DOMAIN js : R[n] \in I /\ js[n] = a[R[n]]
      /\ \A i \in I : \E n \in DOMAIN js : R[n] = i
      /\ \A m, n \in DOMAIN js : m < n => R[m] < R[n]
  BY <1>4, <1>5, PickedFrom
<1> HIDE DEF js, R
<1>7. ASSUME NEW n \in DOMAIN js
      PROVE  /\ R[n] \in SavedIndexes(c) /\ js[n] = ProfileToJson(ps[R[n]])
             /\ ~ProfileJsonEmpty(js[n]) /\ ProfileLoads(js[n])
  <2>1. R[n] \in DOMAIN ps /\ js[n] = ProfileToJson(ps[R[n]]) /\ R[n] \in SavedIndexes(c)
    BY <1>4, <1>5, <1>6
  <2>2. ~ProfileJsonEmpty(js[n])
    BY <2>1 DEF SavedIndexes
  <2> QED BY <1>2, <2>1, <2>2, ProfileToJsonOK
<1>8. /\ \E B : js \in Seq(B)
      /\ DOMAIN js = DOMAIN R
      /\ \A i \in SavedIndexes(c) : \E n \in DOMAIN js : R[n] = i
      /\ \A m, n \in DOMAIN js : m < n => R[m] < R[n]
  BY <1>5, <1>6
<1> QED BY <1>3, <1>7, <1>8 DEF R

\* What is loaded from it: the global values, and the profiles that were saved or
\* the fallback.
LEMMA ReloadConfig ==
  ASSUME NEW c, ConfigOK(c)
  PROVE  LET js == ToJson(c).profiles
             r == Reloaded(c)
         IN  /\ r.global = c.global /\ r.extra = c.extra
             /\ r.machine = LoadMachine(MachineToJson(c.machine))
             /\ r.profiles = WithFallback([n \in DOMAIN js |-> LoadProfile(js[n])])
             /\ js # <<>> => r.profiles = [n \in DOMAIN js |-> LoadProfile(js[n])]
<1> DEFINE js == ToJson(c).profiles
           g == UpdateJson(c.extra, c.global, GlobalDefault)
           f == FileOf(ToJson(c))
           r == Reloaded(c)
           L == [n \in DOMAIN js |-> LoadProfile(js[n])]
<1>1. /\ f.readable = TRUE /\ f.json.profiles = js /\ f.json.global = g
      /\ f.json.machine = MachineToJson(c.machine)
  BY DEF FileOf, ToJson, GlobalToJson
<1>2. r = Load(f)
  BY DEF Reloaded
<1>3. (\E A : js \in Seq(A)) /\ \A n \in DOMAIN js : ProfileLoads(js[n])
  BY SavedProfiles
<1> HIDE DEF js, g, f, r
<1>4. LoadedPrefix(js) = js
  <2>1. {t \in DOMAIN js : ~ProfileLoads(js[t])} = {}
    BY <1>3
  <2> QED BY <2>1 DEF LoadedPrefix
<1>5. /\ r.global = UpdateValue(GlobalDefault, g) /\ r.extra = Extra(g, GlobalDefault)
      /\ r.machine = LoadMachine(MachineToJson(c.machine))
      /\ r.profiles = WithFallback(L)
  BY <1>1, <1>2, <1>4 DEF Load, LoadGlobal
<1>6. r.global = c.global /\ r.extra = c.extra
  BY <1>5, ReloadValues DEF g, ConfigOK
<1>7. ASSUME js # <<>> PROVE r.profiles = L
  <2>1. DOMAIN js # {}
    BY <1>3, <1>7
  <2>2. DOMAIN L = DOMAIN js
    OBVIOUS
  <2> HIDE DEF L
  <2>3. L # <<>>
    BY <2>1, <2>2
  <2> QED BY <1>5, <2>3 DEF WithFallback
<1> QED BY <1>5, <1>6, <1>7 DEF js, r

\* The selected profile is found again when it was saved.
LEMMA ReloadSelected ==
  ASSUME NEW c, ConfigOK(c), ~ProfileJsonEmpty(ProfileToJson(Selected(c)))
  PROVE  Selected(Reloaded(c)) = LoadProfile(ProfileToJson(Selected(c)))
<1> DEFINE ps == c.profiles
           i == SelectedIndex(c)
           I == SavedIndexes(c)
           R == Ranked(I)
           js == ToJson(c).profiles
           r == Reloaded(c)
           L == [n \in DOMAIN js |-> LoadProfile(js[n])]
           s == {m \in DOMAIN ps : ps[m].v.selected = 1}
           K == {t \in DOMAIN r.profiles : r.profiles[t].v.selected = 1}
<1>1. PICK S : ps \in Seq(S) /\ \A p \in S : ProfileOK(p)
  BY DEF ConfigOK, ProfilesOK
<1>2. Len(ps) \in Nat /\ DOMAIN ps = 1..Len(ps) /\ \A m \in DOMAIN ps : ProfileOK(ps[m])
  BY <1>1
<1>3. i \in DOMAIN ps /\ Selected(c) = ps[i]
  BY SelectedOK DEF Selected
<1>4. i \in I /\ I \in SUBSET DOMAIN ps
  BY <1>3 DEF SavedIndexes
<1>5. IF s = {} THEN i = 1 ELSE i \in s /\ \A j \in s : i <= j
  <2>1. CASE s = {}
    BY <2>1 DEF SelectedIndex
  <2>2. CASE s # {}
    <3>1. s \in SUBSET Nat
      BY <1>2
    <3>2. i = CHOOSE m \in s : \A j \in s : m <= j
      BY <2>2 DEF SelectedIndex
    <3> HIDE DEF s, i
    <3>3. \E m \in s : \A j \in s : m <= j
      BY <2>2, <3>1, Smallest
    <3> QED BY <2>2, <3>2, <3>3
  <2> QED BY <2>1, <2>2
<1>6. /\ \E A : js \in Seq(A)
      /\ \A n \in DOMAIN js : R[n] \in I /\ js[n] = ProfileToJson(ps[R[n]])
      /\ \A m \in I : \E n \in DOMAIN js : R[n] = m
      /\ \A m, n \in DOMAIN js : m < n => R[m] < R[n]
  BY SavedProfiles
<1>7. Len(js) \in Nat /\ DOMAIN js = 1..Len(js)
  BY <1>6
<1> HIDE DEF i, I, R, js
<1>8. PICK k \in DOMAIN js : R[k] = i
  BY <1>4, <1>6
<1>9. js # <<>>
  BY <1>8
<1>10. r.profiles = L
  BY <1>9, ReloadConfig DEF js
<1>11. /\ DOMAIN L = DOMAIN js
       /\ \A n \in DOMAIN js : L[n] = LoadProfile(ProfileToJson(ps[R[n]]))
  BY <1>6
<1> HIDE DEF L, r
<1>12. \A n \in DOMAIN js : n \in K <=> R[n] \in s
  <2> SUFFICES ASSUME NEW n \in DOMAIN js PROVE n \in K <=> R[n] \in s
    OBVIOUS
  <2> DEFINE p == ps[R[n]]
  <2>1. R[n] \in DOMAIN ps /\ ProfileOK(p)
    BY <1>2, <1>4, <1>6
  <2> HIDE DEF p
  <2>2. LoadProfile(ProfileToJson(p)).v = p.v
    BY <2>1, ProfileReload
  <2>3. r.profiles[n].v = p.v
    BY <1>10, <1>11, <2>2 DEF p
  <2> QED BY <1>10, <1>11, <2>1, <2>3 DEF p
<1>13. K \in SUBSET DOMAIN js
  BY <1>10, <1>11
<1>14. SelectedIndex(r) = IF K = {} THEN 1 ELSE CHOOSE t \in K : \A u \in K : t <= u
  BY DEF SelectedIndex
<1> HIDE DEF K, s
<1>15. SelectedIndex(r) = k
  <2>1. CASE s = {}
    <3>1. K = {}
      BY <1>12, <1>13, <2>1
    <3>2. 1 \in DOMAIN js /\ R[1] \in 1..Len(ps) /\ k \in Nat /\ k >= 1
      BY <1>2, <1>4, <1>6, <1>7, <1>8
    <3>3. ~(1 < k)
      <4>1. ~(R[1] < R[k])
        BY <1>5, <1>8, <2>1, <3>2
      <4> QED BY <1>6, <3>2, <4>1
    <3> QED BY <1>14, <3>1, <3>2, <3>3
  <2>2. CASE s # {}
    <3>1. k \in K
      BY <1>5, <1>8, <1>12, <2>2
    <3>2. ASSUME NEW u \in K PROVE k <= u
      <4>1. u \in DOMAIN js /\ R[u] \in s
        BY <1>12, <1>13
      <4>2. i <= R[u] /\ i \in Nat /\ R[u] \in Nat
        BY <1>2, <1>3, <1>4, <1>5, <1>6, <2>2, <4>1
      <4>3. ~(R[u] < R[k])
        BY <1>8, <4>2
      <4>4. ~(u < k)
        BY <1>6, <4>1, <4>3
      <4> QED BY <1>7, <4>1, <4>4
    <3>3. \A t \in K : (\A u \in K : t <= u) => t = k
      <4> SUFFICES ASSUME NEW t \in K, \A u \in K : t <= u PROVE t = k
        OBVIOUS
      <4>1. t <= k /\ k <= t /\ t \in Nat /\ k \in Nat
        BY <1>7, <1>13, <3>1, <3>2
      <4> QED BY <4>1
    <3>4. (CHOOSE t \in K : \A u \in K : t <= u) = k
      BY <3>1, <3>2, <3>3
    <3> QED BY <1>14, <3>1, <3>4
  <2> QED BY <2>1, <2>2
<1>16. Selected(r) = L[k]
  BY <1>10, <1>15 DEF Selected
<1>17. L[k] = LoadProfile(ProfileToJson(ps[i]))
  BY <1>8, <1>11
<1> QED BY <1>3, <1>16, <1>17 DEF r

\* The profile that select_profile picked is the one get_selected_profile returns,
\* with its rules, in the window and after the file is saved and read again.
THEOREM SelectTheorem == Spec => SelectTakesEffect
<1> DEFINE A == \A i \in DOMAIN mem.profiles : SelectProfile(i) =>
                  /\ SelectedIndex(mem') = i
                  /\ mem'.profiles[i].rules = mem.profiles[i].rules
                  /\ Selected(Reloaded(mem')).v = mem'.profiles[i].v
<1>1. IInv /\ IInv' /\ [Next]_vars => [A]_vars
  <2> SUFFICES ASSUME IInv, IInv', NEW i \in DOMAIN mem.profiles, SelectProfile(i)
               PROVE  /\ SelectedIndex(mem') = i
                      /\ mem'.profiles[i].rules = mem.profiles[i].rules
                      /\ Selected(Reloaded(mem')).v = mem'.profiles[i].v
    OBVIOUS
  <2> DEFINE ps == mem.profiles
             c == mem'
             p(m) == [ps[m] EXCEPT !.v.selected = IF m = i THEN 1 ELSE 0]
             n == [m \in DOMAIN ps |-> p(m)]
  <2>1. c = [mem EXCEPT !.profiles = n]
    BY DEF SelectProfile, Edit, select_profile
  <2>2. ConfigOK(mem) /\ ConfigOK(c)
    BY DEF IInv
  <2>3. c.profiles = n
    BY <2>1, <2>2 DEF ConfigOK
  <2>4. PICK S : ps \in Seq(S) /\ \A q \in S : ProfileOK(q)
    BY <2>2 DEF ConfigOK, ProfilesOK
  <2>5. ASSUME NEW m \in DOMAIN ps
        PROVE  n[m].v.selected = (IF m = i THEN 1 ELSE 0) /\ n[m].rules = ps[m].rules
    <3> DEFINE o == ps[m]
               x == IF m = i THEN 1 ELSE 0
    <3>1. ProfileOK(o)
      BY <2>4
    <3>2. n[m] = [o EXCEPT !.v.selected = x]
      OBVIOUS
    <3> HIDE DEF o, n, x
    <3>3. "v" \in DOMAIN o /\ "selected" \in DOMAIN o.v
      BY <3>1 DEF ProfileOK, ValsOK
    <3>4. n[m].v.selected = x /\ n[m].rules = o.rules
      BY <3>2, <3>3
    <3> QED BY <3>4 DEF o, x
  <2>6. DOMAIN n = DOMAIN ps
    OBVIOUS
  <2> HIDE DEF n, ps
  <2>7. /\ i \in DOMAIN c.profiles
        /\ \A m \in DOMAIN c.profiles : c.profiles[m].v.selected = 1 <=> m = i
    BY <2>3, <2>5, <2>6 DEF ps
  <2> HIDE DEF c
  <2>9. SelectedIndex(c) = i
    <3> DEFINE s == {m \in DOMAIN c.profiles : c.profiles[m].v.selected = 1}
    <3>1. s = {i}
      BY <2>7
    <3>2. i \in Nat
      BY <2>4, <2>6 DEF ps
    <3>3. SelectedIndex(c) = CHOOSE m \in s : \A j \in s : m <= j
      BY <3>1 DEF SelectedIndex
    <3> HIDE DEF s
    <3> QED BY <3>1, <3>2, <3>3
  <2>8. Selected(Reloaded(c)).v = c.profiles[i].v
    <3> DEFINE q == Selected(c)
    <3>1. q = c.profiles[i] /\ ProfileOK(q)
      BY <2>2, <2>9, SelectedOK DEF Selected
    <3>2. ~ProfileJsonEmpty(ProfileToJson(q))
      BY <2>7, <3>1, SelectedSaved
    <3>3. Selected(Reloaded(c)) = LoadProfile(ProfileToJson(q))
      BY <2>2, <3>2, ReloadSelected
    <3> HIDE DEF q
    <3> QED BY <3>1, <3>3, ProfileReload, ZenonT(40)
  <2>10. c.profiles[i].rules = mem.profiles[i].rules
    BY <2>3, <2>5 DEF ps
  <2> QED BY <2>8, <2>9, <2>10 DEF c
<1> QED BY <1>1, Inductive, PTL DEF Spec, SelectTakesEffect

-----------------------------------------------------------------------------
(* What a save and a load keep.                                            *)

\* A device whose formula ends in no newline is the same after a save and a load,
\* but for its pairs.
LEMMA DeviceReload ==
  ASSUME NEW e, DeviceOK(e), e.v.stick_formula = Trim(e.v.stick_formula)
  PROVE  LET n == LoadDevice(DeviceToJson(e))
         IN  /\ n.id = e.id /\ n.v = e.v /\ n.extra = e.extra
             /\ n.simple = HandleJson(<<>>, PairsToJson(e.simple, <<>>))
             /\ n.fn = HandleJson(DeviceFnKeys, PairsToJson(e.fn, DeviceFnKeys))
<1> DEFINE D == DeviceDefault(e.id)
           v == e.v
           x == e.extra
           u == UpdateJson(x, v, D)
           j == DeviceToJson(e)
           n == LoadDevice(j)
<1>1. /\ j.id = e.id /\ j.vals = OnFormula(u, MarshalString)
      /\ j.simple = PairsToJson(e.simple, <<>>) /\ j.fn = PairsToJson(e.fn, DeviceFnKeys)
  BY DEF DeviceToJson
<1> HIDE DEF j
<1>2. /\ n.id = e.id /\ n.simple = HandleJson(<<>>, j.simple)
      /\ n.fn = HandleJson(DeviceFnKeys, j.fn) /\ n.extra = Extra(j.vals, D)
      /\ n.v = CoordinateBetweenProperties(UpdateValue(D, OnFormula(j.vals, UnmarshalString)))
  BY <1>1 DEF LoadDevice
<1> HIDE DEF n
<1>3. D \in [DeviceKeys -> Number]
  BY DeviceDefaults
<1>4. FlagsOK(v) /\ Settings(v) /\ Unregistered(x, D) /\ v.stick_formula = Trim(v.stick_formula)
  BY DEF DeviceOK, FlagsOK
<1> HIDE DEF D, v, x
<1> DEFINE f == v["stick_formula"]
<1>5. /\ v \in [DeviceKeys -> Number] /\ f \in 0..999 /\ f = Trim(f)
      /\ "stick_formula" \in DeviceKeys
  BY <1>4 DEF Settings, DeviceKeys
<1>6. MarshalString(f) = f /\ UnmarshalString(f) = f
  <2> HIDE DEF f
  <2> QED BY <1>5, TrimmedFormula, ZenonT(40)
<1>7. u = [k \in DOMAIN u |-> u[k]] /\ ("stick_formula" \in DOMAIN u => u["stick_formula"] = f)
  BY <1>5 DEF UpdateJson
<1>8. Registered(v, D)
  BY <1>3, <1>5 DEF Registered, Number
<1>9. UpdateValue(D, u) = v /\ Extra(u, D) = x
  BY <1>4, <1>8, ReloadValues
<1> HIDE DEF u, f
<1>10. OnFormula(u, MarshalString) = u /\ OnFormula(u, UnmarshalString) = u
  BY <1>6, <1>7 DEF OnFormula
<1>11. CoordinateBetweenProperties(v) = v
  <2>1. CASE v.treat_as_built_in_keyboard = 1
    <3>1. v.disable_built_in_keyboard_if_exists = 0
      BY <1>4, <2>1 DEF FlagsOK
    <3>2. [v EXCEPT !.disable_built_in_keyboard_if_exists = 0] = v
      BY <1>5, <3>1
    <3> QED BY <2>1, <3>2 DEF CoordinateBetweenProperties
  <2>2. CASE v.treat_as_built_in_keyboard # 1
    BY <2>2 DEF CoordinateBetweenProperties
  <2> QED BY <2>1, <2>2
<1>12. n.v = v /\ n.extra = x
  BY <1>1, <1>2, <1>9, <1>10, <1>11
<1> QED BY <1>1, <1>2, <1>12 DEF n, j, v, x

\* What a device makes the grabber do.
SettingsOf(e) ==
  [v |-> e.v, simple |-> ToSet(PairsToJson(e.simple, <<>>)),
   fn |-> ToSet(PairsToJson(e.fn, <<>>))]

\* The device that is found for d, or a new one.
FoundDevice(p, d) ==
  IF \E i \in DOMAIN p.devices : p.devices[i].id = d
  THEN p.devices[DeviceIndex(p, d)] ELSE NewDevice(d)

\* A device does the same after a save and a load.
LEMMA SettingsReload ==
  ASSUME NEW e, DeviceOK(e), e.v.stick_formula = Trim(e.v.stick_formula)
  PROVE  SettingsOf(LoadDevice(DeviceToJson(e))) = SettingsOf(e)
<1> DEFINE n == LoadDevice(DeviceToJson(e))
<1>1. /\ n.v = e.v /\ n.simple = HandleJson(<<>>, PairsToJson(e.simple, <<>>))
      /\ n.fn = HandleJson(DeviceFnKeys, PairsToJson(e.fn, DeviceFnKeys))
  BY DeviceReload
<1>2. e.simple \in Seq(Pairs) /\ e.fn \in Seq(Pairs)
  BY DEF DeviceOK
<1> HIDE DEF n
<1>3. ToSet(PairsToJson(n.simple, <<>>)) = ToSet(PairsToJson(e.simple, <<>>))
  BY <1>1, <1>2, SimpleReload
<1>4. ToSet(PairsToJson(n.fn, <<>>)) = ToSet(PairsToJson(e.fn, <<>>))
  BY <1>1, <1>2, DeviceFnReload
<1>5. SettingsOf(n) = SettingsOf(e)
  BY <1>1, <1>3, <1>4 DEF SettingsOf
<1> QED BY <1>5 DEF n

\* One without any json is as good as new.
LEMMA EmptyIsNew ==
  ASSUME NEW e, DeviceJsonEmpty(DeviceToJson(e))
  PROVE  LoadDevice(DeviceToJson(e)) = NewDevice(e.id)
<1> DEFINE j == DeviceToJson(e)
<1>1. j = [id |-> e.id, vals |-> j.vals, simple |-> j.simple, fn |-> j.fn]
  BY DEF DeviceToJson
<1>2. j.vals = NoKeys /\ j.simple = <<>> /\ j.fn = <<>>
  BY DEF DeviceJsonEmpty
<1> HIDE DEF j
<1>3. j = [id |-> e.id, vals |-> NoKeys, simple |-> <<>>, fn |-> <<>>]
  BY <1>1, <1>2
<1>4. LoadDevice(j) = NewDevice(e.id)
  BY <1>3 DEF NewDevice
<1> QED BY <1>4 DEF j

\* The only device of an identifier is the one that is found.
LEMMA FoundUnique ==
  ASSUME NEW p, NEW i \in DOMAIN p.devices, i \in Nat,
         \A j \in DOMAIN p.devices : p.devices[j].id = p.devices[i].id => j = i
  PROVE  FoundDevice(p, p.devices[i].id) = p.devices[i]
<1> DEFINE d == p.devices[i].id
           s == {j \in DOMAIN p.devices : p.devices[j].id = d}
<1>1. s = {i}
  OBVIOUS
<1>2. DeviceIndex(p, d) = CHOOSE m \in s : \A j \in s : m <= j
  BY DEF DeviceIndex
<1> HIDE DEF s
<1>3. DeviceIndex(p, d) = i
  BY <1>1, <1>2
<1> QED BY <1>3 DEF FoundDevice

\* The devices that are saved: those with any json, in their order.
SavedDevices(p) == {i \in DOMAIN p.devices : ~DeviceJsonEmpty(DeviceToJson(p.devices[i]))}

\* What the devices of a profile are saved as.
LEMMA DevicesToJson ==
  ASSUME NEW p, ProfileOK(p)
  PROVE  LET js == ProfileToJson(p).devices
             R == Ranked(SavedDevices(p))
         IN  /\ \E A : js \in Seq(A)
             /\ \A n \in DOMAIN js : /\ R[n] \in SavedDevices(p)
                                     /\ js[n] = DeviceToJson(p.devices[R[n]])
                                     /\ ~DeviceJsonEmpty(js[n])
             /\ \A i \in SavedDevices(p) : \E n \in DOMAIN js : R[n] = i
             /\ \A m, n \in DOMAIN js : R[m] = R[n] => m = n
<1> DEFINE ds == p.devices
           a == [m \in DOMAIN ds |-> DeviceToJson(ds[m])]
           A == {DeviceToJson(ds[m]) : m \in DOMAIN ds}
           I == {m \in DOMAIN a : ~DeviceJsonEmpty(a[m])}
           js == AtIndexes(a, I)
           R == Ranked(SavedDevices(p))
<1>1. PICK S : ds \in Seq(S)
  BY DEF ProfileOK, DevicesOK
<1>2. Len(ds) \in Nat /\ DOMAIN ds = 1..Len(ds)
  BY <1>1
<1>3. ProfileToJson(p).devices = js
  BY DEF ProfileToJson, NonEmpty, FilterIndexes
<1>4. a \in Seq(A) /\ DOMAIN a = DOMAIN ds /\ \A m \in DOMAIN ds : a[m] = DeviceToJson(ds[m])
  BY <1>2
<1> HIDE DEF a, A
<1>5. I = SavedDevices(p) /\ I \in SUBSET DOMAIN a
  BY <1>4 DEF SavedDevices
<1> HIDE DEF I
<1>6. /\ js \in Seq(A)
      /\ \A n \in DOMAIN js : R[n] \in I /\ js[n] = a[R[n]]
      /\ \A i \in I : \E n \in DOMAIN js : R[n] = i
      /\ \A m, n \in DOMAIN js : m < n => R[m] < R[n]
  BY <1>4, <1>5, PickedFrom
<1> HIDE DEF js, R
<1>7. ASSUME NEW n \in DOMAIN js
      PROVE  /\ R[n] \in SavedDevices(p) /\ js[n] = DeviceToJson(ds[R[n]])
             /\ ~DeviceJsonEmpty(js[n])
  BY <1>4, <1>5, <1>6 DEF SavedDevices
<1>8. ASSUME NEW m \in DOMAIN js, NEW n \in DOMAIN js, R[m] = R[n] PROVE m = n
  <2>1. m \in Nat /\ n \in Nat
    BY <1>6
  <2>2. R[m] \in Nat
    BY <1>2, <1>4, <1>5, <1>6
  <2>3. ~(R[m] < R[n]) /\ ~(R[n] < R[m])
    BY <1>8, <2>2
  <2> QED BY <1>6, <2>1, <2>3
<1>9. (\E B : js \in Seq(B)) /\ \A i \in SavedDevices(p) : \E n \in DOMAIN js : R[n] = i
  BY <1>5, <1>6
<1> QED BY <1>3, <1>7, <1>8, <1>9 DEF R

\* Every device does the same after its profile is saved and loaded, listed or not.
LEMMA DevicesReload ==
  ASSUME NEW p, ProfileOK(p), NEW d,
         \A i, j \in DOMAIN p.devices : p.devices[i].id = p.devices[j].id => i = j,
         \A i \in DOMAIN p.devices :
           p.devices[i].v.stick_formula = Trim(p.devices[i].v.stick_formula)
  PROVE  DeviceSettings(LoadProfile(ProfileToJson(p)), d) = DeviceSettings(p, d)
<1> DEFINE ds == p.devices
           js == ProfileToJson(p).devices
           q == LoadProfile(ProfileToJson(p))
           R == Ranked(SavedDevices(p))
<1>1. \A o : DeviceSettings(o, d) = SettingsOf(FoundDevice(o, d))
  BY DEF DeviceSettings, SettingsOf, FoundDevice
<1>2. /\ \E A : js \in Seq(A)
      /\ \A n \in DOMAIN js : R[n] \in SavedDevices(p) /\ js[n] = DeviceToJson(ds[R[n]])
      /\ \A i \in SavedDevices(p) : \E n \in DOMAIN js : R[n] = i
      /\ \A m, n \in DOMAIN js : R[m] = R[n] => m = n
  BY DevicesToJson
<1>3. q.devices = [i \in DOMAIN js |-> LoadDevice(js[i])]
  BY ProfileReload
<1>4. SavedDevices(p) \in SUBSET DOMAIN ds
  BY DEF SavedDevices
<1>5. DevicesOK(ds) /\ \A i \in DOMAIN ds : DeviceOK(ds[i]) /\ i \in Nat
  <2>1. PICK S : ds \in Seq(S) /\ \A e \in S : DeviceOK(e)
    BY DEF ProfileOK, DevicesOK
  <2> QED BY <2>1 DEF DevicesOK
<1> HIDE DEF js, q, R
<1>6. /\ DOMAIN q.devices = DOMAIN js
      /\ \A n \in DOMAIN js : /\ R[n] \in DOMAIN ds
                              /\ q.devices[n] = LoadDevice(DeviceToJson(ds[R[n]]))
                              /\ q.devices[n].id = ds[R[n]].id
  <2>1. \A e : LoadDevice(DeviceToJson(e)).id = e.id
    BY DEF LoadDevice, DeviceToJson
  <2> QED BY <1>2, <1>3, <1>4, <2>1
<1>7. CASE ~\E i \in DOMAIN ds : ds[i].id = d
  <2>1. ~\E n \in DOMAIN q.devices : q.devices[n].id = d
    BY <1>6, <1>7
  <2>2. FoundDevice(q, d) = FoundDevice(p, d)
    BY <1>7, <2>1 DEF FoundDevice
  <2> QED BY <1>1, <2>2 DEF q
<1>8. CASE \E i \in DOMAIN ds : ds[i].id = d
  <2>1. PICK i \in DOMAIN ds : ds[i].id = d
    BY <1>8
  <2> DEFINE e == ds[i]
  <2>2. FoundDevice(p, d) = e
    BY <1>5, <2>1, FoundUnique
  <2>3. DeviceOK(e) /\ e.v.stick_formula = Trim(e.v.stick_formula) /\ e.id = d
    BY <1>5, <2>1
  <2>4. FoundDevice(q, d) = LoadDevice(DeviceToJson(e))
    <3>1. CASE i \in SavedDevices(p)
      <4>1. PICK k \in DOMAIN js : R[k] = i
        BY <1>2, <3>1
      <4>2. k \in DOMAIN q.devices /\ k \in Nat /\ q.devices[k].id = d
        <5>1. k \in Nat
          BY <1>2
        <5> QED BY <1>6, <2>1, <4>1, <5>1
      <4>3. ASSUME NEW n \in DOMAIN q.devices, q.devices[n].id = d PROVE n = k
        <5>1. n \in DOMAIN js /\ R[n] \in DOMAIN ds /\ ds[R[n]].id = d
          BY <1>6, <4>3
        <5>2. R[n] = i
          BY <2>1, <5>1
        <5> QED BY <1>2, <4>1, <5>1, <5>2
      <4>4. FoundDevice(q, d) = q.devices[k]
        BY <4>2, <4>3, FoundUnique
      <4> QED BY <1>6, <4>1, <4>4
    <3>2. CASE i \notin SavedDevices(p)
      <4>1. DeviceJsonEmpty(DeviceToJson(e))
        BY <3>2 DEF SavedDevices
      <4>2. ASSUME NEW n \in DOMAIN q.devices, q.devices[n].id = d PROVE FALSE
        <5>1. n \in DOMAIN js /\ R[n] \in DOMAIN ds /\ ds[R[n]].id = d
          BY <1>6, <4>2
        <5>2. R[n] = i
          BY <2>1, <5>1
        <5> QED BY <1>2, <3>2, <5>1, <5>2
      <4>3. FoundDevice(q, d) = NewDevice(d)
        BY <4>2 DEF FoundDevice
      <4> HIDE DEF e
      <4> QED BY <2>3, <4>1, <4>3, EmptyIsNew
    <3> QED BY <3>1, <3>2
  <2> HIDE DEF e
  <2>5. SettingsOf(FoundDevice(q, d)) = SettingsOf(FoundDevice(p, d))
    BY <2>2, <2>3, <2>4, SettingsReload
  <2> QED BY <1>1, <2>5 DEF q
<1> QED BY <1>7, <1>8

\* Saving loses nothing that acts: the grabber that loads the file does what the
\* window shows, and the keys this version does not know are still there.
THEOREM ReloadTheorem == Spec => []ReloadKeepsEffective
<1>1. IInv => ReloadKeepsEffective
  <2> SUFFICES ASSUME IInv, Kept(mem)
               PROVE  /\ Effective(Reloaded(mem)) = Effective(mem)
                      /\ Reloaded(mem).extra = mem.extra
                      /\ Selected(Reloaded(mem)).extra = Selected(mem).extra
    BY DEF ReloadKeepsEffective
  <2> DEFINE c == mem
             r == Reloaded(c)
             p == Selected(c)
             q == Selected(r)
  <2>1. ConfigOK(c) /\ SelectedIndex(c) \in DOMAIN c.profiles /\ ProfileOK(p)
    BY SelectedOK DEF IInv
  <2>2. r.global = c.global /\ r.extra = c.extra
    BY <2>1, ReloadConfig
  <2>3. q = LoadProfile(ProfileToJson(p))
    BY <2>1, ReloadSelected DEF Kept
  <2>4. /\ \A x \in ToSet(p.fn) : x.to # 0
        /\ \A i, j \in DOMAIN p.devices : p.devices[i].id = p.devices[j].id => i = j
    BY DEF Kept
  <2>5. \A i \in DOMAIN p.devices :
          p.devices[i].v.stick_formula = Trim(p.devices[i].v.stick_formula)
    BY <2>1 DEF Kept, FormulasTrimmed, Selected, ToSet
  <2> HIDE DEF c, r, p, q
  <2>6. /\ q.extra = p.extra /\ q.rules = p.rules
        /\ q.parameters = p.parameters /\ q.keyboard = p.keyboard /\ q.complex = p.complex
        /\ q.simple = HandleJson(<<>>, PairsToJson(p.simple, <<>>))
        /\ q.fn = HandleJson(ProfileFnKeys, PairsToJson(p.fn, ProfileFnKeys))
    BY <2>1, <2>3, ProfileReload
  <2>7. ToSet(PairsToJson(q.simple, <<>>)) = ToSet(PairsToJson(p.simple, <<>>))
    BY <2>1, <2>6, SimpleReload DEF ProfileOK
  <2>8. ToSet(PairsToJson(q.fn, <<>>)) = ToSet(PairsToJson(p.fn, <<>>))
    <3> DEFINE f == p.fn
    <3>1. f \in Seq(Pairs) /\ \E i \in DOMAIN f : f[i].from = 1
      BY <2>1 DEF ProfileOK, FnKeysOK
    <3>2. \A i \in DOMAIN f : f[i].to # 0
      BY <2>4 DEF ToSet
    <3> HIDE DEF f
    <3>3. ToSet(PairsToJson(HandleJson(ProfileFnKeys, PairsToJson(f, ProfileFnKeys)), <<>>))
            = ToSet(PairsToJson(f, <<>>))
      BY <3>1, <3>2, FnReload
    <3> QED BY <2>6, <3>3 DEF f
  <2>9. \A d \in Devices : DeviceSettings(q, d) = DeviceSettings(p, d)
    BY <2>1, <2>3, <2>4, <2>5, DevicesReload
  <2>10. [d \in Devices |-> DeviceSettings(q, d)] = [d \in Devices |-> DeviceSettings(p, d)]
    BY <2>9
  <2>11. Effective(r) = Effective(c)
    BY <2>2, <2>6, <2>7, <2>8, <2>10 DEF Effective, p, q
  <2> QED BY <2>2, <2>6, <2>11 DEF c, r, p, q
<1> QED BY <1>1, Inductive, PTL

-----------------------------------------------------------------------------
(* What is loaded from a saved file is saved the same way.                 *)

\* Pairs that are the same after a save and a load.
SettledDevice(e) ==
  /\ HandleJson(<<>>, PairsToJson(e.simple, <<>>)) = e.simple
  /\ HandleJson(DeviceFnKeys, PairsToJson(e.fn, DeviceFnKeys)) = e.fn

SettledProfile(p) ==
  /\ HandleJson(<<>>, PairsToJson(p.simple, <<>>)) = p.simple
  /\ HandleJson(ProfileFnKeys, PairsToJson(p.fn, ProfileFnKeys)) = p.fn
  /\ \A i \in DOMAIN p.devices : SettledDevice(p.devices[i])

\* Function keys that were saved and loaded are settled, whatever their default.
LEMMA FnSettled ==
  ASSUME NEW x \in Seq(Pairs)
  PROVE  /\ LET y == HandleJson(ProfileFnKeys, PairsToJson(x, ProfileFnKeys))
            IN  HandleJson(ProfileFnKeys, PairsToJson(y, ProfileFnKeys)) = y
         /\ LET y == HandleJson(DeviceFnKeys, PairsToJson(x, DeviceFnKeys))
            IN  HandleJson(DeviceFnKeys, PairsToJson(y, DeviceFnKeys)) = y
<1> DEFINE a == [from |-> 1, to |-> 7]
           b == [from |-> 1, to |-> 0]
<1>1. a \in Pairs /\ b \in Pairs /\ ProfileFnKeys = <<a>> /\ DeviceFnKeys = <<b>>
  BY DEF Pairs, ProfileFnKeys, DeviceFnKeys
<1> HIDE DEF a, b
<1>2. ASSUME NEW d \in Pairs
      PROVE  HandleJson(<<d>>, PairsToJson(HandleJson(<<d>>, PairsToJson(x, <<d>>)), <<d>>))
               = HandleJson(<<d>>, PairsToJson(x, <<d>>))
  BY DefaultReload
<1> QED BY <1>1, <1>2

\* A profile that was loaded from a saved file is settled ...
LEMMA ReloadedSettled ==
  ASSUME NEW p, ProfileOK(p)
  PROVE  SettledProfile(LoadProfile(ProfileToJson(p)))
<1> DEFINE js == ProfileToJson(p).devices
           q == LoadProfile(ProfileToJson(p))
<1>1. /\ q.devices = [i \in DOMAIN js |-> LoadDevice(js[i])]
      /\ q.simple = HandleJson(<<>>, PairsToJson(p.simple, <<>>))
      /\ q.fn = HandleJson(ProfileFnKeys, PairsToJson(p.fn, ProfileFnKeys))
  BY ProfileReload
<1>2. p.simple \in Seq(Pairs) /\ p.fn \in Seq(Pairs)
  BY DEF ProfileOK, FnKeysOK
<1>3. ASSUME NEW i \in DOMAIN js PROVE SettledDevice(LoadDevice(js[i]))
  <2> DEFINE R == Ranked(SavedDevices(p))
  <2>1. R[i] \in DOMAIN p.devices /\ js[i] = DeviceToJson(p.devices[R[i]])
    BY DevicesToJson DEF SavedDevices
  <2> DEFINE e == p.devices[R[i]]
             n == LoadDevice(DeviceToJson(e))
  <2>2. DeviceOK(e)
    BY <2>1, DeviceOf DEF ProfileOK
  <2> HIDE DEF e
  <2>3. /\ n.simple = HandleJson(<<>>, PairsToJson(e.simple, <<>>))
        /\ n.fn = HandleJson(DeviceFnKeys, PairsToJson(e.fn, DeviceFnKeys))
    BY DEF LoadDevice, DeviceToJson
  <2>4. e.simple \in Seq(Pairs) /\ e.fn \in Seq(Pairs)
    BY <2>2 DEF DeviceOK
  <2> HIDE DEF n
  <2>5. SettledDevice(n)
    BY <2>3, <2>4, SimpleReload, FnSettled DEF SettledDevice
  <2> QED BY <2>1, <2>5 DEF n, e
<1> HIDE DEF q, js
<1>4. /\ HandleJson(<<>>, PairsToJson(q.simple, <<>>)) = q.simple
      /\ HandleJson(ProfileFnKeys, PairsToJson(q.fn, ProfileFnKeys)) = q.fn
  BY <1>1, <1>2, SimpleReload, FnSettled
<1>5. SettledProfile(q)
  BY <1>1, <1>3, <1>4 DEF SettledProfile
<1> QED BY <1>5 DEF q

\* ... and so is the fallback.
LEMMA FallbackSettled ==
  SettledProfile(LoadProfile([EmptyProfileJson EXCEPT !.vals = DefaultProfile]))
<1> DEFINE j == [EmptyProfileJson EXCEPT !.vals = DefaultProfile]
           q == LoadProfile(j)
           none == <<>>
<1>1. j.devices = <<>> /\ j.simple = <<>> /\ j.fn = <<>>
  BY DEF EmptyProfileJson
<1> HIDE DEF j
<1>2. /\ q.devices = [i \in DOMAIN <<>> |-> LoadDevice(j.devices[i])]
      /\ q.simple = HandleJson(<<>>, <<>>) /\ q.fn = HandleJson(ProfileFnKeys, <<>>)
  BY <1>1 DEF LoadProfile
<1> HIDE DEF q
<1>3. DOMAIN q.devices = {}
  BY <1>2
<1>4. HandleJson(<<>>, PairsToJson(q.simple, <<>>)) = q.simple
  BY <1>2, NoPairs
<1>5. HandleJson(ProfileFnKeys, PairsToJson(q.fn, ProfileFnKeys)) = q.fn
  <2>1. none \in Seq(Pairs) /\ DOMAIN none = {}
    OBVIOUS
  <2>2. q.fn = HandleJson(ProfileFnKeys, none)
    BY <1>2
  <2> HIDE DEF none
  <2> DEFINE I == {i \in DOMAIN none :
                     /\ none[i].from # 0 /\ none[i].to # 0
                     /\ ~\E k \in 1..i-1 : none[k].from = none[i].from /\ none[k].to # 0
                     /\ none[i] \notin ToSet(ProfileFnKeys)}
  <2>4. PairsToJson(none, ProfileFnKeys) = AtIndexes(none, I)
    BY DEF PairsToJson, FilterIndexes
  <2>5. I = {}
    BY <2>1
  <2> HIDE DEF I
  <2>6. PairsToJson(none, ProfileFnKeys) = none
    BY <2>4, <2>5, AtNoIndex DEF none
  <2> QED BY <2>1, <2>2, <2>6, FnSettled
<1>6. SettledProfile(q)
  BY <1>3, <1>4, <1>5 DEF SettledProfile
<1> QED BY <1>6 DEF q, j

\* A settled device without a newline is the same after a save and a load ...
LEMMA DeviceSettles ==
  ASSUME NEW e, DeviceOK(e), SettledDevice(e), e.v.stick_formula = Trim(e.v.stick_formula)
  PROVE  LoadDevice(DeviceToJson(e)) = e
<1> DEFINE n == LoadDevice(DeviceToJson(e))
<1>1. n.id = e.id /\ n.v = e.v /\ n.extra = e.extra /\ n.simple = e.simple /\ n.fn = e.fn
  BY DeviceReload DEF SettledDevice
<1>2. n = [id |-> n.id, v |-> n.v, simple |-> n.simple, fn |-> n.fn, extra |-> n.extra]
  BY DEF LoadDevice
<1> HIDE DEF n
<1>3. n = e
  BY <1>1, <1>2 DEF DeviceOK
<1> QED BY <1>3 DEF n

\* ... so a settled profile is saved the same way again.
LEMMA ProfileSettles ==
  ASSUME NEW p, ProfileOK(p), SettledProfile(p),
         \A i \in DOMAIN p.devices :
           p.devices[i].v.stick_formula = Trim(p.devices[i].v.stick_formula)
  PROVE  ProfileToJson(LoadProfile(ProfileToJson(p))) = ProfileToJson(p)
<1> DEFINE js == ProfileToJson(p).devices
           q == LoadProfile(ProfileToJson(p))
           a == [i \in DOMAIN q.devices |-> DeviceToJson(q.devices[i])]
           I == {i \in DOMAIN a : ~DeviceJsonEmpty(a[i])}
<1>1. /\ q.v = p.v /\ q.extra = p.extra /\ q.rules = p.rules
      /\ q.parameters = p.parameters /\ q.keyboard = p.keyboard /\ q.complex = p.complex
      /\ q.devices = [i \in DOMAIN js |-> LoadDevice(js[i])]
      /\ q.simple = p.simple /\ q.fn = p.fn
  BY ProfileReload DEF SettledProfile
<1>2. ProfileToJson(q).devices = AtIndexes(a, I)
  BY DEF ProfileToJson, NonEmpty, FilterIndexes
<1>3. PICK A : js \in Seq(A)
  BY DevicesToJson
<1>4. ASSUME NEW n \in DOMAIN js PROVE DeviceToJson(LoadDevice(js[n])) = js[n]
  <2> DEFINE R == Ranked(SavedDevices(p))
             e == p.devices[R[n]]
  <2>1. R[n] \in DOMAIN p.devices /\ js[n] = DeviceToJson(e)
    BY DevicesToJson DEF SavedDevices
  <2>2. DeviceOK(e)
    BY <2>1, DeviceOf DEF ProfileOK
  <2>3. SettledDevice(e) /\ e.v.stick_formula = Trim(e.v.stick_formula)
    BY <2>1 DEF SettledProfile
  <2> HIDE DEF e
  <2>4. LoadDevice(DeviceToJson(e)) = e
    BY <2>2, <2>3, DeviceSettles
  <2> QED BY <2>1, <2>4
<1>5. \A n \in DOMAIN js : ~DeviceJsonEmpty(js[n])
  BY DevicesToJson
<1>6. js = [n \in DOMAIN js |-> js[n]]
  BY <1>3
<1> HIDE DEF js, q
<1>7. a = js
  BY <1>1, <1>4, <1>6
<1> HIDE DEF a
<1>8. I = DOMAIN js
  BY <1>5, <1>7
<1>9. AtIndexes(a, I) = js
  BY <1>3, <1>7, <1>8, AtAllIndexes
<1>10. ProfileToJson(q).devices = ProfileToJson(p).devices
  BY <1>2, <1>9 DEF js
<1>11. \A x : ProfileToJson(x) =
         [vals |-> UpdateJson(x.extra, x.v, ProfileDefault),
          parameters |-> ParametersToJson(x.parameters),
          keyboard |-> KeyboardToJson(x.keyboard),
          devices |-> ProfileToJson(x).devices,
          simple |-> PairsToJson(x.simple, <<>>),
          fn |-> PairsToJson(x.fn, ProfileFnKeys),
          complex |-> UpdateJson(NoKeys, x.complex, ComplexDefault),
          rules |-> [i \in DOMAIN x.rules |-> RuleJson(x.rules[i].body, x.rules[i].enabled)]]
  BY DEF ProfileToJson
<1>12. ProfileToJson(q) = ProfileToJson(p)
  BY <1>1, <1>10, <1>11
<1> QED BY <1>12 DEF q

\* Entries of machines that were loaded are saved as they are.
LEMMA MachineSettles ==
  ASSUME NEW x
  PROVE  LET m == LoadMachine(x)
         IN  MachineToJson(LoadMachine(MachineToJson(m))) = MachineToJson(m)
<1> DEFINE m == LoadMachine(x)
           j == MachineToJson(m)
<1>1. \A k \in DOMAIN m : m[k] # Bad
  BY NotBad DEF LoadMachine
<1> HIDE DEF m
<1>2. j = [k \in DOMAIN j |-> j[k]] /\ \A k \in DOMAIN j : j[k] # 0 /\ j[k] # Bad
  BY <1>1 DEF MachineToJson
<1> HIDE DEF j
<1>3. LoadMachine(j) = j
  BY <1>2 DEF LoadMachine
<1>4. MachineToJson(j) = j
  BY <1>2 DEF MachineToJson
<1> QED BY <1>3, <1>4 DEF j, m

\* What is saved and loaded again is saved the same way from then on, so that
\* configuration_monitor does not take the echo of a save for a foreign change.
THEOREM SettlesTheorem == Spec => []SaveSettles
<1>1. IInv => SaveSettles
  <2> DEFINE c == Reloaded(mem)
             r == Reloaded(c)
             js == ToJson(c).profiles
  <2> SUFFICES ASSUME IInv, FormulasTrimmed(c), js # <<>>
               PROVE  ToJson(r) = ToJson(c)
    BY DEF SaveSettles
  <2>1. ConfigOK(mem) /\ ConfigOK(c)
    <3>1. ConfigOK(mem)
      BY DEF IInv
    <3>2. FileOK(FileOf(ToJson(mem)))
      BY <3>1, SaveOK
    <3> QED BY <3>1, <3>2, LoadOK DEF Reloaded
  <2>2. \A i \in DOMAIN c.profiles : SettledProfile(c.profiles[i]) /\ ProfileOK(c.profiles[i])
    <3> DEFINE ks == ToJson(mem).profiles
               L == [n \in DOMAIN ks |-> LoadProfile(ks[n])]
    <3>1. c.profiles = WithFallback(L)
      BY <2>1, ReloadConfig
    <3>2. ASSUME NEW n \in DOMAIN ks PROVE SettledProfile(LoadProfile(ks[n]))
      <4> DEFINE R == Ranked(SavedIndexes(mem))
                 p == mem.profiles[R[n]]
      <4>1. R[n] \in DOMAIN mem.profiles /\ ks[n] = ProfileToJson(p)
        BY <2>1, SavedProfiles DEF SavedIndexes
      <4>2. ProfileOK(p)
        BY <2>1, <4>1 DEF ConfigOK, ProfilesOK
      <4> HIDE DEF p
      <4> QED BY <4>1, <4>2, ReloadedSettled
    <3>3. ProfilesOK(c.profiles)
      BY <2>1 DEF ConfigOK
    <3>4. DOMAIN L = DOMAIN ks /\ \A n \in DOMAIN ks : L[n] = LoadProfile(ks[n])
      OBVIOUS
    <3> HIDE DEF c, L, ks
    <3>5. \A i \in DOMAIN c.profiles : ProfileOK(c.profiles[i])
      BY <3>3 DEF ProfilesOK
    <3>6. CASE L = <<>>
      <4> DEFINE p == LoadProfile([EmptyProfileJson EXCEPT !.vals = DefaultProfile])
      <4>1. c.profiles = <<p>> /\ SettledProfile(p)
        BY <3>1, <3>6, FallbackSettled DEF WithFallback
      <4> HIDE DEF p
      <4> QED BY <3>5, <4>1
    <3>7. CASE L # <<>>
      <4>1. c.profiles = L
        BY <3>1, <3>7 DEF WithFallback
      <4> QED BY <3>2, <3>4, <3>5, <4>1
    <3> QED BY <3>6, <3>7
  <2>3. c.machine = LoadMachine(MachineToJson(mem.machine))
    BY <2>1, ReloadConfig
  <2>4. \A i \in DOMAIN c.profiles : \A d \in DOMAIN c.profiles[i].devices :
          LET e == c.profiles[i].devices[d] IN e.v.stick_formula = Trim(e.v.stick_formula)
    BY DEF FormulasTrimmed, ToSet
  <2> HIDE DEF c
  <2>5. /\ r.global = c.global /\ r.extra = c.extra
        /\ r.machine = LoadMachine(MachineToJson(c.machine))
        /\ r.profiles = [n \in DOMAIN js |-> LoadProfile(js[n])]
    BY <2>1, ReloadConfig
  <2>6. ASSUME NEW n \in DOMAIN js
        PROVE  ProfileToJson(LoadProfile(js[n])) = js[n] /\ ~ProfileJsonEmpty(js[n])
    <3> DEFINE R == Ranked(SavedIndexes(c))
               p == c.profiles[R[n]]
    <3>1. /\ R[n] \in DOMAIN c.profiles /\ js[n] = ProfileToJson(p)
          /\ ~ProfileJsonEmpty(js[n])
      BY <2>1, SavedProfiles DEF SavedIndexes
    <3>2. ProfileOK(p) /\ SettledProfile(p)
      BY <2>2, <3>1
    <3>3. \A i \in DOMAIN p.devices :
            p.devices[i].v.stick_formula = Trim(p.devices[i].v.stick_formula)
      BY <2>4, <3>1
    <3> HIDE DEF p
    <3> QED BY <3>1, <3>2, <3>3, ProfileSettles
  <2>7. PICK A : js \in Seq(A)
    BY <2>1, SavedProfiles
  <2> DEFINE a == [n \in DOMAIN r.profiles |-> ProfileToJson(r.profiles[n])]
             I == {n \in DOMAIN a : ~ProfileJsonEmpty(a[n])}
  <2>8. ToJson(r).profiles = AtIndexes(a, I)
    BY DEF ToJson, NonEmpty, FilterIndexes
  <2> HIDE DEF r, js
  <2>9. a = js
    <3>1. js = [n \in DOMAIN js |-> js[n]]
      BY <2>7
    <3> QED BY <2>5, <2>6, <3>1
  <2> HIDE DEF a
  <2>10. I = DOMAIN js
    BY <2>6, <2>9
  <2>11. AtIndexes(a, I) = js
    BY <2>7, <2>9, <2>10, AtAllIndexes
  <2>12. ToJson(r).profiles = ToJson(c).profiles
    BY <2>8, <2>11 DEF js
  <2>13. MachineToJson(r.machine) = MachineToJson(c.machine)
    BY <2>3, <2>5, MachineSettles
  <2>14. \A x : ToJson(x) = [global |-> GlobalToJson(x.global, x.extra),
                             machine |-> MachineToJson(x.machine),
                             profiles |-> ToJson(x).profiles]
    BY DEF ToJson
  <2>15. ToJson(r) = ToJson(c)
    BY <2>5, <2>12, <2>13, <2>14
  <2> QED BY <2>15
<1> QED BY <1>1, Inductive, PTL

=============================================================================
