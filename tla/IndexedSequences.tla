-------------------------- MODULE IndexedSequences --------------------------
(***************************************************************************)
(* What is left of a vector when elements are taken out of it: the         *)
(* elements at a set of indexes, in their order.  It takes the place of    *)
(* SelectSeq in modules with theorems, which need to name the indexes.     *)
(***************************************************************************)
EXTENDS Integers, FiniteSets

\* The numbers of I in their order.
Ranked(I) == [n \in 1..Cardinality(I) |-> CHOOSE i \in I : Cardinality({j \in I : j <= i}) = n]

\* The elements of s at the indexes in I.
AtIndexes(s, I) == LET idx == Ranked(I) IN [n \in DOMAIN idx |-> s[idx[n]]]

\* The elements whose index Keep allows: std::remove_if and its kin.
FilterIndexes(s, Keep(_)) == AtIndexes(s, {i \in DOMAIN s : Keep(i)})

=============================================================================
