---------------------------- MODULE Enumerations ----------------------------
(***************************************************************************)
(* Lists in the order of numbers, where the code sorts or filters: the     *)
(* enumerations of a set, and what a filter keeps of a list.  Neither is   *)
(* recursive, so that theorems can be proved about them.                   *)
(***************************************************************************)
EXTENDS Naturals, Sequences, FiniteSets

(* The one enumeration of a set of numbers in their order. *)
Ordered(S) == {q \in [1..Cardinality(S) -> S] : \A i, j \in DOMAIN q : i < j => q[i] < q[j]}

(* The elements of a list at some of its places, in their order. *)
Rank(I, i) == Cardinality(I \cap (1..i))
Picked(q, I) == [k \in 1..Cardinality(I) |-> q[CHOOSE i \in I : Rank(I, i) = k]]
=============================================================================
