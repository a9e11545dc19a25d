------------------------------ MODULE Ascending ------------------------------
(***************************************************************************)
(* A set of numbers in ascending order: which elements a list's filter     *)
(* keeps, when the set has their indexes.                                  *)
(***************************************************************************)
EXTENDS Integers, Sequences, FiniteSets

Rank(S, k) == Cardinality({l \in S : l <= k})
Ascending(S) == [n \in 1 .. Cardinality(S) |-> CHOOSE k \in S : Rank(S, k) = n]
Filtered(list, S) == [n \in 1 .. Cardinality(S) |-> list[Ascending(S)[n]]]
=============================================================================
