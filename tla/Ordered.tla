------------------------------- MODULE Ordered -------------------------------
(***************************************************************************)
(* Positions and keys in their order.  What a loop keeps of a slice and    *)
(* what a query returns ORDER BY its key are read this way.                *)
(***************************************************************************)
EXTENDS Integers, FiniteSets

\* The elements of a finite set of numbers, the smallest first.
Ascending(S) ==
    [n \in 1..Cardinality(S) |-> CHOOSE i \in S : Cardinality({j \in S : j < i}) = n - 1]
=============================================================================
