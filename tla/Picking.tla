------------------------------- MODULE Picking -------------------------------
(* Parts of lists.                                                           *)
EXTENDS Naturals, FiniteSets

\* The entries at these places, in their order.
Picked(entries, places) ==
  [n \in 1..Cardinality(places) |->
     entries[CHOOSE i \in places : Cardinality({j \in places : j < i}) = n - 1]]
=============================================================================
