------------------------------- MODULE Ascending -------------------------------
(* What a loop over a slice gathers when it passes some elements over: the      *)
(* positions of those it keeps, in their order.  Written without recursion, so   *)
(* that it can be reasoned about.                                                *)
EXTENDS Integers, FiniteSets

\* The set of the one sequence that holds a set of positions in order.
InAscendingOrder(positions) ==
  {q \in [1 .. Cardinality(positions) -> positions] :
     \A i, j \in 1 .. Cardinality(positions) : i < j => q[i] < q[j]}
=============================================================================
