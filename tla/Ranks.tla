--------------------------------- MODULE Ranks ---------------------------------
(* The numbers of a finite set in ascending order, without recursion.      *)
EXTENDS Integers, FiniteSets

\* The n-th has n - 1 of them below it.
InOrder(S) ==
  [n \in 1 .. Cardinality(S) |->
     CHOOSE i \in {i \in S : Cardinality({j \in S : j < i}) = n - 1} : TRUE]
================================================================================
