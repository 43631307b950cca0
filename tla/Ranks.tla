-------------------------------- MODULE Ranks --------------------------------
(***************************************************************************)
(* The elements of a finite set of numbers in their order.                  *)
(***************************************************************************)
EXTENDS Naturals, FiniteSets

\* How many elements of S are at most i.
Rank(S, i) == Cardinality({j \in S : j <= i})

\* The n-th smallest element of S.
Nth(S, n) == CHOOSE i \in S : Rank(S, i) = n

=============================================================================
