------------------------------ MODULE Sorting ------------------------------
(* Sorting, as sort_by and an ascending scan leave distinct elements.       *)
EXTENDS Naturals, FiniteSets

\* The elements of a finite set in the order Before, which is strict and total
\* on them.  (SetToSortSeq rests on an operator of TLC that has no definition
\* a proof could expand.)
Sorted(S, Before(_, _)) ==
  CHOOSE s \in [1..Cardinality(S) -> S] : \A i, j \in DOMAIN s : i < j => Before(s[i], s[j])
=============================================================================
