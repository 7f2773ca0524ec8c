------------------------------ MODULE Ranking -------------------------------
(***************************************************************************)
(* The elements of a finite set in the order of a relation: what a sort    *)
(* returns.                                                                *)
(***************************************************************************)
EXTENDS Naturals, FiniteSets

\* R puts the elements of S in one line.
LinesUp(R, S) ==
  /\ \A x \in S : <<x, x>> \notin R
  /\ \A x, y \in S : x # y => <<x, y>> \in R \/ <<y, x>> \in R
  /\ \A x, y, z \in S : <<x, y>> \in R /\ <<y, z>> \in R => <<x, z>> \in R

\* The elements of S from the first to the last: the nth has n - 1 before it.
Ranked(S, R) ==
  [n \in 1..Cardinality(S) |->
     CHOOSE x \in S : Cardinality({y \in S : <<y, x>> \in R}) = n - 1]
=============================================================================
