------------------------------ MODULE Ordering ------------------------------
(***************************************************************************)
(* Sorting and filtering, as relations of the result to the input: a sort  *)
(* of the standard library and the loops that append what qualifies.       *)
(***************************************************************************)
EXTENDS Integers, Sequences, FiniteSets

\* The members of S in the order R, which is strict and total on S: the k-th
\* is the one with k - 1 before it.
Arranged(S, R) ==
  [k \in 1 .. Cardinality(S) |->
     CHOOSE x \in S : Cardinality({y \in S : <<y, x>> \in R}) = k - 1]

\* The entries of q that are in S, in the order they have in q.
Only(q, S) ==
  LET at == {i \in DOMAIN q : q[i] \in S}
      to == Arranged(at, {x \in at \X at : x[1] < x[2]})
  IN [k \in DOMAIN to |-> q[to[k]]]
=============================================================================
