------------------------------ MODULE Selection ------------------------------
(***************************************************************************)
(* Choosing elements of a sequence and ordering those of a set, which the  *)
(* code does with filter() and sort().  SelectSeq and SortSeq would do for *)
(* the model checker; the proofs need to know which positions are kept and *)
(* which place an element gets, and these definitions say so.              *)
(***************************************************************************)
EXTENDS Integers, Sequences, FiniteSets

(* The elements of s at the positions in S, in their order.                *)
Picked(s, S) ==
  LET pick[n \in 0..Len(s)] ==
        IF n = 0 THEN <<>>
        ELSE IF n \in S THEN Append(pick[n - 1], s[n])
        ELSE pick[n - 1]
  IN pick[Len(s)]

(* The elements of S in an order: each has its place by how many come      *)
(* before it.                                                              *)
Ranked(S, Before(_, _)) ==
  [i \in 1..Cardinality(S) |->
     CHOOSE x \in S : Cardinality({y \in S : Before(y, x)}) = i - 1]
=============================================================================
