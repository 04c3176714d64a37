------------------------------ MODULE Sorting -------------------------------
(***************************************************************************)
(* A finite set as a sequence, in a given order: the n-th element has n-1  *)
(* before it.  It is SetToSortSeq in terms the proof system has; that one  *)
(* rests on the SortSeq of the module TLC, which has no definition there.  *)
(***************************************************************************)
EXTENDS Integers, FiniteSets

Sorted(S, Before(_, _)) ==
    [n \in 1 .. Cardinality(S) |->
        CHOOSE x \in S : Cardinality({y \in S : Before(y, x)}) = n - 1]
=============================================================================
