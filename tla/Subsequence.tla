---------------------------- MODULE Subsequence ----------------------------
(***************************************************************************)
(* What a loop that keeps some elements of a list leaves: the elements at  *)
(* the positions I, in the order they had.  The filter is written with     *)
(* positions and counts, not with SelectSeq, so that it can be reasoned    *)
(* about (SubsequenceProofs).                                              *)
(***************************************************************************)
EXTENDS Integers, Sequences, FiniteSets

(* The position of the element that comes k-th, and how many come with or  *)
(* before the one at i.                                                    *)
Rank(I, i)  == Cardinality({j \in I : j <= i})
Place(I, k) == CHOOSE i \in I : Rank(I, i) = k

At(s, I) == [k \in 1..Cardinality(I) |-> s[Place(I, k)]]
=============================================================================
