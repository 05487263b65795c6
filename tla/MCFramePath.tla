---------------------------- MODULE MCFramePath ----------------------------
(* The frame path on small instances. *)
EXTENDS FramePath, TLC

(* The lists BeginFrame touches. *)
VisibleLists == {FrameOrder(o, d) : o \in 0..MaxOffset, d \in {-1, 1}}

Symmetry == Permutations(Buffer)
=============================================================================
