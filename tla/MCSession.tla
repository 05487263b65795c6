----------------------------- MODULE MCSession -----------------------------
(* The strip and its journal on a small instance. *)
EXTENDS SessionJournal, TLC

Symmetry == Permutations(Tab) \cup Permutations(Web)
=============================================================================
