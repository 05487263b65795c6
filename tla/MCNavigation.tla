---------------------------- MODULE MCNavigation ----------------------------
(* Navigation on a small instance. *)
EXTENDS Navigation, TLC

CONSTANTS p1, p2

Fresh == {<<>>}

(* A fresh tab, or one restored with two entries. *)
Restored == {<<>>, <<p1, p2>>}
=============================================================================
