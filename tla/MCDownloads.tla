---------------------------- MODULE MCDownloads ----------------------------
(* Downloads on a small instance. *)
EXTENDS Downloads, TLC
=============================================================================
