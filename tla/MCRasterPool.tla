---------------------------- MODULE MCRasterPool ----------------------------
(* The raster pool on a small instance. *)
EXTENDS RasterPool, TLC

(* Buffers are interchangeable; workers are too. *)
Symmetry == Permutations(Buffer) \cup Permutations(Worker)
=============================================================================
