----------------------------- MODULE MCTileGrid -----------------------------
(* The tile grid on small instances. *)
EXTENDS TileGrid, TLC

(* Any one tile may be touched; longer lists are sequences of such steps. *)
Singles == {<<t>> : t \in Tile}

Symmetry == Permutations(Tile) \cup Permutations(Buffer)
=============================================================================
