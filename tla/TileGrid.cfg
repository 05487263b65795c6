\* Two budgets, one of them a single tile; content replaced on the retained
\* layer or moved on through Layer.Bump.
CONSTANTS
    Tile = {t1, t2, t3}
    Buffer = {b1, b2, b3, b4}
    NoBuffer = NoBuffer
    NoTile = NoTile
    Budgets = {1, 2}
    MaxIdle = 2
    TouchLists <- Singles
    MaxRev = 2
    Bumps = TRUE
SPECIFICATION Spec
SYMMETRY Symmetry
INVARIANTS OneOwner Accounted LruListsHolders
