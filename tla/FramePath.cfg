\* Three tiles, two on screen, a ring, a budget too small for all of them, two
\* updates published at any moment, a user who scrolls past both ends.
CONSTANTS
    Tile = {1, 2, 3}
    Buffer = {b1, b2, b3}
    NoBuffer = NoBuffer
    NoTile = 0
    Budgets = {2}
    MaxIdle = 4
    TouchLists <- VisibleLists
    MaxRev = 3
    Bumps = FALSE
    TileRows = 1
    ViewRows = 2
    RingRows = 1
    QueueDepth = 2
    Workers = 1
    Faulty = FALSE
    NoUpdate = NoUpdate
    MaxUpdates = 2
    Overshoot = 1
SPECIFICATION FrameSafeSpec
SYMMETRY Symmetry
INVARIANTS FrameTypeOK BackingIsFullRepaint NewestUpdateKept CurrentWhenValid
PROPERTIES RingEvictedFirst GridContractKept
