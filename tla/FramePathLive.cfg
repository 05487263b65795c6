\* Enough budget for the page and its ring; rasters fail, and a queue of one
\* place refuses submissions.
CONSTANTS
    Tile = {1, 2}
    Buffer = {b1, b2, b3}
    NoBuffer = NoBuffer
    NoTile = 0
    Budgets = {2}
    MaxIdle = 3
    TouchLists <- VisibleLists
    MaxRev = 2
    Bumps = FALSE
    TileRows = 1
    ViewRows = 1
    RingRows = 1
    QueueDepth = 1
    Workers = 1
    Faulty = TRUE
    NoUpdate = NoUpdate
    MaxUpdates = 1
    Overshoot = 0
SPECIFICATION FrameSpec
INVARIANTS OneRasterPerTile
PROPERTIES PageSettles UpdateInstalled
