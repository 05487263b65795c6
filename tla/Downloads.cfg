\* Two downloads of any kind, a name that may be taken.
CONSTANTS
    Item = {d1, d2}
    Paths = 3
    NoFile = NoFile
    Foreign = Foreign
SPECIFICATION Spec
INVARIANTS CancelIsHeard CanceledLeavesNothing
PROPERTIES EndedStays FilesKept CancelEnds
CHECK_DEADLOCK FALSE
