\* Two workers, a queue of one, one buffer more than the pool has slots;
\* shutdown at any moment.  No symmetry, because of the temporal properties.
CONSTANTS
    Buffer = {b1, b2, b3, b4}
    Worker = {w1, w2}
    QueueDepth = 1
    MaxWait = 2
    CanClose = TRUE
    NoBuffer = NoBuffer
SPECIFICATION Spec
INVARIANTS NothingLost OneHolder OutstandingExact
PROPERTIES LedgerKept CloseReturns WaitEndsOnClose EveryJobReported
