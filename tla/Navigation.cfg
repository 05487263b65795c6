\* Two tabs, two pages, two loads on top of a restored history, a channel of one
\* place, shutdown at any moment.
CONSTANTS
    Tab = {t1, t2}
    FirstTab = t1
    Page = {p1, p2}
    p1 = p1
    p2 = p2
    Saved <- Restored
    MaxLoads = 2
    QueueSize = 1
    CanQuit = TRUE
    NoTab = NoTab
    NoPage = NoPage
SPECIFICATION SafeSpec
INVARIANTS NoSessionForgotten NoDeadDocument
PROPERTIES NewestWins TraversalLands StoppedStaysOut
CHECK_DEADLOCK FALSE
