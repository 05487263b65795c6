\* Two tabs, one page, two loads; the user closes a tab whose load is being applied.
CONSTANTS
    Tab = {t1, t2}
    FirstTab = t1
    Page = {p1}
    p1 = p1
    p2 = p1
    Saved <- Fresh
    MaxLoads = 2
    QueueSize = 1
    CanQuit = FALSE
    NoTab = NoTab
    NoPage = NoPage
SPECIFICATION SafeSpec
INVARIANTS ClosedTabsHoldNothing
CHECK_DEADLOCK FALSE
