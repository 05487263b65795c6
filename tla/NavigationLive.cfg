\* Two tabs, one page, two loads, a channel of one place, shutdown at any moment.
CONSTANTS
    Tab = {t1, t2}
    FirstTab = t1
    Page = {p1}
    p1 = p1
    p2 = p1
    Saved <- Fresh
    MaxLoads = 2
    QueueSize = 1
    CanQuit = TRUE
    NoTab = NoTab
    NoPage = NoPage
SPECIFICATION Spec
PROPERTIES LoadingEnds QuitEnds
CHECK_DEADLOCK FALSE
