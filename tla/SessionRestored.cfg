\* A crash with two tabs, the second one active, and the answer to the prompt.
CONSTANTS
    Tab = {t1, t2, t3}
    Page = {web, secret, restore}
    Secret = {secret}
    Restore = restore
    NoPage = NoPage
    MaxClosed = 1
    MaxTabs = 2
    None = None
    NoTab = NoTab
    MaxRuns = 1
    MaxEdits = 4
SPECIFICATION Spec
SYMMETRY Symmetry
PROPERTIES RestoredStays
CHECK_DEADLOCK FALSE
