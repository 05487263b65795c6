\* Three tabs at most, two of them saved; a web page and a private one; a crash or an
\* exit and one run after it.
CONSTANTS
    Tab = {t1, t2, t3}
    Page = {web, secret, restore}
    Secret = {secret}
    Restore = restore
    NoPage = NoPage
    MaxClosed = 1
    MaxTabs = 2
    None = None
    NoTab = NoTab
    MaxRuns = 1
    MaxEdits = 4
SPECIFICATION Spec
SYMMETRY Symmetry
INVARIANTS PrivateStaysPrivate CrashedUntilAnswered
PROPERTIES ActiveFollows SessionSurvives
CHECK_DEADLOCK FALSE
