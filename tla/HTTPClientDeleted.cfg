\* Two hosts of one parent domain; any page may delete what it may set.
CONSTANTS
    Host = {a, b}
    Parent = p
    Name = {n1}
    MaxPerHost = 1
    MaxTotal = 2
    Req = {r1, r2}
    Url = {u1, u2}
    MaxBytes = 3
    Idle = Idle
    Unkept = Unkept
    Sizes = {1, 3, 4}
    Lifetimes = {0, 1}
    MaxClock = 4
    MaxRestarts = 1
SPECIFICATION Spec
INVARIANTS DeletedIsGone
