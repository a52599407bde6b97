SPECIFICATION Spec
CONSTANTS
    c1 = c1
    c2 = c2
    s1 = s1
    s2 = s2
    Coin = {c1, c2}
    Deposited = {c1}
    SessionId = {s1, s2}
    NoSession = NoSession
    N = 3
    MaxLoads = 2
    MaxCrashes = 1
    MaxFailures = 1
SYMMETRY Symmetry
INVARIANTS
    TypeOK
    NothingLost
    SavedIsLoaded
    StopNotStarved
CHECK_DEADLOCK FALSE
