SPECIFICATION FairSpec
CONSTANTS
    Caller = {p1}
    Loop = {l1, l2}
    MaxSemaphore = 3
    MaxLength = 2
    MaxTimeouts = 1
    MaxCrashes = 1
    MaxUpdates = 1
    MaxOutages = 1
    p1 = p1
    l1 = l1
    l2 = l2
INVARIANTS
    TypeOK
    SecondMessageAlone
PROPERTIES
    SecondMessageSettles
    Served
CHECK_DEADLOCK FALSE
