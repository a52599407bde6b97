SPECIFICATION FairSpec
CONSTANTS
    InitValues <- MCInitValues
    MaxReceived = 1
    MaxClicks <- MCMaxClicks
    MaxFaults = 1
INVARIANTS
    TypeOK
    PendingIsAuto
    SwapsWithOthers
PROPERTIES
    AutoGoesOn
CHECK_DEADLOCK FALSE
