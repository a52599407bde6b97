SPECIFICATION Spec
CONSTANTS
    InitValues <- MCInitValues
    MaxReceived = 1
    MaxClicks <- MCMaxClicks
    MaxFaults = 1
INVARIANTS
    OffWhenLoaded
CHECK_DEADLOCK FALSE
