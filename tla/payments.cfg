SPECIFICATION PaymentsFairSpec
CONSTANTS
    MaxChan = 2
    MaxPay = 1
    MaxFaults = 1
INVARIANTS
    PaymentsTypeOK
    ManagerNotAhead
CHECK_DEADLOCK FALSE
PROPERTIES
    PaymentClaimed
    EventShown
