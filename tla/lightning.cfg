SPECIFICATION FairSpec
CONSTANTS
    p1 = p1
    p2 = p2
    None = None
    MaxCalls = 2
    MaxAddr = 3
    PeerOf <- MCPeerOf
    MaxBlocks = 3
    MaxFaults = 1
INVARIANTS
    TypeOK
    OneChannelPerRow
    OwnCoin
CHECK_DEADLOCK FALSE
PROPERTIES
    FundingConfirmed
    StaleTakenBack
