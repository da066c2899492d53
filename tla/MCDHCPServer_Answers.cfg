SPECIFICATION FairSpec
CONSTANTS
    PoolStart = 10
    PoolEnd = 10
    Addresses <- MCAddresses
    Clients = {c1}
    Keys = {c1}
    CanonicalId <- MCCanonicalId
    NoLease = NoLease
    NoAddress = NoAddress
    LeaseTime = 2
    MaxTime = 3
    MaxPackets = 2
    MaxCrashes = 1
    Database = FALSE
    Reordered = TRUE
PROPERTIES
    EveryPacketFinished
    RequestAnswered
CHECK_DEADLOCK FALSE
