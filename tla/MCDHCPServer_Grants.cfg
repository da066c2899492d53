SPECIFICATION SpecWithoutApi
CONSTANTS
    PoolStart = 10
    PoolEnd = 11
    Addresses <- MCAddresses
    Clients = {c1, c2}
    Keys = {c1, c2}
    CanonicalId <- MCCanonicalId
    NoLease = NoLease
    NoAddress = NoAddress
    LeaseTime = 2
    MaxTime = 3
    MaxPackets = 2
    MaxCrashes = 0
    Database = FALSE
    Reordered = FALSE
SYMMETRY Symmetry
PROPERTY
    KeepsLedger
CHECK_DEADLOCK FALSE
