SPECIFICATION Spec
CONSTANTS
    PoolStart = 10
    PoolEnd = 10
    Addresses <- MCAddresses
    Clients = {c1, c2}
    Keys = {c1, c2}
    CanonicalId <- MCCanonicalId
    NoLease = NoLease
    NoAddress = NoAddress
    LeaseTime = 2
    MaxTime = 3
    MaxPackets = 1
    MaxCrashes = 1
    Database = TRUE
    Reordered = FALSE
SYMMETRY Symmetry
INVARIANTS
    ExcludedNotInUse
    ControlsFollowTables
    ReservedNotExcluded
CHECK_DEADLOCK FALSE
