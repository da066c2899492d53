SPECIFICATION PartsSpec
CONSTANTS
    PoolStart = 10
    PoolEnd = 12
    Addresses <- MCAddresses
    Clients = {c1, c2, c3, c4}
    NoLease = NoLease
    LeaseTime = 2
    MaxTime = 6
    mac1 = mac1
    MAC1 = MAC1
    mac2 = mac2
    mac3 = mac3
    mac4 = mac4
    ClientIds <- MCClientIds
    Keys <- MCKeys
    CanonicalId <- MCCanonicalId
    Ips <- MCAddresses
    NoReservation = NoReservation
    Arrivals <- MCArrivals
    ServerIp <- MCServerIp
    LeaseTimes = {1, 2, 3, 600}
    Octets = {0, 1, 2, 53, 255}
    MaxField = 5
INVARIANTS
    ManagerConsistent
    ExcludedNotLeased
    DictionariesAgree
    OptionsAsWritten
    ReplyReadsBack
    OnlyStopEnds
PROPERTIES
    NoTakeover
    OnlyOwnLeaseEnds
    ShutdownWorks
CHECK_DEADLOCK FALSE
