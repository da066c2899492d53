SPECIFICATION PartsSpec
CONSTANTS
    Packets <- MCPackets
    Decodable <- MCDecodable
    Octets = {0, 1, 2, 12, 13, 14, 65, 128, 192, 195}
    MaxQuestion = 4
    MAX_DOMAIN_LENGTH = 5
    MAX_POINTER_JUMPS = 3
    Domains = {d1, d2, d3}
    Responses = {response}
    NoEntry = NoEntry
    TTL = 2
    Capacity = 2
    LastClock = 4
    MaxUses = 5
    Readers = {r1}
    Latencies = {1, 3}
    HistorySize = 2
    LastSecond = 4
    MaxTotal = 3
    MaxEntries = 2
    Retention = 2
    NoTail = NoTail
    Torn = Torn
    DiskFails = TRUE
    LastTime = 5
    MaxRecords = 5
    MaxEnds = 2
CHECK_DEADLOCK FALSE
INVARIANTS
    ParsesTheQuestion
    NeverBeyondTTL
    AverageAtMostMax
    RecentIsRecent
    EntriesAreSeconds
    WrittenSurvives
    NothingOlderThanCleaned
    ShownIsNewest
PROPERTY
    EvictsLeastRecentlyUsed
