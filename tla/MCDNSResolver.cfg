SPECIFICATION MCSpec
CONSTANTS
    server = server
    provider = provider
    custom = custom
    Domains = {d1}
    UpstreamCodes = {"noerror", "other"}
    Hosts = {server, provider, custom}
    Custom = custom
    Configs <- MCConfigs
    SaveFails = TRUE
    None = None
    TTL = 2
    Capacity = 1
    LastClock = 3
    MaxQueries = 3
    MaxUpstreams = 3
    MaxCrashes = 1
CHECK_DEADLOCK FALSE
INVARIANTS
    CountersAddUp
    OnlyActiveOpen
    ActiveIsConfigured
PROPERTIES
    BlockedWithinTTL
    NobodyWaitsForEver
