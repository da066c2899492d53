SPECIFICATION MCSpec
CONSTANTS
    server = server
    provider = provider
    custom = custom
    Domains = {d1}
    UpstreamCodes = {"noerror"}
    Hosts = {server, custom}
    Custom = custom
    Configs <- CustomConfigs
    SaveFails = FALSE
    None = None
    TTL = 2
    Capacity = 1
    LastClock = 0
    MaxQueries = 2
    MaxUpstreams = 2
    MaxCrashes = 1
CHECK_DEADLOCK FALSE
INVARIANTS
    StartsWithAccepted
