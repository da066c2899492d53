SPECIFICATION MCSpec
CONSTANTS
    Domains = {d1}
    Builtins = {AdBlock}
    BuiltinFile <- MCBuiltinFile
    Customs = {n1, n2}
    CustomFiles = {f1}
    None = None
    Live = Live
    StoreFails = TRUE
    ReadFails = TRUE
    MaxStored = 1
    MaxCrashes = 2
SYMMETRY Symmetry
INVARIANTS
    NoFilterSkipped
    ManagerAgrees
    LoadersFollowFiles
    StoreFollows
    ListsOutliveFilters
