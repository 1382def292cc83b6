SPECIFICATION Spec
CONSTANTS
    WordSize = 64
    Granule = 2
    PowersOfTwo <- MCPowersOfTwo
    NumRegions = 6
    TableSize = 5
    Threads = {control, debug}
    StackGuard = TRUE
    MaxCalls = 3
    Requests <- MCRequests
INVARIANTS
    TypeOK
    TableKept
    MaskingSuffices
    MaskRestored
    RowShown
    LastRegionOwn
    FitMapsRequest
