SPECIFICATION Spec
CONSTANTS
    WordSize = 64
    Granule = 2
    PowersOfTwo <- MCPowersOfTwo
    NumRegions = 6
    TableSize = 5
    Threads = {control, debug}
    StackGuard = TRUE
    MaxCalls = 2
    Requests <- MCRequests
INVARIANT
    LastRegionWhole
