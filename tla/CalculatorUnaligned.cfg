SPECIFICATION Spec
CONSTANTS
    WordSize = 256
    Granule = 4
    PowersOfTwo <- MCPowersOfTwo
    NumRegions = 16
    MaxEntries = 20
    Requests <- UnalignedRequests
INVARIANT
    ArbitraryAlignment
CHECK_DEADLOCK FALSE
