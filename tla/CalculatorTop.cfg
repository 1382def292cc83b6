SPECIFICATION Spec
CONSTANTS
    WordSize = 128
    Granule = 2
    PowersOfTwo <- MCPowersOfTwo
    NumRegions = 16
    MaxEntries = 20
    Requests <- AllRequests
INVARIANT
    FirstAndLastAddress
CHECK_DEADLOCK FALSE
