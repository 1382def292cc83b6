SPECIFICATION Spec
CONSTANTS
    WordSize = 64
    Granule = 2
    PowersOfTwo <- MCPowersOfTwo
    NumRegions = 16
    Tables <- DistinctTables
INVARIANT
    HighestShown
CHECK_DEADLOCK FALSE
