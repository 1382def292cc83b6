SPECIFICATION Spec
CONSTANTS
    WordSize = 64
    Granule = 2
    PowersOfTwo <- MCPowersOfTwo
    NumRegions = 16
    Tables <- PairTables
INVARIANTS
    MapMatchesHardware
    FirstAndLastMatchMap
    RefinementShown
CHECK_DEADLOCK FALSE
