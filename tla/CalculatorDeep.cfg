SPECIFICATION Spec
CONSTANTS
    WordSize = 2048
    Granule = 4
    PowersOfTwo <- MCPowersOfTwo
    NumRegions = 2
    MaxEntries = 4
    Requests <- DeepRequests
INVARIANTS
    TypeOK
    RegionsConsecutive
    EntryProgrammable
    FailsOnlyWhenFull
PROPERTY
    ImplementsCoverage
CHECK_DEADLOCK FALSE
