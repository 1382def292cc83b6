SPECIFICATION Spec
CONSTANTS
    WordSize = 128
    Granule = 2
    PowersOfTwo <- MCPowersOfTwo
    NumRegions = 16
    MaxEntries = 20
    Requests <- AllRequests
INVARIANTS
    CoversOnlyRange
    CoversWholeRange
    EntriesDisjoint
    LargestEntrySelected
    EntryAsReckoned
    EntriesBounded
PROPERTY
    Terminates
CHECK_DEADLOCK FALSE
