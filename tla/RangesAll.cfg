SPECIFICATION SearchSpec
CONSTANTS
    Top = 8
    First = 1
    Last = 8
    Values = {v}
    MaxRanges = 3
    Inputs <- MCInputs
INVARIANTS
    Partition
    ListsExact
    NoNeedlessCut
    SearchBounded
    NullOnlyOutside
PROPERTY
    SearchEnds
CHECK_DEADLOCK FALSE
