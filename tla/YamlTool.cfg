SPECIFICATION RoundTripSpec
CONSTANTS
    Sources <- MCSources
    TextOf <- MCTextOf
    KeyLength = 1024
    BadValues = {"hello"}
    EntryCounts = {1, 2}
    TableSize = 4
    MaxNesting = 8
    Short = 2
    Long = 4
INVARIANTS
    TypeOK
    KeysAhead
    StacksInStep
    BlocksInStep
    EventsWellFormed
    TextsLoad
    RegionsAsWritten
PROPERTIES
    ProgramEnds
