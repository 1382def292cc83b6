SPECIFICATION FairSpec
CONSTANTS
    Procs = {thread, thread2, handler}
    WordSize = 3
    NoValue = NoValue
    Calls <- MCCalls
INVARIANTS
    TypeOK
    ReservationFresh
PROPERTIES
    ImplementsCell
    LockFree
