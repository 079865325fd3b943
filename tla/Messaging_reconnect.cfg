\* A consumer, two messages, three faults.
CONSTANTS
    Queue = {q1}
    Message = {m1, m2}
    NoMessage = NoMessage
    MaxFaults = 3
SPECIFICATION FairSpec
CHECK_DEADLOCK FALSE
INVARIANTS
    TypeOK
    OnlyCurrentOpen
    OneKeeper
    NothingLost
PROPERTIES
    Reconnects
    WaiterIsWoken
