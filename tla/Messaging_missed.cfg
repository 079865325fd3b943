\* One dropped connection while a consumer is not waiting yet.
CONSTANTS
    Queue = {q1}
    Message = {m1}
    NoMessage = NoMessage
    MaxFaults = 1
SPECIFICATION FairSpec
CHECK_DEADLOCK FALSE
PROPERTY
    Resubscribes
