\* Two connections, of one client or of two, two senders, a channel of one message.
CONSTANTS
    Client = {c1, c2}
    MaxSessions = 2
    Sender = {x1, x2}
    HttpSender = {x2}
    NoClient = NoClient
    Capacity = 1
    MaxSends = 3
SPECIFICATION FairSpec
CHECK_DEADLOCK FALSE
INVARIANTS
    TypeOK
    RegisteredIsOpen
    ServedIsRegistered
PROPERTIES
    GoroutinesEnd
    AcceptedIsWritten
