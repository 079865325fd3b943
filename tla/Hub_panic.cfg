\* One connection that ends while a message is sent.
CONSTANTS
    Client = {c1}
    MaxSessions = 2
    Sender = {x1, x2}
    HttpSender = {x2}
    NoClient = NoClient
    Capacity = 1
    MaxSends = 3
SPECIFICATION Spec
CHECK_DEADLOCK FALSE
INVARIANT
    NeverPanics
