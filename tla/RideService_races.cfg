\* One ride; a passenger, the timer, two acceptances, the driver's EN_ROUTE and
\* one more report; no faults, a fair run.
CONSTANTS
    Ride = {r1}
    Driver = {d1}
    Call = {c1}
    NoDriver = NoDriver
    NoRide = NoRide
    MaxAccepts = 2
    MaxReports = 1
    MaxFaults = 0
SPECIFICATION FairSpec
CHECK_DEADLOCK FALSE
INVARIANTS
    TypeOK
    TrailExplainsStatus
    SettledOnce
    RefundNeverShort
    ShownIsTrue
PROPERTIES
    NoRideLeftRequested
    NoRideLeftMatched
