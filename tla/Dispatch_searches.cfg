\* One ride, two drivers and two searches (the request may be delivered twice).
CONSTANTS
    Ride = {r1}
    Driver = {d1, d2}
    Search = {g1, g2}
    NoRide = NoRide
    NoDriver = NoDriver
    MaxCandidates = 2
    MaxFaults = 1
SPECIFICATION FairSpec
CHECK_DEADLOCK FALSE
INVARIANTS
    TypeOK
    DriverHasAgreed
    PendingIsAwaited
    EngagedIsTaken
PROPERTY
    SearchEnds
