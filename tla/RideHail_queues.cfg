\* One ride, one driver, one search; one fault of the two services together.
CONSTANTS
    Ride = {r1}
    Driver = {d1}
    Search = {g1}
    NoRide = NoRide
    NoDriver = NoDriver
    MaxCandidates = 1
    MaxAccepts = 1
    MaxReports = 2
    MaxFaults = 1
SPECIFICATION Spec
CHECK_DEADLOCK FALSE
SYMMETRY Symmetry
INVARIANT
    CompletionIsEntered
PROPERTY
    ImplementsDispatch
