CONSTANTS
    Request = {q1, q2, q3}
    Kind = {"online", "location"}
    Ride = {1}
    Estimate <- MCEstimate
    NoRide = NoRide
    Fare = {}
    NoFare = NoFare
    RateLimit = 1
    MaxTime = 1
    MaxFaults = 1
    Never = Never
SPECIFICATION Spec
SYMMETRY Symmetry
INVARIANTS TypeOK OneCurrentUnlessBeside LocatedForGood NotFiledUnderPastRide RateKept HolderWaitsOnlyBesideCurrent
CHECK_DEADLOCK FALSE
