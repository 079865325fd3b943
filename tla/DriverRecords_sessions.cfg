CONSTANTS
    Request = {q1, q2, q3}
    Kind = {"online", "offline", "complete"}
    Ride = {1}
    Estimate <- MCEstimate
    NoRide = NoRide
    Fare = {8, 9}
    NoFare = NoFare
    RateLimit = 1
    MaxTime = 0
    MaxFaults = 1
    Never = Never
SPECIFICATION Spec
SYMMETRY Symmetry
INVARIANTS CreditsKept SummaryMissesOnlyBeside ClosedOnceUnlessBeside PaidByFinalFare
CHECK_DEADLOCK FALSE
