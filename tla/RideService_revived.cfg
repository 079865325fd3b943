\* A report read against MATCHED and committed after the cancellation.
CONSTANTS
    Ride = {r1}
    Driver = {d1}
    Call = {c1}
    NoDriver = NoDriver
    NoRide = NoRide
    MaxAccepts = 1
    MaxReports = 0
    MaxFaults = 0
SPECIFICATION Spec
CHECK_DEADLOCK FALSE
INVARIANT
    CancelledIsFinal
