\* A match between the read and the lock of a cancellation.
CONSTANTS
    Ride = {r1}
    Driver = {d1}
    Call = {c1}
    NoDriver = NoDriver
    NoRide = NoRide
    MaxAccepts = 1
    MaxReports = 0
    MaxFaults = 0
SPECIFICATION Spec
CHECK_DEADLOCK FALSE
INVARIANT
    RefundIsExact
