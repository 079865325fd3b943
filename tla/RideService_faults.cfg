\* Two drivers who accept; a crash, failed call or lost acknowledgement.
CONSTANTS
    Ride = {r1}
    Driver = {d1, d2}
    Call = {}
    NoDriver = NoDriver
    NoRide = NoRide
    MaxAccepts = 2
    MaxReports = 2
    MaxFaults = 1
SPECIFICATION Spec
CHECK_DEADLOCK FALSE
SYMMETRY Symmetry
INVARIANTS
    SettledOnce
    SettingOutHasDriver
    CompletedOnlyFromProgress
    RequestedIsWatched
PROPERTY
    ImplementsLifecycle
