SPECIFICATION FairSpec
CONSTANTS
    s1 = s1
    s2 = s2
    Switches = {s1, s2}
    MaxCalls = 2
    GuestFaults = TRUE
    SetupFails = FALSE
INVARIANTS
    NoInvalidState
PROPERTIES
    KeepsContract
    TerminateReturns
    SpinEnds
    SignalledGuestStops
