SPECIFICATION Spec
CONSTANTS
    s1 = s1
    Switches = {s1}
    MaxCalls = 2
    GuestFaults = FALSE
    SetupFails = FALSE
SYMMETRY SwitchSymmetry
INVARIANTS
    SoleReferenceAtExit
