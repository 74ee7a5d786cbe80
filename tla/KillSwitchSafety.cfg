SPECIFICATION TestSpec
CONSTANTS
    s1 = s1
    s2 = s2
    Switches = {s1, s2}
    MaxCalls = 6
    FreeCalls = 2
    GuestFaults = TRUE
    SetupFails = TRUE
INVARIANTS
    AlarmOnlyInGuest
    KilledStaysKilled
    OneWinner
    LockPinsDomain
    FiringFindsGuest
PROPERTIES
    NoRevival
    TestsPass
