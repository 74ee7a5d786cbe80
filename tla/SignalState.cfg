SPECIFICATION TestSpec
CONSTANTS
    Threads = {t1, t2, t3}
    NSignals = 2
INVARIANTS GuestIsCovered HostIsRestored
PROPERTIES SignalsReachHost LockIsReleased TestsPass
CHECK_DEADLOCK FALSE
