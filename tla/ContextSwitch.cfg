SPECIFICATION Spec
CONSTANTS
    NHosts = 2
    Calls <- MCCalls
    Clobbered <- IntegerScratch
    MaxRuns = 2
    MaxSwaps = 2
INVARIANTS
    EntryMeetsABI
    SwitchesRestore
    ResultIsFresh
CHECK_DEADLOCK FALSE
