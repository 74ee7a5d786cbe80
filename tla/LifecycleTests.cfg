SPECIFICATION TestSpec
CONSTANTS
    f = f
    Functions = {f}
    Types = {"EmptyYieldVal", "u64", "bool", "CYieldedVal"}
    SetupFails = FALSE
    DropsFuture = FALSE
    NamesFail = FALSE
    MaxDepth = 1
    MaxHeap = 2
    MaxBorrows = 1
PROPERTIES TestsPass
CHECK_DEADLOCK FALSE
