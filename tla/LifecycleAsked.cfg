SPECIFICATION VmctxSpec
CONSTANTS
    f = f
    g = g
    Functions = {f, g}
    Types = {"EmptyYieldVal"}
    HasStart = FALSE
    SetupFails = FALSE
    DropsFuture = TRUE
    NamesFail = FALSE
    MaxDepth = 0
    MaxHeap = 0
    MaxBorrows = 0
INVARIANTS RunsWhatItIsAsked
