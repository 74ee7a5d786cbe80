SPECIFICATION VmctxSpec
CONSTANTS
    f = f
    Functions = {f}
    Types = {"EmptyYieldVal", "CYieldedVal"}
    HasStart = TRUE
    SetupFails = TRUE
    DropsFuture = TRUE
    NamesFail = TRUE
    MaxDepth = 1
    MaxHeap = 1
    MaxBorrows = 1
INVARIANTS
    TakesWhatItAwaits
    FutureIsFrozen
    StartRunsFirst
    ExpectationsHold
    RefsValid
    UnwindingReleases
    CResultAgrees
