SPECIFICATION Spec
CONSTANTS
    t1 = t1
    t2 = t2
    Threads = {t1, t2}
    Capacity = 2
    SpacePages = 3
    MemoryPages = 3
    HeapLimits = {2}
    Modules <- MCModules
    AllocStrategy = "Random"
    CallsFail = TRUE
SYMMETRY ThreadSymmetry
INVARIANTS
    SlotsAccounted
    NoLeftovers
    HeapLayout
    MappedWhileUsed
CHECK_DEADLOCK FALSE
