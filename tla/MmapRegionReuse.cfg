SPECIFICATION Spec
CONSTANTS
    t1 = t1
    t2 = t2
    Threads = {t1, t2}
    Capacity = 1
    SpacePages = 2
    MemoryPages = 2
    HeapLimits = {2}
    Modules <- MCModules
    AllocStrategy = "Linear"
    CallsFail = FALSE
SYMMETRY ThreadSymmetry
INVARIANTS
    SlotBacksOneAllocation
CHECK_DEADLOCK FALSE
