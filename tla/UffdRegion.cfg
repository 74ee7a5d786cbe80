SPECIFICATION FairSpec
CONSTANTS
    Threads = {t1, t2}
    Capacity = 2
    Modules = {"a", "b", "c"}
    InitialSize <- MCInitialSize
    DataPages <- MCDataPages
    MaxWasm = 2
    PerWasm = 2
    RetryLimit = 2
    OrphanPages = {1}
    Configs <- MCConfigs
INVARIANTS HeapAsInitialised FaultsOutside SlotsAccounted
PROPERTIES FaultsAnswered DropEnds
CHECK_DEADLOCK FALSE
