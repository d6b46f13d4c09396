\* Two threads share five operations (two each) on a list of at most two keys.
SPECIFICATION FairSpec
CONSTANTS
    Threads = {t1, t2}
    Main = main
    NoThread = none
    Keys = {1, 2}
    Addrs = {a1, a2}
    NULL = null
    TotalOps = 5
    InsertsInMain = 2
INVARIANTS
    TypeOK
    ListSorted
    MemorySafe
    NoLeak
    ChangesAlone
    CountsConserved
PROPERTIES
    ImplementsSharedSet
    Termination
