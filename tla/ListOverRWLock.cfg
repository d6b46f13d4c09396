\* Two threads of two operations each over the hand-written lock, both modes.
SPECIFICATION FairSpec
CONSTANTS
    Threads = {t1, t2}
    Main = main
    NoThread = none
    Keys = {1, 2}
    Addrs = {a1, a2}
    NULL = null
    TotalOps = 4
    InsertsInMain = 1
PROPERTIES
    ImplementsListWork
    Termination
