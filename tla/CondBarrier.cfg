\* Both barrier programs, four threads, three rounds.
SPECIFICATION FairSpec
CONSTANTS
    Threads = {t1, t2, t3, t4}
    NoThread = none
    BarrierCount = 3
INVARIANTS
    TypeOK
    Separation
    SleepersAwaitSomebody
PROPERTIES
    ImplementsBarrier
    Termination
