\* The lock of program_6_.c, both modes, four threads of two operations each.
SPECIFICATION FairSpec
CONSTANTS
    Threads = {t1, t2, t3, t4}
    NoThread = none
    OpsPerThread = 2
    MaxSpurious = 1
INVARIANTS
    TypeOK
    Exclusion
    CountersMatch
    NoLostWakeup
PROPERTIES
    WriterPreference
    ImplementsReadWriteLock
    Termination
