\* Both barrier programs when a wait may return without a broadcast.
SPECIFICATION SpuriousSpec
CONSTANTS
    Threads = {t1, t2, t3}
    NoThread = none
    BarrierCount = 2
PROPERTIES
    LoopAbsorbsOtherEvents
