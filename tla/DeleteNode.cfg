\* Deleting a value that is absent, first, in the middle or last.
SPECIFICATION Spec
CONSTANTS
    Threads = {t1, t2, t3}
    Main = main
    thread_count = 3
    DeleteValues = {0, 1, 2, 3}
    NULL = null
INVARIANTS
    OnlyOldHeadStale
    ListIntact
    AnswersAgree
