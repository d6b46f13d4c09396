\* Deleting the value of the first node.
SPECIFICATION Spec
CONSTANTS
    Threads = {t1, t2, t3}
    Main = main
    thread_count = 3
    DeleteValues = {1}
    NULL = null
INVARIANTS
    NoUseAfterFree
