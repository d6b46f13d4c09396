\* Does mode 0 prefer readers?
SPECIFICATION Spec
CONSTANTS
    Threads = {t1, t2, t3}
    NoThread = none
    OpsPerThread = 1
    MaxSpurious = 0
PROPERTIES
    ReaderPreference
