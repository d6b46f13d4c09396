\* Up to four processes and dimension four; twelve elements on one to four ranks.
\* Programs that wait for ever are part of what is shown.
SPECIFICATION FairSpec
CONSTANTS
    MaxSize = 4
    MaxDim = 4
    N = 12
    Sizes = {1, 2, 3, 4}
INVARIANTS
    RoundTrip
    ProductExact
PROPERTIES
    EndsExactly
CHECK_DEADLOCK FALSE
