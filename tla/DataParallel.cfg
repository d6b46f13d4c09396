\* Up to six terms and four ranks; three threads sorting the program's array of
\* ten and all arrays of up to six zeros and ones; blocks of 2 x 2 threads with up
\* to 36 elements, and an int that is as short as that allows, so that the index
\* overflows; up to four threads multiplying matrices of up to 4 x 4.
SPECIFICATION Spec
CONSTANTS
    MaxTerms = 6
    MaxRanks = 4
    Workers = {w1, w2, w3}
    MaxLength = 6
    TestValues = {0, 1}
    Side = 2
    MaxWork = 36
    IntMax = 39
    MaxThreads = 4
    MaxSide = 4
SYMMETRY Symmetry
INVARIANTS
    PartsExact
    ProductExact
    Sorted
