\* Four threads follow each other along a list of four nodes.
SPECIFICATION FairSearchSpec
CONSTANTS
    thread_count = 4
    Values = {0, 1, 3, 4, 5}
INVARIANTS
    SearchTypeOK
    AnswersRight
    DestroyedUnused
PROPERTIES
    NoOvertaking
    SearchEnds
