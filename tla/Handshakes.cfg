\* Three threads; up to four lines of up to two words for the tokenizers.
SPECIFICATION FairSpec
CONSTANTS
    thread_count = 3
    NULL = null
    Garbage = garbage
    Static = static
    MaxLines = 4
    MaxWords = 2
INVARIANTS
    MessagesDelivered
    TurnsTaken
PROPERTIES
    BarriersHold
    Termination
