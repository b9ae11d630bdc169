\* Three documents, with and without phase deadlines.
SPECIFICATION FairSpec
CONSTANTS
    Documents <- MCDocuments
    NoDeadline = NoDeadline
    WallLimit = 4
    ReceiptTimeout = 2
    RetryLimit = 1
INVARIANTS
    NothingLeftBehind
    CompletionIsEarned
PROPERTIES
    WorkInOrder
    MissionEnds
