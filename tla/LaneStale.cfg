\* journal.rs:6 on an order that waits for the journal while a later one starts.
SPECIFICATION Spec
CONSTANTS
    Operations <- Three
    Lines = 1
    NoPlan = NoPlan
    NoApproval = NoApproval
    NoSuccessor = NoSuccessor
    NoOrder = NoOrder
    NoRecord = NoRecord
    NoRun = NoRun
    Kinds = {"survey"}
    Envelopes <- OnlyHome
    Capacity = 1
    MaxPlans = 1
    MaxTime = 1
    MaxTroubles = 2
CHECK_DEADLOCK FALSE
PROPERTY StartsAreJournalled
