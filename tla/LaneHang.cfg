\* start.rs:33-37 on the run that is replaced.
SPECIFICATION FairSpec
CONSTANTS
    Operations <- Three
    Lines = 1
    NoPlan = NoPlan
    NoApproval = NoApproval
    NoSuccessor = NoSuccessor
    NoOrder = NoOrder
    NoRecord = NoRecord
    NoRun = NoRun
    Kinds = {"survey"}
    Envelopes <- OnlyLong
    Capacity = 2
    MaxPlans = 2
    MaxTime = 0
    MaxTroubles = 1
CHECK_DEADLOCK FALSE
PROPERTY ReplacementsStart
