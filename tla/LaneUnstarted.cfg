\* lane.rs:431 on a run whose successor could not be started.
SPECIFICATION FairSpec
CONSTANTS
    Operations <- Three
    Lines = 1
    NoPlan = NoPlan
    NoApproval = NoApproval
    NoSuccessor = NoSuccessor
    NoOrder = NoOrder
    NoRecord = NoRecord
    NoRun = NoRun
    Kinds = {"survey"}
    Envelopes <- OnlyLong
    Capacity = 1
    MaxPlans = 2
    MaxTime = 0
    MaxTroubles = 2
CHECK_DEADLOCK FALSE
INVARIANT CompletionsAreTrue
