\* One lane, two plans one after the other or one revised, and one trouble.
\* The bounds on plans, time and troubles end a behaviour.
SPECIFICATION Spec
CONSTANTS
    Operations <- Three
    Lines = 1
    NoPlan = NoPlan
    NoApproval = NoApproval
    NoSuccessor = NoSuccessor
    NoOrder = NoOrder
    NoRecord = NoRecord
    NoRun = NoRun
    Kinds = {"survey", "operations"}
    Envelopes <- HomeOrHold
    Capacity = 1
    MaxPlans = 2
    MaxTime = 1
    MaxTroubles = 1
CHECK_DEADLOCK FALSE
INVARIANT HoldsAreInForce
PROPERTIES UnderApproval JournalLeads OutcomesAreTrue NothingIsReplayed HandBackComesFirst
