\* The actor and an adapter that may refuse: what must always hold, and what must
\* happen in the end, with a connection that may leave for good or come again under
\* another principal.
SPECIFICATION FairHostSpec
CONSTANTS
    flight = flight
    motion = motion
    Scopes = {motion}
    Principals = {1, 2}
    NoPrincipal = NoPrincipal
    Classes = {operator}
    NoClass = NoClass
    Members = {flight}
    NoMember = NoMember
    SequenceSize = 3
    Clients = {ana}
    Catalogs <- StickOnly
    HolderSilence = 1
    OfferTtl = 1
    MaxGeneration = 3
    MaxTime = 1
    HoldTicks = 1
    MayRefuse = TRUE
    MayExpire = TRUE
INVARIANT LatchesAreKept
PROPERTIES AnswersHitTheirLease SilentHoldersAreReleased RecoveryCompletes LatchedComesToRest
