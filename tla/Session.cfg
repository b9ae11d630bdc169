\* One group of two members contended for by two connections, while the
\* contract of its stick changes.
SPECIFICATION Spec
CONSTANTS
    flight = flight
    dock = dock
    motion = motion
    Scopes = {motion}
    Principals = {1, 2}
    NoPrincipal = NoPrincipal
    Classes = {operator}
    NoClass = NoClass
    Members = {flight, dock}
    NoMember = NoMember
    SequenceSize = 3
    Clients = {ana, bo}
    Catalogs <- OneGroup
    HolderSilence = 2
    OfferTtl = 1
    MaxGeneration = 3
    MaxTime = 2
SYMMETRY Symmetry
INVARIANTS
    HoldersAreAccountedFor ActsAreLeased RepliesAreTrue
PROPERTIES ContractsAreFenced LossesRunTheirCourse
