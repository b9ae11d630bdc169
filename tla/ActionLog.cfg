SPECIFICATION Spec
CONSTANTS
    IdMod = 8
    Cached = 1
    Queue = 2
    None = None
    MaxLag = 1
    MaxGap = 2
    MaxStream = 2
    MaxPresses = 8
    MaxSessions = 2
    Remembered = 4
INVARIANTS
    AnswersAreTrue
PROPERTIES
    OnceWhileRegistered
CHECK_DEADLOCK FALSE
