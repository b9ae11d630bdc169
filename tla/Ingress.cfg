SPECIFICATION Spec
CONSTANTS
    Offset <- MCOffset
    Bucket = 2
    Cadence = 2
    Period = 2
    Window = 4
    MaxDelay = 4
    StaleAge = 4
    Wrap = 3
    Probes = 2
    Kept = 2
    None = None
    MaxTime = 7
    MaxDatagrams = 5
    MaxFrames = 4
    MaxGeneration = 1
    MaxLag = 1
INVARIANTS
    CommandsAreFresh
    QueueingIsAge
PROPERTIES
    FramesInOrder
CHECK_DEADLOCK FALSE
