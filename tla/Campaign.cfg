SPECIFICATION FairSpec
CONSTANTS
    c0 = c0
    c1 = c1
    s1 = s1
    Initial = c0
    Challengers <- MCOne
    Suites <- MCSuite
    FirstSuite = s1
    Runs = 2
    Limit = 1
    None = none
    MaxMishaps = 3
INVARIANTS
    MemoryIsDurable
    FlownOnce
    ChainIsTheFact
    OneSession
PROPERTIES
    TrialsSpec
    CallsReturn
