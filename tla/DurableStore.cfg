SPECIFICATION Spec
CONSTANTS
    Names <- MCNames
    Temps <- MCTemps
    Inodes <- MCInodes
    Values <- MCValues
    a = a
    b = b
    t1 = t1
    t2 = t2
    slot = slot
    object = object
    Slot = slot
    Object = object
    Torn = torn
    NoFile = none
    Absent = absent
    NoTemp = notemp
    SweepLimit = 2
    MaxMishaps = 2
SYMMETRY MCSymmetry
INVARIANTS
    SettledIsDurable
    CrashesAreRepairable
PROPERTIES
    RegisterSpec
