\* Two scopes fought over by two principals.
SPECIFICATION Spec
CONSTANTS
    Scopes = {flight, gimbal}
    Principals = {ana, bo}
    NoPrincipal = NoPrincipal
    Classes = {operator}
    NoClass = NoClass
    Ttls = {1}
    MaxGeneration = 2
    MaxTime = 2
SYMMETRY Symmetry
INVARIANTS Fenced NoGapAtTheDeadline
PROPERTIES PassesByConsent EffectsTellAll SweepIsExact LeaseSpec
