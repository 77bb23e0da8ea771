\* Two start() calls, three fetches in flight, three blocks, one failing fetch.
SPECIFICATION Spec
CONSTANTS
    Fields <- MCFields
    DerivedInputs <- MCDerivedInputs
    Value <- MCValue
    Read <- MCRead
    Undefined = Undefined
    Idle = Idle
    MaxBlock = 3
    Sessions = {s1, s2}
    FetchIds = {f1, f2, f3}
    MaxFailures = 1
SYMMETRY MCSymmetry
INVARIANTS
    StateIsConsistent
    FollowerInSync
    NoAssertionFails
PROPERTIES
    ContractHolds
CHECK_DEADLOCK FALSE
