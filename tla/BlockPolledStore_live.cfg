\* One start() call, one failing fetch, three blocks.
SPECIFICATION FairSpec
CONSTANTS
    Fields <- MCFields
    DerivedInputs <- MCDerivedInputs
    Value <- MCValue
    Read <- MCRead
    Undefined = Undefined
    Idle = Idle
    MaxBlock = 3
    Sessions = {s1}
    FetchIds = {f1, f2}
    MaxFailures = 1
PROPERTIES
    EventuallyLoaded
    SettlesWithoutOverlap
    CatchesUp
CHECK_DEADLOCK FALSE
