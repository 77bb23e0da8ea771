\* One start() call, two fetches at a time, no failing fetch, two blocks.
SPECIFICATION FairSpec
CONSTANTS
    Fields <- MCFields
    DerivedInputs <- MCDerivedInputs
    Value <- MCValue
    Read <- MCRead
    Undefined = Undefined
    Idle = Idle
    MaxBlock = 2
    Sessions = {s1}
    FetchIds = {f1, f2}
    MaxFailures = 0
PROPERTIES
    SettlesOnHead
CHECK_DEADLOCK FALSE
