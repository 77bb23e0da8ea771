SPECIFICATION FairSpec
CONSTANTS
    Blocks = {1, 2, 3}
    Selection <- MCSelection
    Truncated <- MCTruncated
    MaxMounts = 2
    Amounts = {0, 100, 400}
    MaxEntries = 3
    None = None
INVARIANTS
    ScreenFollowsStore
    EstimateIsOfTheAmount
PROPERTIES
    FirstMountIsDrawn
    HintsArrive
CHECK_DEADLOCK FALSE
