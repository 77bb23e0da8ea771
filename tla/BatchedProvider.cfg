\* Four calls, one of them not batchable and one reverting, two blocks, one
\* request lost.
SPECIFICATION FairSpec
CONSTANTS
    NoAnswer = NoAnswer
    Calls = {c1, c2, c3, c4}
    Batchable = {c1, c2, c3}
    Reverting = {c3}
    BlockTags <- MCBlockTags
    Answer <- MCAnswer
    HasMulticall = TRUE
    MaxFailures = 1
INVARIANTS
    AnswersAreOwn
PROPERTIES
    BatchingIsInvisible
    EveryCallSettles
CHECK_DEADLOCK FALSE
