\* Three presses of buttons, one of them guarded, one gain, one receipt that
\* cannot be had, and one fate of each kind that waitForReceipt() tells apart.
SPECIFICATION FairSpec
CONSTANTS
    liquidate = liquidate
    change = change
    claim = claim
    Txs = {liquidate, change, claim}
    Guarded = {liquidate}
    Id <- MCId
    Claims <- MCClaims
    StakeId = "stake"
    None = None
    ChainFates = {"repriced", "reverted", "replaced"}
    MaxFailures = 1
    MaxGains = 1
INVARIANTS
    ShownIsTrue
    StateKeptWhileUnfinished
    PendingIsTrueInOrder
PROPERTIES
    EveryOutcomeIsShown
CHECK_DEADLOCK FALSE
