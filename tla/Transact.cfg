SPECIFICATION Spec
CONSTANTS
    DIGITS = 100
    INFINITY = 100000000
    LIQUIDATION_RESERVE = 20
    MINIMUM_NET_DEBT = 200
    MINIMUM_COLLATERAL_RATIO = 110
    CRITICAL_COLLATERAL_RATIO = 150
    MINIMUM_BORROWING_RATE = 1
    MAXIMUM_BORROWING_RATE = 15
    MINIMUM_REDEMPTION_RATE = 1
    MinuteDecayFactor = 50
    Beta = 200
    Own = 3
    BaseGas = 100000
    redeemMaxIterations = 3
    Calls <- MCCalls
    FirstChains <- MCChains
    NewTroves <- MCNew
    Prices = {100, 25}
    GainStep = 10
    RedeemedElsewhere = 1075
    MaxMinute = 4
    MaxNews = 1
    defaultBorrowingRateSlippageTolerance = 1
    defaultRedemptionRateSlippageTolerance = 1
    defaultBorrowingFeeDecayToleranceMinutes = 2
INVARIANTS
    FailsForAReason
    RedeemsWhatIsRedeemable
    HintsAreUsable
    PromiseTellsTheTruth
CHECK_DEADLOCK FALSE
