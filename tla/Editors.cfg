SPECIFICATION EditorsSpec
CONSTANTS
    DIGITS = 100
    INFINITY = 1000000
    LIQUIDATION_RESERVE = 20
    MINIMUM_NET_DEBT = 200
    MINIMUM_COLLATERAL_RATIO = 110
    CRITICAL_COLLATERAL_RATIO = 150
    MINIMUM_BORROWING_RATE = 1
    MAXIMUM_BORROWING_RATE = 5
    MINIMUM_REDEMPTION_RATE = 1
    MinuteDecayFactor = 90
    Beta = 200
    CollateralInputs = {0, 347}
    DebtInputs = {200, 251}
    Units = {10}
    Prices = {100, 80}
    Others <- MCOthers
    Share <- MCShare
    AccountBalance = 400
    DebtTokenBalance = 250
    GasRoom = 10
    Slippage = 1
    NumberOfTroves = 2
    Base = 3
    LastMinute = 1
    MaxNews = 2
    MaxInputs = 3
    DepositInputs = {0, 3, 7}
    TokenBalance = 5
    Loss = 4
    Gain = 1
    MaxDepositNews = 2
    MaxDepositInputs = 3
INVARIANTS
    ButtonDoesWhatIsShown
    UntouchedFieldsFollow
    ClosingOnlyCloses
    ViewFollowsTheTrove
    UntouchedDepositFollows
    EmptyDepositIsNotShown
CHECK_DEADLOCK FALSE
