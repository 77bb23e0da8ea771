SPECIFICATION Spec
CONSTANTS
    Users = {u1, u2}
    Nobody = nobody
    Scaling = 2
    RatioScale = 10
    GasDivisor = 2
    Unit = 2
    Enabled = {"trove", "liquidate", "deposit", "gain", "frontend", "stake", "token"}
    StakeSizes = {1, 2}
    DebtSizes = {3}
    Fees = {0}
    PoolSizes = {0, 2, 4}
    Prices = {1}
    Gains = {0, 1}
    Values = {1}
    MaxCalls = 5
    TokenCalls = 3
    FirstQuery = 6
INVARIANTS
    TotalsAreTheContracts
    TemporariesAreNull
    AccountsAreTheContracts
CHECK_DEADLOCK FALSE
