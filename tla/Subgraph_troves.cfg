SPECIFICATION Spec
CONSTANTS
    Users = {u1, u2, u3}
    Nobody = nobody
    Scaling = 2
    RatioScale = 10
    GasDivisor = 4
    Unit = 2
    Enabled = {"trove", "adjust", "close", "liquidate", "redeem", "claim", "price"}
    StakeSizes = {1, 2}
    DebtSizes = {2, 4}
    Fees = {1}
    PoolSizes = {2}
    Prices = {1, 3}
    Gains = {0}
    Values = {1}
    MaxCalls = 5
    TokenCalls = 0
    FirstQuery = 5
SYMMETRY UserSymmetry
INVARIANTS
    TotalsAreTheContracts
    TroveIsTheContracts
    SortKeyOrdersByRatio
    CountersCount
    ChangesFindTheirCall
    ChangesAreAChain
CHECK_DEADLOCK FALSE
