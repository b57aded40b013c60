SPECIFICATION Spec
CONSTANTS
    Starting = 8
    OrderSize = 3
    MaxExposure = 11
    Limits <- MCLimits
    Floors <- MCFloors
    Amounts <- MCAmounts
    AvgSlips <- MCAvgSlips
    MaxPnl = 6
    MaxDust = 2
INVARIANTS
    TypeOK
    CashCovered
    LedgerAgrees
    ExposureCapped
PROPERTIES
    WithdrawalIsProfit
    BuysAboveFloor
