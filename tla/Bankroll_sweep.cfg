SPECIFICATION Spec
CONSTANTS
    Starting = 8
    OrderSize = 2
    MaxExposure = 12
    Limits = {4}
    Floors = {0}
    Amounts = {0, 2, 6}
    AvgSlips = {0}
    MaxPnl = 8
    MaxDust = 0
PROPERTY SweepAfterCrossing
