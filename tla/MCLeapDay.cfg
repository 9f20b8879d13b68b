SPECIFICATION Spec
CONSTANTS
    SecondsPerDay = 2
    TimeWrap = 1000000
    WeightUnit = 4
    LastDay = 47540
    StartDays = {}
    Span = 1500
    GrantAmounts = {}
    CliffDates = {0, 6}
    Durations = {2, 12, 14, 15, 60, 122}
    LastInstant = 132
    Reserves = {}
    Supply = 40
    TradeSizes = {1, 3, 7}
    MaxReserve = 40
INVARIANTS TmGetGregorian
CHECK_DEADLOCK FALSE
