SPECIFICATION Spec
CONSTANTS
    SecondsPerDay = 2
    TimeWrap = 1000000
    WeightUnit = 4
    LastDay = 47540
    StartDays = {0, 14, 27, 28, 29, 30, 58, 59, 364, 789, 40236}
    Span = 1500
    GrantAmounts = {1, 5, 12}
    CliffDates = {0, 6}
    Durations = {2, 12, 14, 15, 60, 122}
    LastInstant = 132
    Reserves = {5, 12, 30}
    Supply = 40
    TradeSizes = {1, 3, 7}
    MaxReserve = 40
INVARIANTS TmGetRight MonthsCounted AccrualBounded PricesAgree
PROPERTIES AccrualNeverDrops ProductNeverFalls
CHECK_DEADLOCK FALSE
