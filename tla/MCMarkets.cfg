SPECIFICATION MarketsSpec
CONSTANTS
    Nobody = ""
    WeightAt <- EachInstant
    MinActivatedStake = 1
    MaxVotes = 2
    Day = 2
    DistInterval = 1
    TotalIntervals = 2
    BucketInterval = 2
    MaturityDays = 1
    RexRatio = 1
    InitTotalRent = 1
    Never = 1000
    NameValue <- ByName
    Users = {"alice", "bob"}
    Times = {4, 7, 9}
    ram_gift_bytes = 1
    Seats = 1
    B1 = "b1"
    B1Locked <- NothingLocked
    Amounts = {3}
    RexAmounts = {3, 5}
    MaxExecs = {2}
    Stakes = {0, 1}
    Limits = {2}
    refund_delay_sec = 3
    Ballots <- OneBallot
    Payments = {2, 3}
    Bytes = {2, 3}
    Rates = {2}
    RamSizes = {20}
    RamWrap = 5
    Names = {}
    Suffix <- NoFunction
    Free = {}
    Bidders = {}
    Creators = {}
    Bids <- NoFunction
    ScheduleInterval = 1
    pay_factor_precision = 1
    min_pervote_daily_pay = 1
    Year = 1
    ContinuousRate <- NoFunction
    RateUnit = 1
    Factors = {}
    Scenarios = {"rex", "stakes", "ram"}
    MaxActions <- Budget
INVARIANTS RexBooks ReturnsAccounted StakeBacked ResourcesAddUp StakedAddsUp RamSolvent
PROPERTIES RexBooksBalance SharePriceNeverFalls OrdersFilled
CHECK_DEADLOCK FALSE
