SPECIFICATION GovernanceSpec
CONSTANTS
    Nobody = ""
    WeightAt <- WeightAtInstant
    MinActivatedStake = 1
    MaxVotes = 2
    Day = 2
    DistInterval = 1
    TotalIntervals = 2
    BucketInterval = 2
    MaturityDays = 1
    RexRatio = 1
    InitTotalRent = 1
    Never = 1000
    NameValue <- ByName
    Users = {"alice", "bob", "carol"}
    Times = {30, 33, 37, 44}
    ram_gift_bytes = 1
    Seats = 1
    B1 = "carol"
    B1Locked <- Locked
    Amounts = {1}
    RexAmounts = {1}
    MaxExecs = {2}
    Stakes = {0, 1}
    Limits = {1}
    refund_delay_sec = 3
    Ballots <- BallotsOfTwo
    Payments = {}
    Bytes = {}
    Rates = {}
    RamSizes = {}
    RamWrap = 1
    Names = {"io", "eos", "a.io", "twelveletter"}
    Suffix <- SuffixOf
    Free = {"twelveletter"}
    Bidders = {"alice", "bob"}
    Creators = {"alice", "io", "eosio"}
    Bids <- BidsFor
    ScheduleInterval = 1
    pay_factor_precision = 1
    min_pervote_daily_pay = 1
    Year = 4
    ContinuousRate <- LogRate
    RateUnit = 1
    Factors = {2}
    Scenarios = {"votes", "launch", "pay", "legacy", "names"}
    MaxActions <- Budget
INVARIANTS VotesAddUp NoProxyCycle NamesBacked PayBacked SharesAddUp
PROPERTIES BiddersWhole OutbidPaid
CHECK_DEADLOCK FALSE
