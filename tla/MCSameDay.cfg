SPECIFICATION FairSpec
CONSTANTS
    tok = tok
    fake = fake
    self = self
    alice = alice
    ore = ore
    Contracts = {tok}
    Symbols = {ore}
    Accounts = {self, alice}
    Self = self
    Genesis <- AllTokens
    GenesisIssuer = alice
    GenesisSupply = 2
    TokenUsers = {}
    MaxAmount = 2
    SecondsPerDay = 2
    TimeWrap = 1000
    WeightUnit = 2
    Times = {1, 2, 63}
    Dates = {0, 1, 62}
    Periods = {1}
    Quantities = {1, 2}
    Weights = {0, 1}
    PauseTimes = {}
    NewPauseTimes = {0}
    TimeMoves = {}
    MaxPauseTime = 300
    MaxVestings = 1
PROPERTIES PaidAtTheEnd
CHECK_DEADLOCK FALSE
