SPECIFICATION AnnouncedSpec
CONSTANTS
    tok = tok
    fake = fake
    self = self
    alice = alice
    ore = ore
    Contracts = {tok}
    Symbols = {ore}
    Accounts = {self, alice}
    Self = self
    Genesis <- AllTokens
    GenesisIssuer = alice
    GenesisSupply = 2
    TokenUsers = {}
    MaxAmount = 2
    SecondsPerDay = 1
    TimeWrap = 8
    WeightUnit = 2
    Times = {1, 3, 4}
    Dates = {1, 2, 4, 6}
    Periods = {4, 5}
    Quantities = {1, 2}
    Weights = {0, 1}
    PauseTimes = {}
    NewPauseTimes = {0}
    TimeMoves = {}
    MaxPauseTime = 5
    MaxVestings = 1
INVARIANTS UnallocatedCovered
CHECK_DEADLOCK FALSE
