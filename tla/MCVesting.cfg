SPECIFICATION Spec
CONSTANTS
    tok = tok
    self = self
    alice = alice
    ore = ore
    Contracts = {tok}
    Symbols = {ore}
    Accounts = {self, alice}
    Self = self
    Genesis <- AllTokens
    GenesisIssuer = alice
    GenesisSupply = 2
    TokenUsers = {}
    MaxAmount = 2
    SecondsPerDay = 1
    TimeWrap = 8
    WeightUnit = 2
    Times = {1, 3}
    Dates = {1, 3}
    Periods = {4}
    Quantities <- SignedQuantities
    Weights = {1}
    PauseTimes = {1, 5}
    NewPauseTimes = {0, 1}
    TimeMoves = {1}
    MaxPauseTime = 5
    MaxVestings = 2
INVARIANTS TypeOK Conservation
PROPERTIES IdsNeverReused SettledStays PausedClockStands BooksFollowPayments
CHECK_DEADLOCK FALSE
