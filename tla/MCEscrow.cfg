SPECIFICATION CarefulSpec
CONSTANTS
    tok = tok
    fake = fake
    self = self
    alice = alice
    ore = ore
    Contracts = {tok, fake}
    Symbols = {ore}
    Accounts = {self, alice}
    Self = self
    Genesis <- OneToken
    GenesisIssuer = alice
    GenesisSupply = 2
    TokenUsers = {alice}
    MaxAmount = 2
    SecondsPerDay = 1
    TimeWrap = 8
    WeightUnit = 2
    Times = {1, 3}
    Dates = {1, 3}
    Periods = {4}
    Quantities = {1, 2}
    Weights = {1}
    PauseTimes = {}
    NewPauseTimes = {0}
    TimeMoves = {}
    MaxPauseTime = 4
    MaxVestings = 2
INVARIANTS SuppliesMatch Backed
PROPERTIES IsEscrow
CHECK_DEADLOCK FALSE
