SPECIFICATION ReadSpec
CONSTANTS
    alice = alice
    bob = bob
    pay = pay
    rule = rule
    Accounts = {alice, bob}
    Proposers = {bob}
    Levels <- MCLevels
    ProposalNames = {"old"}
    Transactions = {pay, rule}
    Expiration <- MCExpiration
    Sufficient <- MCSufficient
    OldProposals <- MCOldProposals
    OldRequested <- MCOldRequested
    Requests <- MCRequests
    SecondLength = 2
    LastBlock = 4
INVARIANTS TablesMatch SignedAsRead
PROPERTIES AskedForStays WithdrawalCounts IsAgreement
CHECK_DEADLOCK FALSE
