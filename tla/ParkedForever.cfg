SPECIFICATION FairSpec
CONSTANTS
    None = None
    a1 = a1
    a2 = a2
    a3 = a3
    r1 = r1
    r2 = r2
    Attempts = {a1, a2}
    Resolvers = {r1, r2}
    BatchSize = 2
    MaxLosses = 1
    DueWhenUnscheduled = FALSE
    Wallets <- MCWallets
    Currency <- MCCurrency
    OpeningBalance <- Ample
    Commands <- Pairs
CHECK_DEADLOCK FALSE
PROPERTY
    ParkedIsDecided
