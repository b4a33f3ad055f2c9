SPECIFICATION Spec
CONSTANTS
    None = None
    a1 = a1
    a2 = a2
    a3 = a3
    r1 = r1
    r2 = r2
    Attempts = {a1, a2, a3}
    Resolvers = {r1, r2}
    BatchSize = 2
    MaxLosses = 1
    DueWhenUnscheduled = TRUE
    Wallets <- MCWallets
    Currency <- MCCurrency
    OpeningBalance <- Short
    Commands <- Early
SYMMETRY Symmetry
CHECK_DEADLOCK FALSE
INVARIANTS
    TypeOK
    BalanceMatchesLedger
    OneMovementPerRow
    MovementsAreAnnounced
PROPERTY
    ExpiryIsEarned
