SPECIFICATION Spec
CONSTANTS
    None = None
    a1 = a1
    a2 = a2
    a3 = a3
    a4 = a4
    Attempts = {a1, a2, a3}
    Wallets <- MCWallets
    Currency <- MCCurrency
    OpeningBalance <- MCOpening
    Commands <- Wagers
SYMMETRY Symmetry
CHECK_DEADLOCK FALSE
INVARIANTS
    TypeOK
    BalanceMatchesLedger
    MovementsMatchTransactions
    OneTransactionPerKey
    LockedReadsAreCurrent
    AnswersAreCommitted
    ReversalsUndo
    AtMostOneReversal
PROPERTY
    AtomicSpec
