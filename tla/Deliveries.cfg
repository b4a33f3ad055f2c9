SPECIFICATION FairSpec
CONSTANTS
    None = None
    a1 = a1
    a2 = a2
    a3 = a3
    a4 = a4
    Attempts = {a1, a2, a3}
    Wallets <- MCWallets
    Currency <- MCCurrency
    OpeningBalance <- MCOpening
    Commands <- Deliveries
CHECK_DEADLOCK FALSE
INVARIANTS
    AnswersAreCommitted
    InboxRecordsAreBacked
    DeadlocksAreOnOneWallet
PROPERTY
    EveryCallReturns
