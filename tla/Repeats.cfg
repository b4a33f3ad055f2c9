SPECIFICATION Spec
CONSTANTS
    None = None
    a1 = a1
    a2 = a2
    a3 = a3
    a4 = a4
    Attempts = {a1, a2}
    Wallets <- MCWallets
    Currency <- MCCurrency
    OpeningBalance <- MCOpening
    Commands <- TwoBets
CHECK_DEADLOCK FALSE
INVARIANT
    RepeatsAreReplayed
