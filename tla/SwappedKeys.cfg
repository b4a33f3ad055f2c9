SPECIFICATION Spec
CONSTANTS
    None = None
    a1 = a1
    a2 = a2
    a3 = a3
    a4 = a4
    Attempts = {a1, a2, a3}
    Wallets <- MCWallets
    Currency <- MCCurrency
    OpeningBalance <- MCOpening
    Commands <- SwappedKeys
CHECK_DEADLOCK FALSE
INVARIANT
    KeysAnswerTheirPayload
