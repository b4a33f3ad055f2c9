SPECIFICATION Spec
CONSTANTS
    None = None
    o1 = o1
    o2 = o2
    r1 = r1
    k1 = k1
    MaxInt <- MCMaxInt
    Openings = {o1, o2}
    EntryIds = {1, 2, 3}
    Times = {1, 2}
    Requests <- MCRequests
    Amounts = {100}
    Auditors = {r1}
    Walks = {k1}
    Limits <- MCLimits
    DefaultLimit = 1
SYMMETRY Symmetry
CHECK_DEADLOCK FALSE
INVARIANTS
    TypeOK
    OneWalletPerCurrency
    OpenedWhole
    ReconciliationIsExplained
    WalkIsComplete
    AmountsAreExact
