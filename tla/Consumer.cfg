SPECIFICATION FairSpec
CONSTANTS
    s1 = s1
    s2 = s2
    m1 = m1
    m2 = m2
    m3 = m3
    Consumers = {s1, s2}
    Messages = {m1, m2, m3}
    Unreadable = {m3}
    Conflicting = {m2}
    MaxRetries = 1
    MaxClosings = 1
CHECK_DEADLOCK FALSE
INVARIANTS
    TypeOK
    NothingIsLost
    BudgetIsKept
PROPERTY
    EveryMessageSettles
