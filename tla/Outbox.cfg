SPECIFICATION RestartedSpec
CONSTANTS
    w1 = w1
    w2 = w2
    e1 = e1
    e2 = e2
    e3 = e3
    c1 = c1
    c2 = c2
    Workers = {w1, w2}
    Changes = {c1}
    Events = {e1, e2}
    Appends <- OneChange
    BatchSize = 1
    Base = 1
    MaxDelay = 1
    AttemptsCap = 1
    Overdue = 0
INVARIANTS
    TypeOK
    MarkedIsConfirmed
PROPERTIES
    DeliversAtLeastOnce
    EventuallyDelivers
    PublishingEnds
