SPECIFICATION FairSpec
CONSTANTS
    w1 = w1
    w2 = w2
    e1 = e1
    e2 = e2
    e3 = e3
    c1 = c1
    c2 = c2
    Workers = {w1}
    Changes = {c1}
    Events = {e1}
    Appends <- OneEvent
    BatchSize = 1
    Base = 1
    MaxDelay = 2
    AttemptsCap = 2
    Overdue = 1
PROPERTY
    CommittedIsPublished
