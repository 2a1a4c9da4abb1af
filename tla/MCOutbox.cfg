SPECIFICATION FairSpec
CONSTANTS
    Event = {e1, e2}
    Runner = {r1, r2}
    WorkerId = {w1, w2}
    r1 = r1
    r2 = r2
    w1 = w1
    w2 = w2
    InstanceOf <- SameInstance
    Key = {k1}
    MaximumAttempts = 2
    BatchSize = 2
    MaxFaults = 1
    NoOwner = NoOwner
    NoEvent = NoEvent
INVARIANT ExclusiveHolder
INVARIANT RetryBudget
INVARIANT EvidenceMatchesRows
PROPERTY ImplementsContract
PROPERTY EveryEventSettles
CHECK_DEADLOCK FALSE
