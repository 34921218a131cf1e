SPECIFICATION Spec
CONSTANTS
    both = both
    first = first
    second = second
    e1 = e1
    e2 = e2
    Tasks = {both, first, second}
    Publishers = {p}
    Events = {e1, e2}
    Mask <- MCMask
    Size = 2
    NoTask = NoTask
    Serial = TRUE
INVARIANT TypeOK
INVARIANT SubscriptionKept
INVARIANT NoSubscriberSkipped
INVARIANT NeverMisdirected
INVARIANT AbortOnlyWhenFull
CHECK_DEADLOCK FALSE
