SPECIFICATION Spec
CONSTANTS
    both = both
    first = first
    second = second
    e1 = e1
    e2 = e2
    Tasks = {both, first, second}
    Publishers = {p}
    Events = {e1, e2}
    Mask <- MCMask
    Size = 2
    NoTask = NoTask
    Serial = FALSE
INVARIANT SubscriptionKept
CHECK_DEADLOCK FALSE
