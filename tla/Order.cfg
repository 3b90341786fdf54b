SPECIFICATION Spec
CONSTANTS
    w1 = w1
    a1 = a1
    NULL = NULL
    Wills = {w1}
    Intervals = {1}
    Actions = {a1, a2}
    ActionWill <- AllOfFirstWill
    Position <- MCPosition
    ExecIds = {e1, e2}
    MaxRetries = 3
    Delays <- MCDelays
    LongDelay = 3
    Slots = {s1, s2, s3}
    StaleAfter = 1
    RetryBatch = 1
    MaxFaults = 0
    MaxTime = 1
    MaxCrashes = 0
INVARIANT DeliveredInOrder
CHECK_DEADLOCK FALSE
