SPECIFICATION Spec
CONSTANTS
    w1 = w1
    a1 = a1
    NULL = NULL
    Wills = {w1}
    Intervals = {1}
    Actions = {a1}
    ActionWill <- AllOfFirstWill
    Position <- MCPosition
    ExecIds = {e1}
    MaxRetries = 3
    Delays <- MCDelays
    LongDelay = 3
    Slots = {s1, s2}
    StaleAfter = 1
    RetryBatch = 1
    MaxFaults = 0
    MaxTime = 1
    MaxCrashes = 0
PROPERTY ArchivedIsFinal
CHECK_DEADLOCK FALSE
