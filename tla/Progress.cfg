SPECIFICATION FairSpec
CONSTANTS
    w1 = w1
    a1 = a1
    NULL = NULL
    Wills = {w1}
    Intervals = {1}
    Actions = {a1, a2}
    ActionWill <- AllOfFirstWill
    Position <- MCPosition
    ExecIds = {e1, e2}
    MaxRetries = 2
    Delays <- MCShortDelays
    LongDelay = 1
    Slots = {s1, s2}
    StaleAfter = 0
    RetryBatch = 1
    MaxFaults = 1
    MaxTime = 1
    MaxCrashes = 0
PROPERTY OverdueIsHandled
PROPERTY RetryIsHandled
PROPERTY StaleIsReset
PROPERTY WorkersAreReleased
CHECK_DEADLOCK FALSE
