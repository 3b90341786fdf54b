SPECIFICATION PromptSpec
CONSTANTS
    w1 = w1
    a1 = a1
    NULL = NULL
    Wills = {w1}
    Intervals = {1}
    Actions = {a1}
    ActionWill <- AllOfFirstWill
    Position <- MCPosition
    ExecIds = {e1}
    MaxRetries = 3
    Delays <- MCDelays
    LongDelay = 3
    Slots = {s1, s2}
    StaleAfter = 1
    RetryBatch = 1
    MaxFaults = 1
    MaxTime = 4
    MaxCrashes = 1
SYMMETRY Identical
INVARIANT ExclusiveDelivery
INVARIANT RepeatsAreLosses
PROPERTY OutcomeIsFinal
PROPERTY ImplementsDeliveries
CHECK_DEADLOCK FALSE
