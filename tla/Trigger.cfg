SPECIFICATION Spec
CONSTANTS
    w1 = w1
    a1 = a1
    NULL = NULL
    Wills = {w1}
    Intervals = {1}
    Actions = {a1, a2}
    ActionWill <- AllOfFirstWill
    Position <- MCPosition
    ExecIds = {e1, e2, e3}
    MaxRetries = 3
    Delays <- MCDelays
    LongDelay = 3
    Slots = {s1, s2}
    StaleAfter = 1
    RetryBatch = 1
    MaxFaults = 1
    MaxTime = 2
    MaxCrashes = 1
SYMMETRY Identical
INVARIANT TypeOK
INVARIANT FiredOnce
INVARIANT NoEarlyTrigger
INVARIANT NothingBeforeTrigger
INVARIANT SingleExecution
INVARIANT OutcomeIsTrue
INVARIANT QueuedHasOneOwner
INVARIANT DeliveredInSilence
PROPERTY ImplementsSwitch
PROPERTY ListedIsQueued
PROPERTY TurnedAwayIsLeft
PROPERTY SkippedIsLeft
CHECK_DEADLOCK FALSE
