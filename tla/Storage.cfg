SPECIFICATION Spec
CONSTANTS
    Processes = {dw, daemon}
    Operator = dw
    Inodes = {i1, i2}
    SchemaVersion = 2
    Writes = {x1}
    Passphrases = {k1, k2}
    NULL = NULL
    MaxFaults = 1
SYMMETRY Identical
INVARIANT TypeOK
INVARIANT SchemaIsRecorded
INVARIANT OpenIsCurrent
INVARIANT FileIsWhole
INVARIANT AcceptedIsComplete
INVARIANT BackupIsRestorable
PROPERTY VersionNeverFalls
PROPERTY RestoredIsAccepted
CHECK_DEADLOCK FALSE
