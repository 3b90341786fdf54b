SPECIFICATION Spec
CONSTANTS
    Callers = {c1, c2}
    Texts = {v1, v2}
    Splits = {s1}
INVARIANT ChainIsValid
CHECK_DEADLOCK FALSE
