SPECIFICATION Spec
CONSTANTS
    Callers = {c1, c2, c3}
    Texts = {v1, v2, v3, v4, v5}
    Splits = {s1, s2}
SYMMETRY Identical
INVARIANT TypeOK
INVARIANT ChainIsATree
INVARIANT VerifyIsExact
INVARIANT ChangesAreFound
CHECK_DEADLOCK FALSE
