SPECIFICATION Spec
CONSTANTS
    Metas = {m1, m2}
    Passphrases = {k1, k2}
    Items = {x1, x2}
    Clis = {c1, c2}
    Requests = {r1, r2, r3}
    Tokens = {t1, t2}
    NULL = NULL
SYMMETRY Identical
INVARIANT TypeOK
INVARIANT KeysAreStored
INVARIANT UnlockedIsTrue
PROPERTY ImplementsEngine
