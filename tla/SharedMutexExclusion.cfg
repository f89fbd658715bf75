CONSTANTS
    Waiters = {r1, r2, r3, w1, w2}
    Readers = {r1, r2, r3}
    TryOps = {w2}
    WaitOps = {r1, r2, r3}
    TokenOps = {w1}
    Nobody = Nobody
SPECIFICATION Spec
INVARIANTS Exclusion
CHECK_DEADLOCK FALSE
