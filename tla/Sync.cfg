CONSTANTS
    Waiters = {w1, w2, w3}
    CvWaiters = {w1, w2}
    NoOwner = NoOwner
    NoWaiter = NoWaiter
    SmWaiters = {r1, r2, x1, x2}
    SmReaders = {r1, r2}
    TryOps = {r2, x2}
    WaitOps = {r2, x2}
    TokenOps = {r1, x1, x2}
    Nobody = Nobody
    InitialCount = 1
    MaxCount = 2
    MaxReleased = 3
SPECIFICATION SyncSpec
INVARIANTS OneHolder InductiveInvariants SemaphoreIsSafe EventIsSafe
           ConditionVariableIsSafe SharedMutexIsSafe
PROPERTIES ExclusionIsKept PoolsAreImplemented NotifyReachesSomebody
CHECK_DEADLOCK FALSE
