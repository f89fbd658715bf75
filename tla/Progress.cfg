CONSTANTS
    Waiters = {w1, w2}
    NoWaiter = NoWaiter
    NoOwner = NoOwner
    InitialCount = 0
    MaxCount = 2
    MaxReleased = 2
    Ops = {r1, x1, x2}
    Readers = {r1}
    TryOps = {x2}
    WaitOps = {x1}
    TokenOps = {r1, x2}
    NoSharedOp = NoSharedOp
    Senders = {a1, a2}
    Receivers = {b1, b2}
    Capacities = {0, 1}
    Unbounded = 9
    Modes = {"wait"}
    NoChannelValue = NoChannelValue
    Threads = {t1, t2}
    Sources = {s1}
    Callbacks = {c1, c2}
    Children = {c1}
    Limits = {1}
    Observers = {o1}
    Tasks = {a, b}
    Yielding = {a}
    Nodes = {}
    InboxCapacity = 1
    Quantum = 2
    SchedTasks = {a}
    Raw = {}
    MaxWorkers = 2
    InitialWorkers = 2
    PoolJobs = {j1, j2, j3}
    PoolThreads = {p1}
    Closer = Closer
    QueueLimit = 1
    MaxPending = 2
    ScPool = 3
    SockBytes = 2
    HsRequests = 2
    HsKeepAlive = 2
    WsTimeouts = {TRUE, FALSE}
    ScEvents = 2
    ScAttempts = 2
    ScConnects = 2
    ScAuto = {TRUE, FALSE}
SPECIFICATION ProgressSpec
PROPERTIES EverybodyIsServed
CHECK_DEADLOCK FALSE
