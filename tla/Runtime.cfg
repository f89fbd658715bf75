CONSTANTS
    Tasks = {a, b}
    Yielding = {}
    Nodes = {m}
    InboxCapacity = 1
    Quantum = 2
    Threads = {t1, t2}
    Raw = {a}
    MaxWorkers = 2
    InitialWorkers = 2
    Jobs = {j1, j2, j3}
    Leased = {j3}
    PoolThreads = {p1}
    Closer = Closer
    QueueLimit = 1
    RtTasks = {a, b}
    RtLocal = {b}
    RtWorkers = 2
    MaxPending = 3
    ScPool = 3
    SvListeners = {1, 2}
    SvConns = {c1, c2}
    SvStops = 1
    OcActors = {a1, a2, a3}
    OcEntries = {1, 2}
SPECIFICATION RuntimeSpec
SYMMETRY RuntimeSymmetry
INVARIANTS NothingIsLost NoWakeIsLost WorkersOutliveTheirWork StopsAreHonest BorrowsAreSafe
PROPERTIES ScalerIsHonest
CHECK_DEADLOCK FALSE
