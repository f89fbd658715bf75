CONSTANTS
    IoOps = {o1, o2}
    Cells = {c1, c2}
    Fds = {f1}
    Menu = {"recv_or_cancel", "read", "close", "connect", "batch", "sleep_or_cancel", "file"}
    RingMenu = {"recv_or_cancel", "batch", "file"}
    SqDepth = 2
    Segments = 2
    FileBytes = 3
    FileLimit = 6
    FileMaxOffset = 4
    FileChunk = 2
    SockBytes = 2
    Resolvers = {r1, r2, r3}
    Bounded = {r1, r2}
    DomainLimit = 1
    MaxChanges = 1
SYMMETRY Symmetry
SPECIFICATION NetworkSpec
INVARIANTS NobodySleepsInVain CountsAreExact ResultsAreHonest
CHECK_DEADLOCK FALSE
