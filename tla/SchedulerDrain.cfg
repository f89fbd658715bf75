CONSTANTS
    Threads = {x1, x2, x3}
    Tasks = {t1}
    Raw = {}
    MaxWorkers = 2
    InitialWorkers = 2
SPECIFICATION SchedSpec
INVARIANT DrainKeepsIo
CHECK_DEADLOCK FALSE
