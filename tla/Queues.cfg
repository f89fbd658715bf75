CONSTANTS
    Nothing = Nothing
    Thieves = {h1, h2}
    InitialCapacity = 2
    MaxItems = 4
    Producers = {p1, p2}
    Consumers = {c1, c2}
    PushesEach = 2
    Submitters = {s1, s2, s3, s4}
    SlotCount = 2
SPECIFICATION QueuesSpec
INVARIANTS SlotsAreExclusive NoUseAfterFree
PROPERTIES QueuesAreFifo ImplementsDeque
CHECK_DEADLOCK FALSE
