CONSTANTS
    Threads = {t1, t2}
    Sources = {s1, s2}
    Callbacks = {c1, c2}
    Cancelled = {s2}
    Children = {c1, c2}
    Limits = {0, 1}
    Observers = {o1, o2}
    Workers = {1, 2}
    TaskFrames = {t1, t2, t3}
    Isolated = {t3}
    Generators = {g1}
    Consumers = {c1, c2, c3}
    Branches = {1, 2, 3}
SYMMETRY ObserverSymmetry
SPECIFICATION CoroSpec
INVARIANTS CallbacksRunAlive JoinsAreExact OutcomesAreHonest NobodyIsForgotten FramesAreInContext
PROPERTIES UnregisterIsFinal
CHECK_DEADLOCK FALSE
