SPECIFICATION TimeoutSpec
CONSTANTS
    l1 = l1
    t1 = t1
    t2 = t2
    t3 = t3
    Loops = {l1}
    Threads = {t1, t2, t3}
    LoopOf <- AllOnOne
    Stoppers = {c1, c2}
    PipeCapacity = 2
    MaxStops = 3
INVARIANTS RunnersBounded
PROPERTIES StoppedLoopEnds
CHECK_DEADLOCK FALSE
