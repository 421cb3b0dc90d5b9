SPECIFICATION PoolSpec
CONSTANTS
    t1 = t1
    t2 = t2
    Loops = {0, 1}
    Threads = {t1, t2}
    LoopOf <- TwoThreads
    Stoppers = {owner, other}
    Owner = owner
    PipeCapacity = 1
    MaxStops = 2
    RequestedCapacity = 1
    kMinEventLoopThreadNum = 2
    MaxHandouts = 3
INVARIANTS StopIsSignalled HandoutsBalanced
PROPERTIES DtorReturnsUnlessEarly
CHECK_DEADLOCK FALSE
