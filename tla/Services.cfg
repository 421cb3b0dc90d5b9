SPECIFICATION MCSpec
CONSTANTS
    Workers = {w1, w2}
    Clients = {c1, c2}
    Tasks = {t1, t2, t3}
    NoTask = NoTask
    LogWriters = {a1, a2}
    Lines = {l1, l2, l3, q}
    Loud = {l1, l2, l3}
    Blocks <- MCBlocks
    Wrappers = {m1, m2, m3}
    BufferSize = 3
    Ratio = 3
    MaxInput = 9
    Characters = {1, 2}
    MaxStr = 5
    MaxPat = 3
    fields_options <- MCOptions
    fields_enabled <- MCEnabled
    Unknown = {"what"}
    Values = {"v", "w"}
    MaxArgs = 4
INVARIANTS NoStrandedTask EachBlockOnce ParsedAsGiven
PROPERTIES 
    DtorReturns ImplementsExecutor
    LoggerDrains LoggerRests
    GZipReturns FindSubstrReturns
CHECK_DEADLOCK FALSE
