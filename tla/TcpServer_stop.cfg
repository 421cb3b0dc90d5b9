SPECIFICATION Spec
CONSTANTS
    Main = main
    Workers = {w1, w2}
    Clients = {c1, c2, c3}
    None = none
    DeleteWaits = TRUE
    MaxStops = 1
INVARIANTS LoopOutlivesUse DestroyedOnlyByStop LateInsertsBounded
PROPERTIES DestructorReturns StopEndsStart
CHECK_DEADLOCK FALSE
