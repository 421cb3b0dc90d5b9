SPECIFICATION SafeSpec
CONSTANTS
    Main = main
    Workers = {w1, w2}
    Clients = {c1, c2}
    None = none
    DeleteWaits = FALSE
    MaxStops = 1
INVARIANTS LoopOutlivesUse
CHECK_DEADLOCK FALSE
