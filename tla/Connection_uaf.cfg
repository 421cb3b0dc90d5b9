SPECIFICATION SafeSpec
CONSTANTS
    Creator = creator
    Workers = {w1}
    SendBuffer = 1
    MaxData = 1
    MaxSends = 2
INVARIANTS NoUseAfterFree
CHECK_DEADLOCK FALSE
