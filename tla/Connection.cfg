SPECIFICATION Spec
CONSTANTS
    Creator = creator
    Workers = {w1}
    SendBuffer = 1
    MaxData = 2
    MaxSends = 2
INVARIANTS CloseOnce FreedIsClosed ExitsOnlyAfterClose
PROPERTIES HangupHandled
CHECK_DEADLOCK FALSE
