SPECIFICATION SafeSpec
CONSTANTS
    Loop = loop
    Senders = {worker}
    MsgLen = 2
    kWriteBufferSize = 2
    SendBuffer = 3
    MaxBytes = 4
INVARIANTS WireInOrder
CHECK_DEADLOCK FALSE
