SPECIFICATION MCSpec
CONSTANTS
    Loop = loop
    Senders = {loop}
    MsgLen = 3
    kWriteBufferSize = 2
    SendBuffer = 2
    MaxBytes = 9
    Workers = {w1, w2}
    NoWorker = none
    kReadBufferSize = 2
    MaxReceived = 4
    Garbage = 0
    Packets <- MCPackets
    MaxPackets = 2
    FlightCounts = {3, 4}
    MaxTlsSends = 2
    AlertFrom = {"client"}
INVARIANTS NothingDropped DeliveredInPlace CallsInOrder NoPacketWaits
PROPERTIES AllSent EverythingDelivered DataArrives
CHECK_DEADLOCK FALSE
