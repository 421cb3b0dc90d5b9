SPECIFICATION HttpFairSpec
CONSTANTS
    SocketRoom = 1
    Requests <- MCRequests
    Threshold = 1
    Scripts <- MCScripts
INVARIANTS StreamInOrder ClosedAfterFiles OneReplyEach RepliesFramed
PROPERTIES AcceptedIsSent RequestAnswered
CHECK_DEADLOCK FALSE
