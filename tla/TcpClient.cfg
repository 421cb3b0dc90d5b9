SPECIFICATION Spec
CONSTANTS
    MaxRetry = 3
    InitialTimeout = 8192
    MaxConnects = 2
INVARIANTS ConnectedIsEstablished AttemptsBounded EndsOnlyAfterHangUp
PROPERTIES ConnectConcludes
CHECK_DEADLOCK FALSE
