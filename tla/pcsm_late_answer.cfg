CONSTANTS
    r1 = r1
    r2 = r2
    r3 = r3
    NULL = NULL
    SM = {m1}
    Req = {r1, r2}
    Async = FALSE
    Limit = 1
    QueueSize = 1
    MaxTimeouts = 5
    TransmissionRetries = 0
    ConnectRetries = 5
    Observe <- NoObserve
    MessageId <- HttpIds
    MaxClears = 0
CHECK_DEADLOCK FALSE
SPECIFICATION Spec
INVARIANTS RightAnswer
