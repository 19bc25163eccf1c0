CONSTANTS
    r1 = r1
    r2 = r2
    r3 = r3
    NULL = NULL
    SM = {m1, m2}
    Req = {r1}
    Async = FALSE
    Limit = 1
    QueueSize = 1
    MaxTimeouts = 1
    TransmissionRetries = 0
    ConnectRetries = 5
    Observe <- NoObserve
    MessageId <- HttpIds
    MaxClears = 0
CHECK_DEADLOCK FALSE
SPECIFICATION FairSpec
INVARIANTS ConnectToken
PROPERTIES EveryoneAnswered
