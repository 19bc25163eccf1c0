CONSTANTS
    r1 = r1
    r2 = r2
    r3 = r3
    NULL = NULL
    SM = {m1}
    Req = {r1, r2}
    Async = TRUE
    Limit = 0
    QueueSize = 1
    MaxTimeouts = 1
    TransmissionRetries = 0
    ConnectRetries = 5
    Observe <- ObserveOne
    MessageId <- CoapIds
    MaxClears = 1
CHECK_DEADLOCK FALSE
SPECIFICATION FairSpec
INVARIANT OwnAnswer
PROPERTIES CompletedOnce ClearEnds SentAnswered ImplementsPort
