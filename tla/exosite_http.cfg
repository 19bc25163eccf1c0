CONSTANTS
    NULL = NULL
    Main = main
    TimeSync = time
    Timestamp = timestamp
    Activate = activate
    a1 = a1
    poll = poll
    SM = {main, time, poll}
    Data = {d1, d2}
    Alias = {a1}
    Subscriptions = {s1, s2}
    AliasOf <- OneAlias
    LongPoll <- OnePoll
    Req <- Requests
    Async = FALSE
    Observe <- NoObserve
    MaxQueue = 1
    MaxSm = 0
CHECK_DEADLOCK FALSE
SPECIFICATION FairSpec
INVARIANTS TypeOK WaitsForOne FreshRequests SubscriptionAlive SubscribedOnce
PROPERTIES CleanStart WaitEnds Reactivates
