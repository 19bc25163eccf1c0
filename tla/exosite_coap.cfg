CONSTANTS
    NULL = NULL
    Main = main
    TimeSync = time
    Timestamp = timestamp
    Activate = activate
    a1 = a1
    poll = poll
    SM = {main, time, poll}
    Data = {d1}
    Alias = {a1}
    Subscriptions = {s1, s2}
    AliasOf <- OneAlias
    LongPoll <- OnePoll
    Req <- Requests
    Async = TRUE
    Observe <- ObserveAll
    MaxQueue = 1
    MaxSm = 0
CHECK_DEADLOCK FALSE
SPECIFICATION FairSpec
INVARIANTS WaitsForOne FreshRequests
PROPERTIES Reactivates
