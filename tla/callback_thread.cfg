CONSTANTS
    Key = {1, 2, 3, 4}
    NULL = NULL
    User = {u1, u2}
    Period <- MCPeriod
    SysTime = 8
    Second = 3
    MaxSleep = 2
    Plans <- MCPlans
SPECIFICATION FairSpec
INVARIANTS TypeOK LookupFinds IterationComplete ClockExact
PROPERTY EveryoneCalled
