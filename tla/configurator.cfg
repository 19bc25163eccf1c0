CONSTANTS
    c1 = c1
    c2 = c2
    Client = {c1, c2, c3}
    NoClient = NoClient
    MaxConnection = 2
    Scripts <- MCScripts
SPECIFICATION FairSpec
INVARIANTS TypeOK SlotsConsistent
PROPERTIES PageOwn Served
CHECK_DEADLOCK FALSE
