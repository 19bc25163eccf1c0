CONSTANTS
    Builds = {"TCPBUF", "inbuf"}
    Byte <- Bytes
    RingSize = 3
    Window = 2
    Mss = 2
    OutMax = 2
    MaxIn = 4
    MaxOut = 2
    MaxConns = 2
SPECIFICATION FairSpec
INVARIANTS TypeOK OutStream InStream
PROPERTIES SentAgain Delivered
CHECK_DEADLOCK FALSE
