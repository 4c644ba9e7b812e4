\* Two connections over TLS whose requests are longer than a record, with every fault, those that break the other properties included.
CONSTANTS
    c1 = c1
    c2 = c2
    f1 = f1
    f2 = f2
    Conn = {c1, c2}
    Fd = {f1, f2}
    NoFd = NoFd
    NoConn = NoConn
    Pipeline = 1
    ReqLen = 2
    RecvBuf = 1
    Word = 16
    Tls = TRUE
    Record = 1
    Replies = {"keep", "close", "interim", "bad"}
    Faults = {"refuse", "noSocket", "idleClose", "drop", "talkOn", "garbage", "early"}
    MaxReplies = 1
    MaxFaults = 2
SYMMETRY Symmetry
SPECIFICATION Spec
INVARIANTS
    TypeOK
    OwnDescriptor
    NoStaleReadiness
    LatencyFromLastBatch
