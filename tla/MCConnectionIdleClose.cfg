\* The server closes a kept-alive connection while wrk waits for its next send time.
CONSTANTS
    c1 = c1
    f1 = f1
    f2 = f2
    Conn = {c1}
    Fd = {f1, f2}
    NoFd = NoFd
    NoConn = NoConn
    Pipeline = 1
    ReqLen = 1
    RecvBuf = 1
    Word = 16
    Tls = FALSE
    Record = 1
    Replies = {"keep"}
    Faults = {"idleClose"}
    MaxReplies = 2
    MaxFaults = 1
SPECIFICATION Spec
INVARIANTS
    PendingMatchesWire
