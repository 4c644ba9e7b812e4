\* One connection under fairness that pipelines two requests, on a descriptor that every reconnect gives it again; responses are read one at a time.
CONSTANTS
    c1 = c1
    f1 = f1
    Conn = {c1}
    Fd = {f1}
    NoFd = NoFd
    NoConn = NoConn
    Pipeline = 2
    ReqLen = 2
    RecvBuf = 1
    Word = 16
    Tls = FALSE
    Record = 1
    Replies = {"keep", "close", "untilEof", "bad"}
    Faults = {"drop", "garbage", "talkOn", "noLength"}
    MaxReplies = 4
    MaxFaults = 2
SPECIFICATION FairSpec
INVARIANTS
    RequestsWellFormed
    PendingMatchesWire
    OneWakeup
    ErrorsHaveCauses
PROPERTIES
    TakesTurns
    DueBatchIsSent
    DeadlineEndsLoop
