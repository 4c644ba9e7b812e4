SPECIFICATION FairSpec
CONSTANTS
    Streams <- MCStreams
    Base = 2
    Largest = 15
    Later = {1, 4}
    RecvBuf = 4
    MaxConnections = 2
    MaxCuts = 1
INVARIANTS
    TypeOK
    AssertionsHold
    CompletedOnTime
    ReportsTheResponse
    ClosesWhenTold
    WellFormedAccepted
PROPERTY BufferParsed
