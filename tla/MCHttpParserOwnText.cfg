SPECIFICATION Spec
CONSTANTS
    Streams <- MCStreams
    Base = 2
    Largest = 15
    Later = {1, 4}
    RecvBuf = 4
    MaxConnections = 2
    MaxCuts = 1
INVARIANT ReportsOwnText
