\* Every short URL, every kind of number, and two or three threads that are set up, run and stopped.
CONSTANTS
    PortRadix = 2
    MaxPort = 2
    Word = 4096
    MetricScale = 1000
    TimeScale = 60
    MsPerSecond = 1000
    DefaultThreads = 2
    DefaultConnections = 10
    DefaultDuration = 10
    SOCKET_TIMEOUT_MS = 2000
    MaxThreads = 3
    Commands <- MCCommands
    Scripts <- MCScripts
    Known <- MCKnown
    Https <- MCHttps
SPECIFICATION FairSpec
INVARIANTS
    UrlPartsMatch
    WorkForEveryThread
PROPERTIES
    ConfigStable
    StopIsHeeded
