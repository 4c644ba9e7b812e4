\* Two threads of one connection each, with as little room as the numbers allow.
CONSTANTS
    Threads = 2
    Connections = 2
    Inherited = 0
    Spare = 0
    Limits = {2, 3, 7}
    MaxFailures = 1
    MaxTimers = 1
SPECIFICATION Spec
INVARIANTS
    OwnSocketWatched
    EverySocketFits
\* All threads may have ended.
CHECK_DEADLOCK FALSE
