\* A connection that could not be opened again still has its timer.
CONSTANTS
    Threads = 2
    Connections = 2
    Inherited = 1
    Spare = 1
    Limits = {6}
    MaxFailures = 1
    MaxTimers = 1
SPECIFICATION Spec
INVARIANTS
    EpollAgrees
CHECK_DEADLOCK FALSE
