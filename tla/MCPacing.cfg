\* A schedule of several batches, an interval that ticks do not divide, a clock set back once.
CONSTANTS
    Interval = 5
    Ms = 3
    Pipeline = 2
    RecordAll = TRUE
    Timeout = 2
    Start = 3
    BackStep = 2
    MaxSetBacks = 1
    MaxTimeouts = 1
    MaxTime = 17
SPECIFICATION Spec
INVARIANTS
    TypeOK
    LatenciesSound
    WithinPlan
    EarlyAtMostOnce
\* The clock stops at MaxTime, and a timer with it.
CHECK_DEADLOCK FALSE
