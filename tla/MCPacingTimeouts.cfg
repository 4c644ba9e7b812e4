\* Responses that come in time, and a clock that only moves forward.
CONSTANTS
    Interval = 5
    Ms = 3
    Pipeline = 2
    RecordAll = TRUE
    Timeout = 2
    Start = 3
    BackStep = 2
    MaxSetBacks = 0
    MaxTimeouts = 1
    MaxTime = 16
SPECIFICATION Spec
PROPERTIES
    TimeoutsCountRequests
\* The clock stops at MaxTime, and a timer with it.
CHECK_DEADLOCK FALSE
