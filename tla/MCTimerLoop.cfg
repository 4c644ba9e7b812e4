\* A handful of timers, handlers that take any time, a clock that is set back.
CONSTANTS
    Period = 2
    Delays = {1, 2}
    Second = 2
    MaxBack = 2
    MaxId = 3
SPECIFICATION FairSpec
INVARIANTS
    TypeOK
    PassRunsOldTimers
    SleepIsBounded
PROPERTIES
    PassEndsUnlessSlow
