SPECIFICATION Spec
CONSTANTS
    Timers = {t1}
    Null = null
    DueTimes = {2, 3}
    LongTimeout = 2
    MaxData = 3
    MaxTime = 4
    AnyReschedule = TRUE
INVARIANTS
    ArmedIsOwned
CHECK_DEADLOCK FALSE
