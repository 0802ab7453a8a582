SPECIFICATION FairSpec
CONSTANTS
    Timers = {t1, t2}
    Null = null
    DueTimes = {2, 3}
    LongTimeout = 2
    MaxData = 3
    MaxTime = 4
    AnyReschedule = FALSE
INVARIANTS
    TypeOK
    NoDangling
    RefCountIsOwners
    ArmedIsOwned
    HeapIsSound
    HeapSorts
PROPERTIES
    UpdateFiresAllDue
    DroppedIsFreed
CHECK_DEADLOCK FALSE
