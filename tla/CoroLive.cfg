CONSTANTS
    Coros = {c1, c2}
    Main = Main
    None = None
    MaxInt = 4
    CallStackSize = 4
    CoroTimeoutTime = 2
    Timeouts = {0, 1}
    MaxYields = 2
    MaxTime = 2
    Calls = {"nested"}
SPECIFICATION FairSpec
PROPERTIES SuspendedIsResumed EndedIsDeleted ImplementsCoroSpec
