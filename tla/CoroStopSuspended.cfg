CONSTANTS
    Coros = {c1}
    Main = Main
    None = None
    MaxInt = 4
    CallStackSize = 4
    CoroTimeoutTime = 2
    Timeouts = {0}
    MaxYields = 2
    MaxTime = 4
    Calls = {"stop"}
SPECIFICATION Spec
INVARIANT StopLeavesNoneSuspended

