CONSTANTS
    Coros = {c1, c2}
    Main = Main
    None = None
    MaxInt = 4
    CallStackSize = 4
    CoroTimeoutTime = 2
    Timeouts = {0}
    MaxYields = 2
    MaxTime = 4
    Calls = {"nested", "driveInStop", "stop"}
SPECIFICATION Spec
INVARIANT GetCurCoroGetsCurrent

