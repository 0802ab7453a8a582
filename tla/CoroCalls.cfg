CONSTANTS
    Coros = {c1, c2, c3}
    Main = Main
    None = None
    MaxInt = 2
    CallStackSize = 4
    CoroTimeoutTime = 1
    Timeouts = {0}
    MaxYields = 1
    MaxTime = 2
    Calls = {"nested", "stop", "start", "mainYield"}
SPECIFICATION Spec
SYMMETRY Sym
INVARIANTS TypeOK TimersMatchSuspensions StackMatchesFlags WokenOnce MapsMatchLives CurCoroIsRunning NoUndefinedBehaviour
