CONSTANTS
    Callers = {c1, c2}
    Script <- RelayThenData
SPECIFICATION FairSpec

CHECK_DEADLOCK FALSE
PROPERTIES RequestIsAnswered
