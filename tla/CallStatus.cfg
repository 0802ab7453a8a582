CONSTANTS
    Callers = {c1, c2}
    Script <- EchoThenRelay
SPECIFICATION Spec

CHECK_DEADLOCK FALSE
INVARIANT StatusIsOfThisCall
