CONSTANTS
    Callers = {c1}
    Script <- EchoThenRelay
SPECIFICATION Spec

CHECK_DEADLOCK FALSE
INVARIANT ResponseIsOwn
