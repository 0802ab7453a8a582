CONSTANTS
    Callers = {c1, c2}
    Script <- AllMethods
SPECIFICATION Spec
SYMMETRY Sym
CHECK_DEADLOCK FALSE
INVARIANTS TypeOK OwnAnswerUntilTimeout OkMeansServed RelayPassesOwnAnswer AnsweredOnce
