SPECIFICATION FairSpec
CONSTANTS
    Values = {p1, p2, p3}
    Null = null
    QueueCapacity = 4
INVARIANTS
    TypeOK
    SizeIsSafe
PROPERTIES
    RefinesFifo
    PushedIsPopped
