\* A connection that carries up to two requests.
CONSTANT MaxRequests = 2
SPECIFICATION FairSpec
INVARIANTS
    TypeOK
    OneActivity
    Alternation
    Timed
PROPERTIES
    OperationSettles
    DeferSettles
    ClosedReleased
CHECK_DEADLOCK FALSE
