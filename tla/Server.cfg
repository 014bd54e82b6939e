\* Two io threads, three connections: two of them on one thread.
CONSTANTS
    Connections = {c1, c2, c3}
    PoolSize = 2
    Nobody = Nobody
    Torn = Torn
SPECIFICATION FairSpec
INVARIANTS
    TypeOK
    OwnHandshake
    QuietAfterRun
PROPERTY RunReturns
CHECK_DEADLOCK FALSE
