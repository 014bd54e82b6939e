\* Two requests, asynchronous (one io thread, a timed and two untimed connections)
\* or synchronous; stop() and the destructor at any time the code allows.
CONSTANTS
    Requests = {r1, r2}
    Connections = {c1, c2, c3}
    TimedConnections <- MCTimed
    c1 = c1
    c2 = c2
    c3 = c3
    NoConnection = NoConnection
    IoThreads = 1
    StopModes = {"async"}
    App = App
SPECIFICATION FairSpec
INVARIANTS
    TypeOK
    PoolSound
    AnsweredOnce
    SyncAnswered
PROPERTIES
    ScopeSpec
    RequestSettles
    DestroyReturns
CHECK_DEADLOCK FALSE
