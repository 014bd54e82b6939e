\* Two routers with their hub threads, one websocket, three messages (the first
\* of two frames, its callback writes the second) and a closing thread.
CONSTANTS
    HubThreads = {h1, h2}
    s1 = s1
    s2 = s2
    Sockets = {s1}
    Users = {u}
    Messages = {1, 2, 4}
    Frames = 2
    NoMessage = NoMessage
    Free = Free
    SocketOf <- MCSocketOf
    FramesOf <- MCFramesOf
    ReplyOf <- ReplyToFirst
SPECIFICATION FairSpec
INVARIANTS
    TypeOK
    OneTransmission
    SelfLockNeedsClose
PROPERTIES
    StreamSpec
    EveryMessageSettles
    RouterJoins
CHECK_DEADLOCK FALSE
