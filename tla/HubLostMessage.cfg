\* Two messages of one frame on one websocket; nobody closes it.
CONSTANTS
    HubThreads = {h1}
    s1 = s1
    s2 = s2
    Sockets = {s1}
    Users = {}
    Messages = {2, 4}
    Frames = 1
    NoMessage = NoMessage
    Free = Free
    SocketOf <- MCSocketOf
    FramesOf <- MCFramesOf
    ReplyOf <- NoReplies
SPECIFICATION Spec
INVARIANT NoSilentLoss
CHECK_DEADLOCK FALSE
