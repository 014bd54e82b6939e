\* A peer that pings, and nobody else who closes.
CONSTANTS
    Users = {}
    Len7 = 2
    Len16 = 4
    PeerOps = {0, 2, 9}
    Lengths = {0, 1}
    WordSize = 16
    MaxBuffer = 8
    FrameSize = 2
    MaxFrames = 1
SPECIFICATION Spec
PROPERTIES
    TimeoutCloses
CHECK_DEADLOCK FALSE
