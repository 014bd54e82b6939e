\* One closing thread; payloads whose length fits in the head and not.  Two
\* frames together make expand_buffer's vector too long, or its sum wrap.
CONSTANTS
    Users = {u1}
    Len7 = 2
    Len16 = 3
    PeerOps = {0, 2, 8, 9}
    Lengths = {0, 1, 3}
    WordSize = 5
    MaxBuffer = 3
    FrameSize = 2
    MaxFrames = 2
SPECIFICATION Spec
INVARIANTS
    TypeOK
    ReadTimed
    MessageWhole
    FramesCarryMessage
PROPERTIES
    IdleCloses
    ClosedReleased
CHECK_DEADLOCK FALSE
