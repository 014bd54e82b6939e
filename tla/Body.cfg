\* Requests of every kind in segments of any length.
CONSTANTS
    Requests <- MCRequests
    Names <- MCNames
    Bytes <- MCBytes
    InitialSize = 8
    MaxSize = 20
    WordSize = 64
SPECIFICATION Spec
INVARIANTS
    TypeOK
    BufferSound
    BodyWhole
    Served
CHECK_DEADLOCK FALSE
