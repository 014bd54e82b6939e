\* Two files, texts and files of whole and broken numbers of chunks, every kind of
\* request, and routes that make up to two calls.
CONSTANTS
    Requests <- MCRequests
    Texts = {0, 3, 4}
    Files = {f1, f2}
    FileSizes = {0, 4, 5}
    NoFile = NoFile
    Missing = Missing
    ChunkSize = 2
    WordSize = 16
    MaxCalls = 2
SPECIFICATION Spec
INVARIANTS
    TypeOK
    Framed
    RouteAgrees
CHECK_DEADLOCK FALSE
