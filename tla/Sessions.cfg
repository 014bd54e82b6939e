\* Two requests at a time, a session that may be given three ids, one restart.
CONSTANTS
    Workers = {w1, w2}
    Sessions = {s1}
    Ids = {i1, i2, i3}
    MaxData = 1
    MaxCrashes = 1
    Nobody = Nobody
    NoSession = NoSession
    NoFile = NoFile
    Torn = Torn
SYMMETRY Symmetry
SPECIFICATION Spec
INVARIANTS
    TypeOK
    RegisteredByItsId
    SavedUnlessShared
CHECK_DEADLOCK FALSE
