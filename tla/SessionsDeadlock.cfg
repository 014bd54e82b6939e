\* One request and the expiry check.
CONSTANTS
    Workers = {w1}
    Sessions = {s1}
    Ids = {i1, i2}
    MaxData = 0
    MaxCrashes = 0
    Nobody = Nobody
    NoSession = NoSession
    NoFile = NoFile
    Torn = Torn
SPECIFICATION FairSpec
PROPERTY SetIdCompletes
CHECK_DEADLOCK FALSE
