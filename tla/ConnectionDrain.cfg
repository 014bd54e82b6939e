\* One refused request whose peer never closes.
CONSTANT MaxRequests = 1
SPECIFICATION FairSpec
PROPERTY DrainSettles
CHECK_DEADLOCK FALSE
