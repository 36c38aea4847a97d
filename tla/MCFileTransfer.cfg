SPECIFICATION FairSpec
CONSTANTS
  c1 = c1
  c2 = c2
  Clients = {c1, c2}
  Nobody = nobody
  Missing = missing
  File <- MCFile
  PKT = 2
  Numbers = {0, 2}
  MAX_ASKS <- MCAsks
INVARIANT FileShown
PROPERTY Served
CHECK_DEADLOCK FALSE
