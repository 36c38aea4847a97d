SPECIFICATION FairSpec
CONSTANTS
  MSS = 1
  BASE = 4
  Isns = {1, 3}
  InitFlags <- Junk
  Total <- Both4
  Chunks = {1, 2}
  Nuls = {}
  Scripted = TRUE
INVARIANTS DoneWhenClosed NeverBroken
PROPERTY BothDone
CHECK_DEADLOCK FALSE
