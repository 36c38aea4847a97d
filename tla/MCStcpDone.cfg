SPECIFICATION Spec
CONSTANTS
  MSS = 1
  BASE = 4
  Isns = {1, 3}
  InitFlags <- Junk
  Total <- Both2
  Chunks = {1, 2}
  Nuls = {}
  Scripted = FALSE
INVARIANT DoneWhenClosed
CHECK_DEADLOCK FALSE
