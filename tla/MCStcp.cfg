SPECIFICATION Spec
CONSTANTS
  MSS = 1
  BASE = 4
  Isns = {1, 3}
  InitFlags <- Junk
  Total <- Both3
  Chunks = {1, 2}
  Nuls = {}
  Scripted = FALSE
INVARIANTS TypeOK PrefixRead EofComplete ClientSeqAgrees AcksReceived
CHECK_DEADLOCK FALSE
