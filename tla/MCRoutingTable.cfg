SPECIFICATION Spec
CONSTANTS
  W = 4
  OCTET = 2
  g1 = g1
  Gateways = {g1}
  Dests <- SomeDests
  Targets <- SomeTargets
  MaskValue <- LittleEndian
  Blank = Blank
  Garbled = Garbled
  MAX_LINES = 3
INVARIANTS TypeOK LoadedOnce LongestMatch
