SPECIFICATION FairSpec
CONSTANTS
  a = a
  b = b
  c = c
  p1 = p1
  p2 = p2
  p3 = p3
  p4 = p4
  None = None
  IPs = {a, b, c}
  Neighbours = {a}
  Macs = {m1, m2}
  Pkts = {p1, p3}
  Empty = {}
  Short = {}
  Reqs = {r1, r2}
  CACHE_SZ = 2
  CACHE_TO = 1
  MAX_SENDS = 2
  RESEND_GAP = 1
  ASK_BOUND = 3
  Dst <- HoleyDst
  Gw <- HoleyGw
INVARIANTS UniqueMapping SentToNeighbour
PROPERTIES RequestLeaves MappingExpires MainReturns
