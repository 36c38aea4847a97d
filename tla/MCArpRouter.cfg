SPECIFICATION Spec
CONSTANTS
  a = a
  b = b
  c = c
  p1 = p1
  p2 = p2
  p3 = p3
  p4 = p4
  None = None
  IPs = {a, b}
  Neighbours = {a, b}
  Macs = {m1}
  Pkts = {p1, p2, p3, p4}
  Empty = {p4}
  Short = {p3}
  Reqs = {r1, r2}
  CACHE_SZ = 1
  CACHE_TO = 1
  MAX_SENDS = 1
  RESEND_GAP = 0
  ASK_BOUND = 2
  Dst <- DirectDst
  Gw <- DirectGw
SYMMETRY Symmetry
INVARIANTS TypeOK UniqueRequests QueueLive SweepSafe NoStranded OnePlace TimesBounded
PROPERTIES ImplementsService AskedBeforeDrop
