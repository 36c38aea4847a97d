SPECIFICATION Spec
CONSTANTS
  a = a
  b = b
  c = c
  p1 = p1
  p2 = p2
  p3 = p3
  p4 = p4
  None = None
  IPs = {a}
  Neighbours = {a}
  Macs = {m1}
  Pkts = {p1, p2}
  Empty = {}
  Short = {}
  Reqs = {r1, r2}
  CACHE_SZ = 1
  CACHE_TO = 15
  MAX_SENDS = 5
  RESEND_GAP = 1
  ASK_BOUND = 6
  Dst <- DirectDst
  Gw <- DirectGw

INVARIANT AskedAtMostMax
