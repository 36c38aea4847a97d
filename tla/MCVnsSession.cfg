SPECIFICATION FairSpec
CONSTANTS
  e1 = e1
  e2 = e2
  m1 = m1
  m2 = m2
  None = None
  WORD = 16
  TTLS = 4
  ANSWER_TTL = 1
  Ifaces = {e1, e2}
  Macs = {m1, m2, bcast}
  Bcast = bcast
  Hosts = {3, 14}
  Headers <- MCHeaders
  Junk = {0, 1}
  Descriptions <- MCDescriptions
  Tables <- MCTables
  LEN_CELLS = 2
  MAX_LEN = 5
  Commands <- MCCommands
  MAX_TODO = 2
  MAX_IFS = 2
INVARIANTS TypeOK Framed HandshakeFirst RoutesVerified SourceIsInterface HeadersValid
PROPERTIES FirstDescriptionWins CloseEnds
CHECK_DEADLOCK FALSE
