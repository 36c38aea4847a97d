SPECIFICATION FairSpec
CONSTANTS
  c1 = c1
  c2 = c2
  Clients = {c1, c2}
  Nobody = nobody
  Removed = removed
  Texts <- MCTexts
  Missing = missing
  DEFAULT_NHDRS = 2
  Requests <- MCRequests
  Size <- MCSize
  Directories = {"folder"}
  CHUNK = 2
  MAX_BODY = 1
INVARIANTS TypeOK OneClose NoForeignConnection WholeAnswers
PROPERTIES Released
CHECK_DEADLOCK FALSE
