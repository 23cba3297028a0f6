SPECIFICATION FairSpec
CONSTANTS
  Conns = {c1, c2, c3, c4, c5}
  Nobody = Nobody
  Fds = {4, 5}
  Threads = 2
  MaxOpen = 1
  Impatient = {}
  Silent = {c1, c2}
  Long = {c3}
  Signals = FALSE
  Reuses = FALSE
  Throwing = {}
INVARIANTS
  OwnResponse
PROPERTIES
  Served
  StartReturns
CHECK_DEADLOCK FALSE
