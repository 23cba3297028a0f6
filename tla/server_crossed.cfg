SPECIFICATION Spec
CONSTANTS
  Conns = {c1, c2}
  Nobody = Nobody
  Fds = {4, 5}
  Threads = 2
  MaxOpen = 2
  Impatient = {}
  Silent = {}
  Long = {}
  Signals = FALSE
  Reuses = FALSE
  Throwing = {}
INVARIANTS
  OwnResponse
CHECK_DEADLOCK FALSE
