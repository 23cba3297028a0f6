SPECIFICATION Spec
CONSTANTS
  Conns = {c1, c2, c3}
  Nobody = Nobody
  Fds = {4, 5}
  Threads = 2
  MaxOpen = 3
  Impatient = {c1, c2}
  Silent = {}
  Long = {c1}
  Signals = TRUE
  Reuses = TRUE
  Throwing = {c3, Nobody}
INVARIANTS
  TypeOK
  NoTaskOutlivesStart
  AnsweredOnce
CHECK_DEADLOCK FALSE
