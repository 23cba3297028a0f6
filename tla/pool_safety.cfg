SPECIFICATION Spec
CONSTANTS
  N = 2
  Tasks = {t1, t2, t3, t4}
  NoTask = NoTask
  Callers = {c1, c2}
  Endless = {}
SYMMETRY Symmetry
INVARIANTS
  TypeOK
  OnePlace
  Accounted
  PendingExact
  NoLostWakeup
  RotationComplete
  FutureHonest
CHECK_DEADLOCK FALSE
