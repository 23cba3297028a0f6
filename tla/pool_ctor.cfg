SPECIFICATION FairSpec
CONSTANTS
  number_of_threads = 3
  Tasks = {t1, t2}
  NoTask = NoTask
  Callers = {c1}
  Endless = {}
INVARIANTS
  EarlyWorkersSleep
PROPERTIES
  BuiltAsPool
  RunsOrRefuses
CHECK_DEADLOCK FALSE
