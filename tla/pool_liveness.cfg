SPECIFICATION FairSpec
CONSTANTS
  N = 2
  Tasks = {t1, t2, t3}
  NoTask = NoTask
  Callers = {c1}
  Endless = {}
PROPERTIES
  RefinesTaskPool
  EveryTaskRuns
  DestructorReturns
  FuturesResolve
  PoolComesToRest
CHECK_DEADLOCK FALSE
