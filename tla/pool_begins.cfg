SPECIFICATION FairSpec
CONSTANTS
  N = 2
  Tasks = {t1, t2, t3}
  NoTask = NoTask
  Callers = {c1}
  Endless = {t1}
PROPERTIES
  BeginsOnceEnqueued
CHECK_DEADLOCK FALSE
