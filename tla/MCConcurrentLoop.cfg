SPECIFICATION FairSpec
CONSTANTS
  w1 = w1
  w2 = w2
  c1 = c1
  t1 = t1
  t2 = t2
  t3 = t3
  a1 = a1
  Workers <- MCWorkers
  Callers <- MCCallers
  PoolTasks <- MCPoolTasks
  AllTasks <- MCAllTasks
  NoTask = NoTask
CHECK_DEADLOCK FALSE
INVARIANTS
  ExactlyOnePlace
  SomebodyComes
  OwnTasksKept
PROPERTIES
  PostedTasksRun
  AllWorkersRun
  WorkersExit
