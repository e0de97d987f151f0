SPECIFICATION FairSpec
CONSTANTS
  t1 = t1
  t2 = t2
  x1 = x1
  x2 = x2
  x3 = x3
  Tasks = {t1}
  Targets = {x1, x2}
  TaskOf <- MCTaskOf2
  Scopes = {a}
  Workers = {w1, w2}
  Reliable = {w1}
  MAX_TASK_ATTEMPTS = 2
  MaxWorkers = 1
  NoTask = NoTask
  NoWorker = NoWorker
  NoScope = NoScope
CHECK_DEADLOCK FALSE
PROPERTIES
  EnqueuedTaskEnds
  WorkerReturns
