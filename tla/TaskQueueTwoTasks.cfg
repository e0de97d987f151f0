SPECIFICATION Spec
CONSTANTS
  t1 = t1
  t2 = t2
  x1 = x1
  x2 = x2
  x3 = x3
  Tasks = {t1, t2}
  Targets = {x1, x3}
  TaskOf <- MCTaskOf1
  Scopes = {a, b}
  Workers = {w1, w2}
  Reliable = {}
  MAX_TASK_ATTEMPTS = 2
  MaxWorkers = 2
  NoTask = NoTask
  NoWorker = NoWorker
  NoScope = NoScope
SYMMETRY Symmetry
CHECK_DEADLOCK FALSE
INVARIANTS
  ScopeHasOnePublisher
PROPERTIES
  ImplementsLifecycle
