SPECIFICATION Spec
CONSTANTS
  o1 = o1
  s1 = s1
  x1 = x1
  x2 = x2
  Operations = {o1}
  Syncs = {s1}
  Targets = {x1, x2}
  Inventories <- MCInventories
  Names = {"a", "b"}
  Workers = {w1, w2}
  Reliable = {}
  MAX_TASK_ATTEMPTS = 2
  NoTask = NoTask
  NoWorker = NoWorker
  NoContext = NoContext
CHECK_DEADLOCK FALSE
SYMMETRY WorkerSymmetry
INVARIANTS
  PasswordWrittenOnce
  AuditMatchesTask
PROPERTIES
  MirrorNeverRegresses
  ImplementsTaskLifecycle
