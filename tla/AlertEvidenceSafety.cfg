SPECIFICATION Spec
CONSTANTS
  t1 = t1
  t2 = t2
  x1 = x1
  x2 = x2
  Tasks = {t1, t2}
  Targets = {x1, x2}
  Inventories <- MCInventories
  Items = {"cpu", "identity_match"}
  Workers = {w1}
  Reliable = {}
  Poison = {}
  Limit = 2
  NoResult = NoResult
  NoSummary = NoSummary
INVARIANTS
  StateFollowsNewest
  RecoveryFollowsAlarm
  NoFalseRecovery
  SummaryIsSettled
