SPECIFICATION FairMaintenanceSpec
CONSTANTS
  b1 = b1
  d1 = d1
  d2 = d2
  e1 = e1
  m1 = m1
  n0 = n0
  p1 = p1
  p2 = p2
  s1 = s1
  s2 = s2
  u1 = u1
  z1 = z1
  z2 = z2
  Events = {e1}
  Deliveries = {d1, d2}
  EventOf <- MCEventOf
  Workers = {w1, w2}
  MaxAttempts = 2
  Limit = 2
  NoAnswer = NoAnswer
  Deployments <- MCDeployments
  DeviceSchedules = {s1}
  BoundSchedules = {s2}
  Assets = {m1}
  SelectorOf <- MCSelectorOf
  TimingOf <- MCTimingOf
  DayLength = 2
  MaxTime = 3
  Pollers = {p1, p2}
  SteadyPollers = {p1}
  Editors = {u1}
  MaxInterventions = 2
  RetainedAssets = {b1}
  RetentionSettings = {n0}
  RetentionDays <- MCRetentionDays
  HistoryDays = 1
  RecordLimit = 1
  HistoryLimit = 1
  Sweepers = {z1, z2}
  SteadySweepers = {z1}
  HistoryPlans <- MCHistoryPlans
  MaxHistory = 3
  MaxDay = 2
  Results = {1, 2, 3}
  Operators = {o1, o2}
  PageLimit = 1
  MaxCommands = 3
  MaxHistoryEvents = 1
CHECK_DEADLOCK FALSE
INVARIANTS
  MaintenanceTypeOK HeldRowsCount
  OccurrencesAreKept NothingNeededGoes ArchiveLosesNothing
PROPERTIES
  ClosedRowsStay ImplementsOutbox DeliveryEnds DueSchedulesRun RecordsExpire
