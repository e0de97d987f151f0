SPECIFICATION StationSpec
CONSTANTS
  c1 = c1
  c2 = c2
  c3 = c3
  dA = dA
  dB = dB
  ga = ga
  gb = gb
  g1 = g1
  h1 = h1
  h2 = h2
  k1 = k1
  k2 = k2
  l1 = l1
  l2 = l2
  l3 = l3
  pa = pa
  pb = pb
  pc = pc
  q1 = q1
  q2 = q2
  q3 = q3
  v1 = v1
  v2 = v2
  x1 = x1
  x2 = x2
  y1 = y1
  y2 = y2
  y3 = y3
  y4 = y4
  Null = Null
  Employees = {h1, h2}
  Contents = {v1, v2}
  Snapshots <- MCSnapshots
  Registers <- MCRegisters
  PeopleTasks = {k1, k2}
  PeoplePlans <- MCPeoplePlans
  MaxPeopleAttempts = 2
  MaxPeopleEdits = 1
  Doors = {g1}
  TicksPerSecond = 2
  MaxSyncWindow = 3
  MaxEventsPerSync = 1
  Lookback = 1
  MaxAccessAttempts = 2
  AccessDuration = 6
  MaxAccessSyncs = 3
  MaxAccessEvents = 2
  NoPort = NoPort
  Ports = {pa, pb, pc}
  DeviceOf <- MCDeviceOf
  Wirings <- MCWirings
  MaxTargets = 4
  TopologyPlans <- MCTopologyPlans
  LogContents = {c1, c2, c3}
  StampOf <- MCStampOf
  StampsPerDay = 3
  Uploaders = {x1, x2}
  PcPlans <- MCPcPlans
  MaxAnalyses = 3
  MaxPcAttempts = 2
  Inspections = {q1, q2, q3}
  KeptVersions = 2
  MaxBackupDay = 4
  Requests = {y1, y2, y3, y4}
  NoEpoch = NoEpoch
  NoGeneration = NoGeneration
  Lifetime = 2
  RequestTime = 1
  CachePlans <- MCCachePlans
  MaxSeconds = 3
  Calls = {l1, l2, l3}
  Groups = {ga, gb}
  Flags = {"disabled", "never_expires"}
  ClientPlans <- MCClientPlans
  MaxUacWrites = 3
  NoGroup = NoGroup
  NoCall = NoCall
CHECK_DEADLOCK FALSE
INVARIANTS
  StationTypeOK SuccessIsApplied NoGapBehindCursor StaleNeedsTwoBatches TopologyConverges
  NewestDaysAreKept InvalidatedPagesGo ChangesShowInTime
PROPERTIES
  ApplyIsSynchronisation NeededLogsStay CallsKeepToTheirRequest
