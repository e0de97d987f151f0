SPECIFICATION FairAccessSpec
CONSTANTS
  Doors = {g1}
  TicksPerSecond = 2
  MaxSyncWindow = 3
  MaxEventsPerSync = 1
  Lookback = 1
  MaxAccessAttempts = 2
  AccessDuration = 6
  MaxAccessSyncs = 3
  MaxAccessEvents = 1
CHECK_DEADLOCK FALSE
PROPERTIES SourceIsCollectedAgain
