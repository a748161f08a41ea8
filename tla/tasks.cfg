SPECIFICATION BackgroundSpec
CONSTANTS
  Tier = {"light", "heavy"}
  MaxTasks = 3
  Totals = {3}
  BatchSize = 2
  Keep = 2
  Runner = {"r1", "r2"}
  NoRunner = "nobody"
  Threads = 1
  Total = 1
  MaxWindows = 1
  MaxRestarts = 1
  Legacy <- SampleLogs
  Queries <- SampleQueries
  MaxAdds = 1
  MaxRewrites = 2
  MaxDeaths = 1
  MaxListings = 1
INVARIANTS
  TierExclusion
  CancelledAfterWholeBatches
  DeletedIsShown
PROPERTIES
  TasksEnd
  StopEnds
CHECK_DEADLOCK FALSE
