SPECIFICATION TaskFilesSpec
CONSTANTS
  Task = {"k1", "k2", "k3"}
  MaxCrashes = 2
  EdTask <- EditableSample
  LastPart <- SampleLastPart
  MaxNumber = 3
  MaxDeaths = 1
  MaxVersions = 4
  TuImage = {1, 2}
  Alien = 9
  Budget = 3
  InitialWait = 1
  Interval = 1
  SettleTime = 1
  CallTime = 1
INVARIANTS
  ShownIsStored
  OneThreadPerTask
  ResultsAreOwn
  WrittenIsRead
  TurnIsSound
PROPERTIES
  KeepsPromise
  TasksEnd
  EditableTasksEnd
CHECK_DEADLOCK FALSE
