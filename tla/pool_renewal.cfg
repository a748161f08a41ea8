SPECIFICATION SupplySpec
CONSTANTS
  a1 = a1
  w1 = w1
  Worker = {w1}
  Account = {a1}
  MaxRenewals = 2
  Cap = 1
  AutoRemoveLimited = TRUE
  AutoRemoveInvalid = TRUE
  FallbackProxy = TRUE
  SaveMayFail = TRUE
  NoToken = NoToken
  UsageAccount = {"a"}
  RetentionDays = 1
  RowCap = 3
  MaxDay = 3
  MaxRows = 4
  f1 = f1
  f2 = f2
  x = x
  y = y
  FqRequest = {f1, f2}
  FqAccount = {x, y}
  NoAccount = NoAccount
  Places = 1
  Attempts = 2
  Threshold = 1
SYMMETRY SupplySymmetry
INVARIANTS
  NoOrphanCount
  CountWithinCap
  NeverOvercharged
  PlacesMatch
  AttemptsBooked
PROPERTIES
  RotationKeepsRequest
