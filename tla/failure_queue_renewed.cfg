SPECIFICATION Spec
CONSTANTS
  Account = {"a", "b"}
  MaxRenewals = 1
  MaxFailures = 3
  MaxConcurrent = 2
INVARIANTS
  NoOrderLost
CHECK_DEADLOCK FALSE
