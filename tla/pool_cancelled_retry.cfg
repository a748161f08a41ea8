SPECIFICATION Spec
CONSTANTS
  a1 = a1
  a2 = a2
  w1 = w1
  w2 = w2
  w3 = w3
  Worker = {w1}
  Account = {a1}
  MaxRenewals = 1
  Cap = 1
  AutoRemoveLimited = TRUE
  AutoRemoveInvalid = TRUE
  FallbackProxy = TRUE
  SaveMayFail = FALSE
  NoToken = NoToken
SYMMETRY PoolSymmetry
INVARIANTS
  CleanupAfterRequests
