SPECIFICATION Spec
CONSTANTS
  a1 = a1
  a2 = a2
  w1 = w1
  w2 = w2
  w3 = w3
  Worker = {w1, w2, w3}
  Account = {a1}
  MaxRenewals = 1
  Cap = 1
  AutoRemoveLimited = TRUE
  AutoRemoveInvalid = TRUE
  FallbackProxy = FALSE
  SaveMayFail = TRUE
  NoToken = NoToken
SYMMETRY PoolSymmetry
INVARIANTS
  SettledAccountBound
