SPECIFICATION ServingSpec
CONSTANTS
  a1 = a1
  w1 = w1
  w2 = w2
  r3 = r3
  Worker = {w1, w2}
  Account = {a1}
  MaxRenewals = 1
  Cap = 2
  AutoRemoveLimited = TRUE
  AutoRemoveInvalid = TRUE
  FallbackProxy = FALSE
  SaveMayFail = FALSE
  NoToken = NoToken
  EgRequest = {w1, w2, r3}
  EgNode = {"n1", "n2"}
  Limits = {0, 1, 2}
  MaxEdits = 1
  MailWorker = {w1, w2}
  Address = {"mailbox", "alias"}
  NoAddress = "none"
  Login <- LoginOf
  Headers <- SampleHeaders
  MaxSends = 2
  MaxDeeds = 1
  Picture = {"p"}
  MaxModes = 1
  MaxHalts = 1
SYMMETRY ServingSymmetry
INVARIANTS
  SlotAccounting
  PlacesAreHeld
  SoleHolder
  StoredIsServed
PROPERTIES
  SubmittedOnce
