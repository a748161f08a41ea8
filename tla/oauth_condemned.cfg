SPECIFICATION Spec
CONSTANTS
  Caller = {"c1", "c2"}
  MaxIssues = 3
  MaxCalls = 3
  AutoRemove = FALSE
  NoCaller = "nobody"
INVARIANTS
  AbnormalIsConfirmed
CHECK_DEADLOCK FALSE
