SPECIFICATION FfSpec
CONSTANTS
  FfAccount = {"f"}
  FfThread = {"t1", "t2"}
  NoThread = "nothread"
  MaxFfTokens = 1
INVARIANTS
  RefreshSticks
