SPECIFICATION CallsSpec
CONSTANTS
  Caller = {"c1", "c2"}
  MaxIssues = 2
  MaxCalls = 3
  AutoRemove = TRUE
  NoCaller = "nobody"
  CcCaller = {"c1", "c2", "c3"}
  CcThread = {"t1", "t2"}
  NoOne = "none"
  Chunks = 2
  Word <- SampleWord
  Requests <- SampleRequests
  TextAccount = {"a1", "a2"}
  Renewals = 1
  Payload <- SamplePayload
  MaxPayloads = 3
  MaxLooks = 3
  ImCall = {"k1", "k2"}
  Asks <- SampleAsks
  NoCall = "nocall"
  MaxTraces = 1
  MaxCancels = 1
INVARIANTS
  CredentialKept
  AnswersWhole
  OneComputes
  TextIsTold
  FramesParse
  ImagesAreWhole
  CallsAreBooked
PROPERTIES
  CallsReturn
CHECK_DEADLOCK FALSE
