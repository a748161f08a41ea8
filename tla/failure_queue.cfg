SPECIFICATION CredentialsSpec
CONSTANTS
  Account = {"a", "b", "c"}
  MaxRenewals = 1
  MaxFailures = 3
  MaxConcurrent = 2
  FfAccount = {"f"}
  FfThread = {"t1", "t2"}
  NoThread = "nothread"
  MaxFfTokens = 1
  top = top
  sub = sub
  MailTaker = {"m1", "m2"}
  Source <- MailKinds
  Kind <- SampleKind
  Offers <- SampleOffers
  NoSource = NoSource
  MailDomain = {top, sub}
  Parent <- SampleParent
  NoDomain = NoDomain
  Configs <- SampleConfigs
  MaxEntries = 1
  MaxDeeds = 1
  LoginThread = {"f1", "f2"}
  MaxSessions = 1
  SessionTtl = 0
  MaxStarted = 3
  MaxPages = 1
  MaxTime = 1
  Remote = {"cpa", "sub2api"}
  RemoteKind <- SampleRemoteKind
  Item = {"i", "j"}
  Plans <- SamplePlans
  MaxImports = 2
  MaxChanges = 1
INVARIANTS
  QueueSound
  JobsSound
  OneDaemon
  LoginsMeetTheirSession
  JobsAreHonest
PROPERTIES
  VerificationHappens
  DelaysKept
  RejectedIsAvoided
CHECK_DEADLOCK FALSE
