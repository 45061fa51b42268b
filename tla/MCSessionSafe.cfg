SPECIFICATION FairSpec
CONSTANTS
  Agents <- TwoAgents
  Accounts <- TwoAccounts
  Mapping <- OneEach
  LoginResults <- EveryLogin
  Sessions = {s1, s2, s3}
  None = None
  LoginMaxRetry = 1
  Faults = {"login_fails", "session_dies", "logout_fails", "opaque_error", "killed"}
  MaxFaults = 2
INVARIANTS
  TypeOK
  OneSession
  AccountFollowsAgent
PROPERTIES
  OwnLogoutIsHarmless
  DeadSessionIsReplaced
