SPECIFICATION Spec
CONSTANTS
  Agents <- TwoAgents
  Accounts <- TwoAccounts
  Mapping <- OneEach
  LoginResults <- EveryLogin
  Sessions = {s1, s2, s3}
  None = None
  LoginMaxRetry = 1
  Faults = {}
  MaxFaults = 0
INVARIANTS
  NeverAnotherAccount
