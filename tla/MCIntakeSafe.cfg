SPECIFICATION Spec
CONSTANTS
  sA = sA  sB = sB
  iA = iA  iA2 = iA2  iB = iB
  w1 = w1  w2 = w2  w3 = w3
  c1 = c1  c2 = c2  c3 = c3
  alice = alice  bob = bob
  Services = {sA}
  Instances = {iA, iA2}
  Workers = {w1, w2, w3}
  Commands = {c1, c2}
  ServiceOf <- MCServiceOf
  InstanceOf <- TwoProcesses
  Kind <- TradeAndQuery
  Addressee <- Unnamed
  NoAgent = NoAgent
  Roster <- Rosters
  OwnAgent <- Owners
  Absent = Absent
  Nobody = Nobody
  FeedbackRetries = 3
  Faults = {"duplicate", "crash", "timeout", "lost_reply", "gcs_error", "login_error", "feedback_error", "expiry"}
  MaxFaults = 2
SYMMETRY Threads
INVARIANTS
  TypeOK
  AtMostOnce
  OneAtATime
  FeedbackBounded
PROPERTIES
  LedgerSpec
  ExpiredIsRefused
CHECK_DEADLOCK FALSE
