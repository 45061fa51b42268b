SPECIFICATION FairSpec
CONSTANTS
  sA = sA  sB = sB
  iA = iA  iA2 = iA2  iB = iB
  w1 = w1  w2 = w2  w3 = w3
  c1 = c1  c2 = c2  c3 = c3
  alice = alice  bob = bob
  Services = {sA, sB}
  Instances = {iA, iB}
  Workers = {w1, w2, w3}
  Commands = {c1, c2, c3}
  ServiceOf <- MCServiceOf
  InstanceOf <- OneProcess
  Kind <- TradeAndUnusable
  Addressee <- ForAlice
  NoAgent = NoAgent
  Roster <- Rosters
  OwnAgent <- Owners
  Absent = Absent
  Nobody = Nobody
  FeedbackRetries = 3
  Faults = {"duplicate", "timeout"}
  MaxFaults = 1
INVARIANTS
  AcknowledgedIsHandled
PROPERTIES
  EveryCommandRuns
  LockIsGranted
  BacklogDrains
CHECK_DEADLOCK FALSE
