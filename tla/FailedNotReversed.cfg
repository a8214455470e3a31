\* One leg, whose messages all name our order; one crash; no pin grows too old.
CONSTANTS
  l1 = l1
  l2 = l2
  t1 = t1
  Legs <- OneLeg
  Tokens <- OneToken
  TokenOf <- SameToken
  StreamSpelling = {"canonical"}
  Day = 3
  Overlap = 1
  PendingMaxAge = 9
  MaxTime = 2
  MaxCrashes = 1
SPECIFICATION ReplaySpec
PROPERTIES
  FailedLegReversed
CHECK_DEADLOCK FALSE
