\* One day per tick, so that every tick is a UTC rollover.
CONSTANTS
  l1 = l1
  l2 = l2
  t1 = t1
  Legs <- TwoLegs
  Tokens <- OneToken
  TokenOf <- SameToken
  StreamSpelling = {"legacy"}
  Day = 1
  Overlap = 0
  PendingMaxAge = 1
  MaxTime = 2
  MaxCrashes = 1
SPECIFICATION FairSpec
INVARIANTS
  TypeOK
  ExactlyOnce
  ReversalJustified
  GuardHasLeg
PROPERTIES
  PinnedLegSettles
  CheckpointSettles
  ImplementsAbstractLedger
CHECK_DEADLOCK FALSE
