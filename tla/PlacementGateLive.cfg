\* Two markets, one of which may be halted, that share one order id.
CONSTANTS
  m1 = m1
  m2 = m2
  o1 = o1
  o2 = o2
  Free = Free
  Markets <- TwoMarkets
  Orders <- OneOrder
  Haltable <- OneMarket
  Busy <- None
  SnapshotLags = FALSE
  MaxBeats = 0
  MaxFaults = 1
SPECIFICATION FairSpec
PROPERTIES
  HaltDrains
  Recovers
