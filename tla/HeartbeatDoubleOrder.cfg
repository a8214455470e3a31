\* One market; the heartbeat goes down and recovers once; no call fails.
CONSTANTS
  m1 = m1
  m2 = m2
  o1 = o1
  o2 = o2
  Free = Free
  Markets <- OneMarket
  Orders <- TwoOrders
  Haltable <- None
  Busy <- None
  SnapshotLags = FALSE
  MaxBeats = 1
  MaxFaults = 0
SYMMETRY GateSymmetry
SPECIFICATION Spec
INVARIANTS
  NoDoubleOrder
