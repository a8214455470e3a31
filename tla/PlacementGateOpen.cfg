\* Everything the exchange may do to us, on two markets that share one order id.
CONSTANTS
  m1 = m1
  m2 = m2
  o1 = o1
  o2 = o2
  Free = Free
  Markets <- TwoMarkets
  Orders <- OneOrder
  Haltable <- None
  Busy <- TwoMarkets
  SnapshotLags = TRUE
  MaxBeats = 1
  MaxFaults = 1
SYMMETRY GateSymmetry
SPECIFICATION Spec
INVARIANTS
  QuarantineEmpties
