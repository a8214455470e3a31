\* Two markets that may be halted; no dead heartbeat, no in-flight fill, prompt snapshots.
CONSTANTS
  m1 = m1
  m2 = m2
  o1 = o1
  o2 = o2
  Free = Free
  Markets <- TwoMarkets
  Orders <- TwoOrders
  Haltable <- TwoMarkets
  Busy <- None
  SnapshotLags = FALSE
  MaxBeats = 0
  MaxFaults = 1
SYMMETRY GateSymmetry
SPECIFICATION Spec
INVARIANTS
  TypeOK
  NoDoubleOrder
  UntrackedMeansUnknown
