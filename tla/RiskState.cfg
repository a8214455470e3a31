\* Two UTC rollovers, a loss that is one step of equity, and an operator who
\* halts and resumes while the engine is stopped.
SPECIFICATION Spec
CONSTANTS
  MaxEquity = 2
  LossKill = 1
  MaxDay = 2
  HaltLive = FALSE
INVARIANTS
  TypeOK
  HaltPersists
PROPERTIES
  LossKillHolds
  BaselineKept
