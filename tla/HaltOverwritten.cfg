\* The operator halts while the engine runs, which is what the command is for.
SPECIFICATION Spec
CONSTANTS
  MaxEquity = 1
  LossKill = 1
  MaxDay = 0
  HaltLive = TRUE
INVARIANTS
  HaltStays
