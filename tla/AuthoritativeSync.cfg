\* One token of which one SELL sells all; one transfer by hand of all but dust,
\* one leg outside every window, one crash.
CONSTANTS
  t1 = t1
  b1 = b1
  s1 = s1
  Tokens <- OneToken
  Legs <- OneSell
  TokenOf <- OfOneToken
  Buys = {}
  LegSize = 6
  Start <- StartsWith6
  Grain = 2
  Dust = 4
  Drift = 3
  Transfers = {4}
  MaxTransfers = 1
  MaxForgets = 1
  MaxCrashes = 1
SPECIFICATION FairSpec
INVARIANTS
  TypeOK
PROPERTIES
  ProofHolds
  ResumesExplained
  DriftNoticed
  RecoversUnlessRounded
