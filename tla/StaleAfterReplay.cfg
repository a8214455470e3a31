\* One BUY of 6 units; nothing crashes, is moved or leaves the windows.
CONSTANTS
  t1 = t1
  b1 = b1
  s1 = s1
  Tokens <- OneToken
  Legs <- OneBuy
  TokenOf <- OfOneToken
  Buys = {b1}
  LegSize = 6
  Start <- StartsWith8
  Grain = 2
  Dust = 4
  Drift = 4
  Transfers = {6}
  MaxTransfers = 0
  MaxForgets = 0
  MaxCrashes = 0
SPECIFICATION Spec
INVARIANTS
  KnownIsExplained
