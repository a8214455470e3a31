\* Two markets of one event; replacement without tolerances, so that caps are exact.
CONSTANTS
  m1 = m1
  m2 = m2
  e1 = e1
  NoEvent = NoEvent
  One = 20
  Markets <- TwoMarkets
  Start <- TwoStarts
  P <- TwoProfiles
  Inputs <- TwoInputs
  EventOf <- OneEvent
  MaxMarket = 130
  MaxEvent = 160
  MaxTotal = 180
  MaxFills = 1
SPECIFICATION Spec
INVARIANTS
  TypeOK
  Reserved
  Stable
  PairLocks
  EdgeKept
