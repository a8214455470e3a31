\* Feed: four prices, two moves, one message and one connection lost.  Regime: a
\* cool-off longer than the pauses and shorter than the tick.  Rewards: two markets of
\* one event on two pages.  Life: two tasks that raise.  Test: the attempts of
\* livetest.py.
SPECIFICATION PartsSpec
CONSTANTS
  Prices = {1, 2, 3, 4}
  FirstBook <- FeedBook
  StaleAfter = 1
  MaxMoves = 2
  MaxMissed = 1
  MaxDrops = 1
  Cooloff = 4
  Pause = 2
  Confirm = 2
  BaseTick = 5
  HeldTick = 2
  Conditions <- TwoConditions
  Rates = {0, 1, 2}
  PageOf <- OnePageEach
  Pages = 2
  MaxPages = 2
  MaxRetries = 1
  Required <- Uneven
  EventOf <- SameEvent
  MaxTotal = 3
  MaxMarket = 2
  MaxEvent = 2
  MaxChanges = 1
  MaxDeaths = 2
  Readbacks = 5
  IdConfirms = 2
  AssetConfirms = 5
  AssetRounds = 3
INVARIANTS
  PartsTypeOK
  FeedInSync
  CooloffServed
  EntriesFit
  DownExplained
  TestCleans
PROPERTIES
  FeedCatchesUp
  FeedBlindPulled
  RegimeEventEnds
  
  RatesFollow
  LifeNeverHalfDead
  LifeCrashCleans
CHECK_DEADLOCK FALSE
