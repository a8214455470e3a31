-------------------------------- MODULE MCParts --------------------------------
(***************************************************************************)
(* Parts of the engine that share no variable, small enough for TLC to     *)
(* explore one after the other.  "part" names the one that moves; each of  *)
(* the others rests in a state in which none of its fair actions can       *)
(* happen: a token without a service, a quoter and a refresh that were     *)
(* never started, a process and a test that have ended.                    *)
(***************************************************************************)
EXTENDS MarketFeed, Regime, RewardRefresh, Lifecycle, LiveTest

VARIABLE part

partsVars == <<part, feedVars, regimeVars, rewardVars, lifeVars, testVars>>

FeedBook == [s \in Sides |-> IF s = "bids" THEN {1} ELSE {4}]

TwoConditions == {1, 2}
OnePageEach == [c \in Conditions |-> c]
Uneven == [c \in Conditions |-> 3 - c]
SameEvent == [c \in Conditions |-> 1]

FeedRests ==
  /\ xbook = FirstBook /\ link = "off" /\ chan = <<>> /\ gap = 0
  /\ book = FirstBook /\ fetch = {} /\ behind = FALSE
  /\ killed = FALSE /\ quoted = FALSE
  /\ feedBounds = [moves |-> 0, missed |-> 0, drops |-> 0]

RegimeRests ==
  /\ pause = 0 /\ steady = Unsteady /\ event = 0 /\ trending = FALSE /\ regime = "QUIET"
  /\ sweep = FALSE /\ wake = -1 /\ calm = FALSE /\ owed = 0 /\ late = 0

RewardRests ==
  /\ listed = [c \in Conditions |-> 0] /\ closed = {}
  /\ rate = listed /\ halted = {} /\ entries = {}
  /\ reader = [ReaderIdle EXCEPT !.pc = "off"] /\ unlisted = {} /\ changes = 0

LifeRests ==
  /\ life = "down" /\ beating = TRUE /\ task = [t \in Tasks |-> "none"]
  /\ watched = {} /\ doomed = FALSE /\ deaths = 0
  /\ placing = FALSE /\ call = "none" /\ live = FALSE
  /\ armed = FALSE /\ missed = FALSE /\ left = {}

TestRests ==
  /\ test = "off" /\ trial = "none" /\ known = FALSE /\ tries = 0
  /\ rounds = AssetRounds /\ seen = FALSE /\ outcome = "none" /\ ctrlC = 0 /\ excuses = {}

PartsInit ==
  \/ part = "feed" /\ FeedInit /\ RegimeRests /\ RewardRests /\ LifeRests /\ TestRests
  \/ part = "regime" /\ FeedRests /\ RegimeInit /\ RewardRests /\ LifeRests /\ TestRests
  \/ part = "reward" /\ FeedRests /\ RegimeRests /\ RewardInit /\ LifeRests /\ TestRests
  \/ part = "life" /\ FeedRests /\ RegimeRests /\ RewardRests /\ LifeInit /\ TestRests
  \/ part = "test" /\ FeedRests /\ RegimeRests /\ RewardRests /\ LifeRests /\ TestInit

PartsNext ==
  /\ UNCHANGED part
  /\ \/ part = "feed" /\ FeedNext /\ UNCHANGED <<regimeVars, rewardVars, lifeVars, testVars>>
     \/ part = "regime" /\ RegimeNext /\ UNCHANGED <<feedVars, rewardVars, lifeVars, testVars>>
     \/ part = "reward" /\ RewardNext /\ UNCHANGED <<feedVars, regimeVars, lifeVars, testVars>>
     \/ part = "life" /\ LifeNext /\ UNCHANGED <<feedVars, regimeVars, rewardVars, testVars>>
     \/ part = "test" /\ TestNext /\ UNCHANGED <<feedVars, regimeVars, rewardVars, lifeVars>>

PartsSpec ==
  /\ PartsInit /\ [][PartsNext]_partsVars
  /\ FeedFair /\ RegimeFair /\ RewardFair /\ LifeFair

\* The type invariants of the parts, each asked of the part that moves.
PartsTypeOK ==
  /\ part = "feed" => FeedTypeOK
  /\ part = "regime" => RegimeTypeOK
  /\ part = "reward" => RewardTypeOK
  /\ part = "life" => LifeTypeOK
  /\ part = "test" => TestTypeOK

\* The temporal properties, asked of the part they are about.

\* BookCatchesUp of MarketFeed: the local tops end up at the exchange's.
FeedCatchesUp == part = "feed" => BookCatchesUp

\* BlindPulled of MarketFeed: quotes that cannot be justified any more are pulled.
FeedBlindPulled == part = "feed" => BlindPulled

\* EventEnds of Regime: quotes pulled for an event return once the market is calm.
RegimeEventEnds == part = "regime" => EventEnds

\* RatesCatchUp of RewardRefresh: the rates of open markets become the official ones.
RatesFollow == part = "reward" => RatesCatchUp

\* NeverHalfDead of Lifecycle: a dead task runs again or the process ends.
LifeNeverHalfDead == part = "life" => NeverHalfDead

\* CrashCleans of Lifecycle: no order outlives a crash unless a heartbeat had failed.
LifeCrashCleans == part = "life" => CrashCleans
===============================================================================
