-------------------------------- MODULE LiveTest --------------------------------
(***************************************************************************)
(* The live round trip: one real order is placed, looked at and removed.   *)
(*                                                                         *)
(*   livetest.py            run_livetest and its helpers                   *)
(*   execution/gateway.py   place, get_order, open_orders, cancel,         *)
(*                          cancel_asset as the test uses them             *)
(*                                                                         *)
(* The placement and the clean-up are tasks of their own, which the test   *)
(* waits for behind a shield: Ctrl-C is noted and the wait goes on.  A     *)
(* second Ctrl-C ends the event loop and cancels those tasks as well; the  *)
(* loop around the wait then turns for ever.  An answer of the exchange    *)
(* may be lost, late or older than what it is about.                       *)
(***************************************************************************)
EXTENDS Integers

CONSTANTS
  Readbacks,    \* len(_READBACK_DELAYS_S)
  IdConfirms,   \* attempts to see the order gone after its own cancellation
  AssetConfirms,\* the same after a cancellation of the whole token
  AssetRounds   \* attempts to cancel the whole token

ASSUME TestAssumption ==
  {Readbacks, IdConfirms, AssetConfirms, AssetRounds} \subseteq Nat \ {0}

VARIABLES
  test,     \* where run_livetest is; "spin": in a loop that cannot end
  trial,    \* exchange: the order; "flying": posted and not yet taken
  known,    \* order_id is known
  tries,    \* reads left in the loop under way
  rounds,   \* cancellations of the token left; AssetRounds: none was tried
  seen,     \* observed_resting
  outcome,  \* of the clean-up: "none", "clean" or "critical"
  ctrlC,    \* how often it was pressed
  excuses   \* history: what no clean-up can see

testVars == <<test, trial, known, tries, rounds, seen, outcome, ctrlC, excuses>>

Resting == trial = "live"

\* A read that may be older than the end of the order, but not than its beginning.
MayShow == trial \in {"live", "over"}

-------------------------------------------------------------------------------
(* The exchange *)

\* A posted order is taken or refused at any time, even after the client gave up.
Arrives ==
  /\ trial = "flying"
  /\ \/ trial' = "refused" /\ UNCHANGED excuses
     \/ /\ trial' = "live"
        /\ excuses' = IF test \in {"close", "done"} THEN excuses \union {"late"} ELSE excuses
  /\ UNCHANGED <<test, known, tries, rounds, seen, outcome, ctrlC>>

\* It is filled, or ended by the exchange.
TrialEnds ==
  /\ Resting /\ test # "off"
  /\ trial' = "over"
  /\ UNCHANGED <<test, known, tries, rounds, seen, outcome, ctrlC, excuses>>

-------------------------------------------------------------------------------
(* run_livetest *)

\* Nothing of ours is open on the token, and a deep price and a small size exist.
PlaceTrial ==
  /\ test = "start"
  /\ test' = "posting" /\ trial' = "flying"
  /\ UNCHANGED <<known, tries, rounds, seen, outcome, ctrlC, excuses>>

\* One of the checks before fails, or says no: there is nothing to clean up.
RefuseTrial ==
  /\ test = "start"
  /\ test' = "close"
  /\ UNCHANGED <<trial, known, tries, rounds, seen, outcome, ctrlC, excuses>>

\* The post is answered with the order's id, or it fails or the answer names none.
Placed ==
  /\ test = "posting"
  /\ \/ MayShow /\ known' = TRUE
     \/ UNCHANGED known
  /\ IF known' /\ ctrlC = 0
     THEN test' = "observe" /\ tries' = Readbacks
     ELSE test' = "cleanup" /\ UNCHANGED tries
  /\ UNCHANGED <<trial, rounds, seen, outcome, ctrlC, excuses>>

ObserveResting ==
  /\ test = "observe"
  /\ \/ MayShow /\ seen' = TRUE /\ test' = "cleanup" /\ UNCHANGED tries
     \/ trial = "over" /\ test' = "cleanup" /\ UNCHANGED <<seen, tries>>
     \/ /\ tries' = tries - 1
        /\ test' = IF tries' = 0 THEN "cleanup" ELSE test
        /\ UNCHANGED seen
  /\ UNCHANGED <<trial, known, rounds, outcome, ctrlC, excuses>>

-------------------------------------------------------------------------------
(* _cancel_and_confirm *)

\* What a cancellation does to the order, whatever it reports.
Removed == IF Resting THEN "over" ELSE trial

\* By the order's id; whether it was carried out is not looked at.
CancelById ==
  /\ test = "cleanup" /\ known
  /\ trial' \in {trial, Removed}
  /\ test' = "confirm" /\ tries' = IdConfirms
  /\ UNCHANGED <<known, rounds, seen, outcome, ctrlC, excuses>>

NoId ==
  /\ test = "cleanup" /\ ~known
  /\ test' = "fallback"
  /\ UNCHANGED <<trial, known, tries, rounds, seen, outcome, ctrlC, excuses>>

\* A round is over without a confirmation.
NextRound ==
  IF rounds = 1 THEN test' = "close" /\ outcome' = "critical" /\ rounds' = 0
  ELSE test' = "fallback" /\ rounds' = rounds - 1 /\ UNCHANGED outcome

CancelAsset ==
  /\ test = "fallback"
  /\ \/ /\ trial' = Removed
        /\ test' = "confirmAsset" /\ tries' = AssetConfirms
        /\ UNCHANGED <<rounds, outcome>>
     \/ trial' \in {trial, Removed} /\ NextRound /\ UNCHANGED tries
  /\ UNCHANGED <<known, seen, ctrlC, excuses>>

ClearAtOnce ==   \* mutant: a read that fails is taken for an empty one
  /\ test \in {"confirm", "confirmAsset"}
  /\ test' = "close" /\ outcome' = "clean"
  /\ UNCHANGED <<trial, known, tries, rounds, seen, ctrlC, excuses>>

\* open_orders answers that nothing of ours is left, now or at an earlier time.
Clear ==
  /\ test \in {"confirm", "confirmAsset"}
  /\ excuses' = IF Resting THEN excuses \union {"lag"} ELSE excuses
  /\ test' = "close" /\ outcome' = "clean"
  /\ UNCHANGED <<trial, known, tries, rounds, seen, ctrlC>>

\* It fails, or still shows the order.
NotClear ==
  /\ test \in {"confirm", "confirmAsset"}
  /\ tries' = tries - 1
  /\ IF tries' > 0 THEN UNCHANGED <<test, rounds, outcome>>
     ELSE IF test = "confirm" THEN test' = "fallback" /\ UNCHANGED <<rounds, outcome>>
     ELSE NextRound
  /\ UNCHANGED <<trial, known, seen, ctrlC, excuses>>

-------------------------------------------------------------------------------
(* The end *)

\* gateway.close, and the verdict.
CloseTest ==
  /\ test = "close"
  /\ test' = "done"
  /\ UNCHANGED <<trial, known, tries, rounds, seen, outcome, ctrlC, excuses>>

Shielded == {"posting", "cleanup", "confirm", "fallback", "confirmAsset"}

CtrlCUnshielded ==   \* mutant: the task waits for the placement without a shield
  /\ test \in Shielded \union {"start", "observe"} /\ ctrlC = 0
  /\ ctrlC' = 1
  /\ test' = IF test \in {"start", "posting"} THEN "close"
             ELSE IF test = "observe" THEN "cleanup" ELSE test
  /\ UNCHANGED <<trial, known, tries, rounds, seen, outcome, excuses>>

\* The first one cancels the test, which goes on to what is left to clean up.
CtrlC ==
  /\ test \in Shielded \union {"start", "observe"} /\ ctrlC = 0
  /\ ctrlC' = 1
  /\ test' = IF test = "start" THEN "close" ELSE IF test = "observe" THEN "cleanup" ELSE test
  /\ UNCHANGED <<trial, known, tries, rounds, seen, outcome, excuses>>

\* The second one cancels the shielded task: the wait for it raises again and again.
CtrlCAgain ==
  /\ test \in Shielded /\ ctrlC = 1
  /\ ctrlC' = 2
  /\ test' = "spin"
  /\ UNCHANGED <<trial, known, tries, rounds, seen, outcome, excuses>>

-------------------------------------------------------------------------------
TestInit ==
  /\ test = "start" /\ trial = "none" /\ known = FALSE /\ tries = 0
  /\ rounds = AssetRounds /\ seen = FALSE /\ outcome = "none" /\ ctrlC = 0 /\ excuses = {}

TestNext ==
  \/ Arrives \/ TrialEnds \/ PlaceTrial \/ RefuseTrial \/ Placed \/ ObserveResting
  \/ CancelById \/ NoId \/ CancelAsset \/ Clear \/ NotClear \/ CloseTest
  \/ CtrlC \/ CtrlCAgain

TestSpec == TestInit /\ [][TestNext]_testVars

-------------------------------------------------------------------------------
(* Properties *)

TestTypeOK ==
  /\ test \in Shielded \union {"off", "start", "observe", "close", "done", "spin"}
  /\ trial \in {"none", "flying", "refused", "live", "over"}
  /\ {known, seen} \subseteq BOOLEAN /\ rounds \in 0 .. AssetRounds
  /\ tries \in 0 .. Readbacks + IdConfirms + AssetConfirms
  /\ outcome \in {"none", "clean", "critical"} /\ ctrlC \in 0 .. 2
  /\ excuses \subseteq {"late", "lag"}

\* "Cleanup must run for every failure mode" (run_livetest): a test that ended, whatever
\* failed and whenever it was interrupted, left no order at the exchange or said that it
\* could not make sure, unless a read was older than the order or the order was taken
\* after the last look.  A round trip that is called OK has been one.
TestCleans ==
  test = "done" =>
    /\ Resting => outcome = "critical" \/ excuses # {}
    /\ trial = "none" \/ outcome # "none"
    /\ seen => known /\ trial \in {"live", "over"}
===============================================================================
