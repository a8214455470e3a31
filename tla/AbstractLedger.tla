---------------------------- MODULE AbstractLedger ----------------------------
(***************************************************************************)
(* What the durable fill ledger promises, whatever the user stream and the *)
(* trade history deliver and however often the process dies.               *)
(*                                                                         *)
(* A leg is one of our maker orders inside one exchange trade.  It enters  *)
(* the ledger at most once, under one spelling of its identity, and only   *)
(* after the exchange matched it.  It leaves again, by one reversing fill, *)
(* only after the exchange failed it.  It never comes back.                *)
(***************************************************************************)
CONSTANTS
  Legs,      \* maker legs that exist at the exchange
  Spelling   \* the identities a payload may spell for a leg

VARIABLES
  status,    \* leg -> what the exchange says of it
  entries,   \* leg -> the spellings under which the ledger holds its fill
  reversals  \* leg -> the spellings under which the ledger holds its reversal

vars == <<status, entries, reversals>>

Init ==
  /\ status \in [Legs -> {"none", "open", "CONFIRMED"}]
  /\ entries \in [Legs -> {{}} \union {{s} : s \in Spelling}]
  /\ \A l \in Legs : status[l] = "none" => entries[l] = {}
  /\ reversals = [l \in Legs |-> {}]

Match(l) ==
  /\ status[l] = "none"
  /\ status' = [status EXCEPT ![l] = "open"]
  /\ UNCHANGED <<entries, reversals>>

Settle(l) ==
  /\ status[l] = "open"
  /\ \E s \in {"CONFIRMED", "FAILED"} : status' = [status EXCEPT ![l] = s]
  /\ UNCHANGED <<entries, reversals>>

Count(l) ==
  /\ status[l] # "none"
  /\ entries[l] = {}
  /\ \E s \in Spelling : entries' = [entries EXCEPT ![l] = {s}]
  /\ UNCHANGED <<status, reversals>>

Reverse(l) ==
  /\ status[l] = "FAILED"
  /\ entries[l] # {}
  /\ reversals[l] = {}
  /\ reversals' = [reversals EXCEPT ![l] = entries[l]]
  /\ UNCHANGED <<status, entries>>

Next == \E l \in Legs : Match(l) \/ Settle(l) \/ Count(l) \/ Reverse(l)

Spec == Init /\ [][Next]_vars
===============================================================================
