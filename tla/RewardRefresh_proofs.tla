-------------------------- MODULE RewardRefresh_proofs --------------------------
(***************************************************************************)
(* The theorems of RewardRefresh, for every finite set of markets, every   *)
(* way they are spread over pages and events, and all caps.                *)
(*                                                                         *)
(* NoFalseRemoval follows the reading: of the pages already read, a market *)
(* is in what was got or was without rewards since the refresh began.  The *)
(* last page makes that true of all markets, and neither the second        *)
(* reading nor the application changes what the first one got.             *)
(*                                                                         *)
(* EntriesFit is an induction over the candidates that the loop has gone   *)
(* through.  It needs that Before is a strict total order, so that there   *)
(* is a last one of them, and that what was entered before that one are    *)
(* just the entries before it.                                             *)
(***************************************************************************)
EXTENDS RewardRefresh, FiniteSetTheorems, WellFoundedInduction, TLAPS

-------------------------------------------------------------------------------
(* Induction over the numbers.  tlapm cannot instantiate the predicate of the
   library's theorem; with a set in its place the statement is first order. *)

\* Every set of numbers that is not empty has a least one.
LEMMA Least ==
  ASSUME NEW T \in SUBSET Nat, T # {}
  PROVE  \E n \in T : \A m \in T : n <= m
<1>1. PICK n \in T : \A m \in T : ~(<<m, n>> \in OpToRel(<, Nat))
  BY NatLessThanWellFounded, WFMin
<1>2. \A m \in T : ~(m < n)
  BY <1>1 DEF OpToRel
<1> QED  BY <1>2

\* A set that holds 0, and with a number its successor, holds them all.
LEMMA Induction ==
  ASSUME NEW T, 0 \in T, \A n \in Nat : n \in T => n + 1 \in T
  PROVE  Nat \subseteq T
<1> SUFFICES ASSUME Nat \ T # {} PROVE FALSE
  OBVIOUS
<1>1. PICK n \in Nat \ T : \A m \in Nat \ T : n <= m
  BY Least
<1>2. n - 1 \in Nat /\ n - 1 \in T
  BY <1>1
<1> QED  BY <1>1, <1>2

-------------------------------------------------------------------------------
(* The order of the candidates *)

\* Products keep their order when both sides are multiplied.
LEMMA Scaled ==
  ASSUME NEW x \in Nat, NEW y \in Nat, NEW k \in Nat \ {0}
  PROVE  /\ x * k > y * k <=> x > y
         /\ x * k = y * k <=> x = y
  OBVIOUS

\* What Before compares of three candidates: a / A, b / B and c / C.
LEMMA RatioOrder ==
  ASSUME NEW a \in Nat, NEW b \in Nat, NEW c \in Nat,
         NEW A \in Nat \ {0}, NEW B \in Nat \ {0}, NEW C \in Nat \ {0},
         a * B >= b * A, b * C >= c * B
  PROVE  /\ a * C >= c * A
         /\ a * C = c * A => a * B = b * A /\ b * C = c * B
<1>1. /\ a * B \in Nat /\ b * A \in Nat /\ b * C \in Nat /\ c * B \in Nat
      /\ a * C \in Nat /\ c * A \in Nat
  OBVIOUS
<1>2. (a * B) * C >= (b * A) * C /\ ((a * B) * C = (b * A) * C <=> a * B = b * A)
  BY <1>1, Scaled
<1>3. (b * C) * A >= (c * B) * A /\ ((b * C) * A = (c * B) * A <=> b * C = c * B)
  BY <1>1, Scaled
<1>4. (a * B) * C = (a * C) * B /\ (b * A) * C = (b * C) * A /\ (c * B) * A = (c * A) * B
  OBVIOUS
<1>5. /\ (a * C) * B > (c * A) * B <=> a * C > c * A
      /\ (a * C) * B = (c * A) * B <=> a * C = c * A
  BY <1>1, Scaled
<1> QED  BY <1>1, <1>2, <1>3, <1>4, <1>5

LEMMA RewardTypes ==
  /\ Conditions \subseteq Nat /\ IsFiniteSet(Conditions)
  /\ Rates \subseteq Nat /\ 0 \in Rates /\ MaxTotal \in Nat
  /\ Required \in [Conditions -> Nat]
  BY RewardAssumption

\* A strict total order: of two candidates one comes before the other.
LEMMA StrictOrder ==
  ASSUME NEW rates \in [Conditions -> Rates]
  PROVE  /\ \A c, d \in Candidates(rates) : Before(rates, c, d) => ~Before(rates, d, c)
         /\ \A c, d \in Candidates(rates) : c # d => Before(rates, c, d) \/ Before(rates, d, c)
         /\ \A c, d, e \in Candidates(rates) :
              Before(rates, c, d) /\ Before(rates, d, e) => Before(rates, c, e)
<1> DEFINE K == Candidates(rates)
<1>1. \A c \in K : c \in Nat /\ rates[c] \in Nat \ {0} /\ Required[c] \in Nat \ {0}
  <2> SUFFICES ASSUME NEW c \in K PROVE c \in Nat /\ rates[c] \in Nat \ {0} /\ Required[c] \in Nat \ {0}
    OBVIOUS
  <2>1. c \in Conditions /\ rates[c] > 0 /\ 0 < Required[c]
    BY DEF Candidates
  <2>2. rates[c] \in Nat /\ Required[c] \in Nat /\ c \in Nat
    BY <2>1, RewardTypes
  <2> QED  BY <2>1, <2>2
<1>2. \A c, d \in K : rates[c] * Required[d] \in Nat
  BY <1>1
<1> HIDE DEF K
<1>3. \A c, d \in K : Before(rates, c, d) => ~Before(rates, d, c)
  BY <1>1, <1>2 DEF Before
<1>4. \A c, d \in K : c # d => Before(rates, c, d) \/ Before(rates, d, c)
  BY <1>1, <1>2 DEF Before
<1>5. ASSUME NEW c \in K, NEW d \in K, NEW e \in K, Before(rates, c, d), Before(rates, d, e)
      PROVE  Before(rates, c, e)
  <2>1. /\ rates[c] * Required[d] >= rates[d] * Required[c]
        /\ rates[d] * Required[e] >= rates[e] * Required[d]
    BY <1>1, <1>2, <1>5 DEF Before
  <2>2. /\ rates[c] * Required[e] >= rates[e] * Required[c]
        /\ rates[c] * Required[e] = rates[e] * Required[c] =>
             /\ rates[c] * Required[d] = rates[d] * Required[c]
             /\ rates[d] * Required[e] = rates[e] * Required[d]
    <3> DEFINE r == rates[c]  R == Required[c]  s == rates[d]  S == Required[d]
               t == rates[e]  U == Required[e]
    <3>1. /\ r \in Nat /\ s \in Nat /\ t \in Nat
          /\ R \in Nat \ {0} /\ S \in Nat \ {0} /\ U \in Nat \ {0}
      BY <1>1
    <3>2. r * S >= s * R /\ s * U >= t * S
      BY <2>1
    <3> HIDE DEF r, R, s, S, t, U
    <3>3. /\ r * U >= t * R
          /\ r * U = t * R => r * S = s * R /\ s * U = t * S
      BY <3>1, <3>2, RatioOrder
    <3> QED  BY <3>3 DEF r, R, s, S, t, U
  <2>3. CASE rates[c] * Required[e] > rates[e] * Required[c]
    BY <2>3 DEF Before
  <2>4. CASE rates[c] * Required[e] = rates[e] * Required[c]
    <3>1. /\ rates[c] > rates[d] \/ (rates[c] = rates[d] /\ c < d)
          /\ rates[d] > rates[e] \/ (rates[d] = rates[e] /\ d < e)
      BY <1>1, <1>2, <1>5, <2>2, <2>4 DEF Before
    <3>2. rates[c] > rates[e] \/ (rates[c] = rates[e] /\ c < e)
      BY <1>1, <3>1
    <3> QED  BY <2>4, <3>2 DEF Before
  <2> QED  BY <1>1, <1>2, <2>2, <2>3, <2>4
<1> QED  BY <1>3, <1>4, <1>5 DEF K

\* Of the candidates that are left, one is the last.
LEMMA LastExists ==
  ASSUME NEW rates \in [Conditions -> Rates]
  PROVE  \A those \in SUBSET Candidates(rates) : those # {} =>
           /\ LastOf(rates, those) \in those
           /\ \A d \in those \ {LastOf(rates, those)} : Before(rates, d, LastOf(rates, those))
<1> DEFINE K == Candidates(rates)
           HasLast(those) == \E c \in those : \A d \in those \ {c} : Before(rates, d, c)
           T == {n \in Nat : \A those \in SUBSET K :
                   IsFiniteSet(those) /\ Cardinality(those) = n + 1 => HasLast(those)}
<1>1. 0 \in T
  <2> SUFFICES ASSUME NEW those \in SUBSET K, IsFiniteSet(those), Cardinality(those) = 1
               PROVE  HasLast(those)
    OBVIOUS
  <2>1. PICK c : those = {c}
    BY FS_Singleton
  <2> QED  BY <2>1
<1>2. ASSUME NEW n \in Nat, n \in T PROVE n + 1 \in T
  <2> SUFFICES ASSUME NEW those \in SUBSET K, IsFiniteSet(those),
                      Cardinality(those) = n + 2
               PROVE  HasLast(those)
    OBVIOUS
  <2>1. PICK c : c \in those
    BY FS_EmptySet
  <2> DEFINE rest == those \ {c}
  <2>2. rest \in SUBSET K /\ IsFiniteSet(rest) /\ Cardinality(rest) = n + 1
    BY <2>1, FS_RemoveElement
  <2>3. HasLast(rest)
    BY <1>2, <2>2
  <2>4. PICK d \in rest : \A x \in rest \ {d} : Before(rates, x, d)
    BY <2>3
  <2>5. CASE Before(rates, c, d)
    <3>1. \A x \in those \ {d} : Before(rates, x, d)
      BY <2>4, <2>5
    <3> QED  BY <2>4, <3>1
  <2>6. CASE Before(rates, d, c)
    <3>1. c \in K /\ d \in K /\ rest \subseteq K
      BY <2>1, <2>4
    <3>2. \A x \in rest \ {d} : Before(rates, x, c)
      BY <2>4, <2>6, <3>1, StrictOrder
    <3>3. \A x \in those \ {c} : Before(rates, x, c)
      BY <2>6, <3>2
    <3> QED  BY <2>1, <3>3
  <2> QED  BY <2>1, <2>4, <2>5, <2>6, StrictOrder
<1> HIDE DEF T
<1>3. Nat \subseteq T
  BY <1>1, <1>2, Induction
<1> SUFFICES ASSUME NEW those \in SUBSET K, those # {}
             PROVE  HasLast(those)
  BY Zenon DEF LastOf
<1>4. IsFiniteSet(those)
  BY RewardTypes, FS_Subset DEF Candidates
<1>5. Cardinality(those) \in Nat \ {0}
  BY <1>4, FS_CardinalityType, FS_EmptySet
<1>6. Cardinality(those) - 1 \in T
  BY <1>3, <1>5
<1> QED  BY <1>4, <1>5, <1>6 DEF T

-------------------------------------------------------------------------------
(* What the loop has entered, for every set of candidates it may have gone through *)

\* The function that RewardEntryMarkets defines, for a family of sets.
Loop(rates, family, entered) ==
  entered = [those \in family |->
    IF those = {} THEN {}
    ELSE IF FitsCaps(entered[those \ {LastOf(rates, those)}], LastOf(rates, those))
         THEN entered[those \ {LastOf(rates, those)}] \union {LastOf(rates, those)}
         ELSE entered[those \ {LastOf(rates, those)}]]

Small(rates, n) == {those \in SUBSET Candidates(rates) : Cardinality(those) <= n}

LEMMA LoopExists ==
  ASSUME NEW rates \in [Conditions -> Rates]
  PROVE  \E entered : Loop(rates, SUBSET Candidates(rates), entered)
<1> DEFINE K == Candidates(rates)
           T == {n \in Nat : \E entered : Loop(rates, Small(rates, n), entered)}
<1>1. \A those \in SUBSET K : IsFiniteSet(those) /\ Cardinality(those) \in Nat
  BY RewardTypes, FS_Subset, FS_CardinalityType DEF Candidates
<1>2. \A those \in SUBSET K : those # {} =>
        /\ LastOf(rates, those) \in those
        /\ Cardinality(those \ {LastOf(rates, those)}) = Cardinality(those) - 1
  BY <1>1, LastExists, FS_RemoveElement
<1> HIDE DEF K
<1>3. 0 \in T
  <2> DEFINE e == [those \in Small(rates, 0) |-> {}]
  <2>1. \A those \in Small(rates, 0) : those = {}
    BY <1>1, FS_EmptySet DEF Small, K
  <2>2. Loop(rates, Small(rates, 0), e)
    BY <2>1 DEF Loop
  <2> QED  BY <2>2
<1>4. ASSUME NEW n \in Nat, n \in T PROVE n + 1 \in T
  <2>1. PICK e : Loop(rates, Small(rates, n), e)
    BY <1>4
  <2> DEFINE c(those) == LastOf(rates, those)
             f == [those \in Small(rates, n + 1) |->
                     IF those = {} THEN {}
                     ELSE IF FitsCaps(e[those \ {c(those)}], c(those))
                          THEN e[those \ {c(those)}] \union {c(those)}
                          ELSE e[those \ {c(those)}]]
  <2>2. \A those \in Small(rates, n) : those \in Small(rates, n + 1) /\ f[those] = e[those]
    <3> SUFFICES ASSUME NEW those \in Small(rates, n)
                 PROVE  those \in Small(rates, n + 1) /\ f[those] = e[those]
      OBVIOUS
    <3>1. those \in Small(rates, n + 1)
      BY <1>1 DEF Small, K
    <3>2. e[those] = (IF those = {} THEN {}
                      ELSE IF FitsCaps(e[those \ {c(those)}], c(those))
                           THEN e[those \ {c(those)}] \union {c(those)}
                           ELSE e[those \ {c(those)}])
      BY <2>1 DEF Loop
    <3> QED  BY <3>1, <3>2
  <2>3. \A those \in Small(rates, n + 1) : those # {} => those \ {c(those)} \in Small(rates, n)
    BY <1>1, <1>2 DEF Small, K
  <2>4. \A those \in Small(rates, n + 1) : those # {} =>
          f[those \ {c(those)}] = e[those \ {c(those)}]
    BY <2>2, <2>3
  <2>5. Loop(rates, Small(rates, n + 1), f)
    BY <2>4 DEF Loop
  <2> QED  BY <2>5
<1> HIDE DEF T
<1>5. Cardinality(K) \in T
  BY <1>1, <1>3, <1>4, Induction
<1>6. Small(rates, Cardinality(K)) = SUBSET K
  BY <1>1, FS_Subset DEF Small, K
<1> QED  BY <1>5, <1>6 DEF T, K

\* The caps, the candidates, and the choice among them.
Fitting(rates, those, chosen) ==
  /\ chosen \subseteq those
  /\ Reserved(chosen) <= MaxTotal
  /\ \A c \in chosen : EventOf[c] # NoEvent => Reserved(OfEvent(chosen, c)) <= MaxEvent
  /\ \A c \in those \ chosen : ~FitsCaps({d \in chosen : Before(rates, d, c)}, c)

\* One more candidate.
LEMMA OneMoreFits ==
  ASSUME NEW rates \in [Conditions -> Rates], NEW those \in SUBSET Candidates(rates),
         NEW c \in those, \A d \in those \ {c} : Before(rates, d, c),
         NEW chosen, Fitting(rates, those \ {c}, chosen)
  PROVE  Fitting(rates, those, IF FitsCaps(chosen, c) THEN chosen \union {c} ELSE chosen)
<1>1. chosen \subseteq those \ {c} /\ {d \in chosen : Before(rates, d, c)} = chosen
  BY DEF Fitting
<1>2. CASE ~FitsCaps(chosen, c)
  BY <1>1, <1>2 DEF Fitting
<1>3. CASE FitsCaps(chosen, c)
  <2> DEFINE next == chosen \union {c}
  <2>1. next \subseteq those /\ Reserved(next) <= MaxTotal
    BY <1>1, <1>3 DEF FitsCaps
  <2>2. ASSUME NEW d \in next, EventOf[d] # NoEvent PROVE Reserved(OfEvent(next, d)) <= MaxEvent
    <3>1. CASE EventOf[d] = EventOf[c]
      <4>1. OfEvent(next, d) = OfEvent(chosen, c) \union {c}
        BY <3>1 DEF OfEvent
      <4> QED  BY <1>3, <2>2, <3>1, <4>1 DEF FitsCaps
    <3>2. CASE EventOf[d] # EventOf[c]
      <4>1. OfEvent(next, d) = OfEvent(chosen, d) /\ d \in chosen
        BY <3>2 DEF OfEvent
      <4> QED  BY <2>2, <4>1 DEF Fitting
    <3> QED  BY <3>1, <3>2
  <2>3. ASSUME NEW x \in those \ next PROVE ~FitsCaps({d \in next : Before(rates, d, x)}, x)
    <3>1. Before(rates, x, c)
      OBVIOUS
    <3>2. ~Before(rates, c, x)
      BY <3>1, StrictOrder
    <3>3. {d \in next : Before(rates, d, x)} = {d \in chosen : Before(rates, d, x)}
      BY <3>2
    <3>4. x \in (those \ {c}) \ chosen
      OBVIOUS
    <3> QED  BY <3>3, <3>4 DEF Fitting
  <2> QED  BY <1>3, <2>1, <2>2, <2>3 DEF Fitting
<1> QED  BY <1>2, <1>3

LEMMA ReservedNothing == Reserved({}) = 0
  BY Zenon DEF Reserved, SumFunctionOnSet, FoldFunctionOnSet, MapThenFoldSet

\* The markets entered fit the caps together, and whoever is left out would not have
\* fitted beside those before it.
LEMMA EnteredFits ==
  ASSUME NEW rates \in [Conditions -> Rates]
  PROVE  Fitting(rates, Candidates(rates), RewardEntryMarkets(rates))
<1> DEFINE K == Candidates(rates)
           e == CHOOSE e : Loop(rates, SUBSET K, e)
<1>1. RewardEntryMarkets(rates) = e[K]
  BY Zenon DEF RewardEntryMarkets, Loop
<1>2. Loop(rates, SUBSET K, e)
  BY LoopExists
<1>3. \A those \in SUBSET K : IsFiniteSet(those) /\ Cardinality(those) \in Nat
  BY RewardTypes, FS_Subset, FS_CardinalityType DEF Candidates
<1> HIDE DEF e
<1> DEFINE T == {n \in Nat : \A those \in SUBSET K :
                   Cardinality(those) = n => Fitting(rates, those, e[those])}
<1>4. 0 \in T
  <2>1. \A those \in SUBSET K : Cardinality(those) = 0 => those = {}
    BY <1>3, FS_EmptySet
  <2>2. e[{}] = {}
    BY <1>2 DEF Loop
  <2>3. Fitting(rates, {}, {})
    BY ReservedNothing, RewardTypes DEF Fitting
  <2> QED  BY <2>1, <2>2, <2>3
<1>5. ASSUME NEW n \in Nat, n \in T PROVE n + 1 \in T
  <2> SUFFICES ASSUME NEW those \in SUBSET K, Cardinality(those) = n + 1
               PROVE  Fitting(rates, those, e[those])
    OBVIOUS
  <2> DEFINE c == LastOf(rates, those)
  <2>1. those # {}
    BY FS_EmptySet
  <2>2. c \in those /\ \A d \in those \ {c} : Before(rates, d, c)
    BY <2>1, LastExists
  <2>3. those \ {c} \in SUBSET K /\ Cardinality(those \ {c}) = n
    BY <1>3, <2>2, FS_RemoveElement
  <2>4. Fitting(rates, those \ {c}, e[those \ {c}])
    BY <1>5, <2>3
  <2>5. e[those] = IF FitsCaps(e[those \ {c}], c) THEN e[those \ {c}] \union {c} ELSE e[those \ {c}]
    BY <1>2, <2>1 DEF Loop
  <2> HIDE DEF c
  <2> QED  BY <2>2, <2>4, <2>5, OneMoreFits
<1> HIDE DEF T
<1>6. Cardinality(K) \in T
  BY <1>3, <1>4, <1>5, Induction
<1> QED  BY <1>1, <1>3, <1>6 DEF T

-------------------------------------------------------------------------------
(* NoFalseRemoval: what a reading accounts for *)

\* r has the fields of a reader, and its page exists.
IsReader(r) ==
  /\ DOMAIN r = {"pc", "raws", "page", "tries", "got", "active", "todo"}
  /\ r.page \in 1 .. Pages

Typed ==
  /\ listed \in [Conditions -> Rates] /\ rate \in [Conditions -> Rates]
  /\ IsReader(reader)

\* The history misses no market that is without rewards now.
Noted ==
  reader.pc # "idle" => \A c \in Conditions : listed[c] = 0 => c \in unlisted

\* A map of rewarded markets that accounts for each of a set of markets.
Accounts(map, those) ==
  /\ \A c \in DOMAIN map : map[c] \in Rates /\ map[c] > 0
  /\ \A c \in those : c \in DOMAIN map \/ c \in unlisted

OfPages(below) == {c \in Conditions : PageOf[c] < below}

\* What reader r holds accounts for what it has read.
Covers(r) ==
  /\ r.pc = "gamma" => r.page = 1 /\ r.got = NoMap
  /\ r.pc = "active" => Accounts(r.got, OfPages(r.page))
  /\ r.pc = "competition" => Accounts(r.active, Conditions)
  /\ r.pc = "apply" => Accounts(r.got, Conditions)

NInv == Typed /\ Noted /\ Covers(reader)

-------------------------------------------------------------------------------
(* The readers that the reading leaves behind *)

LEMMA ConstantTypes ==
  /\ Rates \subseteq Nat /\ 0 \in Rates
  /\ Pages \in Nat /\ Pages >= 1
  /\ PageOf \in [Conditions -> 1 .. Pages]
  BY RewardAssumption

\* Without a snapshot nothing is claimed.
LEMMA NoSnapshotCovers ==
  ASSUME Typed
  PROVE  IsReader(NoSnapshot) /\ Covers(NoSnapshot) /\ NoSnapshot.pc # "idle"
  BY DEF Typed, IsReader, NoSnapshot, Covers

\* A snapshot is as good as the map it is made of.
LEMMA CompleteCovers ==
  ASSUME Typed, NEW got, Accounts(got, Conditions)
  PROVE  IsReader(Complete(got)) /\ Covers(Complete(got)) /\ Complete(got).pc # "idle"
  BY DEF Typed, IsReader, Complete, Covers

\* So is what follows the last page, of the first reading as of the second.
LEMMA AllReadCovers ==
  ASSUME Typed, NEW got,
         \/ reader.pc = "active" /\ Accounts(got, Conditions)
         \/ reader.pc = "competition" /\ Accounts(reader.active, Conditions)
  PROVE  IsReader(AllRead(got)) /\ Covers(AllRead(got)) /\ AllRead(got).pc # "idle"
<1>1. CASE reader.pc = "active" /\ got = NoMap
  BY <1>1, CompleteCovers DEF AllRead
<1>2. CASE reader.pc = "active" /\ got # NoMap
  <2> DEFINE second == [reader EXCEPT !.pc = "competition", !.active = got, !.got = NoMap,
                                      !.page = 1, !.tries = 0]
  <2>1. AllRead(got) = second
    BY <1>2 DEF AllRead
  <2>2. IsReader(second) /\ second.pc = "competition" /\ second.active = got
    BY ConstantTypes DEF Typed, IsReader
  <2> QED  BY <1>2, <2>1, <2>2 DEF Covers
<1>3. CASE reader.pc = "competition" /\ DOMAIN got = Wanted
  BY <1>3, CompleteCovers DEF AllRead
<1>4. CASE reader.pc = "competition" /\ DOMAIN got # Wanted
  BY <1>4, NoSnapshotCovers DEF AllRead
<1> QED  BY <1>1, <1>2, <1>3, <1>4

-------------------------------------------------------------------------------
(* The steps of a refresh *)

\* One more page of the first reading: what is got then accounts for that page too.
LEMMA PageAccounts ==
  ASSUME NInv, reader.pc = "active",
         NEW again \in SUBSET {c \in DOMAIN reader.got : listed[c] > 0}, NEW got,
         got = [c \in DOMAIN reader.got \union (PageRows \union again) |->
                  IF c \in DOMAIN reader.got THEN reader.got[c] ELSE listed[c]]
  PROVE  Accounts(got, OfPages(reader.page + 1))
<1>1. DOMAIN got = DOMAIN reader.got \union PageRows \union again
  OBVIOUS
<1>2. \A c \in DOMAIN reader.got : reader.got[c] \in Rates /\ reader.got[c] > 0
  BY DEF NInv, Covers, Accounts
<1>3. \A c \in PageRows : listed[c] \in Rates /\ listed[c] > 0
  BY DEF PageRows, Wanted, NInv, Typed
<1>4. \A c \in DOMAIN got : got[c] \in Rates /\ got[c] > 0
  BY <1>1, <1>2, <1>3
<1>5. ASSUME NEW c \in OfPages(reader.page + 1)
      PROVE  c \in DOMAIN got \/ c \in unlisted
  <2>1. c \in Conditions /\ PageOf[c] \in Nat /\ reader.page \in Nat
    BY ConstantTypes DEF OfPages, NInv, Typed, IsReader
  <2>2. listed[c] \in Nat
    BY <2>1, ConstantTypes DEF NInv, Typed
  <2>3. CASE PageOf[c] < reader.page
    BY <1>1, <2>1, <2>3 DEF NInv, Covers, Accounts, OfPages
  <2>4. CASE PageOf[c] = reader.page /\ listed[c] > 0
    BY <1>1, <2>1, <2>4 DEF PageRows, Wanted
  <2>5. CASE PageOf[c] = reader.page /\ listed[c] = 0
    BY <2>1, <2>5 DEF NInv, Noted
  <2> QED  BY <2>1, <2>2, <2>3, <2>4, <2>5 DEF OfPages
<1> QED  BY <1>4, <1>5 DEF Accounts

\* The pages there are hold all markets.
LEMMA LastPage == OfPages(Pages + 1) = Conditions
  BY ConstantTypes DEF OfPages

LEMMA ReadPageKeeps ==
  ASSUME NInv, ReadPage
  PROVE  IsReader(reader') /\ Covers(reader') /\ reader'.pc # "idle"
<1> DEFINE known == DOMAIN reader.got
<1>1. PICK again \in SUBSET {c \in DOMAIN reader.got : listed[c] > 0} :
        LET rows == PageRows \union again
            got == [c \in known \union rows |-> IF c \in known THEN reader.got[c] ELSE listed[c]]
            conflict == reader.pc = "active" /\ \E c \in known \intersect rows : got[c] # listed[c]
        IN  reader' =
              IF conflict THEN NoSnapshot
              ELSE IF DOMAIN got = Wanted \/ reader.page = Pages THEN AllRead(got)
              ELSE IF reader.page = MaxPages THEN NoSnapshot
              ELSE [reader EXCEPT !.got = got, !.page = @ + 1, !.tries = 0]
  BY DEF ReadPage
<1> DEFINE got == [c \in DOMAIN reader.got \union (PageRows \union again) |->
                     IF c \in DOMAIN reader.got THEN reader.got[c] ELSE listed[c]]
           next == [reader EXCEPT !.got = got, !.page = @ + 1, !.tries = 0]
<1>2. Typed /\ reader.pc \in {"active", "competition"}
  BY DEF NInv, ReadPage
<1>3. \/ reader' = NoSnapshot
      \/ reader' = AllRead(got) /\ (DOMAIN got = Wanted \/ reader.page = Pages)
      \/ reader' = next /\ reader.page # Pages
  BY <1>1
<1> HIDE DEF got, next
<1>4. reader.pc = "active" => Accounts(got, OfPages(reader.page + 1))
  BY PageAccounts DEF got
<1>5. reader.pc = "competition" => Accounts(reader.active, Conditions)
  BY DEF NInv, Covers
<1>6. CASE reader' = NoSnapshot
  BY <1>2, <1>6, NoSnapshotCovers
<1>7. CASE reader' = AllRead(got) /\ (DOMAIN got = Wanted \/ reader.page = Pages)
  <2>1. ASSUME reader.pc = "active"
        PROVE  Accounts(got, Conditions)
    <3>1. CASE reader.page = Pages
      BY <1>4, <2>1, <3>1, LastPage
    <3>2. CASE DOMAIN got = Wanted
      BY <1>4, <2>1, <3>2 DEF Accounts, Wanted
    <3> QED  BY <1>7, <3>1, <3>2
  <2> QED  BY <1>2, <1>5, <1>7, <2>1, AllReadCovers
<1>8. CASE reader' = next /\ reader.page # Pages
  <2>1. /\ IsReader(next) /\ next.pc = reader.pc /\ next.got = got
        /\ next.page = reader.page + 1 /\ next.active = reader.active
    BY <1>2, <1>8, ConstantTypes DEF next, Typed, IsReader
  <2> QED  BY <1>2, <1>4, <1>5, <1>8, <2>1 DEF Covers
<1> QED  BY <1>3, <1>6, <1>7, <1>8

\* A market that was without rewards stays in the history while it is read, so that
\* what accounted for the markets goes on doing so.
LEMMA CoversMonotone ==
  ASSUME Covers(reader), reader' = reader, unlisted \subseteq unlisted'
  PROVE  Covers(reader)'
  BY DEF Covers, Accounts, OfPages

LEMMA RewardChangesKeeps ==
  ASSUME NInv, RewardChanges
  PROVE  NInv'
<1>1. /\ reader' = reader /\ rate' = rate /\ unlisted \subseteq unlisted'
  BY DEF RewardChanges
<1>2. listed' \in [Conditions -> Rates]
  BY DEF RewardChanges, NInv, Typed
<1>3. Noted'
  <2> SUFFICES ASSUME reader.pc # "idle", NEW c \in Conditions, listed'[c] = 0
               PROVE  c \in unlisted'
    BY <1>1 DEF Noted
  <2>1. CASE listed[c] = 0
    BY <1>1, <2>1 DEF NInv, Noted
  <2>2. CASE listed[c] # 0
    BY <2>2 DEF RewardChanges, NInv, Typed
  <2> QED  BY <2>1, <2>2
<1> QED  BY <1>1, <1>2, <1>3, CoversMonotone DEF NInv, Typed, IsReader

\* What the application of a refresh leaves alone.
LEMMA ApplyMarketKeeps ==
  ASSUME NInv, NEW c \in Conditions, ApplyMarket(c)
  PROVE  NInv'
<1>1. /\ IsReader(reader') /\ reader'.pc = reader.pc /\ reader'.got = reader.got
      /\ reader.pc \in {"apply", "keep"}
      /\ listed' = listed /\ unlisted' = unlisted
  BY DEF ApplyMarket, Applying, NInv, Typed, IsReader
<1>2. RateAfter(c) \in Rates
  <2>1. reader.pc = "apply" /\ c \in DOMAIN reader.got => reader.got[c] \in Rates
    BY DEF NInv, Covers, Accounts
  <2> QED  BY <1>1, <2>1, ConstantTypes DEF RateAfter, NInv, Typed
<1> QED  BY <1>1, <1>2 DEF ApplyMarket, NInv, Typed, Noted, Covers, Accounts, IsReader

\* The invariant holds at first and is kept by every step.
THEOREM RefreshInductive ==
  /\ RewardInit => NInv
  /\ NInv /\ [RewardNext]_rewardVars => NInv'
<1>1. RewardInit => NInv
  BY ConstantTypes DEF RewardInit, NInv, Typed, Noted, Covers, IsReader, ReaderIdle
<1>2. ASSUME NInv, [RewardNext]_rewardVars
      PROVE  NInv'
  <2>1. CASE RefreshBegins
    <3>1. IsReader(reader') /\ reader'.pc = "gamma" /\ reader'.page = 1 /\ reader'.got = NoMap
      BY <2>1, ConstantTypes DEF RefreshBegins, ReaderIdle, IsReader
    <3> QED  BY <1>2, <2>1, <3>1 DEF RefreshBegins, NInv, Typed, Noted, Covers, IsReader
  <2>2. CASE ReadGamma
    <3>1. /\ IsReader(reader') /\ reader'.pc = "active"
          /\ reader'.page = 1 /\ reader'.got = NoMap /\ reader.pc = "gamma"
      BY <1>2, <2>2 DEF ReadGamma, NInv, Typed, Covers, IsReader
    <3>2. OfPages(1) = {} /\ DOMAIN NoMap = {}
      BY ConstantTypes DEF OfPages, NoMap
    <3> QED  BY <1>2, <2>2, <3>1, <3>2
             DEF ReadGamma, NInv, Typed, Noted, Covers, Accounts, OfPages, IsReader
  <2>3. CASE ReadPage
    <3>1. IsReader(reader') /\ Covers(reader') /\ reader'.pc # "idle" /\ reader.pc # "idle"
      BY <1>2, <2>3, ReadPageKeeps DEF ReadPage
    <3> QED  BY <1>2, <2>3, <3>1
             DEF ReadPage, NInv, Typed, Noted, Covers, Accounts, OfPages, IsReader
  <2>4. CASE PageFails
    <3> DEFINE retried == [reader EXCEPT !.tries = @ + 1]
    <3>1. reader' \in {NoSnapshot, retried} /\ reader.pc # "idle"
      BY <2>4 DEF PageFails
    <3>2. /\ IsReader(retried) /\ retried.pc = reader.pc /\ retried.page = reader.page
          /\ retried.got = reader.got /\ retried.active = reader.active
      BY <1>2 DEF NInv, Typed, IsReader
    <3>3. IsReader(reader') /\ Covers(reader') /\ reader'.pc # "idle"
      <4> HIDE DEF retried
      <4> QED  BY <1>2, <3>1, <3>2, NoSnapshotCovers DEF NInv, Covers
    <3> QED  BY <1>2, <2>4, <3>1, <3>3
             DEF PageFails, NInv, Typed, Noted, Covers, Accounts, OfPages, IsReader
  <2>5. CASE Allocate
    <3>1. IsReader(reader') /\ reader'.pc = "idle"
      BY <2>5, ConstantTypes DEF Allocate, ReaderIdle, IsReader
    <3> QED  BY <1>2, <2>5, <3>1 DEF Allocate, NInv, Typed, Noted, Covers, IsReader
  <2>6. CASE RewardChanges
    BY <1>2, <2>6, RewardChangesKeeps
  <2>7. CASE \E c \in Conditions : ApplyMarket(c)
    BY <1>2, <2>7, ApplyMarketKeeps
  <2>8. CASE UNCHANGED rewardVars
    BY <1>2, <2>8 DEF rewardVars, NInv, Typed, Noted, Covers, Accounts, OfPages, IsReader
  <2> QED  BY <1>2, <2>1, <2>2, <2>3, <2>4, <2>5, <2>6, <2>7, <2>8 DEF RewardNext
<1> QED  BY <1>1, <1>2

\* "a partial catalog would make missing markets look like reward removals": with any
\* markets on any pages, rewards are only taken for removed if they had been.
THEOREM RemovalsAreReal == RewardSpec => NoFalseRemoval
<1>1. RewardInit => NInv
  BY RefreshInductive
<1>2. NInv /\ [RewardNext]_rewardVars => NInv'
  BY RefreshInductive
<1>3. NInv /\ [RewardNext]_rewardVars =>
        [\A c \in Conditions : rate[c] > 0 /\ rate'[c] = 0 => c \in unlisted]_rewardVars
  <2> SUFFICES ASSUME NInv, RewardNext, NEW c \in Conditions, rate[c] > 0, rate'[c] = 0
               PROVE  c \in unlisted
    OBVIOUS
  <2>1. CASE \E d \in Conditions : ApplyMarket(d)
    <3>1. PICK d \in Conditions : ApplyMarket(d)
      BY <2>1
    <3>2. d = c /\ RateAfter(c) = 0
      BY <3>1 DEF ApplyMarket, NInv, Typed
    <3>3. reader.pc = "apply" /\ (c \in DOMAIN reader.got => reader.got[c] = 0)
      BY <3>1, <3>2 DEF RateAfter, ApplyMarket, Applying
    <3> QED  BY <3>3 DEF NInv, Covers, Accounts
  <2>2. CASE rate' = rate
    BY <2>2
  <2> QED  BY <2>1, <2>2 DEF RewardNext, RefreshBegins, ReadGamma, ReadPage, PageFails,
                             Allocate, RewardChanges
<1> QED  BY <1>1, <1>2, <1>3, PTL DEF RewardSpec, NoFalseRemoval

-------------------------------------------------------------------------------
(* The types *)

ReaderTyped(r) ==
  /\ IsReader(r) /\ r.tries \in 0 .. MaxRetries
  /\ r.pc \in {"idle", "gamma", "active", "competition", "apply", "keep"}
  /\ DOMAIN r.got \subseteq Conditions /\ DOMAIN r.active \subseteq Conditions
  /\ r.todo \subseteq Conditions /\ (r.todo # {} => r.pc \in {"apply", "keep"})
  /\ r.pc = "keep" => r.got = NoMap

MapsTyped ==
  /\ listed \in [Conditions -> Rates] /\ rate \in [Conditions -> Rates]
  /\ closed \subseteq Conditions /\ halted \subseteq Conditions
  /\ entries \subseteq Conditions /\ unlisted \subseteq Conditions

AllTyped == MapsTyped /\ ReaderTyped(reader)

LEMMA BoundTypes ==
  MaxRetries \in Nat /\ 0 \in 0 .. MaxRetries /\ DOMAIN NoMap = {} /\ NoMap = NoMap
  BY RewardAssumption DEF NoMap

LEMMA IdleTyped == ReaderTyped(ReaderIdle)
  BY BoundTypes, ConstantTypes DEF ReaderTyped, ReaderIdle, IsReader

LEMMA NoSnapshotTyped ==
  ASSUME ReaderTyped(reader)
  PROVE  ReaderTyped(NoSnapshot)
  BY BoundTypes DEF ReaderTyped, NoSnapshot, IsReader

LEMMA CompleteTyped ==
  ASSUME ReaderTyped(reader), NEW got, DOMAIN got \subseteq Conditions
  PROVE  ReaderTyped(Complete(got))
  BY BoundTypes DEF ReaderTyped, Complete, IsReader

LEMMA AllReadTyped ==
  ASSUME ReaderTyped(reader), reader.pc \in {"active", "competition"},
         NEW got, DOMAIN got \subseteq Conditions
  PROVE  ReaderTyped(AllRead(got))
<1>1. DOMAIN NoMap \subseteq Conditions /\ DOMAIN reader.active \subseteq Conditions
  BY BoundTypes DEF ReaderTyped
<1>2. ReaderTyped(Complete(NoMap)) /\ ReaderTyped(Complete(reader.active))
  BY <1>1, CompleteTyped
<1>3. ReaderTyped([reader EXCEPT !.pc = "competition", !.active = got, !.got = NoMap,
                                 !.page = 1, !.tries = 0])
  BY <1>1, BoundTypes, ConstantTypes DEF ReaderTyped, IsReader
<1> QED  BY <1>2, <1>3, NoSnapshotTyped DEF AllRead

LEMMA ReadPageTyped ==
  ASSUME AllTyped, ReadPage
  PROVE  ReaderTyped(reader')
<1>1. PICK again \in SUBSET {c \in DOMAIN reader.got : listed[c] > 0} :
        LET rows == PageRows \union again
            known == DOMAIN reader.got
            got == [c \in known \union rows |-> IF c \in known THEN reader.got[c] ELSE listed[c]]
            conflict == reader.pc = "active" /\ \E c \in known \intersect rows : got[c] # listed[c]
        IN  reader' =
              IF conflict THEN NoSnapshot
              ELSE IF DOMAIN got = Wanted \/ reader.page = Pages THEN AllRead(got)
              ELSE IF reader.page = MaxPages THEN NoSnapshot
              ELSE [reader EXCEPT !.got = got, !.page = @ + 1, !.tries = 0]
  BY DEF ReadPage
<1> DEFINE got == [c \in DOMAIN reader.got \union (PageRows \union again) |->
                     IF c \in DOMAIN reader.got THEN reader.got[c] ELSE listed[c]]
           next == [reader EXCEPT !.got = got, !.page = @ + 1, !.tries = 0]
<1>2. ReaderTyped(reader) /\ reader.pc \in {"active", "competition"}
  BY DEF AllTyped, ReadPage
<1>3. \/ reader' = NoSnapshot
      \/ reader' = AllRead(got)
      \/ reader' = next /\ reader.page # Pages
  BY <1>1
<1>4. DOMAIN got \subseteq Conditions
  BY <1>2 DEF ReaderTyped, PageRows, Wanted
<1> HIDE DEF got
<1>5. reader.page # Pages => ReaderTyped(next)
  BY <1>2, <1>4, BoundTypes, ConstantTypes DEF ReaderTyped, IsReader
<1> HIDE DEF next
<1> QED  BY <1>2, <1>3, <1>4, <1>5, NoSnapshotTyped, AllReadTyped

LEMMA ChangesTyped ==
  ASSUME AllTyped, RewardChanges
  PROVE  MapsTyped'
<1>1. \/ /\ \E c \in Conditions, r \in Rates :
              /\ listed' = [listed EXCEPT ![c] = r]
              /\ unlisted' \in {unlisted, unlisted \union {c}}
         /\ closed' = closed
      \/ /\ \E c \in Conditions : closed' \in {closed \ {c}, closed \union {c}}
         /\ UNCHANGED <<listed, unlisted>>
  BY DEF RewardChanges
<1>2. UNCHANGED <<rate, halted, entries>>
  BY DEF RewardChanges
<1> QED  BY <1>1, <1>2 DEF AllTyped, MapsTyped

LEMMA ApplyMarketTyped ==
  ASSUME AllTyped, NInv, NEW c \in Conditions, ApplyMarket(c)
  PROVE  AllTyped'
<1>1. /\ rate' = [rate EXCEPT ![c] = RateAfter(c)]
      /\ halted' \in {halted, halted \ {c}, halted \union {c}}
      /\ reader' = [reader EXCEPT !.todo = @ \ {c}]
      /\ UNCHANGED <<listed, closed, entries, unlisted>>
  BY DEF ApplyMarket
<1>2. RateAfter(c) \in Rates
  <2>1. reader.pc \in {"apply", "keep"}
    BY DEF ApplyMarket, Applying
  <2>2. reader.pc = "apply" /\ c \in DOMAIN reader.got => reader.got[c] \in Rates
    BY DEF NInv, Covers, Accounts
  <2> QED  BY <2>1, <2>2, ConstantTypes DEF RateAfter, AllTyped, MapsTyped
<1>3. ReaderTyped(reader')
  BY <1>1 DEF AllTyped, ReaderTyped, IsReader
<1>4. MapsTyped'
  BY <1>1, <1>2 DEF AllTyped, MapsTyped
<1> QED  BY <1>3, <1>4 DEF AllTyped, ReaderTyped, IsReader

\* The types hold at first and are kept by every step.
THEOREM RewardTypesInductive ==
  /\ RewardInit => AllTyped
  /\ AllTyped /\ NInv /\ [RewardNext]_rewardVars => AllTyped'
<1>1. RewardInit => AllTyped
  BY IdleTyped, ConstantTypes DEF RewardInit, AllTyped, MapsTyped
<1>2. ASSUME AllTyped, NInv, [RewardNext]_rewardVars
      PROVE  AllTyped'
  <2> USE DEF AllTyped
  <2>1. CASE RefreshBegins
    <3>1. ReaderTyped([ReaderIdle EXCEPT !.pc = "gamma"])
      BY IdleTyped DEF ReaderTyped, IsReader, ReaderIdle
    <3>2. reader' = [ReaderIdle EXCEPT !.pc = "gamma"] /\ MapsTyped'
      BY <1>2, <2>1 DEF RefreshBegins, MapsTyped
    <3> QED  BY <3>1, <3>2 DEF ReaderTyped, IsReader
  <2>2. CASE ReadGamma
    <3>1. PICK told \in SUBSET Conditions :
            reader' = [reader EXCEPT !.pc = "active", !.raws = [c \in told |-> c \notin closed]]
      BY <2>2 DEF ReadGamma
    <3>2. reader.pc = "gamma" /\ ReaderTyped(reader)
      BY <1>2, <2>2 DEF ReadGamma
    <3>3. ReaderTyped(reader')
      BY <3>1, <3>2 DEF ReaderTyped, IsReader
    <3> QED  BY <1>2, <2>2, <3>3 DEF ReadGamma, MapsTyped, ReaderTyped, IsReader
  <2>3. CASE ReadPage
    BY <1>2, <2>3, ReadPageTyped DEF ReadPage, MapsTyped, ReaderTyped, IsReader
  <2>4. CASE PageFails
    <3>1. \/ reader' = NoSnapshot
          \/ reader.tries < MaxRetries /\ reader' = [reader EXCEPT !.tries = @ + 1]
      BY <2>4 DEF PageFails
    <3>2. ReaderTyped(reader')
      <4>1. CASE reader' = NoSnapshot
        BY <1>2, <4>1, NoSnapshotTyped
      <4>2. CASE reader.tries < MaxRetries /\ reader' = [reader EXCEPT !.tries = @ + 1]
        BY <1>2, <4>2, BoundTypes DEF ReaderTyped, IsReader
      <4> QED  BY <3>1, <4>1, <4>2
    <3> QED  BY <1>2, <2>4, <3>2 DEF PageFails, MapsTyped, ReaderTyped, IsReader
  <2>5. CASE Allocate
    <3>1. RewardEntryMarkets(rate) \subseteq Conditions
      BY <1>2, EnteredFits DEF MapsTyped, Fitting, Candidates
    <3>2. ReaderTyped(reader') /\ MapsTyped'
      BY <1>2, <2>5, <3>1, IdleTyped DEF Allocate, MapsTyped
    <3> QED  BY <3>2 DEF ReaderTyped, IsReader
  <2>6. CASE RewardChanges
    <3>1. reader' = reader /\ MapsTyped'
      BY <1>2, <2>6, ChangesTyped DEF RewardChanges
    <3> QED  BY <1>2, <3>1 DEF ReaderTyped, IsReader
  <2>7. CASE \E c \in Conditions : ApplyMarket(c)
    BY <1>2, <2>7, ApplyMarketTyped
  <2>8. CASE UNCHANGED rewardVars
    BY <1>2, <2>8 DEF rewardVars, MapsTyped, ReaderTyped, IsReader
  <2> QED  BY <1>2, <2>1, <2>2, <2>3, <2>4, <2>5, <2>6, <2>7, <2>8 DEF RewardNext
<1> QED  BY <1>1, <1>2

LEMMA TypedImplies == AllTyped => RewardTypeOK
  BY DEF AllTyped, MapsTyped, ReaderTyped, IsReader, RewardTypeOK, Applying

-------------------------------------------------------------------------------
(* The entries *)

\* While the rates stand, the entries are those of the last allocation.
LEMMA EntriesKept ==
  ASSUME AllTyped, EntriesFit, [RewardNext]_rewardVars
  PROVE  EntriesFit'
<1> DEFINE fits == Fitting(rate, Candidates(rate), entries)
<1>1. EntriesFit <=> Applying \/ fits
  <2>1. fits <=> /\ Reserved(entries) <= MaxTotal
                 /\ \A c \in entries : EventOf[c] # NoEvent => Reserved(OfEvent(entries, c)) <= MaxEvent
                 /\ entries \subseteq Candidates(rate)
                 /\ \A c \in Candidates(rate) \ entries :
                      ~FitsCaps({d \in entries : Before(rate, d, c)}, c)
    BY DEF Fitting
  <2> QED  BY <2>1 DEF EntriesFit
<1>2. EntriesFit' <=> Applying' \/ Fitting(rate', Candidates(rate'), entries')
  <2>1. Fitting(rate', Candidates(rate'), entries') <=>
          /\ Reserved(entries') <= MaxTotal
          /\ \A c \in entries' : EventOf[c] # NoEvent => Reserved(OfEvent(entries', c)) <= MaxEvent
          /\ entries' \subseteq Candidates(rate')
          /\ \A c \in Candidates(rate') \ entries' :
               ~FitsCaps({d \in entries' : Before(rate', d, c)}, c)
    BY DEF Fitting
  <2> QED  BY <2>1 DEF EntriesFit, Reserved, OfEvent, Candidates, FitsCaps, Before
<1>3. CASE Allocate
  <2>1. rate' = rate /\ entries' = RewardEntryMarkets(rate) /\ rate \in [Conditions -> Rates]
    BY <1>3 DEF Allocate, AllTyped, MapsTyped
  <2> QED  BY <1>2, <2>1, EnteredFits
<1>4. CASE \E c \in Conditions : ApplyMarket(c)
  <2>1. Applying'
    BY <1>4 DEF ApplyMarket, Applying, AllTyped, ReaderTyped, IsReader
  <2> QED  BY <1>2, <2>1
<1>5. CASE \/ RefreshBegins \/ ReadGamma \/ ReadPage \/ PageFails \/ RewardChanges
           \/ UNCHANGED rewardVars
  <2>1. UNCHANGED <<rate, entries>> /\ (Applying => Applying')
    BY <1>5 DEF RefreshBegins, ReadGamma, ReadPage, PageFails, RewardChanges, Applying, rewardVars
  <2> QED  BY <1>1, <1>2, <2>1
<1> QED  BY <1>3, <1>4, <1>5 DEF RewardNext

LEMMA EntriesStart ==
  ASSUME RewardInit
  PROVE  EntriesFit
<1>1. rate = [c \in Conditions |-> 0] /\ entries = {}
  BY DEF RewardInit
<1>2. Candidates(rate) = {}
  BY <1>1 DEF Candidates
<1>3. 0 <= MaxTotal
  BY RewardTypes
<1>4. Reserved(entries) <= MaxTotal
  BY <1>1, <1>3, ReservedNothing
<1>5. \A c \in Candidates(rate) \ entries : FALSE
  BY <1>2
<1> QED  BY <1>1, <1>4, <1>5 DEF EntriesFit

\* What TLC checks as RewardTypeOK, and the entries, for every finite set of markets.
RewardInv == NInv /\ AllTyped /\ EntriesFit

\* The invariant of the whole module.
THEOREM RewardInductive ==
  /\ RewardInit => RewardInv
  /\ RewardInv /\ [RewardNext]_rewardVars => RewardInv'
<1>1. RewardInit => RewardInv
  BY RefreshInductive, RewardTypesInductive, EntriesStart DEF RewardInv
<1>2. RewardInv /\ [RewardNext]_rewardVars => RewardInv'
  BY RefreshInductive, RewardTypesInductive, EntriesKept DEF RewardInv
<1> QED  BY <1>1, <1>2

\* Types, and only a reading that is under way holds rows.
THEOREM RewardTypeCorrect == RewardSpec => []RewardTypeOK
<1>1. RewardInit => RewardInv
  BY RewardInductive
<1>2. RewardInv /\ [RewardNext]_rewardVars => RewardInv'
  BY RewardInductive
<1>3. RewardInv => RewardTypeOK
  BY TypedImplies DEF RewardInv
<1> QED  BY <1>1, <1>2, <1>3, PTL DEF RewardSpec

\* reward_entry_markets, for every finite set of markets, all caps and every listing: the
\* markets entered fit the caps together, and no candidate that is left out would have
\* fitted beside those before it; while no refresh is applied they are those of the
\* rates the engine knows.
THEOREM EntriesAlwaysFit == RewardSpec => []EntriesFit
<1>1. RewardInit => RewardInv
  BY RewardInductive
<1>2. RewardInv /\ [RewardNext]_rewardVars => RewardInv'
  BY RewardInductive
<1>3. RewardInv => EntriesFit
  BY DEF RewardInv
<1> QED  BY <1>1, <1>2, <1>3, PTL DEF RewardSpec
===============================================================================
