--------------------------- MODULE FillLedger_proofs ---------------------------
(***************************************************************************)
(* Proofs about FillLedger, for every set of legs and tokens, every bound  *)
(* and every choice of spellings.                                          *)
(*                                                                         *)
(* ExactlyOnce is not inductive: it needs to know that every row can be    *)
(* found again under the "trade:index" spelling that all messages claim    *)
(* (IdentityInv), and that what the processor remembers as applied is in   *)
(* the ledger under that very spelling (MemoryInv).                        *)
(*                                                                         *)
(* Four parts: the invariant; the guards it counts; FillLedger implements  *)
(* AbstractLedger (a step leaves the abstract state alone, settles a leg,  *)
(* or adds one row, which is the first fill of its leg, NewFill, or the    *)
(* first reversal of a leg that failed, under the spelling of its fill,    *)
(* NewReversal); and what a sync has settled when it moves the checkpoint. *)
(***************************************************************************)
EXTENDS FillLedger, FiniteSetTheorems, TLAPS

\* The identity table points at rows of the same leg and kind; a row written
\* under the canonical spelling also holds the older one.
IdentityInv ==
  /\ \A b \in identities : /\ b[2] \in rows
                           /\ b[2].leg = b[1].leg
                           /\ b[2].kind = b[1].kind
  /\ \A r \in rows : r.kind = "fill" /\ r.spelling = "canonical"
                       => Identified(Id(r.leg, "legacy"))

\* What memory holds is true of the disk and of the exchange.
MemoryInv ==
  /\ \A i \in applied : i \in rows /\ i.kind = "fill"
  /\ \A e \in sync.snapshot \union sync.todo :
       /\ status[e[1]] # "none"
       /\ e[2] \in {"CONFIRMED", "FAILED"} => status[e[1]] = e[2]

RowsMatched == \A r \in rows : status[r.leg] # "none"

LedgerInv == ExactlyOnce /\ ReversalJustified /\ IdentityInv /\ RowsMatched
IInv == TypeOK /\ LedgerInv /\ MemoryInv

-------------------------------------------------------------------------------
(* Identities *)

\* A fill id is determined by its three fields.
LEMMA FillIdEqual ==
  ASSUME NEW f \in FillId, NEW g \in FillId,
         f.leg = g.leg, f.kind = g.kind, f.spelling = g.spelling
  PROVE  f = g
  BY DEF FillId

\* What parse.py spells for a leg are fill ids of that leg, and so is their reversal.
LEMMA IdType ==
  ASSUME NEW l \in Legs, NEW s \in Spelling
  PROVE  /\ Id(l, s) \in FillId
         /\ Id(l, s).leg = l /\ Id(l, s).kind = "fill" /\ Id(l, s).spelling = s
         /\ ReverseOf(Id(l, s)) \in FillId
         /\ ReverseOf(Id(l, s)).leg = l
         /\ ReverseOf(Id(l, s)).kind = "reverse"
         /\ ReverseOf(Id(l, s)).spelling = s
         /\ [ReverseOf(Id(l, s)) EXCEPT !.kind = "fill"] = Id(l, s)
         /\ Claims(l, s) \subseteq FillId
         /\ \A i \in Claims(l, s) : i.leg = l /\ i.kind = "fill"
<1>1. [ReverseOf(Id(l, s)) EXCEPT !.kind = "fill"] = Id(l, s)
  <2> DEFINE g == [ReverseOf(Id(l, s)) EXCEPT !.kind = "fill"]
  <2>1. ReverseOf(Id(l, s)) \in FillId /\ Id(l, s) \in FillId
    BY DEF Id, ReverseOf, FillId, Spelling
  <2>2. g \in FillId
    BY <2>1 DEF FillId
  <2>3. g.leg = l /\ g.kind = "fill" /\ g.spelling = s
    BY <2>1 DEF Id, ReverseOf, FillId
  <2>4. Id(l, s).leg = l /\ Id(l, s).kind = "fill" /\ Id(l, s).spelling = s
    BY DEF Id
  <2> HIDE DEF g
  <2>5. g = Id(l, s)
    BY <2>1, <2>2, <2>3, <2>4, FillIdEqual
  <2>6. QED BY <2>5 DEF g
<1>2. QED BY <1>1 DEF Id, ReverseOf, Claims, FillId, Spelling

\* After the backfill every row owns an identity, and owners are still rows.
LEMMA BackfilledOwners ==
  ASSUME TypeOK, IdentityInv
  PROVE  /\ Backfilled \subseteq FillId \X FillId
         /\ identities \subseteq Backfilled
         /\ \A b \in Backfilled : /\ b[2] \in rows
                                  /\ b[2].leg = b[1].leg
                                  /\ b[2].kind = b[1].kind
         /\ \A r \in rows : \E b \in Backfilled : b[1] = r
<1>1. rows \subseteq FillId /\ identities \subseteq FillId \X FillId
  BY DEF TypeOK
<1>2. identities \subseteq Backfilled /\ Backfilled \subseteq FillId \X FillId
  BY <1>1 DEF Backfilled
<1>3. ASSUME NEW b \in Backfilled
      PROVE  b[2] \in rows /\ b[2].leg = b[1].leg /\ b[2].kind = b[1].kind
  <2>1. CASE b \in identities
    BY <2>1 DEF IdentityInv
  <2>2. CASE \E r \in rows : b = <<r, r>>
    BY <2>2
  <2>3. QED BY <2>1, <2>2 DEF Backfilled
<1>4. ASSUME NEW r \in rows
      PROVE  \E b \in Backfilled : b[1] = r
  <2>1. CASE Identified(r)
    BY <1>2, <2>1 DEF Identified
  <2>2. CASE ~Identified(r)
    <3>1. <<r, r>> \in Backfilled
      BY <2>2 DEF Backfilled
    <3>2. QED BY <3>1
  <2>3. QED BY <2>1, <2>2
<1>5. QED BY <1>2, <1>3, <1>4

\* What apply_fill does to the two tables, given ids of one leg and kind.
LEMMA ApplyFillStep ==
  ASSUME TypeOK, IdentityInv,
         NEW f \in FillId, NEW ids \in SUBSET FillId, f \in ids,
         \A i \in ids : i.leg = f.leg /\ i.kind = f.kind,
         ApplyFill(f, ids)
  PROVE  /\ rows' = IF Accepts(ids) THEN rows \union {f} ELSE rows
         /\ identities \subseteq identities'
         /\ identities' \subseteq FillId \X FillId
         /\ \A b \in identities' : /\ b[2] \in rows'
                                   /\ b[2].leg = b[1].leg
                                   /\ b[2].kind = b[1].kind
         /\ Accepts(ids) => \A i \in ids : Identified(i)'
<1>1. /\ Backfilled \subseteq FillId \X FillId
      /\ identities \subseteq Backfilled
      /\ \A b \in Backfilled : b[2] \in rows /\ b[2].leg = b[1].leg /\ b[2].kind = b[1].kind
  BY BackfilledOwners
<1>2. CASE Accepts(ids)
  <2>1. rows' = rows \union {f} /\ identities' = Bind(f, ids)
    BY <1>2 DEF ApplyFill
  <2>2. ASSUME NEW i \in ids
        PROVE  \E b \in identities' : b[1] = i
    <3>1. CASE \E b \in Backfilled : b[1] = i
      BY <2>1, <3>1 DEF Bind
    <3>2. CASE \A b \in Backfilled : b[1] # i
      <4>1. <<i, f>> \in identities'
        BY <2>1, <3>2 DEF Bind
      <4>2. QED BY <4>1
    <3>3. QED BY <3>1, <3>2
  <2>3. identities' \subseteq FillId \X FillId
    BY <1>1, <2>1 DEF Bind
  <2>4. \A b \in identities' : b[2] \in rows' /\ b[2].leg = b[1].leg /\ b[2].kind = b[1].kind
    BY <1>1, <2>1 DEF Bind
  <2>5. QED BY <1>1, <1>2, <2>1, <2>2, <2>3, <2>4 DEF Bind, Identified
<1>3. CASE ~Accepts(ids) /\ \E o \in Owners(ids) : Owners(ids) = {o}
  <2>1. PICK o \in Owners(ids) : rows' = rows /\ identities' = Bind(o, ids)
    BY <1>3 DEF ApplyFill
  <2>2. PICK c \in Backfilled : c[2] = o /\ c[1] \in ids
    BY <2>1 DEF Owners
  <2>3. o \in rows /\ o \in FillId /\ o.leg = f.leg /\ o.kind = f.kind
    BY <1>1, <2>2 DEF TypeOK
  <2>4. identities' \subseteq FillId \X FillId
    BY <1>1, <2>1, <2>3 DEF Bind
  <2>5. \A b \in identities' : b[2] \in rows' /\ b[2].leg = b[1].leg /\ b[2].kind = b[1].kind
    BY <1>1, <2>1, <2>3 DEF Bind
  <2>6. QED BY <1>1, <1>3, <2>1, <2>4, <2>5 DEF Bind
<1>4. CASE ~Accepts(ids) /\ ~ \E o \in Owners(ids) : Owners(ids) = {o}
  BY <1>4 DEF ApplyFill, TypeOK, IdentityInv
<1>5. QED BY <1>2, <1>3, <1>4

\* A fill is accepted only when the ledger has no fill of its leg: all spellings
\* of a leg share one.
LEMMA AcceptedFillIsNew ==
  ASSUME TypeOK, IdentityInv, NEW l \in Legs, NEW s \in Spelling, Accepts(Claims(l, s))
  PROVE  \A r \in rows : ~(r.leg = l /\ r.kind = "fill")
<1> SUFFICES ASSUME NEW r \in rows, r.leg = l, r.kind = "fill"
             PROVE  FALSE
  OBVIOUS
<1>1. r \in FillId /\ r.spelling \in Spelling
  BY DEF TypeOK, FillId
<1>2. \E b \in Backfilled : b[1] = Id(l, "legacy")
  <2>1. CASE r.spelling = "canonical"
    BY <2>1, BackfilledOwners DEF IdentityInv, Identified
  <2>2. CASE r.spelling = "legacy"
    <3>1. r = Id(l, "legacy")
      BY <1>1, <2>2, IdType, FillIdEqual DEF Spelling
    <3>2. QED BY <3>1, BackfilledOwners
  <2>3. QED BY <1>1, <2>1, <2>2 DEF Spelling
<1>3. QED BY <1>2 DEF Accepts, Owners, Claims

\* The tables keep their types and only grow.
TablesTyped ==
  /\ rows' \subseteq FillId /\ rows \subseteq rows'
  /\ identities' \subseteq FillId \X FillId

\* Applying a fill of a matched leg keeps the ledger invariant.
LEMMA FillKeepsLedger ==
  ASSUME TypeOK, LedgerInv, status' = status,
         NEW l \in Legs, NEW s \in Spelling, status[l] # "none",
         ApplyFill(Id(l, s), Claims(l, s))
  PROVE  /\ LedgerInv' /\ TablesTyped
         /\ Accepts(Claims(l, s)) => Id(l, s) \in rows'
<1> DEFINE f == Id(l, s)
           ids == Claims(l, s)
<1>1. /\ f \in FillId /\ ids \in SUBSET FillId /\ f \in ids
      /\ f.leg = l /\ f.kind = "fill" /\ f.spelling = s
      /\ Id(l, "legacy") \in ids
      /\ \A i \in ids : i.leg = f.leg /\ i.kind = f.kind
  BY IdType DEF Claims
<1>2. TypeOK /\ IdentityInv
  BY DEF LedgerInv
<1>3. /\ rows' = IF Accepts(ids) THEN rows \union {f} ELSE rows
      /\ identities \subseteq identities'
      /\ identities' \subseteq FillId \X FillId
      /\ \A b \in identities' : b[2] \in rows' /\ b[2].leg = b[1].leg /\ b[2].kind = b[1].kind
      /\ Accepts(ids) => \A i \in ids : Identified(i)'
  <2> HIDE DEF f, ids
  <2>1. ApplyFill(f, ids)
    BY DEF f, ids
  <2>2. QED BY <1>1, <1>2, <2>1, ApplyFillStep
<1>4. TablesTyped
  BY <1>1, <1>3 DEF TablesTyped, TypeOK
<1>5. ExactlyOnce'
  <2>1. CASE Accepts(ids)
    <3>1. \A r \in rows : ~(r.leg = l /\ r.kind = "fill")
      BY <1>2, <2>1, AcceptedFillIsNew
    <3>2. QED BY <1>1, <1>3, <2>1, <3>1 DEF LedgerInv, ExactlyOnce
  <2>2. CASE ~Accepts(ids)
    BY <1>3, <2>2 DEF LedgerInv, ExactlyOnce
  <2>3. QED BY <2>1, <2>2
<1>6. ReversalJustified'
  BY <1>1, <1>3 DEF LedgerInv, ReversalJustified
<1>7. IdentityInv'
  <2>1. ASSUME NEW r \in rows', r.kind = "fill", r.spelling = "canonical"
        PROVE  Identified(Id(r.leg, "legacy"))'
    <3>1. CASE r \in rows
      <4>1. Identified(Id(r.leg, "legacy"))
        BY <2>1, <3>1 DEF LedgerInv, IdentityInv
      <4>2. QED BY <1>3, <4>1 DEF Identified, Id
    <3>2. CASE r \notin rows
      <4>1. r = f /\ Accepts(ids)
        BY <1>3, <2>1, <3>2
      <4>2. Id(r.leg, "legacy") = Id(l, "legacy")
        BY <1>1, <4>1
      <4>3. QED BY <1>1, <1>3, <4>1, <4>2 DEF Identified, Id
    <3>3. QED BY <3>1, <3>2
  <2>2. QED BY <1>3, <2>1 DEF IdentityInv
<1>8. RowsMatched'
  BY <1>1, <1>3 DEF LedgerInv, RowsMatched
<1>9. QED BY <1>1, <1>3, <1>4, <1>5, <1>6, <1>7, <1>8 DEF LedgerInv

\* Reversing the optimistic fill of a failed leg keeps the ledger invariant: the
\* reversal has the spelling of the one fill the ledger holds, so it is new.
LEMMA ReversalKeepsLedger ==
  ASSUME TypeOK, LedgerInv, status' = status,
         NEW l \in Legs, NEW s \in Spelling, status[l] = "FAILED",
         Id(l, s) \in rows,
         ApplyFill(ReverseOf(Id(l, s)), {ReverseOf(Id(l, s))})
  PROVE  LedgerInv' /\ TablesTyped
<1> DEFINE f == ReverseOf(Id(l, s))
<1>1. /\ f \in FillId /\ f.leg = l /\ f.kind = "reverse" /\ f.spelling = s
      /\ Id(l, s) \in FillId /\ Id(l, s).leg = l
      /\ Id(l, s).kind = "fill" /\ Id(l, s).spelling = s
      /\ [f EXCEPT !.kind = "fill"] = Id(l, s)
  BY IdType
<1>2. TypeOK /\ IdentityInv
  BY DEF LedgerInv
<1>3. /\ rows' = IF Accepts({f}) THEN rows \union {f} ELSE rows
      /\ identities \subseteq identities'
      /\ identities' \subseteq FillId \X FillId
      /\ \A b \in identities' : b[2] \in rows' /\ b[2].leg = b[1].leg /\ b[2].kind = b[1].kind
  <2> HIDE DEF f
  <2>1. ApplyFill(f, {f})
    BY DEF f
  <2>2. QED BY <1>1, <1>2, <2>1, ApplyFillStep
<1>4. TablesTyped
  BY <1>1, <1>3 DEF TablesTyped, TypeOK
<1>5. ASSUME Accepts({f}), NEW q \in rows, q.leg = l, q.kind = "reverse"
      PROVE  FALSE
  <2>1. q \in FillId
    BY DEF TypeOK
  <2>2. [q EXCEPT !.kind = "fill"] \in rows
    BY <1>5 DEF LedgerInv, ReversalJustified
  <2>3. [q EXCEPT !.kind = "fill"] = Id(l, s)
    BY <1>1, <1>5, <2>1, <2>2 DEF LedgerInv, ExactlyOnce, FillId
  <2>4. q.spelling = s
    BY <1>1, <2>1, <2>3 DEF FillId
  <2>5. q = f
    BY <1>1, <1>5, <2>1, <2>4, FillIdEqual
  <2>6. \E b \in Backfilled : b[1] = f
    BY <1>2, <1>5, <2>5, BackfilledOwners
  <2>7. QED BY <1>5, <2>6 DEF Accepts, Owners
<1>6. ExactlyOnce'
  BY <1>1, <1>3, <1>5 DEF LedgerInv, ExactlyOnce
<1>7. ReversalJustified'
  BY <1>1, <1>3 DEF LedgerInv, ReversalJustified
<1>8. IdentityInv'
  <2>1. ASSUME NEW r \in rows', r.kind = "fill", r.spelling = "canonical"
        PROVE  Identified(Id(r.leg, "legacy"))'
    <3>1. r \in rows
      BY <1>1, <1>3, <2>1
    <3>2. Identified(Id(r.leg, "legacy"))
      BY <2>1, <3>1 DEF LedgerInv, IdentityInv
    <3>3. QED BY <1>3, <3>2 DEF Identified, Id
  <2>2. QED BY <1>3, <2>1 DEF IdentityInv
<1>9. RowsMatched'
  BY <1>1, <1>3 DEF LedgerInv, RowsMatched
<1>10. QED BY <1>4, <1>6, <1>7, <1>8, <1>9 DEF LedgerInv

\* Whatever on_trade is told of a leg, at whatever status the exchange has really
\* given it, the ledger invariant, the types and the memory invariant survive.
LEMMA TradeKeepsLedger ==
  ASSUME TypeOK, LedgerInv, MemoryInv, TokenAssumption, status' = status,
         NEW l \in Legs, NEW s \in Spelling, NEW st, status[l] # "none",
         st = "FAILED" => status[l] = "FAILED",
         OnTrade(l, st, s)
  PROVE  /\ LedgerInv' /\ TablesTyped
         /\ applied' \subseteq FillId
         /\ \A i \in applied' : i \in rows' /\ i.kind = "fill"
         /\ inflight' \in [Tokens -> Nat]
<1>1. /\ Id(l, s) \in FillId /\ Id(l, s).kind = "fill"
      /\ TokenOf[l] \in Tokens
      /\ applied \subseteq FillId /\ inflight \in [Tokens -> Nat]
      /\ \A i \in applied : i \in rows /\ i.kind = "fill"
  BY IdType DEF TypeOK, MemoryInv, TokenAssumption
<1>2. ASSUME UNCHANGED ledgerVars
      PROVE  LedgerInv' /\ TablesTyped
  BY <1>2 DEF ledgerVars, LedgerInv, ExactlyOnce, ReversalJustified, IdentityInv,
              Identified, RowsMatched, TablesTyped, TypeOK
<1>3. ASSUME UNCHANGED memoryVars, TablesTyped
      PROVE  /\ applied' \subseteq FillId
             /\ \A i \in applied' : i \in rows' /\ i.kind = "fill"
             /\ inflight' \in [Tokens -> Nat]
  BY <1>1, <1>3 DEF memoryVars, TablesTyped
<1>4. ASSUME ClearInflight(TokenOf[l])
      PROVE  inflight' \in [Tokens -> Nat]
  BY <1>1, <1>4 DEF ClearInflight
<1>5. CASE OnMatched(l, s)
  <2>1. CASE Id(l, s) \in applied
    BY <1>2, <1>3, <1>5, <2>1 DEF OnMatched
  <2>2. CASE Id(l, s) \notin applied
    <3>1. ApplyFill(Id(l, s), Claims(l, s))
      BY <1>5, <2>2 DEF OnMatched
    <3>2. /\ LedgerInv' /\ TablesTyped
          /\ Accepts(Claims(l, s)) => Id(l, s) \in rows'
      BY <3>1, FillKeepsLedger
    <3>3. CASE Accepts(Claims(l, s))
      <4>1. applied' = applied \union {Id(l, s)} /\ MarkInflight(TokenOf[l])
        BY <1>5, <2>2, <3>3 DEF OnMatched
      <4>2. inflight' \in [Tokens -> Nat]
        BY <1>1, <4>1 DEF MarkInflight
      <4>3. QED BY <1>1, <3>2, <3>3, <4>1, <4>2 DEF TablesTyped
    <3>4. CASE ~Accepts(Claims(l, s))
      BY <1>3, <1>5, <2>2, <3>2, <3>4 DEF OnMatched
    <3>5. QED BY <3>3, <3>4
  <2>3. QED BY <2>1, <2>2
<1>6. CASE OnConfirmed(l, s)
  <2>1. CASE Id(l, s) \in applied
    <3>1. /\ applied' = applied \ {Id(l, s)} /\ ClearInflight(TokenOf[l])
          /\ UNCHANGED ledgerVars
      BY <1>6, <2>1 DEF OnConfirmed
    <3>2. QED BY <1>1, <1>2, <1>4, <3>1 DEF ledgerVars
  <2>2. CASE Id(l, s) \notin applied
    BY <1>3, <1>6, <2>2, FillKeepsLedger DEF OnConfirmed
  <2>3. QED BY <2>1, <2>2
<1>7. CASE OnFailed(l, s) /\ st = "FAILED"
  <2>1. CASE Id(l, s) \in applied
    <3> DEFINE back == ReverseOf(Id(l, s))
    <3>1. ApplyFill(back, {back})
      BY <1>7, <2>1 DEF OnFailed
    <3>2. LedgerInv' /\ TablesTyped
      BY <1>1, <1>7, <2>1, <3>1, ReversalKeepsLedger
    <3>3. CASE applied' = applied \ {Id(l, s)} /\ ClearInflight(TokenOf[l])
      BY <1>1, <1>4, <3>2, <3>3 DEF TablesTyped
    <3>4. CASE UNCHANGED memoryVars
      BY <1>3, <3>2, <3>4
    <3>5. QED
      BY <1>7, <2>1, <3>3, <3>4 DEF OnFailed
  <2>2. CASE Id(l, s) \notin applied
    BY <1>2, <1>3, <1>7, <2>2 DEF OnFailed
  <2>3. QED BY <2>1, <2>2
<1>8. CASE UNCHANGED <<ledgerVars, memoryVars>>
  BY <1>2, <1>3, <1>8
<1>9. QED BY <1>5, <1>6, <1>7, <1>8 DEF OnTrade

-------------------------------------------------------------------------------
(* The invariant is inductive *)

\* A database an older version wrote satisfies the invariant when the engine starts.
LEMMA InitInv == Init => IInv
<1> SUFFICES ASSUME Init PROVE IInv
  OBVIOUS
<1>1. PICK old \in SUBSET Legs :
        /\ rows = {Id(l, "legacy") : l \in old}
        /\ status \in [Legs -> {"none", "open", "CONFIRMED"}]
        /\ \A l \in Legs : status[l] = "none" <=> l \notin old
  BY DEF Init
<1>2. ASSUME NEW r \in rows
      PROVE  /\ r \in FillId /\ r.leg \in old /\ r = Id(r.leg, "legacy")
             /\ r.kind = "fill" /\ r.spelling = "legacy"
  <2>1. PICK l \in old : r = Id(l, "legacy")
    BY <1>1
  <2>2. QED BY <2>1, IdType DEF Spelling
<1>3. TypeOK
  <2>1. 0 \in Time /\ 0 \in 0 .. MaxCrashes
    BY TimeAssumption DEF Time
  <2>2. sync \in [pc : {"idle", "read", "apply"}, start : Time,
                  snapshot : SUBSET (Legs \X LegStatus), todo : SUBSET (Legs \X LegStatus)]
    BY <2>1 DEF Init, NoSync
  <2>3. status \in [Legs -> LegStatus] /\ matchedAt \in [Legs -> Time]
    BY <1>1, <2>1 DEF Init, LegStatus
  <2>4. inflight \in [Tokens -> Nat] /\ applied \subseteq FillId
    BY DEF Init
  <2>5. rows \subseteq FillId /\ identities \subseteq FillId \X FillId /\ pending \subseteq FillId
    BY <1>2 DEF Init
  <2>6. now \in Time /\ checkpoint \in Time /\ online \in BOOLEAN /\ crashes \in 0 .. MaxCrashes
    BY <2>1 DEF Init
  <2>7. QED BY <2>2, <2>3, <2>4, <2>5, <2>6 DEF TypeOK
<1>4. ExactlyOnce
  BY <1>2 DEF ExactlyOnce
<1>5. ReversalJustified /\ RowsMatched
  BY <1>1, <1>2 DEF ReversalJustified, RowsMatched
<1>6. IdentityInv /\ MemoryInv
  BY <1>2 DEF Init, IdentityInv, MemoryInv, NoSync
<1>7. QED BY <1>3, <1>4, <1>5, <1>6 DEF IInv, LedgerInv

\* The exchange moves a leg forward only; a failed leg stays failed.
LEMMA ExchangeKeepsInv ==
  ASSUME IInv, Tick \/ (\E l \in Legs : Match(l))
               \/ (\E l \in Legs, st \in {"CONFIRMED", "FAILED"} : Settle(l, st))
  PROVE  IInv'
<1>1. /\ UNCHANGED <<ledgerVars, windowVars, memoryVars, online, sync, crashes>>
      /\ now' \in Time /\ matchedAt' \in [Legs -> Time] /\ status' \in [Legs -> LegStatus]
  BY TimeAssumption DEF IInv, TypeOK, Tick, Match, Settle, Time, LegStatus
<1>2. \A l \in Legs : /\ status[l] # "none" => status'[l] # "none"
                      /\ status[l] \in {"CONFIRMED", "FAILED"} => status'[l] = status[l]
  BY DEF IInv, TypeOK, Tick, Match, Settle, LegStatus
<1>3. TypeOK'
  BY <1>1 DEF IInv, TypeOK, ledgerVars, windowVars, memoryVars
<1>4. \A r \in rows : r.leg \in Legs
  BY DEF IInv, TypeOK, FillId
<1>5. LedgerInv'
  BY <1>1, <1>2, <1>4 DEF IInv, LedgerInv, ExactlyOnce, ReversalJustified, IdentityInv,
                          Identified, RowsMatched, ledgerVars
<1>6. MemoryInv'
  <2>1. \A e \in sync.snapshot \union sync.todo : e[1] \in Legs
    BY DEF IInv, TypeOK
  <2>2. QED BY <1>1, <1>2, <2>1 DEF IInv, MemoryInv, ledgerVars, memoryVars
<1>7. QED BY <1>3, <1>5, <1>6 DEF IInv

\* A handler leaves the exchange, the window and the sync's snapshot alone.
LEMMA HandlerKeepsInv ==
  ASSUME IInv, UNCHANGED <<exchangeVars, windowVars, online, crashes>>,
         NEW l \in Legs, NEW s \in Spelling, NEW st, status[l] # "none",
         st = "FAILED" => status[l] = "FAILED", OnTrade(l, st, s),
         sync' \in [pc : {"idle", "read", "apply"}, start : Time,
                    snapshot : SUBSET (Legs \X LegStatus), todo : SUBSET (Legs \X LegStatus)],
         sync'.snapshot \subseteq sync.snapshot, sync'.todo \subseteq sync.todo
  PROVE  IInv'
<1>1. /\ LedgerInv' /\ TablesTyped
      /\ applied' \subseteq FillId
      /\ \A i \in applied' : i \in rows' /\ i.kind = "fill"
      /\ inflight' \in [Tokens -> Nat]
  BY TradeKeepsLedger, TokenAssumption DEF IInv, exchangeVars
<1>2. TypeOK'
  BY <1>1 DEF IInv, TypeOK, TablesTyped, exchangeVars, windowVars
<1>3. MemoryInv'
  BY <1>1 DEF IInv, MemoryInv, exchangeVars
<1>4. QED BY <1>1, <1>2, <1>3 DEF IInv

\* The steps of the sync that do not touch the ledger, expiry and the crash.
LEMMA ControlKeepsInv ==
  ASSUME IInv, UNCHANGED <<exchangeVars, ledgerVars>>,
         pending' \subseteq FillId, checkpoint' \in Time, online' \in BOOLEAN,
         crashes' \in 0 .. MaxCrashes, applied' \subseteq applied,
         inflight' \in [Tokens -> Nat],
         sync' \in [pc : {"idle", "read", "apply"}, start : Time,
                    snapshot : SUBSET (Legs \X LegStatus), todo : SUBSET (Legs \X LegStatus)],
         \A e \in sync'.snapshot \union sync'.todo :
            /\ status[e[1]] # "none"
            /\ e[2] \in {"CONFIRMED", "FAILED"} => status[e[1]] = e[2]
  PROVE  IInv'
<1>1. TypeOK'
  BY DEF IInv, TypeOK, exchangeVars, ledgerVars
<1>2. LedgerInv'
  BY DEF IInv, LedgerInv, ExactlyOnce, ReversalJustified, IdentityInv, Identified,
         RowsMatched, exchangeVars, ledgerVars
<1>3. MemoryInv'
  BY DEF IInv, MemoryInv, exchangeVars, ledgerVars
<1>4. QED BY <1>1, <1>2, <1>3 DEF IInv

\* Every step keeps the invariant.
LEMMA StepInv == IInv /\ [Next]_vars => IInv'
<1> SUFFICES ASSUME IInv, [Next]_vars PROVE IInv'
  OBVIOUS
<1> DEFINE SyncType ==
             [pc : {"idle", "read", "apply"}, start : Time,
              snapshot : SUBSET (Legs \X LegStatus), todo : SUBSET (Legs \X LegStatus)]
<1>1. /\ status \in [Legs -> LegStatus] /\ now \in Time /\ checkpoint \in Time
      /\ pending \subseteq FillId /\ online \in BOOLEAN /\ crashes \in 0 .. MaxCrashes
      /\ inflight \in [Tokens -> Nat] /\ sync \in SyncType
  BY DEF IInv, TypeOK
<1>2. \A e \in sync.snapshot \union sync.todo :
         /\ status[e[1]] # "none"
         /\ e[2] \in {"CONFIRMED", "FAILED"} => status[e[1]] = e[2]
  BY DEF IInv, MemoryInv
<1>3. NoSync \in SyncType /\ NoSync.snapshot = {} /\ NoSync.todo = {}
  BY TimeAssumption DEF NoSync, Time
<1>4. CASE Tick \/ (\E l \in Legs : Match(l))
           \/ (\E l \in Legs, st \in {"CONFIRMED", "FAILED"} : Settle(l, st))
  BY <1>4, ExchangeKeepsInv
<1>5. ASSUME NEW l \in Legs, NEW s \in StreamSpelling,
             NEW st \in {"MATCHED", "MINED", "RETRYING", "CONFIRMED", "FAILED"},
             Deliver(l, st, s)
      PROVE  IInv'
  <2>1. s \in Spelling
    BY SpellingAssumption DEF Spelling
  <2>2. status[l] # "none" /\ (st = "FAILED" => status[l] = "FAILED")
    BY <1>1, <1>5 DEF Deliver, Emitted
  <2>3. UNCHANGED <<exchangeVars, windowVars, online, sync, crashes>> /\ OnTrade(l, st, s)
    BY <1>5 DEF Deliver
  <2>4. QED BY <1>1, <2>1, <2>2, <2>3, HandlerKeepsInv
<1>6. ASSUME NEW t \in Tokens, ExpireInflight(t)
      PROVE  IInv'
  <2>1. inflight' \in [Tokens -> Nat]
    BY <1>1, <1>6 DEF ExpireInflight
  <2>2. QED BY <1>1, <1>2, <1>6, <2>1, ControlKeepsInv DEF ExpireInflight, windowVars
<1>7. ASSUME NEW full \in BOOLEAN, SyncRead(full)
      PROVE  IInv'
  <2>1. sync' \in SyncType
    BY <1>1, <1>7 DEF SyncRead
  <2>2. \A e \in sync'.snapshot \union sync'.todo :
           /\ status[e[1]] # "none"
           /\ e[2] \in {"CONFIRMED", "FAILED"} => status[e[1]] = e[2]
    BY <1>7 DEF SyncRead
  <2>3. QED BY <1>1, <1>7, <2>1, <2>2, ControlKeepsInv
            DEF SyncRead, windowVars, memoryVars
<1>8. CASE SyncReadFails
  BY <1>1, <1>3, <1>8, ControlKeepsInv DEF SyncReadFails, windowVars, memoryVars
<1>9. CASE SyncPin
  <2>1. sync'.snapshot = sync.snapshot /\ sync'.todo \subseteq sync.snapshot /\ sync' \in SyncType
    BY <1>1, <1>9 DEF SyncPin
  <2>2. pending' \subseteq FillId
    <3>1. \A e \in sync.snapshot : Id(e[1], "canonical") \in FillId
      BY <1>1, IdType DEF Spelling
    <3>2. QED BY <1>1, <1>9, <3>1 DEF SyncPin
  <2>3. QED BY <1>1, <1>2, <1>9, <2>1, <2>2, ControlKeepsInv DEF SyncPin, memoryVars
<1>10. ASSUME NEW e \in sync.todo, SyncLeg(e)
       PROVE  IInv'
  <2>1. sync' \in SyncType /\ sync'.snapshot \subseteq sync.snapshot /\ sync'.todo \subseteq sync.todo
    <3>1. CASE sync' = [sync EXCEPT !.todo = @ \ {e}]
      BY <1>1, <3>1
    <3>2. CASE sync' = NoSync
      BY <1>3, <3>2
    <3>3. QED BY <1>10, <3>1, <3>2 DEF SyncLeg
  <2>2. e[1] \in Legs /\ status[e[1]] # "none" /\ (e[2] = "FAILED" => status[e[1]] = "FAILED")
    BY <1>1, <1>2
  <2>3. QED
    BY <1>10, <2>1, <2>2, HandlerKeepsInv DEF SyncLeg, Spelling
<1>11. CASE SyncFinish
  <2>1. sync' = NoSync /\ pending' \subseteq FillId /\ checkpoint' \in Time /\ online' \in BOOLEAN
    BY <1>1, <1>11 DEF SyncFinish, Unsettled
  <2>2. QED BY <1>1, <1>3, <1>11, <2>1, ControlKeepsInv DEF SyncFinish, memoryVars
<1>12. CASE Crash
  <2>1. crashes' \in 0 .. MaxCrashes
    BY <1>1, <1>12, TimeAssumption DEF Crash
  <2>2. sync' = NoSync /\ inflight' \in [Tokens -> Nat]
    BY <1>12 DEF Crash
  <2>3. QED BY <1>1, <1>3, <1>12, <2>1, <2>2, ControlKeepsInv DEF Crash, windowVars
<1>13. CASE UNCHANGED vars
  BY <1>1, <1>2, <1>13, ControlKeepsInv
     DEF vars, exchangeVars, ledgerVars, windowVars, memoryVars
<1>14. QED
  BY <1>4, <1>5, <1>6, <1>7, <1>8, <1>9, <1>10, <1>11, <1>12, <1>13 DEF Next

\* The identity tables, the ledger and the memory of the processor agree at all
\* times: after every message, every step of the sync and every crash.
THEOREM InductiveInv == Spec => []IInv
  BY InitInv, StepInv, PTL DEF Spec

\* Every variable keeps its type, and no in-flight guard is ever negative
\* (store.py clear_inflight).
THEOREM TypeCorrect == Spec => []TypeOK
  BY InductiveInv, PTL DEF IInv

\* apply_fill counts a leg at most once and reverses it at most once, for every
\* number of legs, every mix of spellings and every crash.
THEOREM LedgerExactlyOnce == Spec => []ExactlyOnce
  BY InductiveInv, PTL DEF IInv, LedgerInv

\* on_trade never takes back a leg that the exchange has not failed, nor one the
\* ledger does not hold.
THEOREM ReversalsJustified == Spec => []ReversalJustified
  BY InductiveInv, PTL DEF IInv, LedgerInv

-------------------------------------------------------------------------------
(* In-flight guards *)

Guarding(t) == {i \in applied : TokenOf[i.leg] = t}
GuardInv == IsFiniteSet(applied) /\ GuardHasLeg

\* A leg is applied and marked, or cleared and forgotten, in one step of a handler.
MemoryStep(l, s) ==
  \/ UNCHANGED memoryVars
  \/ /\ Id(l, s) \notin applied /\ applied' = applied \union {Id(l, s)}
     /\ MarkInflight(TokenOf[l])
  \/ /\ Id(l, s) \in applied /\ applied' = applied \ {Id(l, s)}
     /\ ClearInflight(TokenOf[l])

LEMMA TradeMovesMemory ==
  ASSUME NEW l \in Legs, NEW s \in Spelling, NEW st, OnTrade(l, st, s)
  PROVE  MemoryStep(l, s)
<1>1. CASE OnMatched(l, s)
  BY <1>1 DEF OnMatched, MemoryStep
<1>2. CASE OnConfirmed(l, s)
  BY <1>2 DEF OnConfirmed, MemoryStep
<1>3. CASE OnFailed(l, s)
  BY <1>3 DEF OnFailed, MemoryStep
<1> QED  BY <1>1, <1>2, <1>3 DEF OnTrade, MemoryStep

LEMMA MemoryKeepsGuards ==
  ASSUME TypeOK, GuardInv, NEW l \in Legs, NEW s \in Spelling, MemoryStep(l, s)
  PROVE  GuardInv'
<1> DEFINE i == Id(l, s)
<1>1. /\ TokenOf[l] \in Tokens /\ inflight \in [Tokens -> Nat] /\ i.leg = l
      /\ IsFiniteSet(applied)
      /\ \A t \in Tokens : inflight[t] <= Cardinality(Guarding(t))
  BY IdType, TokenAssumption DEF TypeOK, GuardInv, GuardHasLeg, Guarding
<1> HIDE DEF i
<1>2. \A t \in Tokens : IsFiniteSet(Guarding(t)) /\ Cardinality(Guarding(t)) \in Nat
  BY <1>1, FS_Subset, FS_CardinalityType DEF Guarding
<1>3. CASE UNCHANGED memoryVars
  BY <1>1, <1>3 DEF memoryVars, GuardInv, GuardHasLeg
<1>4. CASE /\ i \notin applied /\ applied' = applied \union {i}
           /\ MarkInflight(TokenOf[l])
  <2>1. IsFiniteSet(applied')
    BY <1>1, <1>4, FS_AddElement
  <2>2. ASSUME NEW t \in Tokens
        PROVE  inflight'[t] <= Cardinality(Guarding(t)')
    <3>1. CASE t = TokenOf[l]
      <4>1. Guarding(t)' = Guarding(t) \union {i} /\ i \notin Guarding(t)
        BY <1>1, <1>4, <3>1 DEF Guarding
      <4>2. Cardinality(Guarding(t)') = Cardinality(Guarding(t)) + 1
        BY <1>2, <4>1, FS_AddElement
      <4>3. inflight'[t] = inflight[t] + 1
        BY <1>1, <1>4, <3>1 DEF MarkInflight
      <4> QED  BY <1>1, <1>2, <4>2, <4>3
    <3>2. CASE t # TokenOf[l]
      <4>1. Guarding(t)' = Guarding(t)
        BY <1>1, <1>4, <3>2 DEF Guarding
      <4>2. inflight'[t] = inflight[t]
        BY <1>1, <1>4, <3>2 DEF MarkInflight
      <4> QED  BY <1>1, <4>1, <4>2
    <3> QED  BY <3>1, <3>2
  <2> QED  BY <2>1, <2>2 DEF GuardInv, GuardHasLeg, Guarding
<1>5. CASE /\ i \in applied /\ applied' = applied \ {i}
           /\ ClearInflight(TokenOf[l])
  <2>1. IsFiniteSet(applied')
    BY <1>1, <1>5, FS_RemoveElement
  <2>2. ASSUME NEW t \in Tokens
        PROVE  inflight'[t] <= Cardinality(Guarding(t)')
    <3>1. CASE t = TokenOf[l]
      <4>1. Guarding(t)' = Guarding(t) \ {i} /\ i \in Guarding(t)
        BY <1>1, <1>5, <3>1 DEF Guarding
      <4>2. Cardinality(Guarding(t)') = Cardinality(Guarding(t)) - 1
        BY <1>2, <4>1, FS_RemoveElement
      <4>3. Cardinality(Guarding(t)') \in Nat
        BY <2>1, FS_Subset, FS_CardinalityType DEF Guarding
      <4>4. inflight'[t] = IF inflight[t] > 0 THEN inflight[t] - 1 ELSE inflight[t]
        BY <1>1, <1>5, <3>1 DEF ClearInflight
      <4> QED  BY <1>1, <1>2, <4>2, <4>3, <4>4
    <3>2. CASE t # TokenOf[l]
      <4>1. Guarding(t)' = Guarding(t)
        BY <1>1, <1>5, <3>2 DEF Guarding
      <4>2. inflight'[t] = inflight[t]
        BY <1>1, <1>5, <3>2 DEF ClearInflight
      <4> QED  BY <1>1, <4>1, <4>2
    <3> QED  BY <3>1, <3>2
  <2> QED  BY <2>1, <2>2 DEF GuardInv, GuardHasLeg, Guarding
<1> QED  BY <1>3, <1>4, <1>5 DEF MemoryStep, i

\* Expiry only releases guards, and a crash forgets guards and legs together.
LEMMA StepKeepsGuards ==
  ASSUME IInv, GuardInv, [Next]_vars
  PROVE  GuardInv'
<1>1. TypeOK
  BY DEF IInv
<1>2. ASSUME NEW l \in Legs, NEW s \in StreamSpelling,
             NEW st \in {"MATCHED", "MINED", "RETRYING", "CONFIRMED", "FAILED"},
             Deliver(l, st, s)
      PROVE  GuardInv'
  <2>1. s \in Spelling /\ OnTrade(l, st, s)
    BY <1>2, SpellingAssumption DEF Spelling, Deliver
  <2> QED  BY <1>1, <2>1, TradeMovesMemory, MemoryKeepsGuards
<1>3. ASSUME NEW e \in sync.todo, SyncLeg(e)
      PROVE  GuardInv'
  <2>1. e[1] \in Legs /\ OnTrade(e[1], e[2], "canonical") /\ "canonical" \in Spelling
    BY <1>1, <1>3 DEF TypeOK, SyncLeg, Spelling
  <2> QED  BY <1>1, <2>1, TradeMovesMemory, MemoryKeepsGuards
<1>4. ASSUME NEW t \in Tokens, ExpireInflight(t)
      PROVE  GuardInv'
  <2>1. applied' = applied /\ inflight' = [inflight EXCEPT ![t] = 0]
    BY <1>4 DEF ExpireInflight
  <2>2. \A u \in Tokens : Cardinality({i \in applied : TokenOf[i.leg] = u}) \in Nat
    BY FS_Subset, FS_CardinalityType DEF GuardInv
  <2> QED  BY <1>1, <2>1, <2>2 DEF GuardInv, GuardHasLeg, TypeOK
<1>5. CASE Crash
  <2>1. applied' = {} /\ inflight' = [t \in Tokens |-> 0]
    BY <1>5 DEF Crash
  <2>2. \A u \in Tokens : {i \in applied' : TokenOf[i.leg] = u} = {}
    BY <2>1
  <2>3. IsFiniteSet({}) /\ Cardinality({}) = 0
    BY FS_EmptySet
  <2> QED  BY <2>1, <2>2, <2>3 DEF GuardInv, GuardHasLeg
<1>6. ASSUME \/ Tick \/ (\E l \in Legs : Match(l))
             \/ (\E l \in Legs, st \in {"CONFIRMED", "FAILED"} : Settle(l, st))
             \/ (\E full \in BOOLEAN : SyncRead(full)) \/ SyncReadFails \/ SyncPin
             \/ SyncFinish \/ UNCHANGED vars
      PROVE  GuardInv'
  <2>1. UNCHANGED memoryVars
    BY <1>6 DEF Tick, Match, Settle, SyncRead, SyncReadFails, SyncPin, SyncFinish, vars
  <2> QED  BY <2>1 DEF memoryVars, GuardInv, GuardHasLeg
<1> QED  BY <1>2, <1>3, <1>4, <1>5, <1>6 DEF Next

\* mark_inflight, clear_inflight and expire_inflight: every guard is the guard of a leg
\* that is still unsettled, for every number of legs and tokens, whatever the messages.
THEOREM GuardsHaveLegs == Spec => []GuardHasLeg
<1>1. Init => GuardInv
  <2> SUFFICES ASSUME Init PROVE GuardInv
    OBVIOUS
  <2>1. applied = {} /\ inflight = [t \in Tokens |-> 0]
    BY DEF Init
  <2>2. \A u \in Tokens : {i \in applied : TokenOf[i.leg] = u} = {}
    BY <2>1
  <2>3. IsFiniteSet({}) /\ Cardinality({}) = 0
    BY FS_EmptySet
  <2> QED  BY <2>1, <2>2, <2>3 DEF GuardInv, GuardHasLeg
<1>2. IInv /\ GuardInv /\ [Next]_vars => GuardInv'
  BY StepKeepsGuards
<1>3. GuardInv => GuardHasLeg
  BY DEF GuardInv
<1> QED  BY <1>1, <1>2, <1>3, InductiveInv, PTL DEF Spec

-------------------------------------------------------------------------------
(* The rows a message adds *)

NewFill(l, s) ==
  /\ rows' = rows \union {Id(l, s)}
  /\ \A r \in rows : ~(r.leg = l /\ r.kind = "fill")

NewReversal(l, s) ==
  /\ rows' = rows \union {ReverseOf(Id(l, s))}
  /\ Id(l, s) \in rows /\ status[l] = "FAILED"
  /\ \A r \in rows : ~(r.leg = l /\ r.kind = "reverse")

Row(l, s, kind) == [spelling |-> s, leg |-> l, kind |-> kind]

\* A row is named by its fields.
LEMMA RowFields ==
  ASSUME NEW l \in Legs, NEW s \in Spelling
  PROVE  /\ Id(l, s) = Row(l, s, "fill") /\ ReverseOf(Id(l, s)) = Row(l, s, "reverse")
         /\ \A k \in Legs, t \in Spelling, kind \in {"fill", "reverse"} :
              Row(k, t, kind) = Row(l, s, "fill") <=> k = l /\ t = s /\ kind = "fill"
         /\ \A k \in Legs, t \in Spelling, kind \in {"fill", "reverse"} :
              Row(k, t, kind) = Row(l, s, "reverse") <=> k = l /\ t = s /\ kind = "reverse"
<1>1. Id(l, s) = Row(l, s, "fill")
  BY DEF Id, Row
<1>2. ReverseOf(Id(l, s)) = Row(l, s, "reverse")
  <2>1. ReverseOf(Id(l, s)) \in FillId /\ Row(l, s, "reverse") \in FillId
    BY IdType DEF Row, FillId
  <2>2. /\ ReverseOf(Id(l, s)).leg = l /\ ReverseOf(Id(l, s)).spelling = s
        /\ ReverseOf(Id(l, s)).kind = "reverse"
    BY IdType
  <2>3. Row(l, s, "reverse").leg = l /\ Row(l, s, "reverse").spelling = s
        /\ Row(l, s, "reverse").kind = "reverse"
    BY DEF Row
  <2> QED  BY <2>1, <2>2, <2>3, FillIdEqual
<1>3. \A k \in Legs, t \in Spelling, kind \in {"fill", "reverse"} :
        /\ Row(k, t, kind).leg = k /\ Row(k, t, kind).spelling = t
        /\ Row(k, t, kind).kind = kind
  BY DEF Row
<1> QED  BY <1>1, <1>2, <1>3

-------------------------------------------------------------------------------
(* What a message may do to the rows *)

LEMMA TradeAddsOneRow ==
  ASSUME IInv, NEW l \in Legs, NEW s \in Spelling, NEW st,
         st = "FAILED" => status[l] = "FAILED", OnTrade(l, st, s)
  PROVE  rows' = rows \/ NewFill(l, s) \/ NewReversal(l, s)
<1>1. ASSUME ApplyFill(Id(l, s), Claims(l, s))
      PROVE  rows' = rows \/ NewFill(l, s)
  <2>1. CASE Accepts(Claims(l, s))
    BY <1>1, <2>1, AcceptedFillIsNew DEF ApplyFill, NewFill, IInv, LedgerInv
  <2>2. CASE ~Accepts(Claims(l, s))
    BY <1>1, <2>2 DEF ApplyFill
  <2> QED  BY <2>1, <2>2
<1>2. CASE OnMatched(l, s)
  BY <1>1, <1>2 DEF OnMatched, ledgerVars
<1>3. CASE OnConfirmed(l, s)
  BY <1>1, <1>3 DEF OnConfirmed, ledgerVars
<1>4. CASE OnFailed(l, s) /\ st = "FAILED"
  <2> DEFINE back == ReverseOf(Id(l, s))
  <2>1. CASE Id(l, s) \notin applied
    BY <1>4, <2>1 DEF OnFailed, ledgerVars
  <2>2. CASE Id(l, s) \in applied
    <3>1. ApplyFill(back, {back})
      BY <1>4, <2>2 DEF OnFailed
    <3>2. rows' = rows \/ rows' = rows \union {back}
      BY <3>1 DEF ApplyFill
    <3>3. Id(l, s) \in rows /\ status[l] = "FAILED"
      BY <1>4, <2>2 DEF IInv, MemoryInv
    <3>4. ASSUME NEW q \in rows, q.leg = l, q.kind = "reverse"
          PROVE  q = back
      <4>1. q \in FillId
        BY DEF IInv, TypeOK
      <4>2. [q EXCEPT !.kind = "fill"] \in rows
        BY <3>4 DEF IInv, LedgerInv, ReversalJustified
      <4>3. [q EXCEPT !.kind = "fill"].leg = l /\ [q EXCEPT !.kind = "fill"].kind = "fill"
            /\ [q EXCEPT !.kind = "fill"].spelling = q.spelling
        BY <3>4, <4>1 DEF FillId
      <4>4. Id(l, s).leg = l /\ Id(l, s).kind = "fill" /\ Id(l, s).spelling = s
        BY IdType
      <4>5. [q EXCEPT !.kind = "fill"] = Id(l, s)
        BY <3>3, <4>2, <4>3, <4>4 DEF IInv, LedgerInv, ExactlyOnce
      <4>6. q.spelling = s
        BY <4>3, <4>4, <4>5
      <4> QED  BY <3>4, <4>1, <4>6, IdType, FillIdEqual
    <3>5. CASE back \in rows
      BY <3>2, <3>5
    <3>6. CASE back \notin rows
      BY <3>2, <3>3, <3>4, <3>6 DEF NewReversal
    <3> QED  BY <3>5, <3>6
  <2> QED  BY <2>1, <2>2
<1> QED  BY <1>2, <1>3, <1>4 DEF OnTrade, ledgerVars

-------------------------------------------------------------------------------
(* The abstract steps *)

\* A step that changes neither the rows nor the exchange is a stutter.
LEMMA Stutters ==
  ASSUME rows' = rows, status' = status
  PROVE  UNCHANGED Abstract!vars
  BY DEF Abstract!vars

\* The first fill of a leg is Count.
LEMMA FillCounts ==
  ASSUME NEW l \in Legs, NEW s \in Spelling, status[l] # "none", status' = status,
         NewFill(l, s)
  PROVE  Abstract!Count(l)
<1> DEFINE entries == [k \in Legs |-> {t \in Spelling : Id(k, t) \in rows}]
           reversals == [k \in Legs |-> {t \in Spelling : ReverseOf(Id(k, t)) \in rows}]
<1>1. \A k \in Legs, t \in Spelling :
        /\ Id(k, t) = Row(k, t, "fill") /\ ReverseOf(Id(k, t)) = Row(k, t, "reverse")
        /\ Id(k, t).leg = k /\ Id(k, t).kind = "fill"
        /\ Id(k, t) = Id(l, s) <=> k = l /\ t = s
        /\ ReverseOf(Id(k, t)) # Id(l, s)
  BY RowFields, IdType
<1>2. entries[l] = {}
  BY <1>1 DEF NewFill
<1>3. \A k \in Legs : entries'[k] = IF k = l THEN {s} ELSE entries[k]
  <2> SUFFICES ASSUME NEW k \in Legs PROVE entries'[k] = IF k = l THEN {s} ELSE entries[k]
    OBVIOUS
  <2>1. \A t \in Spelling : Id(k, t) \in rows' <=> Id(k, t) \in rows \/ (k = l /\ t = s)
    BY <1>1 DEF NewFill
  <2>2. CASE k = l
    BY <1>1, <2>1, <2>2 DEF NewFill
  <2>3. CASE k # l
    BY <2>1, <2>3
  <2> QED  BY <2>2, <2>3
<1>4. entries' = [entries EXCEPT ![l] = {s}]
  BY <1>3
<1>5. reversals' = reversals
  <2>1. \A k \in Legs, t \in Spelling :
          ReverseOf(Id(k, t)) \in rows' <=> ReverseOf(Id(k, t)) \in rows
    BY <1>1 DEF NewFill
  <2> QED  BY <2>1
<1> QED  BY <1>2, <1>4, <1>5 DEF Abstract!Count

\* The first reversal of a failed leg is Reverse.
LEMMA ReversalReverses ==
  ASSUME IInv, NEW l \in Legs, NEW s \in Spelling, status' = status, NewReversal(l, s)
  PROVE  Abstract!Reverse(l)
<1> DEFINE entries == [k \in Legs |-> {t \in Spelling : Id(k, t) \in rows}]
           reversals == [k \in Legs |-> {t \in Spelling : ReverseOf(Id(k, t)) \in rows}]
<1>1. \A k \in Legs, t \in Spelling :
        /\ Id(k, t).leg = k /\ Id(k, t).kind = "fill"
        /\ ReverseOf(Id(k, t)).leg = k /\ ReverseOf(Id(k, t)).kind = "reverse"
        /\ Id(k, t) = Id(l, s) <=> k = l /\ t = s
        /\ ReverseOf(Id(k, t)) = ReverseOf(Id(l, s)) <=> k = l /\ t = s
        /\ Id(k, t) # ReverseOf(Id(l, s))
  BY RowFields, IdType
<1>2. entries[l] = {s}
  <2>1. \A t \in Spelling : Id(l, t) \in rows <=> t = s
    BY <1>1 DEF NewReversal, IInv, LedgerInv, ExactlyOnce
  <2> QED  BY <2>1
<1>3. reversals[l] = {}
  BY <1>1 DEF NewReversal
<1>4. \A k \in Legs : reversals'[k] = IF k = l THEN {s} ELSE reversals[k]
  <2> SUFFICES ASSUME NEW k \in Legs PROVE reversals'[k] = IF k = l THEN {s} ELSE reversals[k]
    OBVIOUS
  <2>1. \A t \in Spelling :
          ReverseOf(Id(k, t)) \in rows' <=> ReverseOf(Id(k, t)) \in rows \/ (k = l /\ t = s)
    BY <1>1 DEF NewReversal
  <2>2. CASE k = l
    BY <1>1, <2>1, <2>2 DEF NewReversal
  <2>3. CASE k # l
    BY <2>1, <2>3
  <2> QED  BY <2>2, <2>3
<1>5. reversals' = [reversals EXCEPT ![l] = entries[l]]
  BY <1>2, <1>4
<1>6. entries' = entries
  <2>1. \A k \in Legs, t \in Spelling : Id(k, t) \in rows' <=> Id(k, t) \in rows
    BY <1>1 DEF NewReversal
  <2> QED  BY <2>1
<1>7. status[l] = "FAILED"
  BY DEF NewReversal
<1> QED  BY <1>2, <1>3, <1>5, <1>6, <1>7 DEF Abstract!Reverse

\* What the exchange does to a leg.
LEMMA ExchangeSteps ==
  ASSUME NEW l \in Legs, Match(l) \/ \E st \in {"CONFIRMED", "FAILED"} : Settle(l, st)
  PROVE  Abstract!Match(l) \/ Abstract!Settle(l)
<1>1. rows' = rows
  BY DEF Match, Settle, ledgerVars
<1>2. CASE Match(l)
  BY <1>1, <1>2 DEF Match, Abstract!Match
<1>3. CASE \E st \in {"CONFIRMED", "FAILED"} : Settle(l, st)
  BY <1>1, <1>3 DEF Settle, Abstract!Settle
<1> QED  BY <1>2, <1>3

-------------------------------------------------------------------------------
(* The simulation *)

LEMMA InitMaps == Init => Abstract!Init
<1> SUFFICES ASSUME Init PROVE Abstract!Init
  OBVIOUS
<1>1. PICK old \in SUBSET Legs :
        /\ rows = {Id(l, "legacy") : l \in old}
        /\ status \in [Legs -> {"none", "open", "CONFIRMED"}]
        /\ \A l \in Legs : status[l] = "none" <=> l \notin old
  BY DEF Init
<1>2. \A r \in rows : r.leg \in old /\ r.kind = "fill" /\ r.spelling = "legacy"
  BY <1>1, IdType DEF Spelling
<1>3. \A l \in Legs, s \in Spelling :
        /\ Id(l, s).leg = l /\ Id(l, s).spelling = s
        /\ ReverseOf(Id(l, s)).kind = "reverse"
  BY IdType
<1>4. \A l \in Legs, s \in Spelling :
        /\ Id(l, s) \in rows => s = "legacy" /\ l \in old
        /\ ReverseOf(Id(l, s)) \notin rows
  BY <1>2, <1>3
<1>5. \A l \in Legs : /\ {s \in Spelling : ReverseOf(Id(l, s)) \in rows} = {}
                      /\ {s \in Spelling : Id(l, s) \in rows} \in {{}, {"legacy"}}
                      /\ l \notin old => {s \in Spelling : Id(l, s) \in rows} = {}
  BY <1>4
<1> QED  BY <1>1, <1>5 DEF Abstract!Init, Spelling

LEMMA TradeMaps ==
  ASSUME IInv, NEW l \in Legs, NEW s \in Spelling, NEW st, status[l] # "none",
         st = "FAILED" => status[l] = "FAILED", OnTrade(l, st, s), status' = status
  PROVE  Abstract!Next \/ UNCHANGED Abstract!vars
<1>1. rows' = rows \/ NewFill(l, s) \/ NewReversal(l, s)
  BY TradeAddsOneRow
<1>2. CASE rows' = rows
  BY <1>2, Stutters
<1>3. CASE NewFill(l, s)
  <2>1. Abstract!Count(l)
    BY <1>3, FillCounts
  <2> QED  BY <2>1 DEF Abstract!Next
<1>4. CASE NewReversal(l, s)
  <2>1. Abstract!Reverse(l)
    BY <1>4, ReversalReverses
  <2> QED  BY <2>1 DEF Abstract!Next
<1> QED  BY <1>1, <1>2, <1>3, <1>4

LEMMA StepMaps ==
  ASSUME IInv, [Next]_vars
  PROVE  Abstract!Next \/ UNCHANGED Abstract!vars
<1>1. ASSUME NEW l \in Legs, Match(l) \/ \E st \in {"CONFIRMED", "FAILED"} : Settle(l, st)
      PROVE  Abstract!Next
  BY <1>1, ExchangeSteps DEF Abstract!Next
<1>2. ASSUME NEW l \in Legs, NEW s \in StreamSpelling,
             NEW st \in {"MATCHED", "MINED", "RETRYING", "CONFIRMED", "FAILED"},
             Deliver(l, st, s)
      PROVE  Abstract!Next \/ UNCHANGED Abstract!vars
  <2>1. s \in Spelling
    BY SpellingAssumption DEF Spelling
  <2>2. status[l] # "none" /\ (st = "FAILED" => status[l] = "FAILED")
    BY <1>2 DEF Deliver, Emitted, IInv, TypeOK, LegStatus
  <2>3. OnTrade(l, st, s) /\ status' = status
    BY <1>2 DEF Deliver, exchangeVars
  <2> QED  BY <2>1, <2>2, <2>3, TradeMaps
<1>3. ASSUME NEW e \in sync.todo, SyncLeg(e)
      PROVE  Abstract!Next \/ UNCHANGED Abstract!vars
  <2>1. e \in Legs \X LegStatus
    BY DEF IInv, TypeOK
  <2>2. status[e[1]] # "none" /\ (e[2] = "FAILED" => status[e[1]] = "FAILED")
    BY DEF IInv, MemoryInv
  <2>3. OnTrade(e[1], e[2], "canonical") /\ status' = status
    BY <1>3 DEF SyncLeg, exchangeVars
  <2> QED  BY <2>1, <2>2, <2>3, TradeMaps DEF Spelling
<1>4. ASSUME \/ Tick \/ (\E t \in Tokens : ExpireInflight(t))
             \/ (\E full \in BOOLEAN : SyncRead(full)) \/ SyncReadFails \/ SyncPin
             \/ SyncFinish \/ Crash \/ UNCHANGED vars
      PROVE  UNCHANGED Abstract!vars
  <2>1. rows' = rows /\ status' = status
    BY <1>4 DEF Tick, ExpireInflight, SyncRead, SyncReadFails, SyncPin, SyncFinish, Crash,
                vars, exchangeVars, ledgerVars
  <2> QED  BY <2>1, Stutters
<1> QED  BY <1>1, <1>2, <1>3, <1>4 DEF Next

\* The durable ledger is the abstract one: whatever the stream and the trade history
\* deliver, in whatever order, and wherever the process is killed, a leg enters it once,
\* after it was matched, and leaves it once, after it failed.
THEOREM LedgerRefines == Spec => ImplementsAbstractLedger
<1>1. Init => Abstract!Init
  BY InitMaps
<1>2. IInv /\ [Next]_vars => [Abstract!Next]_(Abstract!vars)
  BY StepMaps
<1>3. Spec => []IInv
  BY InductiveInv
<1> QED  BY <1>1, <1>2, <1>3, PTL DEF Spec, ImplementsAbstractLedger, Abstract!Spec

-------------------------------------------------------------------------------
(* The checkpoint *)

Terminal == {"CONFIRMED", "FAILED"}

\* A terminal leg of the snapshot that the sync has been through.
Done(e) ==
  IF e[2] = "CONFIRMED" THEN Counted(e[1]) ELSE Counted(e[1]) => Reversed(e[1])

\* The history tells each leg once, and while the sync applies it everything it told is
\* done, still to be done, or pinned.
SyncInv ==
  /\ \A e, f \in sync.snapshot : e[1] = f[1] => e = f
  /\ sync.pc = "apply" =>
       /\ sync.todo \subseteq sync.snapshot
       /\ \A e \in sync.snapshot :
            IF e[2] \in Terminal THEN e \in sync.todo \/ Done(e)
                                 ELSE Id(e[1], "canonical") \in pending

SettledMeansDone ==
  \A e \in Legs \X LegStatus : e[2] \in Terminal /\ LegSettled(e[1], e[2]) => Done(e)

\* A leg that LegSettled accepts is in the ledger as the exchange settled it: the
\* identities of a leg lead to rows of that leg.
LEMMA SettledIsDone ==
  TypeOK /\ LedgerInv => SettledMeansDone
<1> SUFFICES ASSUME TypeOK, LedgerInv, NEW e \in Legs \X LegStatus, e[2] \in Terminal,
                    LegSettled(e[1], e[2])
             PROVE  Done(e)
  BY DEF SettledMeansDone
<1> DEFINE l == e[1]
<1>0. l \in Legs /\ rows \subseteq FillId /\ identities \subseteq FillId \X FillId
  BY DEF TypeOK
<1>1. \A i \in Claims(l, "canonical") : \E s \in Spelling : i = Id(l, s)
  BY DEF Claims, Spelling
<1>2. \A r \in rows : r.leg = l /\ r.kind = "fill" => Counted(l)
  <2> SUFFICES ASSUME NEW r \in rows, r.leg = l, r.kind = "fill" PROVE Counted(l)
    OBVIOUS
  <2>1. r \in FillId /\ r.spelling \in Spelling
    BY <1>0 DEF FillId
  <2>2. r = Id(l, r.spelling)
    BY <1>0, <2>1, IdType, FillIdEqual
  <2> QED  BY <2>1, <2>2 DEF Counted
<1>3. \A r \in rows : r.leg = l /\ r.kind = "reverse" => Reversed(l)
  <2> SUFFICES ASSUME NEW r \in rows, r.leg = l, r.kind = "reverse" PROVE Reversed(l)
    OBVIOUS
  <2>1. r \in FillId /\ r.spelling \in Spelling
    BY <1>0 DEF FillId
  <2>2. r = ReverseOf(Id(l, r.spelling))
    BY <1>0, <2>1, IdType, FillIdEqual
  <2> QED  BY <2>1, <2>2 DEF Reversed
<1>4. CASE e[2] = "CONFIRMED"
  <2>1. FillIdentityMatches(l, "canonical")
    BY <1>4 DEF LegSettled
  <2>2. Counted(l)
    BY <1>2, <2>1 DEF FillIdentityMatches
  <2> QED  BY <1>4, <2>2 DEF Done
<1>5. CASE e[2] = "FAILED"
  <2>1. FillFailureSettled(l, "canonical")
    BY <1>5 DEF LegSettled
  <2>2. ASSUME Counted(l) PROVE Reversed(l)
    <3>1. PICK s \in Spelling : Id(l, s) \in rows
      BY <2>2 DEF Counted
    <3>2. Id(l, s) \in Claims(l, "canonical")
      BY DEF Claims, Spelling
    <3>3. IdentityFills(Claims(l, "canonical")) # {}
      BY <3>1, <3>2 DEF IdentityFills
    <3>4. PICK r \in IdentityFills(Claims(l, "canonical")), q \in rows :
            /\ r.leg = l
            /\ IdentityFills({ReverseOf(i) : i \in {r} \union Claims(l, "canonical")}) = {q}
      BY <2>1, <3>3 DEF FillFailureSettled
    <3>5. r \in FillId /\ r.leg = l
      BY <1>0, <3>4 DEF IdentityFills
    <3>6. \A i \in {r} \union Claims(l, "canonical") :
            ReverseOf(i).leg = l /\ ReverseOf(i).kind = "reverse"
      <4> SUFFICES ASSUME NEW i \in {r} \union Claims(l, "canonical")
                   PROVE  ReverseOf(i).leg = l /\ ReverseOf(i).kind = "reverse"
        OBVIOUS
      <4>1. i \in FillId /\ i.leg = l
        BY <1>0, <3>5, IdType DEF Spelling
      <4> QED  BY <4>1 DEF ReverseOf, FillId
    <3>7. q.leg = l /\ q.kind = "reverse"
      <4>1. q \in IdentityFills({ReverseOf(i) : i \in {r} \union Claims(l, "canonical")})
        BY <3>4
      <4>2. CASE q \in {ReverseOf(i) : i \in {r} \union Claims(l, "canonical")}
        BY <3>6, <4>2
      <4>3. CASE \E b \in identities :
                   b[1] \in {ReverseOf(i) : i \in {r} \union Claims(l, "canonical")} /\ b[2] = q
        BY <3>6, <4>3 DEF LedgerInv, IdentityInv
      <4> QED  BY <4>1, <4>2, <4>3 DEF IdentityFills
    <3> QED  BY <1>3, <3>7
  <2> QED  BY <1>5, <2>2 DEF Done
<1> QED  BY <1>4, <1>5 DEF Terminal

\* What a message adds to the rows is of its own leg.
LEMMA OtherLegsStay ==
  ASSUME IInv, NEW l \in Legs, NEW s \in Spelling, NEW st,
         st = "FAILED" => status[l] = "FAILED", OnTrade(l, st, s)
  PROVE  \A k \in Legs \ {l}, t \in Spelling :
           /\ Id(k, t) \in rows' <=> Id(k, t) \in rows
           /\ ReverseOf(Id(k, t)) \in rows' <=> ReverseOf(Id(k, t)) \in rows
<1>1. rows' = rows \/ rows' = rows \union {Id(l, s)} \/ rows' = rows \union {ReverseOf(Id(l, s))}
  BY TradeAddsOneRow DEF NewFill, NewReversal
<1>2. \A k \in Legs, t \in Spelling : Id(k, t).leg = k /\ ReverseOf(Id(k, t)).leg = k
  BY IdType
<1> QED  BY <1>1, <1>2

\* Handlers that run while no leg is applied, and steps that leave sync, rows and pins.
LEMMA SyncFrame ==
  ASSUME SyncInv, sync' = sync, rows' = rows \/ sync.pc # "apply", pending' = pending
  PROVE  SyncInv'
<1>1. CASE rows' = rows
  BY <1>1 DEF SyncInv, Done, Counted, Reversed
<1>2. CASE sync.pc # "apply"
  BY <1>2 DEF SyncInv
<1> QED  BY <1>1, <1>2

LEMMA StepKeepsSync ==
  ASSUME IInv, IInv', SyncInv, [Next]_vars
  PROVE  SyncInv'
<1>0. sync.snapshot \subseteq Legs \X LegStatus /\ sync.todo \subseteq Legs \X LegStatus
  BY DEF IInv, TypeOK
<1>1. ASSUME \/ Tick \/ (\E l \in Legs : Match(l)) \/ (\E t \in Tokens : ExpireInflight(t))
             \/ (\E l \in Legs, st \in {"CONFIRMED", "FAILED"} : Settle(l, st))
             \/ UNCHANGED vars
      PROVE  SyncInv'
  <2>1. sync' = sync /\ rows' = rows /\ pending' = pending
    BY <1>1 DEF Tick, Match, Settle, ExpireInflight, vars, ledgerVars, windowVars
  <2> QED  BY <2>1, SyncFrame
<1>2. ASSUME NEW l \in Legs, NEW s \in StreamSpelling,
             NEW st \in {"MATCHED", "MINED", "RETRYING", "CONFIRMED", "FAILED"},
             Deliver(l, st, s)
      PROVE  SyncInv'
  <2>1. sync' = sync /\ sync.pc # "apply" /\ pending' = pending
    BY <1>2 DEF Deliver, windowVars
  <2> QED  BY <2>1, SyncFrame
<1>3. CASE \E full \in BOOLEAN : SyncRead(full)
  <2>1. PICK full \in BOOLEAN : SyncRead(full)
    BY <1>3
  <2> DEFINE told == {k \in Legs : status[k] # "none" /\ matchedAt[k] >= After(full)}
  <2>2. sync'.snapshot = {<<l, status[l]>> : l \in told} /\ sync'.pc = "read"
    BY <2>1 DEF SyncRead
  <2> HIDE DEF told
  <2> QED  BY <2>2 DEF SyncInv
<1>4. CASE SyncReadFails \/ SyncFinish \/ Crash
  <2>1. sync'.snapshot = {} /\ sync'.pc = "idle"
    BY <1>4 DEF SyncReadFails, SyncFinish, Crash, NoSync
  <2> QED  BY <2>1 DEF SyncInv
<1>5. CASE SyncPin
  <2>1. /\ sync'.snapshot = sync.snapshot
        /\ sync'.todo = {e \in sync.snapshot : e[2] \in {"CONFIRMED", "FAILED"}}
        /\ pending' = pending \union {Id(e[1], "canonical") : e \in sync.snapshot}
    BY <1>5 DEF SyncPin, IInv, TypeOK
  <2> QED  BY <2>1 DEF SyncInv, Terminal
<1>6. ASSUME NEW e \in sync.todo, SyncLeg(e)
      PROVE  SyncInv'
  <2>1. CASE sync' = NoSync
    BY <2>1 DEF SyncInv, NoSync
  <2>2. CASE LegSettled(e[1], e[2])' /\ sync' = [sync EXCEPT !.todo = @ \ {e}]
    <3>1. sync'.snapshot = sync.snapshot /\ sync'.todo = sync.todo \ {e} /\ sync.pc = "apply"
          /\ sync'.pc = "apply" /\ pending' = pending
      BY <1>6, <2>2 DEF SyncLeg, IInv, TypeOK, windowVars
    <3>2. e \in Legs \X LegStatus /\ e[1] \in Legs /\ e \in sync.snapshot
          /\ (e[2] = "FAILED" => status[e[1]] = "FAILED")
      BY <1>0, <3>1 DEF SyncInv, IInv, MemoryInv
    <3>3. ASSUME NEW f \in sync.snapshot, f[2] \in Terminal
          PROVE  f \in sync'.todo \/ Done(f)'
      <4>1. CASE f = e
        <5>1. Done(e)'
          <6>1. e[2] \in Terminal /\ TypeOK' /\ LedgerInv'
            BY <3>3, <4>1 DEF IInv
          <6>2. TypeOK' /\ LedgerInv' => SettledMeansDone'
            BY SettledIsDone, PTL
          <6> QED  BY <2>2, <3>2, <6>1, <6>2 DEF SettledMeansDone
        <5> QED  BY <4>1, <5>1
      <4>2. CASE f # e /\ f \notin sync.todo
        <5>1. Done(f) /\ f[1] # e[1] /\ f[1] \in Legs
          BY <1>0, <3>1, <3>2, <3>3, <4>2 DEF SyncInv
        <5>2. OnTrade(e[1], e[2], "canonical") /\ "canonical" \in Spelling
          BY <1>6 DEF SyncLeg, Spelling
        <5>3. Counted(f[1])' = Counted(f[1]) /\ Reversed(f[1])' = Reversed(f[1])
          <6>1. \A t \in Spelling :
                  /\ Id(f[1], t) \in rows' <=> Id(f[1], t) \in rows
                  /\ ReverseOf(Id(f[1], t)) \in rows' <=> ReverseOf(Id(f[1], t)) \in rows
            BY <3>2, <5>1, <5>2, OtherLegsStay
          <6> QED  BY <6>1 DEF Counted, Reversed
        <5> QED  BY <5>1, <5>3 DEF Done
      <4> QED  BY <3>1, <4>1, <4>2
    <3> QED  BY <3>1, <3>3 DEF SyncInv
  <2> QED  BY <1>6, <2>1, <2>2 DEF SyncLeg
<1> QED  BY <1>1, <1>2, <1>3, <1>4, <1>5, <1>6 DEF Next

\* Only the end of a sync moves the checkpoint or drops a pin.
LEMMA FinishSettles ==
  ASSUME IInv, SyncInv, SyncFinish, NEW e \in sync.snapshot
  PROVE  CASE e[2] = "CONFIRMED" -> Counted(e[1])' /\ ~Reversed(e[1])'
           [] e[2] = "FAILED" -> (Counted(e[1]) => Reversed(e[1]))'
           [] OTHER -> Id(e[1], "canonical") \in pending'
<1>0. e \in Legs \X LegStatus /\ e[1] \in Legs
  BY DEF IInv, TypeOK
<1>1. sync.pc = "apply" /\ sync.todo = {} /\ pending' = Unsettled /\ rows' = rows
  BY DEF SyncFinish, ledgerVars
<1>2. Counted(e[1])' = Counted(e[1]) /\ Reversed(e[1])' = Reversed(e[1])
  BY <1>1 DEF Counted, Reversed
<1>3. CASE e[2] = "CONFIRMED"
  <2>1. Counted(e[1])
    BY <1>1, <1>3 DEF SyncInv, Done, Terminal
  <2>2. status[e[1]] = "CONFIRMED"
    BY <1>3 DEF IInv, MemoryInv
  <2>3. ~Reversed(e[1])
    <3> SUFFICES ASSUME NEW s \in Spelling, ReverseOf(Id(e[1], s)) \in rows PROVE FALSE
      BY DEF Reversed
    <3>1. ReverseOf(Id(e[1], s)).kind = "reverse" /\ ReverseOf(Id(e[1], s)).leg = e[1]
      BY <1>0, IdType
    <3> QED  BY <2>2, <3>1 DEF IInv, LedgerInv, ReversalJustified
  <2> QED  BY <1>2, <1>3, <2>1, <2>3
<1>4. CASE e[2] = "FAILED"
  <2>1. Counted(e[1]) => Reversed(e[1])
    BY <1>1, <1>4 DEF SyncInv, Done, Terminal
  <2> QED  BY <1>2, <1>4, <2>1
<1>5. CASE e[2] \notin Terminal
  <2>1. Id(e[1], "canonical") \in pending
    BY <1>1, <1>5 DEF SyncInv
  <2>2. ASSUME NEW f \in sync.snapshot, f[2] \in {"CONFIRMED", "FAILED"}
        PROVE  Id(e[1], "canonical") \notin Claims(f[1], "canonical")
    <3>1. f[1] # e[1] /\ f[1] \in Legs
      BY <1>5, <2>2 DEF SyncInv, Terminal, IInv, TypeOK
    <3>2. Id(e[1], "canonical").leg = e[1] /\ \A i \in Claims(f[1], "canonical") : i.leg = f[1]
      BY <1>0, <3>1, IdType DEF Spelling
    <3> QED  BY <3>1, <3>2
  <2>3. Id(e[1], "canonical") \in pending'
    BY <1>1, <2>1, <2>2 DEF Unsettled
  <2> QED  BY <1>5, <2>3 DEF Terminal
<1> QED  BY <1>3, <1>4, <1>5 DEF Terminal

LEMMA OnlyFinishMoves ==
  ASSUME [Next]_vars, checkpoint' # checkpoint \/ ~(pending \subseteq pending')
  PROVE  SyncFinish
  BY DEF Next, vars, windowVars, Tick, Match, Settle, Deliver, ExpireInflight, SyncRead,
     SyncReadFails, SyncPin, SyncLeg, Crash

\* A sync that moves the checkpoint or drops a pin leaves every leg it was shown settled
\* on disk as the exchange settled it, or pinned (_sync_confirmed_trades).
THEOREM CheckpointIsSafe == Spec => CheckpointSettles
<1>1. Init => SyncInv
  BY DEF Init, SyncInv, NoSync
<1>2. IInv /\ IInv' /\ SyncInv /\ [Next]_vars => SyncInv'
  BY StepKeepsSync
<1>3. IInv /\ SyncInv /\ [Next]_vars =>
        [checkpoint' # checkpoint \/ ~(pending \subseteq pending') =>
           \A e \in sync.snapshot :
             CASE e[2] = "CONFIRMED" -> Counted(e[1])' /\ ~Reversed(e[1])'
               [] e[2] = "FAILED" -> (Counted(e[1]) => Reversed(e[1]))'
               [] OTHER -> Id(e[1], "canonical") \in pending']_vars
  BY OnlyFinishMoves, FinishSettles
<1> QED  BY <1>1, <1>2, <1>3, InductiveInv, PTL DEF Spec, CheckpointSettles

===============================================================================
