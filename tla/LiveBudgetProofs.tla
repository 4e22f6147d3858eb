-------------------------- MODULE LiveBudgetProofs --------------------------
(***************************************************************************)
(* The Live-AI budget for any number of processes, sessions, turns, calls, *)
(* counters and days, whatever store operation fails or loses its reply.   *)
(***************************************************************************)
EXTENDS LiveBudget, SumsProofs

-----------------------------------------------------------------------------
(* Money. *)

\* What an envelope sets aside.
LEMMA MoneyIsNat == Money \in Nat
BY LiveBudgetAssumption DEF Money

\* What a reconciliation charges is part of it.
LEMMA ClampWithin == ASSUME NEW n \in Int PROVE Clamp(n) \in 0 .. Money
BY MoneyIsNat DEF Clamp

\* The calls and the turns of a set are finitely many.
LEMMA FiniteParts ==
  /\ \A S \in SUBSET Call : IsFiniteSet(S)
  /\ \A S \in SUBSET Turn : IsFiniteSet(S)
BY LiveBudgetAssumption, FS_Subset

-----------------------------------------------------------------------------
(* Types.  That the counters and the provider's bill never fall below zero   *)
(* needs the accounting of the next sections.                                *)

LiveTypes ==
  /\ RowTypes /\ MemoryTypes
  /\ held \in [Counter -> Int] /\ charged \in [Counter -> Int]
  /\ spent \in [Turn -> Int]

\* The initial rows, leases and phases are well formed.
LEMMA InitTypes == Init => LiveTypes
BY LiveBudgetAssumption, MoneyIsNat
   DEF Init, LiveTypes, RowTypes, MemoryTypes, Envelopes, Rows, Leases, Phases

\* What an unsettled or settled child is charged when a lease is hydrated.
LEMMA ChargeOfType ==
  ASSUME RowTypes, NEW c \in Call
  PROVE  ChargeOf(c) \in 0 .. Worst
BY LiveBudgetAssumption DEF ChargeOf, RowTypes, Rows

\* A lease taken from the durable rows is a lease.
LEMMA HydratedType ==
  ASSUME RowTypes, NEW t \in Turn
  PROVE  Hydrated(t) \in Leases
<1> DEFINE paid == SumFunctionOnSet([c \in Call |-> ChargeOf(c)], Children(t))
           entries == [c \in Call |->
             IF c \in Children(t)
             THEN [state |-> "terminal", flushed |-> TRUE, settleFlushed |-> TRUE,
                   charged |-> ChargeOf(c), over |-> FALSE]
             ELSE NoEntry]
           revoked == \E c \in Children(t) : child[c].state = "revoked"
<1>1. paid \in Int
  <2>1. Children(t) \subseteq Call /\ IsFiniteSet(Children(t))
    BY FiniteParts DEF Children
  <2>2. \A c \in Children(t) : [x \in Call |-> ChargeOf(x)][c] \in Int
    BY <2>1, ChargeOfType
  <2> QED BY <2>1, <2>2, SumIsNumber
<1>2. entries \in [Call -> Entries]
  BY ChargeOfType, LiveBudgetAssumption DEF Entries, NoEntry
<1>3. revoked \in BOOLEAN
  OBVIOUS
<1>4. Hydrated(t) = [turn |-> t, revoked |-> revoked,
                     free |-> IF paid =< Money THEN Money - paid ELSE 0,
                     open |-> 0, charged |-> paid, entry |-> entries]
  BY DEF Hydrated
<1> HIDE DEF paid, entries, revoked
<1> QED BY <1>1, <1>2, <1>3, <1>4, MoneyIsNat DEF Leases

\* Replacing one lease, or one entry of a lease, keeps the types.
LEMMA OneLease ==
  ASSUME MemoryTypes, NEW b \in Boot, NEW s, NEW x \in Leases \cup {None}
  PROVE  [lease EXCEPT ![b][s] = x] \in [Boot -> [Session -> Leases \cup {None}]]
<1> DEFINE T == Leases \cup {None}
<1>1. lease \in [Boot -> [Session -> T]] /\ x \in T
  BY DEF MemoryTypes
<1> HIDE DEF T
<1>2. [lease EXCEPT ![b][s] = x] \in [Boot -> [Session -> T]]
  BY <1>1
<1> QED BY <1>2 DEF T

\* A lease with one entry replaced.
LEMMA OneEntry ==
  ASSUME NEW l \in Leases, NEW c \in Call, NEW e \in Entries
  PROVE  [l EXCEPT !.entry[c] = e] \in Leases
<1>1. [l.entry EXCEPT ![c] = e] \in [Call -> Entries]
  BY DEF Leases
<1> QED BY <1>1 DEF Leases

\* What an entry may become.
LEMMA EntryFields ==
  ASSUME NEW e \in Entries, NEW f \in BOOLEAN, NEW k \in BOOLEAN
  PROVE  /\ [e EXCEPT !.state = "live"] \in Entries
         /\ [e EXCEPT !.flushed = f] \in Entries
         /\ [e EXCEPT !.flushed = f, !.settleFlushed = k] \in Entries
BY DEF Entries

\* An entry that a call settles.
LEMMA EntrySettled ==
  ASSUME NEW e \in Entries, NEW cost \in 0 .. Worst, NEW over \in BOOLEAN
  PROVE  [e EXCEPT !.state = "settled", !.charged = cost, !.over = over] \in Entries
BY DEF Entries

\* A lease that is revoked, or not.
LEMMA LeaseRevoked ==
  ASSUME NEW l \in Leases, NEW r \in BOOLEAN
  PROVE  [l EXCEPT !.revoked = r] \in Leases
BY DEF Leases

\* An envelope that is closed.
LEMMA EnvelopeClosed ==
  ASSUME NEW e \in Envelopes, NEW state \in {"reconciled", "forfeited"}, NEW n \in 0 .. Money
  PROVE  [e EXCEPT !.state = state, !.charged = n] \in Envelopes
BY DEF Envelopes

\* Settling a call in a lease leaves a lease.
LEMMA SettledType ==
  ASSUME NEW l \in Leases \cup {None}, NEW c \in Call, NEW cost \in 0 .. Worst,
         NEW over \in BOOLEAN
  PROVE  Settled(l, c, cost, over) \in Leases \cup {None}
<1>1. CASE l = None \/ ~HasEntry(l, c) \/ l.entry[c].state # "live"
  BY <1>1 DEF Settled
<1>2. CASE l # None /\ HasEntry(l, c) /\ l.entry[c].state = "live"
  <2>1. l \in Leases
    BY <1>2
  <2>2. l.open - Worst \in Int /\ l.charged + cost \in Int /\ l.free + (Worst - cost) \in Int
    BY <2>1, LiveBudgetAssumption DEF Leases
  <2>3. [l.entry[c] EXCEPT !.state = "settled", !.charged = cost, !.over = over] \in Entries
    <3>1. l.entry[c] \in Entries
      BY <2>1 DEF Leases
    <3> QED BY <3>1, EntrySettled
  <2>4. (l.revoked \/ over) \in BOOLEAN
    BY <2>1 DEF Leases
  <2> QED BY <1>2, <2>1, <2>2, <2>3, <2>4 DEF Settled, Leases
<1> QED BY <1>1, <1>2

\* A revocation leaves an envelope row.
LEMMA EnvelopeRevoked ==
  ASSUME RowTypes, NEW t, NEW v \in BOOLEAN,
         env' = [env EXCEPT ![t].revoked = @ \/ v]
  PROVE  env' \in [Turn -> Envelopes]
<1>1. \A u \in Turn : [env[u] EXCEPT !.revoked = env[u].revoked \/ v] \in Envelopes
  <2> TAKE u \in Turn
  <2>1. env[u] \in Envelopes /\ (env[u].revoked \/ v) \in BOOLEAN
    BY DEF RowTypes, Envelopes
  <2> QED BY <2>1 DEF Envelopes
<1> QED BY <1>1 DEF RowTypes

\* What the second barrier writes: the child row or its settlement, a revocation,
\* and what the lease knows of both.
SettlementWrites(b, c, row, v, r, f, k) ==
  LET l == LeaseOf(b, c) IN
  /\ \/ child' = [child EXCEPT ![c] = row]
     \/ /\ l.entry[c].state = "settled"
        /\ child' = [child EXCEPT ![c] = SettledRow(row, l.entry[c])]
  /\ env' = [env EXCEPT ![l.turn].revoked = @ \/ v]
  /\ lease' = [lease EXCEPT ![b][SessionOf[c]] =
       [l EXCEPT !.revoked = @ \/ r, !.entry[c].flushed = f, !.entry[c].settleFlushed = k]]

\* In whatever way its calls end, the second barrier writes nothing else.
LEMMA SettlementShape ==
  ASSUME LiveTypes, NEW b \in Boot, NEW c \in Call, PersistSettlement(b, c),
         HasEntry(LeaseOf(b, c), c)
  PROVE  \E row \in {child[c], Recorded(LeaseOf(b, c).turn, c)}, v \in BOOLEAN,
            r \in BOOLEAN, f \in BOOLEAN, k \in BOOLEAN :
              SettlementWrites(b, c, row, v, r, f, k)
<1> DEFINE l == LeaseOf(b, c)
           e == l.entry[c]
           recorded(r) == child[c].state # "none" \/ (~e.flushed /\ r # "failed")
           flushed(r) == e.flushed \/ r = "ok"
           settles(r) == e.state = "settled" /\ ~e.settleFlushed /\ recorded(r)
           row(r) == IF recorded(r) THEN Recorded(l.turn, c) ELSE child[c]
           settleOK(r, s) == e.settleFlushed \/ (settles(r) /\ s = "ok")
           ok(r, s, v) == /\ flushed(r)
                          /\ e.state = "settled" => settleOK(r, s)
                          /\ l.revoked => v = "ok"
<1>1. PICK r \in Outcome("record"), s \in Outcome("settle"), v \in Outcome("revoke") :
        /\ (e.flushed => r = "ok") /\ (~settles(r) => s = "ok") /\ (~l.revoked => v = "ok")
        /\ child' = [child EXCEPT ![c] =
              IF settles(r) /\ s # "failed" THEN SettledRow(row(r), e) ELSE row(r)]
        /\ env' = [env EXCEPT ![l.turn].revoked = @ \/ (l.revoked /\ v # "failed")]
        /\ lease' = [lease EXCEPT ![b][SessionOf[c]] =
              [l EXCEPT !.revoked = @ \/ ~ok(r, s, v), !.entry[c].flushed = flushed(r),
                        !.entry[c].settleFlushed = settleOK(r, s)]]
  BY Zenon DEF PersistSettlement
<1>2. l \in Leases /\ e \in Entries
  BY LiveBudgetAssumption DEF LeaseOf, HasEntry, LiveTypes, MemoryTypes, Leases
<1>3. /\ (l.revoked /\ v # "failed") \in BOOLEAN
      /\ (~ok(r, s, v)) \in BOOLEAN
      /\ flushed(r) \in BOOLEAN /\ settleOK(r, s) \in BOOLEAN
  BY <1>2 DEF Leases, Entries
<1>4. row(r) \in {child[c], Recorded(l.turn, c)} /\ (settles(r) => e.state = "settled")
  OBVIOUS
<1> HIDE DEF recorded, flushed, settles, row, settleOK, ok
<1>5. \/ child' = [child EXCEPT ![c] = row(r)]
      \/ e.state = "settled" /\ child' = [child EXCEPT ![c] = SettledRow(row(r), e)]
  BY <1>1, <1>4
<1>6. SettlementWrites(b, c, row(r), l.revoked /\ v # "failed", ~ok(r, s, v), flushed(r), settleOK(r, s))
  BY <1>1, <1>5, Zenon DEF SettlementWrites
<1> QED BY <1>3, <1>4, <1>6, Zenon

\* Every step of a process, of the store or of time keeps the types.
LEMMA TypesStep == LiveTypes /\ [Next]_vars => LiveTypes'
<1> SUFFICES ASSUME LiveTypes, [Next]_vars PROVE LiveTypes'
  OBVIOUS
<1> USE LiveBudgetAssumption, MoneyIsNat DEF LiveTypes
<1>1. ASSUME NEW b \in Boot, NEW t \in Turn, PrepareBegin(b, t) PROVE LiveTypes'
  BY <1>1 DEF PrepareBegin, durable, RowTypes, MemoryTypes
<1>2. ASSUME NEW b \in Boot, NEW t \in Turn, PrepareFresh(b, t) PROVE LiveTypes'
  <2>1. env' \in [Turn -> Envelopes] /\ held' \in [Counter -> Int]
    BY <1>2 DEF PrepareFresh, Hold, RowTypes, Envelopes
  <2>2. lease' \in [Boot -> [Session -> Leases \cup {None}]]
    <3>1. [lease EXCEPT ![b][SessionOf[t]] = Hydrated(t)] \in [Boot -> [Session -> Leases \cup {None}]]
      BY HydratedType, OneLease
    <3> QED BY <1>2, <3>1 DEF PrepareFresh, Install, MemoryTypes
  <2> QED BY <1>2, <2>1, <2>2 DEF PrepareFresh, RowTypes, MemoryTypes
<1>3. ASSUME NEW b \in Boot, NEW t \in Turn, PrepareReplay(b, t) PROVE LiveTypes'
  <2>1. lease' \in [Boot -> [Session -> Leases \cup {None}]]
    BY <1>3, HydratedType DEF PrepareReplay, Install, MemoryTypes
  <2> QED BY <1>3, <2>1 DEF PrepareReplay, durable, RowTypes, MemoryTypes
<1>4. ASSUME NEW b \in Boot, NEW t \in Turn, PrepareRefused(b, t) PROVE LiveTypes'
  BY <1>4 DEF PrepareRefused, durable, RowTypes, MemoryTypes
<1>5. ASSUME NEW b \in Boot, NEW c \in Call, Reserve(b, c) PROVE LiveTypes'
  <2> DEFINE l == LeaseOf(b, c)
             new == [l EXCEPT !.free = @ - Worst, !.open = @ + Worst, !.entry[c].state = "live"]
  <2>1. l \in Leases
    BY <1>5 DEF Reserve, LeaseOf, MemoryTypes
  <2>2. new \in Leases
    <3> DEFINE e == [l.entry[c] EXCEPT !.state = "live"]
               m == [l EXCEPT !.entry[c] = e]
    <3>1. m \in Leases
      BY <2>1, OneEntry, EntryFields DEF Leases
    <3>2. l.free - Worst \in Int /\ l.open + Worst \in Int
      BY <2>1 DEF Leases
    <3>3. new = [m EXCEPT !.free = l.free - Worst, !.open = l.open + Worst]
      BY <2>1 DEF Leases
    <3> HIDE DEF m, new
    <3> QED BY <3>1, <3>2, <3>3 DEF Leases
  <2>3. lease' = [lease EXCEPT ![b][SessionOf[c]] = new]
    BY <1>5 DEF Reserve
  <2>4. lease' \in [Boot -> [Session -> Leases \cup {None}]]
    BY <2>2, <2>3 DEF MemoryTypes
  <2> QED BY <1>5, <2>4 DEF Reserve, durable, RowTypes, MemoryTypes, Phases
<1>6. ASSUME NEW b \in Boot, NEW c \in Call, Persist(b, c) PROVE LiveTypes'
  <2> DEFINE l == LeaseOf(b, c)
  <2>1. child' \in [Call -> Rows] /\ lease' \in [Boot -> [Session -> Leases \cup {None}]]
    <3>1. CASE UNCHANGED <<child, lease>>
      BY <3>1 DEF RowTypes, MemoryTypes
    <3>2. CASE HasEntry(l, c)
      <4>1. l \in Leases /\ l.turn \in Turn /\ l.entry \in [Call -> Entries]
        BY <3>2 DEF LeaseOf, MemoryTypes, HasEntry, Leases
      <4>2. [l EXCEPT !.entry[c].flushed = TRUE] \in Leases
        BY <4>1, OneEntry, EntryFields
      <4>3. Recorded(l.turn, c) \in Rows
        BY <4>1 DEF Recorded, RowTypes, Rows
      <4>4. child' = child \/ child' = [child EXCEPT ![c] = Recorded(l.turn, c)]
        BY <1>6, <3>2 DEF Persist
      <4>5. lease' = lease \/ lease' = [lease EXCEPT ![b][SessionOf[c]].entry[c].flushed = TRUE]
        BY <1>6, <3>2 DEF Persist
      <4>6. [lease EXCEPT ![b][SessionOf[c]].entry[c].flushed = TRUE]
              = [lease EXCEPT ![b][SessionOf[c]] = [l EXCEPT !.entry[c].flushed = TRUE]]
        BY DEF LeaseOf, MemoryTypes
      <4>7. child' \in [Call -> Rows]
        BY <4>3, <4>4 DEF RowTypes
      <4>8. lease' \in [Boot -> [Session -> Leases \cup {None}]]
        <5>1. [lease EXCEPT ![b][SessionOf[c]] = [l EXCEPT !.entry[c].flushed = TRUE]]
                \in [Boot -> [Session -> Leases \cup {None}]]
          BY <4>2, OneLease
        <5> QED BY <4>5, <4>6, <5>1 DEF MemoryTypes
      <4> QED BY <4>7, <4>8
    <3> QED BY <1>6, <3>1, <3>2 DEF Persist
  <2>2. phase' \in [Call -> Phases]
    <3>1. PICK a \in {"persisted", "refused"} : phase' = [phase EXCEPT ![c].at = a]
      BY <1>6 DEF Persist
    <3>2. phase[c].boot \in Boot \cup {None} /\ phase \in [Call -> Phases]
      BY DEF MemoryTypes, Phases
    <3>3. [phase[c] EXCEPT !.at = a] \in Phases
      BY <3>2 DEF Phases
    <3> QED BY <3>1, <3>2, <3>3
  <2> QED BY <1>6, <2>1, <2>2 DEF Persist, RowTypes, MemoryTypes
<1>7. ASSUME NEW b \in Boot, NEW c \in Call, Stop(b, c) PROVE LiveTypes'
  BY <1>7 DEF Stop, durable, RowTypes, MemoryTypes, Phases
<1>8. ASSUME NEW b \in Boot, NEW c \in Call, Invoke(b, c) PROVE LiveTypes'
  <2>1. spent' \in [Turn -> Int]
    <3>1. \A t \in Turn : spent[t] + Worst \in Int
      OBVIOUS
    <3>2. spent' = [spent EXCEPT ![child[c].env] = @ + Worst]
      BY <1>8 DEF Invoke
    <3> QED BY <3>1, <3>2
  <2>2. phase' \in [Call -> Phases]
    BY <1>8 DEF Invoke, MemoryTypes, Phases
  <2> QED BY <1>8, <2>1, <2>2 DEF Invoke, durable, RowTypes, MemoryTypes
<1>9. ASSUME NEW b \in Boot, NEW c \in Call, Answered(b, c) PROVE LiveTypes'
  <2>1. /\ spent' \in [Turn -> Int]
        /\ \E cost \in 0 .. Worst, over \in BOOLEAN :
             lease' = [lease EXCEPT ![b][SessionOf[c]] = Settled(LeaseOf(b, c), c, cost, over)]
    <3>1. CASE phase[c].at = "refused"
      <4>1. Worst \in 0 .. Worst /\ FALSE \in BOOLEAN
        OBVIOUS
      <4> QED BY <1>9, <3>1, <4>1 DEF Answered, Install
    <3>2. CASE phase[c].at = "calling"
      BY <1>9, <3>2 DEF Answered, Install
    <3> QED BY <1>9, <3>1, <3>2 DEF Answered
  <2>2. LeaseOf(b, c) \in Leases \cup {None}
    BY DEF LeaseOf, MemoryTypes
  <2>3. lease' \in [Boot -> [Session -> Leases \cup {None}]]
    <3>1. PICK cost \in 0 .. Worst, over \in BOOLEAN :
            lease' = [lease EXCEPT ![b][SessionOf[c]] = Settled(LeaseOf(b, c), c, cost, over)]
      BY <2>1
    <3>2. Settled(LeaseOf(b, c), c, cost, over) \in Leases \cup {None}
      BY <2>2, SettledType
    <3> QED BY <3>1, <3>2, OneLease
  <2>4. phase' \in [Call -> Phases]
    BY <1>9 DEF Answered, MemoryTypes, Phases
  <2> QED BY <1>9, <2>1, <2>3, <2>4 DEF Answered, durable, RowTypes, MemoryTypes
<1>10. ASSUME NEW b \in Boot, NEW c \in Call, PersistSettlement(b, c) PROVE LiveTypes'
  <2> DEFINE l == LeaseOf(b, c)
  <2>1. /\ env' \in [Turn -> Envelopes] /\ child' \in [Call -> Rows]
        /\ lease' \in [Boot -> [Session -> Leases \cup {None}]]
    <3>1. CASE ~HasEntry(l, c)
      BY <1>10, <3>1 DEF PersistSettlement, Over, RowTypes, MemoryTypes, Phases
    <3>2. CASE HasEntry(l, c)
      <4>1. l \in Leases /\ l.turn \in Turn /\ l.entry \in [Call -> Entries]
        BY <3>2 DEF LeaseOf, MemoryTypes, HasEntry, Leases
      <4>2. PICK row \in {child[c], Recorded(l.turn, c)}, v \in BOOLEAN,
                 r \in BOOLEAN, f \in BOOLEAN, k \in BOOLEAN :
              SettlementWrites(b, c, row, v, r, f, k)
        BY <1>10, <3>2, <4>1, SettlementShape
      <4>3. row \in Rows
        BY <4>1, <4>2 DEF Recorded, RowTypes, Rows
      <4>4. SettledRow(row, l.entry[c]) \in Rows
        BY <4>1, <4>3 DEF SettledRow, Rows, Entries
      <4>5. [l EXCEPT !.revoked = @ \/ r, !.entry[c].flushed = f,
                      !.entry[c].settleFlushed = k] \in Leases
        <5> DEFINE m == [l EXCEPT !.entry[c] = [l.entry[c] EXCEPT !.flushed = f, !.settleFlushed = k]]
        <5>1. m \in Leases
          BY <4>1, OneEntry, EntryFields
        <5>2. [l EXCEPT !.revoked = @ \/ r, !.entry[c].flushed = f, !.entry[c].settleFlushed = k]
                = [m EXCEPT !.revoked = l.revoked \/ r]
          BY <4>1 DEF Leases, Entries
        <5>3. (l.revoked \/ r) \in BOOLEAN
          BY <4>1 DEF Leases
        <5> HIDE DEF m
        <5> QED BY <5>1, <5>2, <5>3, LeaseRevoked
      <4>6. child' \in [Call -> Rows]
        BY <4>2, <4>3, <4>4 DEF RowTypes, SettlementWrites
      <4>7. lease' \in [Boot -> [Session -> Leases \cup {None}]]
        BY <4>2, <4>5, OneLease DEF SettlementWrites
      <4>8. env' \in [Turn -> Envelopes]
        BY <4>1, <4>2, EnvelopeRevoked DEF SettlementWrites
      <4> QED BY <4>6, <4>7, <4>8
    <3> QED BY <3>1, <3>2
  <2> QED BY <1>10, <2>1 DEF PersistSettlement, Over, RowTypes, MemoryTypes, Phases
<1>11. ASSUME NEW b \in Boot, NEW s \in Session, Revoke(b, s) PROVE LiveTypes'
  <2>1. lease[b][s] \in Leases
    BY <1>11 DEF Revoke, MemoryTypes
  <2>2. [lease[b][s] EXCEPT !.revoked = TRUE] \in Leases
    BY <2>1 DEF Leases
  <2>3. lease' = [lease EXCEPT ![b][s] = [lease[b][s] EXCEPT !.revoked = TRUE]]
    BY <1>11 DEF Revoke, MemoryTypes
  <2>4. PICK v \in BOOLEAN : env' = [env EXCEPT ![lease[b][s].turn].revoked = @ \/ v]
    BY <1>11 DEF Revoke
  <2>5. lease' \in [Boot -> [Session -> Leases \cup {None}]] /\ env' \in [Turn -> Envelopes]
    BY <2>1, <2>2, <2>3, <2>4, OneLease, EnvelopeRevoked DEF Leases
  <2> QED BY <1>11, <2>5 DEF Revoke, RowTypes, MemoryTypes
<1>12. ASSUME NEW b \in Boot, NEW s \in Session, NEW crash \in BOOLEAN,
              ReconcileBegin(b, s, crash)
       PROVE  LiveTypes'
  <2>1. lease[b][s] \in Leases
    BY <1>12 DEF ReconcileBegin, MemoryTypes
  <2>2. [boot |-> b, turn |-> lease[b][s].turn, clean |-> ~crash,
         charged |-> lease[b][s].charged + lease[b][s].open]
          \in [boot : Boot, turn : Turn, clean : BOOLEAN, charged : Int]
    BY <2>1 DEF Leases
  <2> QED BY <1>12, <2>2 DEF ReconcileBegin, durable, RowTypes, MemoryTypes
<1>13. ASSUME NEW t \in Turn, NEW state \in {"reconciled", "forfeited"}, NEW n \in 0 .. Money,
              Close(t, state, n)
       PROVE  /\ env' \in [Turn -> Envelopes]
              /\ held' \in [Counter -> Int] /\ charged' \in [Counter -> Int]
  <2>1. env' \in [Turn -> Envelopes]
    <3>1. env \in [Turn -> Envelopes] /\ [env[t] EXCEPT !.state = state, !.charged = n] \in Envelopes
      BY EnvelopeClosed DEF RowTypes
    <3>2. env' = [env EXCEPT ![t] = [env[t] EXCEPT !.state = state, !.charged = n]]
      BY <1>13, <3>1 DEF Close
    <3> QED BY <3>1, <3>2
  <2>2. \A k \in Counter : held[k] - Money \in Int /\ charged[k] + n \in Int
    OBVIOUS
  <2> QED BY <1>13, <2>1, <2>2 DEF Close
<1>14. ASSUME NEW r \in reconciling, ReconcileEnd(r) PROVE LiveTypes'
  <2>1. r.turn \in Turn /\ r.charged \in Int
    BY DEF MemoryTypes
  <2>2. /\ env' \in [Turn -> Envelopes]
        /\ held' \in [Counter -> Int] /\ charged' \in [Counter -> Int]
    <3>1. Clamp(r.charged) \in 0 .. Money /\ Money \in 0 .. Money
      BY <2>1, ClampWithin
    <3>2. CASE Close(r.turn, "reconciled", Clamp(r.charged)) \/ Close(r.turn, "forfeited", Money)
      BY <1>13, <2>1, <3>1, <3>2
    <3>3. CASE UNCHANGED <<env, held, charged>>
      BY <3>3 DEF RowTypes
    <3> QED BY <1>14, <3>2, <3>3 DEF ReconcileEnd
  <2> QED BY <1>14, <2>2 DEF ReconcileEnd, RowTypes, MemoryTypes
<1>15. ASSUME NEW t \in Turn, Reap(t) PROVE LiveTypes'
  <2>1. Money \in 0 .. Money
    OBVIOUS
  <2>2. Close(t, "forfeited", Money)
    BY <1>15 DEF Reap
  <2>3. /\ env' \in [Turn -> Envelopes]
        /\ held' \in [Counter -> Int] /\ charged' \in [Counter -> Int]
    BY <1>13, <2>1, <2>2
  <2> QED BY <1>15, <2>3 DEF Reap, RowTypes, MemoryTypes
<1>16. ASSUME Midnight PROVE LiveTypes'
  BY <1>16 DEF Midnight, durable, RowTypes, MemoryTypes
<1>17. ASSUME NEW b \in Boot, Crash(b) PROVE LiveTypes'
  BY <1>17 DEF Crash, Over, durable, RowTypes, MemoryTypes, Phases
<1>18. CASE UNCHANGED vars
  BY <1>18 DEF vars, RowTypes, MemoryTypes
<1> QED BY <1>1, <1>2, <1>3, <1>4, <1>5, <1>6, <1>7, <1>8, <1>9, <1>10, <1>11, <1>12,
           <1>14, <1>15, <1>16, <1>17, <1>18 DEF Next

-----------------------------------------------------------------------------
(* The ledger: envelopes and counters. *)

\* A step acquires an envelope, closes one, or leaves the counters alone and at most
\* revokes an envelope.
LEMMA LedgerSteps ==
  ASSUME LiveTypes, [Next]_vars
  PROVE  \/ \E b \in Boot, t \in Turn : Hold(b, t) /\ UNCHANGED charged
         \/ \E t \in Turn, state \in {"reconciled", "forfeited"}, n \in 0 .. Money :
               Close(t, state, n)
         \/ /\ UNCHANGED <<held, charged>>
            /\ \E t : \E v \in BOOLEAN : env' = [env EXCEPT ![t].revoked = @ \/ v]
         \/ UNCHANGED <<env, held, charged>>
<1> DEFINE Held == \E b \in Boot, t \in Turn : Hold(b, t) /\ UNCHANGED charged
           Closes == \E t \in Turn, state \in {"reconciled", "forfeited"}, n \in 0 .. Money :
                       Close(t, state, n)
           Revoked == /\ UNCHANGED <<held, charged>>
                      /\ \E t : \E v \in BOOLEAN : env' = [env EXCEPT ![t].revoked = @ \/ v]
           Same == UNCHANGED <<env, held, charged>>
<1>1. ASSUME NEW b \in Boot, NEW t \in Turn, PrepareFresh(b, t) PROVE Held
  BY <1>1 DEF PrepareFresh
<1>2. ASSUME NEW r \in reconciling, ReconcileEnd(r) PROVE Closes \/ Same
  <2>1. r.turn \in Turn /\ Clamp(r.charged) \in 0 .. Money /\ Money \in 0 .. Money
    BY ClampWithin, MoneyIsNat DEF LiveTypes, MemoryTypes
  <2> QED BY <1>2, <2>1 DEF ReconcileEnd
<1>3. ASSUME NEW t \in Turn, Reap(t) PROVE Closes
  BY <1>3, MoneyIsNat DEF Reap
<1>4. ASSUME NEW b \in Boot, NEW c \in Call, PersistSettlement(b, c) PROVE Revoked \/ Same
  <2>1. UNCHANGED <<held, charged>>
    BY <1>4, Zenon DEF PersistSettlement
  <2>2. CASE ~HasEntry(LeaseOf(b, c), c)
    BY <1>4, <2>1, <2>2 DEF PersistSettlement
  <2>3. CASE HasEntry(LeaseOf(b, c), c)
    <3>1. \E v \in BOOLEAN : env' = [env EXCEPT ![LeaseOf(b, c).turn].revoked = @ \/ v]
      <4>1. PICK row \in {child[c], Recorded(LeaseOf(b, c).turn, c)}, v \in BOOLEAN,
                 r \in BOOLEAN, f \in BOOLEAN, k \in BOOLEAN :
              SettlementWrites(b, c, row, v, r, f, k)
        BY <1>4, <2>3, SettlementShape
      <4> QED BY <4>1, Zenon DEF SettlementWrites
    <3> QED BY <2>1, <3>1
  <2> QED BY <2>2, <2>3, Zenon
<1>5. ASSUME NEW b \in Boot, NEW s \in Session, Revoke(b, s) PROVE Revoked
  <2>1. PICK v \in BOOLEAN : env' = [env EXCEPT ![lease[b][s].turn].revoked = @ \/ v]
    BY <1>5 DEF Revoke
  <2> QED BY <1>5, <2>1 DEF Revoke
<1>6. ASSUME NEW b \in Boot, NEW t \in Turn,
             PrepareBegin(b, t) \/ PrepareReplay(b, t) \/ PrepareRefused(b, t)
      PROVE  Same
  BY <1>6 DEF PrepareBegin, PrepareReplay, PrepareRefused, durable
<1>7. ASSUME NEW b \in Boot, NEW c \in Call,
             Reserve(b, c) \/ Persist(b, c) \/ Stop(b, c) \/ Invoke(b, c) \/ Answered(b, c)
      PROVE  Same
  BY <1>7 DEF Reserve, Persist, Stop, Invoke, Answered, durable
<1>8. ASSUME NEW b \in Boot, \/ \E s \in Session, crash \in BOOLEAN : ReconcileBegin(b, s, crash)
                             \/ Crash(b)
      PROVE  Same
  BY <1>8 DEF ReconcileBegin, Crash, durable
<1>9. Midnight \/ UNCHANGED vars => Same
  BY DEF Midnight, durable, vars
<1> HIDE DEF Held, Closes, Revoked, Same
<1>10. Held \/ Closes \/ Revoked \/ Same
  BY <1>1, <1>2, <1>3, <1>4, <1>5, <1>6, <1>7, <1>8, <1>9 DEF Next
<1> QED BY <1>10 DEF Held, Closes, Revoked, Same

\* The ceilings hold because an acquisition looks at them, and a close only puts back
\* what it does not charge.
LEMMA CeilingArithmetic ==
  ASSUME NEW h \in Int, NEW c \in Int, NEW m \in Nat, NEW n \in 0 .. m, NEW top \in Int
  PROVE  /\ h + c + m =< top => (h + m) + c =< top
         /\ h + c =< top => (h - m) + (c + n) =< top
OBVIOUS

\* No step takes a counter over its ceiling.
LEMMA ExposureStep ==
  ASSUME LiveTypes, ExposureWithinCeiling, [Next]_vars
  PROVE  ExposureWithinCeiling'
<1> SUFFICES ASSUME NEW k \in Counter PROVE held'[k] + charged'[k] =< Ceiling[k]
  BY DEF ExposureWithinCeiling
<1>0. /\ held[k] \in Int /\ charged[k] \in Int /\ Ceiling[k] \in Int
      /\ held[k] + charged[k] =< Ceiling[k]
  BY LiveBudgetAssumption DEF LiveTypes, ExposureWithinCeiling
<1>1. ASSUME NEW b \in Boot, NEW t \in Turn, Hold(b, t), UNCHANGED charged
      PROVE  held'[k] + charged'[k] =< Ceiling[k]
  <2>1. CASE k \in Scopes[t][day]
    <3>1. held[k] + charged[k] + Money =< Ceiling[k]
      BY <1>1, <2>1 DEF Hold, Fits, Exposure
    <3>2. (held[k] + Money) + charged[k] =< Ceiling[k]
      BY <1>0, <3>1, MoneyIsNat
    <3>3. held'[k] = held[k] + Money /\ charged'[k] = charged[k]
      BY <1>1, <2>1 DEF Hold
    <3> QED BY <3>2, <3>3
  <2>2. CASE k \notin Scopes[t][day]
    <3>1. held'[k] = held[k] /\ charged'[k] = charged[k]
      BY <1>1, <2>2 DEF Hold
    <3> QED BY <1>0, <3>1
  <2> QED BY <2>1, <2>2
<1>2. ASSUME NEW t \in Turn, NEW state, NEW n \in 0 .. Money, Close(t, state, n)
      PROVE  held'[k] + charged'[k] =< Ceiling[k]
  <2>1. CASE k \in AllocatedTo(t)
    <3>1. held'[k] = held[k] - Money /\ charged'[k] = charged[k] + n
      BY <1>2, <2>1 DEF Close
    <3>2. (held[k] - Money) + (charged[k] + n) =< Ceiling[k]
      BY <1>0, MoneyIsNat
    <3> QED BY <3>1, <3>2
  <2>2. CASE k \notin AllocatedTo(t)
    <3>1. held'[k] = held[k] /\ charged'[k] = charged[k]
      BY <1>2, <2>2 DEF Close
    <3> QED BY <1>0, <3>1
  <2> QED BY <2>1, <2>2
<1>3. ASSUME UNCHANGED <<held, charged>> PROVE held'[k] + charged'[k] =< Ceiling[k]
  BY <1>0, <1>3
<1> QED BY <1>1, <1>2, <1>3, LedgerSteps

\* No counter passes its ceiling, for any counters and ceilings, however many processes
\* acquire, whatever fails and however late a reconciliation or the reaper comes.
THEOREM CeilingsHold == Spec => []ExposureWithinCeiling
<1>1. Init => ExposureWithinCeiling
  BY LiveBudgetAssumption DEF Init, ExposureWithinCeiling
<1>2. LiveTypes /\ ExposureWithinCeiling /\ [Next]_vars => ExposureWithinCeiling'
  BY ExposureStep
<1> QED BY InitTypes, TypesStep, <1>1, <1>2, PTL DEF Spec

-----------------------------------------------------------------------------
(* The counters are the sums of the envelopes. *)

\* One envelope more holds its money more.
LEMMA OneMoreHeld ==
  ASSUME NEW m \in Nat, NEW n \in Nat
  PROVE  m * n \in Nat /\ m * (n + 1) = m * n + m
OBVIOUS

\* The charges of the envelopes.
ChargeOn == [t \in Turn |-> env[t].charged]

\* An acquisition adds its envelope to those that hold money on its counters.
LEMMA HoldMoves ==
  ASSUME LiveTypes, NEW b \in Boot, NEW t \in Turn, Hold(b, t), NEW k \in Counter
  PROVE  /\ k \in Scopes[t][day] => Holding(k)' = Holding(k) \cup {t} /\ t \notin Holding(k)
         /\ k \notin Scopes[t][day] => Holding(k)' = Holding(k)
         /\ ClosedOn(k)' = ClosedOn(k)
         /\ \A u \in ClosedOn(k) : ChargeOn'[u] = ChargeOn[u]
<1>1. /\ env \in [Turn -> Envelopes] /\ env[t].state = "none"
      /\ env' = [env EXCEPT ![t] = [state |-> "held", boot |-> b, day |-> day,
                                    revoked |-> FALSE, charged |-> 0]]
  BY DEF Hold, LiveTypes, RowTypes
<1>2. \A u \in Turn : u # t => env'[u] = env[u]
  BY <1>1
<1>3. env'[t].state = "held" /\ env'[t].day = day
  BY <1>1
<1>4. ClosedOn(k)' = ClosedOn(k) /\ t \notin ClosedOn(k)
  BY <1>1, <1>2, <1>3 DEF ClosedOn, Closed, AllocatedTo
<1> QED BY <1>1, <1>2, <1>3, <1>4 DEF Holding, ClosedOn, AllocatedTo, ChargeOn

\* Closing an envelope takes it from those that hold money to those that are charged.
LEMMA CloseMoves ==
  ASSUME LiveTypes, NEW t \in Turn, NEW state \in {"reconciled", "forfeited"},
         NEW n \in 0 .. Money, Close(t, state, n), NEW k \in Counter
  PROVE  /\ k \in AllocatedTo(t) =>
              /\ Holding(k)' = Holding(k) \ {t} /\ t \in Holding(k)
              /\ ClosedOn(k)' = ClosedOn(k) \cup {t} /\ t \notin ClosedOn(k)
         /\ k \notin AllocatedTo(t) => Holding(k)' = Holding(k) /\ ClosedOn(k)' = ClosedOn(k)
         /\ \A u \in ClosedOn(k) : ChargeOn'[u] = ChargeOn[u]
         /\ ChargeOn'[t] = n
<1>1. /\ env \in [Turn -> Envelopes] /\ env[t].state = "held"
      /\ env' = [env EXCEPT ![t].state = state, ![t].charged = n]
  BY DEF Close, LiveTypes, RowTypes
<1>2. \A u \in Turn : u # t => env'[u] = env[u]
  BY <1>1
<1>3. env'[t].state = state /\ env'[t].day = env[t].day /\ env'[t].charged = n
  BY <1>1 DEF Envelopes
<1>4. \A u \in Turn : AllocatedTo(u)' = AllocatedTo(u)
  BY <1>2, <1>3 DEF AllocatedTo
<1>5. t \notin ClosedOn(k) /\ (k \in AllocatedTo(t) => t \in Holding(k))
  BY <1>1 DEF ClosedOn, Closed, Holding
<1>6. ASSUME k \in AllocatedTo(t)
      PROVE  Holding(k)' = Holding(k) \ {t} /\ ClosedOn(k)' = ClosedOn(k) \cup {t}
  <2>1. \A u \in Turn : u \in Holding(k)' <=> u \in Holding(k) \ {t}
    BY <1>2, <1>3, <1>4, <1>6 DEF Holding
  <2>2. \A u \in Turn : u \in ClosedOn(k)' <=> u \in ClosedOn(k) \cup {t}
    BY <1>2, <1>3, <1>4, <1>6 DEF ClosedOn, Closed
  <2> QED BY <2>1, <2>2 DEF Holding, ClosedOn
<1>7. ASSUME k \notin AllocatedTo(t)
      PROVE  Holding(k)' = Holding(k) /\ ClosedOn(k)' = ClosedOn(k)
  BY <1>2, <1>3, <1>4, <1>7 DEF Holding, ClosedOn, Closed
<1>8. (\A u \in ClosedOn(k) : ChargeOn'[u] = ChargeOn[u]) /\ ChargeOn'[t] = n
  BY <1>2, <1>3, <1>5 DEF ClosedOn, ChargeOn
<1> QED BY <1>5, <1>6, <1>7, <1>8

\* A revocation moves no envelope.
LEMMA RevokeMoves ==
  ASSUME LiveTypes, NEW t, NEW v \in BOOLEAN, env' = [env EXCEPT ![t].revoked = @ \/ v],
         NEW k \in Counter
  PROVE  Holding(k)' = Holding(k) /\ ClosedOn(k)' = ClosedOn(k) /\ ChargeOn' = ChargeOn
<1>1. \A u \in Turn : /\ env'[u].state = env[u].state /\ env'[u].day = env[u].day
                      /\ env'[u].charged = env[u].charged
  BY DEF LiveTypes, RowTypes, Envelopes
<1> QED BY <1>1 DEF Holding, ClosedOn, Closed, AllocatedTo, ChargeOn

\* What is held and charged on a counter, in the terms of CountersMatchEnvelopes.
LEMMA CounterParts ==
  ASSUME LiveTypes, NEW k \in Counter
  PROVE  /\ IsFiniteSet(Holding(k)) /\ Cardinality(Holding(k)) \in Nat
         /\ IsFiniteSet(ClosedOn(k)) /\ \A u \in ClosedOn(k) : ChargeOn[u] \in Nat
<1>1. \A u \in Turn : ChargeOn[u] \in Nat
  BY MoneyIsNat DEF LiveTypes, RowTypes, Envelopes, ChargeOn
<1> QED BY <1>1, FiniteParts, FS_CardinalityType DEF Holding, ClosedOn

\* Every step moves the counters as it moves the envelopes.
LEMMA CountersStep ==
  ASSUME LiveTypes, LiveTypes', CountersMatchEnvelopes, [Next]_vars
  PROVE  CountersMatchEnvelopes'
<1> SUFFICES ASSUME NEW k \in Counter
             PROVE  /\ held'[k] = Money * Cardinality(Holding(k)')
                    /\ charged'[k] = SumFunctionOnSet(ChargeOn', ClosedOn(k)')
  BY DEF CountersMatchEnvelopes, ChargeOn
<1>0. /\ held[k] = Money * Cardinality(Holding(k))
      /\ charged[k] = SumFunctionOnSet(ChargeOn, ClosedOn(k))
  BY DEF CountersMatchEnvelopes, ChargeOn
<1>1. /\ IsFiniteSet(Holding(k)) /\ Cardinality(Holding(k)) \in Nat
      /\ IsFiniteSet(ClosedOn(k))
      /\ \A u \in ClosedOn(k) : ChargeOn[u] \in Int
      /\ held[k] \in Int /\ charged[k] \in Int
  BY CounterParts DEF LiveTypes
<1>2. ASSUME NEW b \in Boot, NEW t \in Turn, Hold(b, t), UNCHANGED charged
      PROVE  /\ held'[k] = Money * Cardinality(Holding(k)')
             /\ charged'[k] = SumFunctionOnSet(ChargeOn', ClosedOn(k)')
  <2>1. charged'[k] = SumFunctionOnSet(ChargeOn', ClosedOn(k)')
    BY <1>0, <1>1, <1>2, HoldMoves, SumSame
  <2>2. CASE k \in Scopes[t][day]
    <3>1. Cardinality(Holding(k)') = Cardinality(Holding(k)) + 1
      BY <1>1, <1>2, <2>2, HoldMoves, FS_AddElement
    <3>2. Money * (Cardinality(Holding(k)) + 1) = Money * Cardinality(Holding(k)) + Money
      BY <1>1, MoneyIsNat, OneMoreHeld
    <3>3. held'[k] = held[k] + Money
      BY <1>2, <2>2 DEF Hold
    <3> QED BY <1>0, <2>1, <3>1, <3>2, <3>3
  <2>3. CASE k \notin Scopes[t][day]
    <3>1. held'[k] = held[k] /\ Holding(k)' = Holding(k)
      BY <1>2, <2>3, HoldMoves DEF Hold
    <3> QED BY <1>0, <2>1, <3>1
  <2> QED BY <2>2, <2>3
<1>3. ASSUME NEW t \in Turn, NEW state \in {"reconciled", "forfeited"}, NEW n \in 0 .. Money,
             Close(t, state, n)
      PROVE  /\ held'[k] = Money * Cardinality(Holding(k)')
             /\ charged'[k] = SumFunctionOnSet(ChargeOn', ClosedOn(k)')
  <2>1. SumFunctionOnSet(ChargeOn', ClosedOn(k)) = charged[k]
    BY <1>0, <1>1, <1>3, CloseMoves, SumSame
  <2>2. CASE k \in AllocatedTo(t)
    <3>1. /\ Holding(k)' = Holding(k) \ {t} /\ t \in Holding(k)
          /\ ClosedOn(k)' = ClosedOn(k) \cup {t} /\ t \notin ClosedOn(k)
          /\ ChargeOn'[t] = n
          /\ \A u \in ClosedOn(k) : ChargeOn'[u] = ChargeOn[u]
      BY <1>3, <2>2, CloseMoves
    <3>2. Cardinality(Holding(k)') = Cardinality(Holding(k)) - 1
      BY <1>1, <3>1, FS_RemoveElement
    <3>3. Cardinality(Holding(k)') \in Nat
      BY <1>1, <3>1, FS_RemoveElement, FS_CardinalityType
    <3>4. Money * Cardinality(Holding(k)) = Money * Cardinality(Holding(k)') + Money
      <4>1. Cardinality(Holding(k)) = Cardinality(Holding(k)') + 1
        BY <1>1, <3>2, <3>3
      <4> QED BY <3>3, <4>1, MoneyIsNat, OneMoreHeld
    <3>5. held'[k] = Money * Cardinality(Holding(k)')
      <4>1. held'[k] = held[k] - Money
        BY <1>3, <2>2 DEF Close
      <4>2. Money * Cardinality(Holding(k)') \in Nat
        BY <3>3, MoneyIsNat, OneMoreHeld
      <4> QED BY <1>0, <3>4, <4>1, <4>2, MoneyIsNat
    <3>6. SumFunctionOnSet(ChargeOn', ClosedOn(k)') = n + charged[k]
      <4>1. \A u \in ClosedOn(k) \cup {t} : ChargeOn'[u] \in Int
        BY <1>1, <3>1
      <4> QED BY <1>1, <2>1, <3>1, <4>1, SumWith
    <3>7. charged'[k] = charged[k] + n
      BY <1>3, <2>2 DEF Close
    <3> QED BY <1>1, <3>5, <3>6, <3>7
  <2>3. CASE k \notin AllocatedTo(t)
    <3>1. held'[k] = held[k] /\ charged'[k] = charged[k]
      BY <1>3, <2>3 DEF Close
    <3>2. Holding(k)' = Holding(k) /\ ClosedOn(k)' = ClosedOn(k)
      BY <1>3, <2>3, CloseMoves
    <3> QED BY <1>0, <2>1, <3>1, <3>2
  <2> QED BY <2>2, <2>3
<1>4. ASSUME UNCHANGED <<held, charged>>, NEW t, NEW v \in BOOLEAN,
             env' = [env EXCEPT ![t].revoked = @ \/ v]
      PROVE  /\ held'[k] = Money * Cardinality(Holding(k)')
             /\ charged'[k] = SumFunctionOnSet(ChargeOn', ClosedOn(k)')
  <2>1. Holding(k)' = Holding(k) /\ ClosedOn(k)' = ClosedOn(k) /\ ChargeOn' = ChargeOn
    BY <1>4, RevokeMoves
  <2> QED BY <1>0, <1>4, <2>1
<1>5. ASSUME UNCHANGED <<env, held, charged>>
      PROVE  /\ held'[k] = Money * Cardinality(Holding(k)')
             /\ charged'[k] = SumFunctionOnSet(ChargeOn', ClosedOn(k)')
  BY <1>0, <1>5 DEF Holding, ClosedOn, Closed, AllocatedTo, ChargeOn
<1> QED BY <1>2, <1>3, <1>4, <1>5, LedgerSteps

\* Each shared counter is the sum of the envelopes it stands for, also across a day
\* boundary and whatever operation is repeated (budget_scope_counters).
THEOREM CountersHold == Spec => []CountersMatchEnvelopes
<1>1. Init => CountersMatchEnvelopes
  <2> SUFFICES ASSUME Init, NEW k \in Counter
               PROVE  /\ held[k] = Money * Cardinality(Holding(k))
                      /\ charged[k] = SumFunctionOnSet([t \in Turn |-> env[t].charged], ClosedOn(k))
    BY DEF CountersMatchEnvelopes
  <2>1. Holding(k) = {} /\ ClosedOn(k) = {} /\ held[k] = 0 /\ charged[k] = 0
    BY DEF Init, Holding, ClosedOn, Closed
  <2>2. Cardinality(Holding(k)) = 0 /\ Money * 0 = 0
    BY <2>1, FS_EmptySet, MoneyIsNat
  <2> QED BY <2>1, <2>2, SumOfNone
<1>2. LiveTypes /\ LiveTypes' /\ CountersMatchEnvelopes /\ [Next]_vars => CountersMatchEnvelopes'
  BY CountersStep
<1> QED BY InitTypes, TypesStep, <1>1, <1>2, PTL DEF Spec

-----------------------------------------------------------------------------
(* What the provider may bill.  bill says how much of an envelope's bill     *)
(* stems from each of its calls.                                             *)

Bills == [Call -> 0 .. Worst]

\* The most the provider may still come to bill for a call.
Due(bill, c) == IF phase[c].at = "persisted" THEN Worst ELSE bill[c]

\* Those amounts, for the children of an envelope.
BillShares(bill, t) == [c \in Call |-> IF child[c].env = t THEN bill[c] ELSE 0]
DueShares(bill, t) == [c \in Call |-> IF child[c].env = t THEN Due(bill, c) ELSE 0]
MostDue(bill, t) == SumFunctionOnSet(DueShares(bill, t), Call)

\* What an entry of a lease sets aside for its call.
SetAside(e) == IF e.state = "none" THEN 0 ELSE IF e.state = "live" THEN Worst ELSE e.charged
Asides(l) == [c \in Call |-> SetAside(l.entry[c])]
Entered(l) == {c \in Call : l.entry[c].state # "none"}

\* Nothing is billed before a call starts, a call that may start has an open child, and
\* a child is settled for no less than the bill, when its call is over.
Follows(bill, c) ==
  /\ phase[c].at \in {"idle", "reserved", "persisted", "refused"} => bill[c] = 0
  /\ phase[c].at = "calling" => bill[c] = Worst
  /\ phase[c].at \in {"idle", "reserved"} => child[c].state = "none"
  /\ phase[c].at \in {"persisted", "calling"} => child[c].state = "open"
  /\ child[c].state = "none" => child[c].env = None /\ bill[c] = 0
  /\ child[c].state # "none" => child[c].env \in Turn /\ env[child[c].env].state # "none"
  /\ child[c].state = "settled" => bill[c] =< child[c].charged
  /\ child[c].state \in {"settled", "revoked"} => phase[c].at = "done"
CallsFollow(bill) == \A c \in Call : Follows(bill, c)

\* A live entry belongs to a call this process still follows; a closed one sets aside
\* what the call was billed.
EntryFollows(bill, b, s, c) ==
  LET e == lease[b][s].entry[c] IN
  /\ e.state = "live" => /\ SessionOf[c] = s /\ phase[c].boot = b
                         /\ phase[c].at \in {"reserved", "persisted", "refused", "calling"}
  /\ e.state \in {"settled", "terminal"} => /\ phase[c].at \in {"settled", "done"}
                                            /\ bill[c] =< e.charged

Alive(b, t) == env[t].boot = b /\ env[t].state \notin {"none", "reconciled"}

\* A lease divides the money of its envelope, and has an entry for every child.
Sound(bill, b, s) ==
  LET l == lease[b][s] IN
  /\ SessionOf[l.turn] = s /\ Alive(b, l.turn)
  /\ l.free + l.open + l.charged = Money
  /\ l.open + l.charged = SumFunctionOnSet(Asides(l), Call)
  /\ \A c \in Call : EntryFollows(bill, b, s, c)
  /\ Children(l.turn) \subseteq Entered(l)
  /\ Cardinality(Entered(l)) =< CallsPerTurn
LeasesSound(bill) == \A b \in Boot, s \in Session : lease[b][s] # None => Sound(bill, b, s)

NoLease(t) == \A b \in Boot, s \in Session : lease[b][s] # None => lease[b][s].turn # t

FewChildren == \A t \in Turn : Cardinality(Children(t)) =< CallsPerTurn

\* A prepare that may replay an envelope finds it without lease and reconciliation.
PreparesFree == \A b \in Boot, t \in Turn :
  <<b, t>> \in preparing /\ env[t].boot = b /\ env[t].state # "none" =>
     NoLease(t) /\ \A r \in reconciling : r.turn # t

\* A pending reconciliation and a closed envelope cover what may still be billed.
ReconcilesCover(bill) == \A r \in reconciling :
  /\ env[r.turn].state # "none" /\ NoLease(r.turn)
  /\ r.clean => MostDue(bill, r.turn) =< r.charged
ClosedCover(bill) == \A t \in Turn :
  /\ env[t].state = "forfeited" => env[t].charged = Money
  /\ env[t].state = "reconciled" => MostDue(bill, t) =< env[t].charged
SpentIsBilled(bill) == \A t \in Turn : spent[t] = SumFunctionOnSet(BillShares(bill, t), Call)

Billed(bill) ==
  /\ CallsFollow(bill) /\ LeasesSound(bill) /\ FewChildren /\ PreparesFree
  /\ ReconcilesCover(bill) /\ ClosedCover(bill) /\ SpentIsBilled(bill)

\* The shares are amounts of money.
LEMMA SharesAreMoney ==
  ASSUME NEW bill \in Bills, NEW t
  PROVE  /\ \A c \in Call : bill[c] \in Nat /\ bill[c] =< Worst
         /\ \A c \in Call : Due(bill, c) \in Nat /\ bill[c] =< Due(bill, c) /\ Due(bill, c) =< Worst
         /\ \A c \in Call : BillShares(bill, t)[c] \in Int /\ DueShares(bill, t)[c] \in Int
         /\ IsFiniteSet(Call)
BY LiveBudgetAssumption DEF Bills, Due, BillShares, DueShares

\* Products of a fixed amount grow with the number.
LEMMA TimesGrows ==
  ASSUME NEW m \in Nat, NEW n \in Nat, NEW k \in Nat, n =< k
  PROVE  m * n =< k * m
<1>1. PICK d \in Nat : k = n + d
  <2>1. k - n \in Nat /\ k = n + (k - n)
    OBVIOUS
  <2> QED BY <2>1
<1>2. k * m = m * n + m * d /\ m * d \in Nat /\ m * n \in Nat
  BY <1>1
<1> QED BY <1>2

\* A provider may never come to bill more than the money of an envelope.
LEMMA DueWithinMoney ==
  ASSUME LiveTypes, NEW bill \in Bills, FewChildren, NEW t \in Turn
  PROVE  MostDue(bill, t) \in Int /\ 0 =< MostDue(bill, t) /\ MostDue(bill, t) =< Money
<1> DEFINE all == [c \in Call |-> Worst]
           none == [c \in Call |-> 0]
           most == [c \in Call |-> IF c \in Children(t) THEN all[c] ELSE 0]
<1>0. Children(t) \in SUBSET Call /\ IsFiniteSet(Children(t)) /\ IsFiniteSet(Call)
  BY FiniteParts, LiveBudgetAssumption DEF Children
<1>1. MostDue(bill, t) \in Int
  BY SharesAreMoney, SumIsNumber DEF MostDue
<1>2. MostDue(bill, t) =< SumFunctionOnSet(most, Call)
  <2>1. \A c \in Call : /\ DueShares(bill, t)[c] \in Int /\ most[c] \in Int
                        /\ DueShares(bill, t)[c] =< most[c]
    <3> TAKE c \in Call
    <3>1. Due(bill, c) \in Nat /\ Due(bill, c) =< Worst
      BY SharesAreMoney, Zenon
    <3>4. Worst \in Nat
      BY LiveBudgetAssumption
    <3>2. DueShares(bill, t)[c] = IF c \in Children(t) THEN Due(bill, c) ELSE 0
      BY DEF DueShares, Children
    <3>3. most[c] = IF c \in Children(t) THEN Worst ELSE 0
      OBVIOUS
    <3> HIDE DEF most
    <3> QED BY <3>1, <3>2, <3>3, <3>4
  <2> HIDE DEF most
  <2> QED BY <1>0, <2>1, SumMonotone DEF MostDue
<1>3. SumFunctionOnSet(most, Call) = SumFunctionOnSet(all, Children(t))
  BY <1>0, LiveBudgetAssumption, SumOfPart
<1>4. SumFunctionOnSet(all, Children(t)) = Worst * Cardinality(Children(t))
  BY <1>0, LiveBudgetAssumption, SumOfConstant
<1>5. Worst * Cardinality(Children(t)) =< Money
  BY <1>0, LiveBudgetAssumption, FS_CardinalityType, TimesGrows DEF Money, FewChildren
<1>6. SumFunctionOnSet(none, Call) =< MostDue(bill, t)
  BY <1>0, SharesAreMoney, SumMonotone DEF DueShares, MostDue
<1>7. SumFunctionOnSet(none, Call) = 0
  <2>1. SumFunctionOnSet(none, Call) = 0 * Cardinality(Call)
    BY <1>0, SumOfConstant
  <2> QED BY <1>0, <2>1, FS_CardinalityType
<1>8. SumFunctionOnSet(most, Call) =< Money
  BY <1>3, <1>4, <1>5
<1>9. SumFunctionOnSet(most, Call) \in Int
  BY <1>0, LiveBudgetAssumption, SumIsNumber
<1> HIDE DEF all, none, most
<1> QED BY <1>1, <1>2, <1>6, <1>7, <1>8, <1>9, MoneyIsNat

\* When no share grows, neither does what may be billed.
LEMMA DueFalls ==
  ASSUME NEW bill \in Bills, NEW next \in Bills, NEW t,
         \A c \in Call : DueShares(next, t)'[c] =< DueShares(bill, t)[c]
  PROVE  MostDue(next, t)' =< MostDue(bill, t)
<1>1. \A c \in Call : DueShares(bill, t)[c] \in Int /\ IsFiniteSet(Call)
  BY SharesAreMoney
<1>2. \A c \in Call : DueShares(next, t)'[c] \in Int
  BY LiveBudgetAssumption DEF Bills, Due, DueShares
<1> QED BY <1>1, <1>2, LiveBudgetAssumption, SumMonotone DEF MostDue

\* What may still be billed is an amount of money, before and after a step.
LEMMA DueIsNumber ==
  ASSUME NEW bill \in Bills, NEW t
  PROVE  MostDue(bill, t) \in Int /\ MostDue(bill, t)' \in Int
<1>1. \A c \in Call : DueShares(bill, t)[c] \in Int /\ DueShares(bill, t)'[c] \in Int
  BY LiveBudgetAssumption DEF Bills, Due, DueShares
<1> QED BY <1>1, LiveBudgetAssumption, SumIsNumber DEF MostDue

-----------------------------------------------------------------------------
(* What steps leave alone. *)

\* A lease that a process holds.
LEMMA LeaseParts ==
  ASSUME LiveTypes, NEW b \in Boot, NEW s \in Session, lease[b][s] # None
  PROVE  /\ lease[b][s] \in Leases /\ lease[b][s].turn \in Turn
         /\ lease[b][s].entry \in [Call -> Entries]
         /\ \A c \in Call : lease[b][s].entry[c] \in Entries
BY DEF LiveTypes, MemoryTypes, Leases

\* An acquired envelope stays acquired, by the same process; a closed one keeps its
\* charge.
LEMMA EnvMoves ==
  ASSUME LiveTypes, [Next]_vars, NEW u \in Turn
  PROVE  /\ env[u].state # "none" => env'[u].state # "none" /\ env'[u].boot = env[u].boot
         /\ Closed(u) => env'[u].state = env[u].state /\ env'[u].charged = env[u].charged
<1>1. env \in [Turn -> Envelopes]
  BY DEF LiveTypes, RowTypes
<1>2. ASSUME NEW b \in Boot, NEW t \in Turn, Hold(b, t)
      PROVE  env[u].state # "none" => env'[u] = env[u]
  BY <1>1, <1>2 DEF Hold
<1>3. ASSUME NEW t \in Turn, NEW state \in {"reconciled", "forfeited"}, NEW n, Close(t, state, n)
      PROVE  /\ u # t => env'[u] = env[u]
             /\ u = t => env'[u].state # "none" /\ env'[u].boot = env[u].boot /\ ~Closed(u)
  <2>1. env[t].state = "held" /\ env' = [env EXCEPT ![t].state = state, ![t].charged = n]
    BY <1>3 DEF Close
  <2> QED BY <1>1, <2>1 DEF Closed, Envelopes
<1>4. ASSUME NEW t, NEW v \in BOOLEAN, env' = [env EXCEPT ![t].revoked = @ \/ v]
      PROVE  /\ env'[u].state = env[u].state /\ env'[u].boot = env[u].boot
             /\ env'[u].charged = env[u].charged
  BY <1>1, <1>4 DEF Envelopes
<1> QED BY <1>2, <1>3, <1>4, LedgerSteps DEF Closed

\* A step that moves no envelope.
RowsSame == \A u \in Turn : /\ env'[u].state = env[u].state /\ env'[u].boot = env[u].boot
                            /\ env'[u].charged = env[u].charged

\* A revocation is such a step.
LEMMA RowsSameWhen ==
  ASSUME LiveTypes,
         UNCHANGED env \/ \E t : \E v \in BOOLEAN : env' = [env EXCEPT ![t].revoked = @ \/ v]
  PROVE  RowsSame
BY DEF LiveTypes, RowTypes, Envelopes, RowsSame

\* A step that follows no call leaves what is due as it was.
LEMMA CalmStep ==
  ASSUME LiveTypes, NEW bill \in Bills, Billed(bill), [Next]_vars,
         UNCHANGED <<child, phase, spent>>
  PROVE  /\ CallsFollow(bill)' /\ FewChildren' /\ SpentIsBilled(bill)'
         /\ \A t : MostDue(bill, t)' = MostDue(bill, t)
         /\ \A t : Children(t)' = Children(t)
<1>1. \A t : Children(t)' = Children(t)
  BY DEF Children
<1>2. \A t : BillShares(bill, t)' = BillShares(bill, t) /\ DueShares(bill, t)' = DueShares(bill, t)
  BY DEF BillShares, DueShares, Due
<1>3. FewChildren'
  BY <1>1 DEF Billed, FewChildren
<1>4. SpentIsBilled(bill)'
  BY <1>2 DEF Billed, SpentIsBilled
<1>5. CallsFollow(bill)'
  BY EnvMoves DEF Billed, CallsFollow, Follows
<1> QED BY <1>1, <1>2, <1>3, <1>4, <1>5 DEF MostDue

\* A step that leaves all leases as they were, or takes some away.
LeasesGo == \A b \in Boot, s \in Session :
  lease'[b][s] # None => lease[b][s] # None /\ lease'[b][s].turn = lease[b][s].turn

\* An envelope without a lease stays without one.
LEMMA LeasesGoKeep ==
  ASSUME LeasesGo, NEW t, NoLease(t)
  PROVE  NoLease(t)'
BY DEF LeasesGo, NoLease

\* A closed account has no lease when a reconciliation closed it.
LEMMA ReconciledNoLease ==
  ASSUME NEW bill, LeasesSound(bill), NEW t, env[t].state = "reconciled"
  PROVE  NoLease(t)
BY DEF LeasesSound, Sound, Alive, NoLease

\* A step that opens and closes nothing, and raises nothing that is due where no lease is
\* left, keeps what prepares, reconciliations and closed envelopes rely on.
LEMMA QuietStep ==
  ASSUME LiveTypes, NEW bill \in Bills, NEW next \in Bills, Billed(bill), RowsSame, LeasesGo,
         preparing' \subseteq preparing, reconciling' \subseteq reconciling,
         \A t \in Turn : NoLease(t) => MostDue(next, t)' =< MostDue(bill, t)
  PROVE  PreparesFree' /\ ReconcilesCover(next)' /\ ClosedCover(next)'
<1>1. PreparesFree'
  BY LeasesGoKeep DEF Billed, PreparesFree, RowsSame
<1>2. ReconcilesCover(next)'
  <2> SUFFICES ASSUME NEW r \in reconciling'
               PROVE  /\ env'[r.turn].state # "none" /\ NoLease(r.turn)'
                      /\ r.clean => MostDue(next, r.turn)' =< r.charged
    BY DEF ReconcilesCover
  <2>1. r \in reconciling /\ r.turn \in Turn /\ r.charged \in Int
    BY DEF LiveTypes, MemoryTypes
  <2>2. /\ env[r.turn].state # "none" /\ NoLease(r.turn)
        /\ r.clean => MostDue(bill, r.turn) =< r.charged
    BY <2>1 DEF Billed, ReconcilesCover
  <2>3. /\ MostDue(next, r.turn)' =< MostDue(bill, r.turn)
        /\ MostDue(next, r.turn)' \in Int /\ MostDue(bill, r.turn) \in Int
    BY <2>1, <2>2, DueIsNumber
  <2> QED BY <2>1, <2>2, <2>3, LeasesGoKeep DEF RowsSame
<1>3. ClosedCover(next)'
  <2> SUFFICES ASSUME NEW t \in Turn
               PROVE  /\ env'[t].state = "forfeited" => env'[t].charged = Money
                      /\ env'[t].state = "reconciled" => MostDue(next, t)' =< env'[t].charged
    BY DEF ClosedCover
  <2>1. env'[t].state = env[t].state /\ env'[t].charged = env[t].charged
    BY DEF RowsSame
  <2>2. /\ env[t].state = "forfeited" => env[t].charged = Money
        /\ env[t].state = "reconciled" => MostDue(bill, t) =< env[t].charged
    BY DEF Billed, ClosedCover
  <2>3. env[t].state = "reconciled" => NoLease(t)
    BY ReconciledNoLease DEF Billed
  <2>4. MostDue(next, t)' \in Int /\ MostDue(bill, t) \in Int /\ env[t].charged \in Int
    BY DueIsNumber, MoneyIsNat DEF LiveTypes, RowTypes, Envelopes
  <2> QED BY <2>1, <2>2, <2>3, <2>4
<1> QED BY <1>1, <1>2, <1>3

\* What a sound lease says, part by part.
LEMMA SoundParts ==
  ASSUME NEW bill, NEW b, NEW s, Sound(bill, b, s)
  PROVE  /\ SessionOf[lease[b][s].turn] = s /\ Alive(b, lease[b][s].turn)
         /\ lease[b][s].free + lease[b][s].open + lease[b][s].charged = Money
         /\ lease[b][s].open + lease[b][s].charged = SumFunctionOnSet(Asides(lease[b][s]), Call)
         /\ \A c \in Call : EntryFollows(bill, b, s, c)
         /\ Children(lease[b][s].turn) \subseteq Entered(lease[b][s])
         /\ Cardinality(Entered(lease[b][s])) =< CallsPerTurn
BY DEF Sound

\* A lease that a process holds is sound while the bills are within the accounts.
LEMMA HeldIsSound ==
  ASSUME NEW bill, Billed(bill), NEW b \in Boot, NEW s \in Session, lease[b][s] # None
  PROVE  Sound(bill, b, s)
BY DEF Billed, LeasesSound

\* An envelope that no step moves stays alive.
LEMMA AliveKept ==
  ASSUME RowsSame, NEW b, NEW s, lease[b][s].turn \in Turn, Alive(b, lease[b][s].turn),
         lease'[b][s].turn = lease[b][s].turn
  PROVE  Alive(b, lease[b][s].turn)'
BY DEF RowsSame, Alive

\* A lease that keeps its money and the state of its entries stays sound.
SameMoney(l, m) ==
  /\ m.turn = l.turn /\ m.free = l.free /\ m.open = l.open /\ m.charged = l.charged
  /\ \A c \in Call : /\ m.entry[c].state = l.entry[c].state
                     /\ m.entry[c].charged = l.entry[c].charged

\* When its calls stay followed and no child joins.
LEMMA SoundKept ==
  ASSUME NEW bill, NEW next, NEW b \in Boot, NEW s \in Session,
         Sound(bill, b, s), SameMoney(lease[b][s], lease'[b][s]),
         Alive(b, lease[b][s].turn)',
         \A c \in Call : EntryFollows(next, b, s, c)',
         Children(lease[b][s].turn)' \subseteq Entered(lease[b][s])
  PROVE  Sound(next, b, s)'
<1> DEFINE l == lease[b][s]
           m == lease'[b][s]
<1>1. Asides(m) = Asides(l) /\ Entered(m) = Entered(l)
  BY DEF SameMoney, Asides, SetAside, Entered
<1>2. m.turn = l.turn /\ m.free = l.free /\ m.open = l.open /\ m.charged = l.charged
  BY DEF SameMoney
<1>3. Children(l.turn)' \subseteq Entered(m)
  BY <1>1
<1>4. /\ SessionOf[l.turn] = s
      /\ l.free + l.open + l.charged = Money
      /\ l.open + l.charged = SumFunctionOnSet(Asides(l), Call)
      /\ Cardinality(Entered(l)) =< CallsPerTurn
  BY DEF Sound
<1> QED BY <1>1, <1>2, <1>3, <1>4 DEF Sound

-----------------------------------------------------------------------------
(* Leases taken from the store, given back, and revoked. *)

\* A lease that only a revocation touches stays sound while no call moves.
LEMMA CalmLease ==
  ASSUME LiveTypes, NEW bill \in Bills, Billed(bill), UNCHANGED <<child, phase>>,
         NEW b \in Boot, NEW s \in Session, lease[b][s] # None,
         SameMoney(lease[b][s], lease'[b][s]),
         env'[lease[b][s].turn].boot = env[lease[b][s].turn].boot,
         env'[lease[b][s].turn].state \notin {"none", "reconciled"}
  PROVE  Sound(bill, b, s)'
<1> DEFINE l == lease[b][s]
           m == lease'[b][s]
<1>1. Sound(bill, b, s)
  BY DEF Billed, LeasesSound
<1>2. Alive(b, lease[b][s].turn)'
  BY <1>1 DEF Sound, Alive, SameMoney
<1>3. \A c \in Call : EntryFollows(bill, b, s, c)'
  BY <1>1 DEF Sound, EntryFollows, SameMoney
<1>4. Children(lease[b][s].turn)' \subseteq Entered(lease[b][s])
  BY <1>1 DEF Sound, Children, SameMoney
<1> QED BY <1>1, <1>2, <1>3, <1>4, SoundKept

\* The calls of one envelope cost no more than its money.
LEMMA PartWithinMoney ==
  ASSUME NEW T \in SUBSET Call, Cardinality(T) =< CallsPerTurn,
         NEW f, \A c \in T : f[c] \in 0 .. Worst
  PROVE  SumFunctionOnSet(f, T) =< Money
<1> DEFINE all == [c \in Call |-> Worst]
<1>0. IsFiniteSet(T) /\ Cardinality(T) \in Nat
  BY FiniteParts, FS_CardinalityType
<1>1. SumFunctionOnSet(f, T) =< SumFunctionOnSet(all, T)
  <2>1. \A c \in T : f[c] \in Int /\ all[c] \in Int /\ f[c] =< all[c]
    BY LiveBudgetAssumption
  <2> HIDE DEF all
  <2> QED BY <1>0, <2>1, SumMonotone
<1>2. SumFunctionOnSet(all, T) = Worst * Cardinality(T)
  BY <1>0, LiveBudgetAssumption, SumOfConstant
<1>3. Worst * Cardinality(T) =< Money
  BY <1>0, LiveBudgetAssumption, TimesGrows DEF Money
<1>4. SumFunctionOnSet(f, T) \in Int
  BY <1>0, LiveBudgetAssumption, SumIsNumber
<1>5. SumFunctionOnSet(all, T) \in Int /\ SumFunctionOnSet(all, T) =< Money
  <2>1. \A c \in T : all[c] \in Int
    BY LiveBudgetAssumption
  <2>2. SumFunctionOnSet(all, T) \in Int
    BY <1>0, <2>1, SumIsNumber
  <2> QED BY <1>2, <1>3, <2>2
<1> HIDE DEF all
<1> QED BY <1>1, <1>4, <1>5, MoneyIsNat

\* A lease taken from the durable rows charges every child in full or what it was
\* settled for, and hands out only the rest.
LEMMA HydratedSound ==
  ASSUME LiveTypes, NEW bill \in Bills, Billed(bill), UNCHANGED <<child, phase>>,
         NEW b \in Boot, NEW t \in Turn,
         lease'[b][SessionOf[t]] = Hydrated(t),
         env'[t].boot = b, env'[t].state \notin {"none", "reconciled"},
         \A c \in Children(t) : child[c].state # "open"
  PROVE  Sound(bill, b, SessionOf[t])'
<1> DEFINE h == Hydrated(t)
           kids == Children(t)
           paid == SumFunctionOnSet([c \in Call |-> ChargeOf(c)], kids)
<1>0. kids \in SUBSET Call /\ IsFiniteSet(kids) /\ IsFiniteSet(Call)
  BY FiniteParts, LiveBudgetAssumption DEF Children
<1>1. \A c \in Call : ChargeOf(c) \in 0 .. Worst /\ ChargeOf(c) \in Int
  BY ChargeOfType, LiveBudgetAssumption DEF LiveTypes
<1>2. paid =< Money /\ paid \in Int
  <2>1. Cardinality(kids) =< CallsPerTurn
    BY DEF Billed, FewChildren
  <2>2. \A c \in kids : [x \in Call |-> ChargeOf(x)][c] \in 0 .. Worst
    BY <1>0, <1>1
  <2>3. \A c \in kids : [x \in Call |-> ChargeOf(x)][c] \in Int
    BY <1>0, <1>1
  <2> HIDE DEF kids
  <2> QED BY <1>0, <2>1, <2>2, <2>3, PartWithinMoney, SumIsNumber
<1>3. /\ h.turn = t /\ h.free = Money - paid /\ h.open = 0 /\ h.charged = paid
      /\ \A c \in kids : /\ h.entry[c].state = "terminal"
                         /\ h.entry[c].charged = ChargeOf(c)
      /\ \A c \in Call \ kids : h.entry[c].state = "none"
  BY <1>0, <1>2 DEF Hydrated, NoEntry
<1>4. Entered(h) = kids
  BY <1>0, <1>3 DEF Entered
<1>5. SumFunctionOnSet(Asides(h), Call) = paid
  <2>1. \A c \in Call : Asides(h)[c] = IF c \in kids THEN [x \in Call |-> ChargeOf(x)][c] ELSE 0
    BY <1>0, <1>3 DEF Asides, SetAside
  <2>2. \A c \in kids : [x \in Call |-> ChargeOf(x)][c] \in Int
    BY <1>0, <1>1
  <2> HIDE DEF h, kids
  <2> QED BY <1>0, <2>1, <2>2, SumOfPart
<1>6. h.free + h.open + h.charged = Money /\ h.open + h.charged = SumFunctionOnSet(Asides(h), Call)
  <2> HIDE DEF h, paid
  <2> QED BY <1>2, <1>3, <1>5, MoneyIsNat
<1>7. ASSUME NEW c \in kids
      PROVE  phase[c].at \in {"settled", "done"} /\ bill[c] =< ChargeOf(c)
  <2>1. c \in Call /\ child[c].env = t /\ child[c] \in Rows /\ Follows(bill, c) /\ bill[c] =< Worst
    BY LiveBudgetAssumption DEF Children, LiveTypes, RowTypes, Billed, CallsFollow, Bills
  <2>2. child[c].state \in {"settled", "revoked"}
    BY <1>7, <2>1, LiveBudgetAssumption DEF Follows, Rows
  <2> QED BY <2>1, <2>2 DEF Follows, ChargeOf
<1>8. \A c \in Call : EntryFollows(bill, b, SessionOf[t], c)'
  <2> HIDE DEF kids
  <2> QED BY <1>3, <1>7 DEF EntryFollows
<1>9. Cardinality(Entered(h)) =< CallsPerTurn
  BY <1>4 DEF Billed, FewChildren
<1>10. Children(t)' = kids
  BY DEF Children
<1>11. SessionOf[h.turn] = SessionOf[t] /\ Alive(b, t)' /\ h.turn = t
  BY <1>3 DEF Alive
<1> HIDE DEF h, kids, paid
<1>12. /\ lease'[b][SessionOf[t]] = h
       /\ Children(t)' \subseteq Entered(h)
  BY <1>4, <1>10 DEF h
<1>13. Alive(b, lease[b][SessionOf[t]].turn)' /\ Children(lease[b][SessionOf[t]].turn)' \subseteq Entered(h)
  BY <1>11, <1>12 DEF Alive, Children
<1> QED BY <1>6, <1>8, <1>9, <1>11, <1>12, <1>13 DEF Sound

\* An envelope nobody acquired has no lease, no children and no reconciliation.
LEMMA UnusedEnvelope ==
  ASSUME LiveTypes, NEW bill \in Bills, Billed(bill), NEW t \in Turn, env[t].state = "none"
  PROVE  /\ NoLease(t) /\ Children(t) = {}
         /\ \A r \in reconciling : r.turn # t
<1>1. NoLease(t) /\ \A r \in reconciling : r.turn # t
  BY DEF Billed, LeasesSound, Sound, Alive, NoLease, ReconcilesCover
<1>2. \A c \in Call : child[c].env # t
  BY LiveBudgetAssumption DEF Billed, CallsFollow, Follows
<1> QED BY <1>1, <1>2 DEF Children

\* There is one lease of an envelope at most: in the process that acquired it, for the
\* session of its turn.
LEMMA OneLeaseOfEnvelope ==
  ASSUME LiveTypes, NEW bill \in Bills, Billed(bill),
         NEW b \in Boot, NEW s \in Session, lease[b][s] # None,
         NEW b2 \in Boot, NEW s2 \in Session, lease[b2][s2] # None,
         lease[b2][s2].turn = lease[b][s].turn
  PROVE  b2 = b /\ s2 = s
BY DEF Billed, LeasesSound, Sound, Alive

\* A step that calms all calls and leaves envelopes and leases to others.
LEMMA CalmLeases ==
  ASSUME LiveTypes, NEW bill \in Bills, Billed(bill), UNCHANGED <<child, phase>>, RowsSame,
         \A b \in Boot, s \in Session : lease'[b][s] # None =>
            lease[b][s] # None /\ SameMoney(lease[b][s], lease'[b][s])
  PROVE  LeasesSound(bill)'
<1> SUFFICES ASSUME NEW b \in Boot, NEW s \in Session, lease'[b][s] # None
             PROVE  Sound(bill, b, s)'
  BY DEF LeasesSound
<1>1. lease[b][s] # None /\ SameMoney(lease[b][s], lease'[b][s])
  OBVIOUS
<1>2. lease[b][s].turn \in Turn /\ Alive(b, lease[b][s].turn)
  BY <1>1, LeaseParts DEF Billed, LeasesSound, Sound
<1> QED BY <1>1, <1>2, CalmLease DEF RowsSame, Alive

\* Steps that only take away prepares, reconciliations and leases, or revoke.
LEMMA CalmQuiet ==
  ASSUME LiveTypes, NEW bill \in Bills, Billed(bill), [Next]_vars,
         UNCHANGED <<child, phase, spent>>, RowsSame,
         \A b \in Boot, s \in Session : lease'[b][s] # None =>
            lease[b][s] # None /\ SameMoney(lease[b][s], lease'[b][s]),
         preparing' \subseteq preparing, reconciling' \subseteq reconciling
  PROVE  Billed(bill)'
<1>1. LeasesGo
  BY DEF LeasesGo, SameMoney
<1>2. \A t \in Turn : MostDue(bill, t)' =< MostDue(bill, t)
  BY CalmStep, DueIsNumber
<1>3. PreparesFree' /\ ReconcilesCover(bill)' /\ ClosedCover(bill)'
  BY <1>1, <1>2, QuietStep
<1> QED BY <1>3, CalmStep, CalmLeases DEF Billed

\* A refused prepare changes nothing that is billed.
LEMMA RefusedBills ==
  ASSUME LiveTypes, NEW bill \in Bills, Billed(bill), [Next]_vars,
         NEW b \in Boot, NEW t \in Turn, PrepareRefused(b, t)
  PROVE  Billed(bill)'
BY CalmQuiet DEF PrepareRefused, durable, RowsSame, SameMoney

\* Neither does a new day.
LEMMA MidnightBills ==
  ASSUME LiveTypes, NEW bill \in Bills, Billed(bill), [Next]_vars, Midnight \/ UNCHANGED vars
  PROVE  Billed(bill)'
BY CalmQuiet DEF Midnight, vars, durable, RowsSame, SameMoney

\* Nor does a revocation, in memory and in the store.
LEMMA RevokeBills ==
  ASSUME LiveTypes, NEW bill \in Bills, Billed(bill), [Next]_vars,
         NEW b \in Boot, NEW s \in Session, Revoke(b, s)
  PROVE  Billed(bill)'
<1>1. RowsSame
  <2>1. \E v \in BOOLEAN : env' = [env EXCEPT ![lease[b][s].turn].revoked = @ \/ v]
    BY DEF Revoke
  <2> QED BY <2>1, RowsSameWhen
<1>2. /\ lease[b][s] # None /\ lease' = [lease EXCEPT ![b][s].revoked = TRUE]
      /\ UNCHANGED <<child, phase, spent, preparing, reconciling>>
  BY DEF Revoke
<1>3. lease[b][s] \in Leases /\ lease \in [Boot -> [Session -> Leases \cup {None}]]
  BY <1>2 DEF LiveTypes, MemoryTypes
<1>4. ASSUME NEW b2 \in Boot, NEW s2 \in Session, lease'[b2][s2] # None
      PROVE  lease[b2][s2] # None /\ SameMoney(lease[b2][s2], lease'[b2][s2])
  <2>1. CASE b2 = b /\ s2 = s
    <3>1. lease'[b2][s2] = [lease[b][s] EXCEPT !.revoked = TRUE]
      BY <1>2, <1>3, <2>1
    <3> QED BY <1>2, <1>3, <2>1, <3>1 DEF SameMoney, Leases
  <2>2. CASE ~(b2 = b /\ s2 = s)
    BY <1>2, <1>3, <1>4, <2>2 DEF SameMoney
  <2> QED BY <2>1, <2>2
<1> QED BY <1>1, <1>2, <1>4, CalmQuiet

\* A prepare begins when the session has no lease: no other lease, and no
\* reconciliation, can be on an envelope it may replay.
LEMMA BeginBills ==
  ASSUME LiveTypes, NEW bill \in Bills, Billed(bill), [Next]_vars,
         NEW b \in Boot, NEW t \in Turn, PrepareBegin(b, t)
  PROVE  Billed(bill)'
<1>1. /\ UNCHANGED <<env, child, phase, spent, lease, reconciling>>
      /\ lease[b][SessionOf[t]] = None
      /\ preparing' = preparing \cup {<<b, t>>}
      /\ env[t].state # "none" => \A r \in reconciling : r.turn # t
  BY DEF PrepareBegin, durable
<1>2. RowsSame /\ LeasesGo
  BY <1>1 DEF RowsSame, LeasesGo
<1>3. LeasesSound(bill)'
  BY <1>1, <1>2, CalmLeases DEF SameMoney
<1>4. PreparesFree'
  <2> SUFFICES ASSUME NEW a \in Boot, NEW u \in Turn, <<a, u>> \in preparing',
                      env[u].boot = a, env[u].state # "none"
               PROVE  NoLease(u) /\ \A r \in reconciling : r.turn # u
    BY <1>1 DEF PreparesFree, NoLease
  <2>1. CASE <<a, u>> \in preparing
    BY <2>1 DEF Billed, PreparesFree
  <2>2. CASE a = b /\ u = t
    BY <1>1, <2>2 DEF Billed, LeasesSound, Sound, Alive, NoLease
  <2> QED BY <1>1, <2>1, <2>2
<1>5. ReconcilesCover(bill)' /\ ClosedCover(bill)'
  BY <1>1, CalmStep DEF Billed, ReconcilesCover, ClosedCover, NoLease
<1> QED BY <1>1, <1>3, <1>4, <1>5, CalmStep DEF Billed

\* A fresh envelope has no child and no bill: its lease starts with all the money.
LEMMA FreshBills ==
  ASSUME LiveTypes, NEW bill \in Bills, Billed(bill), [Next]_vars,
         NEW b \in Boot, NEW t \in Turn, PrepareFresh(b, t)
  PROVE  Billed(bill)'
<1> DEFINE s == SessionOf[t]
<1>0. s \in Session /\ env \in [Turn -> Envelopes]
      /\ lease \in [Boot -> [Session -> Leases \cup {None}]]
  BY LiveBudgetAssumption DEF LiveTypes, RowTypes, MemoryTypes
<1>1. /\ preparing' = preparing \ {<<b, t>>} /\ UNCHANGED <<child, phase, spent, reconciling>>
      /\ lease' = [lease EXCEPT ![b][s] = Hydrated(t)] \/ UNCHANGED lease
      /\ env[t].state = "none"
      /\ env' = [env EXCEPT ![t] = [state |-> "held", boot |-> b, day |-> day,
                                    revoked |-> FALSE, charged |-> 0]]
  BY DEF PrepareFresh, Hold, Install
<1>2. env'[t].state = "held" /\ env'[t].boot = b /\ \A u \in Turn : u # t => env'[u] = env[u]
  BY <1>0, <1>1
<1>3. NoLease(t) /\ Children(t) = {} /\ \A r \in reconciling : r.turn # t
  BY <1>1, UnusedEnvelope
<1>4. ASSUME NEW a \in Boot, NEW z \in Session, lease'[a][z] # None
      PROVE  \/ a = b /\ z = s /\ lease'[a][z] = Hydrated(t)
             \/ lease[a][z] # None /\ lease'[a][z] = lease[a][z]
  BY <1>0, <1>1, <1>4
<1>5. Hydrated(t).turn = t
  BY DEF Hydrated
<1>6. LeasesSound(bill)'
  <2> SUFFICES ASSUME NEW a \in Boot, NEW z \in Session, lease'[a][z] # None
               PROVE  Sound(bill, a, z)'
    BY DEF LeasesSound
  <2>1. CASE a = b /\ z = s /\ lease'[a][z] = Hydrated(t)
    BY <1>1, <1>2, <1>3, <2>1, HydratedSound
  <2>2. CASE lease[a][z] # None /\ lease'[a][z] = lease[a][z]
    <3>1. /\ lease[a][z].turn \in Turn /\ lease[a][z].turn # t
          /\ Alive(a, lease[a][z].turn)
      BY <1>3, <2>2, LeaseParts DEF NoLease, Billed, LeasesSound, Sound
    <3>2. env'[lease[a][z].turn] = env[lease[a][z].turn]
      BY <1>2, <3>1
    <3> QED BY <1>1, <2>2, <3>1, <3>2, CalmLease DEF Alive, SameMoney
  <2> QED BY <1>4, <2>1, <2>2
<1>7. \A u \in Turn : u # t /\ NoLease(u) => NoLease(u)'
  BY <1>4, <1>5 DEF NoLease
<1>8. PreparesFree'
  <2> SUFFICES ASSUME NEW a \in Boot, NEW u \in Turn, <<a, u>> \in preparing',
                      env'[u].boot = a, env'[u].state # "none"
               PROVE  NoLease(u)' /\ \A r \in reconciling' : r.turn # u
    BY DEF PreparesFree
  <2>1. u # t /\ <<a, u>> \in preparing
    BY <1>1, <1>2
  <2>2. NoLease(u) /\ \A r \in reconciling : r.turn # u
    BY <1>2, <2>1 DEF Billed, PreparesFree
  <2> QED BY <1>1, <1>7, <2>1, <2>2
<1>9. ReconcilesCover(bill)'
  <2> SUFFICES ASSUME NEW r \in reconciling
               PROVE  /\ env'[r.turn].state # "none" /\ NoLease(r.turn)'
                      /\ r.clean => MostDue(bill, r.turn)' =< r.charged
    BY <1>1 DEF ReconcilesCover
  <2>1. r.turn \in Turn /\ r.turn # t
    BY <1>3 DEF LiveTypes, MemoryTypes
  <2> QED BY <1>1, <1>2, <1>7, <2>1, CalmStep DEF Billed, ReconcilesCover
<1>10. ClosedCover(bill)'
  BY <1>1, <1>2, CalmStep DEF Billed, ClosedCover
<1> QED BY <1>1, <1>6, <1>8, <1>9, <1>10, CalmStep DEF Billed

\* A replayed envelope had no lease left; its new one charges every child in full or as
\* settled.
LEMMA ReplayBills ==
  ASSUME LiveTypes, NEW bill \in Bills, Billed(bill), [Next]_vars,
         NEW b \in Boot, NEW t \in Turn, PrepareReplay(b, t)
  PROVE  Billed(bill)'
<1> DEFINE s == SessionOf[t]
<1>0. s \in Session /\ lease \in [Boot -> [Session -> Leases \cup {None}]]
  BY LiveBudgetAssumption DEF LiveTypes, MemoryTypes
<1>1. /\ <<b, t>> \in preparing /\ preparing' = preparing \ {<<b, t>>}
      /\ UNCHANGED <<env, child, phase, spent, reconciling>>
      /\ lease' = [lease EXCEPT ![b][s] = Hydrated(t)]
      /\ env[t].state = "held" /\ env[t].boot = b
      /\ \A c \in Children(t) : child[c].state # "open"
  BY DEF PrepareReplay, Replayable, Install, durable
<1>2. NoLease(t) /\ \A r \in reconciling : r.turn # t
  BY <1>1 DEF Billed, PreparesFree
<1>3. ASSUME NEW a \in Boot, NEW z \in Session, lease'[a][z] # None
      PROVE  \/ a = b /\ z = s /\ lease'[a][z] = Hydrated(t)
             \/ lease[a][z] # None /\ lease'[a][z] = lease[a][z]
  BY <1>0, <1>1, <1>3
<1>4. Hydrated(t).turn = t
  BY DEF Hydrated
<1>5. LeasesSound(bill)'
  <2> SUFFICES ASSUME NEW a \in Boot, NEW z \in Session, lease'[a][z] # None
               PROVE  Sound(bill, a, z)'
    BY DEF LeasesSound
  <2>1. CASE a = b /\ z = s /\ lease'[a][z] = Hydrated(t)
    BY <1>1, <2>1, HydratedSound
  <2>2. CASE lease[a][z] # None /\ lease'[a][z] = lease[a][z]
    <3>1. Alive(a, lease[a][z].turn)
      BY <2>2 DEF Billed, LeasesSound, Sound
    <3> QED BY <1>1, <2>2, <3>1, CalmLease DEF Alive, SameMoney
  <2> QED BY <1>3, <2>1, <2>2
<1>6. \A u \in Turn : u # t /\ NoLease(u) => NoLease(u)'
  BY <1>3, <1>4 DEF NoLease
<1>7. PreparesFree'
  <2> SUFFICES ASSUME NEW a \in Boot, NEW u \in Turn, <<a, u>> \in preparing',
                      env[u].boot = a, env[u].state # "none"
               PROVE  NoLease(u)' /\ \A r \in reconciling : r.turn # u
    BY <1>1 DEF PreparesFree
  <2>1. u # t /\ <<a, u>> \in preparing
    BY <1>1
  <2> QED BY <1>6, <2>1 DEF Billed, PreparesFree
<1>8. ReconcilesCover(bill)'
  <2> SUFFICES ASSUME NEW r \in reconciling
               PROVE  /\ env[r.turn].state # "none" /\ NoLease(r.turn)'
                      /\ r.clean => MostDue(bill, r.turn)' =< r.charged
    BY <1>1 DEF ReconcilesCover
  <2>1. r.turn \in Turn /\ r.turn # t
    BY <1>2 DEF LiveTypes, MemoryTypes
  <2> QED BY <1>1, <1>6, <2>1, CalmStep DEF Billed, ReconcilesCover
<1>9. ClosedCover(bill)'
  BY <1>1, CalmStep DEF Billed, ClosedCover
<1> QED BY <1>1, <1>5, <1>7, <1>8, <1>9, CalmStep DEF Billed

\* A lease sets aside, for every child of its envelope, what may still be billed for it.
LEMMA ShareSetAside ==
  ASSUME LiveTypes, NEW bill \in Bills, Billed(bill),
         NEW b \in Boot, NEW s \in Session, lease[b][s] # None, NEW c \in Call
  PROVE  /\ DueShares(bill, lease[b][s].turn)[c] \in Int /\ Asides(lease[b][s])[c] \in Int
         /\ DueShares(bill, lease[b][s].turn)[c] =< Asides(lease[b][s])[c]
<1> DEFINE l == lease[b][s]
           t == l.turn
<1>1. l \in Leases /\ t \in Turn /\ \A d \in Call : l.entry[d] \in Entries
  BY LeaseParts
<1>2. Sound(bill, b, s)
  BY DEF Billed, LeasesSound
<1>3. DueShares(bill, t)[c] \in Int /\ Due(bill, c) \in Int /\ Due(bill, c) =< Worst
  BY SharesAreMoney
<1>4. SetAside(l.entry[c]) \in Nat /\ Asides(l)[c] = SetAside(l.entry[c])
  BY <1>1, LiveBudgetAssumption DEF Entries, SetAside, Asides
<1>5. CASE child[c].env # t
  BY <1>3, <1>4, <1>5 DEF DueShares
<1>6. CASE child[c].env = t
  <2>1. DueShares(bill, t)[c] = Due(bill, c)
    BY <1>6 DEF DueShares
  <2>2. l.entry[c].state # "none"
    BY <1>2, <1>6 DEF Sound, Children, Entered
  <2>3. CASE l.entry[c].state = "live"
    BY <1>3, <1>4, <2>1, <2>3 DEF SetAside
  <2>4. CASE l.entry[c].state \in {"settled", "terminal"}
    <3>1. Due(bill, c) = bill[c] /\ bill[c] =< l.entry[c].charged
      BY <1>2, <2>4 DEF Sound, EntryFollows, Due
    <3> QED BY <1>3, <1>4, <2>1, <2>4, <3>1 DEF SetAside
  <2> QED BY <1>1, <2>2, <2>3, <2>4 DEF Entries
<1> QED BY <1>5, <1>6

\* What a lease has handed out covers what may still be billed for its envelope.
LEMMA LeaseCoversDue ==
  ASSUME LiveTypes, NEW bill \in Bills, Billed(bill),
         NEW b \in Boot, NEW s \in Session, lease[b][s] # None
  PROVE  MostDue(bill, lease[b][s].turn) =< lease[b][s].charged + lease[b][s].open
<1> DEFINE l == lease[b][s]
           t == l.turn
<1>1. l \in Leases /\ t \in Turn /\ \A c \in Call : l.entry[c] \in Entries
  BY LeaseParts
<1>2. Sound(bill, b, s)
  BY DEF Billed, LeasesSound
<1>3. ASSUME NEW c \in Call
      PROVE  /\ DueShares(bill, t)[c] \in Int /\ Asides(l)[c] \in Int
             /\ DueShares(bill, t)[c] =< Asides(l)[c]
  BY ShareSetAside
<1>4. MostDue(bill, t) =< SumFunctionOnSet(Asides(l), Call)
  BY <1>3, LiveBudgetAssumption, SumMonotone DEF MostDue
<1>5. l.open + l.charged = SumFunctionOnSet(Asides(l), Call)
  BY <1>2 DEF Sound
<1>6. l.open \in Int /\ l.charged \in Int
  BY <1>1 DEF Leases
<1>7. l.charged + l.open = SumFunctionOnSet(Asides(l), Call)
  BY <1>5, <1>6
<1> QED BY <1>4, <1>7

\* A reconciliation takes the lease out of memory with all it may come to be billed.
LEMMA ReconcileBeginBills ==
  ASSUME LiveTypes, NEW bill \in Bills, Billed(bill), [Next]_vars,
         NEW b \in Boot, NEW s \in Session, NEW crash \in BOOLEAN, ReconcileBegin(b, s, crash)
  PROVE  Billed(bill)'
<1>a. lease[b][s] # None
  BY DEF ReconcileBegin
<1>b. PICK t \in Turn, n \in Int : t = lease[b][s].turn /\ n = lease[b][s].charged + lease[b][s].open
  <2>1. lease[b][s] \in Leases /\ lease[b][s].turn \in Turn
    BY <1>a, LeaseParts
  <2>2. lease[b][s].charged \in Int /\ lease[b][s].open \in Int
    BY <2>1 DEF Leases
  <2>3. lease[b][s].charged + lease[b][s].open \in Int
    BY <2>2
  <2> QED BY <2>1, <2>3, Zenon
<1> DEFINE new == [boot |-> b, turn |-> t, clean |-> ~crash, charged |-> n]
<1>c. lease \in [Boot -> [Session -> Leases \cup {None}]]
  BY DEF LiveTypes, MemoryTypes
<1>1. /\ UNCHANGED <<env, child, phase, spent, preparing>> /\ lease[b][s] # None
      /\ lease' = [lease EXCEPT ![b][s] = None]
      /\ reconciling' = reconciling \cup {new}
  BY <1>b DEF ReconcileBegin, durable
<1>2. ASSUME NEW a \in Boot, NEW z \in Session, lease'[a][z] # None
      PROVE  ~(a = b /\ z = s) /\ lease[a][z] # None /\ lease'[a][z] = lease[a][z]
  BY <1>c, <1>1, <1>2
<1>3. RowsSame /\ LeasesGo
  BY <1>1, <1>2 DEF RowsSame, LeasesGo
<1>4. LeasesSound(bill)'
  BY <1>1, <1>2, <1>3, CalmLeases DEF SameMoney
<1>5. NoLease(t)'
  BY <1>1, <1>2, <1>b, OneLeaseOfEnvelope DEF NoLease
<1>6. t \in Turn /\ Alive(b, t) /\ Sound(bill, b, s)
  BY <1>1, <1>b DEF Billed, LeasesSound, Sound
<1>7. PreparesFree'
  <2> SUFFICES ASSUME NEW a \in Boot, NEW u \in Turn, <<a, u>> \in preparing,
                      env[u].boot = a, env[u].state # "none"
               PROVE  NoLease(u)' /\ \A r \in reconciling' : r.turn # u
    BY <1>1 DEF PreparesFree
  <2>1. NoLease(u) /\ \A r \in reconciling : r.turn # u
    BY DEF Billed, PreparesFree
  <2>2. u # t
    BY <1>1, <1>b, <2>1 DEF NoLease
  <2> QED BY <1>1, <1>3, <2>1, <2>2, LeasesGoKeep
<1>8. ReconcilesCover(bill)'
  <2> SUFFICES ASSUME NEW r \in reconciling'
               PROVE  /\ env[r.turn].state # "none" /\ NoLease(r.turn)'
                      /\ r.clean => MostDue(bill, r.turn)' =< r.charged
    BY <1>1 DEF ReconcilesCover
  <2>1. CASE r \in reconciling
    BY <1>3, <2>1, CalmStep, LeasesGoKeep, <1>1 DEF Billed, ReconcilesCover
  <2>2. CASE r = new
    <3>1. MostDue(bill, t)' =< n
      BY <1>1, <1>b, CalmStep, LeaseCoversDue
    <3>2. r.turn = t /\ r.charged = n
      BY <2>2
    <3>3. env[t].state # "none"
      BY <1>6 DEF Alive
    <3> QED BY <1>5, <3>1, <3>2, <3>3
  <2> QED BY <1>1, <2>1, <2>2
<1>9. ClosedCover(bill)'
  BY <1>1, CalmStep DEF Billed, ClosedCover
<1> QED BY <1>1, <1>4, <1>7, <1>8, <1>9, CalmStep DEF Billed

\* An envelope is closed for what may still be billed, or for all its money.
LEMMA CloseBills ==
  ASSUME LiveTypes, NEW bill \in Bills, Billed(bill), [Next]_vars,
         UNCHANGED <<child, phase, spent, lease, preparing>>, reconciling' \subseteq reconciling,
         NEW t \in Turn, NEW state \in {"reconciled", "forfeited"}, NEW n \in 0 .. Money,
         Close(t, state, n),
         state = "forfeited" => n = Money,
         state = "reconciled" => NoLease(t) /\ MostDue(bill, t) =< n
  PROVE  Billed(bill)'
<1>1. /\ env \in [Turn -> Envelopes] /\ env[t].state = "held"
      /\ env' = [env EXCEPT ![t].state = state, ![t].charged = n]
  BY DEF Close, LiveTypes, RowTypes
<1>2. /\ \A u \in Turn : u # t => env'[u] = env[u]
      /\ env'[t].state = state /\ env'[t].charged = n /\ env'[t].boot = env[t].boot
  BY <1>1 DEF Envelopes
<1>3. LeasesSound(bill)'
  <2> SUFFICES ASSUME NEW b \in Boot, NEW s \in Session, lease[b][s] # None
               PROVE  Sound(bill, b, s)'
    BY DEF LeasesSound
  <2>1. lease[b][s].turn \in Turn /\ Alive(b, lease[b][s].turn)
    BY LeaseParts DEF Billed, LeasesSound, Sound
  <2>2. /\ env'[lease[b][s].turn].boot = env[lease[b][s].turn].boot
        /\ env'[lease[b][s].turn].state \notin {"none", "reconciled"}
    BY <1>2, <2>1 DEF NoLease, Alive
  <2> QED BY <2>2, CalmLease DEF SameMoney
<1>4. PreparesFree'
  BY <1>1, <1>2 DEF Billed, PreparesFree, NoLease
<1>5. ReconcilesCover(bill)'
  <2> SUFFICES ASSUME NEW r \in reconciling
               PROVE  /\ env'[r.turn].state # "none" /\ NoLease(r.turn)'
                      /\ r.clean => MostDue(bill, r.turn)' =< r.charged
    BY DEF ReconcilesCover
  <2>1. r.turn \in Turn
    BY DEF LiveTypes, MemoryTypes
  <2>2. env'[r.turn].state # "none"
    BY <1>2, <2>1 DEF Billed, ReconcilesCover
  <2> QED BY <2>2, CalmStep DEF Billed, ReconcilesCover, NoLease
<1>6. ClosedCover(bill)'
  BY <1>2, CalmStep DEF Billed, ClosedCover
<1> QED BY <1>3, <1>4, <1>5, <1>6, CalmStep DEF Billed

\* A reconciliation closes the envelope with the charge it took along, clamped to the
\* money set aside, or finds it closed.
LEMMA ReconcileEndBills ==
  ASSUME LiveTypes, NEW bill \in Bills, Billed(bill), [Next]_vars,
         NEW r \in reconciling, ReconcileEnd(r)
  PROVE  Billed(bill)'
<1>1. /\ UNCHANGED <<child, phase, spent, lease, preparing>> /\ reconciling' \subseteq reconciling
      /\ r.turn \in Turn /\ r.charged \in Int
  BY DEF ReconcileEnd, LiveTypes, MemoryTypes
<1>2. CASE r.clean /\ Close(r.turn, "reconciled", Clamp(r.charged))
  <2>1. NoLease(r.turn) /\ MostDue(bill, r.turn) =< r.charged
    BY <1>2 DEF Billed, ReconcilesCover
  <2>2. MostDue(bill, r.turn) =< Clamp(r.charged)
    <3>1. /\ MostDue(bill, r.turn) \in Int /\ 0 =< MostDue(bill, r.turn)
          /\ MostDue(bill, r.turn) =< Money
      BY <1>1, DueWithinMoney DEF Billed
    <3> QED BY <1>1, <2>1, <3>1, MoneyIsNat DEF Clamp
  <2>3. Clamp(r.charged) \in 0 .. Money
    BY <1>1, ClampWithin
  <2> QED BY <1>1, <1>2, <2>1, <2>2, <2>3, CloseBills
<1>3. CASE Close(r.turn, "forfeited", Money)
  <2>1. Money \in 0 .. Money
    BY MoneyIsNat
  <2> QED BY <1>1, <1>3, <2>1, CloseBills
<1>4. CASE UNCHANGED <<env, held, charged>>
  BY <1>1, <1>4, CalmQuiet DEF RowsSame, SameMoney
<1> QED BY <1>2, <1>3, <1>4 DEF ReconcileEnd

\* The reaper charges everything.
LEMMA ReapBills ==
  ASSUME LiveTypes, NEW bill \in Bills, Billed(bill), [Next]_vars, NEW t \in Turn, Reap(t)
  PROVE  Billed(bill)'
<1>1. Money \in 0 .. Money
  BY MoneyIsNat
<1> QED BY <1>1, CloseBills DEF Reap

-----------------------------------------------------------------------------
(* The loss of a process. *)

\* A lost process takes its leases, prepares and reconciliations along, and its calls
\* are followed by nobody: what they were billed stays billed.
LEMMA CrashBills ==
  ASSUME LiveTypes, NEW bill \in Bills, Billed(bill), [Next]_vars, NEW b \in Boot, Crash(b)
  PROVE  Billed(bill)'
<1>1. /\ UNCHANGED <<env, child, spent>>
      /\ lease' = [lease EXCEPT ![b] = [s \in Session |-> None]]
      /\ preparing' \subseteq preparing /\ reconciling' \subseteq reconciling
      /\ phase' = [c \in Call |-> IF phase[c].boot = b THEN Over ELSE phase[c]]
  BY DEF Crash, durable
<1>2. /\ lease \in [Boot -> [Session -> Leases \cup {None}]] /\ phase \in [Call -> Phases]
      /\ Over.at = "done" /\ Over.boot = None
  BY DEF LiveTypes, MemoryTypes, Over
<1>3. ASSUME NEW a \in Boot, NEW s \in Session, lease'[a][s] # None
      PROVE  a # b /\ lease[a][s] # None /\ lease'[a][s] = lease[a][s]
  BY <1>1, <1>2, <1>3
<1>4. RowsSame /\ LeasesGo
  BY <1>1, <1>3 DEF RowsSame, LeasesGo
<1>5. \A c \in Call : phase'[c] = phase[c] \/ (phase'[c].at = "done" /\ phase[c].boot = b)
  <2> TAKE c \in Call
  <2>1. CASE phase[c].boot = b
    <3>1. phase'[c] = Over
      BY <1>1, <2>1
    <3> QED BY <1>2, <2>1, <3>1
  <2>2. CASE phase[c].boot # b
    BY <1>1, <2>2
  <2> QED BY <2>1, <2>2
<1>6. CallsFollow(bill)'
  <2> SUFFICES ASSUME NEW c \in Call PROVE Follows(bill, c)'
    BY DEF CallsFollow
  <2>1. Follows(bill, c)
    BY DEF Billed, CallsFollow
  <2> QED BY <1>1, <1>5, <2>1 DEF Follows
<1>7. LeasesSound(bill)'
  <2> SUFFICES ASSUME NEW a \in Boot, NEW s \in Session, lease'[a][s] # None
               PROVE  Sound(bill, a, s)'
    BY DEF LeasesSound
  <2>1. a # b /\ lease[a][s] # None /\ lease'[a][s] = lease[a][s] /\ Sound(bill, a, s)
    BY <1>3 DEF Billed, LeasesSound
  <2>2. \A c \in Call : EntryFollows(bill, a, s, c)'
    BY <1>5, <2>1 DEF Sound, EntryFollows
  <2>3. /\ Alive(a, lease[a][s].turn)'
        /\ Children(lease[a][s].turn)' \subseteq Entered(lease[a][s])
    BY <1>1, <2>1 DEF Sound, Alive, Children
  <2>4. SameMoney(lease[a][s], lease'[a][s])
    BY <2>1 DEF SameMoney
  <2> QED BY <2>1, <2>2, <2>3, <2>4, SoundKept
<1>8. FewChildren' /\ SpentIsBilled(bill)'
  BY <1>1 DEF Billed, FewChildren, Children, SpentIsBilled, BillShares
<1>9. \A t \in Turn : MostDue(bill, t)' =< MostDue(bill, t)
  <2> TAKE t \in Turn
  <2>1. \A c \in Call : DueShares(bill, t)'[c] =< DueShares(bill, t)[c]
    <3> TAKE c \in Call
    <3>1. Due(bill, c)' =< Due(bill, c) /\ Due(bill, c)' \in Int /\ Due(bill, c) \in Int
      <4>1. bill[c] \in Nat /\ Worst \in Nat /\ bill[c] =< Worst
        BY LiveBudgetAssumption DEF Bills
      <4> QED BY <1>5, <4>1 DEF Due
    <3> QED BY <1>1, <3>1 DEF DueShares
  <2> QED BY <2>1, DueFalls
<1>10. PreparesFree' /\ ReconcilesCover(bill)' /\ ClosedCover(bill)'
  BY <1>1, <1>4, <1>9, QuietStep
<1> QED BY <1>6, <1>7, <1>8, <1>10 DEF Billed

-----------------------------------------------------------------------------
(* Steps of one call. *)

Working == {"reserved", "persisted", "refused", "calling"}

\* A step of call c in process b: nothing of another call moves, and the child row of c
\* is joined to the envelope whose lease has an entry for it, if it had none.
CallMoves(b, c, bill, next) ==
  /\ \A d \in Call : d # c => /\ phase'[d] = phase[d] /\ child'[d] = child[d]
                              /\ next[d] = bill[d]
  /\ \/ child'[c].env = child[c].env
     \/ /\ child[c].state = "none" /\ HasEntry(LeaseOf(b, c), c)
        /\ child'[c].env = LeaseOf(b, c).turn
  /\ phase[c].at = "idle" \/ phase[c].boot = b
  /\ \/ phase[c].at \notin {"settled", "done"}
     \/ phase[c].at = "settled" /\ phase'[c].at = "done" /\ next[c] = bill[c]
  /\ RowsSame
  /\ \A a \in Boot, z \in Session : ~(a = b /\ z = SessionOf[c]) => lease'[a][z] = lease[a][z]

\* Only the envelope of the lease gets a child, which the lease has an entry for.
LEMMA ChildJoins ==
  ASSUME LiveTypes, NEW bill \in Bills, NEW next \in Bills, Billed(bill),
         NEW b \in Boot, NEW c \in Call, CallMoves(b, c, bill, next), NEW t
  PROVE  /\ LeaseOf(b, c) = None \/ LeaseOf(b, c).turn # t => Children(t)' \subseteq Children(t)
         /\ HasEntry(LeaseOf(b, c), c) => Children(t)' \subseteq Children(t) \cup {c}
         /\ ~HasEntry(LeaseOf(b, c), c) => Children(t)' \subseteq Children(t)
BY DEF CallMoves, Children, HasEntry

\* What is unchanged in an entry for another call.
LEMMA OtherEntries ==
  ASSUME NEW bill, NEW next, NEW b, NEW c \in Call, CallMoves(b, c, bill, next),
         NEW a, NEW z, NEW d \in Call, d # c, EntryFollows(bill, a, z, d),
         lease'[a][z].entry[d].state = lease[a][z].entry[d].state,
         lease'[a][z].entry[d].charged = lease[a][z].entry[d].charged
  PROVE  EntryFollows(next, a, z, d)'
BY DEF CallMoves, EntryFollows

\* The entry of a call that works on, or ends, with that entry as it was.
LEMMA OwnEntry ==
  ASSUME NEW bill, NEW next, NEW b, NEW s, NEW c \in Call, EntryFollows(bill, b, s, c),
         lease'[b][s].entry[c].state = lease[b][s].entry[c].state,
         lease'[b][s].entry[c].charged = lease[b][s].entry[c].charged,
         \/ phase[c].at \in Working /\ phase'[c].at \in Working /\ phase'[c].boot = b
         \/ phase[c].at = "settled" /\ phase'[c].at = "done" /\ next[c] = bill[c]
  PROVE  EntryFollows(next, b, s, c)'
BY DEF EntryFollows, Working

\* The leases of other processes and sessions stay sound.
LEMMA OtherLease ==
  ASSUME LiveTypes, NEW bill \in Bills, NEW next \in Bills, Billed(bill),
         NEW b \in Boot, NEW c \in Call, CallMoves(b, c, bill, next),
         NEW a \in Boot, NEW z \in Session, ~(a = b /\ z = SessionOf[c]), lease[a][z] # None
  PROVE  Sound(next, a, z)'
<1>1. lease'[a][z] = lease[a][z] /\ Sound(bill, a, z) /\ lease[a][z].turn \in Turn
  BY LeaseParts DEF CallMoves, Billed, LeasesSound
<1>2. EntryFollows(next, a, z, c)'
  BY <1>1 DEF Sound, EntryFollows, CallMoves
<1>3. \A d \in Call : EntryFollows(next, a, z, d)'
  BY <1>1, <1>2, OtherEntries DEF Sound
<1>4. Alive(a, lease[a][z].turn)'
  BY <1>1 DEF Sound, Alive, CallMoves, RowsSame
<1>5. Children(lease[a][z].turn)' \subseteq Entered(lease[a][z])
  <2>1. PICK t \in Turn : t = lease[a][z].turn
    BY <1>1
  <2>2. SessionOf[c] \in Session
    BY LiveBudgetAssumption
  <2>3. LeaseOf(b, c) = None \/ LeaseOf(b, c).turn # t
    BY <2>1, <2>2, OneLeaseOfEnvelope DEF LeaseOf
  <2>4. Children(t)' \subseteq Children(t)
    BY <2>3, ChildJoins
  <2> QED BY <1>1, <2>1, <2>4 DEF Sound, Children
<1> QED BY <1>1, <1>3, <1>4, <1>5, SoundKept DEF SameMoney

\* A call that works on, or ends, with the money of its lease where it was.
LEMMA SameMoneySound ==
  ASSUME LiveTypes, NEW bill \in Bills, NEW next \in Bills, Billed(bill),
         NEW b \in Boot, NEW c \in Call, CallMoves(b, c, bill, next), phase[c].boot = b,
         LeaseOf(b, c) # None, SameMoney(LeaseOf(b, c), lease'[b][SessionOf[c]]),
         \/ phase[c].at \in Working /\ phase'[c].at \in Working /\ phase'[c].boot = b
         \/ phase[c].at = "settled" /\ phase'[c].at = "done"
  PROVE  Sound(next, b, SessionOf[c])'
<1> DEFINE s == SessionOf[c]
<1>1. s \in Session /\ lease[b][s] # None /\ SameMoney(lease[b][s], lease'[b][s])
  BY LiveBudgetAssumption DEF LeaseOf
<1>2. Sound(bill, b, s) /\ lease[b][s].turn \in Turn
  BY <1>1, HeldIsSound, LeaseParts
<1>3. /\ Alive(b, lease[b][s].turn) /\ Children(lease[b][s].turn) \subseteq Entered(lease[b][s])
      /\ \A d \in Call : EntryFollows(bill, b, s, d)
  BY <1>2, SoundParts
<1>4. RowsSame
  BY Zenon DEF CallMoves
<1>0. phase[c].at = "settled" => next[c] = bill[c]
  BY Zenon DEF CallMoves
<1>5. \A d \in Call : /\ lease'[b][s].entry[d].state = lease[b][s].entry[d].state
                      /\ lease'[b][s].entry[d].charged = lease[b][s].entry[d].charged
  BY <1>1, Zenon DEF SameMoney
<1>6. EntryFollows(next, b, s, c)'
  BY <1>0, <1>3, <1>5, OwnEntry, Zenon
<1>7. ASSUME NEW d \in Call, d # c PROVE EntryFollows(next, b, s, d)'
  BY <1>3, <1>5, <1>7, OtherEntries, Zenon
<1>8. Alive(b, lease[b][s].turn)'
  <2>1. lease'[b][s].turn = lease[b][s].turn
    BY <1>1 DEF SameMoney
  <2> QED BY <1>2, <1>3, <1>4, <2>1, AliveKept
<1>9. Children(lease[b][s].turn)' \subseteq Entered(lease[b][s])
  <2>1. PICK t \in Turn : t = lease[b][s].turn
    BY <1>2
  <2>2. \/ Children(t)' \subseteq Children(t)
        \/ HasEntry(LeaseOf(b, c), c) /\ Children(t)' \subseteq Children(t) \cup {c}
    BY ChildJoins
  <2>3. HasEntry(LeaseOf(b, c), c) => c \in Entered(lease[b][s])
    BY DEF HasEntry, Entered, LeaseOf
  <2>4. Children(t)' \subseteq Entered(lease[b][s])
    BY <1>3, <2>1, <2>2, <2>3, Zenon DEF Children
  <2>5. lease'[b][s].turn = t
    BY <1>1, <2>1 DEF SameMoney
  <2> QED BY <2>4, <2>5 DEF Children
<1> QED BY <1>1, <1>2, <1>6, <1>7, <1>8, <1>9, SoundKept

\* A step of one call keeps the bills within the accounts when its own lease stays
\* sound, its row is in order, and it raises what is due only under its own lease.
LEMMA CallMovesBills ==
  ASSUME LiveTypes, NEW bill \in Bills, NEW next \in Bills, Billed(bill),
         NEW b \in Boot, NEW c \in Call, CallMoves(b, c, bill, next),
         UNCHANGED <<preparing, reconciling>>,
         LeaseOf(b, c) = None => lease'[b][SessionOf[c]] = None,
         LeaseOf(b, c) # None => /\ Sound(next, b, SessionOf[c])'
                                 /\ lease'[b][SessionOf[c]].turn = LeaseOf(b, c).turn,
         Follows(next, c)', SpentIsBilled(next)',
         \/ Due(next, c)' =< Due(bill, c)
         \/ LeaseOf(b, c) # None /\ child'[c].env = LeaseOf(b, c).turn
  PROVE  Billed(next)'
<1> DEFINE s == SessionOf[c]
<1>0. s \in Session
  BY LiveBudgetAssumption
<1>1. LeasesGo
  BY <1>0 DEF LeasesGo, CallMoves, LeaseOf
<1>2. CallsFollow(next)'
  <2> SUFFICES ASSUME NEW d \in Call, d # c PROVE Follows(next, d)'
    BY DEF CallsFollow
  <2>1. Follows(bill, d)
    BY DEF Billed, CallsFollow
  <2> QED BY <2>1 DEF Follows, CallMoves, RowsSame
<1>3. LeasesSound(next)'
  <2> SUFFICES ASSUME NEW a \in Boot, NEW z \in Session, lease'[a][z] # None
               PROVE  Sound(next, a, z)'
    BY DEF LeasesSound
  <2>1. CASE a = b /\ z = s
    BY <2>1 DEF LeaseOf
  <2>2. CASE ~(a = b /\ z = s)
    <3>1. lease[a][z] # None
      BY <2>2 DEF CallMoves
    <3> QED BY <2>2, <3>1, OtherLease
  <2> QED BY <2>1, <2>2
<1>4. FewChildren'
  <2> SUFFICES ASSUME NEW t \in Turn PROVE Cardinality(Children(t)') =< CallsPerTurn
    BY DEF FewChildren
  <2>1. CASE LeaseOf(b, c) = None \/ LeaseOf(b, c).turn # t
    <3>1. Children(t)' \subseteq Children(t)
      BY <2>1, ChildJoins
    <3>2. IsFiniteSet(Children(t)) /\ Cardinality(Children(t)) =< CallsPerTurn
      BY FiniteParts DEF Billed, FewChildren, Children
    <3>3. Cardinality(Children(t)') =< Cardinality(Children(t))
      BY <3>1, <3>2, FS_Subset
    <3>4. Cardinality(Children(t)') \in Nat /\ Cardinality(Children(t)) \in Nat
      BY <3>1, <3>2, FS_Subset, FS_CardinalityType
    <3> QED BY <3>2, <3>3, <3>4, LiveBudgetAssumption
  <2>2. CASE LeaseOf(b, c) # None /\ LeaseOf(b, c).turn = t
    <3>1. PICK E \in SUBSET Call : E = Entered(lease'[b][s])
      BY DEF Entered
    <3>2. Children(t)' \subseteq E /\ Cardinality(E) =< CallsPerTurn
      BY <2>2, <3>1 DEF Sound, Children
    <3>3. IsFiniteSet(E)
      BY FiniteParts
    <3>4. Cardinality(Children(t)') =< Cardinality(E)
      BY <3>2, <3>3, FS_Subset
    <3>5. Cardinality(Children(t)') \in Nat /\ Cardinality(E) \in Nat
      BY <3>2, <3>3, FS_Subset, FS_CardinalityType
    <3> QED BY <3>2, <3>4, <3>5, LiveBudgetAssumption
  <2> QED BY <2>1, <2>2
<1>5. ASSUME NEW t \in Turn, NoLease(t) PROVE MostDue(next, t)' =< MostDue(bill, t)
  <2>1. LeaseOf(b, c) # None => LeaseOf(b, c).turn # t
    BY <1>0, <1>5 DEF NoLease, LeaseOf
  <2>2. \A d \in Call : Due(bill, d) \in Int /\ Due(next, d)' \in Int
    BY LiveBudgetAssumption DEF Bills, Due
  <2>3. child[c].state = "none" => child[c].env # t
    BY LiveBudgetAssumption DEF Billed, CallsFollow, Follows
  <2>4. DueShares(next, t)'[c] =< DueShares(bill, t)[c]
    <3>1. CASE child'[c].env # t
      <4>1. child[c].env # t
        BY <2>3, <3>1 DEF CallMoves
      <4> QED BY <3>1, <4>1 DEF DueShares
    <3>2. CASE child'[c].env = t
      <4>1. child[c].env = t
        BY <2>1, <3>2 DEF CallMoves, HasEntry
      <4>2. Due(next, c)' =< Due(bill, c)
        BY <2>1, <3>2
      <4> QED BY <3>2, <4>1, <4>2 DEF DueShares
    <3> QED BY <3>1, <3>2
  <2>5. ASSUME NEW d \in Call, d # c
        PROVE  DueShares(next, t)'[d] =< DueShares(bill, t)[d]
    <3>1. Due(next, d)' = Due(bill, d) /\ child'[d].env = child[d].env
      BY <2>5 DEF Due, CallMoves
    <3> QED BY <2>2, <3>1 DEF DueShares
  <2> QED BY <2>4, <2>5, DueFalls
<1>6. PreparesFree' /\ ReconcilesCover(next)' /\ ClosedCover(next)'
  BY <1>1, <1>5, QuietStep DEF CallMoves
<1> QED BY <1>2, <1>3, <1>4, <1>6 DEF Billed

\* A lease in which one entry changes sets aside as much more as that entry does.
LEMMA AsidesMove ==
  ASSUME NEW l, NEW m, NEW c \in Call, \A d \in Call : l.entry[d] \in Entries,
         \A d \in Call : d # c => m.entry[d] = l.entry[d], SetAside(m.entry[c]) \in Int
  PROVE  SumFunctionOnSet(Asides(m), Call) = SumFunctionOnSet(Asides(l), Call)
           + (SetAside(m.entry[c]) - SetAside(l.entry[c]))
<1>1. \A e \in Entries : SetAside(e) \in Int
  BY LiveBudgetAssumption DEF SetAside, Entries
<1>2. \A d \in Call : Asides(l)[d] = SetAside(l.entry[d]) /\ Asides(m)[d] = SetAside(m.entry[d])
  BY DEF Asides
<1>3. \A d \in Call : /\ Asides(l)[d] \in Int /\ Asides(m)[d] \in Int
                      /\ d # c => Asides(m)[d] = Asides(l)[d]
  BY <1>1, <1>2
<1>4. SumFunctionOnSet(Asides(m), Call)
        = SumFunctionOnSet(Asides(l), Call) + (Asides(m)[c] - Asides(l)[c])
  BY <1>3, LiveBudgetAssumption, SumChange
<1> QED BY <1>2, <1>4

\* What was billed is unchanged when a call without a bill is joined to its envelope.
LEMMA SpentSame ==
  ASSUME LiveTypes, NEW bill \in Bills, Billed(bill), UNCHANGED spent,
         NEW b \in Boot, NEW c \in Call, CallMoves(b, c, bill, bill)
  PROVE  SpentIsBilled(bill)'
<1>1. child[c].state = "none" => child[c].env = None /\ bill[c] = 0
  BY DEF Billed, CallsFollow, Follows
<1>2. ASSUME NEW t \in Turn PROVE BillShares(bill, t)' = BillShares(bill, t)
  <2>1. \A d \in Call : BillShares(bill, t)'[d] = BillShares(bill, t)[d]
    BY <1>1, LiveBudgetAssumption DEF BillShares, CallMoves
  <2> QED BY <2>1 DEF BillShares
<1> QED BY <1>2 DEF Billed, SpentIsBilled

\* A reservation moves the worst case of a call from free to open.
LEMMA ReserveBills ==
  ASSUME LiveTypes, NEW bill \in Bills, Billed(bill),
         NEW b \in Boot, NEW c \in Call, Reserve(b, c)
  PROVE  Billed(bill)'
<1> DEFINE s == SessionOf[c]
           l == lease[b][s]
           m == lease'[b][s]
<1>0. /\ s \in Session /\ lease \in [Boot -> [Session -> Leases \cup {None}]]
      /\ phase \in [Call -> Phases]
  BY LiveBudgetAssumption DEF LiveTypes, MemoryTypes
<1>1. /\ phase[c].at = "idle" /\ l # None /\ l.entry[c].state = "none"
      /\ Cardinality({x \in Call : l.entry[x].state # "none"}) < CallsPerTurn
      /\ lease' = [lease EXCEPT ![b][s] =
              [l EXCEPT !.free = @ - Worst, !.open = @ + Worst, !.entry[c].state = "live"]]
      /\ phase' = [phase EXCEPT ![c] = [at |-> "reserved", boot |-> b]]
      /\ UNCHANGED <<env, child, spent, preparing, reconciling>>
  BY DEF Reserve, LeaseOf, durable
<1>2. /\ l \in Leases /\ l.turn \in Turn /\ l.entry \in [Call -> Entries]
      /\ \A d \in Call : l.entry[d] \in Entries
      /\ Sound(bill, b, s)
  BY <1>0, <1>1, LeaseParts DEF Billed, LeasesSound
<1>3. m = [l EXCEPT !.free = @ - Worst, !.open = @ + Worst, !.entry[c].state = "live"]
  BY <1>0, <1>1
<1>4. /\ m.turn = l.turn /\ m.free = l.free - Worst /\ m.open = l.open + Worst
      /\ m.charged = l.charged
      /\ m.entry[c].state = "live" /\ \A d \in Call : d # c => m.entry[d] = l.entry[d]
  BY <1>2, <1>3 DEF Leases, Entries
<1>5. phase'[c].at = "reserved" /\ phase'[c].boot = b
  BY <1>0, <1>1
<1>6. CallMoves(b, c, bill, bill)
  <2>1. \A a \in Boot, z \in Session : ~(a = b /\ z = s) => lease'[a][z] = lease[a][z]
    BY <1>0, <1>1
  <2>2. \A d \in Call : d # c => phase'[d] = phase[d]
    BY <1>0, <1>1
  <2> QED BY <1>1, <2>1, <2>2 DEF CallMoves, RowsSame
<1>7. Sound(bill, b, s)'
  <2>1. /\ SessionOf[l.turn] = s /\ Alive(b, l.turn) /\ Children(l.turn) \subseteq Entered(l)
        /\ l.free + l.open + l.charged = Money
        /\ l.open + l.charged = SumFunctionOnSet(Asides(l), Call)
        /\ \A d \in Call : EntryFollows(bill, b, s, d)
    BY <1>2, SoundParts
  <2>2. Entered(m) = Entered(l) \cup {c} /\ c \notin Entered(l)
    BY <1>1, <1>4 DEF Entered
  <2>3. Cardinality(Entered(m)) =< CallsPerTurn
    <3>1. IsFiniteSet(Entered(l)) /\ Cardinality(Entered(l)) \in Nat
      BY FiniteParts, FS_CardinalityType DEF Entered
    <3>2. Cardinality(Entered(m)) = Cardinality(Entered(l)) + 1
      BY <2>2, <3>1, FS_AddElement
    <3>3. Cardinality(Entered(l)) < CallsPerTurn
      BY <1>1 DEF Entered
    <3> QED BY <3>1, <3>2, <3>3, LiveBudgetAssumption
  <2>4. SumFunctionOnSet(Asides(m), Call) = SumFunctionOnSet(Asides(l), Call) + Worst
    <3>1. SetAside(m.entry[c]) = Worst /\ SetAside(l.entry[c]) = 0
      BY <1>1, <1>4 DEF SetAside
    <3>2. SumFunctionOnSet(Asides(m), Call) = SumFunctionOnSet(Asides(l), Call)
            + (SetAside(m.entry[c]) - SetAside(l.entry[c]))
      <4>1. /\ SetAside(m.entry[c]) \in Int /\ \A d \in Call : l.entry[d] \in Entries
            /\ \A d \in Call : d # c => m.entry[d] = l.entry[d]
        BY <1>2, <1>4, <3>1, LiveBudgetAssumption
      <4> HIDE DEF l, m
      <4> QED BY <4>1, AsidesMove, Zenon
    <3> QED BY <3>1, <3>2, LiveBudgetAssumption
  <2>5. l.free \in Int /\ l.open \in Int /\ l.charged \in Int /\ Worst \in Int
    BY <1>2, LiveBudgetAssumption DEF Leases
  <2>6. /\ m.free + m.open + m.charged = Money
        /\ m.open + m.charged = SumFunctionOnSet(Asides(m), Call)
    <3> HIDE DEF l, m
    <3> QED BY <1>4, <2>1, <2>4, <2>5
  <2>7. \A d \in Call : EntryFollows(bill, b, s, d)'
    <3>1. ASSUME NEW d \in Call, d # c PROVE EntryFollows(bill, b, s, d)'
      <4>1. EntryFollows(bill, b, s, d) /\ m.entry[d] = l.entry[d]
        BY <1>4, <2>1, <3>1
      <4> QED BY <1>6, <3>1, <4>1, OtherEntries, Zenon
    <3>2. EntryFollows(bill, b, s, c)'
      BY <1>4, <1>5 DEF EntryFollows
    <3> QED BY <3>1, <3>2
  <2>8. Alive(b, lease[b][s].turn)' /\ SessionOf[m.turn] = s
    BY <1>1, <1>4, <2>1, Zenon DEF Alive
  <2>9. Children(lease[b][s].turn)' \subseteq Entered(m)
    BY <1>1, <1>4, <2>1, <2>2 DEF Children
  <2> QED BY <2>3, <2>6, <2>7, <2>8, <2>9 DEF Sound
<1>8. Follows(bill, c)'
  BY <1>1, <1>5 DEF Billed, CallsFollow, Follows
<1>9. Due(bill, c)' =< Due(bill, c)
  BY <1>1, <1>5, LiveBudgetAssumption DEF Due, Bills
<1> QED BY <1>1, <1>4, <1>6, <1>7, <1>8, <1>9, SpentSame, CallMovesBills DEF LeaseOf

\* The types of what a step of a call looks at.
LEMMA CallParts ==
  ASSUME LiveTypes, NEW b \in Boot, NEW c \in Call
  PROVE  /\ SessionOf[c] \in Session
         /\ lease \in [Boot -> [Session -> Leases \cup {None}]]
         /\ phase \in [Call -> Phases] /\ child \in [Call -> Rows]
         /\ LeaseOf(b, c) # None => /\ LeaseOf(b, c) \in Leases
                                    /\ LeaseOf(b, c).turn \in Turn
                                    /\ LeaseOf(b, c).entry[c] \in Entries
BY LiveBudgetAssumption, LeaseParts DEF LiveTypes, MemoryTypes, RowTypes, LeaseOf

\* A call that is stopped after the barrier bills nothing.
LEMMA StopBills ==
  ASSUME LiveTypes, NEW bill \in Bills, Billed(bill),
         NEW b \in Boot, NEW c \in Call, Stop(b, c)
  PROVE  Billed(bill)'
<1>1. /\ phase[c].at = "persisted" /\ phase[c].boot = b
      /\ phase' = [phase EXCEPT ![c].at = "refused"]
      /\ UNCHANGED <<env, child, lease, preparing, reconciling, spent>>
  BY DEF Stop, durable
<1>2. phase'[c].at = "refused" /\ phase'[c].boot = b
  BY <1>1, CallParts DEF Phases
<1>3. CallMoves(b, c, bill, bill)
  BY <1>1, CallParts DEF CallMoves, RowsSame
<1>4. LeaseOf(b, c) # None => Sound(bill, b, SessionOf[c])'
  BY <1>1, <1>2, <1>3, SameMoneySound DEF Working, SameMoney, LeaseOf
<1>5. Follows(bill, c)'
  BY <1>1, <1>2 DEF Billed, CallsFollow, Follows
<1>6. Due(bill, c)' =< Due(bill, c)
  BY <1>1, <1>2, LiveBudgetAssumption DEF Due, Bills
<1> QED BY <1>1, <1>3, <1>4, <1>5, <1>6, SpentSame, CallMovesBills DEF LeaseOf

\* The barrier before the call writes its child while the lease has an entry for it.
LEMMA PersistBills ==
  ASSUME LiveTypes, NEW bill \in Bills, Billed(bill),
         NEW b \in Boot, NEW c \in Call, Persist(b, c)
  PROVE  Billed(bill)'
<1> DEFINE s == SessionOf[c]
           l == LeaseOf(b, c)
<1>a. lease' = lease \/ lease' = [lease EXCEPT ![b][s].entry[c].flushed = TRUE]
  <2>1. \/ UNCHANGED lease
        \/ \E o \in Outcome("record") :
              lease' = IF o = "ok" THEN [lease EXCEPT ![b][s].entry[c].flushed = TRUE] ELSE lease
    BY DEF Persist
  <2> QED BY <2>1
<1>1. /\ phase[c].at = "reserved" /\ phase[c].boot = b
      /\ UNCHANGED <<env, preparing, reconciling, spent>>
      /\ lease' = lease \/ lease' = [lease EXCEPT ![b][s].entry[c].flushed = TRUE]
  BY <1>a DEF Persist
<1>2. child[c].state = "none" /\ bill[c] = 0
  BY <1>1 DEF Billed, CallsFollow, Follows
<1>3. \/ /\ HasEntry(l, c) /\ child' = [child EXCEPT ![c] = Recorded(l.turn, c)]
         /\ \E at \in {"persisted", "refused"} : phase' = [phase EXCEPT ![c].at = at]
      \/ child' = child /\ phase' = [phase EXCEPT ![c].at = "refused"]
  BY DEF Persist
<1>4. /\ phase'[c].at \in {"persisted", "refused"} /\ phase'[c].boot = b
      /\ \A d \in Call : d # c => phase'[d] = phase[d] /\ child'[d] = child[d]
  BY <1>1, <1>3, CallParts DEF Phases
<1>5. \/ HasEntry(l, c) /\ child'[c] = [state |-> "open", env |-> l.turn, charged |-> 0]
      \/ child'[c] = child[c] /\ phase'[c].at = "refused"
  BY <1>2, <1>3, CallParts DEF Recorded, Phases
<1>6. /\ \A a \in Boot, z \in Session : ~(a = b /\ z = s) => lease'[a][z] = lease[a][z]
      /\ l = None => lease'[b][s] = None
      /\ l # None => SameMoney(l, lease'[b][s])
  <2>1. CASE lease' = lease
    BY <2>1 DEF LeaseOf, SameMoney
  <2>2. CASE lease' = [lease EXCEPT ![b][s].entry[c].flushed = TRUE] /\ l # None
    <3>1. lease'[b][s] = [l EXCEPT !.entry[c].flushed = TRUE]
      BY <2>2, CallParts DEF LeaseOf
    <3>2. l \in Leases /\ l.entry[c] \in Entries
      BY <2>2, CallParts
    <3>3. SameMoney(l, [l EXCEPT !.entry[c].flushed = TRUE])
      BY <3>2 DEF SameMoney, Leases, Entries
    <3> QED BY <2>2, <3>1, <3>3, CallParts
  <2>3. l = None => lease' = lease
    BY DEF Persist, HasEntry
  <2> QED BY <1>1, <2>1, <2>2, <2>3
<1>7. CallMoves(b, c, bill, bill)
  BY <1>1, <1>2, <1>4, <1>5, <1>6 DEF CallMoves, RowsSame
<1>8. l # None => Sound(bill, b, s)'
  BY <1>1, <1>4, <1>6, <1>7, SameMoneySound DEF Working
<1>9. Follows(bill, c)'
  <2>1. l # None => l.turn \in Turn /\ env[l.turn].state # "none"
    BY CallParts DEF LeaseOf, Billed, LeasesSound, Sound, Alive
  <2> QED BY <1>1, <1>2, <1>4, <1>5, <2>1 DEF Billed, CallsFollow, Follows, HasEntry
<1>10. Due(bill, c)' =< Due(bill, c) \/ (l # None /\ child'[c].env = l.turn)
  BY <1>1, <1>2, <1>4, <1>5, LiveBudgetAssumption DEF Due, HasEntry
<1>11. l # None => lease'[b][s].turn = l.turn
  BY <1>6 DEF SameMoney
<1> QED BY <1>1, <1>6, <1>7, <1>8, <1>9, <1>10, <1>11, SpentSame, CallMovesBills

\* A change of one bill changes what was spent on its envelope by as much.
LEMMA SpentMoves ==
  ASSUME LiveTypes, NEW bill \in Bills, NEW next \in Bills, Billed(bill), UNCHANGED child,
         NEW c \in Call, child[c].env \in Turn, \A d \in Call : d # c => next[d] = bill[d],
         spent' = [spent EXCEPT ![child[c].env] = @ + (next[c] - bill[c])]
  PROVE  SpentIsBilled(next)'
<1> SUFFICES ASSUME NEW t \in Turn
             PROVE  spent'[t] = SumFunctionOnSet(BillShares(next, t)', Call)
  BY DEF SpentIsBilled
<1>1. spent[t] = SumFunctionOnSet(BillShares(bill, t), Call) /\ spent \in [Turn -> Int]
  BY DEF Billed, SpentIsBilled, LiveTypes
<1>2. \A d \in Call : /\ BillShares(bill, t)[d] \in Int /\ BillShares(next, t)'[d] \in Int
                      /\ d # c => BillShares(next, t)'[d] = BillShares(bill, t)[d]
  BY LiveBudgetAssumption DEF BillShares, Bills
<1>3. SumFunctionOnSet(BillShares(next, t)', Call)
        = SumFunctionOnSet(BillShares(bill, t), Call) + (BillShares(next, t)'[c] - BillShares(bill, t)[c])
  BY <1>2, LiveBudgetAssumption, SumChange
<1>4. CASE t = child[c].env
  <2>1. BillShares(next, t)'[c] = next[c] /\ BillShares(bill, t)[c] = bill[c]
    BY <1>4 DEF BillShares
  <2>2. spent'[t] = spent[t] + (next[c] - bill[c])
    BY <1>1, <1>4
  <2> QED BY <1>1, <1>3, <2>1, <2>2
<1>5. CASE t # child[c].env
  <2>1. BillShares(next, t)'[c] = 0 /\ BillShares(bill, t)[c] = 0 /\ spent'[t] = spent[t]
    BY <1>1, <1>5 DEF BillShares
  <2> QED BY <1>1, <1>3, <2>1
<1> QED BY <1>4, <1>5

\* A call that starts is billed its worst case, which its lease has set aside.
LEMMA InvokeBills ==
  ASSUME LiveTypes, NEW bill \in Bills, Billed(bill),
         NEW b \in Boot, NEW c \in Call, Invoke(b, c)
  PROVE  \E next \in Bills : Billed(next)'
<1> DEFINE next == [bill EXCEPT ![c] = Worst]
<1>0. bill[c] = 0 /\ child[c].state = "open" /\ child[c].env \in Turn
  BY DEF Invoke, Billed, CallsFollow, Follows
<1>1. /\ phase[c].at = "persisted" /\ phase[c].boot = b
      /\ phase' = [phase EXCEPT ![c].at = "calling"]
      /\ spent' = [spent EXCEPT ![child[c].env] = @ + Worst]
      /\ UNCHANGED <<env, child, lease, preparing, reconciling>>
  BY DEF Invoke, durable
<1>2. phase'[c].at = "calling" /\ phase'[c].boot = b
  BY <1>1, CallParts DEF Phases
<1>3. next \in Bills /\ next[c] = Worst /\ \A d \in Call : d # c => next[d] = bill[d]
  BY LiveBudgetAssumption DEF Bills
<1> HIDE DEF next
<1>4. CallMoves(b, c, bill, next)
  BY <1>1, <1>3, CallParts DEF CallMoves, RowsSame
<1>5. LeaseOf(b, c) # None => Sound(next, b, SessionOf[c])'
  BY <1>1, <1>2, <1>3, <1>4, SameMoneySound DEF Working, SameMoney, LeaseOf
<1>6. Follows(next, c)'
  BY <1>0, <1>1, <1>2, <1>3 DEF Billed, CallsFollow, Follows
<1>7. Due(next, c)' =< Due(bill, c)
  BY <1>1, <1>2, <1>3, LiveBudgetAssumption DEF Due
<1>8. SpentIsBilled(next)'
  <2>1. next[c] - bill[c] = Worst
    BY <1>0, <1>3, LiveBudgetAssumption
  <2> QED BY <1>0, <1>1, <1>3, <2>1, SpentMoves
<1> QED BY <1>1, <1>3, <1>4, <1>5, <1>6, <1>7, <1>8, CallMovesBills DEF LeaseOf

\* Settling a call returns to its lease what the call did not cost.
LEMMA SettledSound ==
  ASSUME LiveTypes, NEW bill \in Bills, NEW next \in Bills, Billed(bill),
         NEW b \in Boot, NEW c \in Call, CallMoves(b, c, bill, next), UNCHANGED <<env, child>>,
         phase[c].at \in {"refused", "calling"}, phase[c].boot = b,
         phase'[c].at = "settled",
         NEW cost \in 0 .. Worst, NEW over \in BOOLEAN, next[c] =< cost,
         LeaseOf(b, c) # None,
         lease'[b][SessionOf[c]] = Settled(LeaseOf(b, c), c, cost, over)
  PROVE  /\ Sound(next, b, SessionOf[c])'
         /\ lease'[b][SessionOf[c]].turn = LeaseOf(b, c).turn
<1> DEFINE s == SessionOf[c]
           l == lease[b][s]
           m == lease'[b][s]
<1>0. s \in Session /\ l # None
  BY LiveBudgetAssumption DEF LeaseOf
<1>1. /\ l \in Leases /\ l.turn \in Turn /\ \A d \in Call : l.entry[d] \in Entries
      /\ l.entry \in [Call -> Entries] /\ s \in Session /\ l # None
      /\ Sound(bill, b, s)
  BY <1>0, HeldIsSound, LeaseParts
<1>2. /\ SessionOf[l.turn] = s /\ Alive(b, l.turn) /\ Children(l.turn) \subseteq Entered(l)
      /\ l.free + l.open + l.charged = Money
      /\ l.open + l.charged = SumFunctionOnSet(Asides(l), Call)
      /\ \A d \in Call : EntryFollows(bill, b, s, d)
      /\ Cardinality(Entered(l)) =< CallsPerTurn
  BY <1>1, SoundParts
<1>3. l.entry[c].state \in {"none", "live"}
  BY <1>1, <1>2 DEF EntryFollows, Entries
<1>4. CASE l.entry[c].state = "none"
  <2>1. m = l
    BY <1>1, <1>4 DEF Settled, HasEntry, LeaseOf
  <2>2. EntryFollows(next, b, s, c)'
    BY <1>4, <2>1 DEF EntryFollows
  <2>3. \A d \in Call : EntryFollows(next, b, s, d)'
    BY <1>2, <2>1, <2>2, OtherEntries
  <2>4. Alive(b, lease[b][s].turn)' /\ Children(lease[b][s].turn)' \subseteq Entered(lease[b][s])
    BY <1>2, <2>1 DEF Alive, Children
  <2>5. SameMoney(lease[b][s], lease'[b][s])
    BY <2>1 DEF SameMoney
  <2> QED BY <1>1, <2>1, <2>3, <2>4, <2>5, SoundKept DEF LeaseOf
<1>5. CASE l.entry[c].state = "live"
  <2>1. m = [l EXCEPT !.open = @ - Worst, !.charged = @ + cost, !.free = @ + (Worst - cost),
                      !.revoked = @ \/ over,
                      !.entry[c] = [@ EXCEPT !.state = "settled", !.charged = cost, !.over = over]]
    BY <1>1, <1>5 DEF Settled, HasEntry, LeaseOf
  <2>2. /\ m.turn = l.turn /\ m.open = l.open - Worst /\ m.charged = l.charged + cost
        /\ m.free = l.free + (Worst - cost)
        /\ m.entry[c].state = "settled" /\ m.entry[c].charged = cost
        /\ \A d \in Call : d # c => m.entry[d] = l.entry[d]
    BY <1>1, <2>1 DEF Leases, Entries
  <2>3. Entered(m) = Entered(l)
    BY <1>5, <2>2 DEF Entered
  <2>4. SumFunctionOnSet(Asides(m), Call) = SumFunctionOnSet(Asides(l), Call) + (cost - Worst)
    <3>1. SetAside(m.entry[c]) = cost /\ SetAside(l.entry[c]) = Worst
      BY <1>5, <2>2 DEF SetAside
    <3>2. SumFunctionOnSet(Asides(m), Call) = SumFunctionOnSet(Asides(l), Call)
            + (SetAside(m.entry[c]) - SetAside(l.entry[c]))
      <4>1. /\ SetAside(m.entry[c]) \in Int /\ \A d \in Call : l.entry[d] \in Entries
            /\ \A d \in Call : d # c => m.entry[d] = l.entry[d]
        BY <1>1, <2>2, <3>1
      <4> HIDE DEF l, m
      <4> QED BY <4>1, AsidesMove, Zenon
    <3> QED BY <3>1, <3>2
  <2>5. l.free \in Int /\ l.open \in Int /\ l.charged \in Int /\ Worst \in Int /\ cost \in Int
    BY <1>1, LiveBudgetAssumption DEF Leases
  <2>6. /\ m.free + m.open + m.charged = Money
        /\ m.open + m.charged = SumFunctionOnSet(Asides(m), Call)
    <3> HIDE DEF l, m
    <3> QED BY <1>2, <2>2, <2>4, <2>5
  <2>7. EntryFollows(next, b, s, c)'
    BY <2>2 DEF EntryFollows
  <2>8. \A d \in Call : EntryFollows(next, b, s, d)'
    <3> SUFFICES ASSUME NEW d \in Call, d # c PROVE EntryFollows(next, b, s, d)'
      BY <2>7
    <3>1. EntryFollows(bill, b, s, d) /\ m.entry[d] = l.entry[d]
      BY <1>2, <2>2
    <3> QED BY <3>1, OtherEntries, Zenon
  <2>9. Alive(b, lease[b][s].turn)' /\ SessionOf[m.turn] = s
    BY <1>2, <2>2 DEF Alive
  <2>10. Children(lease[b][s].turn)' \subseteq Entered(m)
    BY <1>2, <2>2, <2>3 DEF Children
  <2> QED BY <1>2, <2>2, <2>3, <2>6, <2>8, <2>9, <2>10 DEF Sound, LeaseOf
<1> QED BY <1>3, <1>4, <1>5

\* An answer settles the bill at the true cost, a refused call at nothing.
LEMMA AnsweredBills ==
  ASSUME LiveTypes, NEW bill \in Bills, Billed(bill),
         NEW b \in Boot, NEW c \in Call, Answered(b, c)
  PROVE  \E next \in Bills : Billed(next)'
<1> DEFINE s == SessionOf[c]
           l == LeaseOf(b, c)
<1>1. /\ phase[c].boot = b /\ phase' = [phase EXCEPT ![c].at = "settled"]
      /\ UNCHANGED <<env, child, preparing, reconciling>>
  BY DEF Answered, durable
<1>2. phase'[c].at = "settled" /\ phase'[c].boot = b
  BY <1>1, CallParts DEF Phases
<1>3. Follows(bill, c)
  BY DEF Billed, CallsFollow
<1>4. ASSUME NEW next \in Bills, NEW cost \in 0 .. Worst, NEW over \in BOOLEAN,
             \A d \in Call : d # c => next[d] = bill[d],
             phase[c].at \in {"refused", "calling"},
             next[c] =< cost, next[c] =< bill[c], bill[c] = 0 => next[c] = 0,
             lease' = [lease EXCEPT ![b][s] = Settled(l, c, cost, over)],
             SpentIsBilled(next)'
      PROVE  Billed(next)'
  <2>1. CallMoves(b, c, bill, next)
    BY <1>1, <1>4, CallParts DEF CallMoves, RowsSame
  <2>2. lease'[b][s] = Settled(l, c, cost, over)
    BY <1>4, CallParts
  <2>3. l # None => Sound(next, b, s)' /\ lease'[b][s].turn = l.turn
    BY <1>1, <1>2, <1>4, <2>1, <2>2, SettledSound
  <2>4. l = None => lease'[b][s] = None
    BY <2>2 DEF Settled
  <2>5. Follows(next, c)'
    BY <1>1, <1>2, <1>3, <1>4, LiveBudgetAssumption DEF Follows
  <2>6. Due(next, c)' =< Due(bill, c)
    BY <1>2, <1>4 DEF Due
  <2> QED BY <1>1, <1>4, <2>1, <2>3, <2>4, <2>5, <2>6, CallMovesBills
<1>5. CASE phase[c].at = "refused"
  <2>1. lease' = [lease EXCEPT ![b][s] = Settled(l, c, Worst, FALSE)] /\ UNCHANGED spent
    BY <1>5 DEF Answered, Install
  <2>2. Worst \in 0 .. Worst /\ bill[c] =< Worst /\ FALSE \in BOOLEAN
    BY LiveBudgetAssumption DEF Bills
  <2>3. SpentIsBilled(bill)'
    BY <1>1, <2>1 DEF Billed, SpentIsBilled, BillShares
  <2>4. bill[c] =< bill[c]
    BY LiveBudgetAssumption DEF Bills
  <2> QED BY <1>4, <1>5, <2>1, <2>2, <2>3, <2>4
<1>6. CASE phase[c].at = "calling"
  <2>1. PICK cost \in 0 .. Worst, over \in BOOLEAN :
          /\ lease' = [lease EXCEPT ![b][s] = Settled(l, c, cost, over)]
          /\ spent' = [spent EXCEPT ![child[c].env] = @ - (Worst - cost)]
    BY <1>6 DEF Answered, Install
  <2>2. bill[c] = Worst /\ child[c].env \in Turn
    BY <1>3, <1>6 DEF Follows
  <2> DEFINE next == [bill EXCEPT ![c] = cost]
  <2>3. next \in Bills /\ next[c] = cost /\ \A d \in Call : d # c => next[d] = bill[d]
    BY DEF Bills
  <2> HIDE DEF next
  <2>4. spent' = [spent EXCEPT ![child[c].env] = @ + (next[c] - bill[c])]
    <3>1. spent \in [Turn -> Int] /\ Worst \in Int /\ cost \in Int
      BY LiveBudgetAssumption DEF LiveTypes
    <3>2. spent[child[c].env] - (Worst - cost) = spent[child[c].env] + (next[c] - bill[c])
      BY <2>2, <2>3, <3>1
    <3> QED BY <2>1, <3>2
  <2>5. SpentIsBilled(next)'
    BY <1>1, <2>2, <2>3, <2>4, SpentMoves, Zenon
  <2>6. next[c] =< cost /\ next[c] =< bill[c] /\ (bill[c] = 0 => next[c] = 0)
    BY <2>2, <2>3, LiveBudgetAssumption
  <2> QED BY <1>4, <1>6, <2>1, <2>3, <2>5, <2>6
<1> QED BY <1>5, <1>6 DEF Answered

\* The barrier after the call writes a child that is settled for no less than the bill.
LEMMA PersistSettlementBills ==
  ASSUME LiveTypes, NEW bill \in Bills, Billed(bill),
         NEW b \in Boot, NEW c \in Call, PersistSettlement(b, c)
  PROVE  Billed(bill)'
<1> DEFINE s == SessionOf[c]
           l == LeaseOf(b, c)
<1>a. /\ phase[c] = [at |-> "settled", boot |-> b]
      /\ phase' = [phase EXCEPT ![c] = Over]
      /\ UNCHANGED <<preparing, reconciling, spent>>
  BY Zenon DEF PersistSettlement
<1>1. /\ phase[c].at = "settled" /\ phase[c].boot = b
      /\ phase' = [phase EXCEPT ![c] = Over]
      /\ UNCHANGED <<preparing, reconciling, spent>>
  BY <1>a
<1>2. phase'[c].at = "done" /\ \A d \in Call : d # c => phase'[d] = phase[d]
  BY <1>1, CallParts DEF Over
<1>3. Follows(bill, c)
  BY DEF Billed, CallsFollow
<1>4. CASE ~HasEntry(l, c)
  <2>1. UNCHANGED <<env, child, lease>>
    BY <1>4 DEF PersistSettlement
  <2>2. CallMoves(b, c, bill, bill)
    BY <1>1, <1>2, <2>1 DEF CallMoves, RowsSame
  <2>3. l # None => Sound(bill, b, s)'
    BY <1>1, <1>2, <2>1, <2>2, SameMoneySound DEF SameMoney, LeaseOf
  <2>4. Follows(bill, c)'
    BY <1>1, <1>2, <1>3, <2>1 DEF Follows
  <2>5. Due(bill, c)' =< Due(bill, c)
    BY <1>1, <1>2, LiveBudgetAssumption DEF Due, Bills
  <2> QED BY <1>1, <2>1, <2>2, <2>3, <2>4, <2>5, SpentSame, CallMovesBills DEF LeaseOf
<1>5. CASE HasEntry(l, c)
  <2>1. PICK row \in {child[c], Recorded(l.turn, c)}, v \in BOOLEAN,
             r \in BOOLEAN, f \in BOOLEAN, k \in BOOLEAN :
          SettlementWrites(b, c, row, v, r, f, k)
    BY <1>5, SettlementShape
  <2>2. /\ l # None /\ l \in Leases /\ l.turn \in Turn /\ l.entry[c] \in Entries
        /\ l.entry[c].state # "none"
    BY <1>5, CallParts DEF HasEntry
  <2>3. l.entry[c].state = "settled" => bill[c] =< l.entry[c].charged
    BY <2>2, CallParts DEF LeaseOf, Billed, LeasesSound, Sound, EntryFollows
  <2>4. RowsSame /\ env[l.turn].state # "none" /\ env'[l.turn].state # "none"
    <3>1. RowsSame
      BY <2>1, RowsSameWhen DEF SettlementWrites
    <3>2. env[l.turn].state # "none"
      BY <2>2, CallParts DEF LeaseOf, Billed, LeasesSound, Sound, Alive
    <3> QED BY <2>2, <3>1, <3>2 DEF RowsSame
  <2>5. \/ row = child[c]
        \/ child[c].state = "none" /\ row = [state |-> "open", env |-> l.turn, charged |-> 0]
    BY <2>1 DEF Recorded
  <2>6. child[c].state \in {"none", "open"} /\ child[c] \in Rows
    BY <1>1, <1>3, CallParts DEF Follows, Rows
  <2>7. /\ \A d \in Call : d # c => child'[d] = child[d]
        /\ \/ child'[c] = row
           \/ l.entry[c].state = "settled" /\ child'[c] = SettledRow(row, l.entry[c])
    BY <2>1, CallParts DEF SettlementWrites
  <2>8. /\ child'[c].env = row.env
        /\ child'[c].state = "none" => row.state = "none"
        /\ child'[c].state # "none" => row.state # "none"
        /\ child'[c].state = "settled" => /\ l.entry[c].state = "settled"
                                          /\ child'[c].charged = l.entry[c].charged
    <3>1. row \in Rows /\ row.state \in {"none", "open"}
      BY <2>2, <2>5, <2>6, LiveBudgetAssumption DEF Rows
    <3>2. CASE child'[c] = row
      BY <3>1, <3>2
    <3>3. CASE l.entry[c].state = "settled" /\ child'[c] = SettledRow(row, l.entry[c])
      <4>1. CASE row.state = "none"
        BY <3>3, <4>1 DEF SettledRow
      <4>2. CASE row.state = "open"
        <5>1. child'[c] = [row EXCEPT !.charged = l.entry[c].charged,
                                      !.state = IF l.entry[c].over THEN "revoked" ELSE "settled"]
          BY <3>3, <4>2 DEF SettledRow
        <5>2. /\ child'[c].env = row.env /\ child'[c].charged = l.entry[c].charged
              /\ child'[c].state \in {"revoked", "settled"}
          BY <3>1, <5>1 DEF Rows
        <5> QED BY <3>3, <4>2, <5>2
      <4> QED BY <3>1, <4>1, <4>2
    <3> QED BY <2>7, <3>2, <3>3
  <2>9. /\ \A a \in Boot, z \in Session : ~(a = b /\ z = s) => lease'[a][z] = lease[a][z]
        /\ SameMoney(l, lease'[b][s])
    <3>1. lease' = [lease EXCEPT ![b][s] =
             [l EXCEPT !.revoked = @ \/ r, !.entry[c].flushed = f, !.entry[c].settleFlushed = k]]
      BY <2>1 DEF SettlementWrites
    <3>2. lease'[b][s] =
             [l EXCEPT !.revoked = @ \/ r, !.entry[c].flushed = f, !.entry[c].settleFlushed = k]
      BY <3>1, CallParts
    <3>3. SameMoney(l, [l EXCEPT !.revoked = @ \/ r, !.entry[c].flushed = f,
                                 !.entry[c].settleFlushed = k])
      BY <2>2 DEF SameMoney, Leases, Entries
    <3> QED BY <3>1, <3>2, <3>3, CallParts
  <2>10. CallMoves(b, c, bill, bill)
    BY <1>1, <1>2, <1>5, <2>4, <2>5, <2>7, <2>8, <2>9 DEF CallMoves
  <2>11. Sound(bill, b, s)'
    BY <1>1, <1>2, <2>2, <2>9, <2>10, SameMoneySound
  <2>12. Follows(bill, c)'
    BY <1>1, <1>2, <1>3, <2>2, <2>3, <2>4, <2>5, <2>8 DEF Follows, RowsSame
  <2>13. Due(bill, c)' =< Due(bill, c)
    BY <1>1, <1>2, LiveBudgetAssumption DEF Due, Bills
  <2>14. lease'[b][s].turn = l.turn
    BY <2>9 DEF SameMoney
  <2> QED BY <1>1, <2>2, <2>10, <2>11, <2>12, <2>13, <2>14, SpentSame, CallMovesBills
<1> QED BY <1>4, <1>5

-----------------------------------------------------------------------------
(* A bill of the calls explains every state. *)

BillsKept == \E bill \in Bills : Billed(bill)

\* At first nothing is called and nothing is billed.
LEMMA InitBills == Init => BillsKept
<1> SUFFICES ASSUME Init PROVE BillsKept
  OBVIOUS
<1> DEFINE bill == [c \in Call |-> 0]
<1>0. bill \in Bills
  BY LiveBudgetAssumption DEF Bills
<1>1. /\ \A c \in Call : bill[c] = 0 /\ child[c].env = None /\ child[c].state = "none"
      /\ \A c \in Call : phase[c].at = "idle"
      /\ \A b \in Boot, s \in Session : lease[b][s] = None
      /\ \A t \in Turn : env[t].state = "none" /\ spent[t] = 0
      /\ preparing = {} /\ reconciling = {}
  BY DEF Init
<1>2. CallsFollow(bill)
  BY <1>1 DEF CallsFollow, Follows
<1>3. LeasesSound(bill) /\ PreparesFree /\ ReconcilesCover(bill) /\ ClosedCover(bill)
  BY <1>1 DEF LeasesSound, PreparesFree, ReconcilesCover, ClosedCover
<1>4. FewChildren
  <2>1. \A t \in Turn : Children(t) = {}
    BY <1>1, LiveBudgetAssumption DEF Children
  <2>2. \A t \in Turn : Cardinality(Children(t)) = 0
    BY <2>1, FS_EmptySet
  <2> QED BY <2>2, LiveBudgetAssumption DEF FewChildren
<1>5. SpentIsBilled(bill)
  <2> SUFFICES ASSUME NEW t \in Turn
               PROVE  spent[t] = SumFunctionOnSet(BillShares(bill, t), Call)
    BY DEF SpentIsBilled
  <2>1. \A c \in Call : BillShares(bill, t)[c] = 0
    BY DEF BillShares
  <2>2. SumFunctionOnSet(BillShares(bill, t), Call) = 0 * Cardinality(Call)
    BY <2>1, LiveBudgetAssumption, SumOfConstant
  <2>3. Cardinality(Call) \in Nat
    BY LiveBudgetAssumption, FS_CardinalityType
  <2> QED BY <1>1, <2>2, <2>3
<1> HIDE DEF bill
<1> QED BY <1>0, <1>2, <1>3, <1>4, <1>5 DEF BillsKept, Billed

\* Every step leaves a bill that explains the state.
LEMMA BillsStep ==
  ASSUME LiveTypes, BillsKept, [Next]_vars
  PROVE  BillsKept'
<1>1. PICK bill \in Bills : Billed(bill)
  BY DEF BillsKept
<1> SUFFICES \E next \in Bills : Billed(next)'
  BY DEF BillsKept, Bills
<1>2. ASSUME NEW b \in Boot, NEW t \in Turn,
             \/ PrepareBegin(b, t) \/ PrepareFresh(b, t)
             \/ PrepareReplay(b, t) \/ PrepareRefused(b, t)
      PROVE  Billed(bill)'
  BY <1>1, <1>2, BeginBills, FreshBills, ReplayBills, RefusedBills
<1>3. ASSUME NEW b \in Boot, NEW c \in Call,
             Reserve(b, c) \/ Persist(b, c) \/ Stop(b, c) \/ PersistSettlement(b, c)
      PROVE  Billed(bill)'
  BY <1>1, <1>3, ReserveBills, PersistBills, StopBills, PersistSettlementBills
<1>4. ASSUME NEW b \in Boot, NEW c \in Call, Invoke(b, c) \/ Answered(b, c)
      PROVE  \E next \in Bills : Billed(next)'
  BY <1>1, <1>4, InvokeBills, AnsweredBills
<1>5. ASSUME NEW b \in Boot, NEW s \in Session,
             Revoke(b, s) \/ \E crash \in BOOLEAN : ReconcileBegin(b, s, crash)
      PROVE  Billed(bill)'
  BY <1>1, <1>5, RevokeBills, ReconcileBeginBills
<1>6. ASSUME NEW r \in reconciling, ReconcileEnd(r) PROVE Billed(bill)'
  BY <1>1, <1>6, ReconcileEndBills
<1>7. ASSUME NEW t \in Turn, Reap(t) PROVE Billed(bill)'
  BY <1>1, <1>7, ReapBills
<1>8. CASE Midnight \/ UNCHANGED vars
  BY <1>1, <1>8, MidnightBills
<1>9. ASSUME NEW b \in Boot, Crash(b) PROVE Billed(bill)'
  BY <1>1, <1>9, CrashBills
<1> QED BY <1>1, <1>2, <1>3, <1>4, <1>5, <1>6, <1>7, <1>8, <1>9 DEF Next

\* The invariant behind the theorems of this module.
LiveInv == LiveTypes /\ BillsKept

\* The types and a bill that explains the state hold throughout.
LEMMA LiveInvHolds == Spec => []LiveInv
<1>1. Init => LiveInv
  BY InitTypes, InitBills DEF LiveInv
<1>2. LiveInv /\ [Next]_vars => LiveInv'
  BY TypesStep, BillsStep DEF LiveInv
<1> QED BY <1>1, <1>2, PTL DEF Spec


-----------------------------------------------------------------------------
(* No money is minted. *)

\* What a call has been promised and not begun with, and what it was billed, is set
\* aside for it in the lease of its envelope.
LEMMA PromisedOrBilled ==
  ASSUME LiveTypes, NEW bill \in Bills, Billed(bill),
         NEW b \in Boot, NEW s \in Session, lease[b][s] # None, NEW c \in Call
  PROVE  IF c \in Unstarted(b, lease[b][s].turn)
         THEN bill[c] = 0 /\ Asides(lease[b][s])[c] = Worst
         ELSE BillShares(bill, lease[b][s].turn)[c] =< Asides(lease[b][s])[c]
<1> DEFINE l == lease[b][s]
           t == l.turn
<1>1. CASE c \in Unstarted(b, t)
  <2>1. /\ phase[c].at \in {"reserved", "persisted"}
        /\ lease[b][SessionOf[c]] # None /\ lease[b][SessionOf[c]].turn = t
        /\ lease[b][SessionOf[c]].entry[c].state = "live"
    BY <1>1 DEF Unstarted, LeaseOf, HasEntry
  <2>2. SessionOf[c] = s
    BY <2>1, OneLeaseOfEnvelope, CallParts
  <2>3. bill[c] = 0
    BY <2>1 DEF Billed, CallsFollow, Follows
  <2>4. Asides(l)[c] = Worst
    BY <2>1, <2>2 DEF Asides, SetAside
  <2> QED BY <1>1, <2>3, <2>4
<1>2. CASE c \notin Unstarted(b, t)
  <2>1. /\ DueShares(bill, t)[c] \in Int /\ Asides(l)[c] \in Int
        /\ DueShares(bill, t)[c] =< Asides(l)[c]
    BY ShareSetAside
  <2>2. BillShares(bill, t)[c] \in Int /\ BillShares(bill, t)[c] =< DueShares(bill, t)[c]
    BY SharesAreMoney DEF BillShares, DueShares
  <2>3. BillShares(bill, t)[c] =< Asides(l)[c]
    BY <2>1, <2>2
  <2> QED BY <1>2, <2>3
<1> QED BY <1>1, <1>2

\* A lease never promises more than its envelope has left.
LEMMA NotMinted ==
  ASSUME LiveTypes, NEW bill \in Bills, Billed(bill),
         NEW b \in Boot, NEW s \in Session, lease[b][s] # None
  PROVE  LET l == lease[b][s]
         IN  l.free + Worst * Cardinality(Unstarted(b, l.turn)) + spent[l.turn] =< Money
<1> DEFINE l == lease[b][s]
           t == l.turn
           U == Unstarted(b, t)
           all == [c \in Call |-> Worst]
           promised == [c \in Call |-> IF c \in U THEN all[c] ELSE 0]
           both == [c \in Call |-> promised[c] + BillShares(bill, t)[c]]
<1>1. l \in Leases /\ t \in Turn /\ \A c \in Call : l.entry[c] \in Entries
  BY LeaseParts
<1>2. Sound(bill, b, s)
  BY DEF Billed, LeasesSound
<1>3. U \in SUBSET Call /\ IsFiniteSet(U) /\ IsFiniteSet(Call)
  BY FiniteParts, LiveBudgetAssumption DEF Unstarted
<1>4. SumFunctionOnSet(promised, Call) = Worst * Cardinality(U)
  <2>1. SumFunctionOnSet(promised, Call) = SumFunctionOnSet(all, U)
    BY <1>3, LiveBudgetAssumption, SumOfPart
  <2>2. SumFunctionOnSet(all, U) = Worst * Cardinality(U)
    BY <1>3, LiveBudgetAssumption, SumOfConstant
  <2> QED BY <2>1, <2>2
<1>5. spent[t] = SumFunctionOnSet(BillShares(bill, t), Call)
  BY <1>1 DEF Billed, SpentIsBilled
<1>6. ASSUME NEW c \in Call
      PROVE  /\ promised[c] \in Int /\ BillShares(bill, t)[c] \in Int
             /\ both[c] = promised[c] + BillShares(bill, t)[c]
             /\ both[c] \in Int /\ Asides(l)[c] \in Int /\ both[c] =< Asides(l)[c]
  <2>1. /\ BillShares(bill, t)[c] \in Int /\ Asides(l)[c] \in Int
        /\ promised[c] = IF c \in U THEN Worst ELSE 0
    BY <1>1, SharesAreMoney, ShareSetAside
  <2>2. CASE c \in U
    <3>1. bill[c] = 0 /\ Asides(l)[c] = Worst
      BY <2>2, PromisedOrBilled
    <3>2. BillShares(bill, t)[c] = 0
      BY <3>1 DEF BillShares
    <3> HIDE DEF promised, U
    <3> QED BY <2>1, <2>2, <3>1, <3>2, LiveBudgetAssumption
  <2>3. CASE c \notin U
    <3>1. BillShares(bill, t)[c] =< Asides(l)[c]
      BY <2>3, PromisedOrBilled
    <3> HIDE DEF promised, U
    <3> QED BY <2>1, <2>3, <3>1
  <2> QED BY <2>2, <2>3
<1> HIDE DEF promised, both
<1>7. SumFunctionOnSet(both, Call)
        = SumFunctionOnSet(promised, Call) + SumFunctionOnSet(BillShares(bill, t), Call)
  BY <1>3, <1>6, SumPlus
<1>8. SumFunctionOnSet(both, Call) =< SumFunctionOnSet(Asides(l), Call)
  BY <1>3, <1>6, SumMonotone
<1>9. /\ l.free + l.open + l.charged = Money
      /\ l.open + l.charged = SumFunctionOnSet(Asides(l), Call)
      /\ l.free \in Int /\ l.open \in Int /\ l.charged \in Int
  BY <1>1, <1>2 DEF Sound, Leases
<1>10. /\ SumFunctionOnSet(promised, Call) \in Int /\ SumFunctionOnSet(both, Call) \in Int
       /\ SumFunctionOnSet(BillShares(bill, t), Call) \in Int
       /\ SumFunctionOnSet(Asides(l), Call) \in Int
  BY <1>3, <1>6, SumIsNumber
<1>11. l.free + SumFunctionOnSet(promised, Call) + spent[t] =< Money
  BY <1>5, <1>7, <1>8, <1>9, <1>10, MoneyIsNat
<1> QED BY <1>4, <1>11

\* What a process may still hand out for an envelope, what it has handed out to calls
\* that have not begun, and what the provider may bill for those that have, never exceed
\* the envelope, for any number of processes and calls: no replay, retry, crash or
\* overwritten lease mints money.
THEOREM MoneyIsNotMinted == Spec => []NoMintedMoney
<1>1. LiveInv => NoMintedMoney
  BY NotMinted DEF LiveInv, BillsKept, NoMintedMoney
<1> QED BY LiveInvHolds, <1>1, PTL


-----------------------------------------------------------------------------
(* What the provider may bill is covered. *)

\* Nothing is billed on a key that acquired nothing; what is billed fits the money of
\* the envelope and, once it is closed, its charge.
BillFits(t) ==
  /\ spent[t] \in Nat /\ spent[t] =< Money
  /\ Closed(t) => spent[t] =< env[t].charged
  /\ env[t].state = "none" => spent[t] = 0
SpentCovered == \A t \in Turn : BillFits(t)

\* A bill that explains the state fits the envelopes.
LEMMA BilledFits ==
  ASSUME LiveTypes, NEW bill \in Bills, Billed(bill), NEW t \in Turn
  PROVE  BillFits(t)
<1>0. IsFiniteSet(Call) /\ FewChildren
  BY LiveBudgetAssumption DEF Billed
<1>1. spent[t] = SumFunctionOnSet(BillShares(bill, t), Call)
  BY DEF Billed, SpentIsBilled
<1>2. \A c \in Call : BillShares(bill, t)[c] \in Nat
  BY SharesAreMoney DEF BillShares
<1>3. spent[t] \in Nat
  BY <1>0, <1>1, <1>2, SumOfNaturals
<1>4. spent[t] =< MostDue(bill, t)
  <2>1. \A c \in Call : /\ BillShares(bill, t)[c] \in Int /\ DueShares(bill, t)[c] \in Int
                        /\ BillShares(bill, t)[c] =< DueShares(bill, t)[c]
    BY SharesAreMoney DEF BillShares, DueShares
  <2> QED BY <1>0, <1>1, <2>1, SumMonotone DEF MostDue
<1>5. MostDue(bill, t) \in Int /\ MostDue(bill, t) =< Money
  BY <1>0, DueWithinMoney
<1>6. spent[t] =< Money
  BY <1>3, <1>4, <1>5, MoneyIsNat
<1>7. ASSUME Closed(t) PROVE spent[t] =< env[t].charged
  <2>1. \/ env[t].state = "forfeited" /\ env[t].charged = Money
        \/ env[t].state = "reconciled" /\ MostDue(bill, t) =< env[t].charged
    BY <1>7 DEF Billed, ClosedCover, Closed
  <2>2. env[t].charged \in Int
    BY MoneyIsNat DEF LiveTypes, RowTypes, Envelopes
  <2> QED BY <1>3, <1>4, <1>5, <1>6, <2>1, <2>2
<1>8. ASSUME env[t].state = "none" PROVE spent[t] = 0
  <2>1. Children(t) = {}
    BY <1>8, UnusedEnvelope
  <2>2. \A c \in Call : BillShares(bill, t)[c] = 0
    BY <2>1 DEF BillShares, Children
  <2>3. SumFunctionOnSet(BillShares(bill, t), Call) = 0 * Cardinality(Call)
    BY <1>0, <2>2, SumOfConstant
  <2>4. Cardinality(Call) \in Nat
    BY <1>0, FS_CardinalityType
  <2> QED BY <1>1, <2>3, <2>4
<1> QED BY <1>3, <1>6, <1>7, <1>8 DEF BillFits

\* So does what the provider may bill in every reachable state.
LEMMA SpentIsCovered == LiveInv => SpentCovered
BY BilledFits DEF LiveInv, BillsKept, SpentCovered

\* Every row, lease, phase and counter stays well formed: in particular no counter and no
\* bill ever falls below zero.
THEOREM LiveTypesHold == Spec => []LiveTypeOK
<1>1. LiveInv /\ CountersMatchEnvelopes => LiveTypeOK
  <2> SUFFICES ASSUME LiveInv, CountersMatchEnvelopes PROVE LiveTypeOK
    OBVIOUS
  <2>0. LiveTypes
    BY DEF LiveInv
  <2>1. \A k \in Counter : held[k] \in Nat
    BY <2>0, CounterParts, MoneyIsNat, OneMoreHeld DEF CountersMatchEnvelopes
  <2>2. \A k \in Counter : charged[k] \in Nat
    BY <2>0, CounterParts, SumOfNaturals DEF CountersMatchEnvelopes, ChargeOn
  <2>3. \A t \in Turn : spent[t] \in Nat
    BY SpentIsCovered DEF SpentCovered, BillFits
  <2> QED BY <2>0, <2>1, <2>2, <2>3 DEF LiveTypes, LiveTypeOK
<1> QED BY <1>1, LiveInvHolds, CountersHold, PTL


-----------------------------------------------------------------------------
(* The refinement of the abstract accounts. *)

account == [t \in Turn |-> AccountOf(t)]

\* The abstract sums are taken as the concrete ones are.
LEMMA SameSum == \A f, S : Accounts!SumFunctionOnSet(f, S) = SumFunctionOnSet(f, S)
BY DEF SumFunctionOnSet, FoldFunctionOnSet, MapThenFoldSet,
       Accounts!SumFunctionOnSet, Accounts!FoldFunctionOnSet, Accounts!MapThenFoldSet

\* The fields of an account.
LEMMA AccountParts ==
  ASSUME LiveTypes, NEW t \in Turn
  PROVE  /\ account[t] = AccountOf(t)
         /\ account[t].state = "none" <=> env[t].state = "none"
         /\ account[t].state = "open" <=> env[t].state = "held"
         /\ account[t].state = "closed" <=> Closed(t)
         /\ account[t].state \in {"none", "open", "closed"}
         /\ account[t].day = env[t].day /\ account[t].charged = env[t].charged
         /\ account[t].spent = spent[t]
BY DEF LiveTypes, RowTypes, Envelopes, account, AccountOf, Closed

\* What the accounts commit on a counter is what the counter holds and has charged.
LEMMA CommittedIsExposure ==
  ASSUME LiveTypes, CountersMatchEnvelopes, NEW k \in Counter
  PROVE  Accounts!Committed(k) = held[k] + charged[k]
<1> DEFINE covers == [t \in Turn |-> Accounts!Cover(account[t])]
<1>1. Accounts!Committed(k) = SumFunctionOnSet(covers, Accounts!Against(k))
  BY SameSum DEF Accounts!Committed, account
<1>2. Accounts!Against(k) = Holding(k) \cup ClosedOn(k) /\ Holding(k) \cap ClosedOn(k) = {}
  <2>1. \A t \in Turn : t \in Accounts!Against(k) <=> t \in Holding(k) \cup ClosedOn(k)
    BY AccountParts DEF Accounts!Against, Holding, ClosedOn, Closed, AllocatedTo, account
  <2> QED BY <2>1 DEF Accounts!Against, Holding, ClosedOn, Closed
<1>3. /\ \A t \in Holding(k) : covers[t] = Money
      /\ \A t \in ClosedOn(k) : covers[t] = ChargeOn[t]
  BY AccountParts DEF Holding, ClosedOn, Closed, Accounts!Cover, ChargeOn
<1> HIDE DEF covers
<1>4. /\ IsFiniteSet(Holding(k)) /\ IsFiniteSet(ClosedOn(k))
      /\ \A t \in ClosedOn(k) : ChargeOn[t] \in Int
  BY CounterParts
<1>5. SumFunctionOnSet(covers, Holding(k) \cup ClosedOn(k))
        = SumFunctionOnSet(covers, Holding(k)) + SumFunctionOnSet(covers, ClosedOn(k))
  BY <1>2, <1>3, <1>4, MoneyIsNat, SumUnion
<1>6. SumFunctionOnSet(covers, Holding(k)) = held[k]
  BY <1>3, <1>4, MoneyIsNat, SumOfConstant DEF CountersMatchEnvelopes
<1>7. SumFunctionOnSet(covers, ClosedOn(k)) = charged[k]
  <2>1. SumFunctionOnSet(covers, ClosedOn(k)) = SumFunctionOnSet(ChargeOn, ClosedOn(k))
    BY <1>3, <1>4, SumSame
  <2> QED BY <2>1 DEF CountersMatchEnvelopes, ChargeOn
<1> QED BY <1>1, <1>2, <1>5, <1>6, <1>7

\* The provider's bill changes for one envelope at a time, and never with the envelopes.
LEMMA SpentSteps ==
  ASSUME LiveTypes, [Next]_vars
  PROVE  \/ UNCHANGED spent
         \/ UNCHANGED env /\ \E u \in Turn : \A t \in Turn : t # u => spent'[t] = spent[t]
<1>1. ASSUME NEW b \in Boot, NEW c \in Call, Invoke(b, c) \/ Answered(b, c)
      PROVE  \/ UNCHANGED spent
             \/ UNCHANGED env /\ \E u \in Turn : \A t \in Turn : t # u => spent'[t] = spent[t]
  <2>1. CASE UNCHANGED spent
    BY <2>1
  <2>2. CASE \E x : spent' = [spent EXCEPT ![child[c].env] = x]
    <3>1. UNCHANGED env
      BY <1>1 DEF Invoke, Answered, durable
    <3>2. CASE child[c].env \in Turn
      BY <2>2, <3>1, <3>2
    <3>3. CASE child[c].env \notin Turn
      BY <2>2, <3>3 DEF LiveTypes
    <3> QED BY <3>2, <3>3
  <2> QED BY <1>1, <2>1, <2>2 DEF Invoke, Answered
<1>2. ASSUME ~ \E b \in Boot, c \in Call : Invoke(b, c) \/ Answered(b, c)
      PROVE  UNCHANGED spent
  <2> DEFINE Same == UNCHANGED spent
  <2>1. ASSUME NEW b \in Boot, NEW t \in Turn,
               \/ PrepareBegin(b, t) \/ PrepareFresh(b, t)
               \/ PrepareReplay(b, t) \/ PrepareRefused(b, t)
        PROVE  Same
    BY <2>1 DEF PrepareBegin, PrepareFresh, PrepareReplay, PrepareRefused
  <2>2. ASSUME NEW b \in Boot, NEW c \in Call, Reserve(b, c) \/ Persist(b, c) \/ Stop(b, c)
        PROVE  Same
    BY <2>2 DEF Reserve, Persist, Stop
  <2>3. ASSUME NEW b \in Boot, NEW c \in Call, PersistSettlement(b, c) PROVE Same
    BY <2>3, Zenon DEF PersistSettlement
  <2>4. ASSUME NEW b \in Boot, NEW s \in Session,
               Revoke(b, s) \/ \E crash \in BOOLEAN : ReconcileBegin(b, s, crash)
        PROVE  Same
    BY <2>4 DEF Revoke, ReconcileBegin
  <2>5. /\ \A r \in reconciling : ReconcileEnd(r) => Same
        /\ \A t \in Turn : Reap(t) => Same
        /\ \A b \in Boot : Crash(b) => Same
    BY DEF ReconcileEnd, Reap, Crash
  <2>6. Midnight \/ UNCHANGED vars => Same
    BY DEF Midnight, vars
  <2> HIDE DEF Same
  <2>7. Same
    BY <1>2, <2>1, <2>2, <2>3, <2>4, <2>5, <2>6 DEF Next
  <2> QED BY <2>7 DEF Same
<1> QED BY <1>1, <1>2

\* An acquisition opens an account, on the day it is allocated to.
LEMMA HoldOpens ==
  ASSUME LiveInv, LiveInv', CountersMatchEnvelopes, UNCHANGED spent,
         NEW b \in Boot, NEW t \in Turn, Hold(b, t)
  PROVE  Accounts!Open(t)
<1>0. LiveTypes /\ LiveTypes' /\ SpentCovered
  BY SpentIsCovered DEF LiveInv
<1>1. /\ env[t].state = "none" /\ day \in Days /\ spent[t] = 0
      /\ env \in [Turn -> Envelopes]
      /\ env' = [env EXCEPT ![t] = [state |-> "held", boot |-> b, day |-> day,
                                    revoked |-> FALSE, charged |-> 0]]
  BY <1>0 DEF Hold, LiveTypes, RowTypes, SpentCovered, BillFits
<1>2. \A k \in Scopes[t][day] : Accounts!Committed(k) + Money =< Ceiling[k]
  <2>1. \A k \in Scopes[t][day] : k \in Counter
    <3>1. Scopes[t] \in [Days -> SUBSET Counter]
      BY LiveBudgetAssumption
    <3> QED BY <1>1, <3>1
  <2>2. \A k \in Scopes[t][day] : held[k] + charged[k] + Money =< Ceiling[k]
    BY DEF Hold, Fits, Exposure
  <2> QED BY <1>0, <2>1, <2>2, CommittedIsExposure
<1>3. account' = [account EXCEPT ![t] =
         [state |-> "open", day |-> day, charged |-> 0, spent |-> 0]]
  <2>1. \A u \in Turn : u # t => env'[u] = env[u]
    BY <1>1
  <2>2. env'[t] = [state |-> "held", boot |-> b, day |-> day, revoked |-> FALSE, charged |-> 0]
    BY <1>1
  <2> QED BY <1>1, <2>1, <2>2 DEF account, AccountOf
<1>4. account[t].state = "none"
  BY <1>0, <1>1, AccountParts
<1> QED BY <1>1, <1>2, <1>3, <1>4 DEF Accounts!Open, account

\* Closing an envelope closes the account, with a charge that covers the bill.
LEMMA CloseCloses ==
  ASSUME LiveInv, LiveInv', UNCHANGED spent,
         NEW t \in Turn, NEW state \in {"reconciled", "forfeited"}, NEW n \in 0 .. Money,
         Close(t, state, n)
  PROVE  Accounts!Close(t)
<1>0. LiveTypes /\ LiveTypes' /\ SpentCovered /\ SpentCovered'
  <2>1. LiveInv' => SpentCovered'
    BY SpentIsCovered, PTL
  <2> QED BY <2>1, SpentIsCovered DEF LiveInv
<1>1. /\ env \in [Turn -> Envelopes] /\ env[t].state = "held"
      /\ env' = [env EXCEPT ![t].state = state, ![t].charged = n]
  BY <1>0 DEF Close, LiveTypes, RowTypes
<1>2. /\ \A u \in Turn : u # t => env'[u] = env[u]
      /\ env'[t].state = state /\ env'[t].day = env[t].day /\ env'[t].charged = n
  BY <1>1 DEF Envelopes
<1>3. account' = [account EXCEPT ![t].state = "closed", ![t].charged = n]
  BY <1>1, <1>2, Zenon DEF account, AccountOf
<1>4. account[t].state = "open" /\ account[t].spent = spent[t]
  BY <1>0, <1>1, AccountParts
<1>5. n \in spent[t] .. Money
  <2>1. spent'[t] \in Nat /\ spent'[t] =< n
    BY <1>0, <1>2 DEF SpentCovered, BillFits, Closed
  <2> QED BY <2>1, MoneyIsNat
<1> QED BY <1>3, <1>4, <1>5 DEF Accounts!Close, account

\* A call that starts or ends changes what is spent of one account, within its cover.
LEMMA CallSpends ==
  ASSUME LiveInv, LiveInv', UNCHANGED env,
         NEW u \in Turn, \A t \in Turn : t # u => spent'[t] = spent[t]
  PROVE  Accounts!Spend(u)
<1>0. LiveTypes /\ LiveTypes' /\ SpentCovered'
  <2>1. LiveInv' => SpentCovered'
    BY SpentIsCovered, PTL
  <2> QED BY <2>1 DEF LiveInv
<1>1. account' = [account EXCEPT ![u].spent = spent'[u]]
  <2>1. \A t \in Turn : t # u => AccountOf(t)' = AccountOf(t)
    BY DEF AccountOf
  <2>2. AccountOf(u)' = [AccountOf(u) EXCEPT !.spent = spent'[u]]
    BY DEF AccountOf
  <2> QED BY <2>1, <2>2 DEF account
<1>2. /\ spent'[u] \in Nat /\ spent'[u] =< Money
      /\ Closed(u) => spent'[u] =< env[u].charged
      /\ env[u].state = "none" => spent'[u] = 0
  BY <1>0 DEF SpentCovered, BillFits, Closed
<1>3. spent'[u] \in 0 .. Accounts!Cover(account[u])
  <2>1. env[u].charged \in Int
    BY <1>0, MoneyIsNat DEF LiveTypes, RowTypes, Envelopes
  <2> QED BY <1>0, <1>2, <2>1, MoneyIsNat, AccountParts DEF Accounts!Cover
<1> QED BY <1>1, <1>3 DEF Accounts!Spend, account

\* Every step opens, closes or bills one account, or leaves them all as they were.
LEMMA AccountsStep ==
  ASSUME LiveInv, LiveInv', CountersMatchEnvelopes, [Next]_vars
  PROVE  (\E t \in Turn : Accounts!Open(t) \/ Accounts!Spend(t) \/ Accounts!Close(t))
           \/ UNCHANGED account
<1>0. LiveTypes
  BY DEF LiveInv
<1>1. CASE UNCHANGED spent
  <2>1. ASSUME NEW b \in Boot, NEW t \in Turn, Hold(b, t) PROVE Accounts!Open(t)
    BY <1>1, <2>1, HoldOpens
  <2>2. ASSUME NEW t \in Turn, NEW state \in {"reconciled", "forfeited"}, NEW n \in 0 .. Money,
               Close(t, state, n)
        PROVE  Accounts!Close(t)
    BY <1>1, <2>2, CloseCloses
  <2>3. ASSUME UNCHANGED env \/ \E t : \E v \in BOOLEAN : env' = [env EXCEPT ![t].revoked = @ \/ v]
        PROVE  UNCHANGED account
    <3>1. \A u \in Turn : /\ env'[u].state = env[u].state /\ env'[u].day = env[u].day
                          /\ env'[u].charged = env[u].charged
      BY <1>0, <2>3 DEF LiveTypes, RowTypes, Envelopes
    <3> QED BY <1>1, <3>1 DEF account, AccountOf
  <2> QED BY <1>0, <2>1, <2>2, <2>3, LedgerSteps
<1>2. CASE ~UNCHANGED spent
  BY <1>0, <1>2, SpentSteps, CallSpends
<1> QED BY <1>1, <1>2

\* The leases, the envelopes and the counters implement the accounts: whatever fails or is
\* lost, every step of any number of processes opens an account under the ceilings, bills
\* it within its cover, closes it with a charge that covers the bill, or changes none.
THEOREM LedgerImplementsAccounts == Spec => ImplementsAccounts
<1>1. Init => Accounts!Init
  <2> SUFFICES ASSUME Init PROVE Accounts!Init
    OBVIOUS
  <2>1. account = [t \in Turn |-> [state |-> "none", day |-> day, charged |-> 0, spent |-> 0]]
    BY DEF Init, account, AccountOf
  <2>2. day \in Days
    BY DEF Init
  <2> QED BY <2>1, <2>2 DEF Accounts!Init, account
<1>2. LiveInv /\ LiveInv' /\ CountersMatchEnvelopes /\ [Next]_vars
        => [Accounts!Next]_([t \in Turn |-> AccountOf(t)])
  BY AccountsStep DEF Accounts!Next, account
<1> QED BY <1>1, <1>2, LiveInvHolds, CountersHold, PTL DEF Spec, ImplementsAccounts, Accounts!Spec


-----------------------------------------------------------------------------
(* What the abstract accounts promise. *)

\* An account is well formed and covers its claim.
Covers(a) == a \in Accounts!Accounts /\ a.spent =< Accounts!Cover(a)
AccountsInv == \A t \in Turn : Covers(account[t])

\* What opening, billing and closing an account do to it.
LEMMA AccountMoves ==
  ASSUME NEW a, Covers(a)
  PROVE  /\ \A d \in Days : Covers([state |-> "open", day |-> d, charged |-> 0, spent |-> 0])
         /\ \A n \in 0 .. Accounts!Cover(a) : Covers([a EXCEPT !.spent = n])
         /\ a.state = "open" => \A n \in a.spent .. Money :
              Covers([a EXCEPT !.state = "closed", !.charged = n])
<1>1. a \in Accounts!Accounts /\ Accounts!Cover(a) \in Nat
  BY MoneyIsNat DEF Covers, Accounts!Accounts, Accounts!Cover
<1>2. ASSUME NEW d \in Days
      PROVE  Covers([state |-> "open", day |-> d, charged |-> 0, spent |-> 0])
  BY MoneyIsNat DEF Covers, Accounts!Accounts, Accounts!Cover
<1>3. ASSUME NEW n \in 0 .. Accounts!Cover(a) PROVE Covers([a EXCEPT !.spent = n])
  <2>1. n \in Nat /\ n =< Accounts!Cover(a)
    BY <1>1
  <2>2. Accounts!Cover([a EXCEPT !.spent = n]) = Accounts!Cover(a)
    BY <1>1 DEF Accounts!Accounts, Accounts!Cover
  <2> QED BY <1>1, <2>1, <2>2 DEF Covers, Accounts!Accounts
<1>4. ASSUME a.state = "open", NEW n \in a.spent .. Money
      PROVE  Covers([a EXCEPT !.state = "closed", !.charged = n])
  <2>1. n \in Nat /\ a.spent =< n
    BY <1>1 DEF Accounts!Accounts
  <2>2. Accounts!Cover([a EXCEPT !.state = "closed", !.charged = n]) = n
    BY <1>1 DEF Accounts!Accounts, Accounts!Cover
  <2> QED BY <1>1, <2>1, <2>2 DEF Covers, Accounts!Accounts
<1> QED BY <1>2, <1>3, <1>4

\* An account keeps its form and its cover through every step.
LEMMA AccountsKept ==
  ASSUME AccountsInv, [Accounts!Next]_account
  PROVE  AccountsInv'
<1> SUFFICES ASSUME NEW u \in Turn PROVE Covers(account'[u])
  BY DEF AccountsInv
<1>0. Covers(account[u])
  BY DEF AccountsInv
<1>1. ASSUME NEW t \in Turn, Accounts!Open(t) PROVE Covers(account'[u])
  <2>1. PICK d \in Days : account' = [account EXCEPT ![t] =
            [state |-> "open", day |-> d, charged |-> 0, spent |-> 0]]
    BY <1>1 DEF Accounts!Open, account
  <2>2. u = t => account'[u] = [state |-> "open", day |-> d, charged |-> 0, spent |-> 0]
    BY <2>1 DEF account
  <2>3. u # t => account'[u] = account[u]
    BY <2>1 DEF account
  <2> QED BY <1>0, <2>2, <2>3, AccountMoves
<1>2. ASSUME NEW t \in Turn, Accounts!Spend(t) PROVE Covers(account'[u])
  <2>1. PICK n \in 0 .. Accounts!Cover(account[t]) :
            account' = [account EXCEPT ![t].spent = n]
    BY <1>2 DEF Accounts!Spend, account
  <2>2. u = t => account'[u] = [account[t] EXCEPT !.spent = n]
    BY <2>1 DEF account
  <2>3. u # t => account'[u] = account[u]
    BY <2>1 DEF account
  <2>4. Covers([account[t] EXCEPT !.spent = n])
    BY AccountMoves DEF AccountsInv
  <2> QED BY <1>0, <2>2, <2>3, <2>4
<1>3. ASSUME NEW t \in Turn, Accounts!Close(t) PROVE Covers(account'[u])
  <2>1. /\ account[t].state = "open"
        /\ \E n \in account[t].spent .. Money :
              account' = [account EXCEPT ![t].state = "closed", ![t].charged = n]
    BY <1>3 DEF Accounts!Close, account
  <2>2. PICK n \in account[t].spent .. Money :
              account' = [account EXCEPT ![t].state = "closed", ![t].charged = n]
    BY <2>1
  <2>3. u = t => account'[u] = [account[t] EXCEPT !.state = "closed", !.charged = n]
    BY <2>2 DEF account
  <2>4. u # t => account'[u] = account[u]
    BY <2>2 DEF account
  <2>5. Covers([account[t] EXCEPT !.state = "closed", !.charged = n])
    BY <2>1, AccountMoves DEF AccountsInv
  <2> QED BY <1>0, <2>3, <2>4, <2>5
<1>4. CASE UNCHANGED account
  BY <1>0, <1>4
<1> QED BY <1>1, <1>2, <1>3, <1>4 DEF Accounts!Next

\* What a provider may bill for an acquisition is always covered by the money set aside
\* for it, and after its account is closed by what was charged: the promise of the
\* abstract accounts, whatever implements them.
THEOREM AccountsCovered == Accounts!Spec => []Accounts!Covered
<1>1. Accounts!Init => AccountsInv
  <2> SUFFICES ASSUME Accounts!Init, NEW t \in Turn PROVE Covers(account[t])
    BY DEF AccountsInv
  <2>1. PICK d \in Days :
           account = [u \in Turn |-> [state |-> "none", day |-> d, charged |-> 0, spent |-> 0]]
    BY DEF Accounts!Init, account
  <2> QED BY <2>1 DEF Covers, Accounts!Accounts, Accounts!Cover
<1>2. AccountsInv /\ [Accounts!Next]_([t \in Turn |-> AccountOf(t)]) => AccountsInv'
  BY AccountsKept DEF account
<1>3. AccountsInv => Accounts!Covered
  BY DEF AccountsInv, Accounts!Covered, Covers, account
<1> QED BY <1>1, <1>2, <1>3, PTL DEF Accounts!Spec

\* So is it by the envelopes of the store: after every crash, lost reply, replay and late
\* reconciliation, what the provider may bill fits what the rows set aside or charged.
THEOREM ProviderIsCovered == Spec => []Accounts!Covered
BY LedgerImplementsAccounts, AccountsCovered, PTL DEF ImplementsAccounts

=============================================================================
