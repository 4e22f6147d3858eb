----------------------------- MODULE LiveBudget -----------------------------
(***************************************************************************)
(* The Live-AI provider budget: the durable store (live-ai-budget-store),  *)
(* the local leases of each gateway process (live-ai-budget-authority) and *)
(* the order in which a turn's controller uses them around a provider call *)
(* (live-ai-03b-controller).                                               *)
(*                                                                         *)
(* Durable rows survive a process: env (budget_envelopes), child           *)
(* (budget_provider_reservations with their settlements) and the counters  *)
(* held and charged (budget_scope_counters).  lease, preparing and         *)
(* reconciling are memory of one boot of the gateway and die with it.      *)
(* phase follows each provider call; spent is what a provider may bill for *)
(* the calls made on an envelope: the whole reservation from the moment a  *)
(* call starts, the true cost once its usage is known.                     *)
(***************************************************************************)
EXTENDS Integers, FiniteSets, Functions

CONSTANTS
    Boot,           \* gateway processes, one per boot nonce
    Session,        \* gateway sessions
    Turn,           \* model turns: one acquisition key, one envelope each
    Call,           \* provider calls, by their provider turn id
    SessionOf,      \* [Turn \cup Call -> Session]
    Worst,          \* the worst case of one call, in money
    CallsPerTurn,   \* provider calls one envelope reserves
    Counter, Days, Scopes, Ceiling,     \* see BudgetAccounts
    Faults,         \* the store operations that may fail or lose their reply
    None

ASSUME LiveBudgetAssumption ==
    /\ Worst \in Nat /\ CallsPerTurn \in Nat
    /\ IsFiniteSet(Turn) /\ IsFiniteSet(Call)
    /\ SessionOf \in [Turn \cup Call -> Session]
    /\ Scopes \in [Turn -> [Days -> SUBSET Counter]]
    /\ Ceiling \in [Counter -> Nat]
    /\ Days \subseteq Nat
    /\ None \notin Boot \cup Turn

VARIABLES
    env,            \* [Turn -> envelope row]
    child,          \* [Call -> provider reservation row]
    held, charged,  \* [Counter -> Int]
    day,            \* the database's current day
    up,             \* the boots still running
    lease,          \* [Boot -> [Session -> lease or None]]
    preparing,      \* prepares waiting for the store: <<boot, turn>>
    reconciling,    \* reconciliations sent to the store
    phase,          \* [Call -> [at, boot]]
    spent           \* [Turn -> Nat]

durable == <<env, child, held, charged>>
vars == <<env, child, held, charged, day, up, lease, preparing, reconciling,
          phase, spent>>

Money == CallsPerTurn * Worst

Entries == [state : {"none", "live", "settled", "terminal"}, flushed : BOOLEAN,
            settleFlushed : BOOLEAN, charged : 0 .. Worst, over : BOOLEAN]

NoEntry == [state |-> "none", flushed |-> FALSE, settleFlushed |-> FALSE,
            charged |-> 0, over |-> FALSE]

Leases == [turn : Turn, revoked : BOOLEAN, free : Int, open : Int,
           charged : Int, entry : [Call -> Entries]]

\* The phase of a call that nobody follows any more.
Over == [at |-> "done", boot |-> None]

\* How a store operation can end for its caller: done, done with the reply lost,
\* or not done.
Outcome(op) == IF op \in Faults THEN {"ok", "lost", "failed"} ELSE {"ok"}

Init ==
    /\ day \in Days /\ \A d \in Days : day =< d
    /\ env = [t \in Turn |-> [state |-> "none", boot |-> None, day |-> day,
                              revoked |-> FALSE, charged |-> 0]]
    /\ child = [c \in Call |-> [state |-> "none", env |-> None, charged |-> 0]]
    /\ held = [k \in Counter |-> 0]
    /\ charged = [k \in Counter |-> 0]
    /\ up = Boot
    /\ lease = [b \in Boot |-> [s \in Session |-> None]]
    /\ preparing = {}
    /\ reconciling = {}
    /\ phase = [c \in Call |-> [at |-> "idle", boot |-> None]]
    /\ spent = [t \in Turn |-> 0]

-----------------------------------------------------------------------------
(* The store. *)

\* Mutant: the counters of today rather than of the day of the acquisition.
AllocatedToday(t) == Scopes[t][day]

AllocatedTo(t) == Scopes[t][env[t].day]

\* Mutant: the ceiling forgets what was already charged.
ExposureOfHolds(k) == held[k]

Exposure(k) == held[k] + charged[k]

\* acquireOnce, a key without an envelope: every counter must have room.
Fits(t) == \A k \in Scopes[t][day] : Exposure(k) + Money =< Ceiling[k]

Hold(b, t) ==
    /\ env[t].state = "none"
    /\ Fits(t)
    /\ held' = [k \in Counter |-> IF k \in Scopes[t][day] THEN held[k] + Money
                                                           ELSE held[k]]
    /\ env' = [env EXCEPT ![t] = [state |-> "held", boot |-> b, day |-> day,
                 revoked |-> FALSE, charged |-> 0]]

Children(t) == {c \in Call : child[c].env = t}

\* Mutant: an envelope of another process is replayed like one's own.
ReplayableByAnyBoot(b, t) ==
    /\ env[t].state = "held"
    /\ ~env[t].revoked
    /\ \A c \in Children(t) : child[c].state # "open"

\* acquireOnce, a key that has an envelope.
Replayable(b, t) ==
    /\ env[t].state = "held"
    /\ ~env[t].revoked
    /\ env[t].boot = b
    /\ \A c \in Children(t) : child[c].state # "open"

\* reconcile and the reaper: an envelope's held money becomes n charged.
Close(t, state, n) ==
    /\ env[t].state = "held"
    /\ env' = [env EXCEPT ![t].state = state, ![t].charged = n]
    /\ held' = [k \in Counter |-> IF k \in AllocatedTo(t) THEN held[k] - Money
                                                          ELSE held[k]]
    /\ charged' = [k \in Counter |-> IF k \in AllocatedTo(t) THEN charged[k] + n
                                                             ELSE charged[k]]

\* recordProviderReservation: the first writer of a provider turn id wins.
Recorded(t, c) == IF child[c].state = "none"
                  THEN [state |-> "open", env |-> t, charged |-> 0]
                  ELSE child[c]

-----------------------------------------------------------------------------
(* The lease of a session in one process. *)

LeaseOf(b, c) == lease[b][SessionOf[c]]

HasEntry(l, c) == l # None /\ l.entry[c].state # "none"

\* hydrate: every durable child is charged, an unsettled one in full.
ChargeOf(c) == IF child[c].state = "settled" THEN child[c].charged ELSE Worst

Hydrated(t) ==
    LET paid == SumFunctionOnSet([c \in Call |-> ChargeOf(c)], Children(t))
    IN  [turn |-> t,
         revoked |-> \E c \in Children(t) : child[c].state = "revoked",
         free |-> IF paid =< Money THEN Money - paid ELSE 0,
         open |-> 0,
         charged |-> paid,
         entry |-> [c \in Call |->
            IF c \in Children(t)
            THEN [state |-> "terminal", flushed |-> TRUE, settleFlushed |-> TRUE,
                  charged |-> ChargeOf(c), over |-> FALSE]
            ELSE NoEntry]]

InFlight(b, s) == {c \in Call : SessionOf[c] = s /\ phase[c].boot = b}

\* prepare, up to the await: a session that has a lease keeps it.  A key is
\* prepared by one caller at a time, which first waits for its own calls and for
\* its own reconciliation.
PrepareBegin(b, t) ==
    /\ b \in up
    /\ lease[b][SessionOf[t]] = None
    /\ <<b, t>> \notin preparing
    /\ env[t].state # "none" =>
          /\ InFlight(b, SessionOf[t]) = {}
          /\ \A r \in reconciling : r.turn # t
    /\ preparing' = preparing \cup {<<b, t>>}
    /\ UNCHANGED <<durable, day, up, lease, reconciling, phase, spent>>

Install(b, t, l) == lease' = [lease EXCEPT ![b][SessionOf[t]] = l]

\* The envelope is acquired and the lease set, over whatever the session has.
PrepareFresh(b, t) ==
    /\ <<b, t>> \in preparing
    /\ preparing' = preparing \ {<<b, t>>}
    /\ Hold(b, t)
    /\ \E o \in Outcome("acquire") \ {"failed"} :
          IF o = "ok" THEN Install(b, t, Hydrated(t)) ELSE UNCHANGED lease
    /\ UNCHANGED <<child, charged, day, up, reconciling, phase, spent>>

PrepareReplay(b, t) ==
    /\ <<b, t>> \in preparing
    /\ preparing' = preparing \ {<<b, t>>}
    /\ Replayable(b, t)
    /\ Install(b, t, Hydrated(t))
    /\ UNCHANGED <<durable, day, up, reconciling, phase, spent>>

\* Every refusal: a ceiling, a kill, a terminal or expired envelope, an error.
PrepareRefused(b, t) ==
    /\ <<b, t>> \in preparing
    /\ preparing' = preparing \ {<<b, t>>}
    /\ UNCHANGED <<durable, day, up, lease, reconciling, phase, spent>>

\* reserveReasoning03b: the worst case moves from free to open, on whichever
\* lease the session has now.
Reserve(b, c) ==
    LET l == LeaseOf(b, c)
    IN  /\ b \in up
        /\ phase[c].at = "idle"
        /\ l # None
        /\ ~l.revoked
        /\ l.entry[c].state = "none"
        /\ l.free >= Worst
        /\ Cardinality({x \in Call : l.entry[x].state # "none"}) < CallsPerTurn
        /\ lease' = [lease EXCEPT ![b][SessionOf[c]] =
              [l EXCEPT !.free = @ - Worst, !.open = @ + Worst,
                        !.entry[c].state = "live"]]
        /\ phase' = [phase EXCEPT ![c] = [at |-> "reserved", boot |-> b]]
        /\ UNCHANGED <<durable, day, up, preparing, reconciling, spent>>

\* persistProviderReservation, the barrier before the call.
Persist(b, c) ==
    LET l == LeaseOf(b, c)
    IN  /\ b \in up
        /\ phase[c] = [at |-> "reserved", boot |-> b]
        /\ \/ /\ HasEntry(l, c) /\ ~l.revoked
              /\ \E o \in Outcome("record") :
                    /\ child' = IF o = "failed" THEN child
                                ELSE [child EXCEPT ![c] = Recorded(l.turn, c)]
                    /\ lease' = IF o = "ok"
                                THEN [lease EXCEPT ![b][SessionOf[c]].entry[c].flushed = TRUE]
                                ELSE lease
                    /\ phase' = [phase EXCEPT ![c].at =
                                   IF o = "ok" THEN "persisted" ELSE "refused"]
           \/ \* no lease, another lease, or no longer valid: no provider call
              /\ phase' = [phase EXCEPT ![c].at = "refused"]
              /\ UNCHANGED <<child, lease>>
        /\ UNCHANGED <<env, held, charged, day, up, preparing, reconciling, spent>>

\* killedOrExpired between the barrier and the call.
Stop(b, c) ==
    /\ b \in up
    /\ phase[c] = [at |-> "persisted", boot |-> b]
    /\ phase' = [phase EXCEPT ![c].at = "refused"]
    /\ UNCHANGED <<durable, day, up, lease, preparing, reconciling, spent>>

Invoke(b, c) ==
    /\ b \in up
    /\ phase[c] = [at |-> "persisted", boot |-> b]
    /\ phase' = [phase EXCEPT ![c].at = "calling"]
    /\ spent' = [spent EXCEPT ![child[c].env] = @ + Worst]
    /\ UNCHANGED <<durable, day, up, lease, preparing, reconciling>>

\* settleUsage: with the usage known the difference is released, otherwise the
\* whole reservation is kept; usage over the reservation also revokes the lease.
Settled(l, c, cost, over) ==
    IF l = None \/ ~HasEntry(l, c) THEN l
    ELSE IF l.entry[c].state # "live" THEN l
    ELSE [l EXCEPT !.open = @ - Worst, !.charged = @ + cost,
                   !.free = @ + (Worst - cost),
                   !.revoked = @ \/ over,
                   !.entry[c] = [@ EXCEPT !.state = "settled", !.charged = cost,
                                          !.over = over]]

\* A refused call settles with no usage; an answered one with its cost, or with
\* no usable usage.
Answered(b, c) ==
    /\ b \in up
    /\ phase[c].boot = b
    /\ \/ /\ phase[c].at = "refused"
          /\ Install(b, c, Settled(LeaseOf(b, c), c, Worst, FALSE))
          /\ UNCHANGED spent
       \/ /\ phase[c].at = "calling"
          /\ \E cost \in 0 .. Worst, over \in BOOLEAN :
                /\ over => cost = Worst
                /\ Install(b, c, Settled(LeaseOf(b, c), c, cost, over))
                /\ spent' = [spent EXCEPT ![child[c].env] = @ - (Worst - cost)]
    /\ phase' = [phase EXCEPT ![c].at = "settled"]
    /\ UNCHANGED <<durable, day, up, preparing, reconciling>>

\* settleProviderReservation: an open child becomes terminal once.
SettledRow(row, e) ==
    IF row.state = "open"
    THEN [row EXCEPT !.charged = e.charged,
                     !.state = IF e.over THEN "revoked" ELSE "settled"]
    ELSE row

\* persistProviderSettlement, the barrier after the call: the child if it is not
\* there yet, its settlement, and a revocation; anything unresolved revokes the
\* lease in memory.
PersistSettlement(b, c) ==
    LET l == LeaseOf(b, c)
    IN  /\ b \in up
        /\ phase[c] = [at |-> "settled", boot |-> b]
        /\ phase' = [phase EXCEPT ![c] = Over]
        /\ IF ~HasEntry(l, c)
           THEN UNCHANGED <<env, child, lease>>
           ELSE \E r \in Outcome("record"), s \in Outcome("settle"), v \in Outcome("revoke") :
                  LET e == l.entry[c]
                      recorded == child[c].state # "none" \/ (~e.flushed /\ r # "failed")
                      flushed == e.flushed \/ r = "ok"
                      settles == e.state = "settled" /\ ~e.settleFlushed /\ recorded
                      row == IF recorded THEN Recorded(l.turn, c) ELSE child[c]
                      settleOK == e.settleFlushed \/ (settles /\ s = "ok")
                      ok == /\ flushed
                            /\ e.state = "settled" => settleOK
                            /\ l.revoked => v = "ok"
                  IN  /\ \* a store call that is not made cannot fail
                         (e.flushed => r = "ok") /\ (~settles => s = "ok") /\ (~l.revoked => v = "ok")
                      /\ child' = [child EXCEPT ![c] =
                            IF settles /\ s # "failed" THEN SettledRow(row, e) ELSE row]
                      /\ env' = [env EXCEPT ![l.turn].revoked =
                                    @ \/ (l.revoked /\ v # "failed")]
                      /\ lease' = [lease EXCEPT ![b][SessionOf[c]] =
                            [l EXCEPT !.revoked = @ \/ ~ok,
                                      !.entry[c].flushed = flushed,
                                      !.entry[c].settleFlushed = settleOK]]
        /\ UNCHANGED <<held, charged, day, up, preparing, reconciling, spent>>

\* revokeSessionDurable and onControlRevoke: in memory first, then durably.
Revoke(b, s) ==
    LET l == lease[b][s]
    IN  /\ b \in up
        /\ l # None
        /\ lease' = [lease EXCEPT ![b][s].revoked = TRUE]
        /\ \E v \in Outcome("revoke") :
              env' = [env EXCEPT ![l.turn].revoked = @ \/ v # "failed"]
        /\ UNCHANGED <<child, held, charged, day, up, preparing, reconciling, phase, spent>>

\* Mutant: a call still open is not charged.
ReconcileSettled(b, s, crash) ==
    LET l == lease[b][s]
    IN  /\ b \in up
        /\ l # None
        /\ lease' = [lease EXCEPT ![b][s] = None]
        /\ reconciling' = reconciling \cup
              {[boot |-> b, turn |-> l.turn, clean |-> ~crash, charged |-> l.charged]}
        /\ UNCHANGED <<durable, day, up, preparing, phase, spent>>

\* reconcileSession, up to the await: the lease leaves memory with what it
\* charged and what is still open; a crash reconciliation charges everything.
ReconcileBegin(b, s, crash) ==
    LET l == lease[b][s]
    IN  /\ b \in up
        /\ l # None
        /\ lease' = [lease EXCEPT ![b][s] = None]
        /\ reconciling' = reconciling \cup
              {[boot |-> b, turn |-> l.turn, clean |-> ~crash,
                charged |-> l.charged + l.open]}
        /\ UNCHANGED <<durable, day, up, preparing, phase, spent>>

Clamp(n) == IF n < 0 THEN 0 ELSE IF n > Money THEN Money ELSE n

ReconcileEnd(r) ==
    /\ reconciling' = reconciling \ {r}
    /\ \/ /\ IF r.clean THEN Close(r.turn, "reconciled", Clamp(r.charged))
                        ELSE Close(r.turn, "forfeited", Money)
       \/ /\ env[r.turn].state # "held" \/ "failed" \in Outcome("reconcile")
          /\ UNCHANGED <<env, held, charged>>
    /\ UNCHANGED <<child, day, up, lease, preparing, phase, spent>>

-----------------------------------------------------------------------------
(* Time, the orphan reaper and process loss. *)

\* reapOrphans: an expired envelope is charged in full.  Expiry is a choice: an
\* envelope may be found expired at any time, by the reaper or by a refusal.
Reap(t) ==
    /\ Close(t, "forfeited", Money)
    /\ UNCHANGED <<child, day, up, lease, preparing, reconciling, phase, spent>>

Midnight ==
    /\ day + 1 \in Days
    /\ day' = day + 1
    /\ UNCHANGED <<durable, up, lease, preparing, reconciling, phase, spent>>

Crash(b) ==
    /\ b \in up
    /\ up' = up \ {b}
    /\ lease' = [lease EXCEPT ![b] = [s \in Session |-> None]]
    /\ preparing' = {p \in preparing : p[1] # b}
    /\ reconciling' = {r \in reconciling : r.boot # b}
    /\ phase' = [c \in Call |-> IF phase[c].boot = b THEN Over ELSE phase[c]]
    /\ UNCHANGED <<durable, day, spent>>

-----------------------------------------------------------------------------

Next ==
    \/ \E b \in Boot, t \in Turn :
          \/ PrepareBegin(b, t) \/ PrepareFresh(b, t)
          \/ PrepareReplay(b, t) \/ PrepareRefused(b, t)
    \/ \E b \in Boot, c \in Call :
          \/ Reserve(b, c) \/ Persist(b, c) \/ Stop(b, c) \/ Invoke(b, c)
          \/ Answered(b, c) \/ PersistSettlement(b, c)
    \/ \E b \in Boot, s \in Session :
          \/ Revoke(b, s)
          \/ \E crash \in BOOLEAN : ReconcileBegin(b, s, crash)
    \/ \E r \in reconciling : ReconcileEnd(r)
    \/ \E t \in Turn : Reap(t)
    \/ Midnight
    \/ \E b \in Boot : Crash(b)

Spec == Init /\ [][Next]_vars

-----------------------------------------------------------------------------
(* Properties. *)

Envelopes == [state : {"none", "held", "reconciled", "forfeited"},
              boot : Boot \cup {None}, day : Days, revoked : BOOLEAN,
              charged : 0 .. Money]

Rows == [state : {"none", "open", "settled", "revoked"},
         env : Turn \cup {None}, charged : 0 .. Worst]

Phases == [at : {"idle", "reserved", "persisted", "refused", "calling", "settled", "done"},
           boot : Boot \cup {None}]

RowTypes ==
    /\ env \in [Turn -> Envelopes]
    /\ child \in [Call -> Rows]
    /\ day \in Days

MemoryTypes ==
    /\ up \subseteq Boot
    /\ lease \in [Boot -> [Session -> Leases \cup {None}]]
    /\ preparing \subseteq Boot \X Turn
    /\ reconciling \subseteq [boot : Boot, turn : Turn, clean : BOOLEAN, charged : Int]
    /\ phase \in [Call -> Phases]

LiveTypeOK ==
    /\ RowTypes /\ MemoryTypes
    /\ held \in [Counter -> Nat] /\ charged \in [Counter -> Nat]
    /\ spent \in [Turn -> Nat]

\* No counter ever passes its ceiling, whatever fails and however late a
\* reconciliation or the reaper comes (budget_scope_counters).
ExposureWithinCeiling == \A k \in Counter : held[k] + charged[k] =< Ceiling[k]

\* The shared counters say what the envelopes say, also across a day boundary: what
\* is held is the money of the envelopes still open that were allocated on the
\* counter, what is charged the charges of the closed ones.
Holding(k) == {t \in Turn : env[t].state = "held" /\ k \in AllocatedTo(t)}
Closed(t) == env[t].state \in {"reconciled", "forfeited"}
ClosedOn(k) == {t \in Turn : Closed(t) /\ k \in AllocatedTo(t)}

CountersMatchEnvelopes == \A k \in Counter :
    /\ held[k] = Money * Cardinality(Holding(k))
    /\ charged[k] = SumFunctionOnSet([t \in Turn |-> env[t].charged], ClosedOn(k))

\* What a process may still hand out for an envelope, what it has handed out to
\* calls that have not started, and what the provider may bill for those that have,
\* never exceed the envelope: no replay, retry or overwritten lease mints money.
Unstarted(b, t) == {c \in Call : /\ phase[c].boot = b
                                /\ phase[c].at \in {"reserved", "persisted"}
                                /\ HasEntry(LeaseOf(b, c), c)
                                /\ LeaseOf(b, c).turn = t
                                /\ LeaseOf(b, c).entry[c].state = "live"}

NoMintedMoney == \A b \in Boot, s \in Session :
    LET l == lease[b][s]
    IN  l # None /\ ~l.revoked =>
          l.free + Worst * Cardinality(Unstarted(b, l.turn)) + spent[l.turn] =< Money

\* The abstract accounts: a held envelope is an open account, and everything the
\* provider may bill is covered by money set aside under the ceilings.
AccountOf(t) ==
    [state |-> IF env[t].state = "none" THEN "none"
               ELSE IF env[t].state = "held" THEN "open" ELSE "closed",
     day |-> env[t].day, charged |-> env[t].charged, spent |-> spent[t]]

Accounts == INSTANCE BudgetAccounts WITH account <- [t \in Turn |-> AccountOf(t)]

ImplementsAccounts == Accounts!Spec
=============================================================================
