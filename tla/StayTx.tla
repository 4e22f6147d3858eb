------------------------------- MODULE StayTx -------------------------------
(***************************************************************************)
(* The assignment authority with its database transactions opened up.  A   *)
(* transaction locks the row it writes (SELECT ... FOR UPDATE, or the      *)
(* UPDATE itself before its trigger runs), then takes the advisory lock of *)
(* every unit involved, one by one in the order of the unit ids, then      *)
(* checks the units one statement at a time, each against a fresh snapshot *)
(* of what is committed, then writes and commits.  Between two of these    *)
(* steps other transactions run.  A lifecycle exit takes no unit lock.     *)
(*                                                                         *)
(* bids, lines, mirror and blocks are the committed tables: what a         *)
(* transaction writes shows when it commits.  Unit status and room         *)
(* upgrades, which take none of these locks, are left as they are.         *)
(***************************************************************************)
EXTENDS StayClaims

CONSTANTS
  Txs,       \* database sessions
  Calls,     \* the statements and RPC calls that are issued
  LockKey,   \* hashtext('sb_unit:' || id) of every unit
  Rank       \* the order of the unit ids

VARIABLE tx   \* local state of every session

txVars == <<vars, tx>>

\* A call is for one row: "assign" and "release" are the RPCs, "bid" an INSERT or
\* UPDATE of bids that sets the fields of change, "block" the same for room_blocks.
Call ==
  [kind : {"assign"}, row : Bids, target : (SUBSET Units) \ {{}}]
    \cup [kind : {"release"}, row : Bids]
    \cup [kind : {"insert"}, row : Bids, new : BidRow]
    \cup [kind : {"status"}, row : Bids, status : Statuses]
    \cup [kind : {"column"}, row : Bids, unit : UnitColumn]
    \cup [kind : {"block"}, row : Blocks, new : BlockRow]

ASSUME StayTxAssumption ==
  /\ Calls \subseteq Call
  /\ Rank \in [Units -> Nat]
  /\ \A u, v \in Units : Rank[u] = Rank[v] => u = v
  /\ DOMAIN LockKey = Units

Idle == [phase |-> "idle"]
Running == [phase : {"row", "work"}, call : Calls,
            todo : SUBSET Units, locked : SUBSET Units, unchecked : SUBSET Units]

TxTypeOK ==
  /\ TypeOK
  /\ tx \in [Txs -> Running \cup {Idle}]

TxInit == Init /\ tx = [t \in Txs |-> Idle]

-----------------------------------------------------------------------------
Begin(t, call) ==
  /\ tx[t] = Idle
  /\ tx' = [tx EXCEPT ![t] = [phase |-> "row", call |-> call,
                              todo |-> {}, locked |-> {}, unchecked |-> {}]]
  /\ UNCHANGED vars

\* Commit and rollback release every lock.
End(t) == tx' = [tx EXCEPT ![t] = Idle]

RowHeldBy(s, row) == tx[s].phase = "work" /\ tx[s].call.row = row
KeysOf(s) == IF tx[s].phase = "work" THEN {LockKey[u] : u \in tx[s].locked} ELSE {}

\* The row a call on bids leaves behind.
NewBid(call) ==
  CASE call.kind = "insert" -> call.new
    [] call.kind = "status" -> [bids[call.row] EXCEPT !.status = call.status]
    [] call.kind = "column" -> [bids[call.row] EXCEPT !.unit = call.unit]

\* The gate a call passes once it has its row.
Admitted(call) ==
  CASE call.kind = "assign"  -> /\ bids[call.row].status \in Occupying
                                /\ Cardinality(call.target) <= RoomsBooked[call.row]
                                /\ StayOf[call.row] # {}
    [] call.kind = "release" -> bids[call.row].status \notin {"NONE", "CHECKED_OUT", "CHECKED_IN"}
    [] call.kind = "insert"  -> bids[call.row].status = "NONE"
    [] call.kind \in {"status", "column"} -> bids[call.row].status # "NONE"
    [] call.kind = "block"   -> TRUE

\* The units a call locks: the RPCs those they give or take, the triggers the unit
\* of an occupying bid, and a new or moved pin.
Involved(call) ==
  CASE call.kind = "assign"  -> call.target \cup UnitsOf(call.row)
    [] call.kind = "release" -> UnitsOf(call.row)
    [] call.kind \in {"insert", "status", "column"} ->
         IF NewBid(call).status \in Occupying THEN {NewBid(call).unit} \ {NULL} ELSE {}
    [] call.kind = "block"   ->
         IF /\ call.new.unit = blocks[call.row].unit
            /\ call.new.nights = blocks[call.row].nights
           THEN {} ELSE {call.new.unit} \ {NULL}

\* Of these, the ones checked for other occupants.
ToCheck(call) ==
  CASE call.kind = "assign"  -> call.target
    [] call.kind = "release" -> {}
    [] call.kind = "block"   -> Involved(call)
    [] OTHER                 -> Involved(call) \ UnitsOf(call.row)

Vacant(u, call) ==
  CASE call.kind = "assign" -> Claimable(u, bids[call.row].room, call.row)
    [] call.kind = "block"  -> /\ UnitValid(u, call.new.room)
                               /\ ConflictFree(u, call.new.nights, NULL, call.row)
    [] OTHER                -> Claimable(u, NewBid(call).room, call.row)

\* Faulty: the units are checked before they are locked.
LockRowThenCheck(t) ==
  LET call == tx[t].call IN
  /\ tx[t].phase = "row"
  /\ \A s \in Txs : ~RowHeldBy(s, call.row)
  /\ IF Admitted(call) /\ \A u \in ToCheck(call) : Vacant(u, call)
       THEN tx' = [tx EXCEPT ![t].phase = "work", ![t].todo = Involved(call)]
       ELSE End(t)
  /\ UNCHANGED vars

\* Faulty: the row is read without FOR UPDATE.
ReadRow(t) ==
  LET call == tx[t].call IN
  /\ tx[t].phase = "row"
  /\ IF Admitted(call)
       THEN tx' = [tx EXCEPT ![t].phase = "work",
                             ![t].todo = Involved(call),
                             ![t].unchecked = ToCheck(call)]
       ELSE End(t)
  /\ UNCHANGED vars

LockRow(t) ==
  LET call == tx[t].call IN
  /\ tx[t].phase = "row"
  /\ \A s \in Txs : ~RowHeldBy(s, call.row)
  /\ IF Admitted(call)
       THEN tx' = [tx EXCEPT ![t].phase = "work",
                             ![t].todo = Involved(call),
                             ![t].unchecked = ToCheck(call)]
       ELSE End(t)
  /\ UNCHANGED vars

\* Faulty: in the order of the request.
InAnyOrder(t) == tx[t].todo

\* array_agg(distinct x order by x)
NextUnits(t) == {u \in tx[t].todo : \A v \in tx[t].todo : Rank[u] <= Rank[v]}

\* pg_advisory_xact_lock, re-entrant within the session.
LockUnit(t) ==
  /\ tx[t].phase = "work"
  /\ \E u \in NextUnits(t) :
       /\ \A s \in Txs \ {t} : LockKey[u] \notin KeysOf(s)
       /\ tx' = [tx EXCEPT ![t].todo = @ \ {u}, ![t].locked = @ \cup {u}]
  /\ UNCHANGED vars

Locked(t) == tx[t].phase = "work" /\ tx[t].todo = {}

Check(t) ==
  /\ Locked(t)
  /\ \E u \in tx[t].unchecked :
       IF Vacant(u, tx[t].call)
         THEN tx' = [tx EXCEPT ![t].unchecked = @ \ {u}]
         ELSE End(t)
  /\ UNCHANGED vars

\* The writes of a call whose units are locked and checked.
Write(call) ==
  \/ call.kind = "assign" /\ ReplaceLines(call.row, call.target)
  \/ call.kind = "release" /\ ReleaseUnits(call.row)
  \/ /\ call.kind \in {"insert", "status", "column"}
     /\ LET b == call.row  new == NewBid(call) IN
          /\ bids' = [bids EXCEPT ![b] = new]
          /\ \/ SyncExit(b, new)
             \/ SyncOpen(b, new)
             \/ SyncCleared(b, bids[b], new)
             \/ SyncHeld(b, new)
             \/ Involved(call) \ UnitsOf(b) # {} /\ AddLine(b, bids[b], new)
     /\ UNCHANGED <<blocks, activeUnits>>
  \/ /\ call.kind = "block"
     /\ blocks' = [blocks EXCEPT ![call.row] = call.new]
     /\ UNCHANGED <<bids, lines, mirror, activeUnits>>

\* The EXCLUDE constraint, last: a lapsed line of another stay may still be there.
Fits(call) ==
  \/ call.kind = "block"
  \/ \A u \in ToCheck(call) \ UnitsOf(call.row) : NotExcluded(u, StayOf[call.row], lines)

Commit(t) ==
  /\ Locked(t)
  /\ tx[t].unchecked = {}
  /\ IF Fits(tx[t].call) THEN Write(tx[t].call) ELSE UNCHANGED vars
  /\ End(t)

\* The session is lost, or a timeout cancels the statement.
Rollback(t) ==
  /\ tx[t] # Idle
  /\ End(t)
  /\ UNCHANGED vars

TxNext ==
  \E t \in Txs :
    \/ \E call \in Calls : Begin(t, call)
    \/ LockRow(t)
    \/ LockUnit(t)
    \/ Check(t)
    \/ Commit(t)
    \/ Rollback(t)

TxSpec == TxInit /\ [][TxNext]_txVars

\* Statements run to their end, and PostgreSQL grants the locks waited for in turn.
FairTxSpec ==
  /\ TxSpec
  /\ \A t \in Txs : /\ SF_txVars(LockRow(t))
                    /\ SF_txVars(LockUnit(t))
                    /\ WF_txVars(Check(t) \/ Commit(t))

-----------------------------------------------------------------------------
(* Properties *)

WaitsFor(t, s) ==
  \/ tx[t].phase = "row" /\ RowHeldBy(s, tx[t].call.row)
  \/ tx[t].phase = "work" /\ \E u \in NextUnits(t) : LockKey[u] \in KeysOf(s)

\* No set of transactions waits for one another: rows come before units, and the
\* sorted order of the units leaves no cycle.
NoWaitCycle ==
  \A S \in (SUBSET Txs) \ {{}} : \E t \in S : \A s \in S \ {t} : ~WaitsFor(t, s)

\* Every transaction ends.
EveryTxEnds == \A t \in Txs : tx[t].phase = "row" ~> tx[t] = Idle
=============================================================================
