------------------------------ MODULE StayUnits ------------------------------
(***************************************************************************)
(* The physical-room assignment authority of migration v753: bids, their   *)
(* assignment lines (bid_unit_assignment_lines), the legacy slot-1 mirror  *)
(* (bid_unit_assignments), bids."assignedUnitId" and the unit-pinned       *)
(* room_blocks, with the plpgsql RPCs and the two triggers that keep them  *)
(* together.  Every action is one committed database transaction; module   *)
(* StayTx opens the transactions up and shows that their locks make them   *)
(* look like these actions.  A refusal (RAISE EXCEPTION) rolls everything  *)
(* back, so it is the action being disabled.                               *)
(*                                                                         *)
(* One hotel is modelled: a room category belongs to one hotel, so a unit  *)
(* of another hotel is a unit of another category.  A stay is the set of   *)
(* its nights (checkout-exclusive, as daterange '[)'); an undated stay is  *)
(* the empty set.                                                          *)
(***************************************************************************)
EXTENDS Integers, FiniteSets

CONSTANTS
  Bids,          \* bids.id
  Blocks,        \* room_blocks.id
  Units,         \* hotel_room_units.id
  Rooms,         \* room categories (rooms.id)
  Nights,        \* the calendar
  CategoryOf,    \* hotel_room_units."roomId" of every unit
  StayOf,        \* nights of the bid's request, {} when it has no dates
  RoomsBooked,   \* bids."numRooms"
  Written,       \* the bid statuses the writers of bids use
  NULL           \* SQL NULL

Occupying == {"ACCEPTED", "CONFIRMED", "CHECKED_IN"}
Terminal  == {"CANCELLED", "EXPIRED", "REJECTED", "DECLINED"}
Open      == {"PENDING", "COUNTER"}
Statuses  == Occupying \cup Terminal \cup Open \cup {"CHECKED_OUT"}

ASSUME StayUnitsAssumption ==
  /\ CategoryOf \in [Units -> Rooms]
  /\ StayOf \in [Bids -> SUBSET Nights]
  /\ RoomsBooked \in [Bids -> Nat \ {0}]
  /\ Written \subseteq Statuses
  /\ NULL \notin Units \cup Bids \cup Blocks \cup Rooms

VARIABLES
  bids,        \* bid row: status, unit = "assignedUnitId", room = "roomId"
  lines,       \* the ACTIVE assignment lines
  mirror,      \* the legacy row's unit per bid, NULL when there is none
  blocks,      \* room_blocks rows; an absent block holds no night
  activeUnits  \* units whose status is 'active'

vars == <<bids, lines, mirror, blocks, activeUnits>>

UnitColumn == Units \cup {NULL}
RoomColumn == Rooms \cup {NULL}
BidRow     == [status : Statuses \cup {"NONE"}, unit : UnitColumn, room : RoomColumn]
BlockRow   == [room : RoomColumn, nights : SUBSET Nights, unit : UnitColumn]

\* lapsed is a history field: the bid stopped occupying inventory at some
\* moment since the line was inserted, without the line being closed.
Line == [bid : Bids, unit : Units, slot : Nat \ {0},
         nights : SUBSET Nights, lapsed : BOOLEAN]

TypeOK ==
  /\ bids \in [Bids -> BidRow]
  /\ lines \subseteq Line
  /\ mirror \in [Bids -> UnitColumn]
  /\ blocks \in [Blocks -> BlockRow]
  /\ activeUnits \subseteq Units

NoBid   == [status |-> "NONE", unit |-> NULL, room |-> NULL]
NoBlock == [room |-> NULL, nights |-> {}, unit |-> NULL]

Init ==
  /\ bids = [b \in Bids |-> NoBid]
  /\ lines = {}
  /\ mirror = [b \in Bids |-> NULL]
  /\ blocks = [k \in Blocks |-> NoBlock]
  /\ activeUnits = Units

-----------------------------------------------------------------------------
(* Occupancy helpers *)

LinesOf(b) == {l \in lines : l.bid = b}
UnitsOf(b) == {l.unit : l \in LinesOf(b)}
SlotsOf(ls) == {l.slot : l \in ls}

\* Faulty: a stay with unknown dates overlaps nothing.
ClashesDatedOnly(held, nights) == held \cap nights # {}

\* Unknown dates of the other stay count as a conflict.
Clashes(held, nights) == held = {} \/ held \cap nights # {}

LineConflicts(u, nights, b) ==
  {l \in lines : /\ l.unit = u
                 /\ l.bid # b
                 /\ bids[l.bid].status \in Occupying
                 /\ Clashes(l.nights, nights)}

BlockConflicts(u, nights, k) ==
  {j \in Blocks \ {k} : blocks[j].unit = u /\ blocks[j].nights \cap nights # {}}

\* Faulty: pinned blocks are not counted.
ConflictFreeOfLines(u, nights, b, k) == LineConflicts(u, nights, b) = {}

\* stay_unit_conflict_count(u, nights, b, k) = 0: b is the claiming bid and k the
\* claiming block, NULL for the one that is not claiming.
ConflictFree(u, nights, b, k) ==
  LineConflicts(u, nights, b) = {} /\ BlockConflicts(u, nights, k) = {}

\* Exact category, active.
UnitValid(u, room) == u \in activeUnits /\ CategoryOf[u] = room

\* What is checked under the unit's lock before bid b gets a line on it.  The trigger
\* skips the conflict count of an undated stay.
Claimable(u, room, b) ==
  UnitValid(u, room) /\ (StayOf[b] # {} => ConflictFree(u, StayOf[b], b, NULL))

\* Faulty: the constraint is missing.
NotExcludedEver(u, nights, rest) == TRUE

\* The EXCLUDE constraint excl_bual_unit_night_overlap, for one inserted line.
NotExcluded(u, nights, rest) ==
  \A l \in rest : l.unit = u => l.nights \cap nights = {}

\* Faulty: slots are counted from 0.
FreeSlotsFromZero(used, n) ==
  {s \in 0..(Cardinality(used) + n) :
     s \notin used /\ Cardinality((0..s) \ used) <= n}

\* stay_next_free_slot, n times: the n smallest slots not in use.
FreeSlots(used, n) ==
  {s \in 1..(Cardinality(used) + n) :
     s \notin used /\ Cardinality((1..s) \ used) <= n}

NewLine(b, u, s) ==
  [bid |-> b, unit |-> u, slot |-> s, nights |-> StayOf[b], lapsed |-> FALSE]

-----------------------------------------------------------------------------
(* trg_stay_sync_bid_unit_assignment: AFTER INSERT OR UPDATE OF              *)
(* "assignedUnitId", status ON bids.  SyncBid(b, old, new) says what the     *)
(* trigger leaves in lines and mirror when row old becomes new; it is false  *)
(* when the trigger raises.                                                  *)

\* CHECKED_OUT closes the lines as 'completed', a dead bid as 'released'; closed
\* lines are history and left out.  The column and the mirror keep their value.
SyncExit(b, new) ==
  /\ new.status \in Terminal \cup {"CHECKED_OUT"}
  /\ lines' = lines \ LinesOf(b)
  /\ UNCHANGED mirror

\* PENDING / COUNTER: "does not occupy inventory yet", whatever lines it has.
SyncOpen(b, new) ==
  /\ new.status \in Open
  /\ lines' = (lines \ LinesOf(b)) \cup {[l EXCEPT !.lapsed = TRUE] : l \in LinesOf(b)}
  /\ UNCHANGED mirror

\* The column was cleared: the line of the unit it named is released.
SyncCleared(b, old, new) ==
  /\ new.status \in Occupying
  /\ new.unit = NULL
  /\ lines' = {l \in lines : ~(l.bid = b /\ l.unit = old.unit)}
  /\ mirror' = IF old.unit # NULL /\ mirror[b] = old.unit
                 THEN [mirror EXCEPT ![b] = NULL] ELSE mirror

\* Faulty: the mirror row is taken for an assignment.
SyncHeldByMirror(b, new) ==
  /\ new.status \in Occupying
  /\ new.unit # NULL
  /\ new.unit \in UnitsOf(b) \/ mirror[b] = new.unit
  /\ UNCHANGED <<lines, mirror>>

SyncHeld(b, new) ==
  /\ new.status \in Occupying
  /\ new.unit \in UnitsOf(b)
  /\ UNCHANGED <<lines, mirror>>

\* The bid occupies a unit it has no line for: the line is inserted, the mirror points
\* at it, and the old unit's line is superseded when there are too many lines.
AddLine(b, old, new) ==
  /\ NotExcluded(new.unit, StayOf[b], lines)
  /\ \E s \in FreeSlots(SlotsOf(LinesOf(b)), 1) :
       LET taken == lines \cup {NewLine(b, new.unit, s)}
           tooMany == /\ old.unit \notin {NULL, new.unit}
                      /\ Cardinality(LinesOf(b)) + 1 > RoomsBooked[b]
       IN  lines' = IF tooMany
                    THEN {l \in taken : ~(l.bid = b /\ l.unit = old.unit)}
                    ELSE taken
  /\ mirror' = [mirror EXCEPT ![b] = new.unit]

SyncTake(b, old, new) ==
  /\ new.status \in Occupying
  /\ new.unit \in Units \ UnitsOf(b)
  /\ Claimable(new.unit, new.room, b)
  /\ AddLine(b, old, new)

SyncBid(b, old, new) ==
  \/ SyncExit(b, new)
  \/ SyncOpen(b, new)
  \/ SyncCleared(b, old, new)
  \/ SyncHeld(b, new)
  \/ SyncTake(b, old, new)

\* A writer of bids: the row becomes new and the trigger fires.
WriteBid(b, new) ==
  /\ bids' = [bids EXCEPT ![b] = new]
  /\ SyncBid(b, bids[b], new)
  /\ UNCHANGED <<blocks, activeUnits>>

-----------------------------------------------------------------------------
(* Writers of bids *)

\* app/api/bids/place: the INSERT, possibly of a unit-level booking.
PlaceBid(b, status, room, u) ==
  /\ bids[b].status = "NONE"
  /\ status \in Open \cup {"ACCEPTED"}
  /\ u # NULL => CategoryOf[u] = room
  /\ WriteBid(b, [status |-> status, unit |-> u, room |-> room])

\* A PATCH of bids.status alone: accept, counter, reject, cancel, expiry,
\* check-in, check-out.  None of the routes restricts it in the database.
PatchStatus(b, status) ==
  /\ bids[b].status # "NONE"
  /\ WriteBid(b, [bids[b] EXCEPT !.status = status])

\* A direct writer of the column (Railway, a manual script).
WriteColumn(b, u) ==
  /\ bids[b].status # "NONE"
  /\ WriteBid(b, [bids[b] EXCEPT !.unit = u])

\* app/api/bids/[id]/upgrade-room: the category changes and no trigger watches that
\* column.  The route's ACCEPTED check is a read made before its PATCH.
UpgradeRoom(b, room) ==
  /\ bids[b].status # "NONE"
  /\ bids[b].room # room
  /\ bids' = [bids EXCEPT ![b].room = room]
  /\ UNCHANGED <<lines, mirror, blocks, activeUnits>>

-----------------------------------------------------------------------------
(* The bid RPCs *)

\* Faulty: a line outside the target is closed only when its slot is out of range.
KeptInRange(b, target) ==
  {l \in LinesOf(b) : l.unit \in target \/ l.slot <= Cardinality(target)}

\* The lines of b that survive the assignment of the set target.
Kept(b, target) == {l \in LinesOf(b) : l.unit \in target}

\* Faulty: the highest slot is the primary one.
IsHighestSlot(l, ls) == l \in ls /\ \A m \in ls : m.slot <= l.slot

\* order by slot asc limit 1
IsPrimary(l, ls) == l \in ls /\ \A m \in ls : l.slot <= m.slot

\* The writes of stay_assign_units.  The request order of the units is free, so the
\* missing ones take the free slots in any order.  The closing UPDATE of bids fires the
\* trigger, which finds the line and does nothing.
ReplaceLines(b, target) ==
  LET kept  == Kept(b, target)
      fresh == target \ {l.unit : l \in kept}
      rest  == (lines \ LinesOf(b)) \cup kept
  IN
  /\ \A u \in fresh : NotExcluded(u, StayOf[b], rest)
  /\ \E slotOf \in [fresh -> FreeSlots(SlotsOf(kept), Cardinality(fresh))] :
       /\ \A u, v \in fresh : slotOf[u] = slotOf[v] => u = v
       /\ LET mine == kept \cup {NewLine(b, u, slotOf[u]) : u \in fresh} IN
            /\ lines' = (lines \ LinesOf(b)) \cup mine
            /\ \E first \in mine :
                 /\ IsPrimary(first, mine)
                 /\ mirror' = [mirror EXCEPT ![b] = first.unit]
                 /\ bids' = [bids EXCEPT ![b].unit = first.unit]
  /\ UNCHANGED <<blocks, activeUnits>>

\* stay_assign_units below its lifecycle gate.
SetUnits(b, target) ==
  /\ target # {}
  /\ Cardinality(target) <= RoomsBooked[b]
  /\ StayOf[b] # {}
  /\ \A u \in target : Claimable(u, bids[b].room, b)
  /\ ReplaceLines(b, target)

\* Ordinary assignment, before check-in.
AssignUnits(b, target) ==
  /\ bids[b].status \in {"ACCEPTED", "CONFIRMED"}
  /\ SetUnits(b, target)

\* An in-house stay changes room only by an explicit transfer with a reason.
TransferUnits(b, target) ==
  /\ bids[b].status = "CHECKED_IN"
  /\ SetUnits(b, target)

\* Faulty: an in-house guest loses the room too.
ReleaseUnitsInHouse(b) ==
  /\ bids[b].status \notin {"NONE", "CHECKED_OUT"}
  /\ lines' = lines \ LinesOf(b)
  /\ mirror' = [mirror EXCEPT ![b] = NULL]
  /\ bids' = [bids EXCEPT ![b].unit = NULL]
  /\ UNCHANGED <<blocks, activeUnits>>

ReleaseUnits(b) ==
  /\ bids[b].status \notin {"NONE", "CHECKED_OUT", "CHECKED_IN"}
  /\ lines' = lines \ LinesOf(b)
  /\ mirror' = [mirror EXCEPT ![b] = NULL]
  /\ bids' = [bids EXCEPT ![b].unit = NULL]
  /\ UNCHANGED <<blocks, activeUnits>>

\* trg_stay_guard_legacy_assignment: an old in-flight writer of the mirror passes
\* only with a matching active line.
WriteMirror(b, u) ==
  /\ u \in UnitsOf(b)
  /\ mirror' = [mirror EXCEPT ![b] = u]
  /\ UNCHANGED <<bids, lines, blocks, activeUnits>>

-----------------------------------------------------------------------------
(* room_blocks *)

\* Faulty: an unchanged pin passes whatever happens to the dates.
BlockGuardByPin(k, old, new) ==
  \/ new.unit = NULL
  \/ new.unit = old.unit
  \/ UnitValid(new.unit, new.room) /\ ConflictFree(new.unit, new.nights, NULL, k)

\* trg_stay_guard_room_block_unit: an unpinned block, and an unchanged pin, pass.
BlockGuard(k, old, new) ==
  \/ new.unit = NULL
  \/ new.unit = old.unit /\ new.nights = old.nights
  \/ UnitValid(new.unit, new.room) /\ ConflictFree(new.unit, new.nights, NULL, k)

WriteBlock(k, new) ==
  /\ BlockGuard(k, blocks[k], new)
  /\ blocks' = [blocks EXCEPT ![k] = new]
  /\ UNCHANGED <<bids, lines, mirror, activeUnits>>

\* Walk-in POST, OTA import, inventory hold: a new block, pinned or not.
InsertBlock(k, room, nights, u) ==
  /\ blocks[k].nights = {}
  /\ nights # {}
  /\ WriteBlock(k, [room |-> room, nights |-> nights, unit |-> u])

\* Walk-in PATCH: category, dates and pin of a block may change together.  The guard
\* does not look at the category when pin and dates stay.
PatchBlock(k, room, nights, u) ==
  /\ blocks[k].nights # {}
  /\ nights # {}
  /\ WriteBlock(k, [room |-> room, nights |-> nights, unit |-> u])

AssignBlockUnit(k, u) ==
  /\ blocks[k].nights # {}
  /\ WriteBlock(k, [blocks[k] EXCEPT !.unit = u])

ReleaseBlockUnit(k) ==
  /\ blocks[k].nights # {}
  /\ WriteBlock(k, [blocks[k] EXCEPT !.unit = NULL])

DeleteBlock(k) ==
  /\ blocks[k].nights # {}
  /\ blocks' = [blocks EXCEPT ![k] = NoBlock]
  /\ UNCHANGED <<bids, lines, mirror, activeUnits>>

\* partner/room-units PATCH and DELETE: no check of the stays that hold the unit.
\* A deleted unit counts as inactive.
SetUnitStatus(u) ==
  /\ activeUnits' = IF u \in activeUnits THEN activeUnits \ {u} ELSE activeUnits \cup {u}
  /\ UNCHANGED <<bids, lines, mirror, blocks>>

-----------------------------------------------------------------------------
\* The writers found in the repository.
AppNext ==
  \/ \E b \in Bids :
       \/ \E s \in Written, r \in Rooms, u \in UnitColumn : PlaceBid(b, s, r, u)
       \/ \E s \in Written : PatchStatus(b, s)
       \/ \E r \in Rooms : UpgradeRoom(b, r)
       \/ \E target \in SUBSET Units : AssignUnits(b, target) \/ TransferUnits(b, target)
       \/ ReleaseUnits(b)
  \/ \E k \in Blocks :
       \/ \E r \in Rooms, n \in SUBSET Nights, u \in UnitColumn : InsertBlock(k, r, n, u)
       \/ \E r \in Rooms, n \in SUBSET Nights, u \in UnitColumn : PatchBlock(k, r, n, u)
       \/ \E u \in Units : AssignBlockUnit(k, u)
       \/ ReleaseBlockUnit(k)
       \/ DeleteBlock(k)
  \/ \E u \in Units : SetUnitStatus(u)

\* The writers the migration also answers for: Railway, scripts, old requests.
OutsideNext ==
  \E b \in Bids, u \in UnitColumn : WriteColumn(b, u) \/ WriteMirror(b, u)

Next == AppNext \/ OutsideNext

AppSpec == Init /\ [][AppNext]_vars
Spec    == Init /\ [][Next]_vars

-----------------------------------------------------------------------------
(* Properties *)

\* Two stays never hold active lines for the same unit on the same night, and a
\* stay never holds a unit or a slot twice: the unique indexes and the EXCLUDE
\* constraint of bid_unit_assignment_lines, as the RPCs and the trigger keep them.
LinesDisjoint ==
  \A l, m \in lines :
    /\ l.unit = m.unit /\ l.nights \cap m.nights # {} => l = m
    /\ l.bid = m.bid /\ (l.unit = m.unit \/ l.slot = m.slot) => l = m

\* Two room_blocks are never pinned to the same unit on the same night, whatever
\* the order of inserts, date edits and pins.
BlocksDisjoint ==
  \A k, j \in Blocks :
    k # j /\ blocks[k].unit # NULL /\ blocks[k].unit = blocks[j].unit
      => blocks[k].nights \cap blocks[j].nights = {}

\* A pinned block and a dated line share a unit-night only if the line's bid has
\* meanwhile stopped occupying inventory with its line left active.
OneOccupantUnlessLapsed ==
  \A l \in lines, k \in Blocks :
    blocks[k].unit = l.unit /\ blocks[k].nights \cap l.nights # {} => l.lapsed

\* What the migration promises without that exception: one unit, one night, one
\* occupant among occupying stays and pinned blocks.  The code does not keep this.
OneOccupantPerUnitNight ==
  \A l \in lines, k \in Blocks :
    bids[l.bid].status \in Occupying /\ blocks[k].unit = l.unit
      => blocks[k].nights \cap l.nights = {}

\* The migration's INVARIANT: no occupying booking holds a unit solely in
\* bids."assignedUnitId" while absent from the lines table, whoever wrote it.
ColumnBackedByLine ==
  \A b \in Bids :
    bids[b].status \in Occupying /\ bids[b].unit # NULL => bids[b].unit \in UnitsOf(b)

\* A finished or dead stay occupies no unit.
ExitedBidsHoldNothing ==
  \A b \in Bids : bids[b].status \in Terminal \cup {"CHECKED_OUT"} => LinesOf(b) = {}

\* With the repository's own writers, an occupying booking that has lines names
\* the lowest-slot one in bids."assignedUnitId" and in the legacy mirror.
PrimaryIsLowestSlot ==
  \A b \in Bids :
    bids[b].status \in Occupying /\ LinesOf(b) # {} =>
      \E l \in LinesOf(b) :
        /\ \A m \in LinesOf(b) : l.slot <= m.slot
        /\ bids[b].unit = l.unit
        /\ mirror[b] = l.unit

\* With the repository's own writers, a booking never holds more rooms than it booked.
RoomsWithinBooking ==
  \A b \in Bids : Cardinality(LinesOf(b)) <= RoomsBooked[b]

\* A dated claim of a unit is never granted while another occupying stay holds
\* the unit for unknown dates (the conflict count fails closed).
UnknownDatesFailClosed ==
  [][\A l \in lines' : (\A m \in lines : m.bid # l.bid \/ m.unit # l.unit) =>
       \A m \in lines : m.unit = l.unit /\ m.nights = {} /\ l.nights # {}
                         => bids[m.bid].status \notin Occupying]_vars

\* Nor is one ever granted over the undated line of a stay that has occupied inventory
\* ever since, however the transactions interleave: a stay that returns from PENDING or
\* COUNTER while another transaction is past its check may find a lapsed line granted over.
UndatedClaimsFailClosed ==
  [][\A l \in lines' : (\A m \in lines : m.bid # l.bid \/ m.unit # l.unit) =>
       \A m \in lines : m.unit = l.unit /\ m.nights = {} /\ l.nights # {}
                         => m.lapsed]_vars

\* With the repository's own writers, a stay that is in house and stays in house
\* never loses its last room: rooms change only by transfer.
InHouseKeepsRoom ==
  [][\A b \in Bids :
       /\ bids[b].status = "CHECKED_IN"
       /\ bids'[b].status = "CHECKED_IN"
       /\ LinesOf(b) # {}
       => \E l \in lines' : l.bid = b]_vars
=============================================================================
