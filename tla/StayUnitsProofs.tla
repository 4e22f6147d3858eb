-------------------------- MODULE StayUnitsProofs --------------------------
(***************************************************************************)
(* Proofs that the assignment authority keeps its invariants for any bids, *)
(* blocks, units and calendar, whoever writes the bids, and that each of   *)
(* its steps is a step of UnitClaims or a stutter.                         *)
(***************************************************************************)
EXTENDS StayClaims, FiniteSetTheorems, TLAPS

\* An active line whose bid does not occupy inventory has lapsed.
LapsedWhenNotOccupying ==
  \A l \in lines : bids[l.bid].status \notin Occupying => l.lapsed

\* A free slot is a positive number not in use.
LEMMA FreeSlotsPositive ==
  ASSUME NEW used, NEW n, NEW s \in FreeSlots(used, n)
  PROVE  s \in Nat \ {0} /\ s \notin used
BY DEF FreeSlots

\* A granted line is a line.
LEMMA NewLineType ==
  ASSUME NEW b \in Bids, NEW u \in Units, NEW s \in Nat \ {0}
  PROVE  NewLine(b, u, s) \in Line
BY StayUnitsAssumption DEF NewLine, Line

-----------------------------------------------------------------------------
(* What is written, whether or not a conflict check went before: the RPC's    *)
(* ReplaceLines, and the trigger's branches with the check of the last one    *)
(* left aside.  Most invariants rest on the writes alone, so that what is     *)
(* said here serves the transactions of StayTx as well.                       *)

SyncAdd(b, old, new) ==
  /\ new.status \in Occupying
  /\ new.unit \in Units \ UnitsOf(b)
  /\ AddLine(b, old, new)

SyncWrites(b, old, new) ==
  \/ SyncExit(b, new)
  \/ SyncOpen(b, new)
  \/ SyncCleared(b, old, new)
  \/ SyncHeld(b, new)
  \/ SyncAdd(b, old, new)

BidWrites(b, new) ==
  /\ bids' = [bids EXCEPT ![b] = new]
  /\ SyncWrites(b, bids[b], new)
  /\ UNCHANGED <<blocks, activeUnits>>

\* Every write of a bid is one of these.
LEMMA WriteBidWrites ==
  ASSUME NEW b, NEW new, WriteBid(b, new)
  PROVE  BidWrites(b, new)
BY DEF WriteBid, BidWrites, SyncBid, SyncWrites, SyncTake, SyncAdd

-----------------------------------------------------------------------------
(* What the trigger does to the lines, for a new row of an existing bid. *)

\* The trigger leaves lines, a mirror and a column of the right form.
LEMMA SyncTypes ==
  ASSUME TypeOK, NEW b \in Bids, NEW old \in BidRow, NEW new \in BidRow,
         SyncWrites(b, old, new)
  PROVE  /\ lines' \subseteq Line
         /\ mirror' \in [Bids -> UnitColumn]
<1>0. UnitsOf(b) \subseteq Units
  BY DEF TypeOK, UnitsOf, LinesOf, Line
<1>1. CASE SyncExit(b, new)
  BY <1>0, <1>1 DEF SyncExit, TypeOK
<1>2. CASE SyncOpen(b, new)
  <2>1. \A l \in LinesOf(b) : [l EXCEPT !.lapsed = TRUE] \in Line
    BY DEF TypeOK, LinesOf, Line
  <2> QED BY <1>2, <2>1 DEF SyncOpen, TypeOK
<1>3. CASE SyncCleared(b, old, new)
  BY <1>3 DEF SyncCleared, TypeOK, UnitColumn
<1>4. CASE SyncHeld(b, new)
  BY <1>4 DEF SyncHeld, TypeOK
<1>5. CASE SyncAdd(b, old, new)
  <2>1. PICK s \in FreeSlots(SlotsOf(LinesOf(b)), 1) :
          lines' \subseteq lines \cup {NewLine(b, new.unit, s)}
    BY <1>5 DEF SyncAdd, AddLine
  <2>2. NewLine(b, new.unit, s) \in Line
    BY <1>5, FreeSlotsPositive, NewLineType DEF SyncAdd, AddLine
  <2> QED BY <1>5, <2>1, <2>2 DEF SyncAdd, AddLine, TypeOK, UnitColumn
<1> QED BY <1>1, <1>2, <1>3, <1>4, <1>5 DEF SyncWrites

\* So does the replacement of a stay's units.
LEMMA ReplaceTypes ==
  ASSUME TypeOK, NEW b \in Bids, NEW target \in SUBSET Units, ReplaceLines(b, target)
  PROVE  TypeOK'
<1> DEFINE kept  == {l \in LinesOf(b) : l.unit \in target}
           fresh == target \ {l.unit : l \in kept}
<1>1. PICK slotOf \in [fresh -> FreeSlots(SlotsOf(kept), Cardinality(fresh))] :
        \E first \in kept \cup {NewLine(b, u, slotOf[u]) : u \in fresh} :
          /\ lines' = (lines \ LinesOf(b)) \cup (kept \cup {NewLine(b, u, slotOf[u]) : u \in fresh})
          /\ mirror' = [mirror EXCEPT ![b] = first.unit]
          /\ bids' = [bids EXCEPT ![b].unit = first.unit]
  BY DEF ReplaceLines, Kept, IsPrimary
<1> DEFINE mine == kept \cup {NewLine(b, u, slotOf[u]) : u \in fresh}
<1>2. PICK first \in mine : /\ lines' = (lines \ LinesOf(b)) \cup mine
                           /\ mirror' = [mirror EXCEPT ![b] = first.unit]
                           /\ bids' = [bids EXCEPT ![b].unit = first.unit]
  BY <1>1
<1>3. \A u \in fresh : NewLine(b, u, slotOf[u]) \in Line
  BY FreeSlotsPositive, NewLineType
<1>4. mine \subseteq Line
  BY <1>3 DEF TypeOK, LinesOf
<1>5. first.unit \in UnitColumn
  BY <1>2, <1>4 DEF Line, UnitColumn
<1>6. UNCHANGED <<blocks, activeUnits>>
  BY DEF ReplaceLines
<1> QED BY <1>2, <1>4, <1>5, <1>6 DEF TypeOK, BidRow

\* The store stays well formed when a bid is written.
LEMMA BidTypes ==
  ASSUME TypeOK, NEW b \in Bids, NEW new \in BidRow, BidWrites(b, new)
  PROVE  TypeOK'
<1>1. bids[b] \in BidRow  BY DEF TypeOK
<1> QED BY <1>1, SyncTypes DEF BidWrites, TypeOK

\* So it does with every transaction.
LEMMA TypeStep ==
  ASSUME TypeOK, [Next]_vars
  PROVE  TypeOK'
<1>1. ASSUME NEW b \in Bids, NEW new \in BidRow, WriteBid(b, new) PROVE TypeOK'
  BY <1>1, WriteBidWrites, BidTypes
<1>2. ASSUME NEW b \in Bids, NEW s \in Written, NEW r \in Rooms, NEW u \in UnitColumn,
             PlaceBid(b, s, r, u)
      PROVE  TypeOK'
  BY <1>1, <1>2, StayUnitsAssumption DEF PlaceBid, BidRow, RoomColumn
<1>3. ASSUME NEW b \in Bids, NEW s \in Written, PatchStatus(b, s) PROVE TypeOK'
  BY <1>1, <1>3, StayUnitsAssumption DEF PatchStatus, BidRow, TypeOK
<1>4. ASSUME NEW b \in Bids, NEW u \in UnitColumn, WriteColumn(b, u) PROVE TypeOK'
  BY <1>1, <1>4 DEF WriteColumn, BidRow, TypeOK
<1>5. ASSUME NEW b \in Bids, NEW r \in Rooms, UpgradeRoom(b, r) PROVE TypeOK'
  BY <1>5 DEF UpgradeRoom, TypeOK, BidRow, RoomColumn
<1>6. ASSUME NEW b \in Bids, NEW target \in SUBSET Units,
             AssignUnits(b, target) \/ TransferUnits(b, target)
      PROVE  TypeOK'
  BY <1>6, ReplaceTypes DEF AssignUnits, TransferUnits, SetUnits
<1>7. ASSUME NEW b \in Bids, ReleaseUnits(b) PROVE TypeOK'
  BY <1>7 DEF ReleaseUnits, TypeOK, BidRow, UnitColumn
<1>8. ASSUME NEW b \in Bids, NEW u \in UnitColumn, WriteMirror(b, u) PROVE TypeOK'
  BY <1>8 DEF WriteMirror, TypeOK
<1>9. ASSUME NEW k \in Blocks, NEW new \in BlockRow, WriteBlock(k, new) PROVE TypeOK'
  BY <1>9 DEF WriteBlock, TypeOK
<1>10. ASSUME NEW k \in Blocks,
              \/ \E r \in Rooms, n \in SUBSET Nights, u \in UnitColumn : InsertBlock(k, r, n, u)
              \/ \E r \in Rooms, n \in SUBSET Nights, u \in UnitColumn : PatchBlock(k, r, n, u)
              \/ \E u \in Units : AssignBlockUnit(k, u)
              \/ ReleaseBlockUnit(k)
       PROVE  TypeOK'
  BY <1>9, <1>10
     DEF InsertBlock, PatchBlock, AssignBlockUnit, ReleaseBlockUnit, BlockRow, TypeOK,
         UnitColumn, RoomColumn
<1>11. ASSUME NEW k \in Blocks, DeleteBlock(k) PROVE TypeOK'
  BY <1>11 DEF DeleteBlock, NoBlock, BlockRow, TypeOK, UnitColumn, RoomColumn
<1>12. ASSUME NEW u \in Units, SetUnitStatus(u) PROVE TypeOK'
  BY <1>12 DEF SetUnitStatus, TypeOK
<1>13. CASE UNCHANGED vars
  BY <1>13 DEF vars, TypeOK
<1> QED
  BY <1>2, <1>3, <1>4, <1>5, <1>6, <1>7, <1>8, <1>10, <1>11, <1>12, <1>13
     DEF Next, AppNext, OutsideNext

\* Every row and line of the store stays well formed, whoever writes the bids.
THEOREM TypeCorrect == Spec => []TypeOK
<1>1. Init => TypeOK
  BY DEF Init, TypeOK, NoBid, NoBlock, BidRow, BlockRow, UnitColumn, RoomColumn
<1>2. TypeOK /\ [Next]_vars => TypeOK'
  BY TypeStep
<1> QED BY <1>1, <1>2, PTL DEF Spec

-----------------------------------------------------------------------------
(* One occupant per unit-night.  The conflict counts look only at occupying  *)
(* bids, so the invariant needs its companion: a line the counts overlook    *)
(* has lapsed.                                                               *)

Occupancy == LapsedWhenNotOccupying /\ OneOccupantUnlessLapsed

\* A line granted by a successful conflict check meets no pinned block.
LEMMA GrantedLineIsFree ==
  ASSUME NEW b \in Bids, NEW u \in Units, NEW s,
         StayOf[b] # {} => ConflictFree(u, StayOf[b], b, NULL)
  PROVE  \A k \in Blocks :
           blocks[k].unit = u => blocks[k].nights \cap NewLine(b, u, s).nights = {}
BY StayUnitsAssumption DEF ConflictFree, BlockConflicts, NewLine

\* A write of a bid takes no unit that is pinned for its nights.
LEMMA WriteBidOccupancy ==
  ASSUME TypeOK, Occupancy, NEW b \in Bids, NEW new \in BidRow, WriteBid(b, new)
  PROVE  Occupancy'
<1>0. /\ bids' = [bids EXCEPT ![b] = new]
      /\ blocks' = blocks
      /\ \A l \in lines : l \in Line
  BY DEF WriteBid, TypeOK
<1>1. CASE SyncExit(b, new)
  BY <1>0, <1>1 DEF SyncExit, LinesOf, Occupancy, LapsedWhenNotOccupying,
                    OneOccupantUnlessLapsed, TypeOK, Line
<1>2. CASE SyncOpen(b, new)
  <2>1. ASSUME NEW l \in lines'
        PROVE  \/ l \in lines /\ l.bid # b
               \/ /\ l.lapsed = TRUE
                  /\ \E m \in lines : l.unit = m.unit /\ l.nights = m.nights /\ l.bid = m.bid
    BY <1>0, <1>2, <2>1 DEF SyncOpen, LinesOf, Line
  <2> QED BY <1>0, <2>1 DEF Occupancy, LapsedWhenNotOccupying, OneOccupantUnlessLapsed, TypeOK, Line
<1>3. CASE SyncCleared(b, bids[b], new)
  BY <1>0, <1>3 DEF SyncCleared, Occupancy, LapsedWhenNotOccupying,
                    OneOccupantUnlessLapsed, TypeOK, Line
<1>4. CASE SyncHeld(b, new)
  BY <1>0, <1>4 DEF SyncHeld, Occupancy, LapsedWhenNotOccupying,
                    OneOccupantUnlessLapsed, TypeOK, Line
<1>5. CASE SyncTake(b, bids[b], new)
  <2>1. PICK s : lines' \subseteq lines \cup {NewLine(b, new.unit, s)}
    BY <1>5 DEF SyncTake, AddLine, Claimable
  <2>2. \A k \in Blocks : blocks[k].unit = new.unit
                         => blocks[k].nights \cap NewLine(b, new.unit, s).nights = {}
    BY <1>5, GrantedLineIsFree DEF SyncTake, AddLine, Claimable
  <2>3. NewLine(b, new.unit, s).bid = b /\ NewLine(b, new.unit, s).unit = new.unit
    BY DEF NewLine
  <2>4. new.status \in Occupying
    BY <1>5 DEF SyncTake, AddLine, Claimable
  <2> QED
    BY <1>0, <2>1, <2>2, <2>3, <2>4
       DEF Occupancy, LapsedWhenNotOccupying, OneOccupantUnlessLapsed, TypeOK, Line
<1> QED BY <1>1, <1>2, <1>3, <1>4, <1>5 DEF WriteBid, SyncBid

\* Neither does the replacement of an occupying stay's units.
LEMMA SetUnitsOccupancy ==
  ASSUME TypeOK, Occupancy, NEW b \in Bids, NEW target \in SUBSET Units,
         bids[b].status \in Occupying, SetUnits(b, target)
  PROVE  Occupancy'
<1>1. /\ \A c \in Bids : bids'[c].status = bids[c].status
      /\ blocks' = blocks
  BY DEF SetUnits, ReplaceLines, Claimable, TypeOK, BidRow
<1>2. \A l \in lines' : \/ l \in lines
                       \/ \E u \in target : \E s : l = NewLine(b, u, s)
  BY DEF SetUnits, ReplaceLines, Claimable, Kept, IsPrimary, LinesOf
<1>3. ASSUME NEW u \in target, NEW s, NEW l, l = NewLine(b, u, s)
      PROVE  /\ l.bid = b
             /\ l.unit = u
             /\ \A k \in Blocks : blocks[k].unit = u => blocks[k].nights \cap l.nights = {}
  <2>1. StayOf[b] # {} => ConflictFree(u, StayOf[b], b, NULL)
    BY DEF SetUnits, ReplaceLines, Claimable
  <2> QED BY <1>3, <2>1, GrantedLineIsFree DEF NewLine
<1>4. \A l \in lines : l.bid \in Bids
  BY DEF TypeOK, Line
<1> QED
  BY <1>1, <1>2, <1>3, <1>4 DEF Occupancy, LapsedWhenNotOccupying, OneOccupantUnlessLapsed

\* Nor does a pin take a unit that an occupying stay holds for its nights.
LEMMA WriteBlockOccupancy ==
  ASSUME TypeOK, Occupancy, NEW k \in Blocks, NEW new \in BlockRow, WriteBlock(k, new)
  PROVE  Occupancy'
<1>1. /\ lines' = lines /\ bids' = bids
      /\ blocks' = [blocks EXCEPT ![k] = new]
  BY DEF WriteBlock
<1>2. ASSUME NEW l \in lines, new.unit = l.unit, new.nights \cap l.nights # {}
      PROVE  l.lapsed
  <2>0. l \in Line
    BY DEF TypeOK
  <2>1. new.unit # NULL
    BY <1>2, <2>0, StayUnitsAssumption DEF Line
  <2>2. CASE new.unit = blocks[k].unit /\ new.nights = blocks[k].nights
    BY <1>2, <2>2 DEF Occupancy, OneOccupantUnlessLapsed
  <2>3. CASE ConflictFree(new.unit, new.nights, NULL, k)
    <3>1. l.bid # NULL
      BY <2>0, StayUnitsAssumption DEF Line
    <3>2. bids[l.bid].status \notin Occupying
      BY <1>2, <2>3, <3>1 DEF ConflictFree, LineConflicts, Clashes
    <3> QED BY <3>2 DEF Occupancy, LapsedWhenNotOccupying
  <2> QED BY <2>1, <2>2, <2>3 DEF WriteBlock, BlockGuard
<1>3. LapsedWhenNotOccupying'
  BY <1>1 DEF Occupancy, LapsedWhenNotOccupying
<1>4. ASSUME NEW l \in lines, NEW j \in Blocks,
             blocks'[j].unit = l.unit, blocks'[j].nights \cap l.nights # {}
      PROVE  l.lapsed
  <2>1. CASE j = k
    BY <1>1, <1>2, <1>4, <2>1 DEF TypeOK
  <2>2. CASE j # k
    BY <1>1, <1>4, <2>2 DEF TypeOK, Occupancy, OneOccupantUnlessLapsed
  <2> QED BY <2>1, <2>2
<1> QED BY <1>1, <1>3, <1>4 DEF Occupancy, OneOccupantUnlessLapsed

\* Nor does any transaction.
LEMMA OccupancyStep ==
  ASSUME TypeOK, Occupancy, [Next]_vars
  PROVE  Occupancy'
<1>1. ASSUME NEW b \in Bids, NEW s \in Written, NEW r \in Rooms, NEW u \in UnitColumn,
             PlaceBid(b, s, r, u)
      PROVE  Occupancy'
  BY <1>1, WriteBidOccupancy, StayUnitsAssumption DEF PlaceBid, BidRow, RoomColumn
<1>2. ASSUME NEW b \in Bids, NEW s \in Written, PatchStatus(b, s) PROVE Occupancy'
  BY <1>2, WriteBidOccupancy, StayUnitsAssumption DEF PatchStatus, BidRow, TypeOK
<1>3. ASSUME NEW b \in Bids, NEW u \in UnitColumn, WriteColumn(b, u) PROVE Occupancy'
  BY <1>3, WriteBidOccupancy DEF WriteColumn, BidRow, TypeOK
<1>4. ASSUME NEW b \in Bids, NEW r \in Rooms, UpgradeRoom(b, r) PROVE Occupancy'
  BY <1>4 DEF UpgradeRoom, TypeOK, BidRow, Line, Occupancy, LapsedWhenNotOccupying,
              OneOccupantUnlessLapsed
<1>5. ASSUME NEW b \in Bids, NEW target \in SUBSET Units,
             AssignUnits(b, target) \/ TransferUnits(b, target)
      PROVE  Occupancy'
  BY <1>5, SetUnitsOccupancy DEF AssignUnits, TransferUnits, Occupying
<1>6. ASSUME NEW b \in Bids, ReleaseUnits(b) PROVE Occupancy'
  BY <1>6 DEF ReleaseUnits, LinesOf, TypeOK, BidRow, Line, Occupancy,
              LapsedWhenNotOccupying, OneOccupantUnlessLapsed
<1>7. ASSUME NEW b \in Bids, NEW u \in UnitColumn, WriteMirror(b, u) PROVE Occupancy'
  BY <1>7 DEF WriteMirror, Occupancy, LapsedWhenNotOccupying, OneOccupantUnlessLapsed
<1>8. ASSUME NEW k \in Blocks,
             \/ \E r \in Rooms, n \in SUBSET Nights, u \in UnitColumn : InsertBlock(k, r, n, u)
             \/ \E r \in Rooms, n \in SUBSET Nights, u \in UnitColumn : PatchBlock(k, r, n, u)
             \/ \E u \in Units : AssignBlockUnit(k, u)
             \/ ReleaseBlockUnit(k)
      PROVE  Occupancy'
  BY <1>8, WriteBlockOccupancy
     DEF InsertBlock, PatchBlock, AssignBlockUnit, ReleaseBlockUnit, BlockRow, TypeOK,
         UnitColumn, RoomColumn
<1>9. ASSUME NEW k \in Blocks, DeleteBlock(k) PROVE Occupancy'
  BY <1>9 DEF DeleteBlock, NoBlock, TypeOK, Occupancy, LapsedWhenNotOccupying,
              OneOccupantUnlessLapsed
<1>10. ASSUME NEW u \in Units, SetUnitStatus(u) PROVE Occupancy'
  BY <1>10 DEF SetUnitStatus, Occupancy, LapsedWhenNotOccupying, OneOccupantUnlessLapsed
<1>11. CASE UNCHANGED vars
  BY <1>11 DEF vars, Occupancy, LapsedWhenNotOccupying, OneOccupantUnlessLapsed
<1> QED
  BY <1>1, <1>2, <1>3, <1>4, <1>5, <1>6, <1>7, <1>8, <1>9, <1>10, <1>11
     DEF Next, AppNext, OutsideNext

\* A pinned block and a stay meet on a unit-night only through a lapsed line:
\* leaving ACCEPTED for PENDING / COUNTER is the one way around the unit locks.
THEOREM OneOccupant == Spec => []OneOccupantUnlessLapsed
<1>1. Init => Occupancy
  BY DEF Init, Occupancy, LapsedWhenNotOccupying, OneOccupantUnlessLapsed
<1>2. TypeOK /\ Occupancy /\ [Next]_vars => Occupancy'
  BY OccupancyStep
<1>3. Occupancy => OneOccupantUnlessLapsed
  BY DEF Occupancy
<1> QED BY <1>1, <1>2, <1>3, TypeCorrect, PTL DEF Spec

-----------------------------------------------------------------------------
(* The column is backed by a line, and exited bids hold nothing. *)

\* The trigger keeps the column and the lines of a bid together.
LEMMA WriteBidBacked ==
  ASSUME TypeOK, ColumnBackedByLine, ExitedBidsHoldNothing,
         NEW b \in Bids, NEW new \in BidRow, new.status # "NONE", BidWrites(b, new)
  PROVE  ColumnBackedByLine' /\ ExitedBidsHoldNothing'
<1>0. /\ bids' = [bids EXCEPT ![b] = new]
      /\ bids \in [Bids -> BidRow]
      /\ \A l \in lines : l \in Line
  BY DEF BidWrites, TypeOK
<1>1. ASSUME NEW c \in Bids, c # b
      PROVE  /\ \A l \in LinesOf(c) : \E m \in LinesOf(c)' : m.unit = l.unit
             /\ LinesOf(c) = {} => LinesOf(c)' = {}
  <2>1. CASE SyncExit(b, new)
    BY <1>1, <2>1 DEF SyncExit, LinesOf
  <2>2. CASE SyncOpen(b, new)
    BY <1>0, <1>1, <2>2 DEF SyncOpen, LinesOf, Line
  <2>3. CASE SyncCleared(b, bids[b], new)
    BY <1>1, <2>3 DEF SyncCleared, LinesOf
  <2>4. CASE SyncHeld(b, new)
    BY <2>4 DEF SyncHeld, LinesOf
  <2>5. CASE SyncAdd(b, bids[b], new)
    BY <1>1, <2>5 DEF SyncAdd, AddLine, LinesOf, NewLine
  <2> QED BY <2>1, <2>2, <2>3, <2>4, <2>5 DEF BidWrites, SyncWrites
<1>2. new.status \in Occupying /\ new.unit # NULL => new.unit \in UnitsOf(b)'
  <2>1. CASE SyncHeld(b, new)
    BY <2>1 DEF SyncHeld, UnitsOf, LinesOf
  <2>2. CASE SyncAdd(b, bids[b], new)
    <3>1. PICK s : NewLine(b, new.unit, s) \in lines'
      BY <2>2, StayUnitsAssumption DEF SyncAdd, AddLine, NewLine
    <3> QED BY <3>1 DEF UnitsOf, LinesOf, NewLine
  <2>3. CASE SyncExit(b, new) \/ SyncOpen(b, new) \/ SyncCleared(b, bids[b], new)
    BY <2>3 DEF SyncExit, SyncOpen, SyncCleared, Occupying, Terminal, Open
  <2> QED BY <2>1, <2>2, <2>3 DEF BidWrites, SyncWrites
<1>3. new.status \in Terminal \cup {"CHECKED_OUT"} => LinesOf(b)' = {}
  <2>1. SyncExit(b, new) => LinesOf(b)' = {}
    BY DEF SyncExit, LinesOf
  <2> QED BY <2>1 DEF BidWrites, SyncWrites, SyncOpen, SyncCleared, SyncHeld, SyncAdd, AddLine,
                      Occupying, Terminal, Open
<1>4. \A c \in Bids : bids'[c] = IF c = b THEN new ELSE bids[c]
  BY <1>0
<1> QED BY <1>1, <1>2, <1>3, <1>4 DEF ColumnBackedByLine, ExitedBidsHoldNothing, UnitsOf

\* So does the replacement of a stay's units.
LEMMA ReplaceBacked ==
  ASSUME TypeOK, ColumnBackedByLine, ExitedBidsHoldNothing,
         NEW b \in Bids, NEW target \in SUBSET Units, ReplaceLines(b, target),
         bids[b].status \in Occupying
  PROVE  ColumnBackedByLine' /\ ExitedBidsHoldNothing'
<1>1. /\ \A c \in Bids : bids'[c].status = bids[c].status
      /\ \A c \in Bids \ {b} : bids'[c] = bids[c]
  BY DEF ReplaceLines, TypeOK, BidRow
<1>2. ASSUME NEW c \in Bids, c # b PROVE LinesOf(c)' = LinesOf(c)
  BY <1>2 DEF ReplaceLines, Kept, IsPrimary, LinesOf, NewLine
<1>3. bids'[b].unit \in UnitsOf(b)'
  <2>1. PICK first \in lines' : first.bid = b /\ bids' = [bids EXCEPT ![b].unit = first.unit]
    <3> DEFINE kept  == {l \in LinesOf(b) : l.unit \in target}
               fresh == target \ {l.unit : l \in kept}
    <3>1. PICK slotOf \in [fresh -> FreeSlots(SlotsOf(kept), Cardinality(fresh))] :
            \E first \in kept \cup {NewLine(b, u, slotOf[u]) : u \in fresh} :
              /\ lines' = (lines \ LinesOf(b)) \cup (kept \cup {NewLine(b, u, slotOf[u]) : u \in fresh})
              /\ bids' = [bids EXCEPT ![b].unit = first.unit]
      BY DEF ReplaceLines, Kept, IsPrimary
    <3>2. \A l \in kept \cup {NewLine(b, u, slotOf[u]) : u \in fresh} : l.bid = b
      BY DEF LinesOf, NewLine
    <3> QED BY <3>1, <3>2
  <2>2. bids'[b].unit = first.unit
    BY <2>1 DEF TypeOK, BidRow
  <2> QED BY <2>1, <2>2 DEF UnitsOf, LinesOf
<1>4. bids[b].status \notin Terminal \cup {"CHECKED_OUT"}
  BY DEF Occupying, Terminal
<1> QED BY <1>1, <1>2, <1>3, <1>4 DEF ColumnBackedByLine, ExitedBidsHoldNothing, UnitsOf

\* So does the release of its units.
LEMMA ReleaseBacked ==
  ASSUME TypeOK, ColumnBackedByLine, ExitedBidsHoldNothing, NEW b \in Bids, ReleaseUnits(b)
  PROVE  ColumnBackedByLine' /\ ExitedBidsHoldNothing'
<1>1. /\ bids'[b].unit = NULL
      /\ bids'[b].status = bids[b].status
      /\ \A c \in Bids \ {b} : bids'[c] = bids[c]
  BY DEF ReleaseUnits, TypeOK, BidRow
<1>2. \A c \in Bids : LinesOf(c)' = IF c = b THEN {} ELSE LinesOf(c)
  BY DEF ReleaseUnits, LinesOf
<1> QED BY <1>1, <1>2 DEF ColumnBackedByLine, ExitedBidsHoldNothing, UnitsOf

\* So does every transaction.
LEMMA BackedStep ==
  ASSUME TypeOK, ColumnBackedByLine, ExitedBidsHoldNothing, [Next]_vars
  PROVE  ColumnBackedByLine' /\ ExitedBidsHoldNothing'
<1> DEFINE Backed == ColumnBackedByLine /\ ExitedBidsHoldNothing
<1>1. ASSUME NEW b \in Bids, NEW s \in Written, NEW r \in Rooms, NEW u \in UnitColumn,
             PlaceBid(b, s, r, u)
      PROVE  Backed'
  <2>1. [status |-> s, unit |-> u, room |-> r] \in BidRow
    BY StayUnitsAssumption DEF BidRow, RoomColumn
  <2> QED BY <1>1, <2>1, WriteBidWrites, WriteBidBacked DEF PlaceBid, Open
<1>2. ASSUME NEW b \in Bids, NEW s \in Written, PatchStatus(b, s) PROVE Backed'
  <2>1. [bids[b] EXCEPT !.status = s] \in BidRow
    BY StayUnitsAssumption DEF BidRow, TypeOK
  <2>2. [bids[b] EXCEPT !.status = s].status # "NONE"
    BY StayUnitsAssumption DEF BidRow, TypeOK, Statuses, Occupying, Terminal, Open
  <2> QED BY <1>2, <2>1, <2>2, WriteBidWrites, WriteBidBacked DEF PatchStatus
<1>3. ASSUME NEW b \in Bids, NEW u \in UnitColumn, WriteColumn(b, u) PROVE Backed'
  <2>1. /\ [bids[b] EXCEPT !.unit = u] \in BidRow
        /\ [bids[b] EXCEPT !.unit = u].status # "NONE"
    BY <1>3 DEF WriteColumn, BidRow, TypeOK
  <2> QED BY <1>3, <2>1, WriteBidWrites, WriteBidBacked DEF WriteColumn
<1>4. ASSUME NEW b \in Bids, NEW r \in Rooms, UpgradeRoom(b, r) PROVE Backed'
  BY <1>4 DEF UpgradeRoom, TypeOK, BidRow, ColumnBackedByLine, ExitedBidsHoldNothing, UnitsOf, LinesOf
<1>5. ASSUME NEW b \in Bids, NEW target \in SUBSET Units,
             AssignUnits(b, target) \/ TransferUnits(b, target)
      PROVE  Backed'
  BY <1>5, ReplaceBacked DEF AssignUnits, TransferUnits, SetUnits, Occupying
<1>6. ASSUME NEW b \in Bids, ReleaseUnits(b) PROVE Backed'
  BY <1>6, ReleaseBacked
<1>7. ASSUME UNCHANGED <<bids, lines>> PROVE Backed'
  BY <1>7 DEF ColumnBackedByLine, ExitedBidsHoldNothing, UnitsOf, LinesOf
<1>8. ASSUME NEW k \in Blocks,
             \/ \E r \in Rooms, n \in SUBSET Nights, u \in UnitColumn : InsertBlock(k, r, n, u)
             \/ \E r \in Rooms, n \in SUBSET Nights, u \in UnitColumn : PatchBlock(k, r, n, u)
             \/ \E u \in Units : AssignBlockUnit(k, u)
             \/ ReleaseBlockUnit(k)
             \/ DeleteBlock(k)
      PROVE  UNCHANGED <<bids, lines>>
  BY <1>8 DEF InsertBlock, PatchBlock, AssignBlockUnit, ReleaseBlockUnit, WriteBlock, DeleteBlock
<1>9. ASSUME NEW u \in Units, SetUnitStatus(u) PROVE UNCHANGED <<bids, lines>>
  BY <1>9 DEF SetUnitStatus
<1>10. ASSUME NEW b \in Bids, NEW u \in UnitColumn, WriteMirror(b, u) PROVE UNCHANGED <<bids, lines>>
  BY <1>10 DEF WriteMirror
<1>11. CASE UNCHANGED vars
  BY <1>7, <1>11 DEF vars
<1> QED
  BY <1>1, <1>2, <1>3, <1>4, <1>5, <1>6, <1>7, <1>8, <1>9, <1>10, <1>11
     DEF Next, AppNext, OutsideNext

\* The migration's INVARIANT, for every writer of bids: an occupying booking never
\* holds a unit in the column alone.
THEOREM ColumnBacked == Spec => []ColumnBackedByLine
<1>1. Init => ColumnBackedByLine /\ ExitedBidsHoldNothing
  BY DEF Init, NoBid, ColumnBackedByLine, ExitedBidsHoldNothing, LinesOf
<1>2. TypeOK /\ ColumnBackedByLine /\ ExitedBidsHoldNothing /\ [Next]_vars
        => (ColumnBackedByLine /\ ExitedBidsHoldNothing)'
  BY BackedStep
<1> QED BY <1>1, <1>2, TypeCorrect, PTL DEF Spec

\* A checked-out, cancelled, expired or rejected booking holds no unit.
THEOREM ExitedHoldNothing == Spec => []ExitedBidsHoldNothing
<1>1. Init => ColumnBackedByLine /\ ExitedBidsHoldNothing
  BY DEF Init, NoBid, ColumnBackedByLine, ExitedBidsHoldNothing, LinesOf
<1>2. TypeOK /\ ColumnBackedByLine /\ ExitedBidsHoldNothing /\ [Next]_vars
        => (ColumnBackedByLine /\ ExitedBidsHoldNothing)'
  BY BackedStep
<1> QED BY <1>1, <1>2, TypeCorrect, PTL DEF Spec
-----------------------------------------------------------------------------
(* No two lines claim a unit-night, and a stay never uses a unit or slot twice. *)

\* A write of a bid leaves the lines of all stays disjoint.
LEMMA WriteBidDisjoint ==
  ASSUME TypeOK, LinesDisjoint, NEW b \in Bids, NEW new \in BidRow, BidWrites(b, new)
  PROVE  LinesDisjoint'
<1>1. CASE lines' \subseteq lines
  BY <1>1 DEF LinesDisjoint
<1>2. CASE SyncOpen(b, new)
  <2>1. ASSUME NEW l \in lines'
        PROVE  \E p \in lines : l = IF p.bid = b THEN [p EXCEPT !.lapsed = TRUE] ELSE p
    BY <1>2, <2>1 DEF SyncOpen, LinesOf
  <2>2. ASSUME NEW p \in lines, NEW l, l = IF p.bid = b THEN [p EXCEPT !.lapsed = TRUE] ELSE p
        PROVE  l.bid = p.bid /\ l.unit = p.unit /\ l.slot = p.slot /\ l.nights = p.nights
    BY <2>2 DEF TypeOK, Line
  <2>3. ASSUME NEW l \in lines', NEW m \in lines',
               \/ l.unit = m.unit /\ l.nights \cap m.nights # {}
               \/ l.bid = m.bid /\ (l.unit = m.unit \/ l.slot = m.slot)
        PROVE  l = m
    <3>1. PICK p \in lines : l = IF p.bid = b THEN [p EXCEPT !.lapsed = TRUE] ELSE p
      BY <2>1
    <3>2. PICK q \in lines : m = IF q.bid = b THEN [q EXCEPT !.lapsed = TRUE] ELSE q
      BY <2>1
    <3>3. p = q
      BY <2>2, <2>3, <3>1, <3>2 DEF LinesDisjoint
    <3> QED BY <3>1, <3>2, <3>3
  <2> QED BY <2>3 DEF LinesDisjoint
<1>3. CASE SyncAdd(b, bids[b], new)
  <2>1. PICK s \in FreeSlots(SlotsOf(LinesOf(b)), 1) :
          lines' \subseteq lines \cup {NewLine(b, new.unit, s)}
    BY <1>3 DEF SyncAdd, AddLine
  <2> DEFINE n == NewLine(b, new.unit, s)
  <2>2. n.bid = b /\ n.unit = new.unit /\ n.slot = s /\ n.nights = StayOf[b]
    BY DEF NewLine
  <2>3. ASSUME NEW m \in lines
        PROVE  /\ m.unit = n.unit => m.nights \cap n.nights = {}
               /\ m.bid = b => m.unit # n.unit /\ m.slot # s
    BY <1>3, <2>2, FreeSlotsPositive DEF SyncAdd, AddLine, NotExcluded, UnitsOf, SlotsOf, LinesOf
  <2> QED BY <2>1, <2>2, <2>3 DEF LinesDisjoint
<1>4. SyncExit(b, new) \/ SyncCleared(b, bids[b], new) \/ SyncHeld(b, new) => lines' \subseteq lines
  BY DEF SyncExit, SyncCleared, SyncHeld
<1> QED BY <1>1, <1>2, <1>3, <1>4 DEF BidWrites, SyncWrites

\* So does the replacement of a stay's units.
LEMMA ReplaceDisjoint ==
  ASSUME TypeOK, LinesDisjoint, NEW b \in Bids, NEW target \in SUBSET Units,
         ReplaceLines(b, target)
  PROVE  LinesDisjoint'
<1> DEFINE kept  == Kept(b, target)
           fresh == target \ {l.unit : l \in kept}
           rest  == (lines \ LinesOf(b)) \cup kept
<1>1. PICK slotOf \in [fresh -> FreeSlots(SlotsOf(kept), Cardinality(fresh))] :
        /\ \A u, v \in fresh : slotOf[u] = slotOf[v] => u = v
        /\ lines' = (lines \ LinesOf(b)) \cup (kept \cup {NewLine(b, u, slotOf[u]) : u \in fresh})
  BY DEF ReplaceLines
<1>2. \A u \in fresh : NotExcluded(u, StayOf[b], rest)
  BY DEF ReplaceLines
<1>3. rest \subseteq lines /\ \A m \in rest : m.bid = b => m \in kept
  BY DEF Kept, LinesOf
<1>4. ASSUME NEW u \in fresh, NEW m \in rest
      PROVE  LET n == NewLine(b, u, slotOf[u]) IN
             /\ m.unit = n.unit => m.nights \cap n.nights = {}
             /\ m.bid = n.bid => m.unit # n.unit /\ m.slot # n.slot
  <2>1. slotOf[u] \notin SlotsOf(kept)
    BY <1>1, FreeSlotsPositive
  <2> QED BY <1>2, <1>3, <2>1 DEF NotExcluded, NewLine, SlotsOf
<1>5. ASSUME NEW u \in fresh, NEW v \in fresh
      PROVE  LET n == NewLine(b, u, slotOf[u])
                 m == NewLine(b, v, slotOf[v])
             IN  n.unit = m.unit \/ n.slot = m.slot => n = m
  BY <1>1 DEF NewLine
<1>6. \A l \in lines' : l \in rest \/ \E u \in fresh : l = NewLine(b, u, slotOf[u])
  BY <1>1
<1>7. ASSUME NEW l \in lines', NEW m \in lines',
             \/ l.unit = m.unit /\ l.nights \cap m.nights # {}
             \/ l.bid = m.bid /\ (l.unit = m.unit \/ l.slot = m.slot)
      PROVE  l = m
  <2>1. CASE l \in rest /\ m \in rest
    BY <1>3, <1>7, <2>1 DEF LinesDisjoint
  <2>2. CASE l \in rest /\ \E u \in fresh : m = NewLine(b, u, slotOf[u])
    BY <1>4, <1>7, <2>2
  <2>3. CASE m \in rest /\ \E u \in fresh : l = NewLine(b, u, slotOf[u])
    BY <1>4, <1>7, <2>3
  <2>4. CASE (\E u \in fresh : l = NewLine(b, u, slotOf[u]))
             /\ (\E u \in fresh : m = NewLine(b, u, slotOf[u]))
    BY <1>5, <1>7, <2>4
  <2> QED BY <1>6, <2>1, <2>2, <2>3, <2>4
<1> QED BY <1>7 DEF LinesDisjoint

\* So does every transaction.
LEMMA DisjointStep ==
  ASSUME TypeOK, LinesDisjoint, [Next]_vars
  PROVE  LinesDisjoint'
<1>1. ASSUME NEW b \in Bids, NEW s \in Written, NEW r \in Rooms, NEW u \in UnitColumn,
             PlaceBid(b, s, r, u)
      PROVE  LinesDisjoint'
  BY <1>1, WriteBidWrites, WriteBidDisjoint, StayUnitsAssumption DEF PlaceBid, BidRow, RoomColumn
<1>2. ASSUME NEW b \in Bids, NEW s \in Written, PatchStatus(b, s) PROVE LinesDisjoint'
  BY <1>2, WriteBidWrites, WriteBidDisjoint, StayUnitsAssumption DEF PatchStatus, BidRow, TypeOK
<1>3. ASSUME NEW b \in Bids, NEW u \in UnitColumn, WriteColumn(b, u) PROVE LinesDisjoint'
  BY <1>3, WriteBidWrites, WriteBidDisjoint DEF WriteColumn, BidRow, TypeOK
<1>4. ASSUME NEW b \in Bids, NEW target \in SUBSET Units,
             AssignUnits(b, target) \/ TransferUnits(b, target)
      PROVE  LinesDisjoint'
  BY <1>4, ReplaceDisjoint DEF AssignUnits, TransferUnits, SetUnits
<1>5. ASSUME lines' \subseteq lines PROVE LinesDisjoint'
  BY <1>5 DEF LinesDisjoint
<1>6. ASSUME NEW b \in Bids,
             \/ \E r \in Rooms : UpgradeRoom(b, r)
             \/ ReleaseUnits(b)
             \/ \E u \in UnitColumn : WriteMirror(b, u)
      PROVE  lines' \subseteq lines
  BY <1>6 DEF UpgradeRoom, ReleaseUnits, WriteMirror
<1>7. ASSUME NEW k \in Blocks,
             \/ \E r \in Rooms, n \in SUBSET Nights, u \in UnitColumn : InsertBlock(k, r, n, u)
             \/ \E r \in Rooms, n \in SUBSET Nights, u \in UnitColumn : PatchBlock(k, r, n, u)
             \/ \E u \in Units : AssignBlockUnit(k, u)
             \/ ReleaseBlockUnit(k)
             \/ DeleteBlock(k)
      PROVE  lines' \subseteq lines
  BY <1>7 DEF InsertBlock, PatchBlock, AssignBlockUnit, ReleaseBlockUnit, WriteBlock, DeleteBlock
<1>8. ASSUME NEW u \in Units, SetUnitStatus(u) PROVE lines' \subseteq lines
  BY <1>8 DEF SetUnitStatus
<1>9. CASE UNCHANGED vars
  BY <1>5, <1>9 DEF vars
<1> QED
  BY <1>1, <1>2, <1>3, <1>4, <1>5, <1>6, <1>7, <1>8, <1>9 DEF Next, AppNext, OutsideNext

\* Whoever writes the bids and in whatever order the units are claimed, two stays
\* never hold one unit-night and a stay never holds a unit or a slot twice.
THEOREM NoDoubleAssignment == Spec => []LinesDisjoint
<1>1. Init => LinesDisjoint
  BY DEF Init, LinesDisjoint
<1>2. TypeOK /\ LinesDisjoint /\ [Next]_vars => LinesDisjoint'
  BY DisjointStep
<1> QED BY <1>1, <1>2, TypeCorrect, PTL DEF Spec

-----------------------------------------------------------------------------
(* Pinned blocks. *)

\* A pin takes no unit of another pin for its nights.
LEMMA WriteBlockDisjoint ==
  ASSUME TypeOK, BlocksDisjoint, NEW k \in Blocks, NEW new \in BlockRow, WriteBlock(k, new)
  PROVE  BlocksDisjoint'
<1>1. blocks' = [blocks EXCEPT ![k] = new] /\ blocks \in [Blocks -> BlockRow]
  BY DEF WriteBlock, TypeOK
<1>2. ASSUME NEW j \in Blocks \ {k}, new.unit # NULL, blocks[j].unit = new.unit
      PROVE  blocks[j].nights \cap new.nights = {}
  <2>1. CASE new.unit = blocks[k].unit /\ new.nights = blocks[k].nights
    BY <1>2, <2>1 DEF BlocksDisjoint
  <2>2. CASE ConflictFree(new.unit, new.nights, NULL, k)
    BY <1>2, <2>2 DEF ConflictFree, BlockConflicts
  <2> QED BY <1>2, <2>1, <2>2 DEF WriteBlock, BlockGuard
<1> QED BY <1>1, <1>2 DEF BlocksDisjoint

\* Neither does any other transaction.
LEMMA BlocksStep ==
  ASSUME TypeOK, BlocksDisjoint, [Next]_vars
  PROVE  BlocksDisjoint'
<1>1. ASSUME NEW k \in Blocks,
             \/ \E r \in Rooms, n \in SUBSET Nights, u \in UnitColumn : InsertBlock(k, r, n, u)
             \/ \E r \in Rooms, n \in SUBSET Nights, u \in UnitColumn : PatchBlock(k, r, n, u)
             \/ \E u \in Units : AssignBlockUnit(k, u)
             \/ ReleaseBlockUnit(k)
      PROVE  BlocksDisjoint'
  BY <1>1, WriteBlockDisjoint
     DEF InsertBlock, PatchBlock, AssignBlockUnit, ReleaseBlockUnit, BlockRow, TypeOK,
         UnitColumn, RoomColumn
<1>2. ASSUME NEW k \in Blocks, DeleteBlock(k) PROVE BlocksDisjoint'
  BY <1>2 DEF DeleteBlock, NoBlock, TypeOK, BlocksDisjoint
<1>3. ASSUME blocks' = blocks PROVE BlocksDisjoint'
  BY <1>3 DEF BlocksDisjoint
<1>4. ASSUME NEW b \in Bids,
             \/ \E s \in Written, r \in Rooms, u \in UnitColumn : PlaceBid(b, s, r, u)
             \/ \E s \in Written : PatchStatus(b, s)
             \/ \E r \in Rooms : UpgradeRoom(b, r)
             \/ \E target \in SUBSET Units : AssignUnits(b, target) \/ TransferUnits(b, target)
             \/ ReleaseUnits(b)
             \/ \E u \in UnitColumn : WriteColumn(b, u) \/ WriteMirror(b, u)
      PROVE  blocks' = blocks
  BY <1>4 DEF PlaceBid, PatchStatus, WriteBid, UpgradeRoom, AssignUnits, TransferUnits,
              SetUnits, ReplaceLines, ReleaseUnits, WriteColumn, WriteMirror
<1>5. ASSUME NEW u \in Units, SetUnitStatus(u) PROVE blocks' = blocks
  BY <1>5 DEF SetUnitStatus
<1>6. CASE UNCHANGED vars
  BY <1>3, <1>6 DEF vars
<1> QED BY <1>1, <1>2, <1>3, <1>4, <1>5, <1>6 DEF Next, AppNext, OutsideNext

\* Pinned blocks never share a unit-night, whatever happens to bids and units meanwhile.
THEOREM BlocksNeverOverlap == Spec => []BlocksDisjoint
<1>1. Init => BlocksDisjoint
  BY DEF Init, NoBlock, BlocksDisjoint
<1>2. TypeOK /\ BlocksDisjoint /\ [Next]_vars => BlocksDisjoint'
  BY BlocksStep
<1> QED BY <1>1, <1>2, TypeCorrect, PTL DEF Spec

-----------------------------------------------------------------------------
(* The repository's own writers.  None of them sets the column of a bid that  *)
(* has lines, so a bid with lines is led by its lowest slot whatever its      *)
(* status, and the trigger adds a line only to a bid without lines.           *)

LedByPrimary(b) ==
  LinesOf(b) # {} =>
    \E l \in LinesOf(b) : IsPrimary(l, LinesOf(b)) /\ bids[b].unit = l.unit /\ mirror[b] = l.unit

BidInOrder(b) ==
  /\ bids[b].status = "NONE" => LinesOf(b) = {}
  /\ LedByPrimary(b)
  /\ Cardinality(UnitsOf(b)) <= RoomsBooked[b]

AppInv == TypeOK /\ LinesDisjoint /\ \A b \in Bids : BidInOrder(b)

\* A bid's write leaves the other bids' rows, lines and mirrors alone.
LEMMA BidWritesElsewhere ==
  ASSUME TypeOK, NEW b \in Bids, NEW new \in BidRow, BidWrites(b, new), NEW c \in Bids, c # b
  PROVE  bids'[c] = bids[c] /\ LinesOf(c)' = LinesOf(c) /\ mirror'[c] = mirror[c]
<1>1. bids'[c] = bids[c]
  BY DEF BidWrites, TypeOK
<1>2. CASE SyncExit(b, new) \/ SyncHeld(b, new)
  BY <1>1, <1>2 DEF SyncExit, SyncHeld, LinesOf
<1>3. CASE SyncCleared(b, bids[b], new)
  <2>1. LinesOf(c)' = LinesOf(c)
    BY <1>3 DEF SyncCleared, LinesOf
  <2>2. mirror'[c] = mirror[c]
    BY <1>3 DEF SyncCleared, TypeOK
  <2> QED BY <1>1, <2>1, <2>2
<1>4. CASE SyncOpen(b, new)
  <2>1. \A l \in LinesOf(b) : [l EXCEPT !.lapsed = TRUE].bid = b
    BY DEF LinesOf, TypeOK, Line
  <2> QED BY <1>1, <1>4, <2>1 DEF SyncOpen, LinesOf
<1>5. CASE SyncAdd(b, bids[b], new)
  <2>1. LinesOf(c)' = LinesOf(c)
    BY <1>5 DEF SyncAdd, AddLine, LinesOf, NewLine
  <2>2. mirror'[c] = mirror[c]
    BY <1>5 DEF SyncAdd, AddLine, TypeOK
  <2> QED BY <1>1, <2>1, <2>2
<1> QED BY <1>2, <1>3, <1>4, <1>5 DEF BidWrites, SyncWrites

\* So does the replacement of a stay's units.
LEMMA ReplaceElsewhere ==
  ASSUME TypeOK, NEW b \in Bids, NEW target \in SUBSET Units, ReplaceLines(b, target),
         NEW c \in Bids, c # b
  PROVE  bids'[c] = bids[c] /\ LinesOf(c)' = LinesOf(c) /\ mirror'[c] = mirror[c]
<1>1. bids'[c] = bids[c] /\ mirror'[c] = mirror[c]
  BY DEF ReplaceLines, TypeOK
<1>2. LinesOf(c)' = LinesOf(c)
  BY DEF ReplaceLines, Kept, LinesOf, NewLine
<1> QED BY <1>1, <1>2

\* The trigger adds no line where there is one, and leaves the bid led by its primary line.
LEMMA PatchedBid ==
  ASSUME TypeOK, NEW b \in Bids, LedByPrimary(b), NEW new \in BidRow, BidWrites(b, new),
         LinesOf(b) = {} \/ new.unit = bids[b].unit
  PROVE  /\ LedByPrimary(b)'
         /\ UnitsOf(b)' \subseteq UnitsOf(b) \/ UnitsOf(b)' = {new.unit}
         /\ new.status \in Occupying => (LinesOf(b) # {} => LinesOf(b)' # {})
<1>0. bids'[b] = new /\ \A l \in LinesOf(b) : l \in Line /\ l.bid = b
  BY DEF BidWrites, TypeOK, LinesOf
<1>1. CASE SyncExit(b, new)
  <2>1. LinesOf(b)' = {} /\ new.status \notin Occupying
    BY <1>1 DEF SyncExit, LinesOf, Occupying, Terminal
  <2> QED BY <2>1 DEF LedByPrimary, UnitsOf
<1>2. CASE SyncOpen(b, new)
  <2>1. \A l \in LinesOf(b) : LET m == [l EXCEPT !.lapsed = TRUE] IN
          m.bid = b /\ m.unit = l.unit /\ m.slot = l.slot
    BY <1>0 DEF Line
  <2>2. LinesOf(b)' = {[l EXCEPT !.lapsed = TRUE] : l \in LinesOf(b)}
    BY <1>2, <2>1 DEF SyncOpen, LinesOf
  <2>3. UnitsOf(b)' \subseteq UnitsOf(b)
    <3>1. ASSUME NEW u \in UnitsOf(b)' PROVE u \in UnitsOf(b)
      <4>1. PICK m \in LinesOf(b)' : u = m.unit
        BY <3>1 DEF UnitsOf
      <4>2. PICK l \in LinesOf(b) : m = [l EXCEPT !.lapsed = TRUE]
        BY <2>2, <4>1
      <4> QED BY <2>1, <4>1, <4>2 DEF UnitsOf
    <3> QED BY <3>1
  <2>4. mirror' = mirror /\ new.status \notin Occupying
    BY <1>2 DEF SyncOpen, Open, Occupying
  <2>5. LedByPrimary(b)'
    <3>1. SUFFICES ASSUME LinesOf(b)' # {}
                   PROVE  \E m \in LinesOf(b)' :
                            /\ \A n \in LinesOf(b)' : m.slot <= n.slot
                            /\ bids'[b].unit = m.unit /\ mirror'[b] = m.unit
      BY DEF LedByPrimary, IsPrimary
    <3>2. LinesOf(b) # {}
      BY <2>2, <3>1
    <3>3. PICK l \in LinesOf(b) : /\ \A n \in LinesOf(b) : l.slot <= n.slot
                                  /\ bids[b].unit = l.unit /\ mirror[b] = l.unit
      BY <3>2 DEF LedByPrimary, IsPrimary
    <3> DEFINE m == [l EXCEPT !.lapsed = TRUE]
    <3>4. m \in LinesOf(b)'
      BY <2>2, <3>3
    <3>5. m.slot = l.slot /\ m.unit = l.unit
      BY <2>1, <3>3
    <3>6. \A n \in LinesOf(b)' : m.slot <= n.slot
      <4>1. ASSUME NEW n \in LinesOf(b)' PROVE m.slot <= n.slot
        <5>1. PICK k \in LinesOf(b) : n = [k EXCEPT !.lapsed = TRUE]
          BY <2>2
        <5>2. n.slot = k.slot
          BY <2>1, <5>1
        <5> HIDE DEF m
        <5> QED BY <3>3, <3>5, <5>2
      <4> QED BY <4>1
    <3>7. bids'[b].unit = l.unit /\ mirror'[b] = l.unit
      <4>1. bids'[b].unit = bids[b].unit
        BY <1>0, <3>2
      <4> QED BY <2>4, <3>3, <4>1
    <3> HIDE DEF m
    <3> QED BY <3>4, <3>5, <3>6, <3>7
  <2> QED BY <2>3, <2>4, <2>5
<1>3. CASE SyncCleared(b, bids[b], new)
  <2>1. LinesOf(b) = {}
    <3>1. SUFFICES ASSUME LinesOf(b) # {} PROVE FALSE
      OBVIOUS
    <3>2. PICK l \in LinesOf(b) : bids[b].unit = l.unit
      BY <3>1 DEF LedByPrimary
    <3> QED BY <1>0, <1>3, <3>1, <3>2, StayUnitsAssumption DEF SyncCleared, Line
  <2>2. LinesOf(b)' = {}
    BY <1>3, <2>1 DEF SyncCleared, LinesOf
  <2> QED BY <2>1, <2>2 DEF LedByPrimary, UnitsOf
<1>4. CASE SyncHeld(b, new)
  <2>1. LinesOf(b)' = LinesOf(b) /\ mirror' = mirror /\ LinesOf(b) # {}
    BY <1>4 DEF SyncHeld, LinesOf, UnitsOf
  <2> QED BY <1>0, <2>1 DEF LedByPrimary, UnitsOf, IsPrimary
<1>5. CASE SyncAdd(b, bids[b], new)
  <2>1. LinesOf(b) = {}
    <3>1. SUFFICES ASSUME LinesOf(b) # {} PROVE FALSE
      OBVIOUS
    <3>2. PICK l \in LinesOf(b) : bids[b].unit = l.unit
      BY <3>1 DEF LedByPrimary
    <3> QED BY <1>5, <3>1, <3>2 DEF SyncAdd, UnitsOf
  <2>2. PICK s \in FreeSlots(SlotsOf(LinesOf(b)), 1) :
          LET taken == lines \cup {NewLine(b, new.unit, s)} IN
          \/ lines' = taken
          \/ /\ bids[b].unit # new.unit
             /\ lines' = {l \in taken : ~(l.bid = b /\ l.unit = bids[b].unit)}
    BY <1>5 DEF SyncAdd, AddLine
  <2> DEFINE n == NewLine(b, new.unit, s)
  <2>3. n.bid = b /\ n.unit = new.unit /\ n.slot = s /\ s \in Nat
    BY FreeSlotsPositive DEF NewLine
  <2>4. LinesOf(b)' = {n}
    BY <2>1, <2>2, <2>3 DEF LinesOf
  <2>5. mirror'[b] = new.unit
    BY <1>5 DEF SyncAdd, AddLine, TypeOK
  <2>6. UnitsOf(b)' = {new.unit}
    BY <2>3, <2>4 DEF UnitsOf
  <2>7. \E l \in LinesOf(b)' : /\ \A m \in LinesOf(b)' : l.slot <= m.slot
                               /\ bids'[b].unit = l.unit /\ mirror'[b] = l.unit
    BY <1>0, <2>3, <2>4, <2>5
  <2> QED BY <2>1, <2>6, <2>7 DEF LedByPrimary, IsPrimary
<1> QED BY <1>1, <1>2, <1>3, <1>4, <1>5 DEF BidWrites, SyncWrites

\* The assignment RPC leads the stay by the lowest slot of the lines it leaves.
LEMMA ReplacedBid ==
  ASSUME TypeOK, NEW b \in Bids, NEW target \in SUBSET Units, ReplaceLines(b, target)
  PROVE  /\ LedByPrimary(b)' /\ LinesOf(b)' # {}
         /\ UnitsOf(b)' \subseteq target
         /\ bids'[b].status = bids[b].status
<1> DEFINE kept  == Kept(b, target)
           fresh == target \ {l.unit : l \in kept}
<1>1. PICK slotOf \in [fresh -> FreeSlots(SlotsOf(kept), Cardinality(fresh))] :
        LET mine == kept \cup {NewLine(b, u, slotOf[u]) : u \in fresh} IN
        /\ lines' = (lines \ LinesOf(b)) \cup mine
        /\ \E first \in mine : /\ IsPrimary(first, mine)
                               /\ mirror' = [mirror EXCEPT ![b] = first.unit]
                               /\ bids' = [bids EXCEPT ![b].unit = first.unit]
  BY DEF ReplaceLines
<1> DEFINE mine == kept \cup {NewLine(b, u, slotOf[u]) : u \in fresh}
<1>2. PICK first \in mine : /\ IsPrimary(first, mine)
                           /\ mirror' = [mirror EXCEPT ![b] = first.unit]
                           /\ bids' = [bids EXCEPT ![b].unit = first.unit]
  BY <1>1
<1>3. \A l \in mine : l.bid = b /\ l.unit \in target
  BY DEF Kept, LinesOf, NewLine
<1>4. LinesOf(b)' = mine
  BY <1>1, <1>3 DEF LinesOf
<1>5. bids'[b].unit = first.unit /\ mirror'[b] = first.unit /\ bids'[b].status = bids[b].status
  BY <1>2 DEF TypeOK, BidRow
<1>6. LedByPrimary(b)'
  <2> HIDE DEF mine
  <2> QED BY <1>2, <1>4, <1>5 DEF LedByPrimary, IsPrimary
<1>7. UnitsOf(b)' \subseteq target
  <2> HIDE DEF mine
  <2> QED BY <1>3, <1>4 DEF UnitsOf
<1> QED BY <1>2, <1>4, <1>5, <1>6, <1>7
\* Neither write takes a room beyond the booking.
LEMMA RoomsStep ==
  ASSUME IsFiniteSet(Units), TypeOK, NEW b \in Bids, NEW target \in SUBSET Units,
         Cardinality(target) <= RoomsBooked[b] \/ target \subseteq UnitsOf(b),
         Cardinality(UnitsOf(b)) <= RoomsBooked[b], UnitsOf(b)' \subseteq target
  PROVE  Cardinality(UnitsOf(b)') <= RoomsBooked[b]
<1>1. UnitsOf(b) \in SUBSET Units
  BY DEF UnitsOf, LinesOf, TypeOK, Line
<1>2. IsFiniteSet(target) /\ IsFiniteSet(UnitsOf(b))
  BY <1>1, FS_Subset
<1>3. \A S, T : IsFiniteSet(T) /\ S \subseteq T =>
        Cardinality(S) \in Nat /\ Cardinality(T) \in Nat /\ Cardinality(S) <= Cardinality(T)
  BY FS_Subset, FS_CardinalityType
<1>4. RoomsBooked[b] \in Nat
  BY StayUnitsAssumption
<1>5. CASE Cardinality(target) <= RoomsBooked[b]
  BY <1>2, <1>3, <1>4, <1>5
<1>6. CASE target \subseteq UnitsOf(b)
  BY <1>2, <1>3, <1>4, <1>6
<1> QED BY <1>5, <1>6

\* A write of the row of a bid without lines, or one that keeps the column of a bid
\* with lines, keeps every bid in order.
LEMMA PatchStep ==
  ASSUME IsFiniteSet(Units), AppInv, NEW b \in Bids, NEW new \in BidRow, WriteBid(b, new),
         new.status # "NONE", LinesOf(b) = {} \/ new.unit = bids[b].unit
  PROVE  \A c \in Bids : BidInOrder(c)'
<1>1. TypeOK /\ BidWrites(b, new) /\ LedByPrimary(b)
  BY WriteBidWrites DEF AppInv, BidInOrder
<1>2. ASSUME NEW c \in Bids, c # b PROVE BidInOrder(c)'
  <2>1. bids'[c] = bids[c] /\ LinesOf(c)' = LinesOf(c) /\ mirror'[c] = mirror[c]
    BY <1>1, <1>2, BidWritesElsewhere
  <2>2. BidInOrder(c) /\ UnitsOf(c)' = UnitsOf(c)
    BY <2>1 DEF AppInv, UnitsOf
  <2> QED BY <2>1, <2>2 DEF BidInOrder, LedByPrimary, IsPrimary
<1>3. LedByPrimary(b)' /\ bids'[b].status # "NONE"
  BY <1>1, PatchedBid DEF BidWrites, TypeOK
<1>4. Cardinality(UnitsOf(b)') <= RoomsBooked[b]
  <2>1. Cardinality(UnitsOf(b)) <= RoomsBooked[b]
    BY DEF AppInv, BidInOrder
  <2>2. CASE UnitsOf(b)' \subseteq UnitsOf(b)
    <3>1. UnitsOf(b) \in SUBSET Units
      BY <1>1 DEF UnitsOf, LinesOf, TypeOK, Line
    <3> QED BY <1>1, <2>1, <2>2, <3>1, RoomsStep
  <2>3. CASE UnitsOf(b)' = {new.unit}
    <3>1. Cardinality({new.unit}) = 1
      BY FS_Singleton
    <3>2. RoomsBooked[b] \in Nat \ {0}
      BY StayUnitsAssumption
    <3> QED BY <2>3, <3>1, <3>2
  <2> QED BY <1>1, <2>2, <2>3, PatchedBid
<1>5. BidInOrder(b)'
  BY <1>3, <1>4 DEF BidInOrder
<1> QED BY <1>2, <1>5

\* The assignment RPC keeps them in order too.
LEMMA SetUnitsStep ==
  ASSUME IsFiniteSet(Units), AppInv, NEW b \in Bids, NEW target \in SUBSET Units,
         SetUnits(b, target), bids[b].status # "NONE"
  PROVE  \A c \in Bids : BidInOrder(c)'
<1>1. TypeOK /\ ReplaceLines(b, target) /\ Cardinality(target) <= RoomsBooked[b]
  BY DEF AppInv, SetUnits
<1>2. ASSUME NEW c \in Bids, c # b PROVE BidInOrder(c)'
  BY <1>1, <1>2, ReplaceElsewhere DEF AppInv, BidInOrder, LedByPrimary, IsPrimary, UnitsOf
<1>3. LedByPrimary(b)' /\ bids'[b].status # "NONE" /\ UnitsOf(b)' \subseteq target
  BY <1>1, ReplacedBid
<1>4. Cardinality(UnitsOf(b)') <= RoomsBooked[b]
  BY <1>1, <1>3, RoomsStep DEF AppInv, BidInOrder
<1>5. BidInOrder(b)'
  BY <1>3, <1>4 DEF BidInOrder
<1> QED BY <1>2, <1>5

\* The release leaves the bid without lines.
LEMMA ReleaseStep ==
  ASSUME AppInv, NEW b \in Bids, ReleaseUnits(b)
  PROVE  \A c \in Bids : BidInOrder(c)'
<1>1. LinesOf(b)' = {} /\ bids'[b].status # "NONE"
  BY DEF ReleaseUnits, LinesOf, AppInv, TypeOK, BidRow
<1>2. ASSUME NEW c \in Bids, c # b PROVE BidInOrder(c)'
  <2>1. LinesOf(c)' = LinesOf(c) /\ mirror'[c] = mirror[c] /\ bids'[c] = bids[c]
    BY <1>2 DEF ReleaseUnits, LinesOf, AppInv, TypeOK
  <2> QED BY <2>1 DEF AppInv, BidInOrder, LedByPrimary, IsPrimary, UnitsOf
<1>3. BidInOrder(b)'
  <2>1. UnitsOf(b)' = {}
    BY <1>1 DEF UnitsOf
  <2>2. Cardinality({}) = 0
    BY FS_EmptySet
  <2>3. RoomsBooked[b] \in Nat
    BY StayUnitsAssumption
  <2> QED BY <1>1, <2>1, <2>2, <2>3 DEF BidInOrder, LedByPrimary
<1> QED BY <1>2, <1>3

\* Every step of the repository's writers keeps every bid in order.
LEMMA AppStep ==
  ASSUME IsFiniteSet(Units), AppInv, [AppNext]_vars
  PROVE  AppInv'
<1> DEFINE Ordered == \A c \in Bids : BidInOrder(c)'
<1>0. TypeOK /\ LinesDisjoint /\ [Next]_vars /\ \A c \in Bids : BidInOrder(c)
  BY DEF AppInv, Next
<1>1. TypeOK' /\ LinesDisjoint'
  BY <1>0, TypeStep, DisjointStep
<1>2. ASSUME NEW b \in Bids, NEW s \in Written, NEW r \in Rooms, NEW u \in UnitColumn,
             PlaceBid(b, s, r, u)
      PROVE  Ordered
  <2> DEFINE new == [status |-> s, unit |-> u, room |-> r]
  <2>1. new \in BidRow /\ new.status # "NONE"
    BY <1>2, StayUnitsAssumption DEF BidRow, RoomColumn, PlaceBid, Open
  <2>2. LinesOf(b) = {} /\ WriteBid(b, new)
    BY <1>0, <1>2 DEF PlaceBid, BidInOrder
  <2> HIDE DEF new
  <2> QED BY <2>1, <2>2, PatchStep
<1>3. ASSUME NEW b \in Bids, NEW s \in Written, PatchStatus(b, s)
      PROVE  Ordered
  <2> DEFINE new == [bids[b] EXCEPT !.status = s]
  <2>1. new \in BidRow /\ new.status # "NONE" /\ new.unit = bids[b].unit
    BY <1>0, <1>3, StayUnitsAssumption
       DEF BidRow, TypeOK, Statuses, Occupying, Terminal, Open
  <2>2. WriteBid(b, new)
    BY <1>3 DEF PatchStatus
  <2> HIDE DEF new
  <2> QED BY <2>1, <2>2, PatchStep
<1>4. ASSUME NEW b \in Bids, NEW target \in SUBSET Units,
             AssignUnits(b, target) \/ TransferUnits(b, target)
      PROVE  Ordered
  BY <1>4, SetUnitsStep DEF AssignUnits, TransferUnits
<1>5. ASSUME NEW b \in Bids, ReleaseUnits(b) PROVE Ordered
  BY <1>5, ReleaseStep
<1>6. ASSUME NEW b \in Bids, NEW r \in Rooms, UpgradeRoom(b, r)
      PROVE  Ordered
  <2>1. UNCHANGED <<lines, mirror>>
        /\ \A c \in Bids : bids'[c].status = bids[c].status /\ bids'[c].unit = bids[c].unit
    BY <1>0, <1>6 DEF UpgradeRoom, TypeOK, BidRow
  <2>2. \A c \in Bids : LinesOf(c)' = LinesOf(c) /\ UnitsOf(c)' = UnitsOf(c)
    BY <2>1 DEF LinesOf, UnitsOf
  <2>3. \A c \in Bids : LedByPrimary(c)'
    BY <1>0, <2>1, <2>2 DEF BidInOrder, LedByPrimary, IsPrimary
  <2> QED BY <1>0, <2>1, <2>2, <2>3 DEF BidInOrder
<1>7. ASSUME UNCHANGED <<bids, lines, mirror>> PROVE Ordered
  <2>1. \A c \in Bids : LinesOf(c)' = LinesOf(c) /\ UnitsOf(c)' = UnitsOf(c)
    BY <1>7 DEF LinesOf, UnitsOf
  <2>2. \A c \in Bids : LedByPrimary(c)'
    BY <1>0, <1>7, <2>1 DEF BidInOrder, LedByPrimary, IsPrimary
  <2> QED BY <1>0, <1>7, <2>1, <2>2 DEF BidInOrder
<1>8. ASSUME NEW k \in Blocks,
             \/ \E r \in Rooms, n \in SUBSET Nights, u \in UnitColumn : InsertBlock(k, r, n, u)
             \/ \E r \in Rooms, n \in SUBSET Nights, u \in UnitColumn : PatchBlock(k, r, n, u)
             \/ \E u \in Units : AssignBlockUnit(k, u)
             \/ ReleaseBlockUnit(k)
             \/ DeleteBlock(k)
      PROVE  UNCHANGED <<bids, lines, mirror>>
  BY <1>8 DEF InsertBlock, PatchBlock, AssignBlockUnit, ReleaseBlockUnit, WriteBlock, DeleteBlock
<1>9. ASSUME NEW u \in Units, SetUnitStatus(u) PROVE UNCHANGED <<bids, lines, mirror>>
  BY <1>9 DEF SetUnitStatus
<1>10. ASSUME UNCHANGED vars PROVE Ordered
  BY <1>7, <1>10 DEF vars
<1> HIDE DEF Ordered
<1>11. Ordered
  BY <1>2, <1>3, <1>4, <1>5, <1>6, <1>7, <1>8, <1>9, <1>10 DEF AppNext
<1> QED BY <1>1, <1>11 DEF AppInv, Ordered

\* Hence every bid is in order in every state they reach.
LEMMA AppInvariant ==
  ASSUME IsFiniteSet(Units)
  PROVE  AppSpec => []AppInv
<1>1. Init => AppInv
  <2>1. ASSUME Init PROVE AppInv
    <3>1. TypeOK /\ LinesDisjoint
      BY <2>1 DEF Init, TypeOK, NoBid, NoBlock, BidRow, BlockRow, UnitColumn, RoomColumn,
                  LinesDisjoint
    <3>2. \A b \in Bids : UnitsOf(b) = {} /\ LinesOf(b) = {}
      BY <2>1 DEF Init, UnitsOf, LinesOf
    <3>3. Cardinality({}) = 0 /\ \A b \in Bids : RoomsBooked[b] \in Nat
      BY FS_EmptySet, StayUnitsAssumption
    <3>4. \A b \in Bids : BidInOrder(b)
      BY <3>2, <3>3 DEF BidInOrder, LedByPrimary
    <3> QED BY <3>1, <3>4 DEF AppInv
  <2> QED BY <2>1
<1>2. AppInv /\ [AppNext]_vars => AppInv'
  BY AppStep
<1> QED BY <1>1, <1>2, PTL DEF AppSpec

\* A booking that occupies inventory is led by its lowest slot in the bid's column and in
\* the legacy mirror, as long as nobody but the repository writes.
THEOREM PrimaryIsLowest ==
  ASSUME IsFiniteSet(Units)
  PROVE  AppSpec => []PrimaryIsLowestSlot
<1>1. AppInv => PrimaryIsLowestSlot
  BY DEF AppInv, BidInOrder, LedByPrimary, IsPrimary, PrimaryIsLowestSlot
<1> QED BY <1>1, AppInvariant, PTL

\* A booking holds no more rooms than it booked, through assignment, transfer and upgrade.
THEOREM RoomsFitBooking ==
  ASSUME IsFiniteSet(Units)
  PROVE  AppSpec => []RoomsWithinBooking
<1>1. ASSUME AppInv PROVE RoomsWithinBooking
  <2>1. ASSUME NEW b \in Bids PROVE Cardinality(LinesOf(b)) <= RoomsBooked[b]
    <3>1. UnitsOf(b) \in SUBSET Units /\ \A l \in LinesOf(b) : l.unit \in UnitsOf(b)
      BY <1>1 DEF AppInv, UnitsOf, LinesOf, TypeOK, Line
    <3>2. IsFiniteSet(UnitsOf(b))
      BY <3>1, FS_Subset
    <3>3. \A l, m \in LinesOf(b) : l.unit = m.unit => l = m
      BY <1>1 DEF AppInv, LinesDisjoint, LinesOf
    <3> DEFINE unitOf == [l \in LinesOf(b) |-> l.unit]
    <3>4. unitOf \in Injection(LinesOf(b), UnitsOf(b))
      BY <3>1, <3>3 DEF Injection, IsInjective
    <3>5. Cardinality(LinesOf(b)) <= Cardinality(UnitsOf(b))
          /\ IsFiniteSet(LinesOf(b))
      BY <3>2, <3>4, FS_Injection
    <3>6. Cardinality(LinesOf(b)) \in Nat /\ Cardinality(UnitsOf(b)) \in Nat
          /\ RoomsBooked[b] \in Nat
      BY <3>2, <3>5, FS_CardinalityType, StayUnitsAssumption
    <3>7. Cardinality(UnitsOf(b)) <= RoomsBooked[b]
      BY <1>1 DEF AppInv, BidInOrder
    <3> QED BY <3>5, <3>6, <3>7
  <2> QED BY <2>1 DEF RoomsWithinBooking
<1>2. AppInv => RoomsWithinBooking
  BY <1>1
<1> QED BY <1>2, AppInvariant, PTL

\* A stay that is and stays in house keeps a room: a status patch does not touch it, the
\* release refuses it, and a transfer replaces its rooms by at least one.
THEOREM InHouseStays ==
  ASSUME IsFiniteSet(Units)
  PROVE  AppSpec => InHouseKeepsRoom
<1> DEFINE Keeps(b) == /\ bids[b].status = "CHECKED_IN"
                       /\ bids'[b].status = "CHECKED_IN"
                       /\ LinesOf(b) # {}
                       => LinesOf(b)' # {}
<1>1. ASSUME AppInv, AppNext, NEW b \in Bids PROVE Keeps(b)
  <2>0. TypeOK /\ LedByPrimary(b)
    BY <1>1 DEF AppInv, BidInOrder
  <2>1. ASSUME NEW c \in Bids, NEW new \in BidRow, WriteBid(c, new),
               LinesOf(c) = {} \/ new.unit = bids[c].unit
        PROVE  Keeps(b)
    <3>1. CASE c = b
      <4>1. new.status = bids'[b].status
        BY <2>0, <2>1, <3>1 DEF WriteBid, TypeOK
      <4>2. new.status \in Occupying => (LinesOf(b) # {} => LinesOf(b)' # {})
        BY <2>0, <2>1, <3>1, WriteBidWrites, PatchedBid
      <4> QED BY <4>1, <4>2 DEF Occupying
    <3>2. CASE c # b
      BY <2>0, <2>1, <3>2, WriteBidWrites, BidWritesElsewhere
    <3> QED BY <3>1, <3>2
  <2>2. ASSUME NEW c \in Bids, NEW s \in Written, NEW r \in Rooms, NEW u \in UnitColumn,
               PlaceBid(c, s, r, u)
        PROVE  Keeps(b)
    <3>1. [status |-> s, unit |-> u, room |-> r] \in BidRow
      BY StayUnitsAssumption DEF BidRow, RoomColumn
    <3>2. LinesOf(c) = {}
      BY <1>1, <2>2 DEF PlaceBid, AppInv, BidInOrder
    <3> QED BY <2>1, <2>2, <3>1, <3>2 DEF PlaceBid
  <2>3. ASSUME NEW c \in Bids, NEW s \in Written, PatchStatus(c, s) PROVE Keeps(b)
    <3> DEFINE new == [bids[c] EXCEPT !.status = s]
    <3>1. new \in BidRow /\ new.unit = bids[c].unit
      BY <2>0, StayUnitsAssumption DEF BidRow, TypeOK
    <3>2. WriteBid(c, new)
      BY <2>3 DEF PatchStatus
    <3> HIDE DEF new
    <3> QED BY <2>1, <3>1, <3>2
  <2>4. ASSUME NEW c \in Bids, NEW target \in SUBSET Units,
               AssignUnits(c, target) \/ TransferUnits(c, target)
        PROVE  Keeps(b)
    <3>1. ReplaceLines(c, target)
      BY <2>4 DEF AssignUnits, TransferUnits, SetUnits
    <3>2. CASE c = b
      BY <2>0, <3>1, <3>2, ReplacedBid
    <3>3. CASE c # b
      BY <2>0, <3>1, <3>3, ReplaceElsewhere
    <3> QED BY <3>2, <3>3
  <2>5. ASSUME NEW c \in Bids, ReleaseUnits(c) PROVE Keeps(b)
    <3>1. CASE c = b
      BY <2>5, <3>1 DEF ReleaseUnits
    <3>2. CASE c # b
      BY <2>5, <3>2 DEF ReleaseUnits, LinesOf
    <3> QED BY <3>1, <3>2
  <2>6. ASSUME NEW c \in Bids, NEW r \in Rooms, UpgradeRoom(c, r) PROVE Keeps(b)
    BY <2>6 DEF UpgradeRoom, LinesOf
  <2>7. ASSUME NEW k \in Blocks,
             \/ \E r \in Rooms, n \in SUBSET Nights, u \in UnitColumn : InsertBlock(k, r, n, u)
             \/ \E r \in Rooms, n \in SUBSET Nights, u \in UnitColumn : PatchBlock(k, r, n, u)
             \/ \E u \in Units : AssignBlockUnit(k, u)
             \/ ReleaseBlockUnit(k)
             \/ DeleteBlock(k)
        PROVE  Keeps(b)
    <3>1. UNCHANGED lines
      BY <2>7 DEF InsertBlock, PatchBlock, AssignBlockUnit, ReleaseBlockUnit, WriteBlock,
                  DeleteBlock
    <3> QED BY <3>1 DEF LinesOf
  <2>8. ASSUME NEW u \in Units, SetUnitStatus(u) PROVE Keeps(b)
    BY <2>8 DEF SetUnitStatus, LinesOf
  <2> HIDE DEF Keeps
  <2> QED BY <1>1, <2>2, <2>3, <2>4, <2>5, <2>6, <2>7, <2>8 DEF AppNext
<1>2. AppInv /\ [AppNext]_vars =>
        [\A b \in Bids : /\ bids[b].status = "CHECKED_IN"
                         /\ bids'[b].status = "CHECKED_IN"
                         /\ LinesOf(b) # {}
                         => \E l \in lines' : l.bid = b]_vars
  BY <1>1 DEF LinesOf
<1> QED BY <1>2, AppInvariant, PTL DEF AppSpec, InHouseKeepsRoom


-----------------------------------------------------------------------------
(* Unknown dates. *)

\* A line on a unit its bid did not hold is granted by the check of the unit.
Granted(l) ==
  \E b \in Bids : \E room :
    l.bid = b /\ l.nights = StayOf[b] /\ Claimable(l.unit, room, b)

\* The trigger adds a line on another unit in the branch that checks it, and nowhere else.
LEMMA WriteBidAdds ==
  ASSUME TypeOK, NEW b \in Bids, NEW new \in BidRow, WriteBid(b, new), NEW l \in lines',
         \A m \in lines : m.bid # l.bid \/ m.unit # l.unit
  PROVE  Granted(l)
<1>1. CASE SyncExit(b, new) \/ SyncCleared(b, bids[b], new) \/ SyncHeld(b, new)
  BY <1>1 DEF SyncExit, SyncCleared, SyncHeld
<1>2. CASE SyncOpen(b, new)
  <2>1. l \notin lines
    OBVIOUS
  <2>2. PICK m \in LinesOf(b) : l = [m EXCEPT !.lapsed = TRUE]
    BY <1>2, <2>1 DEF SyncOpen
  <2>3. m \in lines /\ l.bid = m.bid /\ l.unit = m.unit
    BY <2>2 DEF LinesOf, TypeOK, Line
  <2> QED BY <2>3
<1>3. CASE SyncTake(b, bids[b], new)
  <2>1. \E s : l = NewLine(b, new.unit, s)
    BY <1>3 DEF SyncTake, AddLine
  <2>2. l.bid = b /\ l.unit = new.unit /\ l.nights = StayOf[b]
    BY <2>1 DEF NewLine
  <2>3. Claimable(new.unit, new.room, b)
    BY <1>3 DEF SyncTake
  <2> QED BY <2>2, <2>3 DEF Granted
<1> QED BY <1>1, <1>2, <1>3 DEF WriteBid, SyncBid

\* What the replacement of a stay's units adds.
LEMMA ReplaceGrants ==
  ASSUME NEW b \in Bids, NEW target \in SUBSET Units, ReplaceLines(b, target)
  PROVE  /\ \A l : l.bid # b => (l \in lines <=> l \in lines')
         /\ \A l \in lines' \ lines :
              l.bid = b /\ l.unit \in target /\ l.nights = StayOf[b]
<1>1. /\ \A l \in lines' : l \in lines \/ \E u \in target : \E s : l = NewLine(b, u, s)
      /\ \A l \in lines : l.bid # b => l \in lines'
  BY DEF ReplaceLines, Kept, IsPrimary, LinesOf
<1>2. \A u, s : /\ NewLine(b, u, s).bid = b
                /\ NewLine(b, u, s).unit = u
                /\ NewLine(b, u, s).nights = StayOf[b]
  BY DEF NewLine
<1> QED BY <1>1, <1>2

\* Such a check does not pass an occupying line of unknown dates.
LEMMA GrantFailsClosed ==
  ASSUME NEW l, Granted(l), l.nights # {}, NEW m \in lines, m.unit = l.unit, m.bid # l.bid,
         m.nights = {}
  PROVE  bids[m.bid].status \notin Occupying
<1>1. PICK b \in Bids : \E room :
        l.bid = b /\ l.nights = StayOf[b] /\ Claimable(l.unit, room, b)
  BY DEF Granted
<1>2. LineConflicts(l.unit, l.nights, b) = {}
  BY <1>1 DEF Claimable, ConflictFree
<1> QED BY <1>1, <1>2 DEF LineConflicts, Clashes

\* No writer, in the repository or outside it, gets a dated line on a unit that another
\* occupying stay holds for unknown dates.
THEOREM FailsClosed == Spec => UnknownDatesFailClosed
<1>1. ASSUME TypeOK, Next, NEW l \in lines', \A m \in lines : m.bid # l.bid \/ m.unit # l.unit
      PROVE  Granted(l)
  <2>1. ASSUME NEW b \in Bids, NEW s \in Written, NEW r \in Rooms, NEW u \in UnitColumn,
               PlaceBid(b, s, r, u)
        PROVE  Granted(l)
    BY <1>1, <2>1, WriteBidAdds, StayUnitsAssumption DEF PlaceBid, BidRow, RoomColumn
  <2>2. ASSUME NEW b \in Bids, NEW s \in Written, PatchStatus(b, s) PROVE Granted(l)
    BY <1>1, <2>2, WriteBidAdds, StayUnitsAssumption DEF PatchStatus, BidRow, TypeOK
  <2>3. ASSUME NEW b \in Bids, NEW u \in UnitColumn, WriteColumn(b, u) PROVE Granted(l)
    BY <1>1, <2>3, WriteBidAdds DEF WriteColumn, BidRow, TypeOK
  <2>4. ASSUME NEW b \in Bids, NEW target \in SUBSET Units,
               AssignUnits(b, target) \/ TransferUnits(b, target)
        PROVE  Granted(l)
    <3>1. SetUnits(b, target)
      BY <2>4 DEF AssignUnits, TransferUnits
    <3>2. ReplaceLines(b, target) /\ \A u \in target : Claimable(u, bids[b].room, b)
      BY <3>1 DEF SetUnits
    <3>3. l.bid = b /\ l.unit \in target /\ l.nights = StayOf[b]
      BY <1>1, <3>2, ReplaceGrants
    <3> QED BY <3>2, <3>3 DEF Granted
  <2>5. ASSUME lines' \subseteq lines PROVE Granted(l)
    BY <1>1, <2>5
  <2>6. ASSUME NEW b \in Bids,
               \/ \E r \in Rooms : UpgradeRoom(b, r)
               \/ ReleaseUnits(b)
               \/ \E u \in UnitColumn : WriteMirror(b, u)
        PROVE  lines' \subseteq lines
    BY <2>6 DEF UpgradeRoom, ReleaseUnits, WriteMirror
  <2>7. ASSUME NEW k \in Blocks,
             \/ \E r \in Rooms, n \in SUBSET Nights, u \in UnitColumn : InsertBlock(k, r, n, u)
             \/ \E r \in Rooms, n \in SUBSET Nights, u \in UnitColumn : PatchBlock(k, r, n, u)
             \/ \E u \in Units : AssignBlockUnit(k, u)
             \/ ReleaseBlockUnit(k)
             \/ DeleteBlock(k)
        PROVE  lines' \subseteq lines
    BY <2>7 DEF InsertBlock, PatchBlock, AssignBlockUnit, ReleaseBlockUnit, WriteBlock,
                DeleteBlock
  <2>8. ASSUME NEW u \in Units, SetUnitStatus(u) PROVE lines' \subseteq lines
    BY <2>8 DEF SetUnitStatus
  <2> QED
    BY <1>1, <2>1, <2>2, <2>3, <2>4, <2>5, <2>6, <2>7, <2>8 DEF Next, AppNext, OutsideNext
<1> DEFINE Closed ==
      \A l \in lines' : (\A m \in lines : m.bid # l.bid \/ m.unit # l.unit) =>
        \A m \in lines : m.unit = l.unit /\ m.nights = {} /\ l.nights # {}
                          => bids[m.bid].status \notin Occupying
<1>2. ASSUME TypeOK, Next PROVE Closed
  BY <1>1, <1>2, GrantFailsClosed
<1>3. TypeOK /\ [Next]_vars => [Closed]_vars
  <2> HIDE DEF Closed
  <2> QED BY <1>2
<1> QED BY <1>3, TypeCorrect, PTL DEF Spec, UnknownDatesFailClosed

-----------------------------------------------------------------------------
(* Every step of the authority is a step of UnitClaims or a stutter. *)

ClaimsInv == TypeOK /\ Occupancy /\ LinesDisjoint

\* What a line and a pin claim.
LEMMA ClaimFields ==
  /\ \A l : /\ LineClaim(l).owner = l.bid
            /\ LineClaim(l).unit = l.unit
            /\ LineClaim(l).nights = l.nights
  /\ \A k : /\ BlockClaim(k).owner = k
            /\ BlockClaim(k).unit = blocks[k].unit
            /\ BlockClaim(k).nights = blocks[k].nights
BY DEF LineClaim, BlockClaim

\* The claims of bid b become those of its new lines.
LEMMA BidHolds ==
  ASSUME TypeOK, TypeOK', LinesDisjoint', UNCHANGED blocks, NEW b \in Bids,
         \A l : l.bid # b => (l \in lines <=> l \in lines'),
         \A l \in lines' \ lines : Stands(l) =>
           \A d \in Standing : d.owner # b /\ d.unit = l.unit => d.nights \cap l.nights = {}
  PROVE  Claims!Next
<1> DEFINE ls   == {l \in lines' : l.bid = b /\ Stands(l)}
           mine == {LineClaim(l) : l \in ls}
<1>1. mine \in SUBSET {c \in Claims!Claim : c.owner = b}
  BY DEF TypeOK, Line, LineClaim, Claims!Claim, Stands
<1>2. Standing' = (Standing \ Claims!ClaimsOf(b)) \cup mine
  <2>1. {BlockClaim(k) : k \in {k \in Blocks : Pinned(k)}}'
          = {BlockClaim(k) : k \in {k \in Blocks : Pinned(k)}}
    BY DEF BlockClaim, Pinned
  <2>2. \A k \in Blocks : BlockClaim(k).owner # b
    BY StayClaimsAssumption DEF BlockClaim
  <2>3. {LineClaim(l) : l \in {l \in lines : Stands(l)}}'
          = {LineClaim(l) : l \in {l \in lines : Stands(l) /\ l.bid # b}} \cup mine
    OBVIOUS
  <2>4. \A l : LineClaim(l).owner = b <=> l.bid = b
    BY ClaimFields
  <2> QED BY <2>1, <2>2, <2>3, <2>4 DEF Standing, Claims!ClaimsOf
<1>3. ASSUME NEW c \in mine, NEW d \in mine, c.unit = d.unit PROVE c = d
  <2>1. PICK l \in ls : c = LineClaim(l)  OBVIOUS
  <2>2. PICK m \in ls : d = LineClaim(m)  OBVIOUS
  <2>3. l.unit = m.unit  BY <1>3, <2>1, <2>2, ClaimFields
  <2>4. l = m  BY <2>3 DEF LinesDisjoint
  <2> QED BY <2>1, <2>2, <2>4
<1>4. ASSUME NEW c \in mine \ Claims!ClaimsOf(b), NEW d \in Standing \ Claims!ClaimsOf(b),
             c.unit = d.unit
      PROVE  c.nights \cap d.nights = {}
  <2>1. PICK l \in ls : c = LineClaim(l)  BY <1>4
  <2>2. c.owner = b /\ c.unit = l.unit /\ c.nights = l.nights
    BY <2>1, ClaimFields
  <2>3. c \notin Standing  BY <1>4, <2>2 DEF Claims!ClaimsOf
  <2>4. l \notin lines  BY <2>1, <2>3 DEF Standing
  <2>5. d.owner # b  BY <1>4 DEF Claims!ClaimsOf
  <2> QED BY <1>4, <2>2, <2>4, <2>5
<1>5. Claims!Hold(b, mine)
  BY <1>2, <1>3, <1>4 DEF Claims!Hold
<1> QED BY <1>1, <1>5 DEF Claims!Next

\* The claim of block k becomes its new pin.
LEMMA BlockHolds ==
  ASSUME TypeOK, TypeOK', UNCHANGED lines, NEW k \in Blocks,
         \A j \in Blocks \ {k} : blocks'[j] = blocks[j],
         \/ ~Pinned(k)'
         \/ Pinned(k) /\ BlockClaim(k)' = BlockClaim(k)
         \/ \A d \in Standing : d.owner # k /\ d.unit = blocks'[k].unit
                                  => d.nights \cap blocks'[k].nights = {}
  PROVE  Claims!Next
<1> DEFINE mine == IF Pinned(k)' THEN {BlockClaim(k)'} ELSE {}
<1>1. mine \in SUBSET {c \in Claims!Claim : c.owner = k}
  <2>1. blocks'[k] \in BlockRow  BY DEF TypeOK
  <2> QED BY <2>1 DEF BlockRow, UnitColumn, BlockClaim, Pinned, Claims!Claim
<1>2. Standing' = (Standing \ Claims!ClaimsOf(k)) \cup mine
  <2>1. \A l \in lines : l.bid # k
    BY StayClaimsAssumption DEF TypeOK, Line
  <2>2. \A l \in lines : LineClaim(l).owner # k
    BY <2>1, ClaimFields
  <2>3. \A j \in Blocks \ {k} : /\ BlockClaim(j)' = BlockClaim(j)
                                /\ Pinned(j)' <=> Pinned(j)
    BY DEF BlockClaim, Pinned
  <2>4. \A j \in Blocks : BlockClaim(j).owner = j
    BY ClaimFields
  <2>5. {LineClaim(l) : l \in {l \in lines : Stands(l)}}'
          = {LineClaim(l) : l \in {l \in lines : Stands(l)}}
    OBVIOUS
  <2>6. {BlockClaim(j) : j \in {j \in Blocks : Pinned(j)}}'
          = {BlockClaim(j) : j \in {j \in Blocks \ {k} : Pinned(j)}} \cup mine
    <3>1. ASSUME NEW c \in {BlockClaim(j) : j \in {j \in Blocks : Pinned(j)}}'
          PROVE  c \in {BlockClaim(j) : j \in {j \in Blocks \ {k} : Pinned(j)}} \cup mine
      <4>1. PICK j \in Blocks : Pinned(j)' /\ c = BlockClaim(j)'  BY <3>1
      <4>2. CASE j = k  BY <4>1, <4>2
      <4>3. CASE j # k  BY <4>1, <4>3, <2>3
      <4> QED BY <4>2, <4>3
    <3>2. ASSUME NEW c \in {BlockClaim(j) : j \in {j \in Blocks \ {k} : Pinned(j)}} \cup mine
          PROVE  c \in {BlockClaim(j) : j \in {j \in Blocks : Pinned(j)}}'
      <4>1. CASE c \in mine  BY <4>1
      <4>2. CASE \E j \in Blocks \ {k} : Pinned(j) /\ c = BlockClaim(j)
        BY <4>2, <2>3
      <4> QED BY <3>2, <4>1, <4>2
    <3> QED BY <3>1, <3>2
  <2> QED BY <2>2, <2>4, <2>5, <2>6 DEF Standing, Claims!ClaimsOf
<1>3. ASSUME NEW c \in mine \ Claims!ClaimsOf(k), NEW d \in Standing \ Claims!ClaimsOf(k),
             c.unit = d.unit
      PROVE  c.nights \cap d.nights = {}
  <2>1. Pinned(k)' /\ c = BlockClaim(k)'  BY <1>3
  <2>2. c.owner = k /\ c.unit = blocks'[k].unit /\ c.nights = blocks'[k].nights
    BY <2>1 DEF BlockClaim
  <2>3. ~(Pinned(k) /\ BlockClaim(k)' = BlockClaim(k))
    BY <1>3, <2>1, <2>2 DEF Claims!ClaimsOf, Standing
  <2>4. d.owner # k  BY <1>3 DEF Claims!ClaimsOf
  <2> QED BY <1>3, <2>1, <2>2, <2>3, <2>4
<1>4. \A c, d \in mine : c.unit = d.unit => c = d
  OBVIOUS
<1>5. Claims!Hold(k, mine)
  BY <1>2, <1>3, <1>4 DEF Claims!Hold
<1> QED BY <1>1, <1>5 DEF Claims!Next

\* Unit u is claimed by nobody but the owner o for any of the nights.
Free(u, o, nights) ==
  \A d \in Standing : d.owner # o /\ d.unit = u => d.nights \cap nights = {}

\* A successful conflict check means that no other claim stands in the way: a line
\* that stands belongs to an occupying bid, so it was counted.
LEMMA CheckedIsFree ==
  ASSUME TypeOK, LapsedWhenNotOccupying, NEW u \in Units, NEW nights, NEW b, NEW k,
         ConflictFree(u, nights, b, k), b = NULL \/ b \in Bids, k = NULL \/ k \in Blocks,
         NEW d \in Standing, d.owner # b, d.owner # k, d.unit = u
  PROVE  d.nights \cap nights = {}
<1>1. CASE \E l \in lines : Stands(l) /\ d = LineClaim(l)
  <2>1. PICK l \in lines : Stands(l) /\ d = LineClaim(l)  BY <1>1
  <2>2. l.bid # b /\ l.unit = u /\ d.nights = l.nights  BY <2>1, ClaimFields
  <2>3. bids[l.bid].status \in Occupying
    BY <2>1 DEF LapsedWhenNotOccupying, Stands
  <2> QED BY <2>2, <2>3 DEF ConflictFree, LineConflicts, Clashes
<1>2. CASE \E j \in Blocks : d = BlockClaim(j)
  <2>1. PICK j \in Blocks : d = BlockClaim(j)  BY <1>2
  <2>2. j # k /\ blocks[j].unit = u /\ d.nights = blocks[j].nights  BY <2>1, ClaimFields
  <2> QED BY <2>2 DEF ConflictFree, BlockConflicts
<1> QED BY <1>1, <1>2 DEF Standing

\* No claim is the null owner's.
LEMMA OwnersExist ==
  ASSUME TypeOK, NEW d \in Standing
  PROVE  d.owner # NULL
BY StayUnitsAssumption, ClaimFields DEF Standing, TypeOK, Line

\* The unit a stay may claim is free for it, and so is the one a block may pin.
LEMMA ClaimableIsFree ==
  ASSUME TypeOK, LapsedWhenNotOccupying, NEW u \in Units, NEW b \in Bids, NEW room,
         Claimable(u, room, b)
  PROVE  Free(u, b, StayOf[b])
<1>1. CASE StayOf[b] = {}  BY <1>1 DEF Free
<1>2. CASE StayOf[b] # {}
  <2>1. ConflictFree(u, StayOf[b], b, NULL)  BY <1>2 DEF Claimable
  <2> QED BY <2>1, CheckedIsFree, OwnersExist DEF Free
<1> QED BY <1>1, <1>2

LEMMA ConflictFreeIsFree ==
  ASSUME TypeOK, LapsedWhenNotOccupying, NEW u \in Units, NEW k \in Blocks, NEW nights,
         ConflictFree(u, nights, NULL, k)
  PROVE  Free(u, k, nights)
BY CheckedIsFree, OwnersExist DEF Free

\* What a write of a bid adds to the lines.
LEMMA BidGrants ==
  ASSUME TypeOK, NEW b \in Bids, NEW new \in BidRow, BidWrites(b, new)
  PROVE  /\ \A l : l.bid # b => (l \in lines <=> l \in lines')
         /\ \A l \in lines' \ lines : ~l.lapsed =>
              /\ l.bid = b /\ l.unit = new.unit /\ l.nights = StayOf[b]
              /\ new.status \in Occupying /\ new.unit \in Units \ UnitsOf(b)
<1>1. CASE SyncExit(b, new) \/ SyncCleared(b, bids[b], new) \/ SyncHeld(b, new)
  <2>1. lines' \subseteq lines /\ \A l \in lines : l.bid # b => l \in lines'
    BY <1>1 DEF SyncExit, SyncCleared, SyncHeld, LinesOf
  <2> QED BY <2>1
<1>2. CASE SyncOpen(b, new)
  <2>1. \A l \in LinesOf(b) : [l EXCEPT !.lapsed = TRUE].bid = b
                              /\ [l EXCEPT !.lapsed = TRUE].lapsed = TRUE
    BY DEF LinesOf, TypeOK, Line
  <2>2. \A l : l.bid # b => (l \in lines <=> l \in lines')
    BY <1>2, <2>1 DEF SyncOpen, LinesOf
  <2>3. \A l \in lines' \ lines : l.lapsed = TRUE
    BY <1>2, <2>1 DEF SyncOpen, LinesOf
  <2> QED BY <2>2, <2>3
<1>3. CASE SyncAdd(b, bids[b], new)
  <2>1. PICK s : /\ lines' \subseteq lines \cup {NewLine(b, new.unit, s)}
                 /\ \A l \in lines : l.bid # b => l \in lines'
    BY <1>3 DEF SyncAdd, AddLine
  <2>2. /\ NewLine(b, new.unit, s).bid = b
        /\ NewLine(b, new.unit, s).unit = new.unit
        /\ NewLine(b, new.unit, s).nights = StayOf[b]
    BY DEF NewLine
  <2> QED BY <1>3, <2>1, <2>2 DEF SyncAdd
<1> QED BY <1>1, <1>2, <1>3 DEF BidWrites, SyncWrites

\* A write of a bid that takes at most a free unit is a step of the claims.
LEMMA BidClaims ==
  ASSUME TypeOK, TypeOK', LinesDisjoint', NEW b \in Bids, NEW new \in BidRow,
         BidWrites(b, new),
         new.status \in Occupying /\ new.unit \in Units \ UnitsOf(b)
           => Free(new.unit, b, StayOf[b])
  PROVE  Claims!Next
<1>1. blocks' = blocks  BY DEF BidWrites
<1>2. \A l : l.bid # b => (l \in lines <=> l \in lines')
  BY BidGrants
<1>3. \A l \in lines' \ lines : Stands(l) =>
        \A d \in Standing : d.owner # b /\ d.unit = l.unit => d.nights \cap l.nights = {}
  <2>1. ASSUME NEW l \in lines' \ lines, Stands(l)
        PROVE  /\ l.unit = new.unit /\ l.nights = StayOf[b]
               /\ Free(new.unit, b, StayOf[b])
    BY <2>1, BidGrants DEF Stands
  <2> QED BY <2>1 DEF Free
<1> QED BY <1>1, <1>2, <1>3, BidHolds

\* So is the replacement of a stay's units by free ones.
LEMMA ReplaceClaims ==
  ASSUME TypeOK, TypeOK', LinesDisjoint', NEW b \in Bids, NEW target \in SUBSET Units,
         ReplaceLines(b, target), \A u \in target : Free(u, b, StayOf[b])
  PROVE  Claims!Next
<1>1. blocks' = blocks  BY DEF ReplaceLines
<1> QED BY <1>1, ReplaceGrants, BidHolds DEF Free

\* So is the release of its units.
LEMMA ReleaseClaims ==
  ASSUME TypeOK, TypeOK', LinesDisjoint', NEW b \in Bids, ReleaseUnits(b)
  PROVE  Claims!Next
<1>1. /\ \A l : l.bid # b => (l \in lines <=> l \in lines')
      /\ lines' \subseteq lines
      /\ UNCHANGED blocks
  BY DEF ReleaseUnits, LinesOf
<1> QED BY <1>1, BidHolds

\* So is a write of a block whose pin stays or is on a free unit.
LEMMA BlockClaims ==
  ASSUME TypeOK, TypeOK', NEW k \in Blocks, NEW new \in BlockRow,
         blocks' = [blocks EXCEPT ![k] = new], UNCHANGED lines,
         \/ new.unit = NULL
         \/ new.nights = {}
         \/ new.unit = blocks[k].unit /\ new.nights = blocks[k].nights
         \/ Free(new.unit, k, new.nights)
  PROVE  Claims!Next
<1>1. blocks'[k] = new /\ \A j \in Blocks \ {k} : blocks'[j] = blocks[j]
  BY DEF TypeOK
<1>2. CASE new.unit = NULL \/ new.nights = {}
  BY <1>1, <1>2, BlockHolds DEF Pinned
<1>3. CASE new.unit = blocks[k].unit /\ new.nights = blocks[k].nights
  <2>1. Pinned(k)' => Pinned(k) /\ BlockClaim(k)' = BlockClaim(k)
    BY <1>1, <1>3 DEF Pinned, BlockClaim
  <2> QED BY <1>1, <2>1, BlockHolds
<1>4. CASE Free(new.unit, k, new.nights)
  BY <1>1, <1>4, BlockHolds DEF Free
<1> QED BY <1>2, <1>3, <1>4

\* A write of a bid with its trigger is a step of the claims.
LEMMA WriteBidClaims ==
  ASSUME ClaimsInv, ClaimsInv', NEW b \in Bids, NEW new \in BidRow, WriteBid(b, new)
  PROVE  Claims!Next
<1>1. TypeOK /\ LapsedWhenNotOccupying /\ TypeOK' /\ LinesDisjoint'
  BY DEF ClaimsInv, Occupancy
<1>2. ASSUME new.status \in Occupying, new.unit \in Units \ UnitsOf(b)
      PROVE  Free(new.unit, b, StayOf[b])
  <2>1. SyncTake(b, bids[b], new)
    BY <1>2, StayUnitsAssumption DEF WriteBid, SyncBid, SyncExit, SyncOpen, SyncCleared, SyncHeld,
                Occupying, Terminal, Open
  <2>2. Claimable(new.unit, new.room, b)
    BY <2>1 DEF SyncTake
  <2> QED BY <1>1, <1>2, <2>2, ClaimableIsFree
<1> QED BY <1>1, <1>2, WriteBidWrites, BidClaims

\* So is a write of a block with its guard.
LEMMA WriteBlockClaims ==
  ASSUME ClaimsInv, ClaimsInv', NEW k \in Blocks, NEW new \in BlockRow, WriteBlock(k, new)
  PROVE  Claims!Next
<1>1. TypeOK /\ LapsedWhenNotOccupying /\ TypeOK' /\ lines' = lines
  BY DEF ClaimsInv, Occupancy, WriteBlock
<1>2. ASSUME new.unit # NULL, ConflictFree(new.unit, new.nights, NULL, k)
      PROVE  Free(new.unit, k, new.nights)
  BY <1>1, <1>2, ConflictFreeIsFree DEF BlockRow, UnitColumn
<1> QED BY <1>1, <1>2, BlockClaims DEF WriteBlock, BlockGuard

\* Every transaction of the authority is a step of the abstract claims.
LEMMA ClaimsStep ==
  ASSUME ClaimsInv, ClaimsInv', [Next]_vars
  PROVE  [Claims!Next]_Standing
<1>0. TypeOK /\ LapsedWhenNotOccupying /\ TypeOK' /\ LinesDisjoint'
  BY DEF ClaimsInv, Occupancy
<1>1. ASSUME NEW b \in Bids, NEW s \in Written, NEW r \in Rooms, NEW u \in UnitColumn,
             PlaceBid(b, s, r, u)
      PROVE  Claims!Next
  BY <1>1, WriteBidClaims, StayUnitsAssumption DEF PlaceBid, BidRow, RoomColumn
<1>2. ASSUME NEW b \in Bids, NEW s \in Written, PatchStatus(b, s) PROVE Claims!Next
  <2> DEFINE new == [bids[b] EXCEPT !.status = s]
  <2>1. s \in Statuses
    BY StayUnitsAssumption DEF Statuses
  <2>2. new \in BidRow
    BY <1>0, <2>1 DEF BidRow, TypeOK
  <2>3. WriteBid(b, new)
    BY <1>2 DEF PatchStatus
  <2> HIDE DEF new
  <2> QED BY <2>2, <2>3, WriteBidClaims
<1>3. ASSUME NEW b \in Bids, NEW u \in UnitColumn, WriteColumn(b, u) PROVE Claims!Next
  BY <1>0, <1>3, WriteBidClaims DEF WriteColumn, BidRow, TypeOK
<1>4. ASSUME NEW b \in Bids, NEW target \in SUBSET Units,
             AssignUnits(b, target) \/ TransferUnits(b, target)
      PROVE  Claims!Next
  <2>1. ReplaceLines(b, target) /\ \A u \in target : Free(u, b, StayOf[b])
    BY <1>0, <1>4, ClaimableIsFree DEF AssignUnits, TransferUnits, SetUnits
  <2> QED BY <1>0, <2>1, ReplaceClaims
<1>5. ASSUME NEW b \in Bids, ReleaseUnits(b) PROVE Claims!Next
  BY <1>0, <1>5, ReleaseClaims
<1>6. ASSUME NEW k \in Blocks,
             \/ \E r \in Rooms, n \in SUBSET Nights, u \in UnitColumn : InsertBlock(k, r, n, u)
             \/ \E r \in Rooms, n \in SUBSET Nights, u \in UnitColumn : PatchBlock(k, r, n, u)
             \/ \E u \in Units : AssignBlockUnit(k, u)
             \/ ReleaseBlockUnit(k)
      PROVE  Claims!Next
  BY <1>0, <1>6, WriteBlockClaims
     DEF InsertBlock, PatchBlock, AssignBlockUnit, ReleaseBlockUnit, BlockRow, TypeOK,
         UnitColumn, RoomColumn
<1>7. ASSUME NEW k \in Blocks, DeleteBlock(k) PROVE Claims!Next
  <2>1. /\ UNCHANGED lines
        /\ ~Pinned(k)'
        /\ \A j \in Blocks \ {k} : blocks'[j] = blocks[j]
    BY <1>0, <1>7 DEF DeleteBlock, NoBlock, Pinned, TypeOK
  <2> QED BY <1>0, <2>1, BlockHolds
<1>8. ASSUME UNCHANGED <<lines, blocks>> PROVE UNCHANGED Standing
  BY <1>8 DEF Standing, Pinned, BlockClaim
<1>9. ASSUME NEW b \in Bids,
             (\E r \in Rooms : UpgradeRoom(b, r)) \/ (\E u \in UnitColumn : WriteMirror(b, u))
      PROVE  UNCHANGED <<lines, blocks>>
  BY <1>9 DEF UpgradeRoom, WriteMirror
<1>10. ASSUME NEW u \in Units, SetUnitStatus(u) PROVE UNCHANGED <<lines, blocks>>
  BY <1>10 DEF SetUnitStatus
<1>11. CASE UNCHANGED vars
  BY <1>8, <1>11 DEF vars
<1> QED
  BY <1>1, <1>2, <1>3, <1>4, <1>5, <1>6, <1>7, <1>8, <1>9, <1>10, <1>11
     DEF Next, AppNext, OutsideNext

\* The detailed authority implements the abstract promise.
THEOREM Implementation == Spec => ImplementsClaims
<1>1. Init => Claims!Init
  BY DEF Init, NoBlock, Pinned, Standing, Claims!Init
<1>2. Spec => []ClaimsInv
  <2>1. Init => Occupancy /\ LinesDisjoint
    BY DEF Init, Occupancy, LapsedWhenNotOccupying, OneOccupantUnlessLapsed, LinesDisjoint
  <2>2. TypeOK /\ Occupancy /\ LinesDisjoint /\ [Next]_vars => (Occupancy /\ LinesDisjoint)'
    BY OccupancyStep, DisjointStep
  <2>3. TypeOK /\ Occupancy /\ LinesDisjoint => ClaimsInv
    BY DEF ClaimsInv
  <2> QED BY <2>1, <2>2, <2>3, TypeCorrect, PTL DEF Spec
<1>3. ClaimsInv /\ ClaimsInv' /\ [Next]_vars => [Claims!Next]_Standing
  BY ClaimsStep
<1> QED BY <1>1, <1>2, <1>3, PTL DEF Spec, ImplementsClaims, Claims!Spec

\* A step of the claims claims no unit-night twice.
LEMMA ExclusiveStep ==
  ASSUME Claims!Exclusive, [Claims!Next]_Standing
  PROVE  Claims!Exclusive'
<1>1. CASE UNCHANGED Standing
  BY <1>1 DEF Claims!Exclusive
<1>2. ASSUME NEW o, NEW mine \in SUBSET {c \in Claims!Claim : c.owner = o},
             Claims!Hold(o, mine)
      PROVE  Claims!Exclusive'
  <2>1. Standing' = (Standing \ Claims!ClaimsOf(o)) \cup mine
    BY <1>2 DEF Claims!Hold
  <2>2. ASSUME NEW c \in mine, NEW d \in Standing \ Claims!ClaimsOf(o), c.unit = d.unit
        PROVE  c.nights \cap d.nights = {}
    <3>1. CASE c \in Claims!ClaimsOf(o)
      BY <2>2, <3>1 DEF Claims!ClaimsOf, Claims!Exclusive
    <3>2. CASE c \notin Claims!ClaimsOf(o)
      BY <1>2, <2>2, <3>2 DEF Claims!Hold
    <3> QED BY <3>1, <3>2
  <2>3. \A c, d \in mine : c.unit = d.unit => c = d
    BY <1>2 DEF Claims!Hold
  <2>4. \A c, d \in Standing \ Claims!ClaimsOf(o) :
          c.unit = d.unit /\ c.nights \cap d.nights # {} => c = d
    BY DEF Claims!Exclusive
  <2> QED BY <2>1, <2>2, <2>3, <2>4 DEF Claims!Exclusive
<1> QED BY <1>1, <1>2 DEF Claims!Next

\* Hence no unit-night is ever claimed twice, by two stays, two blocks or one of each.
THEOREM StandingClaimsExclusive == Spec => []Claims!Exclusive
<1>1. Claims!Init => Claims!Exclusive
  BY DEF Claims!Init, Claims!Exclusive
<1>2. Claims!Exclusive /\ [Claims!Next]_Standing => Claims!Exclusive'
  BY ExclusiveStep
<1> QED BY <1>1, <1>2, Implementation, PTL DEF ImplementsClaims, Claims!Spec
=============================================================================
