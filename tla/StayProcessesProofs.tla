------------------------- MODULE StayProcessesProofs -------------------------
(***************************************************************************)
(* Proofs about the two kinds of process that work on the tables of        *)
(* StayUnits, each under a specification of its own.                       *)
(*                                                                         *)
(* The sessions of StayTx: no set of them waits for itself, and the locks  *)
(* make every transaction look to the others like one step of UnitClaims,  *)
(* for any number of sessions and calls.                                   *)
(*                                                                         *)
(* The requests of StayDesk: however many are in flight, whatever fails    *)
(* and whoever else writes the bids, CHECKED_IN is evidenced and check-out *)
(* evidence is minted over check-in evidence.                              *)
(***************************************************************************)
EXTENDS StayTx, StayDesk, StayUnitsProofs

-----------------------------------------------------------------------------
(* Sessions. *)

\* The nights for which a call claims its units.
NightsOf(call) == IF call.kind = "block" THEN call.new.nights ELSE StayOf[call.row]

\* What a session knows while it works: its call was admitted and still would be, it
\* locks the units its call involves in the order of their ids, and the units it has
\* checked are locked and free.
Informed(call, todo, locked, unchecked) ==
  /\ Admitted(call)
  /\ todo \cup locked = Involved(call)
  /\ \A u \in locked, v \in todo : Rank[u] < Rank[v]
  /\ unchecked \subseteq ToCheck(call)
  /\ \A u \in ToCheck(call) \ unchecked : u \in locked /\ Free(u, call.row, NightsOf(call))

AtWork(t) == tx[t].phase = "work"

AllInformed ==
  \A t \in Txs : AtWork(t) =>
    Informed(tx[t].call, tx[t].todo, tx[t].locked, tx[t].unchecked)

NothingLockedYet == \A t \in Txs : tx[t].phase = "row" => tx[t].locked = {}

\* No two sessions have a row, or a unit, in common.
Apart ==
  \A s, t \in Txs : s # t /\ AtWork(s) /\ AtWork(t) =>
    /\ tx[s].call.row # tx[t].call.row
    /\ tx[s].locked \cap tx[t].locked = {}

SessionsTyped == tx \in [Txs -> Running \cup {Idle}]
Tables        == TypeOK /\ LinesDisjoint /\ LapsedWhenNotOccupying

TxInv == SessionsTyped /\ Tables /\ AllInformed /\ NothingLockedYet /\ Apart

-----------------------------------------------------------------------------
(* The calls. *)

BidKinds == {"insert", "status", "column"}

\* The fields of a call.
LEMMA CallFields ==
  ASSUME NEW call \in Calls
  PROVE  /\ call.kind \in {"assign", "release", "block"} \cup BidKinds
         /\ call.kind # "block" => call.row \in Bids
         /\ call.kind = "block" => call.row \in Blocks /\ call.new \in BlockRow
         /\ call.kind = "assign" => call.target \in SUBSET Units
         /\ call.kind = "insert" => call.new \in BidRow
         /\ call.kind = "status" => call.status \in Statuses
         /\ call.kind = "column" => call.unit \in UnitColumn
<1>1. call \in Call  BY StayTxAssumption
<1> QED BY <1>1 DEF Call, BidKinds

\* The row a call on bids leaves behind is a row of bids.
LEMMA NewBidType ==
  ASSUME TypeOK, NEW call \in Calls, call.kind \in BidKinds
  PROVE  NewBid(call) \in BidRow
<1>1. call.row \in Bids /\ bids[call.row] \in BidRow
  BY CallFields DEF BidKinds, TypeOK
<1>2. CASE call.kind = "insert"
  BY <1>2, CallFields DEF NewBid
<1>3. CASE call.kind = "status"
  <2>1. call.status \in Statuses  BY <1>3, CallFields
  <2> QED BY <1>1, <1>3, <2>1 DEF NewBid, BidRow
<1>4. CASE call.kind = "column"
  <2>1. call.unit \in UnitColumn  BY <1>4, CallFields
  <2> QED BY <1>1, <1>4, <2>1 DEF NewBid, BidRow
<1> QED BY <1>2, <1>3, <1>4 DEF BidKinds

\* The lines of a bid are on units.
LEMMA UnitsOfType ==
  ASSUME TypeOK, NEW b
  PROVE  UnitsOf(b) \subseteq Units
BY DEF TypeOK, UnitsOf, LinesOf, Line

\* A call involves units, and checks some of those it involves.
LEMMA InvolvedUnits ==
  ASSUME TypeOK, NEW call \in Calls
  PROVE  Involved(call) \subseteq Units /\ ToCheck(call) \subseteq Involved(call)
<1>1. CASE call.kind = "assign"
  BY <1>1, CallFields, UnitsOfType DEF Involved, ToCheck
<1>2. CASE call.kind = "release"
  BY <1>2, UnitsOfType DEF Involved, ToCheck
<1>3. CASE call.kind = "block"
  <2>1. call.new.unit \in UnitColumn  BY <1>3, CallFields DEF BlockRow
  <2> QED BY <1>3, <2>1 DEF Involved, ToCheck, UnitColumn
<1>4. CASE call.kind \in BidKinds
  <2>1. NewBid(call).unit \in UnitColumn  BY <1>4, NewBidType DEF BidRow
  <2> QED BY <1>4, <2>1 DEF Involved, ToCheck, UnitColumn, BidKinds
<1> QED BY <1>1, <1>2, <1>3, <1>4, CallFields

\* A vacant unit is free for the call's row and nights.
LEMMA VacantIsFree ==
  ASSUME Tables, NEW call \in Calls, NEW u \in ToCheck(call), Vacant(u, call)
  PROVE  Free(u, call.row, NightsOf(call))
<1>1. u \in Units  BY InvolvedUnits DEF Tables
<1>2. TypeOK /\ LapsedWhenNotOccupying  BY DEF Tables
<1>3. CASE call.kind = "block"
  <2>1. ConflictFree(u, call.new.nights, NULL, call.row)
    BY <1>3 DEF Vacant
  <2>2. call.row \in Blocks  BY <1>3, CallFields
  <2> QED BY <1>1, <1>2, <1>3, <2>1, <2>2, ConflictFreeIsFree DEF NightsOf
<1>4. CASE call.kind # "block"
  <2>1. \E room : Claimable(u, room, call.row)
    BY <1>4 DEF Vacant
  <2>2. call.row \in Bids  BY <1>4, CallFields
  <2> QED BY <1>1, <1>2, <1>4, <2>1, <2>2, ClaimableIsFree DEF NightsOf
<1> QED BY <1>3, <1>4

-----------------------------------------------------------------------------
(* The writes of a call. *)

\* Admission and involvement of a call rest on its own row and that row's lines.
RowStays(call) ==
  /\ call.kind # "block" => bids'[call.row] = bids[call.row]
                            /\ LinesOf(call.row)' = LinesOf(call.row)
  /\ call.kind = "block" => blocks'[call.row] = blocks[call.row]

LEMMA CallStays ==
  ASSUME NEW call \in Calls, RowStays(call)
  PROVE  /\ Admitted(call)' <=> Admitted(call)
         /\ Involved(call)' = Involved(call)
         /\ ToCheck(call)' = ToCheck(call)
<1>1. call.kind # "block" => UnitsOf(call.row)' = UnitsOf(call.row)
  BY DEF RowStays, UnitsOf
<1>2. call.kind \in BidKinds => NewBid(call)' = NewBid(call)
  BY DEF RowStays, NewBid, BidKinds
<1>3. Admitted(call)' <=> Admitted(call)
  BY CallFields DEF RowStays, Admitted, BidKinds
<1>4. Involved(call)' = Involved(call)
  BY <1>1, <1>2, CallFields DEF RowStays, Involved, BidKinds
<1>5. ToCheck(call)' = ToCheck(call)
  BY <1>1, <1>4, CallFields DEF ToCheck, BidKinds
<1> QED BY <1>3, <1>4, <1>5

\* The writes of a call are the writes of one transaction of StayUnits; the units it
\* takes are among those it checked.
LEMMA WriteKinds ==
  ASSUME TypeOK, NEW call \in Calls, Write(call)
  PROVE  \/ call.kind = "assign" /\ ReplaceLines(call.row, call.target)
         \/ call.kind = "release" /\ ReleaseUnits(call.row)
         \/ /\ call.kind \in BidKinds
            /\ BidWrites(call.row, NewBid(call))
         \/ /\ call.kind = "block"
            /\ blocks' = [blocks EXCEPT ![call.row] = call.new]
            /\ UNCHANGED <<bids, lines, mirror, activeUnits>>
<1>1. CASE call.kind \in BidKinds
  <2> DEFINE b == call.row  new == NewBid(call)
  <2>1. ASSUME Involved(call) \ UnitsOf(b) # {}
        PROVE  new.status \in Occupying /\ new.unit \in Units \ UnitsOf(b)
    <3>1. Involved(call) = IF new.status \in Occupying THEN {new.unit} \ {NULL} ELSE {}
      BY <1>1 DEF Involved, BidKinds
    <3>2. new.unit \in UnitColumn  BY <1>1, NewBidType DEF BidRow
    <3> QED BY <2>1, <3>1, <3>2 DEF UnitColumn
  <2> QED BY <1>1, <2>1 DEF Write, BidKinds, BidWrites, SyncWrites, SyncAdd
<1> QED BY <1>1, CallFields DEF Write, BidKinds

\* A call leaves every other row alone.
LEMMA WriteElsewhere ==
  ASSUME TypeOK, NEW call \in Calls, Write(call), NEW other \in Calls, other.row # call.row
  PROVE  RowStays(other)
<1>1. CASE call.kind \in {"assign", "release"} \cup BidKinds
  <2>1. call.row \in Bids /\ call.kind # "block"
    BY <1>1, CallFields DEF BidKinds
  <2>2. blocks' = blocks
    BY <1>1, <2>1, WriteKinds DEF ReplaceLines, ReleaseUnits, BidWrites
  <2>3. ASSUME NEW c \in Bids, c # call.row
        PROVE  bids'[c] = bids[c] /\ LinesOf(c)' = LinesOf(c)
    <3>1. CASE ReplaceLines(call.row, call.target) /\ call.kind = "assign"
      BY <2>1, <2>3, <3>1, ReplaceElsewhere, CallFields
    <3>2. CASE ReleaseUnits(call.row)
      BY <2>1, <2>3, <3>2 DEF ReleaseUnits, LinesOf, TypeOK
    <3>3. CASE BidWrites(call.row, NewBid(call)) /\ call.kind \in BidKinds
      BY <2>1, <2>3, <3>3, BidWritesElsewhere, NewBidType
    <3> QED BY <2>1, <3>1, <3>2, <3>3, WriteKinds
  <2> QED BY <2>2, <2>3, CallFields DEF RowStays
<1>2. CASE call.kind = "block"
  <2>1. /\ blocks' = [blocks EXCEPT ![call.row] = call.new]
        /\ UNCHANGED <<bids, lines>>
    BY <1>2, WriteKinds DEF BidKinds
  <2>2. blocks'[other.row] = blocks[other.row] \/ other.row \notin Blocks
    BY <2>1 DEF TypeOK
  <2> QED BY <2>1, <2>2, CallFields DEF RowStays, LinesOf
<1> QED BY <1>1, <1>2, CallFields

\* The tables stay as they should be.
LEMMA WriteTables ==
  ASSUME Tables, NEW call \in Calls, Admitted(call), Write(call)
  PROVE  Tables'
<1>0. TypeOK /\ LinesDisjoint /\ LapsedWhenNotOccupying
  BY DEF Tables
<1>1. CASE call.kind = "assign" /\ ReplaceLines(call.row, call.target)
  <2>1. call.row \in Bids /\ call.target \in SUBSET Units
    BY <1>1, CallFields
  <2>2. TypeOK'  BY <1>0, <1>1, <2>1, ReplaceTypes
  <2>3. LinesDisjoint'  BY <1>0, <1>1, <2>1, ReplaceDisjoint
  <2>4. \A c \in Bids : bids'[c].status = bids[c].status
    BY <1>0, <1>1 DEF ReplaceLines, TypeOK, BidRow
  <2>5. bids[call.row].status \in Occupying
    BY <1>1 DEF Admitted
  <2>6. \A l \in lines' : l \in lines \/ l.bid = call.row
    BY <1>1, <2>1, ReplaceGrants
  <2>7. \A l \in lines' : l.bid \in Bids
    BY <2>2 DEF TypeOK, Line
  <2>8. LapsedWhenNotOccupying'
    BY <1>0, <2>4, <2>5, <2>6, <2>7 DEF LapsedWhenNotOccupying
  <2> QED BY <2>2, <2>3, <2>8 DEF Tables
<1>2. CASE ReleaseUnits(call.row) /\ call.kind = "release"
  <2>1. TypeOK'
    BY <1>0, <1>2, ZenonT(60) DEF ReleaseUnits, TypeOK, BidRow, UnitColumn
  <2>2. lines' \subseteq lines /\ \A c \in Bids : bids'[c].status = bids[c].status
    BY <1>0, <1>2 DEF ReleaseUnits, TypeOK, BidRow
  <2>3. \A l \in lines : l.bid \in Bids
    BY <1>0 DEF TypeOK, Line
  <2> QED BY <1>0, <2>1, <2>2, <2>3 DEF Tables, LinesDisjoint, LapsedWhenNotOccupying
<1>3. CASE call.kind \in BidKinds /\ BidWrites(call.row, NewBid(call))
  <2> DEFINE b == call.row  new == NewBid(call)
  <2>1. b \in Bids /\ new \in BidRow
    BY <1>0, <1>3, CallFields, NewBidType DEF BidKinds
  <2>2. TypeOK'  BY <1>0, <1>3, <2>1, BidTypes
  <2>3. LinesDisjoint'  BY <1>0, <1>3, <2>1, WriteBidDisjoint
  <2>4. \A c \in Bids : bids'[c] = IF c = b THEN new ELSE bids[c]
    BY <1>0, <1>3 DEF BidWrites, TypeOK
  <2>5. \A l : l.bid # b => (l \in lines <=> l \in lines')
    BY <1>0, <1>3, <2>1, BidGrants
  <2>6. ASSUME NEW l \in lines', l.bid = b, new.status \notin Occupying
        PROVE  l.lapsed
    <3>1. CASE SyncExit(b, new)
      BY <2>6, <3>1 DEF SyncExit, LinesOf
    <3>2. CASE SyncOpen(b, new)
      <4>1. \A m \in LinesOf(b) : [m EXCEPT !.lapsed = TRUE].lapsed = TRUE
        BY <1>0 DEF LinesOf, TypeOK, Line
      <4> QED BY <2>6, <3>2, <4>1 DEF SyncOpen, LinesOf
    <3> QED BY <1>3, <2>6, <3>1, <3>2
            DEF BidWrites, SyncWrites, SyncCleared, SyncHeld, SyncAdd
  <2>7. \A l \in lines' : l.bid \in Bids
    BY <2>2 DEF TypeOK, Line
  <2>8. LapsedWhenNotOccupying'
    BY <1>0, <2>4, <2>5, <2>6, <2>7 DEF LapsedWhenNotOccupying
  <2> QED BY <2>2, <2>3, <2>8 DEF Tables
<1>4. CASE call.kind = "block" /\ blocks' = [blocks EXCEPT ![call.row] = call.new]
           /\ UNCHANGED <<bids, lines, mirror, activeUnits>>
  <2>1. TypeOK'
    BY <1>0, <1>4, CallFields DEF TypeOK
  <2> QED BY <1>0, <1>4, <2>1 DEF Tables, LinesDisjoint, LapsedWhenNotOccupying
<1> QED BY <1>0, <1>1, <1>2, <1>3, <1>4, WriteKinds

\* A call adds lines to its own stay, for its dates, on units it has checked.
LEMMA LinesAdded ==
  ASSUME TypeOK, NEW call \in Calls, Write(call), NEW l \in lines' \ lines, ~l.lapsed
  PROVE  /\ call.kind # "block"
         /\ l.bid = call.row /\ l.nights = StayOf[call.row]
         /\ l.unit \in ToCheck(call)
<1>1. CASE call.kind = "assign" /\ ReplaceLines(call.row, call.target)
  BY <1>1, ReplaceGrants, CallFields DEF ToCheck
<1>2. CASE ReleaseUnits(call.row)
  BY <1>2 DEF ReleaseUnits
<1>3. CASE call.kind \in BidKinds /\ BidWrites(call.row, NewBid(call))
  <2>1. /\ l.bid = call.row /\ l.nights = StayOf[call.row]
        /\ l.unit = NewBid(call).unit /\ NewBid(call).status \in Occupying
        /\ NewBid(call).unit \in Units \ UnitsOf(call.row)
    BY <1>3, BidGrants, NewBidType, CallFields DEF BidKinds
  <2> QED BY <1>3, <2>1, StayUnitsAssumption DEF ToCheck, Involved, BidKinds
<1> QED BY <1>1, <1>2, <1>3, WriteKinds

\* A line on a unit the stay did not hold has not lapsed.
LEMMA FreshStands ==
  ASSUME TypeOK, NEW call \in Calls, Write(call), NEW l \in lines',
         \A m \in lines : m.bid # l.bid \/ m.unit # l.unit
  PROVE  ~l.lapsed
<1>0. l \notin lines
  OBVIOUS
<1>1. \A b, u, s : ~NewLine(b, u, s).lapsed
  BY DEF NewLine
<1>2. CASE ReplaceLines(call.row, call.target)
  <2>1. l \in lines \/ \E u, s : l = NewLine(call.row, u, s)
    BY <1>2 DEF ReplaceLines, Kept, IsPrimary, LinesOf
  <2> QED BY <1>0, <1>1, <2>1
<1>3. CASE ReleaseUnits(call.row)
  BY <1>0, <1>3 DEF ReleaseUnits
<1>4. CASE BidWrites(call.row, NewBid(call))
  <2> DEFINE b == call.row  new == NewBid(call)
  <2>1. CASE SyncExit(b, new) \/ SyncCleared(b, bids[b], new) \/ SyncHeld(b, new)
    BY <1>0, <2>1 DEF SyncExit, SyncCleared, SyncHeld
  <2>2. CASE SyncOpen(b, new)
    <3>1. PICK m \in LinesOf(b) : l = [m EXCEPT !.lapsed = TRUE]
      BY <1>0, <2>2 DEF SyncOpen
    <3>2. m \in lines /\ l.bid = m.bid /\ l.unit = m.unit
      BY <3>1 DEF LinesOf, TypeOK, Line
    <3> QED BY <3>2
  <2>3. CASE SyncAdd(b, bids[b], new)
    <3>1. \E s : l = NewLine(b, new.unit, s)
      BY <1>0, <2>3 DEF SyncAdd, AddLine
    <3> QED BY <1>1, <3>1
  <2> QED BY <1>4, <2>1, <2>2, <2>3 DEF BidWrites, SyncWrites
<1> QED BY <1>0, <1>2, <1>3, <1>4, WriteKinds

\* What a call newly claims is a unit it has checked.
LEMMA WriteGrants ==
  ASSUME TypeOK, NEW call \in Calls, Write(call), NEW d \in Standing' \ Standing
  PROVE  d.unit \in ToCheck(call)
<1>1. ASSUME call.kind # "block", NEW l \in lines' \ lines, Stands(l)
      PROVE  l.unit \in ToCheck(call)
  BY <1>1, LinesAdded DEF Stands
<1>2. CASE call.kind # "block"
  <2>1. blocks' = blocks
    BY <1>2, WriteKinds DEF ReplaceLines, ReleaseUnits, BidWrites
  <2>2. \A k \in Blocks : BlockClaim(k)' = BlockClaim(k) /\ (Pinned(k)' <=> Pinned(k))
    BY <2>1 DEF BlockClaim, Pinned
  <2>3. d \in {LineClaim(l) : l \in {l \in lines : Stands(l)}}'
    BY <2>2 DEF Standing
  <2>4. PICK l \in lines' : Stands(l) /\ d = LineClaim(l)
    BY <2>3
  <2>5. l \notin lines
    BY <2>4 DEF Standing
  <2> QED BY <1>1, <1>2, <2>4, <2>5, ClaimFields
<1>3. CASE call.kind = "block"
  <2>1. /\ blocks' = [blocks EXCEPT ![call.row] = call.new]
        /\ UNCHANGED <<bids, lines>>
    BY <1>3, WriteKinds DEF BidKinds
  <2>2. call.row \in Blocks /\ call.new \in BlockRow
    BY <1>3, CallFields
  <2>3. d \in {BlockClaim(k) : k \in {k \in Blocks : Pinned(k)}}'
    BY <2>1 DEF Standing
  <2>4. PICK k \in Blocks : Pinned(k)' /\ d = BlockClaim(k)'
    BY <2>3
  <2>5. blocks'[k] = IF k = call.row THEN call.new ELSE blocks[k]
    BY <2>1 DEF TypeOK
  <2>6. blocks'[k] # blocks[k]
    <3>1. SUFFICES ASSUME blocks'[k] = blocks[k] PROVE FALSE
      OBVIOUS
    <3>2. Pinned(k) /\ d = BlockClaim(k)
      BY <2>4, <3>1 DEF Pinned, BlockClaim
    <3> QED BY <3>2 DEF Standing
  <2>7. k = call.row /\ call.new # blocks[k]
    BY <2>5, <2>6
  <2>8. ~(call.new.unit = blocks[k].unit /\ call.new.nights = blocks[k].nights)
    <3>1. SUFFICES ASSUME call.new.unit = blocks[k].unit, call.new.nights = blocks[k].nights
                   PROVE  FALSE
      OBVIOUS
    <3>2. Pinned(k) /\ d = BlockClaim(k)
      BY <2>4, <2>5, <2>7, <3>1 DEF Pinned, BlockClaim
    <3> QED BY <3>2 DEF Standing
  <2>9. d.unit = call.new.unit /\ call.new.unit # NULL
    BY <2>4, <2>5, <2>7 DEF BlockClaim, Pinned
  <2> QED BY <1>3, <2>7, <2>8, <2>9 DEF ToCheck, Involved
<1> QED BY <1>2, <1>3

\* Given that its units are free, a call is a step of the claims.
LEMMA WriteClaims ==
  ASSUME Tables, NEW call \in Calls, Admitted(call), Write(call),
         \A u \in ToCheck(call) : Free(u, call.row, NightsOf(call))
  PROVE  Claims!Next
<1>0. TypeOK /\ TypeOK' /\ LinesDisjoint'
  BY WriteTables DEF Tables
<1>1. CASE call.kind = "assign" /\ ReplaceLines(call.row, call.target)
  <2>1. call.row \in Bids /\ call.target \in SUBSET Units
    BY <1>1, CallFields
  <2>2. \A u \in call.target : Free(u, call.row, StayOf[call.row])
    BY <1>1 DEF ToCheck, NightsOf
  <2> QED BY <1>0, <1>1, <2>1, <2>2, ReplaceClaims
<1>2. CASE ReleaseUnits(call.row) /\ call.kind = "release"
  BY <1>0, <1>2, CallFields, ReleaseClaims
<1>3. CASE call.kind \in BidKinds /\ BidWrites(call.row, NewBid(call))
  <2> DEFINE b == call.row  new == NewBid(call)
  <2>1. b \in Bids /\ new \in BidRow
    BY <1>0, <1>3, CallFields, NewBidType DEF BidKinds
  <2>2. ASSUME new.status \in Occupying, new.unit \in Units \ UnitsOf(b)
        PROVE  Free(new.unit, b, StayOf[b])
    <3>1. new.unit \in ToCheck(call)
      BY <1>3, <2>2, StayUnitsAssumption DEF ToCheck, Involved, BidKinds
    <3>2. NightsOf(call) = StayOf[b]
      BY <1>3 DEF NightsOf, BidKinds
    <3> QED BY <3>1, <3>2
  <2> QED BY <1>0, <1>3, <2>1, <2>2, BidClaims
<1>4. CASE call.kind = "block" /\ blocks' = [blocks EXCEPT ![call.row] = call.new]
           /\ UNCHANGED <<bids, lines, mirror, activeUnits>>
  <2> DEFINE k == call.row  new == call.new
  <2>1. k \in Blocks /\ new \in BlockRow
    BY <1>4, CallFields
  <2>2. \/ new.unit = NULL
        \/ new.unit = blocks[k].unit /\ new.nights = blocks[k].nights
        \/ Free(new.unit, k, new.nights)
    <3>1. NightsOf(call) = new.nights
      BY <1>4 DEF NightsOf
    <3> QED BY <1>4, <3>1 DEF ToCheck, Involved
  <2> QED BY <1>0, <1>4, <2>1, <2>2, BlockClaims
<1> QED BY <1>0, <1>1, <1>2, <1>3, <1>4, WriteKinds

-----------------------------------------------------------------------------
(* The sessions. *)

\* A session that is not idle has a call and sets of units.
LEMMA SessionFields ==
  ASSUME SessionsTyped, NEW t \in Txs, tx[t].phase # "idle"
  PROVE  /\ tx[t] \in Running
         /\ tx[t].phase \in {"row", "work"}
         /\ tx[t].call \in Calls
         /\ tx[t].todo \in SUBSET Units
         /\ tx[t].locked \in SUBSET Units
         /\ tx[t].unchecked \in SUBSET Units
BY DEF SessionsTyped, Idle, Running

\* What a session knows stays true while its row stays and nobody else comes to
\* claim a unit it has locked.
LEMMA StaysInformed ==
  ASSUME NEW call \in Calls, NEW todo, NEW locked, NEW unchecked,
         Informed(call, todo, locked, unchecked), RowStays(call),
         \A d \in Standing' \ Standing : d.unit \notin locked
  PROVE  Informed(call, todo, locked, unchecked)'
<1>1. /\ Admitted(call)'
      /\ Involved(call)' = Involved(call)
      /\ ToCheck(call)' = ToCheck(call)
  BY CallStays DEF Informed
<1>2. ASSUME NEW u \in ToCheck(call) \ unchecked
      PROVE  u \in locked /\ Free(u, call.row, NightsOf(call))'
  BY DEF Informed, Free, NightsOf
<1> QED BY <1>1, <1>2 DEF Informed

\* A step of session t that writes no table keeps the invariant, if t itself does.
LEMMA QuietStep ==
  ASSUME TxInv, UNCHANGED vars, NEW t \in Txs, SessionsTyped',
         \A s \in Txs \ {t} : tx'[s] = tx[s],
         AtWork(t)' => /\ Informed(tx'[t].call, tx'[t].todo, tx'[t].locked, tx'[t].unchecked)
                       /\ \A s \in Txs \ {t} : AtWork(s) =>
                            /\ tx[s].call.row # tx'[t].call.row
                            /\ tx[s].locked \cap tx'[t].locked = {},
         tx'[t].phase = "row" => tx'[t].locked = {}
  PROVE  TxInv'
<1>1. Tables'
  BY DEF TxInv, Tables, vars, TypeOK, LinesDisjoint, LapsedWhenNotOccupying
<1>2. Standing' = Standing /\ \A call : RowStays(call)
  BY DEF vars, Standing, BlockClaim, Pinned, RowStays, LinesOf
<1>3. ASSUME NEW s \in Txs, AtWork(s)'
      PROVE  Informed(tx[s].call, tx[s].todo, tx[s].locked, tx[s].unchecked)'
  <2> DEFINE call == tx'[s].call  todo == tx'[s].todo
             locked == tx'[s].locked  unchecked == tx'[s].unchecked
  <2>1. call \in Calls
    BY <1>3 DEF SessionsTyped, Idle, Running, AtWork
  <2>2. Informed(call, todo, locked, unchecked)
    BY <1>3 DEF TxInv, AllInformed, AtWork
  <2> HIDE DEF call, todo, locked, unchecked
  <2>3. ASSUME NEW c \in Calls, NEW x, NEW y, NEW z, Informed(c, x, y, z)
        PROVE  Informed(c, x, y, z)'
    BY <1>2, <2>3, StaysInformed
  <2>4. Informed(call, todo, locked, unchecked) =>
          Informed(tx[s].call, tx[s].todo, tx[s].locked, tx[s].unchecked)'
    BY <1>2, <2>1, CallStays DEF Informed, Free, NightsOf, call, todo, locked, unchecked
  <2> QED BY <2>2, <2>4
<1>4. AllInformed'
  BY <1>3 DEF AllInformed, AtWork
<1>5. NothingLockedYet'
  BY DEF TxInv, NothingLockedYet
<1>6. Apart'
  BY DEF TxInv, Apart, AtWork
<1> QED BY <1>1, <1>4, <1>5, <1>6 DEF TxInv

\* The first lock of a session is its row.
LEMMA LockRowInv ==
  ASSUME TxInv, NEW t \in Txs, LockRow(t)
  PROVE  TxInv'
<1> DEFINE call == tx[t].call
<1>1. tx[t].phase = "row" /\ tx[t] \in Running /\ call \in Calls /\ tx[t].locked = {}
  BY SessionFields DEF LockRow, TxInv, NothingLockedYet
<1>2. TypeOK /\ SessionsTyped /\ UNCHANGED vars /\ \A s \in Txs : ~RowHeldBy(s, call.row)
  BY DEF LockRow, TxInv, Tables
<1>3. CASE End(t)
  <2>1. \A s \in Txs : tx'[s] = IF s = t THEN Idle ELSE tx[s]
    BY <1>2, <1>3 DEF End, SessionsTyped
  <2>2. SessionsTyped'
    BY <1>2, <1>3 DEF End, SessionsTyped
  <2> QED BY <1>2, <2>1, <2>2, QuietStep DEF AtWork, Idle
<1>4. CASE /\ Admitted(call)
           /\ tx' = [tx EXCEPT ![t].phase = "work", ![t].todo = Involved(call),
                               ![t].unchecked = ToCheck(call)]
  <2>1. Involved(call) \subseteq Units /\ ToCheck(call) \subseteq Involved(call)
    BY <1>1, <1>2, InvolvedUnits
  <2>2. /\ tx'[t].phase = "work" /\ tx'[t].call = call /\ tx'[t].todo = Involved(call)
        /\ tx'[t].locked = {} /\ tx'[t].unchecked = ToCheck(call)
        /\ \A s \in Txs \ {t} : tx'[s] = tx[s]
    BY <1>1, <1>2, <1>4 DEF SessionsTyped, Running
  <2>3. SessionsTyped'
    BY <1>1, <1>2, <1>4, <2>1 DEF SessionsTyped, Running
  <2>4. Informed(call, Involved(call), {}, ToCheck(call))
    BY <1>4 DEF Informed
  <2>5. ASSUME NEW s \in Txs \ {t}, AtWork(s)
        PROVE  tx[s].call.row # call.row
    BY <1>2, <2>5 DEF RowHeldBy, AtWork
  <2> QED BY <1>2, <2>2, <2>3, <2>4, <2>5, QuietStep, ZenonT(60)
<1> QED BY <1>3, <1>4 DEF LockRow

\* Then come its units, in the order of their ids.
LEMMA LockUnitInv ==
  ASSUME TxInv, NEW t \in Txs, LockUnit(t)
  PROVE  TxInv'
<1> DEFINE call == tx[t].call
<1>1. PICK u \in NextUnits(t) :
        /\ \A s \in Txs \ {t} : LockKey[u] \notin KeysOf(s)
        /\ tx' = [tx EXCEPT ![t].todo = @ \ {u}, ![t].locked = @ \cup {u}]
  BY DEF LockUnit
<1>2. SessionsTyped /\ UNCHANGED vars /\ AtWork(t)
  BY DEF LockUnit, TxInv, AtWork
<1>3. tx[t] \in Running /\ tx[t].todo \subseteq Units /\ tx[t].locked \subseteq Units
  BY <1>2, SessionFields DEF AtWork
<1>4. u \in tx[t].todo /\ \A v \in tx[t].todo : Rank[u] <= Rank[v]
  BY DEF NextUnits
<1>5. /\ tx'[t].phase = "work" /\ tx'[t].call = call /\ tx'[t].todo = tx[t].todo \ {u}
      /\ tx'[t].locked = tx[t].locked \cup {u} /\ tx'[t].unchecked = tx[t].unchecked
      /\ \A s \in Txs \ {t} : tx'[s] = tx[s]
  BY <1>1, <1>2, <1>3 DEF SessionsTyped, Running, AtWork
<1>6. SessionsTyped'
  BY <1>1, <1>2, <1>3, <1>4, ZenonT(60) DEF SessionsTyped, Running
<1>7. Informed(call, tx[t].todo, tx[t].locked, tx[t].unchecked)
  BY <1>2 DEF TxInv, AllInformed
<1>8. ASSUME NEW v \in tx[t].locked \cup {u}, NEW w \in tx[t].todo \ {u}
      PROVE  Rank[v] < Rank[w]
  <2>1. CASE v \in tx[t].locked
    BY <1>7, <1>8, <2>1 DEF Informed
  <2>2. CASE v = u
    <3>1. Rank[u] \in Nat /\ Rank[w] \in Nat /\ Rank[u] # Rank[w]
      BY <1>3, <1>4, <1>8, StayTxAssumption
    <3> QED BY <1>4, <1>8, <2>2, <3>1
  <2> QED BY <1>8, <2>1, <2>2
<1>9. Informed(call, tx[t].todo \ {u}, tx[t].locked \cup {u}, tx[t].unchecked)
  BY <1>4, <1>7, <1>8 DEF Informed
<1>10. ASSUME NEW s \in Txs \ {t}, AtWork(s)
       PROVE  /\ tx[s].call.row # call.row
              /\ tx[s].locked \cap (tx[t].locked \cup {u}) = {}
  <2>1. u \notin tx[s].locked
    BY <1>1, <1>10 DEF KeysOf, AtWork
  <2> QED BY <1>2, <1>10, <2>1 DEF TxInv, Apart
<1> QED BY <1>2, <1>5, <1>6, <1>9, <1>10, QuietStep, ZenonT(60)

\* With all its locks, it checks the units one by one.
LEMMA CheckInv ==
  ASSUME TxInv, NEW t \in Txs, Check(t)
  PROVE  TxInv'
<1> DEFINE call == tx[t].call
<1>1. SessionsTyped /\ Tables /\ UNCHANGED vars /\ AtWork(t) /\ tx[t].todo = {}
  BY DEF Check, Locked, TxInv, AtWork
<1>2. tx[t] \in Running /\ call \in Calls
  BY <1>1, SessionFields DEF AtWork
<1>3. CASE End(t)
  <2>1. \A s \in Txs : tx'[s] = IF s = t THEN Idle ELSE tx[s]
    BY <1>1, <1>3 DEF End, SessionsTyped
  <2>2. SessionsTyped'
    BY <1>1, <1>3 DEF End, SessionsTyped
  <2> QED BY <1>1, <2>1, <2>2, QuietStep DEF AtWork, Idle
<1>4. ASSUME NEW u \in tx[t].unchecked, Vacant(u, call),
             tx' = [tx EXCEPT ![t].unchecked = @ \ {u}]
      PROVE  TxInv'
  <2>1. /\ tx'[t].phase = "work" /\ tx'[t].call = call /\ tx'[t].todo = tx[t].todo
        /\ tx'[t].locked = tx[t].locked /\ tx'[t].unchecked = tx[t].unchecked \ {u}
        /\ \A s \in Txs \ {t} : tx'[s] = tx[s]
    BY <1>1, <1>2, <1>4 DEF SessionsTyped, Running, AtWork
  <2>2. SessionsTyped'
    BY <1>1, <1>2, <1>4 DEF SessionsTyped, Running
  <2>3. Informed(call, tx[t].todo, tx[t].locked, tx[t].unchecked)
    BY <1>1 DEF TxInv, AllInformed
  <2>4. u \in ToCheck(call) /\ Free(u, call.row, NightsOf(call))
    BY <1>1, <1>2, <1>4, <2>3, VacantIsFree DEF Informed
  <2>5. u \in tx[t].locked
    BY <1>1, <1>2, <2>3, <2>4, InvolvedUnits DEF Informed, Tables
  <2>6. Informed(call, tx[t].todo, tx[t].locked, tx[t].unchecked \ {u})
    BY <2>3, <2>4, <2>5 DEF Informed
  <2>7. \A s \in Txs \ {t} : AtWork(s) => tx[s].call.row # call.row
                                          /\ tx[s].locked \cap tx[t].locked = {}
    BY <1>1 DEF TxInv, Apart
  <2> QED BY <1>1, <2>1, <2>2, <2>6, <2>7, QuietStep, ZenonT(60)
<1> QED BY <1>3, <1>4 DEF Check

\* A session that commits has checked every unit it takes.
LEMMA CommitIsChecked ==
  ASSUME TxInv, NEW t \in Txs, Locked(t), tx[t].unchecked = {}
  PROVE  /\ tx[t].call \in Calls
         /\ Admitted(tx[t].call)
         /\ ToCheck(tx[t].call) \subseteq tx[t].locked
         /\ \A u \in ToCheck(tx[t].call) : Free(u, tx[t].call.row, NightsOf(tx[t].call))
<1>1. AtWork(t)  BY DEF Locked, AtWork
<1>2. tx[t].call \in Calls  BY <1>1, SessionFields DEF AtWork, TxInv
<1>3. Informed(tx[t].call, tx[t].todo, tx[t].locked, tx[t].unchecked)
  BY <1>1 DEF TxInv, AllInformed
<1> QED BY <1>2, <1>3 DEF Informed

\* It writes what concerns no other session: other rows, and units it alone has locked.
LEMMA CommitInv ==
  ASSUME TxInv, NEW t \in Txs, Commit(t)
  PROVE  TxInv'
<1> DEFINE call == tx[t].call
<1>1. SessionsTyped /\ Tables /\ TypeOK /\ AtWork(t) /\ Locked(t) /\ tx[t].unchecked = {} /\ End(t)
  BY DEF Commit, Locked, TxInv, Tables, AtWork
<1>2. \A s \in Txs : tx'[s] = IF s = t THEN Idle ELSE tx[s]
  BY <1>1 DEF End, SessionsTyped
<1>3. SessionsTyped'
  BY <1>1 DEF End, SessionsTyped
<1>4. /\ call \in Calls /\ Admitted(call)
      /\ ToCheck(call) \subseteq tx[t].locked
  BY <1>1, CommitIsChecked
<1>5. CASE UNCHANGED vars
  BY <1>1, <1>2, <1>3, <1>5, QuietStep DEF AtWork, Idle
<1>6. CASE Write(call)
  <2>1. Tables'
    BY <1>1, <1>4, <1>6, WriteTables
  <2>2. ASSUME NEW s \in Txs, AtWork(s)'
        PROVE  Informed(tx[s].call, tx[s].todo, tx[s].locked, tx[s].unchecked)'
    <3>1. s # t /\ AtWork(s) /\ tx'[s] = tx[s]
      BY <1>2, <2>2 DEF AtWork, Idle
    <3>2. PICK c \in Calls, x \in SUBSET Units, y \in SUBSET Units, z \in SUBSET Units :
            c = tx[s].call /\ x = tx[s].todo /\ y = tx[s].locked /\ z = tx[s].unchecked
      BY <1>1, <3>1, SessionFields DEF AtWork
    <3>3. Informed(c, x, y, z)
      BY <3>1, <3>2 DEF TxInv, AllInformed
    <3>4. c.row # call.row /\ y \cap tx[t].locked = {}
      BY <1>1, <3>1, <3>2 DEF TxInv, Apart
    <3>5. RowStays(c)
      BY <1>1, <1>4, <1>6, <3>2, <3>4, WriteElsewhere
    <3>6. \A d \in Standing' \ Standing : d.unit \notin y
      BY <1>1, <1>4, <1>6, <3>4, WriteGrants
    <3>7. Informed(c, x, y, z)'
      BY <3>3, <3>5, <3>6, StaysInformed
    <3>8. c = tx'[s].call /\ x = tx'[s].todo /\ y = tx'[s].locked /\ z = tx'[s].unchecked
      BY <3>1, <3>2
    <3> QED BY <3>7, <3>8, ZenonT(60)
            DEF Informed, Free, NightsOf, Admitted, Involved, ToCheck, NewBid, UnitsOf, LinesOf
  <2>3. AllInformed'
    BY <2>2 DEF AllInformed, AtWork
  <2>4. NothingLockedYet'
    BY <1>2 DEF TxInv, NothingLockedYet, Idle
  <2>5. Apart'
    BY <1>2 DEF TxInv, Apart, AtWork, Idle
  <2> QED BY <1>3, <2>1, <2>3, <2>4, <2>5 DEF TxInv
<1> QED BY <1>5, <1>6 DEF Commit

\* So does every step of every session.
LEMMA TxStep ==
  ASSUME TxInv, [TxNext]_txVars
  PROVE  TxInv'
<1>1. ASSUME NEW t \in Txs, NEW call \in Calls, Begin(t, call) PROVE TxInv'
  <2>1. /\ tx'[t].phase = "row" /\ tx'[t].locked = {}
        /\ \A s \in Txs \ {t} : tx'[s] = tx[s]
        /\ UNCHANGED vars
    BY <1>1 DEF Begin, TxInv, SessionsTyped
  <2>2. SessionsTyped'
    BY <1>1 DEF Begin, TxInv, SessionsTyped, Running
  <2> QED BY <2>1, <2>2, QuietStep DEF AtWork
<1>2. ASSUME NEW t \in Txs, Rollback(t) PROVE TxInv'
  <2>1. \A s \in Txs : tx'[s] = IF s = t THEN Idle ELSE tx[s]
    BY <1>2 DEF Rollback, End, TxInv, SessionsTyped
  <2>2. SessionsTyped' /\ UNCHANGED vars
    BY <1>2 DEF Rollback, End, TxInv, SessionsTyped
  <2> QED BY <2>1, <2>2, QuietStep DEF AtWork, Idle
<1>3. CASE UNCHANGED txVars
  <2>1. UNCHANGED <<vars, tx>>
    BY <1>3 DEF txVars
  <2>2. CASE Txs = {}
    BY <2>1, <2>2 DEF TxInv, SessionsTyped, Tables, TypeOK, LinesDisjoint, LapsedWhenNotOccupying,
                      AllInformed, NothingLockedYet, Apart, vars
  <2>3. ASSUME NEW t \in Txs PROVE TxInv'
    <3>1. SessionsTyped'
      BY <2>1 DEF TxInv, SessionsTyped
    <3> QED BY <2>1, <3>1, QuietStep DEF TxInv, AllInformed, NothingLockedYet, Apart, AtWork
  <2> QED BY <2>2, <2>3
<1> QED BY <1>1, <1>2, <1>3, LockRowInv, LockUnitInv, CheckInv, CommitInv DEF TxNext

\* Nothing is locked in the beginning.
LEMMA TxStart == TxInit => TxInv
<1> SUFFICES ASSUME TxInit PROVE TxInv
  OBVIOUS
<1>1. TypeOK
  BY DEF TxInit, Init, TypeOK, NoBid, NoBlock, BidRow, BlockRow, UnitColumn, RoomColumn
<1>2. LinesDisjoint /\ LapsedWhenNotOccupying
  BY DEF TxInit, Init, LinesDisjoint, LapsedWhenNotOccupying
<1>3. \A t \in Txs : tx[t] = Idle
  BY DEF TxInit
<1>4. SessionsTyped
  BY DEF TxInit, SessionsTyped
<1> QED BY <1>1, <1>2, <1>3, <1>4
        DEF TxInv, Tables, AllInformed, NothingLockedYet, Apart, AtWork, Idle

\* The invariant of the sessions: whoever works is informed, and they work apart.
THEOREM SessionsKeepApart == TxSpec => []TxInv
<1>1. TxInv /\ [TxNext]_txVars => TxInv'
  BY TxStep
<1> QED BY <1>1, TxStart, PTL DEF TxSpec

\* Every row, line and session stays well formed.
THEOREM TxTypeCorrect == TxSpec => []TxTypeOK
<1>1. TxInv => TxTypeOK
  BY DEF TxInv, SessionsTyped, Tables, TxTypeOK
<1> QED BY <1>1, SessionsKeepApart, PTL

-----------------------------------------------------------------------------
(* The locks make a transaction look like one step of the claims. *)

\* A commit is a step of the claims; nothing else writes.
LEMMA TxClaimsStep ==
  ASSUME TxInv, TxInv', [TxNext]_txVars
  PROVE  [Claims!Next]_Standing
<1>1. ASSUME UNCHANGED vars PROVE UNCHANGED Standing
  BY <1>1 DEF vars, Standing, Pinned, BlockClaim
<1>2. ASSUME NEW t \in Txs, Commit(t) PROVE [Claims!Next]_Standing
  <2>1. CASE UNCHANGED vars
    BY <1>1, <2>1
  <2>2. CASE Write(tx[t].call)
    <3>1. Locked(t) /\ tx[t].unchecked = {} /\ Tables
      BY <1>2 DEF Commit, TxInv
    <3> QED BY <2>2, <3>1, CommitIsChecked, WriteClaims
  <2> QED BY <1>2, <2>1, <2>2 DEF Commit
<1>3. ASSUME NEW t \in Txs,
             \/ \E call \in Calls : Begin(t, call)
             \/ LockRow(t) \/ LockUnit(t) \/ Check(t) \/ Rollback(t)
      PROVE  UNCHANGED vars
  BY <1>3 DEF Begin, LockRow, LockUnit, Check, Rollback
<1>4. CASE UNCHANGED txVars
  BY <1>1, <1>4 DEF txVars
<1> QED BY <1>1, <1>2, <1>3, <1>4 DEF TxNext

\* However the sessions interleave, what they commit grants a unit only where no other
\* stay's or block's claim stands: row locks, sorted unit locks and checks under them
\* are enough.
THEOREM TxImplementation == TxSpec => ImplementsClaims
<1>1. TxInit => Claims!Init
  BY DEF TxInit, Init, NoBlock, Pinned, Standing, Claims!Init
<1>2. TxInv /\ TxInv' /\ [TxNext]_txVars => [Claims!Next]_Standing
  BY TxClaimsStep
<1> QED BY <1>1, <1>2, SessionsKeepApart, PTL DEF TxSpec, ImplementsClaims, Claims!Spec

\* Hence a pinned block and a line share a unit-night only if the line has lapsed, and
\* two pinned blocks never do, at the grain of the locks too.
LEMMA ExclusiveMeans ==
  ASSUME TypeOK, Claims!Exclusive
  PROVE  OneOccupantUnlessLapsed /\ BlocksDisjoint
<1>1. ASSUME NEW l \in lines, NEW k \in Blocks,
             blocks[k].unit = l.unit, blocks[k].nights \cap l.nights # {}
      PROVE  l.lapsed
  <2>1. SUFFICES ASSUME ~l.lapsed PROVE FALSE
    OBVIOUS
  <2>2. l \in Line
    BY DEF TypeOK
  <2>3. Stands(l) /\ Pinned(k)
    BY <1>1, <2>1, <2>2, StayUnitsAssumption DEF Stands, Pinned, Line
  <2>4. LineClaim(l) \in Standing /\ BlockClaim(k) \in Standing
    BY <2>3 DEF Standing
  <2>5. LineClaim(l) = BlockClaim(k)
    <3>1. /\ LineClaim(l).unit = BlockClaim(k).unit
          /\ LineClaim(l).nights \cap BlockClaim(k).nights # {}
      BY <1>1, ClaimFields
    <3> QED BY <2>4, <3>1 DEF Claims!Exclusive
  <2>6. l.bid = k
    BY <2>5, ClaimFields
  <2> QED BY <2>2, <2>6, StayClaimsAssumption DEF Line
<1>2. ASSUME NEW j \in Blocks, NEW k \in Blocks, j # k,
             blocks[j].unit # NULL, blocks[j].unit = blocks[k].unit
      PROVE  blocks[j].nights \cap blocks[k].nights = {}
  <2>1. SUFFICES ASSUME blocks[j].nights \cap blocks[k].nights # {} PROVE FALSE
    OBVIOUS
  <2>2. Pinned(j) /\ Pinned(k)
    BY <1>2, <2>1 DEF Pinned
  <2>3. BlockClaim(j) \in Standing /\ BlockClaim(k) \in Standing
    BY <2>2 DEF Standing
  <2>4. BlockClaim(j) = BlockClaim(k)
    <3>1. /\ BlockClaim(j).unit = BlockClaim(k).unit
          /\ BlockClaim(j).nights \cap BlockClaim(k).nights # {}
      BY <1>2, <2>1, ClaimFields
    <3> QED BY <2>3, <3>1 DEF Claims!Exclusive
  <2> QED BY <1>2, <2>4, ClaimFields
<1> QED BY <1>1, <1>2 DEF OneOccupantUnlessLapsed, BlocksDisjoint

THEOREM TxOneOccupant ==
  TxSpec => [](LinesDisjoint /\ OneOccupantUnlessLapsed /\ BlocksDisjoint)
<1>1. Claims!Init => Claims!Exclusive
  BY DEF Claims!Init, Claims!Exclusive
<1>2. Claims!Exclusive /\ [Claims!Next]_Standing => Claims!Exclusive'
  BY ExclusiveStep
<1>3. TxInv /\ Claims!Exclusive => LinesDisjoint /\ OneOccupantUnlessLapsed /\ BlocksDisjoint
  BY ExclusiveMeans DEF TxInv, Tables
<1> QED BY <1>1, <1>2, <1>3, SessionsKeepApart, TxImplementation, PTL
        DEF ImplementsClaims, Claims!Spec

-----------------------------------------------------------------------------
(* The column and the lines of a bid. *)

\* A call keeps the column backed and gives an exited bid nothing.
LEMMA WriteBacked ==
  ASSUME Tables, ColumnBackedByLine, ExitedBidsHoldNothing,
         NEW call \in Calls, Admitted(call), Write(call)
  PROVE  ColumnBackedByLine' /\ ExitedBidsHoldNothing'
<1>0. TypeOK
  BY DEF Tables
<1>1. CASE call.kind = "assign" /\ ReplaceLines(call.row, call.target)
  <2>1. bids[call.row].status \in Occupying
    BY <1>1 DEF Admitted
  <2> QED BY <1>0, <1>1, <2>1, ReplaceBacked, CallFields
<1>2. CASE call.kind = "release" /\ ReleaseUnits(call.row)
  BY <1>0, <1>2, ReleaseBacked, CallFields
<1>3. CASE call.kind \in BidKinds /\ BidWrites(call.row, NewBid(call))
  <2>1. NewBid(call) \in BidRow /\ call.row \in Bids
    BY <1>0, <1>3, NewBidType, CallFields DEF BidKinds
  <2>2. NewBid(call).status # "NONE"
    BY <1>3 DEF BidWrites, SyncWrites, SyncExit, SyncOpen, SyncCleared, SyncHeld, SyncAdd,
                Occupying, Terminal, Open
  <2> QED BY <1>0, <1>3, <2>1, <2>2, WriteBidBacked
<1>4. CASE UNCHANGED <<bids, lines>>
  BY <1>4 DEF ColumnBackedByLine, ExitedBidsHoldNothing, UnitsOf, LinesOf
<1> QED BY <1>0, <1>1, <1>2, <1>3, <1>4, WriteKinds

\* A checked-out, cancelled, expired or rejected booking holds no unit, and an occupying
\* one has a line for the unit in its column, however the sessions interleave.
THEOREM TxExitedHoldNothing == TxSpec => [](ExitedBidsHoldNothing /\ ColumnBackedByLine)
<1> DEFINE Backed == ColumnBackedByLine /\ ExitedBidsHoldNothing
<1>1. TxInit => Backed
  BY DEF TxInit, Init, NoBid, ColumnBackedByLine, ExitedBidsHoldNothing, LinesOf
<1>2. ASSUME TxInv, Backed, [TxNext]_txVars PROVE Backed'
  <2>1. ASSUME UNCHANGED vars PROVE Backed'
    BY <1>2, <2>1 DEF vars, ColumnBackedByLine, ExitedBidsHoldNothing, UnitsOf, LinesOf
  <2>2. ASSUME NEW t \in Txs, Commit(t) PROVE Backed'
    <3>1. CASE UNCHANGED vars
      BY <2>1, <3>1
    <3>2. CASE Write(tx[t].call)
      <4>1. Locked(t) /\ tx[t].unchecked = {} /\ Tables
        BY <1>2, <2>2 DEF Commit, TxInv
      <4> QED BY <1>2, <3>2, <4>1, CommitIsChecked, WriteBacked
    <3> QED BY <2>2, <3>1, <3>2 DEF Commit
  <2>3. ASSUME NEW t \in Txs,
               \/ \E call \in Calls : Begin(t, call)
               \/ LockRow(t) \/ LockUnit(t) \/ Check(t) \/ Rollback(t)
        PROVE  UNCHANGED vars
    BY <2>3 DEF Begin, LockRow, LockUnit, Check, Rollback
  <2>4. CASE UNCHANGED txVars
    BY <2>1, <2>4 DEF txVars
  <2> QED BY <1>2, <2>1, <2>2, <2>3, <2>4 DEF TxNext
<1> QED BY <1>1, <1>2, SessionsKeepApart, PTL DEF TxSpec

-----------------------------------------------------------------------------
(* Unknown dates. *)

\* No other stay that has occupied inventory ever since holds unit u for unknown dates.
NoUndated(u, b) ==
  \A m \in lines : m.unit = u /\ m.nights = {} /\ m.bid # b => m.lapsed

\* A session that works for a dated stay has found its checked units to be so.
UndatedKnown ==
  \A t \in Txs : AtWork(t) /\ tx[t].call.kind # "block" /\ StayOf[tx[t].call.row] # {} =>
    \A u \in ToCheck(tx[t].call) \ tx[t].unchecked : NoUndated(u, tx[t].call.row)

\* The conflict count of a dated stay takes unknown dates for a conflict.
LEMMA VacantIsDated ==
  ASSUME Tables, NEW call \in Calls, call.kind # "block", StayOf[call.row] # {},
         NEW u, Vacant(u, call)
  PROVE  NoUndated(u, call.row)
<1>1. \E room : Claimable(u, room, call.row)
  BY DEF Vacant
<1>2. LineConflicts(u, StayOf[call.row], call.row) = {}
  BY <1>1 DEF Claimable, ConflictFree
<1> QED BY <1>2 DEF LineConflicts, Clashes, NoUndated, Tables, LapsedWhenNotOccupying

\* A step that writes no table learns what it has checked.
LEMMA QuietKnown ==
  ASSUME TxInv, TxInv', UndatedKnown, UNCHANGED vars, NEW t \in Txs,
         \A s \in Txs \ {t} : tx'[s] = tx[s],
         AtWork(t)' /\ tx'[t].call.kind # "block" /\ StayOf[tx'[t].call.row] # {} =>
           \A u \in ToCheck(tx'[t].call) \ tx'[t].unchecked : NoUndated(u, tx'[t].call.row)
  PROVE  UndatedKnown'
<1>1. \A call : ToCheck(call)' = ToCheck(call)
  BY DEF vars, ToCheck, Involved, NewBid, UnitsOf, LinesOf
<1>2. \A u, b : NoUndated(u, b)' = NoUndated(u, b)
  BY DEF vars, NoUndated
<1> QED BY <1>1, <1>2 DEF UndatedKnown, AtWork

\* Nobody comes to hold a unit for unknown dates that another session has locked.
LEMMA CommitKnown ==
  ASSUME TxInv, TxInv', UndatedKnown, NEW t \in Txs, Commit(t), Write(tx[t].call)
  PROVE  UndatedKnown'
<1>1. /\ SessionsTyped /\ TypeOK /\ AtWork(t) /\ Locked(t) /\ tx[t].unchecked = {} /\ End(t)
  BY DEF Commit, Locked, TxInv, Tables, AtWork
<1>2. \A s \in Txs : tx'[s] = IF s = t THEN Idle ELSE tx[s]
  BY <1>1 DEF End, SessionsTyped
<1>3. tx[t].call \in Calls /\ ToCheck(tx[t].call) \subseteq tx[t].locked
  BY <1>1, CommitIsChecked
<1>4. ASSUME NEW s \in Txs, AtWork(s)', tx'[s].call.kind # "block",
             StayOf[tx'[s].call.row] # {},
             NEW u \in ToCheck(tx[s].call)' \ tx'[s].unchecked
      PROVE  NoUndated(u, tx[s].call.row)'
  <2>1. s # t /\ AtWork(s) /\ tx'[s] = tx[s]
    BY <1>2, <1>4 DEF AtWork, Idle
  <2>2. PICK c \in Calls : c = tx[s].call
    BY <1>1, <2>1, SessionFields DEF AtWork
  <2>3. c.row # tx[t].call.row /\ tx[s].locked \cap tx[t].locked = {}
    BY <1>1, <2>1, <2>2 DEF TxInv, Apart
  <2>4. ToCheck(c)' = ToCheck(c)
    BY <1>1, <1>3, <2>2, <2>3, WriteElsewhere, CallStays
  <2>5. ToCheck(tx[s].call)' = ToCheck(c)'
    BY <2>1, <2>2 DEF ToCheck, Involved, NewBid, UnitsOf, LinesOf
  <2>6. u \in ToCheck(c) \ tx[s].unchecked
    BY <1>4, <2>1, <2>4, <2>5
  <2>7. Informed(c, tx[s].todo, tx[s].locked, tx[s].unchecked)
    BY <2>1, <2>2 DEF TxInv, AllInformed
  <2>8. u \in tx[s].locked
    BY <2>6, <2>7 DEF Informed
  <2>9. NoUndated(u, c.row)
    BY <1>4, <2>1, <2>2, <2>6 DEF UndatedKnown
  <2>10. \A m \in lines' \ lines : ~m.lapsed => m.unit # u
    BY <1>1, <1>3, <2>3, <2>8, LinesAdded
  <2>11. NoUndated(u, c.row)'
    BY <2>9, <2>10 DEF NoUndated
  <2> QED BY <2>1, <2>2, <2>11 DEF NoUndated
<1> QED BY <1>4 DEF UndatedKnown, AtWork

\* So every step of every session keeps that knowledge.
LEMMA KnownStep ==
  ASSUME TxInv, TxInv', UndatedKnown, [TxNext]_txVars
  PROVE  UndatedKnown'
<1>1. SessionsTyped /\ Tables
  BY DEF TxInv
<1>2. ASSUME NEW t \in Txs, End(t) PROVE /\ \A s \in Txs \ {t} : tx'[s] = tx[s]
                                         /\ ~AtWork(t)'
  BY <1>1, <1>2 DEF End, SessionsTyped, AtWork, Idle
<1>3. ASSUME NEW t \in Txs, NEW call \in Calls, Begin(t, call) PROVE UndatedKnown'
  <2>1. UNCHANGED vars /\ \A s \in Txs \ {t} : tx'[s] = tx[s]
    BY <1>1, <1>3 DEF Begin, SessionsTyped
  <2>2. ~AtWork(t)'
    BY <1>1, <1>3 DEF Begin, SessionsTyped, AtWork
  <2> QED BY <2>1, <2>2, QuietKnown
<1>4. ASSUME NEW t \in Txs, LockRow(t) PROVE UndatedKnown'
  <2>1. UNCHANGED vars
    BY <1>4 DEF LockRow
  <2>2. CASE End(t)
    BY <1>2, <2>1, <2>2, QuietKnown
  <2>3. CASE tx' = [tx EXCEPT ![t].phase = "work", ![t].todo = Involved(tx[t].call),
                              ![t].unchecked = ToCheck(tx[t].call)]
    <3>1. tx[t] \in Running
      BY <1>1, <1>4, SessionFields DEF LockRow
    <3>2. /\ \A s \in Txs \ {t} : tx'[s] = tx[s]
          /\ tx'[t].call = tx[t].call /\ tx'[t].unchecked = ToCheck(tx[t].call)
      BY <1>1, <2>3, <3>1 DEF SessionsTyped, Running
    <3> QED BY <2>1, <3>2, QuietKnown
  <2> QED BY <1>4, <2>2, <2>3 DEF LockRow
<1>5. ASSUME NEW t \in Txs, LockUnit(t) PROVE UndatedKnown'
  <2>1. UNCHANGED vars /\ AtWork(t)
    BY <1>5 DEF LockUnit, AtWork
  <2>2. tx[t] \in Running
    BY <1>1, <2>1, SessionFields DEF AtWork
  <2>3. PICK u : tx' = [tx EXCEPT ![t].todo = @ \ {u}, ![t].locked = @ \cup {u}]
    BY <1>5 DEF LockUnit
  <2>4. /\ \A s \in Txs \ {t} : tx'[s] = tx[s]
        /\ tx'[t].call = tx[t].call /\ tx'[t].unchecked = tx[t].unchecked
    BY <1>1, <2>2, <2>3 DEF SessionsTyped, Running
  <2> QED BY <2>1, <2>4, QuietKnown DEF UndatedKnown
<1>6. ASSUME NEW t \in Txs, Check(t) PROVE UndatedKnown'
  <2>1. UNCHANGED vars /\ AtWork(t)
    BY <1>6 DEF Check, Locked, AtWork
  <2>2. tx[t] \in Running /\ tx[t].call \in Calls
    BY <1>1, <2>1, SessionFields DEF AtWork
  <2>3. CASE End(t)
    BY <1>2, <2>1, <2>3, QuietKnown
  <2>4. ASSUME NEW u \in tx[t].unchecked, Vacant(u, tx[t].call),
               tx' = [tx EXCEPT ![t].unchecked = @ \ {u}]
        PROVE  UndatedKnown'
    <3>1. /\ \A s \in Txs \ {t} : tx'[s] = tx[s]
          /\ tx'[t].call = tx[t].call /\ tx'[t].unchecked = tx[t].unchecked \ {u}
      BY <1>1, <2>2, <2>4 DEF SessionsTyped, Running
    <3>2. ASSUME tx[t].call.kind # "block", StayOf[tx[t].call.row] # {}
          PROVE  NoUndated(u, tx[t].call.row)
      BY <1>1, <2>2, <2>4, <3>2, VacantIsDated
    <3> QED BY <2>1, <3>1, <3>2, QuietKnown DEF UndatedKnown
  <2> QED BY <1>6, <2>3, <2>4 DEF Check
<1>7. ASSUME NEW t \in Txs, Commit(t) PROVE UndatedKnown'
  <2>1. CASE UNCHANGED vars
    BY <1>2, <1>7, <2>1, QuietKnown DEF Commit
  <2>2. CASE Write(tx[t].call)
    BY <1>7, <2>2, CommitKnown
  <2> QED BY <1>7, <2>1, <2>2 DEF Commit
<1>8. ASSUME NEW t \in Txs, Rollback(t) PROVE UndatedKnown'
  BY <1>2, <1>8, QuietKnown DEF Rollback
<1>9. CASE UNCHANGED txVars
  <2>1. UNCHANGED vars /\ tx' = tx
    BY <1>9 DEF txVars
  <2>2. CASE Txs = {}
    BY <2>2 DEF UndatedKnown
  <2>3. ASSUME NEW t \in Txs PROVE UndatedKnown'
    BY <2>1, QuietKnown DEF UndatedKnown, AtWork
  <2> QED BY <2>2, <2>3
<1> QED BY <1>3, <1>4, <1>5, <1>6, <1>7, <1>8, <1>9 DEF TxNext

\* However the sessions interleave, no dated line is granted over the undated line of a
\* stay that has occupied inventory ever since.
THEOREM TxFailsClosed == TxSpec => UndatedClaimsFailClosed
<1> DEFINE Closed == \A l \in lines' : (\A m \in lines : m.bid # l.bid \/ m.unit # l.unit) =>
                       \A m \in lines : m.unit = l.unit /\ m.nights = {} /\ l.nights # {}
                                         => m.lapsed
<1>1. TxInit => UndatedKnown
  BY DEF TxInit, UndatedKnown, AtWork, Idle
<1>2. TxInv /\ TxInv' /\ UndatedKnown /\ [TxNext]_txVars => UndatedKnown'
  BY KnownStep
<1>3. ASSUME TxInv, UndatedKnown, NEW t \in Txs, Commit(t), Write(tx[t].call) PROVE Closed
  <2>1. /\ TypeOK /\ AtWork(t) /\ Locked(t) /\ tx[t].unchecked = {}
    BY <1>3 DEF Commit, Locked, TxInv, Tables, AtWork
  <2>2. tx[t].call \in Calls
    BY <1>3, <2>1, CommitIsChecked
  <2>3. ASSUME NEW l \in lines', \A m \in lines : m.bid # l.bid \/ m.unit # l.unit,
               NEW m \in lines, m.unit = l.unit, m.nights = {}, l.nights # {}
        PROVE  m.lapsed
    <3>1. l \notin lines /\ m.bid # l.bid
      BY <2>3
    <3>2. ~l.lapsed
      BY <1>3, <2>1, <2>2, <2>3, FreshStands
    <3>3. /\ tx[t].call.kind # "block" /\ l.bid = tx[t].call.row
          /\ l.nights = StayOf[tx[t].call.row] /\ l.unit \in ToCheck(tx[t].call)
      BY <1>3, <2>1, <2>2, <3>1, <3>2, LinesAdded
    <3>4. NoUndated(l.unit, l.bid)
      BY <1>3, <2>1, <2>3, <3>3 DEF UndatedKnown
    <3> QED BY <2>3, <3>1, <3>4 DEF NoUndated
  <2> QED BY <2>3
<1>4. TxInv /\ UndatedKnown /\ [TxNext]_txVars => [Closed]_vars
  <2> SUFFICES ASSUME TxInv, UndatedKnown, [TxNext]_txVars PROVE Closed \/ UNCHANGED vars
    OBVIOUS
  <2> HIDE DEF Closed
  <2>1. ASSUME NEW t \in Txs, Commit(t) PROVE Closed \/ UNCHANGED vars
    BY <1>3, <2>1 DEF Commit
  <2>2. ASSUME NEW t \in Txs,
               \/ \E call \in Calls : Begin(t, call)
               \/ LockRow(t) \/ LockUnit(t) \/ Check(t) \/ Rollback(t)
        PROVE  UNCHANGED vars
    BY <2>2 DEF Begin, LockRow, LockUnit, Check, Rollback
  <2> QED BY <2>1, <2>2 DEF TxNext, txVars
<1> QED BY <1>1, <1>2, <1>4, SessionsKeepApart, PTL DEF TxSpec, UndatedClaimsFailClosed

-----------------------------------------------------------------------------
(* Nobody waits in a circle. *)

\* Of the sets of a family of subsets of a finite set, one includes no other.
LEMMA LeastOfFamily ==
  ASSUME NEW U, IsFiniteSet(U), NEW B \in SUBSET SUBSET U, B # {}
  PROVE  \E s \in B : \A r \in B : r \subseteq s => r = s
<1>1. IsWellFoundedOn(StrictSubsetOrdering(U), SUBSET U)
  BY FS_StrictSubsetOrderingWellFounded, FS_FiniteSubsetsOfFinite
<1>2. PICK s \in B : \A r \in B : <<r, s>> \notin StrictSubsetOrdering(U)
  BY <1>1, WFMin
<1>3. ASSUME NEW r \in B, r \subseteq s, r # s PROVE FALSE
  <2>1. <<r, s>> \in (SUBSET U) \X (SUBSET U)
    OBVIOUS
  <2> QED BY <1>2, <1>3, <2>1 DEF StrictSubsetOrdering
<1> QED BY <1>2, <1>3

\* The units that are not before the one the session takes next: they are fewer for
\* whoever holds that unit.
Ahead(t) == {v \in Units : \E u \in NextUnits(t) : Rank[u] <= Rank[v]}

\* A session that waits for another has more units ahead of it.
LEMMA WaitsUpwards ==
  ASSUME TxInv, \A u, v \in Units : LockKey[u] = LockKey[v] => u = v,
         NEW t \in Txs, NEW s \in Txs, AtWork(t), s # t, WaitsFor(t, s)
  PROVE  AtWork(s) /\ Ahead(s) \subseteq Ahead(t) /\ Ahead(s) # Ahead(t)
<1>1. PICK u \in NextUnits(t) : LockKey[u] \in KeysOf(s)
  BY DEF WaitsFor, AtWork
<1>2. AtWork(s) /\ \E v \in tx[s].locked : LockKey[u] = LockKey[v]
  BY <1>1 DEF KeysOf, AtWork
<1>3. /\ tx[t].todo \subseteq Units
      /\ tx[s].locked \subseteq Units /\ tx[s].todo \subseteq Units
  BY <1>2, SessionFields DEF TxInv, AtWork
<1>4. u \in Units /\ u \in tx[s].locked /\ u \in tx[t].todo
  BY <1>2, <1>3 DEF NextUnits
<1>5. \A v \in tx[s].todo : Rank[u] < Rank[v]
  BY <1>2, <1>4 DEF TxInv, AllInformed, Informed
<1>6. \A v \in Units : Rank[v] \in Nat
  BY StayTxAssumption
<1>7. u \in Ahead(t)
  BY <1>4, <1>6 DEF Ahead
<1>8. \A v \in NextUnits(s) : v \in Units /\ Rank[u] < Rank[v]
  BY <1>3, <1>5 DEF NextUnits
<1>9. u \notin Ahead(s)
  BY <1>4, <1>6, <1>8 DEF Ahead
<1>10. ASSUME NEW w \in Ahead(s) PROVE w \in Ahead(t)
  <2>1. PICK v \in NextUnits(s) : Rank[v] <= Rank[w]
    BY DEF Ahead
  <2>2. w \in Units
    BY DEF Ahead
  <2>3. Rank[u] <= Rank[w]
    BY <1>4, <1>6, <1>8, <2>1, <2>2
  <2> QED BY <2>2, <2>3 DEF Ahead
<1> QED BY <1>2, <1>7, <1>9, <1>10

\* Of any sessions that are at work, one waits for none of them; if none is at work,
\* the row that is waited for is held by nobody.
LEMMA NoCircle ==
  ASSUME TxInv, IsFiniteSet(Units), \A u, v \in Units : LockKey[u] = LockKey[v] => u = v
  PROVE  NoWaitCycle
<1> SUFFICES ASSUME NEW S \in (SUBSET Txs) \ {{}}
             PROVE  \E t \in S : \A s \in S \ {t} : ~WaitsFor(t, s)
  BY DEF NoWaitCycle
<1>1. CASE \A t \in S : ~AtWork(t)
  <2>1. \A t, s \in S : ~WaitsFor(t, s)
    BY <1>1 DEF WaitsFor, RowHeldBy, AtWork
  <2>2. \E t \in S : TRUE
    OBVIOUS
  <2> QED BY <2>1, <2>2
<1>2. CASE \E t \in S : AtWork(t)
  <2> DEFINE B == {Ahead(t) : t \in {t \in S : AtWork(t)}}
  <2>1. B \in SUBSET SUBSET Units /\ B # {}
    <3>1. \A t : Ahead(t) \in SUBSET Units
      BY DEF Ahead
    <3> QED BY <1>2, <3>1
  <2>2. PICK a \in B : \A r \in B : r \subseteq a => r = a
    <3> HIDE DEF B
    <3> QED BY <2>1, LeastOfFamily
  <2>3. PICK t \in S : AtWork(t) /\ a = Ahead(t)
    OBVIOUS
  <2>4. ASSUME NEW s \in S \ {t}, WaitsFor(t, s) PROVE FALSE
    <3>1. AtWork(s) /\ Ahead(s) \subseteq Ahead(t) /\ Ahead(s) # Ahead(t)
      BY <2>3, <2>4, WaitsUpwards
    <3> QED BY <2>2, <2>3, <3>1
  <2> QED BY <2>3, <2>4
<1> QED BY <1>1, <1>2

\* No set of sessions waits for itself, when no two units share a lock key: rows are
\* locked before units, and units in one order.
THEOREM NoDeadlock ==
  ASSUME IsFiniteSet(Units), \A u, v \in Units : LockKey[u] = LockKey[v] => u = v
  PROVE  TxSpec => []NoWaitCycle
<1>1. TxInv => NoWaitCycle
  BY NoCircle
<1> QED BY <1>1, SessionsKeepApart, PTL

-----------------------------------------------------------------------------
(* Requests of the desk. *)

\* What a request knows of the evidence once it decided to write.  Evidence is never
\* deleted, so what it read stays true of "some evidence" if not of its value.
RequestsInformed ==
  \A r \in Requests :
    \/ request[r] = NoRequest
    \/ /\ request[r].op = "out" => request[r].phase \in {"proof", "mint", "patch"}
       /\ request[r].op = "out" /\ request[r].phase = "mint" => proof[request[r].bid] # "none"
       /\ request[r].phase = "patch" => proof[request[r].bid] # "none"

DeskInv == DeskTypeOK /\ RequestsInformed /\ CheckedInIsEvidenced

\* No writer beside the desk makes a bid CHECKED_IN.
LEMMA OthersDoNotCheckIn ==
  ASSUME TypeOK, AppNext, NEW b \in Bids, bids'[b].status = "CHECKED_IN"
  PROVE  bids[b].status = "CHECKED_IN"
<1>1. ASSUME NEW c \in Bids, NEW s \in Written, NEW r \in Rooms, NEW u \in UnitColumn,
             PlaceBid(c, s, r, u)
      PROVE  bids[b].status = "CHECKED_IN"
  BY <1>1, StayDeskAssumption DEF PlaceBid, WriteBid, TypeOK
<1>2. ASSUME NEW c \in Bids, NEW s \in Written, PatchStatus(c, s)
      PROVE  bids[b].status = "CHECKED_IN"
  BY <1>2, StayDeskAssumption DEF PatchStatus, WriteBid, TypeOK, BidRow
<1>3. ASSUME NEW c \in Bids, NEW r \in Rooms, UpgradeRoom(c, r)
      PROVE  bids[b].status = "CHECKED_IN"
  BY <1>3 DEF UpgradeRoom, TypeOK, BidRow
<1>4. ASSUME NEW c \in Bids, NEW target \in SUBSET Units, SetUnits(c, target)
      PROVE  bids[b].status = "CHECKED_IN"
  <2>1. PICK u : bids' = [bids EXCEPT ![c].unit = u]
    BY <1>4 DEF SetUnits, ReplaceLines, Claimable
  <2> QED BY <2>1 DEF TypeOK, BidRow
<1>5. ASSUME NEW c \in Bids, ReleaseUnits(c)
      PROVE  bids[b].status = "CHECKED_IN"
  BY <1>5 DEF ReleaseUnits, TypeOK, BidRow
<1>6. CASE UNCHANGED bids
  BY <1>6
<1>7. ASSUME NEW k \in Blocks, NEW new, WriteBlock(k, new) PROVE UNCHANGED bids
  BY <1>7 DEF WriteBlock
<1> QED
  BY <1>1, <1>2, <1>3, <1>4, <1>5, <1>6, <1>7
     DEF AppNext, AssignUnits, TransferUnits, InsertBlock, PatchBlock, AssignBlockUnit,
         ReleaseBlockUnit, DeleteBlock, SetUnitStatus

\* A request that goes on keeps what it read.
LEMMA ProceedTypes ==
  ASSUME DeskTypeOK, NEW r \in Requests, NEW phase \in Phases,
         request[r] # NoRequest, Proceed(r, phase)
  PROVE  /\ request' \in [Requests -> Busy \cup {NoRequest}]
         /\ request'[r] \in Busy
         /\ request'[r].phase = phase
         /\ request'[r].op = request[r].op
         /\ request'[r].bid = request[r].bid
         /\ \A x \in Requests \ {r} : request'[x] = request[x]
  BY DEF DeskTypeOK, Proceed, Busy

\* A reply leaves every request well formed.
LEMMA ReplyTypes ==
  ASSUME DeskTypeOK, NEW r \in Requests, Reply(r)
  PROVE  /\ request' \in [Requests -> Busy \cup {NoRequest}]
         /\ request'[r] = NoRequest
         /\ \A x \in Requests \ {r} : request'[x] = request[x]
  BY DEF DeskTypeOK, Reply

\* A request that is neither writing nor replying leaves the store and the evidence.
LEMMA ReadStep ==
  ASSUME DeskInv, NEW r \in Requests,
         \/ \E b \in Bids : ReadBid(r, b, "in") \/ ReadBid(r, b, "out")
         \/ ReadProof(r) \/ CountUnits(r) \/ ReadLines(r) \/ Gate(r)
  PROVE  DeskInv'
<1>0. DeskTypeOK /\ RequestsInformed /\ CheckedInIsEvidenced
  BY DEF DeskInv
<1>1. UNCHANGED <<vars, proof, failures>>
  BY DEF ReadBid, ReadProof, CountUnits, ReadLines, Gate
<1>2. TypeOK' /\ CheckedInIsEvidenced'
  BY <1>0, <1>1 DEF vars, DeskTypeOK, TypeOK, CheckedInIsEvidenced
<1>3. request' \in [Requests -> Busy \cup {NoRequest}] /\ RequestsInformed'
  <2>1. CASE \E b \in Bids : ReadBid(r, b, "in") \/ ReadBid(r, b, "out")
    <3>1. PICK b \in Bids, op \in {"in", "out"} : ReadBid(r, b, op)
      BY <2>1
    <3>2. bids[b] \in BidRow  BY <1>0 DEF DeskTypeOK, TypeOK
    <3> QED BY <1>0, <1>1, <3>1, <3>2 DEF ReadBid, DeskTypeOK, RequestsInformed, Busy, Phases
  <2>2. CASE ReadProof(r)
    <3>1. request[r] # NoRequest  BY <2>2 DEF ReadProof, NoRequest
    <3>2. request[r] \in Busy  BY <1>0, <3>1 DEF DeskTypeOK
    <3>3. CASE Reply(r)
      BY <1>0, <1>1, <3>3, ReplyTypes DEF RequestsInformed
    <3>4. CASE request[r].op = "in" /\ Proceed(r, "count")
      BY <1>0, <1>1, <3>1, <3>4, ProceedTypes DEF RequestsInformed, Phases
    <3>5. CASE proof[request[r].bid] = "checked_in" /\ Proceed(r, "mint")
      BY <1>0, <1>1, <3>1, <3>5, ProceedTypes DEF RequestsInformed, Phases
    <3> QED BY <2>2, <3>3, <3>4, <3>5 DEF ReadProof
  <2>3. CASE CountUnits(r)
    <3>1. request[r] # NoRequest /\ request[r].op # "out"
      BY <1>0, <2>3 DEF CountUnits, NoRequest, RequestsInformed
    <3>2. PICK phase \in {"lines", "mint"} : Proceed(r, phase)
      BY <2>3 DEF CountUnits
    <3> QED BY <1>0, <1>1, <3>1, <3>2, ProceedTypes DEF RequestsInformed, Phases
  <2>4. CASE ReadLines(r)
    <3>1. request[r] # NoRequest /\ request[r].op # "out" /\ request[r] \in Busy
      BY <1>0, <2>4 DEF ReadLines, NoRequest, RequestsInformed, DeskTypeOK
    <3>2. UnitsOf(request[r].bid) \subseteq Units
      BY <1>0 DEF DeskTypeOK, TypeOK, UnitsOf, LinesOf, Line
    <3>3. {request[r].row.unit} \ {NULL} \subseteq Units
      BY <3>1 DEF Busy, BidRow, UnitColumn
    <3>4. PICK us \in SUBSET Units :
            request' = [request EXCEPT ![r].phase = "gate", ![r].units = us]
      BY <2>4, <3>2, <3>3 DEF ReadLines
    <3>5. request'[r] \in Busy /\ request'[r].phase = "gate" /\ request'[r].op # "out"
      BY <1>0, <3>1, <3>4 DEF DeskTypeOK, Busy, Phases
    <3>6. \A x \in Requests \ {r} : request'[x] = request[x]
      BY <1>0, <3>4 DEF DeskTypeOK
    <3> QED BY <1>0, <1>1, <3>4, <3>5, <3>6 DEF RequestsInformed, DeskTypeOK
  <2>5. CASE Gate(r)
    <3>1. request[r] # NoRequest /\ request[r].op # "out"
      BY <1>0, <2>5 DEF Gate, NoRequest, RequestsInformed
    <3>2. CASE Reply(r)
      BY <1>0, <1>1, <3>2, ReplyTypes DEF RequestsInformed
    <3>3. CASE Proceed(r, "mint")
      BY <1>0, <1>1, <3>1, <3>3, ProceedTypes DEF RequestsInformed, Phases
    <3> QED BY <2>5, <3>2, <3>3 DEF Gate
  <2> QED BY <2>1, <2>2, <2>3, <2>4, <2>5
<1> QED BY <1>0, <1>1, <1>2, <1>3 DEF DeskInv, DeskTypeOK

\* Minting leaves evidence, and no call takes it back.
LEMMA MintStep ==
  ASSUME DeskInv, NEW r \in Requests, Mint(r)
  PROVE  DeskInv'
<1>0. DeskTypeOK /\ RequestsInformed /\ CheckedInIsEvidenced
  BY DEF DeskInv
<1>1. request[r] # NoRequest /\ request[r] \in Busy
  BY <1>0 DEF Mint, NoRequest, DeskTypeOK
<1>2. UNCHANGED <<vars, failures>> /\ Proceed(r, "patch")
  BY DEF Mint
<1>3. PICK s \in {"checked_in", "checked_out"} : proof' = [proof EXCEPT ![request[r].bid] = s]
  BY DEF Mint
<1>4. /\ proof' \in [Bids -> ProofStates]
      /\ proof'[request[r].bid] # "none"
      /\ \A b \in Bids : proof[b] # "none" => proof'[b] # "none"
  BY <1>0, <1>1, <1>3 DEF DeskTypeOK, ProofStates, Busy
<1>5. TypeOK' /\ CheckedInIsEvidenced'
  BY <1>0, <1>2, <1>4 DEF vars, DeskTypeOK, TypeOK, CheckedInIsEvidenced
<1>6. /\ request' \in [Requests -> Busy \cup {NoRequest}]
      /\ request'[r].bid = request[r].bid
      /\ request'[r].phase = "patch"
      /\ \A x \in Requests \ {r} : request'[x] = request[x]
  BY <1>0, <1>1, <1>2, ProceedTypes DEF Phases
<1>7. \A x \in Requests : request[x] = NoRequest \/ request[x].bid \in Bids
  BY <1>0 DEF DeskTypeOK, Busy
<1>8. RequestsInformed'
  BY <1>0, <1>4, <1>6, <1>7 DEF RequestsInformed
<1> QED BY <1>0, <1>2, <1>4, <1>5, <1>6, <1>8 DEF DeskInv, DeskTypeOK

\* The PATCH of the status follows the evidence it shows.
LEMMA PatchBidStep ==
  ASSUME DeskInv, NEW r \in Requests, PatchBid(r)
  PROVE  DeskInv'
<1>0. DeskTypeOK /\ RequestsInformed /\ CheckedInIsEvidenced
  BY DEF DeskInv
<1>1. request[r] # NoRequest /\ request[r] \in Busy /\ proof[request[r].bid] # "none"
  BY <1>0 DEF PatchBid, NoRequest, DeskTypeOK, RequestsInformed
<1> DEFINE b == request[r].bid
<1>2. b \in Bids /\ bids[b] \in BidRow
  BY <1>0, <1>1 DEF Busy, DeskTypeOK, TypeOK
<1>3. UNCHANGED <<proof, failures>> /\ Reply(r)
  BY DEF PatchBid
<1>4. TypeOK' /\ CheckedInIsEvidenced'
  <2>1. CASE UNCHANGED vars
    BY <2>1, <1>0, <1>3 DEF vars, TypeOK, DeskTypeOK, CheckedInIsEvidenced
  <2>2. ASSUME NEW s \in Statuses, PatchStatus(b, s) PROVE TypeOK' /\ CheckedInIsEvidenced'
    <3>1. [bids[b] EXCEPT !.status = s] \in BidRow
      BY <1>2 DEF BidRow
    <3>2. TypeOK'
      BY <1>0, <1>2, <2>2, <3>1, WriteBidWrites, BidTypes DEF PatchStatus, DeskTypeOK
    <3>3. CheckedInIsEvidenced'
      BY <1>0, <1>1, <1>3, <2>2
      DEF PatchStatus, WriteBid, CheckedInIsEvidenced, DeskTypeOK, TypeOK
    <3> QED BY <3>2, <3>3
  <2> QED BY <2>1, <2>2 DEF PatchBid, Statuses, Occupying
<1> QED
  BY <1>0, <1>3, <1>4, ReplyTypes DEF DeskInv, DeskTypeOK, RequestsInformed

\* The desk and every other writer keep the desk's invariant.
LEMMA DeskStep ==
  ASSUME DeskInv, [DeskNext \/ Others]_allVars
  PROVE  DeskInv'
<1>1. ASSUME NEW r \in Requests, Fail(r) PROVE DeskInv'
  <2>1. failures' \in 0..MaxFailures
    BY <1>1, StayDeskAssumption DEF Fail, DeskInv, DeskTypeOK
  <2> QED BY <1>1, <2>1, ReplyTypes
          DEF Fail, DeskInv, DeskTypeOK, RequestsInformed, CheckedInIsEvidenced, vars, TypeOK
<1>2. CASE DeskNext
  BY <1>1, <1>2, ReadStep, MintStep, PatchBidStep DEF DeskNext, Advance
<1>3. CASE Others
  <2>1. TypeOK'
    BY <1>3, TypeStep DEF Others, Next, DeskInv, DeskTypeOK
  <2>2. CheckedInIsEvidenced'
    BY <1>3, OthersDoNotCheckIn
       DEF Others, deskVars, DeskInv, DeskTypeOK, CheckedInIsEvidenced
  <2> QED BY <1>3, <2>1, <2>2 DEF Others, deskVars, DeskInv, DeskTypeOK, RequestsInformed
<1>4. CASE UNCHANGED allVars
  BY <1>4 DEF allVars, deskVars, vars, DeskInv, DeskTypeOK, TypeOK, RequestsInformed,
              CheckedInIsEvidenced
<1> QED BY <1>2, <1>3, <1>4

\* The invariant behind the two theorems.
LEMMA DeskInvariant == DeskSpec => []DeskInv
<1>1. DeskInit => DeskInv
  BY StayDeskAssumption
     DEF DeskInit, DeskInv, DeskTypeOK, Init, TypeOK, NoBid, NoBlock, BidRow, BlockRow,
         UnitColumn, RoomColumn, ProofStates, RequestsInformed, CheckedInIsEvidenced
<1> QED BY <1>1, DeskStep, PTL DEF DeskSpec

\* A bid is CHECKED_IN only with protected evidence, whatever interleaves and fails.
THEOREM CheckInsAreEvidenced == DeskSpec => []CheckedInIsEvidenced
<1>1. DeskInv => CheckedInIsEvidenced  BY DEF DeskInv
<1> QED BY <1>1, DeskInvariant, PTL

\* Checked_out evidence appears only where check-in evidence was: check-out is never
\* a way around the check-in gate.
THEOREM CheckOutNeedsCheckIn == DeskSpec => CheckedOutOverCheckedIn
<1>1. ASSUME DeskInv, [DeskNext \/ Others]_allVars, NEW b \in Bids, proof'[b] = "checked_out"
      PROVE  proof[b] # "none"
  <2>1. CASE UNCHANGED proof
    BY <1>1, <2>1
  <2>2. ASSUME NEW r \in Requests, Mint(r) PROVE proof[b] # "none"
    BY <1>1, <2>2 DEF Mint, DeskInv, DeskTypeOK, RequestsInformed, Busy, NoRequest
  <2> QED BY <1>1, <2>1, <2>2
          DEF DeskNext, Advance, Others, allVars, deskVars, ReadBid, ReadProof, CountUnits,
              ReadLines, Gate, PatchBid, Fail
<1>2. ASSUME DeskInv, [DeskNext \/ Others]_allVars
      PROVE  [\A b \in Bids : proof'[b] = "checked_out" => proof[b] # "none"]_allVars
  BY <1>1, <1>2
<1> QED BY <1>2, DeskInvariant, PTL DEF DeskSpec, CheckedOutOverCheckedIn
=============================================================================
