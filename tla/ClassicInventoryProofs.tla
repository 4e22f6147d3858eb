----------------------- MODULE ClassicInventoryProofs -----------------------
(***************************************************************************)
(* For any number of blocks, bids and guests, any stays and any calls that *)
(* fail: pre-paid holds never exceed the rooms of the category; and when   *)
(* holds are deleted reliably and no dead block is reserved again, no hold *)
(* outlives its block.                                                     *)
(***************************************************************************)
EXTENDS ClassicInventory, FiniteSetTheorems, TLAPS

-----------------------------------------------------------------------------
\* The actions below are the only ones that change holds or reservations.
HoldActions(b) == ReserveCheck(b) \/ ReserveCommit(b) \/ AdminRelease(b)

\* One element more makes a finite set larger by one at most.
LEMMA OneMore ==
  ASSUME NEW S, IsFiniteSet(S), NEW x
  PROVE  Cardinality(S \cup {x}) <= Cardinality(S) + 1 /\ Cardinality(S \cup {x}) \in Nat
<1>1. Cardinality(S) \in Nat
  BY FS_CardinalityType
<1>2. CASE x \in S
  <2>1. S \cup {x} = S
    BY <1>2
  <2> QED BY <1>1, <2>1
<1>3. CASE x \notin S
  <2>1. Cardinality(S \cup {x}) = Cardinality(S) + 1
    BY <1>3, FS_AddElement
  <2> QED BY <1>1, <2>1
<1> QED BY <1>2, <1>3

\* Any other step leaves holds and reservations alone.
LEMMA OtherSteps ==
  ASSUME Next, ~CronRelease, \A b \in Blocks : ~HoldActions(b)
  PROVE  UNCHANGED <<hold, reserving>>
<1>1. ASSUME NEW b \in Blocks, OpenTrade(b) \/ Pay(b) \/ Verify(b) \/ Age(b)
      PROVE  UNCHANGED <<hold, reserving>>
  BY <1>1 DEF OpenTrade, Pay, Verify, VerifyTrade, VerifyFlip, VerifyAssert, VerifyFlag,
              VerifySettle, VerifyDies, Age, stock
<1>2. ASSUME NEW b \in Blocks, Own(b) \/ ForceExpire(b) \/ Buyback(b)
      PROVE  UNCHANGED <<hold, reserving>>
  BY <1>2 DEF Own, List, Unlist, SaleCheckout, ForceExpire, Buyback, KeepRest
<1>3. ASSUME NEW g \in Guests, SaleVerify(g) PROVE UNCHANGED <<hold, reserving>>
  BY <1>3 DEF SaleVerify, KeepRest
<1>4. ASSUME NEW x \in Bids, Bidding(x) PROVE UNCHANGED <<hold, reserving>>
  BY <1>4 DEF Bidding, PlaceCheck, PlaceWrite, PartnerAccept, Repitch, BidLeaves, BidMoves, stock
<1>5. CASE CronScan \/ CronSkips \/ Tomorrow
  BY <1>5 DEF CronScan, CronSkips, Tomorrow, stock
<1>6. ASSUME NEW b \in Blocks, CronPatch(b) PROVE UNCHANGED <<hold, reserving>>
  BY <1>6 DEF CronPatch
<1> QED
  BY <1>1, <1>2, <1>3, <1>4, <1>5, <1>6 DEF Next, Reserve, Admin, Cron, HoldActions

-----------------------------------------------------------------------------
(* Holds fit the category.                                                  *)

\* The reservation inside the lock is alone there, and every night it asks for
\* has a room left for one more hold: the others can only give holds back.
RoomIsKept ==
  \A b \in reserving :
    /\ reserving = {b}
    /\ \A n \in NightsOf(b) : Cardinality(HoldsOn(n)) + 1 <= Quantity

HoldsInv ==
  /\ hold \subseteq Blocks /\ reserving \subseteq Blocks
  /\ RoomIsKept
  /\ HoldsNeverOversell

\* The holds of a night are finitely many.
LEMMA HoldsFinite ==
  ASSUME hold \subseteq Blocks, NEW n
  PROVE  IsFiniteSet(HoldsOn(n)) /\ Cardinality(HoldsOn(n)) \in Nat
<1>1. HoldsOn(n) \in SUBSET Blocks
  BY DEF HoldsOn
<1> QED BY <1>1, FS_Subset, FS_CardinalityType, ClassicAssumption

\* So are the rooms that bids take on a night.
LEMMA BidRoomsFinite ==
  ASSUME NEW n
  PROVE  Cardinality(BidRoomsOn(n)) \in Nat
<1>1. IsFiniteSet(1..Quantity)
  BY FS_Interval, ClassicAssumption
<1>2. IsFiniteSet(Bids \X (1..Quantity))
  BY <1>1, FS_Product, ClassicAssumption
<1>3. BidRoomsOn(n) \in SUBSET (Bids \X (1..Quantity))
  BY DEF BidRoomsOn, BidRooms
<1> QED BY <1>2, <1>3, FS_Subset, FS_CardinalityType

\* Giving holds back frees rooms.
LEMMA HoldsShrink ==
  ASSUME hold \subseteq Blocks, hold' \subseteq hold, NEW n
  PROVE  Cardinality(HoldsOn(n)') <= Cardinality(HoldsOn(n))
<1>1. HoldsOn(n)' \in SUBSET HoldsOn(n)
  BY DEF HoldsOn, Covers
<1> QED BY <1>1, FS_Subset, HoldsFinite

\* No block holds a room at first.
LEMMA HoldsInvInit == Init => HoldsInv
<1> SUFFICES ASSUME Init PROVE HoldsInv
  OBVIOUS
<1>1. ASSUME NEW n \in Days PROVE Cardinality(HoldsOn(n)) <= Quantity
  <2>1. HoldsOn(n) = {}
    BY DEF Init, HoldsOn
  <2> QED BY <2>1, FS_EmptySet, ClassicAssumption
<1> QED BY <1>1 DEF Init, HoldsInv, RoomIsKept, HoldsNeverOversell

\* A reservation adds a hold only where the category has a room left.
LEMMA HoldsInvNext == HoldsInv /\ [Next]_vars => HoldsInv'
<1> SUFFICES ASSUME HoldsInv, [Next]_vars PROVE HoldsInv'
  OBVIOUS
<1>typ. hold \subseteq Blocks /\ reserving \subseteq Blocks
  BY DEF HoldsInv
<1>1. ASSUME NEW b \in Blocks, ReserveCheck(b) PROVE HoldsInv'
  <2>1. hold' = hold /\ reserving' = {b}
    BY <1>1 DEF ReserveCheck, stock
  <2>2. ASSUME NEW n \in NightsOf(b) PROVE Cardinality(HoldsOn(n)) + 1 <= Quantity
    <3>1. Cardinality(HoldsOn(n)) + Cardinality(BidRoomsOn(n)) + 1 <= Quantity
      BY <1>1, <2>2 DEF ReserveCheck, Fits, Occupied
    <3> QED BY <3>1, HoldsFinite, BidRoomsFinite, <1>typ, ClassicAssumption
  <2>3. \A n : HoldsOn(n)' = HoldsOn(n)
    BY <2>1 DEF HoldsOn, Covers
  <2>4. NightsOf(b)' = NightsOf(b)
    BY DEF NightsOf, Covers
  <2>5. RoomIsKept'
    BY <2>1, <2>2, <2>3, <2>4 DEF RoomIsKept
  <2>6. HoldsNeverOversell'
    BY <2>3 DEF HoldsInv, HoldsNeverOversell
  <2> QED BY <2>1, <2>5, <2>6, <1>typ DEF HoldsInv
<1>2. ASSUME NEW b \in Blocks, ReserveCommit(b) PROVE HoldsInv'
  <2>1. hold' = hold \cup {b} /\ reserving' = {}
    BY <1>2 DEF ReserveCommit, HoldsInv, RoomIsKept
  <2>2. ASSUME NEW n \in Days PROVE Cardinality(HoldsOn(n)') <= Quantity
    <3>1. CASE Covers(b, n)
      <4>1. HoldsOn(n)' = HoldsOn(n) \cup {b}
        BY <2>1, <3>1, <1>typ DEF HoldsOn, Covers
      <4>2. Cardinality(HoldsOn(n)) + 1 <= Quantity
        <5>1. b \in reserving /\ n \in NightsOf(b)
          BY <1>2, <2>2, <3>1 DEF ReserveCommit, NightsOf
        <5> QED BY <5>1 DEF HoldsInv, RoomIsKept
      <4>3. IsFiniteSet(HoldsOn(n)) /\ Cardinality(HoldsOn(n)) \in Nat
        BY HoldsFinite, <1>typ
      <4>4. /\ Cardinality(HoldsOn(n) \cup {b}) <= Cardinality(HoldsOn(n)) + 1
            /\ Cardinality(HoldsOn(n) \cup {b}) \in Nat
        BY <4>3, OneMore
      <4> QED BY <4>1, <4>2, <4>3, <4>4, ClassicAssumption
    <3>2. CASE ~Covers(b, n)
      <4>1. HoldsOn(n)' = HoldsOn(n)
        BY <2>1, <3>2 DEF HoldsOn, Covers
      <4> QED BY <4>1, <2>2 DEF HoldsInv, HoldsNeverOversell
    <3> QED BY <3>1, <3>2
  <2>3. HoldsNeverOversell'
    BY <2>2 DEF HoldsNeverOversell, Days
  <2> QED BY <2>1, <2>3, <1>typ DEF HoldsInv, RoomIsKept
<1>3. ASSUME hold' \subseteq hold, reserving' = reserving PROVE HoldsInv'
  <2>1. ASSUME NEW n PROVE /\ Cardinality(HoldsOn(n)') <= Cardinality(HoldsOn(n))
                           /\ Cardinality(HoldsOn(n)') \in Nat
                           /\ Cardinality(HoldsOn(n)) \in Nat
    <3>1. HoldsOn(n)' \in SUBSET Blocks
      BY <1>3, <1>typ DEF HoldsOn, Covers
    <3>2. Cardinality(HoldsOn(n)') \in Nat
      BY <3>1, FS_Subset, FS_CardinalityType, ClassicAssumption
    <3> QED BY <3>2, HoldsShrink, HoldsFinite, <1>3, <1>typ
  <2>2. HoldsNeverOversell'
    <3> SUFFICES ASSUME NEW n \in Days PROVE Cardinality(HoldsOn(n)') <= Quantity
      BY DEF HoldsNeverOversell, Days
    <3>1. Cardinality(HoldsOn(n)) <= Quantity
      BY DEF HoldsInv, HoldsNeverOversell
    <3> QED BY <2>1, <3>1, ClassicAssumption
  <2>3. RoomIsKept'
    <3> SUFFICES ASSUME NEW b \in reserving, NEW n \in NightsOf(b)
                 PROVE  Cardinality(HoldsOn(n)') + 1 <= Quantity
      BY <1>3 DEF RoomIsKept, HoldsInv, NightsOf, Covers
    <3>1. Cardinality(HoldsOn(n)) + 1 <= Quantity
      BY DEF HoldsInv, RoomIsKept
    <3> QED BY <2>1, <3>1, ClassicAssumption
  <2> QED BY <1>3, <2>2, <2>3, <1>typ DEF HoldsInv
<1>4. ASSUME CronRelease \/ \E b \in Blocks : AdminRelease(b)
      PROVE  hold' \subseteq hold /\ reserving' = reserving
  BY <1>4 DEF CronRelease, AdminRelease
<1>5. CASE UNCHANGED vars
  BY <1>5, <1>3 DEF vars, stock
<1>6. CASE Next
  BY <1>6, <1>1, <1>2, <1>3, <1>4, OtherSteps DEF HoldActions
<1> QED BY <1>5, <1>6

\* However payments, expiry, admin actions and bids interleave with reservations,
\* the pre-paid holds of a night fit the rooms of the category.
THEOREM HoldsFitTheCategory == Spec => []HoldsNeverOversell
<1>1. HoldsInv => HoldsNeverOversell
  BY DEF HoldsInv
<1> QED BY <1>1, HoldsInvInit, HoldsInvNext, PTL DEF Spec

-----------------------------------------------------------------------------
(* Types.                                                                   *)

\* The initial rows are well formed.
LEMMA TypeInit == Init => TypeOK
  BY ClassicAssumption DEF Init, TypeOK, Statuses, Live, Stages, NoSale, CronIdle, Days

\* Every step keeps them well formed.
LEMMA TypeNext == TypeOK /\ [Next]_vars => TypeOK'
<1> SUFFICES ASSUME TypeOK, [Next]_vars PROVE TypeOK'
  OBVIOUS
<1> USE DEF TypeOK, stock, money, desks
<1>1. ASSUME NEW b \in Blocks, Reserve(b) \/ OpenTrade(b) \/ Pay(b) \/ Age(b) PROVE TypeOK'
  BY <1>1 DEF Reserve, ReserveCheck, ReserveCommit, OpenTrade, Pay, Age, Statuses, Live
<1>2. ASSUME NEW b \in Blocks, Verify(b) PROVE TypeOK'
  <2>1. CASE VerifyTrade(b) \/ VerifyAssert(b) \/ VerifyDies(b)
    BY <2>1 DEF VerifyTrade, VerifyAssert, VerifyDies, Verified
  <2>2. CASE VerifyFlip(b)
    BY <2>2 DEF VerifyFlip, Verified, Statuses, Live
  <2>3. CASE VerifyFlag(b) \/ VerifySettle(b)
    BY <2>3 DEF VerifyFlag, VerifySettle, Verified
  <2> QED BY <1>2, <2>1, <2>2, <2>3 DEF Verify
<1>3. ASSUME NEW b \in Blocks, Own(b) PROVE TypeOK'
  BY <1>3 DEF Own, List, Unlist, SaleCheckout, SetStatus, KeepRest, Statuses, Live
<1>4. ASSUME NEW b \in Blocks, Admin(b) PROVE TypeOK'
  BY <1>4 DEF Admin, ForceExpire, Buyback, AdminRelease, SetStatus, KeepRest, Statuses, Live
<1>5. ASSUME NEW g \in Guests, SaleVerify(g) PROVE TypeOK'
  BY <1>5, ZenonT(60) DEF SaleVerify, KeepRest, Statuses, Live
<1>6. ASSUME NEW x \in Bids, Bidding(x) PROVE TypeOK'
  BY <1>6 DEF Bidding, PlaceCheck, PlaceWrite, PartnerAccept, Repitch, BidLeaves, BidMoves, Stages
<1>7. CASE CronScan
  BY <1>7 DEF CronScan, Scan, Due, CronIdle
<1>8. ASSUME NEW b \in Blocks, CronPatch(b) PROVE TypeOK'
  BY <1>8 DEF CronPatch, Statuses, Live
<1>9. CASE CronRelease \/ CronSkips
  BY <1>9 DEF CronRelease, CronSkips
<1>10. CASE Tomorrow
  BY <1>10, ClassicAssumption DEF Tomorrow, Days
<1>11. CASE UNCHANGED vars
  BY <1>11 DEF vars
<1> QED
  BY <1>1, <1>2, <1>3, <1>4, <1>5, <1>6, <1>7, <1>8, <1>9, <1>10, <1>11 DEF Next, Cron

\* Every row, flag and local state stays well formed.
THEOREM ClassicTypeCorrect == Spec => []TypeOK
  BY TypeInit, TypeNext, PTL DEF Spec

-----------------------------------------------------------------------------
(* No hold outlives its block.                                              *)

\* A reservation inside the lock is for a block that has no row yet.
FreshReservations == \A b \in reserving : status[b] = "none"

\* The gateway releases every hold it is told to, and ids are never reused.
Reliable == "release" \notin Lost /\ ~Replay

LeakInv == TypeOK /\ FreshReservations /\ HoldFollowsBlock

\* There is no hold to leak at first.
LEMMA LeakInit == Init => LeakInv
  BY TypeInit DEF Init, LeakInv, FreshReservations, HoldFollowsBlock

\* While deletions do not fail, a block ends together with its hold.
LEMMA LeakNext == Reliable /\ LeakInv /\ [Next]_vars => LeakInv'
<1> SUFFICES ASSUME Reliable, LeakInv, [Next]_vars
             PROVE  FreshReservations' /\ HoldFollowsBlock'
  BY TypeNext DEF LeakInv
<1> USE DEF LeakInv, TypeOK, FreshReservations, HoldFollowsBlock, stock, money, desks
<1>1. ASSUME NEW b \in Blocks, Reserve(b) PROVE FreshReservations' /\ HoldFollowsBlock'
  BY <1>1 DEF Reserve, ReserveCheck, ReserveCommit, Reliable, Live
<1>2. ASSUME NEW b \in Blocks, OpenTrade(b) \/ Pay(b) \/ Age(b)
      PROVE  FreshReservations' /\ HoldFollowsBlock'
  BY <1>2 DEF OpenTrade, Pay, Age
<1>3. ASSUME NEW b \in Blocks, Verify(b) PROVE FreshReservations' /\ HoldFollowsBlock'
  BY <1>3 DEF Verify, VerifyTrade, VerifyFlip, VerifyAssert, VerifyFlag, VerifySettle,
              VerifyDies, Live
<1>4. ASSUME NEW b \in Blocks, Own(b) PROVE FreshReservations' /\ HoldFollowsBlock'
  BY <1>4 DEF Own, List, Unlist, SaleCheckout, SetStatus, KeepRest, Live
<1>5. ASSUME NEW b \in Blocks, ForceExpire(b) \/ Buyback(b)
      PROVE  FreshReservations' /\ HoldFollowsBlock'
  BY <1>5 DEF ForceExpire, Buyback, SetStatus, KeepRest
<1>6. ASSUME NEW b \in Blocks, AdminRelease(b) PROVE FreshReservations' /\ HoldFollowsBlock'
  BY <1>6 DEF AdminRelease, Reliable
<1>7. ASSUME NEW g \in Guests, SaleVerify(g) PROVE FreshReservations' /\ HoldFollowsBlock'
  BY <1>7 DEF SaleVerify, KeepRest, Live
<1>8. ASSUME NEW x \in Bids, Bidding(x) PROVE FreshReservations' /\ HoldFollowsBlock'
  BY <1>8 DEF Bidding, PlaceCheck, PlaceWrite, PartnerAccept, Repitch, BidLeaves, BidMoves
\* The cron is between two blocks when it scans or patches: no hold relies on it.
<1>9. ASSUME cron.cur = Nobody, NEW b \in hold PROVE status[b] \in Live \/ b \in unholding
  BY <1>9, ClassicAssumption
<1>10. CASE CronScan \/ CronSkips
  BY <1>9, <1>10 DEF CronScan, CronSkips
<1>11. ASSUME NEW b \in Blocks, CronPatch(b) PROVE FreshReservations' /\ HoldFollowsBlock'
  <2>1. FreshReservations'
    BY <1>11 DEF CronPatch, Expiring, Sellable
  <2>2. cron'.cur = b /\ \A c \in Blocks \ {b} : status'[c] = status[c]
    BY <1>11 DEF CronPatch
  <2>3. cron.cur = Nobody /\ hold' = hold /\ unholding' = unholding
    BY <1>11 DEF CronPatch
  <2> QED BY <1>9, <2>1, <2>2, <2>3
<1>12. CASE CronRelease
  BY <1>12 DEF CronRelease, Reliable
<1>13. CASE Tomorrow \/ UNCHANGED vars
  BY <1>13 DEF Tomorrow, vars
<1> QED
  BY <1>1, <1>2, <1>3, <1>4, <1>5, <1>6, <1>7, <1>8, <1>10, <1>11, <1>12, <1>13
     DEF Next, Admin, Cron

\* When hold deletions do not fail and ids are not reserved twice, no hold outlives
\* its block: what the cron or the admin desk expires, it is about to release.
THEOREM NoHoldLeaks == Reliable /\ Spec => []HoldFollowsBlock
<1>1. LeakInv => HoldFollowsBlock
  BY DEF LeakInv
<1>2. CASE Reliable
  <2>1. LeakInv /\ [Next]_vars => LeakInv'
    BY <1>2, LeakNext
  <2> QED BY <1>1, <2>1, LeakInit, PTL DEF Spec
<1>3. CASE ~Reliable
  BY <1>3, PTL
<1> QED BY <1>2, <1>3

-----------------------------------------------------------------------------
(* Who takes the hold of a live block.                                      *)

\* What the admin desk is about to release is over for good.
DeskReleasesTheDead == \A b \in unholding : status[b] \in {"expired", "refunded"}

DeskInv == TypeOK /\ DeskReleasesTheDead

\* No step brings a block back that the admin desk has ended.
LEMMA DeskNext == DeskInv /\ [Next]_vars => DeskReleasesTheDead'
<1> SUFFICES ASSUME DeskInv, [Next]_vars PROVE DeskReleasesTheDead'
  OBVIOUS
<1> USE DEF DeskInv, TypeOK, DeskReleasesTheDead, stock, money, desks
<1>1. ASSUME NEW b \in Blocks, Reserve(b) \/ OpenTrade(b) \/ Pay(b) \/ Age(b)
      PROVE  DeskReleasesTheDead'
  BY <1>1 DEF Reserve, ReserveCheck, ReserveCommit, OpenTrade, Pay, Age
<1>2. ASSUME NEW b \in Blocks, Verify(b) PROVE DeskReleasesTheDead'
  BY <1>2 DEF Verify, VerifyTrade, VerifyFlip, VerifyAssert, VerifyFlag, VerifySettle, VerifyDies
<1>3. ASSUME NEW b \in Blocks, Own(b) PROVE DeskReleasesTheDead'
  BY <1>3 DEF Own, List, Unlist, SaleCheckout, SetStatus, KeepRest
<1>4. ASSUME NEW b \in Blocks, Admin(b) PROVE DeskReleasesTheDead'
  BY <1>4 DEF Admin, ForceExpire, Buyback, AdminRelease, SetStatus, KeepRest
<1>5. ASSUME NEW g \in Guests, SaleVerify(g) PROVE DeskReleasesTheDead'
  BY <1>5 DEF SaleVerify, KeepRest
<1>6. ASSUME NEW x \in Bids, Bidding(x) PROVE DeskReleasesTheDead'
  BY <1>6 DEF Bidding, PlaceCheck, PlaceWrite, PartnerAccept, Repitch, BidLeaves, BidMoves
<1>7. CASE CronScan \/ CronSkips \/ CronRelease
  BY <1>7 DEF CronScan, CronSkips, CronRelease
<1>8. ASSUME NEW b \in Blocks, CronPatch(b) PROVE DeskReleasesTheDead'
  BY <1>8 DEF CronPatch
<1>9. CASE Tomorrow \/ UNCHANGED vars
  BY <1>9 DEF Tomorrow, vars
<1> QED BY <1>1, <1>2, <1>3, <1>4, <1>5, <1>6, <1>7, <1>8, <1>9 DEF Next, Cron

\* Whatever fails and whatever id is reserved again, the hold of a live block is deleted
\* by the cron alone, for the block it has just tried to expire.
THEOREM LiveHoldsLostToCron == Spec => OnlyCronTakesLiveHolds
<1> DEFINE Spared == \A b \in hold \ hold' : status[b] \in Live => cron.cur = b
<1>1. Init => DeskInv
  BY TypeInit DEF Init, DeskInv, DeskReleasesTheDead
<1>2. DeskInv /\ [Next]_vars => DeskInv'
  BY TypeNext, DeskNext DEF DeskInv
<1>3. DeskInv /\ [Next]_vars => [Spared]_vars
  <2> SUFFICES ASSUME DeskInv, Next PROVE Spared
    OBVIOUS
  <2>1. ASSUME NEW b \in Blocks, AdminRelease(b) PROVE Spared
    BY <2>1 DEF AdminRelease, DeskInv, DeskReleasesTheDead, Live
  <2>2. CASE CronRelease
    BY <2>2 DEF CronRelease
  <2>3. ASSUME NEW b \in Blocks, ReserveCheck(b) \/ ReserveCommit(b) PROVE Spared
    BY <2>3 DEF ReserveCheck, ReserveCommit, stock
  <2>4. ASSUME hold' = hold PROVE Spared
    BY <2>4
  <2> QED BY <2>1, <2>2, <2>3, <2>4, OtherSteps DEF HoldActions
<1> QED BY <1>1, <1>2, <1>3, PTL DEF Spec, OnlyCronTakesLiveHolds
=============================================================================
