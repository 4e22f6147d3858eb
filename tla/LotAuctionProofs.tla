-------------------------- MODULE LotAuctionProofs --------------------------
(***************************************************************************)
(* Proofs about the trade auction: for any bids, rooms and nights, and any *)
(* calls that fail, a sealed lot that is cleared once is never oversold    *)
(* and serves the dearer bid first, and a payment buys one voucher.        *)
(***************************************************************************)
EXTENDS LotAuction, SumsProofs

-----------------------------------------------------------------------------
(* The invariants. *)

\* Types; a bid without a row has asked nothing; no run plans more than was asked.
TypesInv ==
    /\ AuctionTypeOK
    /\ \A b \in Bids : IF bid[b] = "none" THEN offer[b] = NoOffer ELSE offer[b] \in Offers[b]
    /\ \A p \in Runs :
         /\ clear[p].at = "mark" => clear[p].now \in clear[p].todo
         /\ \A b \in Bids : clear[p].plan[b] =< offer[b].rooms

\* An order that is stamped on an award is for that award, and so is one that was paid.
PaymentInv ==
    /\ \A b \in Bids : stamped[b] # 0 => order[stamped[b]] = b
    /\ PaymentBuysOneVoucher

TurnedAway == {"lost", "refunded", "partial"}
Writing(p) == clear[p].at \in {"award", "mark"}

\* What one clearing of the bids it read came to: seat says which slots each bid got.
Outcome(read, seat) ==
    /\ read \subseteq Bids /\ seat \in [Bids -> SUBSET Slots]
    /\ \A b \in read : bid[b] # "none"
    /\ \A b \in Bids \ read : seat[b] = {}
    /\ \A a, b \in read :
         a # b /\ offer[a].nights \cap offer[b].nights # {} => seat[a] \cap seat[b] = {}
    /\ \A a, b \in read :
         /\ Cardinality(seat[a]) < offer[a].rooms
         /\ offer[a].price > offer[b].price /\ offer[a].nights \subseteq offer[b].nights
         => seat[b] = {}

\* The rows follow that outcome as far as it was written.
Follows(read, seat) ==
    /\ \A p \in Runs : Writing(p) =>
         /\ clear[p].todo \subseteq read
         /\ \A b \in Bids : clear[p].plan[b] = Cardinality(seat[b])
    /\ \A b \in Bids : award[b] # "none" => seat[b] # {} /\ rooms[b] = Cardinality(seat[b])
    /\ \A b \in Bids : bid[b] \in TurnedAway =>
         b \in read /\ Cardinality(seat[b]) < offer[b].rooms

\* Before the first clearing nothing is awarded, marked or about to be.
Untouched ==
    /\ \A p \in Runs : ~Writing(p)
    /\ \A b \in Bids : award[b] = "none" /\ bid[b] \notin TurnedAway

ClearingInv ==
    mode = "sealed" =>
      /\ minting = {}
      /\ loads = 0 => Untouched
      /\ loads =< 1 =>
           \E read \in SUBSET Bids : \E seat \in [Bids -> SUBSET Slots] :
             Outcome(read, seat) /\ Follows(read, seat)

AuctionInv == TypesInv /\ PaymentInv /\ ClearingInv

-----------------------------------------------------------------------------
(* The order of the bids. *)

\* Bids that asked something.
Asked(bids) ==
    \A b \in bids : /\ b \in Nat /\ offer[b].price \in Nat /\ offer[b].rooms \in 1 .. NumRooms
                    /\ Cardinality(offer[b].nights) \in Nat /\ offer[b].nights # {}

\* Bids that have a row asked something.
LEMMA AskedOffers ==
    ASSUME TypesInv, NEW bids \in SUBSET Bids, \A b \in bids : bid[b] # "none"
    PROVE  Asked(bids) /\ IsFiniteSet(bids)
<1>1. ASSUME NEW b \in bids PROVE offer[b] \in Offers[b]
  BY <1>1 DEF TypesInv
<1>2. ASSUME NEW b \in bids
      PROVE  /\ b \in Nat /\ offer[b].price \in Nat /\ offer[b].rooms \in 1 .. NumRooms
             /\ IsFiniteSet(offer[b].nights) /\ offer[b].nights # {}
  BY <1>1, <1>2, AuctionAssumption DEF AuctionAssumption
<1>3. IsFiniteSet(bids)
  BY AuctionAssumption, FS_Subset DEF AuctionAssumption
<1> QED BY <1>2, <1>3, FS_CardinalityType DEF Asked

\* The rank is a strict order in which no two bids are equal.
LEMMA BeforeIsStrict ==
    ASSUME NEW bids, Asked(bids), NEW a \in bids, NEW b \in bids
    PROVE  /\ ~(Before(a, b) /\ Before(b, a))
           /\ a # b => Before(a, b) \/ Before(b, a)
BY DEF Asked, Before

\* And a transitive one.
LEMMA BeforeIsTransitive ==
    ASSUME NEW bids, Asked(bids), NEW a \in bids, NEW b \in bids, NEW c \in bids,
           Before(a, b), Before(b, c)
    PROVE  Before(a, c)
BY DEF Asked, Before

\* So there is a last one.
LEMMA LastBid ==
    ASSUME NEW bids, Asked(bids), IsFiniteSet(bids), bids # {}
    PROVE  \E l \in bids : \A a \in bids \ {l} : Before(a, l)
<1> DEFINE Bad == {s \in SUBSET bids : s # {} /\ ~ \E l \in s : \A a \in s \ {l} : Before(a, l)}
<1>1. SUFFICES ASSUME Bad # {} PROVE FALSE
  BY <1>1 DEF Bad
<1>2. PICK s \in Bad : \A r \in SUBSET s : r # s => r \notin Bad
  <2>1. Bad \in SUBSET SUBSET bids  OBVIOUS
  <2> HIDE DEF Bad
  <2> QED BY <1>1, <2>1, SmallestSubset
<1>3. s \in SUBSET bids /\ s # {} /\ ~ \E l \in s : \A a \in s \ {l} : Before(a, l)
  BY <1>2
<1>4. PICK x \in s : TRUE
  BY <1>3
<1> DEFINE r == s \ {x}
<1>5. CASE r = {}
  BY <1>3, <1>4, <1>5
<1>6. CASE r # {}
  <2>1. r \in SUBSET s /\ r # s /\ r \notin Bad
    BY <1>2, <1>4
  <2>2. PICK m \in r : \A a \in r \ {m} : Before(a, m)
    BY <1>3, <1>6, <2>1
  <2>3. m \in bids /\ x \in bids /\ m # x /\ m \in s
    BY <1>3, <1>4, <2>2
  <2>4. CASE Before(x, m)
    <3>1. \A a \in s \ {m} : Before(a, m)
      BY <2>2, <2>4
    <3> QED BY <1>3, <2>3, <3>1
  <2>5. CASE Before(m, x)
    <3>1. ASSUME NEW a \in s \ {x} PROVE Before(a, x)
      <4>1. CASE a = m
        BY <2>5, <4>1
      <4>2. CASE a # m
        <5>1. Before(a, m) /\ a \in bids
          BY <1>3, <2>2, <3>1, <4>2
        <5> QED BY <2>3, <2>5, <5>1, BeforeIsTransitive
      <4> QED BY <4>1, <4>2
    <3> QED BY <1>3, <1>4, <3>1
  <2> QED BY <2>3, <2>4, <2>5, BeforeIsStrict
<1> QED BY <1>5, <1>6

-----------------------------------------------------------------------------
(* The seating. *)

\* Only the seats of the bids before a bid matter to it.
LEMMA VacantSame ==
    ASSUME NEW b, NEW seat, NEW other, NEW bids, NEW more,
           \A a : a \in bids /\ Before(a, b) <=> a \in more /\ Before(a, b),
           \A a \in bids : Before(a, b) => seat[a] = other[a]
    PROVE  Vacant(b, other, more) = Vacant(b, seat, bids)
<1>1. ASSUME NEW s \in Slots PROVE Busy(s, b, other, more) = Busy(s, b, seat, bids)
  <2>1. {a \in more : Before(a, b) /\ s \in other[a]} = {a \in bids : Before(a, b) /\ s \in seat[a]}
    OBVIOUS
  <2> QED BY <2>1 DEF Busy
<1> QED BY <1>1 DEF Vacant

\* The bids can be seated one after the other.
LEMMA SeatsExist ==
    ASSUME NEW bids, Asked(bids), IsFiniteSet(bids)
    PROVE  \E seat \in [bids -> SUBSET Slots] : Seats(seat, bids)
<1> DEFINE Bad == {s \in SUBSET bids : ~ \E seat \in [s -> SUBSET Slots] : Seats(seat, s)}
<1>1. SUFFICES ASSUME Bad # {} PROVE FALSE
  BY <1>1
<1>2. PICK s \in Bad : \A r \in SUBSET s : r # s => r \notin Bad
  <2>1. Bad \in SUBSET SUBSET bids  OBVIOUS
  <2> HIDE DEF Bad
  <2> QED BY <1>1, <2>1, SmallestSubset
<1>3. s \in SUBSET bids /\ ~ \E seat \in [s -> SUBSET Slots] : Seats(seat, s)
  BY <1>2
<1>4. s # {}
  <2>1. ASSUME s = {} PROVE FALSE
    <3>1. [x \in {} |-> {}] \in [s -> SUBSET Slots] /\ Seats([x \in {} |-> {}], s)
      BY <2>1 DEF Seats
    <3> QED BY <1>3, <3>1
  <2> QED BY <2>1
<1>5. Asked(s) /\ IsFiniteSet(s)
  BY <1>3, FS_Subset DEF Asked
<1>6. PICK l \in s : \A a \in s \ {l} : Before(a, l)
  BY <1>4, <1>5, LastBid
<1> DEFINE r == s \ {l}
<1>7. r \in SUBSET s /\ r # s /\ r \in SUBSET bids
  BY <1>3, <1>6
<1>8. PICK old \in [r -> SUBSET Slots] : Seats(old, r)
  BY <1>2, <1>7
<1> DEFINE seat == [a \in s |-> IF a = l THEN Lowest(Vacant(l, old, r), offer[l].rooms)
                                ELSE old[a]]
<1>9. seat \in [s -> SUBSET Slots]
  BY <1>8 DEF Lowest, Vacant
<1>10. ASSUME NEW b \in s PROVE seat[b] = Lowest(Vacant(b, seat, s), offer[b].rooms)
  <2>1. \A a : a \in r /\ Before(a, b) <=> a \in s /\ Before(a, b)
    BY <1>5, <1>6, BeforeIsStrict
  <2>2. \A a \in r : old[a] = seat[a]
    OBVIOUS
  <2> HIDE DEF r, seat
  <2>3. Vacant(b, seat, s) = Vacant(b, old, r)
    BY <2>1, <2>2, VacantSame
  <2> USE DEF r, seat
  <2>4. CASE b = l
    BY <2>3, <2>4
  <2>5. CASE b # l
    BY <1>8, <1>10, <2>3, <2>5 DEF Seats
  <2> QED BY <2>4, <2>5
<1> HIDE DEF seat
<1>11. Seats(seat, s)
  BY <1>10 DEF Seats
<1> QED BY <1>3, <1>9, <1>11

\* So the seating that is chosen is one.
LEMMA SeatingIs ==
    ASSUME NEW bids, Asked(bids), IsFiniteSet(bids)
    PROVE  Seating(bids) \in [bids -> SUBSET Slots] /\ Seats(Seating(bids), bids)
BY SeatsExist DEF Seating

\* The slots are as many as the rooms.
LEMMA SlotsAreRooms ==
    /\ IsFiniteSet(Slots) /\ Cardinality(Slots) = NumRooms
    /\ Slots \in SUBSET Nat /\ NumRooms \in Nat
<1>1. NumRooms \in Nat
  BY AuctionAssumption DEF AuctionAssumption
<1>2. IsFiniteSet(0 .. NumRooms - 1)
      /\ Cardinality(0 .. NumRooms - 1)
           = (IF 0 > NumRooms - 1 THEN 0 ELSE (NumRooms - 1) - 0 + 1)
  BY <1>1, FS_Interval
<1>3. Slots \in SUBSET Nat
  BY <1>1 DEF Slots
<1> QED BY <1>1, <1>2, <1>3 DEF Slots

\* The lowest slots are no more than wanted, and if they are fewer they are all.
LEMMA LowestSlots ==
    ASSUME NEW slots \in SUBSET Slots, NEW wanted \in Nat \ {0}
    PROVE  /\ Lowest(slots, wanted) \in SUBSET slots
           /\ Cardinality(Lowest(slots, wanted)) \in Nat
           /\ Cardinality(Lowest(slots, wanted)) =< wanted
           /\ Cardinality(Lowest(slots, wanted)) < wanted => Lowest(slots, wanted) = slots
<1> DEFINE low == Lowest(slots, wanted)
           below(s) == {r \in slots : r < s}
<1>1. low \in SUBSET slots /\ low = {s \in slots : Cardinality(below(s)) < wanted}
  BY DEF Lowest
<1>2. IsFiniteSet(slots) /\ slots \in SUBSET Nat /\ NumRooms \in Nat
      /\ \A s \in slots : s < NumRooms
  <2>1. IsFiniteSet(slots) /\ slots \in SUBSET Nat /\ NumRooms \in Nat
    BY SlotsAreRooms, FS_Subset
  <2>2. \A s \in Slots : s < NumRooms
    BY <2>1 DEF Slots
  <2> QED BY <2>1, <2>2
<1>3. IsFiniteSet(low) /\ \A s : IsFiniteSet(below(s))
  <2>1. \A s : below(s) \in SUBSET slots
    OBVIOUS
  <2> HIDE DEF low, below
  <2> QED BY <1>1, <1>2, <2>1, FS_Subset
<1>4. Cardinality(low) \in Nat /\ \A s : Cardinality(below(s)) \in Nat
  BY <1>3, FS_CardinalityType
<1> HIDE DEF low
<1>5. Cardinality(low) =< wanted
  <2>1. CASE low = {}
    BY <2>1, FS_EmptySet
  <2>2. CASE low # {}
    <3> DEFINE B == {n \in Nat : NumRooms - n \in low}
    <3>1. PICK x \in low : TRUE
      BY <2>2
    <3>2. NumRooms - x \in B
      BY <1>1, <1>2, <3>1
    <3>3. PICK n \in B : \A m \in B : n =< m
      <4>1. B \in SUBSET Nat /\ B # {}
        BY <3>2
      <4> HIDE DEF B
      <4> QED BY <4>1, LeastNumber
    <3> DEFINE s == NumRooms - n
    <3>4. s \in low /\ s \in Nat
      BY <1>1, <1>2, <3>3
    <3>5. ASSUME NEW r \in low PROVE r =< s
      <4>1. NumRooms - r \in B /\ r \in Nat
        BY <1>1, <1>2, <3>5
      <4>2. n =< NumRooms - r /\ n \in Nat
        BY <3>3, <4>1
      <4> QED BY <1>2, <4>1, <4>2
    <3> HIDE DEF s
    <3>6. low \subseteq below(s) \cup {s}
      <4>1. ASSUME NEW r \in low, r # s PROVE r < s
        <5>1. r \in Nat /\ r =< s
          BY <1>1, <1>2, <3>5, <4>1
        <5> QED BY <3>4, <4>1, <5>1
      <4> QED BY <1>1, <4>1
    <3>7. IsFiniteSet(below(s) \cup {s})
          /\ Cardinality(below(s) \cup {s}) = Cardinality(below(s)) + 1
      <4>1. s \notin below(s)
        BY <3>4
      <4> QED BY <1>3, <4>1, FS_AddElement
    <3>8. Cardinality(low) =< Cardinality(below(s) \cup {s})
      BY <3>6, <3>7, FS_Subset
    <3>9. Cardinality(below(s)) < wanted
      BY <1>1, <3>4
    <3> HIDE DEF below
    <3> QED BY <1>4, <3>7, <3>8, <3>9
  <2> QED BY <2>1, <2>2
<1>6. ASSUME Cardinality(low) < wanted, low # slots PROVE FALSE
  <2> DEFINE B == slots \ low
  <2>1. PICK s \in B : \A r \in B : s =< r
    <3>1. B \in SUBSET Nat /\ B # {}
      BY <1>1, <1>2, <1>6
    <3> HIDE DEF B
    <3> QED BY <3>1, LeastNumber
  <2>2. below(s) \subseteq low
    <3>1. ASSUME NEW r \in slots, r < s, r \notin low PROVE FALSE
      <4>1. s =< r /\ s \in Nat /\ r \in Nat
        BY <1>2, <2>1, <3>1
      <4> QED BY <3>1, <4>1
    <3> QED BY <3>1
  <2>3. Cardinality(below(s)) =< Cardinality(low)
    BY <1>3, <2>2, FS_Subset
  <2>4. ~(Cardinality(below(s)) < wanted)
    BY <1>1, <2>1
  <2> HIDE DEF below
  <2> QED BY <1>4, <1>6, <2>3, <2>4
<1> QED BY <1>1, <1>4, <1>5, <1>6 DEF low

\* What a clearing of some bids comes to.
LEMMA ClearingOutcome ==
    ASSUME NEW read \in SUBSET Bids, Asked(read), IsFiniteSet(read),
           \A b \in read : bid[b] # "none"
    PROVE  \E seat \in [Bids -> SUBSET Slots] :
             /\ Outcome(read, seat)
             /\ ClearLot(read) = [b \in Bids |-> Cardinality(seat[b])]
             /\ \A b \in read : Cardinality(seat[b]) =< offer[b].rooms
<1> DEFINE given == Seating(read)
           seat == [b \in Bids |-> IF b \in read THEN given[b] ELSE {}]
           free(b) == Vacant(b, given, read)
<1>1. given \in [read -> SUBSET Slots]
      /\ \A b \in read : given[b] = Lowest(free(b), offer[b].rooms)
  BY SeatingIs DEF Seats
<1>2. seat \in [Bids -> SUBSET Slots]
  BY <1>1
<1>3. ClearLot(read) = [b \in Bids |-> Cardinality(seat[b])]
  BY FS_EmptySet DEF ClearLot
<1>4. ASSUME NEW b \in read
      PROVE  /\ seat[b] = given[b] /\ seat[b] \subseteq free(b)
             /\ Cardinality(seat[b]) =< offer[b].rooms
             /\ Cardinality(seat[b]) < offer[b].rooms => seat[b] = free(b)
  <2>1. free(b) \in SUBSET Slots /\ offer[b].rooms \in Nat \ {0}
    BY SlotsAreRooms DEF Vacant, Asked
  <2>2. given[b] = Lowest(free(b), offer[b].rooms)
    BY <1>1
  <2> HIDE DEF free, given
  <2>3. seat[b] = given[b]
    OBVIOUS
  <2> HIDE DEF seat
  <2> QED BY <2>1, <2>2, <2>3, LowestSlots, Zenon
<1> HIDE DEF seat, given
<1>5. ASSUME NEW a \in read, NEW b \in read, NEW s \in seat[b], s \in seat[a], Before(a, b)
      PROVE  offer[a].nights \cap offer[b].nights = {}
  <2>1. s \in free(b) /\ s \in given[a]
    BY <1>4, <1>5
  <2>2. offer[a].nights \subseteq Busy(s, b, given, read)
    BY <1>5, <2>1 DEF Busy
  <2>3. offer[b].nights \cap Busy(s, b, given, read) = {}
    BY <2>1 DEF Vacant
  <2> QED BY <2>2, <2>3
<1>6. ASSUME NEW a \in read, NEW b \in read, a # b, offer[a].nights \cap offer[b].nights # {}
      PROVE  seat[a] \cap seat[b] = {}
  BY <1>5, <1>6, BeforeIsStrict
<1>7. ASSUME NEW a \in read, NEW b \in read, Cardinality(seat[a]) < offer[a].rooms,
             offer[a].price > offer[b].price, offer[a].nights \subseteq offer[b].nights,
             NEW s \in seat[b]
      PROVE  FALSE
  <2>1. Before(a, b)
    BY <1>7 DEF Before
  <2>2. offer[a].nights # {}
    BY DEF Asked
  <2>3. s \notin seat[a]
    BY <1>5, <1>7, <2>1, <2>2
  <2>4. s \in Slots /\ s \in free(b) /\ s \notin free(a)
    <3>1. s \in free(b) /\ s \notin free(a)
      BY <1>4, <1>7, <2>3
    <3> QED BY <3>1 DEF Vacant
  <2>5. PICK c \in read : Before(c, a) /\ s \in given[c] /\ offer[c].nights \cap offer[a].nights # {}
    BY <2>4 DEF Vacant, Busy
  <2>6. Before(c, b)
    BY <2>1, <2>5, BeforeIsTransitive
  <2>7. s \in seat[c]
    BY <1>4, <2>5
  <2>8. offer[c].nights \cap offer[b].nights = {}
    BY <1>5, <2>6, <2>7
  <2> QED BY <1>7, <2>5, <2>8
<1>8. \A b \in Bids \ read : seat[b] = {}
  BY DEF seat
<1>9. Outcome(read, seat)
  BY <1>2, <1>6, <1>7, <1>8 DEF Outcome
<1> QED BY <1>2, <1>3, <1>4, <1>9

-----------------------------------------------------------------------------
(* What the invariants say of the awards. *)

\* Bids that share a night sit on different rooms, so their rooms fit.
LEMMA AwardsOfOneClearingFit ==
    ASSUME NEW read \in SUBSET Bids, NEW seat \in [Bids -> SUBSET Slots],
           Outcome(read, seat), Follows(read, seat), NEW d
    PROVE  SumFunctionOnSet(rooms, {b \in Standing : d \in offer[b].nights}) =< NumRooms
<1> DEFINE T == {b \in Standing : d \in offer[b].nights}
<1>1. T \in SUBSET Bids /\ \A b \in T : award[b] # "none" /\ d \in offer[b].nights
  BY DEF Standing
<1> HIDE DEF T
<1>2. IsFiniteSet(T)
  BY <1>1, AuctionAssumption, FS_Subset DEF AuctionAssumption
<1>3. \A b \in T : rooms[b] = Cardinality(seat[b]) /\ seat[b] \subseteq Slots /\ b \in read
  BY <1>1 DEF Follows, Outcome
<1>4. \A a, b \in T : a # b => seat[a] \cap seat[b] = {}
  BY <1>1, <1>3 DEF Outcome
<1>5. SumFunctionOnSet(rooms, T) =< Cardinality(Slots)
  BY <1>2, <1>3, <1>4, SlotsAreRooms, SumOfSizes
<1> QED BY <1>5, SlotsAreRooms DEF T

\* The awards of a sealed lot, cleared once, fit its rooms.
LEMMA ClearingFits ==
    ASSUME ClearingInv
    PROVE  OneRunFits
<1>1. ASSUME loads =< 1, mode = "sealed" PROVE AwardsFit
  <2>1. PICK read \in SUBSET Bids, seat \in [Bids -> SUBSET Slots] :
          Outcome(read, seat) /\ Follows(read, seat)
    BY <1>1 DEF ClearingInv
  <2> QED BY <2>1, AwardsOfOneClearingFit DEF AwardsFit
<1> QED BY <1>1 DEF OneRunFits, AwardsFit

\* A bid that envied another would have been given its room.
LEMMA ClearingIsFair ==
    ASSUME ClearingInv
    PROVE  NoEnvy
<1>1. ASSUME mode = "sealed", loads =< 1, NEW a \in Bids, NEW b \in Bids,
             bid[a] \in {"lost", "refunded", "partial"},
             offer[a].price > offer[b].price, offer[a].nights \subseteq offer[b].nights
      PROVE  award[b] = "none"
  <2>1. PICK read \in SUBSET Bids, seat \in [Bids -> SUBSET Slots] :
          Outcome(read, seat) /\ Follows(read, seat)
    BY <1>1 DEF ClearingInv
  <2>2. a \in read /\ Cardinality(seat[a]) < offer[a].rooms
    BY <1>1, <2>1 DEF Follows, TurnedAway
  <2>3. seat[b] = {}
    BY <1>1, <2>1, <2>2 DEF Outcome
  <2> QED BY <2>1, <2>3 DEF Follows
<1> QED BY <1>1 DEF NoEnvy

-----------------------------------------------------------------------------
(* Steps of the clearing. *)

\* An outcome stays what it is as long as the bids it read do.
LEMMA OutcomeStays ==
    ASSUME NEW read \in SUBSET Bids, NEW seat \in [Bids -> SUBSET Slots], Outcome(read, seat),
           \A b \in read : offer'[b] = offer[b] /\ bid'[b] # "none"
    PROVE  Outcome(read, seat)'
BY DEF Outcome

\* A step that writes no award, marks no bid and begins no clearing.
Quiet ==
    /\ mode' = mode /\ loads' = loads
    /\ mode = "sealed" => minting' = minting
    /\ \A p \in Runs : clear'[p] = clear[p] \/ ~Writing(p)'
    /\ \A b \in Bids : bid[b] # "none" => offer'[b] = offer[b] /\ bid'[b] # "none"
    /\ \A b \in Bids : award'[b] # "none" => award[b] # "none" /\ rooms'[b] = rooms[b]
    /\ \A b \in Bids : bid'[b] \in TurnedAway => bid[b] \in TurnedAway

\* Such a step keeps the outcome and what follows it.
LEMMA QuietClearing ==
    ASSUME ClearingInv, mode' = mode, mode = "sealed" => Quiet
    PROVE  ClearingInv'
<1>1. SUFFICES ASSUME mode = "sealed"
               PROVE  /\ minting' = {}
                      /\ loads' = 0 => Untouched'
                      /\ loads' =< 1 =>
                           \E read \in SUBSET Bids : \E seat \in [Bids -> SUBSET Slots] :
                             Outcome(read, seat)' /\ Follows(read, seat)'
  BY DEF ClearingInv
<1>2. Quiet
  BY <1>1
<1>3. minting' = {}
  BY <1>1, <1>2 DEF ClearingInv, Quiet
<1>4. ASSUME loads' = 0 PROVE Untouched'
  <2>1. Untouched
    BY <1>1, <1>2, <1>4 DEF ClearingInv, Quiet
  <2> QED BY <1>2, <2>1 DEF Untouched, Quiet, Writing
<1>5. ASSUME loads' =< 1
      PROVE  \E read \in SUBSET Bids : \E seat \in [Bids -> SUBSET Slots] :
               Outcome(read, seat)' /\ Follows(read, seat)'
  <2>1. PICK read \in SUBSET Bids, seat \in [Bids -> SUBSET Slots] :
          Outcome(read, seat) /\ Follows(read, seat)
    BY <1>1, <1>2, <1>5 DEF ClearingInv, Quiet
  <2>2. \A b \in read : offer'[b] = offer[b] /\ bid'[b] # "none"
    BY <1>2, <2>1 DEF Outcome, Quiet
  <2>3. Outcome(read, seat)'
    BY <2>1, <2>2, OutcomeStays
  <2>4. ASSUME NEW p \in Runs, Writing(p)'
        PROVE  /\ clear'[p].todo \subseteq read
               /\ \A b \in Bids : clear'[p].plan[b] = Cardinality(seat[b])
    BY <1>2, <2>1, <2>4 DEF Quiet, Follows, Writing
  <2>5. \A b \in Bids : award'[b] # "none" => seat[b] # {} /\ rooms'[b] = Cardinality(seat[b])
    BY <1>2, <2>1 DEF Quiet, Follows
  <2>6. \A b \in Bids : bid'[b] \in TurnedAway =>
          b \in read /\ Cardinality(seat[b]) < offer'[b].rooms
    BY <1>2, <2>1, <2>2 DEF Quiet, Follows
  <2>7. Follows(read, seat)'
    BY <2>4, <2>5, <2>6 DEF Follows
  <2> QED BY <2>3, <2>7
<1> QED BY <1>3, <1>4, <1>5

\* A clearing reads the bids.
LEMMA LoadStep ==
    ASSUME TypesInv, ClearingInv, NEW p \in Runs, Load(p)
    PROVE  ClearingInv'
<1>1. PICK ok \in BOOLEAN :
        LET bids == {b \in Bids : ok /\ bid[b] = "active"} IN
        /\ Advance(p, [at |-> IF bids = {} THEN "close" ELSE "award",
                       todo |-> bids, now |-> 0, plan |-> ClearLot(bids)])
        /\ loads' = IF bids = {} \/ loads = 2 THEN loads ELSE loads + 1
        /\ UNCHANGED <<lot, table>>
  BY DEF Load, Ok
<1> DEFINE bids == {b \in Bids : ok /\ bid[b] = "active"}
           run == [at |-> IF bids = {} THEN "close" ELSE "award",
                   todo |-> bids, now |-> 0, plan |-> ClearLot(bids)]
<1>2. /\ clear' = [clear EXCEPT ![p] = run]
      /\ loads' = IF bids = {} \/ loads = 2 THEN loads ELSE loads + 1
      /\ UNCHANGED <<mode, offer, minting, bid, award, rooms>>
  BY <1>1 DEF Advance, table
<1>3. clear'[p] = run /\ \A q \in Runs \ {p} : clear'[q] = clear[q]
  BY <1>2 DEF TypesInv, AuctionTypeOK
<1>4. bids \in SUBSET Bids /\ \A b \in bids : bid[b] # "none"
  OBVIOUS
<1> HIDE DEF bids
<1>5. CASE bids = {}
  <2>1. mode = "sealed" => Quiet
    BY <1>2, <1>3, <1>5 DEF Quiet, Writing
  <2> QED BY <1>2, <2>1, QuietClearing
<1>6. CASE bids # {} /\ loads # 0
  <2>1. loads' # 0 /\ ~(loads' =< 1)
    <3>1. loads \in 0 .. 2
      BY DEF TypesInv, AuctionTypeOK
    <3> QED BY <1>2, <1>6, <3>1
  <2> QED BY <1>2, <2>1 DEF ClearingInv
<1>7. CASE bids # {} /\ loads = 0 /\ mode = "sealed"
  <2>1. Untouched /\ loads' = 1 /\ minting' = {}
    BY <1>2, <1>7 DEF ClearingInv
  <2>2. PICK read \in SUBSET Bids : read = bids
    BY <1>4
  <2>3. PICK seat \in [Bids -> SUBSET Slots] :
          Outcome(read, seat) /\ ClearLot(read) = [b \in Bids |-> Cardinality(seat[b])]
    BY <1>4, <2>2, AskedOffers, ClearingOutcome
  <2>4. Outcome(read, seat)'
    BY <1>2, <2>3 DEF Outcome
  <2>5. Follows(read, seat)'
    <3>1. ASSUME NEW q \in Runs, Writing(q)'
          PROVE  /\ clear'[q].todo \subseteq read
                 /\ \A b \in Bids : clear'[q].plan[b] = Cardinality(seat[b])
      <4>1. q = p
        BY <1>3, <2>1, <3>1 DEF Untouched, Writing
      <4> QED BY <1>3, <2>2, <2>3, <4>1
    <3>2. \A b \in Bids : award'[b] = "none" /\ bid'[b] \notin TurnedAway
      BY <1>2, <2>1 DEF Untouched
    <3> QED BY <3>1, <3>2 DEF Follows
  <2> QED BY <2>1, <2>4, <2>5 DEF ClearingInv
<1>8. CASE mode # "sealed"
  BY <1>2, <1>8 DEF ClearingInv
<1> QED BY <1>5, <1>6, <1>7, <1>8

\* While a run writes, its outcome is there; so it is enough to say how the rows follow it.
LEMMA WritingStep ==
    ASSUME ClearingInv, NEW p \in Runs, Writing(p), mode' = mode, loads' = loads, minting' = minting,
           \A b \in Bids : offer'[b] = offer[b] /\ (bid[b] # "none" => bid'[b] # "none"),
           \A read \in SUBSET Bids : \A seat \in [Bids -> SUBSET Slots] :
             Outcome(read, seat) /\ Follows(read, seat) => Follows(read, seat)'
    PROVE  ClearingInv'
<1>1. SUFFICES ASSUME mode = "sealed"
               PROVE  /\ minting' = {}
                      /\ loads' = 0 => Untouched'
                      /\ loads' =< 1 =>
                           \E read \in SUBSET Bids : \E seat \in [Bids -> SUBSET Slots] :
                             Outcome(read, seat)' /\ Follows(read, seat)'
  BY DEF ClearingInv
<1>2. minting' = {} /\ loads' # 0
  BY <1>1 DEF ClearingInv, Untouched
<1>3. ASSUME loads' =< 1
      PROVE  \E read \in SUBSET Bids : \E seat \in [Bids -> SUBSET Slots] :
               Outcome(read, seat)' /\ Follows(read, seat)'
  <2>1. PICK read \in SUBSET Bids, seat \in [Bids -> SUBSET Slots] :
          Outcome(read, seat) /\ Follows(read, seat)
    BY <1>1, <1>3 DEF ClearingInv
  <2>2. \A b \in read : offer'[b] = offer[b] /\ bid'[b] # "none"
    BY <2>1 DEF Outcome
  <2>3. Outcome(read, seat)'
    BY <2>1, <2>2, OutcomeStays
  <2> QED BY <2>1, <2>3
<1> QED BY <1>2, <1>3

\* A clearing inserts an award of the rooms it planned.
LEMMA AwardStep ==
    ASSUME TypesInv, ClearingInv, NEW p \in Runs, AwardBid(p)
    PROVE  ClearingInv'
<1>1. PICK b \in Dearest(clear[p].todo), ok \in BOOLEAN :
        /\ IF ok /\ clear[p].plan[b] > 0 /\ award[b] = "none"
           THEN /\ award' = [award EXCEPT ![b] = "awarded"]
                /\ rooms' = [rooms EXCEPT ![b] = clear[p].plan[b]]
                /\ late' = late \ {b}
           ELSE UNCHANGED <<award, rooms, late>>
        /\ Advance(p, [clear[p] EXCEPT !.at = "mark", !.now = b])
        /\ UNCHANGED <<lot, bid, tagged, loads>>
  BY DEF AwardBid, Ok
<1>2. /\ clear[p].at = "award" /\ b \in clear[p].todo /\ Writing(p)
      /\ UNCHANGED <<mode, loads, minting, offer, bid>>
  BY <1>1 DEF AwardBid, Dearest, Advance, Writing
<1>3. /\ \A q \in Runs : clear'[q].todo = clear[q].todo /\ clear'[q].plan = clear[q].plan
      /\ \A q \in Runs : Writing(q)' => Writing(q)
  BY <1>1, <1>2 DEF Advance, TypesInv, AuctionTypeOK, RunStates, Writing
<1>4. /\ \A c \in Bids : award'[c] # "none" =>
           \/ award[c] # "none" /\ rooms'[c] = rooms[c]
           \/ c = b /\ clear[p].plan[b] > 0 /\ rooms'[c] = clear[p].plan[b]
  BY <1>1 DEF TypesInv, AuctionTypeOK
<1>5. ASSUME NEW read \in SUBSET Bids, NEW seat \in [Bids -> SUBSET Slots],
             Outcome(read, seat), Follows(read, seat)
      PROVE  Follows(read, seat)'
  <2>1. b \in Bids /\ clear[p].plan[b] = Cardinality(seat[b])
    BY <1>2, <1>5 DEF Follows
  <2>2. \A q \in Runs : Writing(q)' =>
          /\ clear'[q].todo \subseteq read
          /\ \A c \in Bids : clear'[q].plan[c] = Cardinality(seat[c])
    BY <1>3, <1>5 DEF Follows
  <2>3. ASSUME NEW c \in Bids, award'[c] # "none"
        PROVE  seat[c] # {} /\ rooms'[c] = Cardinality(seat[c])
    <3>1. CASE award[c] # "none" /\ rooms'[c] = rooms[c]
      BY <1>5, <3>1 DEF Follows
    <3>2. CASE c = b /\ clear[p].plan[b] > 0 /\ rooms'[c] = clear[p].plan[b]
      BY <2>1, <3>2, FS_EmptySet
    <3> QED BY <1>4, <2>3, <3>1, <3>2
  <2> QED BY <1>2, <1>5, <2>2, <2>3 DEF Follows
<1> QED BY <1>2, <1>5, WritingStep

\* A clearing marks a bid by the rooms it planned for it.
LEMMA MarkStep ==
    ASSUME TypesInv, ClearingInv, NEW p \in Runs, MarkBid(p)
    PROVE  ClearingInv'
<1> DEFINE b == clear[p].now
           n == clear[p].plan[b]
           rest == clear[p].todo \ {b}
<1>1. PICK ok \in BOOLEAN :
        bid' = IF ok /\ bid[b] = "active"
               THEN [bid EXCEPT ![b] = IF n = 0 THEN "lost"
                                       ELSE IF n >= offer[b].rooms THEN "won" ELSE "partial"]
               ELSE bid
  BY DEF MarkBid, Ok
<1>2. /\ clear[p].at = "mark" /\ Writing(p)
      /\ clear' = [clear EXCEPT ![p] = [clear[p] EXCEPT !.at = IF rest = {} THEN "flip" ELSE "award",
                                                        !.todo = rest, !.now = 0]]
      /\ UNCHANGED <<mode, loads, minting, offer, award, rooms>>
  BY DEF MarkBid, Advance, Writing
<1>3. b \in clear[p].todo /\ b \in Bids /\ n \in Nat
  BY <1>2 DEF TypesInv, AuctionTypeOK, RunStates
<1> HIDE DEF b, n, rest
<1>4. /\ \A q \in Runs : clear'[q].todo \subseteq clear[q].todo /\ clear'[q].plan = clear[q].plan
      /\ \A q \in Runs : Writing(q)' => Writing(q)
  BY <1>2 DEF TypesInv, AuctionTypeOK, RunStates, Writing, rest
<1>5. /\ \A c \in Bids : c # b => bid'[c] = bid[c]
      /\ bid[b] # "none" => bid'[b] # "none"
      /\ bid'[b] \in TurnedAway => bid[b] \in TurnedAway \/ n = 0 \/ ~(n >= offer[b].rooms)
  BY <1>1, <1>3 DEF TypesInv, AuctionTypeOK, TurnedAway
<1>6. \A c \in Bids : bid[c] # "none" => bid'[c] # "none"
  BY <1>5
<1>7. ASSUME NEW read \in SUBSET Bids, NEW seat \in [Bids -> SUBSET Slots],
             Outcome(read, seat), Follows(read, seat)
      PROVE  Follows(read, seat)'
  <2>1. b \in read /\ n = Cardinality(seat[b])
    BY <1>2, <1>3, <1>7 DEF Follows, n
  <2>2. Asked(read)
    BY <1>7, AskedOffers DEF Outcome
  <2>3. \A q \in Runs : Writing(q)' =>
          /\ clear'[q].todo \subseteq read
          /\ \A c \in Bids : clear'[q].plan[c] = Cardinality(seat[c])
    BY <1>4, <1>7 DEF Follows
  <2>4. bid'[b] \in TurnedAway => Cardinality(seat[b]) < offer[b].rooms
    <3>1. offer[b].rooms \in Nat \ {0}
      BY <2>1, <2>2 DEF Asked
    <3>2. CASE bid[b] \in TurnedAway
      BY <1>3, <1>7, <3>2 DEF Follows
    <3>3. CASE n = 0 \/ ~(n >= offer[b].rooms)
      BY <1>3, <2>1, <3>1, <3>3
    <3> QED BY <1>5, <3>2, <3>3
  <2>5. \A c \in Bids : bid'[c] \in TurnedAway =>
          c \in read /\ Cardinality(seat[c]) < offer'[c].rooms
    <3>1. ASSUME NEW c \in Bids, bid'[c] \in TurnedAway, c # b
          PROVE  c \in read /\ Cardinality(seat[c]) < offer[c].rooms
      BY <1>5, <1>7, <3>1 DEF Follows
    <3> QED BY <1>2, <2>1, <2>4, <3>1
  <2> QED BY <1>2, <1>7, <2>3, <2>5 DEF Follows
<1> QED BY <1>2, <1>6, <1>7, WritingStep

-----------------------------------------------------------------------------
(* Types. *)

\* What every step may rely on about one bid.
LEMMA BidTypes ==
    ASSUME TypesInv, NEW b \in Bids
    PROVE  /\ bid[b] \in BidStatuses /\ award[b] \in AwardStatuses
           /\ rooms[b] \in 0 .. NumRooms /\ rooms[b] =< offer[b].rooms
           /\ \A o \in Offers[b] : o.rooms \in 1 .. NumRooms
           /\ offer[b] = NoOffer \/ offer[b] \in Offers[b]
           /\ NumRooms \in Nat /\ offer[b].rooms \in 0 .. NumRooms
<1>1. NumRooms \in Nat /\ \A o \in Offers[b] : o.rooms \in 1 .. NumRooms
  BY AuctionAssumption DEF AuctionAssumption
<1>2. offer[b] = NoOffer \/ offer[b] \in Offers[b]
  BY DEF TypesInv
<1>3. offer[b].rooms \in 0 .. NumRooms
  BY <1>1, <1>2 DEF NoOffer
<1> QED BY <1>1, <1>2, <1>3 DEF TypesInv, AuctionTypeOK, BidStatuses

\* A bid is placed with an offer it may make; nothing was awarded or planned for it yet.
LEMMA PlaceTypes ==
    ASSUME TypesInv, NEW b \in Bids, NEW status \in BidStatuses \ {"none"}, Place(b, status),
           late' = late, minting' \in SUBSET Bids
    PROVE  TypesInv'
<1>1. PICK o \in Offers[b] : offer' = [offer EXCEPT ![b] = o]
  BY DEF Place
<1>2. /\ bid[b] = "none" /\ bid' = [bid EXCEPT ![b] = status]
      /\ UNCHANGED <<mode, lot, window, award, rooms, tagged, cancelling, closing, paying, runs>>
  BY DEF Place, Fresh
<1>3. offer[b] = NoOffer
  BY <1>2 DEF TypesInv
<1>4. o.rooms \in 1 .. NumRooms /\ NumRooms \in Nat
  BY BidTypes
<1>5. /\ offer' \in [Bids -> {NoOffer} \cup UNION {Offers[c] : c \in Bids}]
      /\ offer'[b] = o /\ \A c \in Bids \ {b} : offer'[c] = offer[c]
  BY <1>1 DEF TypesInv, AuctionTypeOK
<1>6. \A c \in Bids : rooms'[c] =< offer'[c].rooms
  <2>1. \A c \in Bids : rooms[c] \in 0 .. NumRooms /\ rooms[c] =< offer[c].rooms
    BY BidTypes
  <2>2. rooms[b] =< 0
    BY <1>3, <2>1 DEF NoOffer
  <2>3. rooms[b] =< o.rooms
    BY <1>4, <2>1, <2>2
  <2> QED BY <1>2, <1>5, <2>1, <2>3
<1>7. AuctionTypeOK'
  <2>1. bid' \in [Bids -> BidStatuses] /\ late' \in SUBSET Bids
    BY <1>2 DEF TypesInv, AuctionTypeOK
  <2> QED BY <1>2, <1>5, <1>6, <2>1 DEF TypesInv, AuctionTypeOK, paying, runs
<1>8. \A c \in Bids : IF bid'[c] = "none" THEN offer'[c] = NoOffer ELSE offer'[c] \in Offers[c]
  BY <1>2, <1>5 DEF TypesInv, AuctionTypeOK
<1>9. ASSUME NEW p \in Runs, NEW c \in Bids PROVE clear'[p].plan[c] =< offer'[c].rooms
  <2>1. clear' = clear
    BY <1>2 DEF runs
  <2>2. clear[p].plan[c] \in 0 .. NumRooms /\ clear[p].plan[c] =< offer[c].rooms
    BY DEF TypesInv, AuctionTypeOK, RunStates
  <2>3. c = b => clear[p].plan[c] =< 0
    BY <1>3, <2>2 DEF NoOffer
  <2> QED BY <1>4, <1>5, <2>1, <2>2, <2>3
<1>10. \A p \in Runs : clear'[p].at = "mark" => clear'[p].now \in clear'[p].todo
  BY <1>2 DEF TypesInv, runs
<1> QED BY <1>7, <1>8, <1>9, <1>10 DEF TypesInv

\* A handler writes the status of one bid that is there.
LEMMA SetBidTypes ==
    ASSUME TypesInv, NEW b \in Bids, NEW from, NEW to \in BidStatuses \ {"none"},
           "none" \notin from, SetBid(b, from, to),
           {late, minting, cancelling}' \subseteq SUBSET Bids
    PROVE  TypesInv'
<1>1. /\ bid[b] # "none" /\ bid' = [bid EXCEPT ![b] = to]
      /\ UNCHANGED <<mode, lot, window, offer, award, rooms, tagged, closing, paying, runs>>
  BY DEF SetBid
<1>2. AuctionTypeOK'
  BY <1>1 DEF TypesInv, AuctionTypeOK, BidStatuses, paying, runs
<1>3. \A c \in Bids : IF bid'[c] = "none" THEN offer'[c] = NoOffer ELSE offer'[c] \in Offers[c]
  BY <1>1 DEF TypesInv, AuctionTypeOK
<1> QED BY <1>1, <1>2, <1>3 DEF TypesInv, runs

\* A step that leaves bids and runs alone keeps the types if it keeps those of the rest.
LEMMA OtherTypes ==
    ASSUME TypesInv, UNCHANGED <<mode, offer, bid, clear>>, AuctionTypeOK'
    PROVE  TypesInv'
BY DEF TypesInv

\* So does one of a clearing run, with a plan of at most what was asked.
LEMMA RunTypes ==
    ASSUME TypesInv, NEW p \in Runs, NEW run \in RunStates, clear' = [clear EXCEPT ![p] = run],
           run.at = "mark" => run.now \in run.todo,
           \A b \in Bids : run.plan[b] =< offer[b].rooms,
           UNCHANGED offer, AuctionTypeOK',
           \A b \in Bids : bid'[b] = "none" <=> bid[b] = "none"
    PROVE  TypesInv'
<1>1. clear'[p] = run /\ \A q \in Runs \ {p} : clear'[q] = clear[q]
  BY DEF TypesInv, AuctionTypeOK
<1> QED BY <1>1 DEF TypesInv

\* A run at rest plans nothing.
LEMMA NoRunTypes ==
    ASSUME TypesInv
    PROVE  /\ {NoRun, [NoRun EXCEPT !.at = "load"]} \subseteq RunStates
           /\ \A b \in Bids : NoRun.plan[b] =< offer[b].rooms
<1>1. NumRooms \in Nat /\ 0 \in 0 .. NumRooms
  BY AuctionAssumption DEF AuctionAssumption
<1>2. \A b \in Bids : offer[b].rooms \in 0 .. NumRooms
  BY BidTypes
<1> QED BY <1>1, <1>2 DEF RunStates, NoRun

\* A clearing plans rooms for the bids it read, no more than each asked.
LEMMA LoadTypes ==
    ASSUME TypesInv, NEW p \in Runs, Load(p)
    PROVE  TypesInv'
<1>1. PICK ok \in BOOLEAN, read \in SUBSET Bids :
        /\ \A b \in read : bid[b] # "none"
        /\ Advance(p, [at |-> IF read = {} THEN "close" ELSE "award",
                       todo |-> read, now |-> 0, plan |-> ClearLot(read)])
        /\ loads' = IF read = {} \/ loads = 2 THEN loads ELSE loads + 1
        /\ UNCHANGED <<lot, table>>
  <2>1. PICK ok \in BOOLEAN :
          LET bids == {b \in Bids : ok /\ bid[b] = "active"} IN
          /\ Advance(p, [at |-> IF bids = {} THEN "close" ELSE "award",
                         todo |-> bids, now |-> 0, plan |-> ClearLot(bids)])
          /\ loads' = IF bids = {} \/ loads = 2 THEN loads ELSE loads + 1
          /\ UNCHANGED <<lot, table>>
    BY DEF Load, Ok
  <2>2. {b \in Bids : ok /\ bid[b] = "active"} \in SUBSET Bids
        /\ \A b \in {c \in Bids : ok /\ bid[c] = "active"} : bid[b] # "none"
    OBVIOUS
  <2> QED BY <2>1, <2>2
<1>2. PICK seat \in [Bids -> SUBSET Slots] :
        /\ ClearLot(read) = [b \in Bids |-> Cardinality(seat[b])]
        /\ \A b \in read : Cardinality(seat[b]) =< offer[b].rooms
        /\ Outcome(read, seat)
  BY <1>1, AskedOffers, ClearingOutcome
<1>3. ASSUME NEW b \in Bids
      PROVE  Cardinality(seat[b]) \in 0 .. NumRooms /\ Cardinality(seat[b]) =< offer[b].rooms
  <2>1. IsFiniteSet(Slots) /\ Cardinality(Slots) = NumRooms /\ seat[b] \subseteq Slots
    BY SlotsAreRooms
  <2>2. Cardinality(seat[b]) \in Nat /\ Cardinality(seat[b]) =< NumRooms /\ NumRooms \in Nat
    BY <2>1, SlotsAreRooms, FS_Subset, FS_CardinalityType
  <2>3. b \notin read => Cardinality(seat[b]) = 0 /\ offer[b].rooms \in 0 .. NumRooms
    BY <1>2, FS_EmptySet, BidTypes DEF Outcome
  <2> QED BY <1>2, <2>2, <2>3
<1> DEFINE run == [at |-> IF read = {} THEN "close" ELSE "award",
                   todo |-> read, now |-> 0, plan |-> ClearLot(read)]
<1>4. /\ run \in RunStates /\ run.at # "mark"
      /\ \A b \in Bids : run.plan[b] =< offer[b].rooms
  BY <1>2, <1>3 DEF RunStates
<1>5. /\ clear' = [clear EXCEPT ![p] = run]
      /\ loads' \in 0 .. 2
      /\ UNCHANGED <<lot, table, mode, window, offer, minting, cancelling, closing, paying, crashes>>
  <2>1. loads \in 0 .. 2
    BY DEF TypesInv, AuctionTypeOK
  <2> QED BY <1>1, <2>1 DEF Advance
<1> HIDE DEF run
<1>6. clear' \in [Runs -> RunStates]
  BY <1>4, <1>5 DEF TypesInv, AuctionTypeOK
<1>7. AuctionTypeOK'
  BY <1>5, <1>6 DEF TypesInv, AuctionTypeOK, table, paying
<1>8. UNCHANGED bid
  BY <1>5 DEF table
<1> QED BY <1>4, <1>5, <1>7, <1>8, RunTypes

\* An award is of the rooms that were planned.
LEMMA AwardTypes ==
    ASSUME TypesInv, NEW p \in Runs, AwardBid(p)
    PROVE  TypesInv'
<1>1. PICK b \in Dearest(clear[p].todo), ok \in BOOLEAN :
        /\ IF ok /\ clear[p].plan[b] > 0 /\ award[b] = "none"
           THEN /\ award' = [award EXCEPT ![b] = "awarded"]
                /\ rooms' = [rooms EXCEPT ![b] = clear[p].plan[b]]
                /\ late' = late \ {b}
           ELSE UNCHANGED <<award, rooms, late>>
        /\ Advance(p, [clear[p] EXCEPT !.at = "mark", !.now = b])
        /\ UNCHANGED <<lot, bid, tagged, loads>>
  BY DEF AwardBid, Ok
<1> DEFINE run == [clear[p] EXCEPT !.at = "mark", !.now = b]
<1>2. b \in clear[p].todo /\ b \in Bids
  BY DEF TypesInv, AuctionTypeOK, RunStates, Dearest
<1>3. /\ run \in RunStates /\ run.now \in run.todo
      /\ \A c \in Bids : run.plan[c] =< offer[c].rooms
      /\ clear[p].plan[b] \in 0 .. NumRooms /\ clear[p].plan[b] =< offer[b].rooms
  <2>1. clear[p] \in RunStates /\ \A c \in Bids : clear[p].plan[c] =< offer[c].rooms
    BY DEF TypesInv, AuctionTypeOK
  <2> QED BY <1>2, <2>1 DEF RunStates
<1>4. /\ clear' = [clear EXCEPT ![p] = run]
      /\ UNCHANGED <<lot, bid, tagged, loads, mode, window, offer, minting, cancelling, closing,
                     paying, crashes>>
  BY <1>1 DEF Advance
<1>5. /\ award' \in [Bids -> AwardStatuses] /\ rooms' \in [Bids -> 0 .. NumRooms]
      /\ late' \in SUBSET Bids
      /\ \A c \in Bids : rooms'[c] = rooms[c] \/ (c = b /\ rooms'[c] = clear[p].plan[b])
  <2>1. /\ award \in [Bids -> AwardStatuses] /\ rooms \in [Bids -> 0 .. NumRooms]
        /\ late \in SUBSET Bids /\ "awarded" \in AwardStatuses
    BY DEF TypesInv, AuctionTypeOK, AwardStatuses
  <2>2. CASE UNCHANGED <<award, rooms, late>>
    BY <2>1, <2>2
  <2>3. CASE /\ award' = [award EXCEPT ![b] = "awarded"]
             /\ rooms' = [rooms EXCEPT ![b] = clear[p].plan[b]] /\ late' = late \ {b}
    BY <1>2, <1>3, <2>1, <2>3
  <2> QED BY <1>1, <2>2, <2>3
<1> HIDE DEF run
<1>6. clear' \in [Runs -> RunStates]
  BY <1>3, <1>4 DEF TypesInv, AuctionTypeOK
<1>7. \A c \in Bids : rooms'[c] =< offer'[c].rooms
  <2>1. \A c \in Bids : rooms[c] =< offer[c].rooms
    BY BidTypes
  <2> QED BY <1>3, <1>4, <1>5, <2>1
<1>8. AuctionTypeOK'
  BY <1>4, <1>5, <1>6, <1>7 DEF TypesInv, AuctionTypeOK, paying
<1> QED BY <1>3, <1>4, <1>8, RunTypes

\* A mark is written on a bid that is there.
LEMMA MarkTypes ==
    ASSUME TypesInv, NEW p \in Runs, MarkBid(p)
    PROVE  TypesInv'
<1> DEFINE b == clear[p].now
           n == clear[p].plan[b]
           rest == clear[p].todo \ {b}
           run == [clear[p] EXCEPT !.at = IF rest = {} THEN "flip" ELSE "award",
                                   !.todo = rest, !.now = 0]
<1>1. PICK ok \in BOOLEAN :
        bid' = IF ok /\ bid[b] = "active"
               THEN [bid EXCEPT ![b] = IF n = 0 THEN "lost"
                                       ELSE IF n >= offer[b].rooms THEN "won" ELSE "partial"]
               ELSE bid
  BY DEF MarkBid, Ok
<1>2. /\ clear' = [clear EXCEPT ![p] = run]
      /\ UNCHANGED <<lot, award, rooms, tagged, late, loads, mode, window, offer, minting,
                     cancelling, closing, paying, crashes>>
  BY DEF MarkBid, Advance
<1>3. /\ run \in RunStates /\ run.at # "mark"
      /\ \A c \in Bids : run.plan[c] =< offer[c].rooms
  <2>1. clear[p] \in RunStates /\ \A c \in Bids : clear[p].plan[c] =< offer[c].rooms
    BY DEF TypesInv, AuctionTypeOK
  <2> QED BY <2>1 DEF RunStates
<1> HIDE DEF run, n, rest
<1>4. bid' \in [Bids -> BidStatuses] /\ \A c \in Bids : bid'[c] = "none" <=> bid[c] = "none"
  BY <1>1 DEF TypesInv, AuctionTypeOK, BidStatuses
<1> HIDE DEF b
<1>5. clear' \in [Runs -> RunStates]
  BY <1>2, <1>3 DEF TypesInv, AuctionTypeOK
<1>6. AuctionTypeOK'
  BY <1>2, <1>4, <1>5 DEF TypesInv, AuctionTypeOK, paying
<1> QED BY <1>2, <1>3, <1>4, <1>6, RunTypes

\* No step of any handler breaks the types.
LEMMA TypesStep ==
    ASSUME TypesInv, [Next]_vars
    PROVE  TypesInv'
<1>1. ASSUME NEW b \in Bids, Checkout(b) PROVE TypesInv'
  <2>1. "pending_payment" \in BidStatuses \ {"none"}
    BY DEF BidStatuses
  <2>2. Place(b, "pending_payment") /\ late' = late /\ minting' \in SUBSET Bids
    BY <1>1 DEF Checkout, TypesInv, AuctionTypeOK
  <2> QED BY <2>1, <2>2, PlaceTypes
<1>2. ASSUME NEW b \in Bids, PlaceLive(b) PROVE TypesInv'
  <2>1. PICK status \in {"active", "accepted"} :
          /\ Place(b, status)
          /\ minting' = IF status = "accepted" THEN minting \cup {b} ELSE minting
    BY <1>2 DEF PlaceLive
  <2>2. status \in BidStatuses \ {"none"} /\ late' = late /\ minting' \in SUBSET Bids
    BY <1>2, <2>1 DEF BidStatuses, PlaceLive, TypesInv, AuctionTypeOK
  <2> QED BY <2>1, <2>2, PlaceTypes
<1>3. ASSUME NEW b \in Bids,
             VerifyDeposit(b) \/ OwnerDecides(b) \/ AcceptCounter(b) \/ CancelBid(b) \/ RefundDeposit(b)
      PROVE  TypesInv'
  <2>1. PICK from \in {{"pending_payment"}, {"active", "countered"}, {"countered"},
                       {"active", "countered", "accepted"}, {"lost"}},
             to \in {"active", "accepted", "rejected", "countered", "cancelled", "refunded"} :
          SetBid(b, from, to)
    BY <1>3 DEF VerifyDeposit, OwnerDecides, AcceptCounter, CancelBid, RefundDeposit, Accept
  <2>2. {late, minting, cancelling}' \subseteq SUBSET Bids
    BY <1>3 DEF VerifyDeposit, OwnerDecides, AcceptCounter, CancelBid, RefundDeposit, Accept,
                TypesInv, AuctionTypeOK
  <2>3. "none" \notin from /\ to \in BidStatuses \ {"none"}
    BY DEF BidStatuses
  <2> QED BY <2>1, <2>2, <2>3, SetBidTypes
<1>4. ASSUME NEW b \in Bids, MintLive(b) PROVE TypesInv'
  <2>1. /\ award' \in [Bids -> AwardStatuses] /\ rooms' \in [Bids -> 0 .. NumRooms]
        /\ \A c \in Bids : rooms'[c] =< offer[c].rooms
        /\ {tagged, minting}' \subseteq SUBSET Bids
    <3>1. \A c \in Bids : /\ offer[c].rooms \in 0 .. NumRooms /\ NumRooms \in Nat
                          /\ rooms[c] =< offer[c].rooms
      BY BidTypes
    <3>2. /\ award \in [Bids -> AwardStatuses] /\ rooms \in [Bids -> 0 .. NumRooms]
          /\ {tagged, minting} \subseteq SUBSET Bids /\ "awarded" \in AwardStatuses
      BY DEF TypesInv, AuctionTypeOK, AwardStatuses
    <3>3. /\ minting' = minting \ {b}
          /\ \/ UNCHANGED <<award, rooms, tagged>>
             \/ /\ award' = [award EXCEPT ![b] = "awarded"]
                /\ rooms' = [rooms EXCEPT ![b] = offer[b].rooms]
                /\ tagged' = tagged \cup {b}
      BY <1>4 DEF MintLive
    <3>4. {tagged, minting}' \subseteq SUBSET Bids /\ award' \in [Bids -> AwardStatuses]
      BY <3>2, <3>3
    <3>5. CASE UNCHANGED <<award, rooms, tagged>>
      BY <3>1, <3>2, <3>4, <3>5
    <3>6. CASE rooms' = [rooms EXCEPT ![b] = offer[b].rooms]
      BY <3>1, <3>2, <3>4, <3>6
    <3> QED BY <3>3, <3>5, <3>6
  <2>2. UNCHANGED <<mode, lot, window, offer, bid, late, cancelling, closing, paying, runs>>
    BY <1>4 DEF MintLive
  <2>3. AuctionTypeOK'
    BY <2>1, <2>2 DEF TypesInv, AuctionTypeOK, paying, runs
  <2> QED BY <2>2, <2>3, OtherTypes DEF runs
<1>5. ASSUME NEW b \in Bids, CancelAward(b) \/ DeadlinePasses(b) PROVE TypesInv'
  <2>1. award' \in [Bids -> AwardStatuses] /\ {late, cancelling}' \subseteq SUBSET Bids
    <3>1. /\ award \in [Bids -> AwardStatuses] /\ "cancelled" \in AwardStatuses
          /\ {late, cancelling} \subseteq SUBSET Bids
      BY DEF TypesInv, AuctionTypeOK, AwardStatuses
    <3>2. /\ award' = award \/ award' = [award EXCEPT ![b] = "cancelled"]
          /\ late' \in {late, late \cup {b}} /\ cancelling' \in {cancelling, cancelling \ {b}}
      BY <1>5 DEF CancelAward, DeadlinePasses
    <3> QED BY <3>1, <3>2
  <2>2. UNCHANGED <<mode, lot, window, offer, bid, rooms, tagged, minting, closing, paying, runs>>
    BY <1>5 DEF CancelAward, DeadlinePasses
  <2>3. AuctionTypeOK'
    BY <2>1, <2>2 DEF TypesInv, AuctionTypeOK, paying, runs
  <2> QED BY <2>2, <2>3, OtherTypes DEF runs
<1>6. ASSUME NEW b \in Bids, OpenOrder(b) PROVE TypesInv'
  <2>1. PICK n \in 1 .. MaxOrders :
          /\ order' = [order EXCEPT ![n] = b]
          /\ stamped' \in {stamped, [stamped EXCEPT ![b] = n]}
          /\ UNCHANGED <<award, owed, held, bought>> /\ Pays
    BY <1>6 DEF OpenOrder
  <2>2. MaxOrders \in Nat
    BY AuctionAssumption DEF AuctionAssumption
  <2>3. /\ order' \in [1 .. MaxOrders -> Bids \cup {0}] /\ n \in 0 .. MaxOrders
        /\ stamped \in [Bids -> 0 .. MaxOrders]
    BY <2>1, <2>2 DEF TypesInv, AuctionTypeOK
  <2>4. stamped' \in [Bids -> 0 .. MaxOrders]
    BY <2>1, <2>3
  <2>5. AuctionTypeOK' /\ UNCHANGED <<mode, offer, bid, clear>>
    BY <2>1, <2>3, <2>4 DEF Pays, TypesInv, AuctionTypeOK, runs
  <2> QED BY <2>5, OtherTypes
<1>7. ASSUME NEW n \in 1 .. MaxOrders, NEW b \in Bids, Verify(n, b) PROVE TypesInv'
  <2>1. MaxOrders \in Nat
    BY AuctionAssumption DEF AuctionAssumption
  <2>2. /\ award' = [award EXCEPT ![b] = "voucher_issued"] /\ bought' = [bought EXCEPT ![b] = n]
        /\ {held, owed}' \subseteq SUBSET Bids
        /\ UNCHANGED <<order, stamped>> /\ Pays
    BY <1>7 DEF Verify, Issue, Ok, TypesInv, AuctionTypeOK
  <2>3. AuctionTypeOK' /\ UNCHANGED <<mode, offer, bid, clear>>
    BY <2>1, <2>2 DEF Pays, TypesInv, AuctionTypeOK, AwardStatuses, runs
  <2> QED BY <2>3, OtherTypes
<1>8. CASE WindowOpens \/ WindowCloses \/ CronOpens \/ CheckLot \/ DropLot
  <2>1. /\ lot' \in {lot, "open", "cancelled"} /\ window' \in {"open", "closed", window}
        /\ closing' \in BOOLEAN
        /\ UNCHANGED <<mode, offer, table, minting, cancelling, paying, runs>>
    BY <1>8 DEF WindowOpens, WindowCloses, CronOpens, CheckLot, DropLot, MoveLot,
                TypesInv, AuctionTypeOK
  <2>2. AuctionTypeOK' /\ UNCHANGED <<mode, offer, bid, clear>>
    BY <2>1 DEF TypesInv, AuctionTypeOK, table, paying, runs
  <2> QED BY <2>2, OtherTypes
<1>9. ASSUME NEW p \in Runs, Pick(p) \/ FlipLot(p) \/ Crash(p) PROVE TypesInv'
  <2>1. PICK run \in {NoRun, [NoRun EXCEPT !.at = "load"]} : clear' = [clear EXCEPT ![p] = run]
    BY <1>9 DEF Pick, FlipLot, Crash, Advance
  <2>2. /\ lot' \in {lot, "awarded", "closed"} /\ crashes' \in 0 .. MaxCrashes
        /\ UNCHANGED <<mode, window, offer, table, minting, cancelling, closing, paying, loads>>
    <3>1. MaxCrashes \in Nat
      BY AuctionAssumption DEF AuctionAssumption
    <3> QED BY <1>9, <3>1 DEF Pick, FlipLot, Crash, Advance, TypesInv, AuctionTypeOK
  <2>3. run \in RunStates /\ run.at # "mark" /\ \A b \in Bids : run.plan[b] =< offer[b].rooms
    <3>1. run.at # "mark" /\ run.plan = NoRun.plan
      <4>1. CASE run = NoRun
        BY <4>1 DEF NoRun
      <4>2. CASE run = [NoRun EXCEPT !.at = "load"]
        BY <4>2 DEF NoRun
      <4> QED BY <2>1, <4>1, <4>2
    <3> QED BY <2>1, <3>1, NoRunTypes
  <2>4. clear' \in [Runs -> RunStates]
    BY <2>1, <2>3 DEF TypesInv, AuctionTypeOK
  <2>5. AuctionTypeOK'
    BY <2>2, <2>4 DEF TypesInv, AuctionTypeOK, table, paying
  <2>6. UNCHANGED bid
    BY <2>2 DEF table
  <2> QED BY <2>1, <2>2, <2>3, <2>5, <2>6, RunTypes
<1>10. ASSUME NEW statuses, "none" \notin statuses, ExpireBids(statuses) PROVE TypesInv'
  <2>1. /\ \A c \in Bids : bid'[c] = "none" <=> bid[c] = "none"
        /\ bid' \in [Bids -> BidStatuses]
        /\ UNCHANGED <<mode, lot, window, offer, award, rooms, tagged, late, minting,
                       cancelling, closing, paying, runs>>
    BY <1>10 DEF ExpireBids, TypesInv, AuctionTypeOK, BidStatuses
  <2>2. AuctionTypeOK'
    BY <2>1 DEF TypesInv, AuctionTypeOK, paying, runs
  <2> QED BY <2>1, <2>2 DEF TypesInv, runs
<1>11. CASE ExpireAwards
  <2>1. AuctionTypeOK' /\ UNCHANGED <<mode, offer, bid, clear>>
    BY <1>11 DEF ExpireAwards, TypesInv, AuctionTypeOK, AwardStatuses, paying, runs
  <2> QED BY <2>1, OtherTypes
<1>12. CASE UNCHANGED vars
  <2>1. AuctionTypeOK' /\ UNCHANGED <<mode, offer, bid, clear>>
    BY <1>12 DEF vars, table, paying, runs, TypesInv, AuctionTypeOK
  <2> QED BY <2>1, OtherTypes
<1> QED BY <1>1, <1>2, <1>3, <1>4, <1>5, <1>6, <1>7, <1>8, <1>9, <1>10, <1>11, <1>12,
           LoadTypes, AwardTypes, MarkTypes DEF Next, ClearStep, ExpireUnpaid, ExpireStale

-----------------------------------------------------------------------------
(* Clearing, step by step. *)

\* No step of any handler takes the rows away from the outcome of the first clearing.
LEMMA ClearingStep ==
    ASSUME TypesInv, ClearingInv, [Next]_vars
    PROVE  ClearingInv'
<1>1. ASSUME NEW b \in Bids, Checkout(b), mode = "sealed" PROVE Quiet
  <2>1. /\ bid[b] = "none" /\ bid' = [bid EXCEPT ![b] = "pending_payment"]
        /\ \E o \in Offers[b] : offer' = [offer EXCEPT ![b] = o]
        /\ UNCHANGED <<mode, award, rooms, minting, clear, loads>>
    BY <1>1 DEF Checkout, Place, Fresh, runs
  <2>2. "pending_payment" \notin TurnedAway
    BY DEF TurnedAway
  <2> QED BY <2>1, <2>2 DEF Quiet, TypesInv, AuctionTypeOK
<1>2. ASSUME NEW b \in Bids, VerifyDeposit(b) \/ CancelBid(b) \/ RefundDeposit(b) PROVE Quiet
  <2>1. /\ bid[b] # "none"
        /\ \/ bid' = [bid EXCEPT ![b] = "active"] \/ bid' = [bid EXCEPT ![b] = "cancelled"]
           \/ bid[b] = "lost" /\ bid' = [bid EXCEPT ![b] = "refunded"]
        /\ UNCHANGED <<mode, offer, award, rooms, minting, clear, loads>>
    BY <1>2 DEF VerifyDeposit, CancelBid, RefundDeposit, SetBid, runs
  <2> QED BY <2>1 DEF Quiet, TypesInv, AuctionTypeOK, TurnedAway
<1>3. ASSUME NEW b \in Bids, CancelAward(b) PROVE Quiet
  <2>1. /\ award' = award \/ (award[b] = "awarded" /\ award' = [award EXCEPT ![b] = "cancelled"])
        /\ UNCHANGED <<mode, offer, bid, rooms, minting, clear, loads>>
    BY <1>3 DEF CancelAward, runs
  <2> QED BY <2>1 DEF Quiet, TypesInv, AuctionTypeOK
<1>4. ASSUME NEW b \in Bids, OpenOrder(b) PROVE Quiet
  BY <1>4 DEF OpenOrder, Pays, Quiet, runs
<1>5. ASSUME NEW n \in 1 .. MaxOrders, NEW b \in Bids, Verify(n, b) PROVE Quiet
  <2>1. /\ award[b] = "awarded" /\ award' = [award EXCEPT ![b] = "voucher_issued"]
        /\ UNCHANGED <<mode, offer, bid, rooms, minting, clear, loads>>
    BY <1>5 DEF Verify, Issue, Pays, runs
  <2> QED BY <2>1 DEF Quiet, TypesInv, AuctionTypeOK
<1>6. ASSUME WindowOpens \/ WindowCloses \/ CronOpens \/ CheckLot \/ DropLot PROVE Quiet
  <2>1. UNCHANGED <<mode, offer, table, minting, runs>>
    BY <1>6 DEF WindowOpens, WindowCloses, CronOpens, CheckLot, DropLot, MoveLot
  <2> QED BY <2>1 DEF Quiet, table, runs
<1>7. ASSUME NEW p \in Runs, Pick(p) \/ FlipLot(p) \/ Crash(p) PROVE Quiet
  <2>1. PICK run \in {NoRun, [NoRun EXCEPT !.at = "load"]} : clear' = [clear EXCEPT ![p] = run]
    BY <1>7 DEF Pick, FlipLot, Crash, Advance
  <2>2. UNCHANGED <<mode, offer, table, minting, loads>>
    BY <1>7 DEF Pick, FlipLot, Crash, Advance
  <2>3. run.at \notin {"award", "mark"}
    BY <2>1 DEF NoRun
  <2>4. \A q \in Runs : clear'[q] = clear[q] \/ ~Writing(q)'
    BY <2>1, <2>3 DEF TypesInv, AuctionTypeOK, Writing
  <2> QED BY <2>2, <2>4 DEF Quiet, table
<1>8. ASSUME ExpireAwards PROVE Quiet
  <2>1. /\ \A b \in Bids : award'[b] # "none" => award[b] # "none"
        /\ UNCHANGED <<mode, offer, bid, rooms, minting, clear, loads>>
    BY <1>8 DEF ExpireAwards, runs
  <2> QED BY <2>1 DEF Quiet
<1>9. ASSUME NEW b \in Bids, mode = "sealed",
             PlaceLive(b) \/ OwnerDecides(b) \/ AcceptCounter(b) \/ MintLive(b) \/ DeadlinePasses(b)
      PROVE  FALSE
  BY <1>9 DEF PlaceLive, OwnerDecides, AcceptCounter, MintLive, DeadlinePasses, ClearingInv
<1>10. ASSUME ExpireUnpaid \/ ExpireStale, mode = "sealed" PROVE FALSE
  BY <1>10 DEF ExpireUnpaid, ExpireStale, ExpireBids
<1>11. ASSUME UNCHANGED vars PROVE Quiet
  BY <1>11 DEF vars, table, runs, Quiet
<1>12. ASSUME NEW p \in Runs, Load(p) \/ AwardBid(p) \/ MarkBid(p) PROVE ClearingInv'
  BY <1>12, LoadStep, AwardStep, MarkStep
<1>13. CASE mode = "sealed"
  BY <1>1, <1>2, <1>3, <1>4, <1>5, <1>6, <1>7, <1>8, <1>9, <1>10, <1>11, <1>12, <1>13, QuietClearing
     DEF Next, ClearStep, Quiet
<1>14. CASE mode # "sealed"
  <2>1. ASSUME NEW p \in Runs, ClearStep(p) \/ Pick(p) \/ Crash(p) PROVE mode' = mode
    BY <2>1 DEF ClearStep, Load, AwardBid, MarkBid, FlipLot, Pick, Crash, Advance
  <2>2. ASSUME NEW b \in Bids,
               \/ Checkout(b) \/ VerifyDeposit(b) \/ PlaceLive(b) \/ OwnerDecides(b)
               \/ AcceptCounter(b) \/ MintLive(b) \/ CancelBid(b) \/ CancelAward(b)
               \/ RefundDeposit(b) \/ DeadlinePasses(b) \/ OpenOrder(b)
        PROVE  mode' = mode
    BY <2>2 DEF Checkout, VerifyDeposit, PlaceLive, OwnerDecides, AcceptCounter, MintLive, CancelBid,
                CancelAward, RefundDeposit, DeadlinePasses, OpenOrder, Place, SetBid, Accept, Pays
  <2>3. ExpireUnpaid \/ ExpireStale => mode' = mode
    BY DEF ExpireUnpaid, ExpireStale, ExpireBids
  <2>4. mode' = mode
    BY <1>5, <1>6, <1>8, <1>11, <2>1, <2>2, <2>3 DEF Next, Quiet
  <2> QED BY <1>14, <2>4, Zenon DEF ClearingInv
<1> QED BY <1>13, <1>14

-----------------------------------------------------------------------------
(* Payments. *)

\* Payments stay sound while no voucher comes or goes.
LEMMA PaymentStays ==
    ASSUME PaymentInv, UNCHANGED paying,
           \A b \in Bids : award'[b] = "voucher_issued" <=> award[b] = "voucher_issued"
    PROVE  PaymentInv'
BY DEF PaymentInv, PaymentBuysOneVoucher, paying

\* A new order takes a number that neither a stamp nor a voucher refers to.
LEMMA OpenOrderStep ==
    ASSUME TypesInv, PaymentInv, NEW b \in Bids, OpenOrder(b)
    PROVE  PaymentInv'
<1>1. PICK n \in 1 .. MaxOrders :
        /\ order[n] = 0 /\ order' = [order EXCEPT ![n] = b]
        /\ stamped' \in {stamped, [stamped EXCEPT ![b] = n]}
        /\ UNCHANGED <<award, owed, held, bought>>
  BY DEF OpenOrder
<1>2. 0 \notin Bids /\ MaxOrders \in Nat
  BY AuctionAssumption DEF AuctionAssumption
<1>3. order'[n] = b /\ \A m \in 1 .. MaxOrders : m # n => order'[m] = order[m]
  BY <1>1 DEF TypesInv, AuctionTypeOK
<1>4. \A c \in Bids : stamped[c] \in 0 .. MaxOrders /\ bought[c] \in 0 .. MaxOrders
  BY DEF TypesInv, AuctionTypeOK
<1>5. ASSUME NEW c \in Bids, stamped'[c] # 0 PROVE order'[stamped'[c]] = c
  <2>1. \/ stamped'[c] = stamped[c] \/ (c = b /\ stamped'[c] = n)
    BY <1>1 DEF TypesInv, AuctionTypeOK
  <2>2. CASE stamped'[c] = stamped[c]
    <3>1. order[stamped[c]] = c /\ stamped[c] \in 1 .. MaxOrders
      BY <1>2, <1>4, <1>5, <2>2 DEF PaymentInv
    <3> QED BY <1>1, <1>2, <1>3, <2>2, <3>1
  <2>3. CASE c = b /\ stamped'[c] = n
    BY <1>3, <2>3
  <2> QED BY <2>1, <2>2, <2>3
<1>6. ASSUME NEW c \in Bids, award'[c] = "voucher_issued"
      PROVE  bought'[c] # 0 /\ order'[bought'[c]] = c
  <2>1. bought[c] # 0 /\ order[bought[c]] = c /\ bought[c] \in 1 .. MaxOrders
    BY <1>1, <1>2, <1>4, <1>6 DEF PaymentInv, PaymentBuysOneVoucher
  <2> QED BY <1>1, <1>2, <1>3, <2>1
<1>7. (owed \cup held \subseteq {c \in Bids : award[c] = "voucher_issued"})'
  BY <1>1 DEF PaymentInv, PaymentBuysOneVoucher
<1> QED BY <1>5, <1>6, <1>7 DEF PaymentInv, PaymentBuysOneVoucher

\* The voucher of an award is bought by the order stamped on it.
LEMMA VerifyStep ==
    ASSUME TypesInv, PaymentInv, NEW n \in 1 .. MaxOrders, NEW b \in Bids, Verify(n, b)
    PROVE  PaymentInv'
<1>1. /\ award' = [award EXCEPT ![b] = "voucher_issued"]
      /\ bought' = [bought EXCEPT ![b] = n]
      /\ held \subseteq held' /\ held' \subseteq held \cup {b}
      /\ owed \subseteq owed' /\ owed' \subseteq owed \cup {b}
      /\ UNCHANGED <<order, stamped>> /\ stamped[b] = n
  BY DEF Verify, Issue
<1>2. n # 0 /\ order[n] = b
  <2>1. MaxOrders \in Nat
    BY AuctionAssumption DEF AuctionAssumption
  <2> QED BY <1>1, <2>1 DEF PaymentInv
<1>3. \A c \in Bids : award'[c] = "voucher_issued" => bought'[c] # 0 /\ order'[bought'[c]] = c
  BY <1>1, <1>2 DEF PaymentInv, PaymentBuysOneVoucher, TypesInv, AuctionTypeOK
<1>4. award'[b] = "voucher_issued"
      /\ \A c \in Bids : award[c] = "voucher_issued" => award'[c] = "voucher_issued"
  BY <1>1 DEF TypesInv, AuctionTypeOK
<1>5. owed' \cup held' \subseteq {c \in Bids : award'[c] = "voucher_issued"}
  BY <1>1, <1>4 DEF PaymentInv, PaymentBuysOneVoucher
<1> QED BY <1>1, <1>3, <1>5 DEF PaymentInv, PaymentBuysOneVoucher

\* No step of any handler issues a voucher without a payment, or two for one.
LEMMA PaymentStep ==
    ASSUME TypesInv, PaymentInv, [Next]_vars
    PROVE  PaymentInv'
<1> DEFINE Same == /\ UNCHANGED paying
                   /\ \A b \in Bids : award'[b] = "voucher_issued" <=> award[b] = "voucher_issued"
<1>1. ASSUME NEW b \in Bids,
             \/ Checkout(b) \/ VerifyDeposit(b) \/ PlaceLive(b) \/ OwnerDecides(b)
             \/ AcceptCounter(b) \/ CancelBid(b) \/ RefundDeposit(b) \/ DeadlinePasses(b)
      PROVE  Same
  BY <1>1 DEF Checkout, VerifyDeposit, PlaceLive, OwnerDecides, AcceptCounter, CancelBid,
              RefundDeposit, DeadlinePasses, Place, SetBid, Accept
<1>2. ASSUME NEW b \in Bids, MintLive(b) \/ CancelAward(b) PROVE Same
  <2>1. /\ UNCHANGED paying
        /\ \/ award' = award
           \/ award[b] = "none" /\ award' = [award EXCEPT ![b] = "awarded"]
           \/ award[b] = "awarded" /\ award' = [award EXCEPT ![b] = "cancelled"]
    BY <1>2 DEF MintLive, CancelAward
  <2> QED BY <2>1 DEF TypesInv, AuctionTypeOK
<1>3. CASE WindowOpens \/ WindowCloses \/ CronOpens \/ CheckLot \/ DropLot
  <2>1. UNCHANGED <<table, paying>>
    BY <1>3 DEF WindowOpens, WindowCloses, CronOpens, CheckLot, DropLot, MoveLot
  <2> QED BY <2>1, PaymentStays DEF table
<1>4. ASSUME NEW p \in Runs, Pick(p) \/ Crash(p) \/ Load(p) \/ MarkBid(p) \/ FlipLot(p) PROVE Same
  BY <1>4 DEF Pick, Crash, Load, MarkBid, FlipLot, Advance, table
<1>5. ASSUME NEW p \in Runs, AwardBid(p) PROVE Same
  <2>1. PICK b \in Bids : \/ award' = award
                          \/ award[b] = "none" /\ award' = [award EXCEPT ![b] = "awarded"]
    BY <1>5 DEF AwardBid, Dearest, TypesInv, AuctionTypeOK, RunStates
  <2>2. UNCHANGED paying
    BY <1>5 DEF AwardBid, Advance
  <2> QED BY <2>1, <2>2 DEF TypesInv, AuctionTypeOK
<1>6. CASE ExpireUnpaid \/ ExpireStale
  <2>1. UNCHANGED <<award, paying>>
    BY <1>6 DEF ExpireUnpaid, ExpireStale, ExpireBids
  <2> QED BY <2>1, PaymentStays
<1>7. CASE ExpireAwards
  <2>1. UNCHANGED paying
        /\ \A b \in Bids : award'[b] = "voucher_issued" <=> award[b] = "voucher_issued"
    BY <1>7 DEF ExpireAwards
  <2> QED BY <2>1, PaymentStays
<1>8. CASE UNCHANGED vars
  BY <1>8, PaymentStays DEF vars, table
<1>9. Same => PaymentInv'
  BY PaymentStays
<1> HIDE DEF Same
<1> QED BY <1>1, <1>2, <1>3, <1>4, <1>5, <1>6, <1>7, <1>8, <1>9, OpenOrderStep, VerifyStep
        DEF Next, ClearStep

-----------------------------------------------------------------------------
(* The theorems. *)

\* At the start there is neither a bid nor an award nor a payment.
LEMMA AuctionStarts ==
    ASSUME Init
    PROVE  AuctionInv
<1>1. /\ {NumRooms, MaxOrders, MaxCrashes} \subseteq Nat
      /\ 0 \in 0 .. NumRooms /\ 0 \in 0 .. MaxOrders /\ 0 \in 0 .. MaxCrashes
  BY AuctionAssumption DEF AuctionAssumption
<1>2. NoRun \in RunStates /\ ~(NoRun.at \in {"award", "mark"}) /\ \A b \in Bids : NoRun.plan[b] = 0
  BY <1>1 DEF NoRun, RunStates
<1>3. TypesInv
  <2>1. \A b \in Bids : offer[b] = NoOffer /\ offer[b].rooms = 0
    BY DEF Init, NoOffer
  <2>2. clear \in [Runs -> RunStates]
    BY <1>2 DEF Init
  <2>3. AuctionTypeOK
    <3>1. /\ bid \in [Bids -> BidStatuses] /\ award \in [Bids -> AwardStatuses]
          /\ offer \in [Bids -> {NoOffer} \cup UNION {Offers[b] : b \in Bids}]
      BY DEF Init, AwardStatuses, BidStatuses
    <3>2. /\ rooms \in [Bids -> 0 .. NumRooms] /\ \A b \in Bids : rooms[b] =< offer[b].rooms
          /\ order \in [1 .. MaxOrders -> Bids \cup {0}]
          /\ stamped \in [Bids -> 0 .. MaxOrders] /\ bought \in [Bids -> 0 .. MaxOrders]
      BY <1>1, <2>1 DEF Init
    <3>3. loads \in 0 .. 2 /\ crashes \in 0 .. MaxCrashes /\ closing \in BOOLEAN
      <4>1. closing \in BOOLEAN
        BY DEF Init
      <4>2. loads = 0 /\ crashes = 0
        BY DEF Init
      <4>3. loads \in 0 .. 2 /\ crashes \in 0 .. MaxCrashes
        BY <1>1, <4>2
      <4> QED BY <4>1, <4>3
    <3>4. /\ mode \in Modes /\ lot \in {"draft", "open", "closed", "awarded", "cancelled"}
          /\ window \in {"before", "open", "closed"}
          /\ {tagged, late, minting, cancelling, owed, held} \subseteq SUBSET Bids
      BY DEF Init
    <3> QED BY <2>2, <3>1, <3>2, <3>3, <3>4 DEF AuctionTypeOK
  <2> QED BY <1>2, <2>1, <2>3 DEF TypesInv, Init
<1>4. PaymentInv
  BY DEF Init, PaymentInv, PaymentBuysOneVoucher
<1>5. ClearingInv
  <2>1. Untouched
    BY <1>2 DEF Init, Untouched, Writing, TurnedAway
  <2> DEFINE seat == [b \in Bids |-> {}]
  <2>2. Outcome({}, seat) /\ Follows({}, seat) /\ seat \in [Bids -> SUBSET Slots]
    BY <2>1 DEF Outcome, Follows, Untouched
  <2> QED BY <2>1, <2>2 DEF Init, ClearingInv
<1> QED BY <1>3, <1>4, <1>5 DEF AuctionInv

\* Whatever bids are placed, decided, paid and cancelled, and whichever calls fail, the
\* rows keep to the outcome of the first clearing and to the orders that were paid.
THEOREM AuctionInvariant == Spec => []AuctionInv
<1>1. Init => AuctionInv
  BY AuctionStarts
<1>2. AuctionInv /\ [Next]_vars => AuctionInv'
  BY TypesStep, PaymentStep, ClearingStep DEF AuctionInv
<1> QED BY <1>1, <1>2, PTL DEF Spec

\* The types of the auction's rows and handlers.
THEOREM AuctionTypes == Spec => []AuctionTypeOK
<1>1. AuctionInv => AuctionTypeOK
  BY DEF AuctionInv, TypesInv
<1> QED BY <1>1, AuctionInvariant, PTL

\* A sealed lot of any number of rooms, cleared once, is not oversold on any night
\* (clearLot and the cron's award loop), wherever the clearing stops.
THEOREM OneRunNeverOversells == Spec => []OneRunFits
<1>1. AuctionInv => OneRunFits
  BY ClearingFits DEF AuctionInv
<1> QED BY <1>1, AuctionInvariant, PTL

\* Nor does that clearing turn a bid away for a cheaper one that asked for its nights.
THEOREM DearerBidFirst == Spec => []NoEnvy
<1>1. AuctionInv => NoEnvy
  BY ClearingIsFair DEF AuctionInv
<1> QED BY <1>1, AuctionInvariant, PTL

\* However many orders are opened, stamped or lost, every voucher has a payment of its
\* own award (the verify route's match on the stamped order).
THEOREM VoucherHasItsPayment == Spec => []PaymentBuysOneVoucher
<1>1. AuctionInv => PaymentBuysOneVoucher
  BY DEF AuctionInv, PaymentInv
<1> QED BY <1>1, AuctionInvariant, PTL
=============================================================================
