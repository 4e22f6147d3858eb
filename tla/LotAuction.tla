----------------------------- MODULE LotAuction -----------------------------
(***************************************************************************)
(* One lot of the trade auction: rooms of one category offered to agents   *)
(* for a month, in nights or groups of nights.  A sealed lot takes bids    *)
(* with a deposit until its window closes and is then cleared; a live lot  *)
(* has its bids accepted one by one.  Either way an accepted bid becomes   *)
(* an award, which the agent pays to receive a voucher.                    *)
(*                                                                         *)
(* lot, bid, award and the settlement and hold rows are the tables.  Every *)
(* handler that makes several calls is a step per call: clear follows the  *)
(* runs of the clearing engine (the cron's and the admin's), minting,      *)
(* cancelling and closing are the handlers with a call still to make,      *)
(* order the payments of awards.                                           *)
(***************************************************************************)
EXTENDS Integers, FiniteSets, Functions

CONSTANTS
    Bids,           \* bid ids, numbered in the order of createdAt
    NumRooms,       \* auction_lots.num_rooms
    Offers,         \* [Bids -> set of offers], what each bid may ask
    Modes,          \* the sale modes looked at
    LiveBids,       \* bound: the bids of a live lot, which never compete
    MaxOrders,      \* bound: payment orders opened
    MaxCrashes,     \* bound: clearing runs that die
    Faults          \* the calls that may fail

ASSUME AuctionAssumption ==
    /\ Bids \subseteq Nat \ {0} /\ IsFiniteSet(Bids)
    /\ {NumRooms, MaxOrders, MaxCrashes} \subseteq Nat
    /\ Modes \subseteq {"sealed", "live"} /\ LiveBids \subseteq Bids
    /\ \A b \in Bids : \A o \in Offers[b] :
         /\ o.price \in Nat /\ o.rooms \in 1 .. NumRooms
         /\ IsFiniteSet(o.nights) /\ o.nights # {}

VARIABLES
    mode, lot, window,  \* the lot: sale_mode, status, and where its window stands
    offer, bid,         \* [Bids -> offer], [Bids -> status]
    award, rooms,       \* [Bids -> status], [Bids -> rooms_awarded]
    tagged,             \* awards whose metadata says sale_mode live
    late,               \* bids whose offer or pay deadline has passed
    minting, cancelling, closing,
    clear,              \* [Runs -> the clearing run's progress]
    order, stamped,     \* [orders -> the bid it is for, or 0], [Bids -> razorpay_order_id]
    owed, held,         \* awards with a settlement row, with allotment holds
    bought,             \* history: [Bids -> the order whose payment was accepted]
    loads, crashes      \* history: clearing runs that read bids; that died

table == <<bid, award, rooms, tagged, late>>
paying == <<order, stamped, owed, held, bought>>
runs == <<clear, loads, crashes>>
vars == <<mode, lot, window, offer, table, minting, cancelling, closing, paying, runs>>

Runs == {"cron", "admin"}
Slots == 0 .. NumRooms - 1
Nights == UNION {o.nights : o \in UNION {Offers[b] : b \in Bids}}
NoOffer == [price |-> 0, rooms |-> 0, nights |-> {}]
NoRun == [at |-> "idle", todo |-> {}, now |-> 0, plan |-> [b \in Bids |-> 0]]

Ok(call) == IF call \in Faults THEN BOOLEAN ELSE {TRUE}

Init ==
    /\ mode \in Modes
    /\ \/ lot = "open" /\ window = "open"
       \/ mode = "sealed" /\ lot = "draft" /\ window = "before"
    /\ offer = [b \in Bids |-> NoOffer] /\ bid = [b \in Bids |-> "none"]
    /\ award = [b \in Bids |-> "none"] /\ rooms = [b \in Bids |-> 0]
    /\ tagged = {} /\ late = {}
    /\ minting = {} /\ cancelling = {} /\ closing = FALSE
    /\ clear = [p \in Runs |-> NoRun] /\ loads = 0 /\ crashes = 0
    /\ order = [n \in 1 .. MaxOrders |-> 0]
    /\ stamped = [b \in Bids |-> 0] /\ bought = [b \in Bids |-> 0]
    /\ owed = {} /\ held = {}

-----------------------------------------------------------------------------
(* Bids. *)

\* A bid that is the next one created.
Fresh(b) == bid[b] = "none" /\ \A a \in Bids : a < b => bid[a] # "none"

Place(b, status) ==
    /\ Fresh(b) /\ lot = "open" /\ window # "closed"
    /\ \E o \in Offers[b] : offer' = [offer EXCEPT ![b] = o]
    /\ bid' = [bid EXCEPT ![b] = status]
    /\ UNCHANGED <<mode, lot, window, award, rooms, tagged, cancelling, closing,
                   paying, runs>>

\* A sealed bid waits for its deposit; the deposit is verified whenever it is paid,
\* and nothing then looks at the lot again.
Checkout(b) ==
    /\ mode = "sealed" /\ Place(b, "pending_payment")
    /\ UNCHANGED <<late, minting>>

SetBid(b, from, to) ==
    /\ bid[b] \in from
    /\ bid' = [bid EXCEPT ![b] = to]
    /\ UNCHANGED <<mode, lot, window, offer, award, rooms, tagged, closing, paying, runs>>

VerifyDeposit(b) ==
    /\ SetBid(b, {"pending_payment"}, "active")
    /\ UNCHANGED <<late, minting, cancelling>>

\* A live bid is accepted by the autopilot or left for the owner.
PlaceLive(b) ==
    /\ mode = "live" /\ b \in LiveBids
    /\ \E status \in {"active", "accepted"} :
         /\ Place(b, status)
         /\ minting' = IF status = "accepted" THEN minting \cup {b} ELSE minting
    /\ UNCHANGED late

\* An acceptance opens a pay window and then, in a call of its own, mints the award.
Accept(b, from) ==
    /\ SetBid(b, from, "accepted")
    /\ late' = late \ {b}
    /\ minting' = minting \cup {b}
    /\ UNCHANGED cancelling

OwnerDecides(b) ==
    /\ mode = "live"
    /\ \/ Accept(b, {"active", "countered"})
       \/ \E to \in {"rejected", "countered"} :
            /\ SetBid(b, {"active", "countered"}, to)
            /\ UNCHANGED <<late, minting, cancelling>>

AcceptCounter(b) ==
    /\ mode = "live" /\ lot = "open" /\ window # "closed"
    /\ Accept(b, {"countered"})

\* createLiveAward: the unique index on bid_id keeps an award that is there already.
MintLive(b) ==
    /\ b \in minting
    /\ minting' = minting \ {b}
    /\ \E ok \in Ok("mint") :
         IF ok /\ award[b] = "none"
         THEN /\ award' = [award EXCEPT ![b] = "awarded"]
              /\ rooms' = [rooms EXCEPT ![b] = offer[b].rooms]
              /\ tagged' = tagged \cup {b}
         ELSE UNCHANGED <<award, rooms, tagged>>
    /\ UNCHANGED <<mode, lot, window, offer, bid, late, cancelling, closing, paying, runs>>

CancelBid(b) ==
    /\ SetBid(b, {"active", "countered", "accepted"}, "cancelled")
    /\ cancelling' = cancelling \cup {b}
    /\ UNCHANGED <<late, minting>>

\* Its second call takes an unpaid award along.
CancelAward(b) ==
    /\ b \in cancelling
    /\ cancelling' = cancelling \ {b}
    /\ \E ok \in Ok("cancel") :
         award' = IF ok /\ award[b] = "awarded"
                  THEN [award EXCEPT ![b] = "cancelled"] ELSE award
    /\ UNCHANGED <<mode, lot, window, offer, bid, rooms, tagged, late, minting,
                   closing, paying, runs>>

RefundDeposit(b) ==
    /\ SetBid(b, {"lost"}, "refunded")
    /\ UNCHANGED <<late, minting, cancelling>>

-----------------------------------------------------------------------------
(* The lot. *)

MoveLot(l, w) ==
    /\ lot' = l /\ window' = w
    /\ UNCHANGED <<mode, offer, table, minting, cancelling, paying, runs>>

WindowOpens == window = "before" /\ MoveLot(lot, "open") /\ UNCHANGED closing
WindowCloses == window = "open" /\ MoveLot(lot, "closed") /\ UNCHANGED closing

\* Pass A of the cron.
CronOpens == lot = "draft" /\ window = "open" /\ MoveLot("open", window)
             /\ UNCHANGED closing

\* The owner withdraws the lot: one call looks for bids, the next writes.  A failed
\* look counts as no bids.
CheckLot ==
    /\ lot \in {"draft", "open"} /\ ~closing
    /\ \E ok \in Ok("check") :
         ok => \A b \in Bids : bid[b] \notin {"active", "won", "partial"}
    /\ closing' = TRUE
    /\ MoveLot(lot, window)

DropLot ==
    /\ closing /\ closing' = FALSE
    /\ MoveLot(IF lot \in {"draft", "open"} THEN "cancelled" ELSE lot, window)

-----------------------------------------------------------------------------
(* Clearing. *)

\* Mutant: the earliest bid first, whatever it offers.
BeforeByTime(a, b) == a < b

\* rankBids: dearer, then longer, then earlier.
Before(a, b) ==
    LET o == offer[a] u == offer[b] IN
    \/ o.price > u.price
    \/ /\ o.price = u.price
       /\ \/ Cardinality(o.nights) > Cardinality(u.nights)
          \/ Cardinality(o.nights) = Cardinality(u.nights) /\ a < b

\* The nights of slot s that go to the bids before b, when seat says which slots each
\* of the bids is given.
Busy(s, b, seat, bids) ==
    UNION {offer[a].nights : a \in {a \in bids : Before(a, b) /\ s \in seat[a]}}

\* Mutant: a slot free on some of the nights will do.
VacantSome(b, seat, bids) ==
    {s \in Slots : ~(offer[b].nights \subseteq Busy(s, b, seat, bids))}

\* The slots free on all the nights of a bid.
Vacant(b, seat, bids) ==
    {s \in Slots : offer[b].nights \cap Busy(s, b, seat, bids) = {}}

\* The first of a set of slots, as many as a bid wants.
Lowest(slots, wanted) == {s \in slots : Cardinality({r \in slots : r < s}) < wanted}

\* clearLot: the slots of each bid, given out in the order of rank.
Seats(seat, bids) ==
    \A b \in bids : seat[b] = Lowest(Vacant(b, seat, bids), offer[b].rooms)

Seating(bids) == CHOOSE seat \in [bids -> SUBSET Slots] : Seats(seat, bids)

\* The number of rooms each bid is awarded.
ClearLot(bids) ==
    LET seat == Seating(bids) IN
    [b \in Bids |-> IF b \in bids THEN Cardinality(seat[b]) ELSE 0]

Advance(p, run) ==
    /\ clear' = [clear EXCEPT ![p] = run]
    /\ UNCHANGED <<mode, window, offer, minting, cancelling, closing, paying, crashes>>

\* Mutant: a lot whose clearing was begun is not taken up again.
PickNew(p) ==
    /\ clear[p].at = "idle" /\ lot = "open" /\ loads = 0
    /\ p = "cron" => mode = "sealed" /\ window = "closed"
    /\ Advance(p, [NoRun EXCEPT !.at = "load"])
    /\ UNCHANGED <<lot, table, loads>>

\* The cron takes sealed lots past their window, the admin any open lot.
Pick(p) ==
    /\ clear[p].at = "idle" /\ lot = "open"
    /\ p = "cron" => mode = "sealed" /\ window = "closed"
    /\ Advance(p, [NoRun EXCEPT !.at = "load"])
    /\ UNCHANGED <<lot, table, loads>>

\* A read that fails counts as a lot without bids.
Load(p) ==
    /\ clear[p].at = "load"
    /\ \E ok \in Ok("load") :
         LET bids == {b \in Bids : ok /\ bid[b] = "active"} IN
         /\ Advance(p, [at |-> IF bids = {} THEN "close" ELSE "award",
                        todo |-> bids, now |-> 0, plan |-> ClearLot(bids)])
         /\ loads' = IF bids = {} \/ loads = 2 THEN loads ELSE loads + 1
    /\ UNCHANGED <<lot, table>>

\* The bids as the database orders them: the dearest first.
Dearest(bids) == {b \in bids : \A a \in bids : offer[a].price =< offer[b].price}

\* The award of the next bid is inserted unless there is one.
AwardBid(p) ==
    /\ clear[p].at = "award"
    /\ \E b \in Dearest(clear[p].todo), ok \in Ok("award") :
         /\ IF ok /\ clear[p].plan[b] > 0 /\ award[b] = "none"
            THEN /\ award' = [award EXCEPT ![b] = "awarded"]
                 /\ rooms' = [rooms EXCEPT ![b] = clear[p].plan[b]]
                 /\ late' = late \ {b}
            ELSE UNCHANGED <<award, rooms, late>>
         /\ Advance(p, [clear[p] EXCEPT !.at = "mark", !.now = b])
    /\ UNCHANGED <<lot, bid, tagged, loads>>

\* Then the bid itself is written, if it is still active.
MarkBid(p) ==
    LET b == clear[p].now n == clear[p].plan[b] rest == clear[p].todo \ {b} IN
    /\ clear[p].at = "mark"
    /\ \E ok \in Ok("mark") :
         bid' = IF ok /\ bid[b] = "active"
                THEN [bid EXCEPT ![b] = IF n = 0 THEN "lost"
                                        ELSE IF n >= offer[b].rooms THEN "won"
                                        ELSE "partial"]
                ELSE bid
    /\ Advance(p, [clear[p] EXCEPT !.at = IF rest = {} THEN "flip" ELSE "award",
                                   !.todo = rest, !.now = 0])
    /\ UNCHANGED <<lot, award, rooms, tagged, late, loads>>

FlipLot(p) ==
    /\ clear[p].at \in {"flip", "close"}
    /\ \E ok \in Ok("flip") :
         lot' = IF ~ok \/ lot # "open" THEN lot
                ELSE IF clear[p].at = "flip" THEN "awarded" ELSE "closed"
    /\ Advance(p, NoRun)
    /\ UNCHANGED <<table, loads>>

ClearStep(p) == Load(p) \/ AwardBid(p) \/ MarkBid(p) \/ FlipLot(p)

\* The function is stopped at its time limit.
Crash(p) ==
    /\ "crash" \in Faults /\ clear[p].at # "idle"
    /\ crashes < MaxCrashes /\ crashes' = crashes + 1
    /\ clear' = [clear EXCEPT ![p] = NoRun]
    /\ UNCHANGED <<mode, lot, window, offer, table, minting, cancelling, closing,
                   paying, loads>>

-----------------------------------------------------------------------------
(* Deadlines: passes C and D of the cron, each PATCH over all rows. *)

\* Followed on live lots: the pay window of a sealed award only keeps the agent from
\* opening another order, and no agent is obliged to open one.
DeadlinePasses(b) ==
    /\ mode = "live" /\ b \notin late
    /\ bid[b] \in {"active", "countered", "accepted"} \/ award[b] = "awarded"
    /\ late' = late \cup {b}
    /\ UNCHANGED <<mode, lot, window, offer, bid, award, rooms, tagged, minting,
                   cancelling, closing, paying, runs>>

ExpireBids(statuses) ==
    /\ mode = "live"
    /\ \E b \in late : bid[b] \in statuses
    /\ bid' = [b \in Bids |-> IF b \in late /\ bid[b] \in statuses
                              THEN "expired" ELSE bid[b]]
    /\ UNCHANGED <<mode, lot, window, offer, award, rooms, tagged, late, minting,
                   cancelling, closing, paying, runs>>

ExpireUnpaid == ExpireBids({"accepted"})
ExpireStale == ExpireBids({"active", "countered"})

ExpireAwards ==
    /\ award' = [b \in Bids |-> IF b \in tagged \cap late /\ award[b] = "awarded"
                                THEN "expired" ELSE award[b]]
    /\ award' # award
    /\ UNCHANGED <<mode, lot, window, offer, bid, rooms, tagged, late, minting,
                   cancelling, closing, paying, runs>>

-----------------------------------------------------------------------------
(* Payment of an award. *)

Pays == UNCHANGED <<mode, lot, window, offer, bid, rooms, tagged, late, minting,
                    cancelling, closing, runs>>

\* An order is created for an unpaid award and then stamped on it, in two calls: when
\* the second fails, or finds the award no longer unpaid, the agent can pay it all the
\* same.
OpenOrder(b) == \E n \in 1 .. MaxOrders :
    /\ award[b] = "awarded" /\ b \notin late
    /\ order[n] = 0 /\ \A m \in 1 .. n - 1 : order[m] # 0
    /\ order' = [order EXCEPT ![n] = b]
    /\ stamped' \in {stamped, [stamped EXCEPT ![b] = n]}
    /\ UNCHANGED <<award, owed, held, bought>> /\ Pays

\* Issue the voucher, then hold the rooms of a category without units and book what
\* the owner is owed: two more calls, each tried once, that nothing else waits for.
Issue(n, b) ==
    /\ award' = [award EXCEPT ![b] = "voucher_issued"]
    /\ bought' = [bought EXCEPT ![b] = n]
    /\ \E ok \in Ok("hold") : held' = IF ok THEN held \cup {b} ELSE held
    /\ \E ok \in Ok("settle") : owed' = IF ok THEN owed \cup {b} ELSE owed
    /\ UNCHANGED <<order, stamped>> /\ Pays

\* Mutant: the award is matched by its id and status only.
VerifyByStatus(n, b) == order[n] # 0 /\ award[b] = "awarded" /\ Issue(n, b)

\* The payment of an order is presented for an award, now or again later: the award
\* must be unpaid and carry this order.
Verify(n, b) ==
    /\ order[n] # 0 /\ award[b] = "awarded" /\ stamped[b] = n
    /\ Issue(n, b)

Next ==
    \/ \E b \in Bids :
         \/ Checkout(b) \/ VerifyDeposit(b) \/ PlaceLive(b) \/ OwnerDecides(b)
         \/ AcceptCounter(b) \/ MintLive(b) \/ CancelBid(b) \/ CancelAward(b)
         \/ RefundDeposit(b) \/ DeadlinePasses(b) \/ OpenOrder(b)
    \/ WindowOpens \/ WindowCloses \/ CronOpens \/ CheckLot \/ DropLot
    \/ \E p \in Runs : Pick(p) \/ ClearStep(p) \/ Crash(p)
    \/ ExpireUnpaid \/ ExpireStale \/ ExpireAwards
    \/ \E n \in 1 .. MaxOrders, b \in Bids : Verify(n, b)

Spec == Init /\ [][Next]_vars

Clock == WindowOpens \/ WindowCloses \/ \E b \in Bids : DeadlinePasses(b)
Cron == CronOpens \/ Pick("cron") \/ ExpireUnpaid \/ ExpireStale

\* Time passes, the scheduler keeps calling the cron, and a clearing run that does
\* not die goes on.
Fairness == WF_vars(Clock) /\ WF_vars(Cron) /\ \A p \in Runs : WF_vars(ClearStep(p))

FairSpec == Spec /\ Fairness

-----------------------------------------------------------------------------
(* Properties. *)

BidStatuses == {"none", "pending_payment", "active", "countered", "accepted", "rejected",
                "won", "partial", "lost", "refunded", "expired", "cancelled"}

AwardStatuses == {"none", "awarded", "voucher_issued", "expired", "cancelled"}

RunStates == [at : {"idle", "load", "award", "mark", "flip", "close"}, todo : SUBSET Bids,
              now : Bids \cup {0}, plan : [Bids -> 0 .. NumRooms]]

\* Types, and what the handlers in flight may hold.
AuctionTypeOK ==
    /\ mode \in Modes
    /\ lot \in {"draft", "open", "closed", "awarded", "cancelled"}
    /\ window \in {"before", "open", "closed"}
    /\ bid \in [Bids -> BidStatuses]
    /\ offer \in [Bids -> {NoOffer} \cup UNION {Offers[b] : b \in Bids}]
    /\ award \in [Bids -> AwardStatuses]
    /\ rooms \in [Bids -> 0 .. NumRooms] /\ \A b \in Bids : rooms[b] =< offer[b].rooms
    /\ {tagged, late, minting, cancelling, owed, held} \subseteq SUBSET Bids
    /\ closing \in BOOLEAN /\ loads \in 0 .. 2 /\ crashes \in 0 .. MaxCrashes
    /\ clear \in [Runs -> RunStates]
    /\ order \in [1 .. MaxOrders -> Bids \cup {0}]
    /\ stamped \in [Bids -> 0 .. MaxOrders] /\ bought \in [Bids -> 0 .. MaxOrders]

Standing == {b \in Bids : award[b] \in {"awarded", "voucher_issued"}}

\* The awards of a sealed lot never need more rooms on a night than it offers.  The
\* code does not keep this.
AwardsFit ==
    mode = "sealed" =>
      \A d \in Nights :
        SumFunctionOnSet(rooms, {b \in Standing : d \in offer[b].nights})
          =< NumRooms

\* One clearing run never oversells the lot, wherever it stops and whatever is placed,
\* verified, cancelled, refunded or paid meanwhile.
OneRunFits == loads =< 1 => AwardsFit

\* One clearing run turns no bid away, in whole or in part, while a cheaper bid that
\* needs the same nights or more gets a room.
NoEnvy ==
    mode = "sealed" /\ loads =< 1 =>
      \A a, b \in Bids :
        /\ bid[a] \in {"lost", "refunded", "partial"}
        /\ offer[a].price > offer[b].price /\ offer[a].nights \subseteq offer[b].nights
        => award[b] = "none"

\* No two vouchers are issued for one payment, every voucher for a payment of its own
\* award, and rooms are held and the owner is owed for issued vouchers only.
PaymentBuysOneVoucher ==
    /\ \A b \in Bids : award[b] = "voucher_issued" =>
         bought[b] # 0 /\ order[bought[b]] = b
    /\ owed \cup held \subseteq {b \in Bids : award[b] = "voucher_issued"}

\* Nobody has looked at the bids of the lot and not yet written what follows.
Unread == ~closing /\ \A p \in Runs : clear[p].at \in {"idle", "load"}

Undecided(b) ==
    \/ mode = "live" /\ bid[b] \in {"active", "countered", "accepted"}
    \/ mode = "sealed" /\ bid[b] = "active" /\ lot = "open" /\ Unread

\* Every live bid, and every sealed bid whose deposit is verified before the lot is
\* read, is decided in the end, though clearing runs die.
BidsAreDecided == \A b \in Bids :
    Undecided(b) ~> bid[b] \notin {"active", "countered", "accepted"}
=============================================================================
