-------------------------- MODULE ClassicInventory --------------------------
(***************************************************************************)
(* Pre-paid inventory blocks of one room category of a "classic" hotel,    *)
(* one that has no physical units: capacity is rooms.quantity.  A buyer    *)
(* reserves one room for a range of nights before paying, which writes an  *)
(* inventory_blocks row and a room_blocks hold named after it; payment     *)
(* verification flips the row to owned; the owner lists it, a guest buys   *)
(* it; the lifecycle cron and the admin desk expire it and release the     *)
(* hold.  Only the reservation runs in a database transaction, under an    *)
(* advisory lock on the category.  Every other handler is a chain of       *)
(* separate calls, and ordinary bids take rooms of the category without    *)
(* the lock.                                                               *)
(*                                                                         *)
(* A block stands for the checkout that minted its fresh id, with the      *)
(* nights and the buyer of that checkout; its payment is one order.        *)
(***************************************************************************)
EXTENDS Integers, FiniteSets

CONSTANTS
  Blocks,       \* inventory_blocks ids
  Bids,         \* bids on the category
  Guests,       \* customers who may buy a listed block
  Quantity,     \* rooms.quantity of the category
  LastDay,      \* bound on the calendar
  From, To,     \* nights of a block or bid: From[s] <= night < To[s]
  RoomsOf,      \* numRooms of a bid
  Replay,       \* whether a reservation call may be repeated for a dead block
  Lost,         \* calls that may fail
  Nobody        \* no block, no bid

Calls == {"patch", "release", "flip", "flag", "settle", "verify", "read", "budget"}
Days  == 0..LastDay

ASSUME ClassicAssumption ==
  /\ IsFiniteSet(Blocks) /\ IsFiniteSet(Bids)
  /\ Blocks \cap Bids = {} /\ Nobody \notin Blocks
  /\ Quantity \in Nat /\ LastDay \in Nat
  /\ From \in [Blocks \cup Bids -> Days] /\ To \in [Blocks \cup Bids -> 1..(LastDay + 1)]
  /\ RoomsOf \in [Bids -> Nat \ {0}]
  /\ Replay \in BOOLEAN /\ Lost \subseteq Calls

VARIABLES
  status,     \* inventory_blocks.status, "none" before the row exists
  hold,       \* blocks whose invhold_ row is in room_blocks
  aged,       \* blocks whose row is older than PENDING_TTL_MINUTES
  bought,     \* blocks with purchased_at set
  review,     \* blocks whose metadata says needsOpsReview
  trade,      \* status of the block's b2b_trades row
  paid,       \* blocks whose payment the gateway captured
  settled,    \* trades with a settlement_ledger row
  verifying,  \* next step of the block's payment verification
  reserving,  \* reservations inside the advisory lock with their checks passed
  cron,       \* progress of the lifecycle cron
  unholding,  \* blocks whose hold the admin desk is about to delete
  sale,       \* block and status of a guest's inventory_sales row
  bid,        \* stage of every bid
  today

stock == <<status, hold, aged, bought, review>>
money == <<trade, paid, settled, verifying>>
desks == <<cron, unholding>>
vars  == <<stock, money, desks, reserving, sale, bid, today>>

Live     == {"pending_payment", "owned", "listed", "sold"}
Statuses == Live \cup {"none", "expired", "refunded"}
Stages   == {"none", "checked", "PENDING", "hard", "gone"}
NoSale   == [block |-> Nobody, status |-> "none"]
CronIdle == [pass |-> "idle", todo |-> {}, cur |-> Nobody, seen |-> {}]

TypeOK ==
  /\ status \in [Blocks -> Statuses]
  /\ hold \subseteq Blocks /\ aged \subseteq Blocks /\ bought \subseteq Blocks
  /\ review \subseteq Blocks /\ paid \subseteq Blocks /\ settled \subseteq Blocks
  /\ trade \in [Blocks -> {"none", "pending_payment", "completed"}]
  /\ verifying \in [Blocks -> {"idle", "flip", "assert", "flag", "settle"}]
  /\ reserving \subseteq Blocks
  /\ cron \in [pass : {"idle", "pending", "started"}, todo : SUBSET Blocks,
               cur : Blocks \cup {Nobody}, seen : SUBSET Blocks]
  /\ unholding \subseteq Blocks
  /\ sale \in [Guests -> [block : Blocks \cup {Nobody},
                          status : {"none", "pending_payment", "paid"}]]
  /\ bid \in [Bids -> Stages]
  /\ today \in Days

Init ==
  /\ status = [b \in Blocks |-> "none"] /\ hold = {} /\ aged = {} /\ bought = {} /\ review = {}
  /\ trade = [b \in Blocks |-> "none"] /\ paid = {} /\ settled = {}
  /\ verifying = [b \in Blocks |-> "idle"]
  /\ reserving = {} /\ cron = CronIdle /\ unholding = {}
  /\ sale = [g \in Guests |-> NoSale]
  /\ bid = [x \in Bids |-> "none"]
  /\ today = 0

-----------------------------------------------------------------------------
(* Occupancy of a night: one room per hold, numRooms per hard-blocking bid. *)
Covers(s, n)  == From[s] <= n /\ n < To[s]
NightsOf(s)   == {n \in Days : Covers(s, n)}
HoldsOn(n)    == {b \in hold : Covers(b, n)}
BidRooms      == {u \in Bids \X (1..Quantity) : u[2] <= RoomsOf[u[1]]}
BidRoomsOn(n) == {u \in BidRooms : bid[u[1]] = "hard" /\ Covers(u[1], n)}
Occupied(n)   == Cardinality(HoldsOn(n)) + Cardinality(BidRoomsOn(n))
Fits(s, k)    == \A n \in NightsOf(s) : Occupied(n) + k <= Quantity

\* The stay is over: its checkout is refused.
Past(b) == To[b] <= today

\* Faulty: the check does not wait for the lock.
ReserveCheckUnlocked(b) ==
  /\ status[b] \notin Live
  /\ status[b] = "none" => ~Past(b)
  /\ status[b] # "none" => Replay
  /\ Fits(b, 1)
  /\ reserving' = reserving \cup {b}
  /\ UNCHANGED <<stock, money, desks, sale, bid, today>>

(* reserve_classic_block under its advisory lock: the checks, then the two   *)
(* inserts and the commit.  ON CONFLICT DO NOTHING keeps an existing row.    *)
ReserveCheck(b) ==
  /\ reserving = {}
  /\ status[b] \notin Live
  /\ status[b] = "none" => ~Past(b)
  /\ status[b] # "none" => Replay
  /\ Fits(b, 1)
  /\ reserving' = reserving \cup {b}
  /\ UNCHANGED <<stock, money, desks, sale, bid, today>>

ReserveCommit(b) ==
  /\ b \in reserving
  /\ status' = [status EXCEPT ![b] = IF @ = "none" THEN "pending_payment" ELSE @]
  /\ hold' = hold \cup {b}
  /\ reserving' = reserving \ {b}
  /\ UNCHANGED <<aged, bought, review, money, desks, sale, bid, today>>

\* Written once the reservation is; without it the checkout fails and its order is
\* never paid.
OpenTrade(b) ==
  /\ status[b] # "none" /\ trade[b] = "none"
  /\ trade' = [trade EXCEPT ![b] = "pending_payment"]
  /\ UNCHANGED <<stock, paid, settled, verifying, desks, reserving, sale, bid, today>>

\* The gateway captures a payment whenever the buyer makes it.
Pay(b) ==
  /\ trade[b] = "pending_payment" /\ b \notin paid
  /\ paid' = paid \cup {b}
  /\ UNCHANGED <<stock, trade, settled, verifying, desks, reserving, sale, bid, today>>

-----------------------------------------------------------------------------
(* Verification of the payment, any number of times.                        *)
Verified(b, step) == verifying' = [verifying EXCEPT ![b] = step]

VerifyTrade(b) ==
  /\ verifying[b] = "idle" /\ b \in paid
  /\ trade' = [trade EXCEPT ![b] = "completed"]
  /\ Verified(b, "flip")
  /\ UNCHANGED <<stock, paid, settled, desks, reserving, sale, bid, today>>

\* PATCH pending_payment -> owned; a repeated call finds the block owned; with
\* the block in any other status, or the PATCH lost, the ownership part is skipped.
VerifyFlip(b) ==
  /\ verifying[b] = "flip"
  /\ \/ /\ status[b] = "pending_payment"
        /\ status' = [status EXCEPT ![b] = "owned"]
        /\ bought' = bought \cup {b}
        /\ Verified(b, "assert")
     \/ /\ status[b] = "owned"
        /\ Verified(b, "assert")
        /\ UNCHANGED <<status, bought>>
     \/ /\ status[b] \notin {"pending_payment", "owned"} \/ "flip" \in Lost
        /\ Verified(b, "settle")
        /\ UNCHANGED <<status, bought>>
  /\ UNCHANGED <<hold, aged, review, trade, paid, settled, desks, reserving, sale, bid, today>>

\* Faulty: writeHold upserts the hold, as it does for a block with a unit.
VerifyAssertUpserts(b) ==
  /\ verifying[b] = "assert"
  /\ hold' = hold \cup {b}
  /\ Verified(b, "settle")
  /\ UNCHANGED <<status, aged, bought, review, trade, paid, settled, desks, reserving, sale, bid, today>>

\* The classic branch of writeHold only reads; a failed read counts as a lost hold.
VerifyAssert(b) ==
  /\ verifying[b] = "assert"
  /\ \/ b \in hold /\ Verified(b, "settle")
     \/ (b \notin hold \/ "read" \in Lost) /\ Verified(b, "flag")
  /\ UNCHANGED <<stock, trade, paid, settled, desks, reserving, sale, bid, today>>

VerifyFlag(b) ==
  /\ verifying[b] = "flag"
  /\ \/ review' = review \cup {b}
     \/ "flag" \in Lost /\ UNCHANGED review
  /\ Verified(b, "settle")
  /\ UNCHANGED <<status, hold, aged, bought, trade, paid, settled, desks, reserving, sale, bid, today>>

VerifySettle(b) ==
  /\ verifying[b] = "settle"
  /\ \/ settled' = settled \cup {b}
     \/ "settle" \in Lost /\ UNCHANGED settled
  /\ Verified(b, "idle")
  /\ UNCHANGED <<stock, trade, paid, desks, reserving, sale, bid, today>>

VerifyDies(b) ==
  /\ "verify" \in Lost /\ verifying[b] # "idle"
  /\ Verified(b, "idle")
  /\ UNCHANGED <<stock, trade, paid, settled, desks, reserving, sale, bid, today>>

-----------------------------------------------------------------------------
(* The owner lists and unlists a block; guests buy it.                      *)
SetStatus(b, s) == status' = [status EXCEPT ![b] = s]
KeepRest        == UNCHANGED <<hold, aged, bought, money, cron, reserving, bid, today>>

List(b) ==
  /\ status[b] \in {"owned", "listed"} /\ ~Past(b)
  /\ SetStatus(b, "listed")
  /\ UNCHANGED <<review, unholding, sale>> /\ KeepRest

Unlist(b) ==
  /\ status[b] = "listed"
  /\ SetStatus(b, "owned")
  /\ UNCHANGED <<review, unholding, sale>> /\ KeepRest

SaleCheckout(g, b) ==
  /\ sale[g] = NoSale /\ status[b] = "listed" /\ ~Past(b)
  /\ sale' = [sale EXCEPT ![g] = [block |-> b, status |-> "pending_payment"]]
  /\ UNCHANGED <<status, review, unholding>> /\ KeepRest

\* The guest's captured payment is recorded whether or not the block flips.
SaleVerify(g) ==
  LET b == sale[g].block IN
  /\ sale[g].status = "pending_payment"
  /\ sale' = [sale EXCEPT ![g].status = "paid"]
  /\ status' = IF status[b] = "listed" THEN [status EXCEPT ![b] = "sold"] ELSE status
  /\ UNCHANGED <<review, unholding>> /\ KeepRest

\* The admin desk checks that its guarded PATCH matched before it deletes.
ForceExpire(b) ==
  /\ status[b] \in {"owned", "listed"}
  /\ SetStatus(b, "expired")
  /\ unholding' = unholding \cup {b}
  /\ UNCHANGED <<review, sale>> /\ KeepRest

Buyback(b) ==
  /\ status[b] \in {"owned", "listed", "expired"}
  /\ SetStatus(b, "refunded")
  /\ unholding' = unholding \cup {b}
  /\ UNCHANGED <<review, sale>> /\ KeepRest

AdminRelease(b) ==
  /\ b \in unholding
  /\ unholding' = unholding \ {b}
  /\ \/ hold' = hold \ {b}
     \/ "release" \in Lost /\ UNCHANGED hold
  /\ UNCHANGED <<status, aged, bought, review, money, cron, reserving, sale, bid, today>>

-----------------------------------------------------------------------------
(* The lifecycle cron: read a pass's blocks, then PATCH and release each.    *)
Sellable == {"owned", "listed"}
Expiring(pass) ==
  IF pass = "pending" THEN {"pending_payment"} ELSE Sellable
\* Faulty: an abandoned reservation is recognised by its stay's date.
DueByDate(pass) == {b \in Blocks : status[b] \in Expiring(pass) /\ From[b] < today}

Due(pass) ==
  {b \in Blocks : /\ status[b] \in Expiring(pass)
                  /\ IF pass = "pending" THEN b \in aged ELSE From[b] < today}

Scan(pass) ==
  cron' = [pass |-> pass, todo |-> Due(pass), cur |-> Nobody, seen |-> review \cap Due(pass)]

CronScan ==
  /\ cron.todo = {} /\ cron.cur = Nobody
  /\ \/ cron.pass = "idle" /\ Scan("pending")
     \/ cron.pass = "pending" /\ Scan("started")
     \/ cron.pass = "started" /\ cron' = CronIdle
  /\ UNCHANGED <<stock, money, unholding, reserving, sale, bid, today>>

\* Faulty: a status the inventory does not know.
CronCancels(b) ==
  /\ b \in cron.todo /\ cron.cur = Nobody
  /\ cron' = [cron EXCEPT !.todo = @ \ {b}, !.cur = b]
  /\ status' = [status EXCEPT ![b] = "abandoned"]
  /\ UNCHANGED <<hold, aged, bought, review, money, unholding, reserving, sale, bid, today>>

\* The PATCH is guarded on the status and writes back the metadata read by the
\* scan; its reply does not say whether a row matched.
CronPatch(b) ==
  /\ b \in cron.todo /\ cron.cur = Nobody
  /\ cron' = [cron EXCEPT !.todo = @ \ {b}, !.cur = b]
  /\ IF status[b] \in Expiring(cron.pass)
     THEN /\ status' = [status EXCEPT ![b] = "expired"]
          /\ review' = (review \ {b}) \cup (cron.seen \cap {b})
     ELSE UNCHANGED <<status, review>>
  /\ UNCHANGED <<hold, aged, bought, money, unholding, reserving, sale, bid, today>>

CronRelease ==
  /\ cron.cur # Nobody
  /\ cron' = [cron EXCEPT !.cur = Nobody]
  /\ \/ hold' = hold \ {cron.cur}
     \/ "release" \in Lost /\ UNCHANGED hold
  /\ UNCHANGED <<status, aged, bought, review, money, unholding, reserving, sale, bid, today>>

\* A PATCH fails, or the time budget ends the pass.
CronSkips ==
  /\ cron.cur = Nobody
  /\ \/ /\ "patch" \in Lost
        /\ \E b \in cron.todo : cron' = [cron EXCEPT !.todo = @ \ {b}]
     \/ /\ "budget" \in Lost /\ cron.todo # {}
        /\ cron' = [cron EXCEPT !.todo = {}]
  /\ UNCHANGED <<stock, money, unholding, reserving, sale, bid, today>>

-----------------------------------------------------------------------------
(* Ordinary bids: a read-then-write guard that fails open, and a hotel that  *)
(* accepts a pending bid without looking at availability.                    *)
BidMoves(x, stage) ==
  /\ bid' = [bid EXCEPT ![x] = stage]
  /\ UNCHANGED <<stock, money, desks, reserving, sale, today>>

PlaceCheck(x) ==
  /\ bid[x] = "none" /\ RoomsOf[x] <= Quantity
  /\ Fits(x, RoomsOf[x]) \/ "read" \in Lost
  /\ BidMoves(x, "checked")

PlaceWrite(x)    == bid[x] = "checked" /\ \E s \in {"PENDING", "hard"} : BidMoves(x, s)
PartnerAccept(x) == bid[x] = "PENDING" /\ BidMoves(x, "hard")
Repitch(x)       == bid[x] = "hard" /\ BidMoves(x, "PENDING")   \* a COUNTER bid
BidLeaves(x)     == bid[x] \in {"PENDING", "hard"} /\ BidMoves(x, "gone")

Age(b) ==
  /\ status[b] = "pending_payment" /\ b \notin aged
  /\ aged' = aged \cup {b}
  /\ UNCHANGED <<status, hold, bought, review, money, desks, reserving, sale, bid, today>>

Tomorrow ==
  /\ today < LastDay
  /\ today' = today + 1
  /\ UNCHANGED <<stock, money, desks, reserving, sale, bid>>

-----------------------------------------------------------------------------
Reserve(b) == ReserveCheck(b) \/ ReserveCommit(b)
Verify(b)  == VerifyTrade(b) \/ VerifyFlip(b) \/ VerifyAssert(b) \/ VerifyFlag(b)
                \/ VerifySettle(b) \/ VerifyDies(b)
Own(b)     == List(b) \/ Unlist(b) \/ \E g \in Guests : SaleCheckout(g, b)
Admin(b)   == ForceExpire(b) \/ Buyback(b) \/ AdminRelease(b)
Cron       == CronScan \/ (\E b \in Blocks : CronPatch(b)) \/ CronRelease \/ CronSkips
Bidding(x) == PlaceCheck(x) \/ PlaceWrite(x) \/ PartnerAccept(x) \/ Repitch(x)
                \/ BidLeaves(x)

Next ==
  \/ \E b \in Blocks : Reserve(b) \/ OpenTrade(b) \/ Pay(b) \/ Verify(b) \/ Own(b) \/ Admin(b) \/ Age(b)
  \/ \E g \in Guests : SaleVerify(g)
  \/ \E x \in Bids : Bidding(x)
  \/ Cron
  \/ Tomorrow

Spec == Init /\ [][Next]_vars

\* Blocks age and the cron keeps being called; nobody else has to act.
FairSpec ==
  /\ Spec
  /\ \A b \in Blocks : WF_vars(Age(b)) /\ WF_vars(ReserveCommit(b))
  /\ WF_vars(CronScan) /\ WF_vars(CronRelease)
  /\ \A b \in Blocks : SF_vars(CronPatch(b))

-----------------------------------------------------------------------------
(* Properties.                                                              *)

\* The pre-paid holds of a night never exceed the category's rooms, whatever
\* payment verification, the cron, the admin desk and bids do meanwhile.
HoldsNeverOversell == \A n \in Days : Cardinality(HoldsOn(n)) <= Quantity

\* No leaked capacity: a hold belongs to a block that is for its buyer, or its
\* deletion is the next step of the cron or of the admin desk.
HoldFollowsBlock ==
  \A b \in hold : status[b] \in Live \/ cron.cur = b \/ b \in unholding

\* An abandoned reservation gives its room back: "abandoned checkouts must not
\* permanently hold capacity" (the cron's pass over pending blocks).
AbandonedIsReleased ==
  \A b \in Blocks : (status[b] = "pending_payment") ~> (b \in bought \/ b \notin hold)

\* A bought block keeps its hold, or the loss is up for review (while no
\* verification of it is under way).
BoughtKeepsHold ==
  \A b \in Blocks :
    (status[b] \in {"owned", "listed", "sold"} /\ verifying[b] = "idle") => b \in hold \cup review

\* Of the steps that delete holds, only the cron's takes that of a live block: the loss
\* of a bought hold is its doing, never the admin desk's.
OnlyCronTakesLiveHolds ==
  [][\A b \in hold \ hold' : status[b] \in Live => cron.cur = b]_vars

\* A settled payment bought its block, or the payment is up for review.  The
\* code does not keep this.
SettledIsBoughtOrReviewed == settled \subseteq bought \cup review

\* No two guests have paid for the same block.  The code does not keep this.
OneGuestPerBlock ==
  \A g, h \in Guests :
    (g # h /\ sale[g].status = "paid" /\ sale[h].status = "paid") => sale[g].block # sale[h].block
=============================================================================
