---------------------------- MODULE BidLifecycle ----------------------------
(***************************************************************************)
(* One bid of one customer at one hotel, from its placement to the end of  *)
(* the stay: the bid routes, the customer's pages that chain them around a *)
(* payment, the hotel's answer through Railway with its Supabase fallback, *)
(* the two triggers on bids.status and the three calls of the sweep cron.  *)
(*                                                                         *)
(* Three actors work on the row, each a chain of separate calls:           *)
(*   customer  the calls the customer's page has still to make, in order   *)
(*   hotel     the bid dialog the hotel has open, or the call it has begun *)
(*   cron      the next call of a running sweep                            *)
(* Time runs in half hours.  left and auto count the half hours until      *)
(* expiresAt and auto_accept_at, age those since createdAt; all three stop *)
(* counting where no code tells further values apart.  Calls take seconds, *)
(* so time stands still while one is under way; a payment dialog of the    *)
(* customer and a bid dialog of the hotel stay open longer.                *)
(***************************************************************************)
EXTENDS Integers, Sequences

CONSTANTS
    PayWindow,      \* ACCEPTED_UNPAID_WINDOW_MS
    HotelWindow,    \* the hotel's acceptance_window_min, clamped by the trigger
    PlaceWindow,    \* expiresAtFor(flow)
    CounterWindow,  \* AUTO_COUNTER_WINDOW_MS
    Grace,          \* how long past expiresAt the orphan sweep waits
    CounterGrace,   \* the same for a COUNTER
    OldAge,         \* the age from which an unscheduled PENDING bid is stale
    AutoDelay,      \* the tier's autoAcceptMs
    MaxCheckout,    \* bound: how long a payment dialog stays open
    MaxCharges,     \* bound: payments of one bid
    Faults,         \* the calls that may fail or lose their reply
    None

\* The calls that the customer's pages chain.
Calls == {"checkout", "stamp", "counter-accept", "accept", "record", "schedule",
          "cancel", "decline", "reprice", "repitch", "rebid"}

ASSUME BidAssumption ==
    /\ {PayWindow, HotelWindow, PlaceWindow, CounterWindow, Grace, CounterGrace,
        OldAge, AutoDelay, MaxCheckout, MaxCharges} \subseteq Nat
    /\ PayWindow =< HotelWindow /\ PayWindow =< PlaceWindow
    /\ PlaceWindow < OldAge /\ MaxCharges > 0
    /\ Faults \subseteq Calls \cup {"railway", "cron-accept", "sweep"}
    /\ None \notin Int

VARIABLES
    status,     \* bids.status, "none" before the row exists
    left,       \* half hours until bids.expiresAt
    auto,       \* half hours until bids.auto_accept_at, None when it is NULL
    age,        \* half hours since bids.createdAt
    stamped,    \* bids.message carries "Razorpay:"
    recorded,   \* bid_paid_amounts has a row with paid_total > 0
    rewards,    \* commission, points and notification rows written for the bid
    customer, open, hotel, cron,
    late,       \* history: the page's chain began on an accepted bid past its window
    charges,    \* how often Razorpay took the customer's money for this bid
    lost,       \* history: a call that follows a payment did not complete
    countered,  \* history: the bid has been COUNTER
    since       \* history: half hours since the last transition into ACCEPTED

row == <<status, left, rewards, countered, since>>
clock == <<left, auto, age, since>>
paying == <<stamped, recorded, charges, lost>>
page == <<customer, open, late>>
actors == <<page, hotel, cron>>
vars == <<status, left, auto, age, stamped, recorded, rewards, customer, open,
          late, hotel, cron, charges, lost, countered, since>>

Statuses == {"none", "PENDING", "COUNTER", "ACCEPTED", "REJECTED", "EXPIRED",
             "CANCELLED", "CHECKED_IN", "CHECKED_OUT"}

Larger(m, n) == IF m > n THEN m ELSE n
Longest == Larger(Larger(HotelWindow, PlaceWindow), CounterWindow)
Latest == -(Larger(Grace, CounterGrace) + 1)

\* The customer's next call.
Due == IF customer = <<>> THEN "nothing" ELSE Head(customer)

Outcome(call) == IF call \in Faults THEN {"ok", "lost", "failed"} ELSE {"ok"}

Init ==
    /\ status = "none" /\ left = 0 /\ auto = None /\ age = 0
    /\ stamped = FALSE /\ recorded = FALSE /\ charges = 0 /\ lost = FALSE
    /\ rewards = 0 /\ countered = FALSE /\ since = 0
    /\ customer = <<>> /\ open = 0 /\ late = FALSE /\ hotel = "idle" /\ cron = "idle"

-----------------------------------------------------------------------------
(* A write of bids.status and bids.expiresAt, with the triggers it fires. *)

\* Mutant: without the NOT EXISTS guards, every transition adds its rows.
RewardAgain(s) == rewards' = IF s = "ACCEPTED" /\ status # "ACCEPTED" /\ rewards < 2
                             THEN rewards + 1 ELSE rewards

\* fn_on_bid_accepted: one set of rows for each bid, whatever is written later.
Reward(s) == rewards' = IF s = "ACCEPTED" /\ status # "ACCEPTED" /\ rewards = 0
                        THEN 1 ELSE rewards

\* Mutant: the window of an earlier status is kept when the bid is accepted.
StampKept(s, exp) == left' = exp

\* Mutant: the window of the hotel is added to what was written.
StampAdded(s, exp) == left' = IF s = "ACCEPTED" /\ status # "ACCEPTED"
                              THEN exp + HotelWindow ELSE exp

\* fn_stamp_accepted_expiry: a transition into ACCEPTED overrides what was written.
StampExpiry(s, exp) == left' = IF s = "ACCEPTED" /\ status # "ACCEPTED"
                               THEN HotelWindow ELSE exp

Write(s, exp) ==
    /\ status' = s
    /\ StampExpiry(s, exp)
    /\ Reward(s)
    /\ countered' = (countered \/ s = "COUNTER")
    /\ since' = IF s = "ACCEPTED" /\ status # "ACCEPTED" THEN 0 ELSE since

-----------------------------------------------------------------------------
(* The customer. *)

\* A bid without prepayment, as the pricing rule of the hotel answers it; the hotel's
\* page has it scheduled whatever the answer.
Place == \E s \in {"PENDING", "COUNTER", "ACCEPTED"} :
    /\ status = "none"
    /\ Write(s, CASE s = "ACCEPTED" -> PayWindow
                  [] s = "COUNTER" -> CounterWindow
                  [] OTHER -> PlaceWindow)
    /\ customer' \in {<<>>, <<"schedule">>}
    /\ UNCHANGED <<auto, age, paying, open, late, hotel, cron>>

\* Pay first, then place: Book Now and flash deals accept the bid themselves, a
\* negotiation above the floor records the payment and schedules the acceptance.
PlacePrepaid == \E todo \in {<<"accept", "record">>, <<"record", "schedule">>} :
    /\ status = "none"
    /\ Write("PENDING", PlaceWindow)
    /\ charges' = 1
    /\ stamped' \in (IF todo[1] = "record" THEN {TRUE} ELSE BOOLEAN)
    /\ customer' = todo
    /\ UNCHANGED <<auto, age, recorded, lost, open, late, hotel, cron>>

Begin(todo) ==
    /\ customer = <<>>
    /\ customer' = todo
    /\ open' = 0
    /\ late' = (status = "ACCEPTED" /\ left < 0)
    /\ UNCHANGED <<row, auto, age, paying, hotel, cron>>

\* isBidPayWindowOpen gates the button on an accepted bid.
PayNow ==
    /\ status = "ACCEPTED" /\ ~stamped /\ left >= 0
    /\ Begin(<<"checkout", "stamp", "record">>)

\* The link ?payNow= starts the same chain on a bid still open, and on an accepted one
\* without a look at its window.
PayFromLink ==
    /\ status \in {"PENDING", "COUNTER"} \/ (status = "ACCEPTED" /\ ~stamped)
    /\ Begin(<<"checkout", "stamp", "record">>)

PayCounter ==
    /\ status = "COUNTER"
    /\ Begin(<<"checkout", "counter-accept", "record">>)

\* The status is checked here and the row written by the call that follows.
Cancel == status \in {"PENDING", "COUNTER"} /\ Begin(<<"cancel">>)
Decline == status = "COUNTER" /\ Begin(<<"decline">>)
ChangeBudget ==
    \/ status = "PENDING" /\ Begin(<<"reprice">>)
    \/ status = "COUNTER" /\ Begin(<<"repitch">>)
    \/ status \in {"PENDING", "COUNTER"} /\ Begin(<<"rebid">>)

Capture ==
    /\ Due = "checkout"
    /\ charges < MaxCharges /\ charges' = charges + 1
    /\ customer' = Tail(customer) /\ open' = 0
    /\ UNCHANGED <<row, auto, age, stamped, recorded, lost, late, hotel, cron>>

Dismiss ==
    /\ Due = "checkout"
    /\ customer' = <<>> /\ open' = 0
    /\ UNCHANGED <<row, auto, age, paying, late, hotel, cron>>

\* What the route of a call writes.
Effect(call) ==
    CASE call = "stamp" ->
            stamped' = TRUE /\ UNCHANGED <<row, auto, recorded>>
      [] call = "record" ->
            recorded' = TRUE /\ UNCHANGED <<row, auto, stamped>>
      [] call = "schedule" ->
            auto' \in {auto, AutoDelay} /\ UNCHANGED <<row, stamped, recorded>>
      [] call \in {"accept", "counter-accept", "rebid"} ->
            Write("ACCEPTED", PayWindow) /\ UNCHANGED <<auto, stamped, recorded>>
      [] call = "cancel" ->
            Write("CANCELLED", left) /\ UNCHANGED <<auto, stamped, recorded>>
      [] call = "decline" ->
            Write("REJECTED", left) /\ UNCHANGED <<auto, stamped, recorded>>
      [] call = "reprice" ->
            Write(status, PlaceWindow) /\ UNCHANGED <<auto, stamped, recorded>>
      [] call = "repitch" ->
            Write("PENDING", PlaceWindow) /\ UNCHANGED <<auto, stamped, recorded>>

\* A failed stamp or counter-accept is thrown and ends the page's chain; the other
\* calls are tried once and their failure swallowed.
Throws(call, out) == out # "ok" /\ call \in {"stamp", "counter-accept"}

Call ==
    /\ Due \notin {"nothing", "checkout"}
    /\ \E out \in Outcome(Due) :
         /\ IF out = "failed" THEN UNCHANGED <<row, auto, stamped, recorded>>
                              ELSE Effect(Due)
         /\ lost' = (lost \/ (charges > 0 /\ out # "ok"))
         /\ customer' = IF Throws(Due, out) THEN <<>> ELSE Tail(customer)
    /\ UNCHANGED <<age, charges, open, late, hotel, cron>>

\* The countdown on the customer's page reaches zero.
TriggerAccept ==
    /\ status = "PENDING" /\ auto # None /\ auto =< 0
    /\ Write("ACCEPTED", PayWindow)
    /\ UNCHANGED <<auto, age, paying, actors>>

-----------------------------------------------------------------------------
(* The hotel. *)

Answers == {"accept", "counter", "reject"}
Answered(a) == CASE a = "accept" -> "ACCEPTED" [] a = "counter" -> "COUNTER"
                 [] a = "reject" -> "REJECTED"

HotelTurns(to) ==
    /\ hotel' = to
    /\ UNCHANGED <<row, auto, age, paying, page, cron>>

\* The inbox opens a dialog on PENDING bids, and answers from what it showed then.
OpenBid == hotel = "idle" /\ status = "PENDING" /\ HotelTurns("dialog")

Answer == hotel = "dialog" /\ \E a \in Answers : HotelTurns(a)

\* The desk route reads the status, and writes several calls later.
Desk ==
    /\ hotel = "idle"
    /\ \/ status = "ACCEPTED" /\ HotelTurns("check-in")
       \/ status = "CHECKED_IN" /\ HotelTurns("check-out")

\* Railway applies the answer to a bid still open; its reply may be lost, and then
\* the fallback applies the answer again.
Railway ==
    /\ hotel \in Answers
    /\ status \in {"PENDING", "COUNTER"}
    /\ Write(Answered(hotel), left)
    /\ \E out \in Outcome("railway") \ {"failed"} :
         hotel' = IF out = "ok" THEN "idle" ELSE hotel
    /\ UNCHANGED <<auto, age, paying, page, cron>>

\* The Supabase fallback, by id alone.
Fallback ==
    /\ hotel \in Answers
    /\ Write(Answered(hotel), IF hotel = "accept" THEN PayWindow ELSE left)
    /\ hotel' = "idle"
    /\ UNCHANGED <<auto, age, paying, page, cron>>

DeskPatch ==
    /\ hotel \in {"check-in", "check-out"}
    /\ Write(IF hotel = "check-in" THEN "CHECKED_IN" ELSE "CHECKED_OUT", left)
    /\ hotel' = "idle"
    /\ UNCHANGED <<auto, age, paying, page, cron>>

\* The dialog is closed, or the last call fails.
HotelGivesUp ==
    /\ hotel = "dialog" \/ (hotel # "idle" /\ "railway" \in Faults)
    /\ HotelTurns("idle")

-----------------------------------------------------------------------------
(* The sweep cron: runAll of expire-holds, three calls in a row. *)

Swept(stale, next) ==
    /\ IF stale THEN Write("EXPIRED", left) ELSE UNCHANGED row
    /\ cron' = next
    /\ UNCHANGED <<auto, age, paying, page, hotel>>

\* Mutant: a failed first call is swallowed like the two others.
CronAcceptSwallowed ==
    /\ cron = "idle"
    /\ \E out \in Outcome("cron-accept") :
         /\ IF out # "failed" /\ status = "PENDING" /\ auto # None /\ auto =< 0
            THEN Write("ACCEPTED", left) ELSE UNCHANGED row
         /\ cron' = "stale"
    /\ UNCHANGED <<auto, age, paying, page, hotel>>

\* mark_expired_holds accepts every PENDING bid that is due.  Its failure is thrown
\* and ends the run.
CronAccept ==
    /\ cron = "idle"
    /\ \E out \in Outcome("cron-accept") :
         /\ IF out # "failed" /\ status = "PENDING" /\ auto # None /\ auto =< 0
            THEN Write("ACCEPTED", left) ELSE UNCHANGED row
         /\ cron' = IF out = "ok" THEN "stale" ELSE "idle"
    /\ UNCHANGED <<auto, age, paying, page, hotel>>

\* mark_stale_pending_bids; its fifteen minutes past auto_accept_at are less than
\* one unit of this clock.
Stale ==
    \/ status = "PENDING" /\ auto = None /\ age >= OldAge
    \/ status = "PENDING" /\ auto # None /\ auto < 0
    \/ status = "COUNTER" /\ left < -CounterGrace

CronStale == cron = "stale" /\ Swept(Stale, "orphans")

\* Mutant: the sweep of v229, an inner join with windows nobody wrote.
OrphanedByWindow == FALSE

\* Mutant: no grace between the window and the sweep.
OrphanedAtOnce == status = "ACCEPTED" /\ left < 0 /\ ~recorded

\* mark_orphaned_accepted_bids, Case B of v239.
Orphaned == status = "ACCEPTED" /\ left < -Grace /\ ~recorded

CronOrphans == cron = "orphans" /\ Swept(Orphaned, "idle")

\* Either sweep fails; the route swallows it and goes on.
CronSweepFails ==
    /\ "sweep" \in Faults
    /\ \/ cron = "stale" /\ Swept(FALSE, "orphans")
       \/ cron = "orphans" /\ Swept(FALSE, "idle")

-----------------------------------------------------------------------------
\* No call is under way.
Quiet ==
    /\ hotel \in {"idle", "dialog"} /\ cron = "idle"
    /\ Due \in {"nothing", "checkout"}

\* Half an hour passes.
Tick ==
    /\ status # "none" /\ Quiet
    /\ IF customer = <<>> THEN UNCHANGED open
                          ELSE open < MaxCheckout /\ open' = open + 1
    /\ left' = Larger(left - 1, Latest)
    /\ auto' = IF auto = None THEN None ELSE Larger(auto - 1, -1)
    /\ age' = IF age < OldAge THEN age + 1 ELSE age
    /\ since' = IF since =< PayWindow + Grace THEN since + 1 ELSE since
    /\ UNCHANGED <<status, paying, rewards, customer, late, hotel, cron, countered>>

Next ==
    \/ Place \/ PlacePrepaid \/ PayNow \/ PayFromLink \/ PayCounter
    \/ Cancel \/ Decline \/ ChangeBudget \/ Capture \/ Dismiss \/ Call \/ TriggerAccept
    \/ OpenBid \/ Answer \/ Desk \/ Railway \/ Fallback \/ DeskPatch \/ HotelGivesUp
    \/ CronAccept \/ CronStale \/ CronOrphans \/ CronSweepFails
    \/ Tick

\* Time passes whatever people do, calls that were begun end, and the scheduler
\* keeps running the cron, whose calls do not fail for ever.
Fairness ==
    /\ SF_vars(Tick)
    /\ WF_vars(Capture \/ Dismiss) /\ WF_vars(Call)
    /\ WF_vars(Fallback \/ DeskPatch)
    /\ SF_vars(CronAccept /\ cron' = "stale") /\ SF_vars(CronStale)
    /\ SF_vars(CronOrphans)

Spec == Init /\ [][Next]_vars
FairSpec == Spec /\ Fairness

-----------------------------------------------------------------------------
(* Properties. *)

\* What may be left of the chains that the pages start.
Chains == {<<>>, <<"checkout", "stamp", "record">>, <<"stamp", "record">>,
    <<"checkout", "counter-accept", "record">>, <<"counter-accept", "record">>,
    <<"accept", "record">>, <<"record">>, <<"record", "schedule">>, <<"schedule">>,
    <<"cancel">>, <<"decline">>, <<"reprice">>, <<"repitch">>, <<"rebid">>}

\* Types: the clocks stay between the values at which they stop counting and the
\* longest window, and the page's chain is one of those the pages start.
BidTypeOK ==
    /\ status \in Statuses
    /\ left \in Latest .. Longest
    /\ auto \in (-1 .. AutoDelay) \cup {None}
    /\ age \in 0 .. OldAge /\ since \in 0 .. PayWindow + Grace + 1
    /\ stamped \in BOOLEAN /\ recorded \in BOOLEAN /\ lost \in BOOLEAN
    /\ countered \in BOOLEAN /\ late \in BOOLEAN
    /\ charges \in 0 .. MaxCharges
    /\ rewards \in 0 .. 2
    /\ customer \in Chains /\ open \in 0 .. MaxCheckout
    /\ hotel \in Answers \cup {"idle", "dialog", "check-in", "check-out"}
    /\ cron \in {"idle", "stale", "orphans"}

\* However often a bid is accepted, taken back and accepted again, the referral
\* commission and the points are booked once, and a confirmed or staying guest's
\* booking has them.
RewardedOnce ==
    /\ rewards =< 1
    /\ status \in {"ACCEPTED", "CHECKED_IN", "CHECKED_OUT"} => rewards = 1

\* Whoever accepted the bid, and whatever expiresAt it had before, the customer has
\* the payment window and its grace from the moment of acceptance.
WindowHonoured ==
    [][status = "ACCEPTED" /\ status' = "EXPIRED" => since > PayWindow + Grace]_vars

\* An accepted bid is not swept while its payment dialog is open or while the calls
\* after it run, nor later unless one of them was lost.  Only a dialog that a link
\* opened past the window is not spared.
SweepSparesPayers ==
    [][status = "ACCEPTED" /\ status' = "EXPIRED" /\ ~(late /\ customer # <<>>) =>
         /\ Due \in {"nothing", "cancel", "decline", "reprice", "repitch", "rebid"}
         /\ charges > 0 => lost]_vars

\* A scheduled bid is accepted, not expired, by a cron that comes late, unless the
\* hotel had countered it.
ScheduleKept ==
    [][status = "PENDING" /\ auto # None /\ status' = "EXPIRED" => countered]_vars

Waiting == status \in {"PENDING", "COUNTER"} \/ (status = "ACCEPTED" /\ ~recorded)

\* No bid waits for ever for an answer or a payment: only a window renewed again
\* and again keeps it open.  (Calls take no time here, so runs in which one call
\* always overlaps the next, and no half hour ever passes, are set aside.)
NothingLingers == []<>Quiet /\ <>[]Waiting => []<><<left' > left>>_vars

\* When the calls after a payment have all completed, the bid carries the stamp by
\* which every view tells that it is paid.  The code does not keep this.
PaidIsStamped == charges > 0 /\ customer = <<>> /\ ~lost => stamped

\* A paid booking, by the stamp its payment left on it, is never expired.  The code
\* does not keep this.
PaidNeverSwept ==
    [][stamped /\ status = "ACCEPTED" => status' # "EXPIRED"]_vars

\* A bid paid and recorded before the hotel answered is not expired: its link "locks it
\* in".  The code does not keep this.
PaidBidKept ==
    [][stamped /\ recorded /\ status \in {"PENDING", "COUNTER"} => status' # "EXPIRED"]_vars
=============================================================================
