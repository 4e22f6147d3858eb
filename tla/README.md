# StayBid: a TLA+ verification project

StayBid is a hotel marketplace: customers bid for rooms, hotels accept, counter
or reject, guests are checked in and out by the hotel, and investors buy room
nights in advance and resell them. The repository is a Next.js application over
a Supabase (PostgreSQL) store. Most handlers are chains of separate REST calls
to that store; the few places where correctness depends on a database
transaction are plpgsql functions and triggers in `src/migrations`.

That split decides what is worth modelling. A handler of several calls can be
interleaved with any other, can lose any call, and can be repeated; a plpgsql
function holds locks and either commits or not. The project models the parts
that decide **who has which room on which night**, at the grain of those calls
and transactions; **what money is promised to whom**, in the bid's payment, the
trade auction and the budget of the voice assistant; and **which bytes are
served**, in the upload pipeline, where rows and object storage have no common
transaction.

## 1. The system

| Part | Where | State it keeps | Hard behaviour |
|---|---|---|---|
| Stay unit assignment | `migrations/2026-09-13-v753-*.sql`, `lib/stay/unit-assignments.ts`, partner room routes | `bids.assignedUnitId`, `bid_unit_assignment_lines`, the legacy mirror, unit-pinned `room_blocks` | four representations of one fact, written by triggers, RPCs and old writers; advisory locks |
| Check-in / check-out desk | `api/partner/checkin`, `api/partner/checkout`, `lib/stay/verified-stay-evidence.ts` | `verified_stay_evidence`, `bids.status` | read-then-write over six calls, swallowed failures |
| Classic inventory | `migrations/2026-08-14-v734-*.sql`, `api/b2b/listings`, `api/circle`, `api/cron/inventory-lifecycle`, `api/admin/circle-inventory` | `inventory_blocks`, `room_blocks` holds, trades, sales | reservation before payment, sweep against late payment, resale |
| Bid lifecycle | `api/bids`, `api/partner/bids`, `api/cron/expire-holds`, `lib/bid-expiry.ts`, sweep functions | `bids`, `bid_acceptance_windows`, `bid_paid_amounts` | unguarded PATCHes, three-call payment, timed sweeps |
| Live-AI budget ledger | `migrations/2026-09-16-live-ai-budget-*`, `server/voice-gateway/live-ai-budget-*` | envelopes, provider reservations, scope counters; leases in each gateway process | replies lost, processes that die, a day boundary, late reconciliation |
| Media upload | `lib/social/upload-*`, `quarantine-janitor.ts` | `media_upload_sessions`, two storage buckets | object store and rows without a common transaction; leases of janitor and workers |
| Trade auction | `lib/trade`, `cron/auction-lifecycle` | lots, bids, awards, settlements | clearing runs that overlap or die, payment after expiry |
| B2B exchange, Circle settlement | `lib/b2b`, `lib/circle`, `cron/circle-settlement` | trades, ledger, payouts | payout retried after an unknown answer |
| Channel manager | `lib/channels/sync.ts` | mappings, imported blocks | external systems out of step |
| Voice gateway, Live-AI sessions | `server/voice-gateway`, `lib/live-ai` | sockets and session maps | reconnects, sideband ordering |
| Points, payments, identity, pricing, support, social, UI | the rest of `lib`, `app`, `components` | rows with one writer, or none | little concurrency |

How the modelled parts interact: a partner's accept PATCHes `bids.status`, the
`AFTER` trigger on `bids` then moves assignment lines; the desk reads those
lines, mints evidence and PATCHes the status, which fires the trigger again;
`room_blocks` rows (walk-ins, channel imports, inventory holds) meet the same
units under a second trigger; classic inventory takes rooms of a category
without units, under its own advisory lock, while bids take them with none.

What makes each part correct:

* unit assignment: one occupant per unit and night, whoever wrote it; the four
  representations agree; no deadlock between the locks;
* desk: the evidence is the authority, the status a display of it; a guest in
  house can leave;
* classic inventory: the category is never oversold by pre-paid holds; a hold
  lives exactly as long as a block that is for its buyer; whoever pays gets a
  block or a human's attention;
* bids: an acceptance gives the whole payment window whatever came before it, is
  rewarded once, and a paying customer is not swept; nothing waits for ever;
* budget: what providers may bill is covered by money set aside under the
  ceilings, whatever is lost, late or repeated;
* trade auction: rooms are awarded once, the dearer bid first, a payment buys its
  own award once, every bid is decided;
* media upload: accepted bytes are never cleaned away, cleaned sessions stay
  clean, each stage is decided once by its newest claim.

`PROJECT.json` lists every part with its status, and every hazard at its line.

## 2. Modules

    StayUnits ---- StayClaims ---- StayTx        UnitClaims (abstract)
        |              \___ refines ______________/
        +---- StayDesk                           ClassicInventory

    LiveBudget  --- refines --- BudgetAccounts (abstract)
    MediaUpload --- refines --- MediaPipeline (abstract)
    BidLifecycle                LotAuction

### StayUnits: the assignment authority, one transaction per action

State: `bids` (status, `assignedUnitId`, `roomId`), `lines` (the *active* rows
of `bid_unit_assignment_lines`; closed rows are history and absent), `mirror`
(the legacy `bid_unit_assignments` row), `blocks` (`room_blocks` with nights and
pin), `activeUnits`.

| Action | Code |
|---|---|
| `PlaceBid`, `PatchStatus`, `WriteColumn` | every writer of `bids`; the trigger `stay_sync_bid_unit_assignment` is `SyncBid`, one disjunct per branch (`SyncExit`, `SyncOpen`, `SyncCleared`, `SyncHeld`, `SyncTake`) |
| `UpgradeRoom` | `api/bids/[id]/upgrade-room`: changes the category, fires no trigger |
| `AssignUnits`, `TransferUnits`, `ReleaseUnits` | the RPCs `stay_assign_units`, `stay_release_units` |
| `WriteMirror` | an old writer of the mirror under `stay_guard_legacy_assignment` |
| `InsertBlock`, `PatchBlock`, `AssignBlockUnit`, `ReleaseBlockUnit`, `DeleteBlock` | the walk-in route, imports and the block RPCs, under `stay_guard_room_block_unit` (`BlockGuard`) |
| `SetUnitStatus` | `api/partner/room-units` PATCH and DELETE |

A `RAISE EXCEPTION` rolls back, so a refusal is a disabled action. Stays are
sets of nights, `{}` for a bid without dates. `PatchStatus` takes any status
from any status: none of the routes restricts the transition in the database,
and the proofs therefore hold whatever the bid lifecycle does. `Next` contains
the repository's writers (`AppNext`) and those the migration also answers for
(`OutsideNext`: Railway and scripts); some properties are stated for `AppSpec`
alone and say so. A line's `lapsed` flag is a history variable: it marks a line
whose bid stopped occupying inventory (went to PENDING or COUNTER) while the
line stayed active.

### UnitClaims and StayClaims: what the authority promises

`UnitClaims` knows owners, units and nights: an owner's new claim never overlaps
another owner's standing claim. `StayClaims` maps the tables to claims
(`Standing`: the dated, never lapsed lines, and the pins) and states
`ImplementsClaims`. Model-checked and proved, for `StayUnits` and for `StayTx`.

### StayTx: the same transactions with their locks opened up

A session locks the row it writes, takes the advisory lock of every unit
involved in the order of the unit ids, checks the units one statement at a time
against what is committed, then writes and commits; it may be rolled back at any
moment. Other sessions run between any two steps. The tables are the committed
ones, so the refinement says that the locks make a transaction look atomic to
its checks. Unit status and room upgrades, which take none of these locks, are
left to `StayUnits`. `LockKey` may map two units to one key (`hashtext` is 32
bit); the run uses distinct keys, where `NoWaitCycle` is a claim about sorted
order. Two units of one hotel whose keys collide could close a wait cycle that
PostgreSQL's deadlock detector breaks by aborting one side (`Rollback`); safety
does not depend on it.

### StayDesk: the check-in and check-out routes over StayUnits

A request is a record that moves through the calls of the route: read bid, read
evidence, count units, read lines, gate, mint evidence, PATCH status. Whatever
it read is kept in the record and used later, as in the code. `Fail` drops any
call, up to `MaxFailures`. `Others` is every writer of `StayUnits.AppNext`
between the calls. The calendar is left out: a check-in outside the window and
an unconfirmed early check-out end the request without a write, and so does the
partner-scope refusal; notifications after the reply change no modelled state.

### ClassicInventory: blocks of a category without units

One category, capacity `Quantity`. State follows the rows: block status, hold
row, purchase and review marks, trade, payment, ledger, guest sale, and the
progress of each multi-call handler (`verifying`, `reserving`, `cron`,
`unholding`). The reservation RPC is two actions under its advisory lock (checks
and commit): the lock serialises the RPCs, so merging the lock acquisition with
the checks loses nothing, while bids may still be written between the two. The
payment verification, the admin's expiry and the cron are one action per call.
`Lost` names the calls that may fail in a run; `Replay` allows a reservation
call to be repeated with the id of a dead block (the routes mint a fresh id, the
RPC does not rely on it). Abstractions: a block has one order; the two PATCHes of
a guest's verification are one action; `Occupied` counts holds and bids, not the
other `room_blocks` rows of the category (walk-ins, imports), which would only
refuse more reservations; the cron's passes run one after the other
and do not overlap with themselves; metadata is the review mark; blocks with a
physical unit, prices, fees and wallets are left out.

### BidLifecycle: one bid from placement to the end of the stay

Three actors work on the row, each a chain of separate calls. `customer` holds
the calls the page has still to make, in its order:

| `customer` chain | Code |
|---|---|
| `checkout, stamp, record`: the pay button of an accepted bid, or the link `?payNow=`, which also takes PENDING and COUNTER bids and looks at no window | `my-bids/page.tsx` |
| `checkout, counter-accept, record`: accept a counter | `my-bids/page.tsx`, `bids/[id]/accept` |
| `accept, record` and `record, schedule` after a prepaid placement, `schedule` after a simple one | `hotels/[id]/page.tsx`, `flash-deals`, `bid` pages |
| `cancel`, `decline`, `reprice`, `repitch`, `rebid` | the bid routes of the same names, and the budget fan-out |

| Action | Code |
|---|---|
| `Place`, `PlacePrepaid` | `api/bids/place` |
| `PayNow`, `PayFromLink`, `PayCounter`, `Capture`, `Dismiss`, `Call` | the pages' payment chains; `Call` takes any outcome of a fault in `Faults`: done, done with the reply lost, not done |
| `OpenBid`, `Answer`, `Railway`, `Fallback`, `HotelGivesUp`, `DeskPatch` | `api/partner/bids/[id]`: Railway first, then an unconditional PATCH; the desk routes |
| `TriggerAccept`, `StampExpiry`, `Reward` | the two triggers on `bids.status` |
| `CronAccept`, `CronStale`, `CronOrphans`, `CronSweepFails` | `api/cron/expire-holds` and the SQL functions it calls |
| `Tick` | half an hour passes while no call is under way |

The link opens the payment dialog wherever the bid stands, so its payer is not
always paying in time: `late` remembers a chain begun on an accepted bid past its
window, and `SweepSparesPayers` makes an exception for that chain alone. The stamp
route changes no status: a PENDING bid paid from the link stays PENDING, and what
becomes of it then is section 5's `PaidBidKept`.

Left out: prices and scores, a second bid of the same customer (the check for an
active bid therefore never refuses), `bid_acceptance_windows` (the pages always
send the dates of the window), and a captured payment whose placement fails.

### LiveBudget and BudgetAccounts: the Live-AI provider budget

`env`, `child`, `held` and `charged` are durable rows (`live-ai-budget-store`,
migrations `2026-09-16-live-ai-budget-*`); `lease`, `preparing` and
`reconciling` are the memory of one boot of the gateway
(`live-ai-budget-authority`) and die with it; `phase` follows the calls of the
turn controller (`live-ai-03b-controller`) in its order: prepare, reserve,
persist, invoke, settle, persist the settlement, revoke or reconcile.

| Action | Code |
|---|---|
| `PrepareBegin`, `PrepareFresh`, `PrepareReplay`, `PrepareRefused` | `acquireOnce` and its replay of a repeated key; the answer may come after others |
| `Reserve`, `Persist`, `Stop`, `Invoke`, `Answered`, `PersistSettlement`, `Revoke` | the controller's calls around one provider call |
| `ReconcileBegin`, `ReconcileEnd`, `Reap` | the closing of an envelope by its lease, late or twice, and by the reaper |
| `Midnight`, `Crash` | the accounting day, the end of a boot |

`BudgetAccounts` is the promise: an account sets money aside under its ceilings,
a provider never has a claim its account does not cover. `ImplementsAccounts` is
the refinement. Abstractions: "bills" means the part of a provider's bill that the
ledger admits, so usage above a reservation is charged at exactly `Worst`, as the
code's `retainFull` does, and the excess it records as an incident is not money here;
`PersistSettlement` merges the awaits of one barrier into one action whose calls fail
independently, so other steps come before or after it and not between them; a
replay waits for all calls of its session in that boot, where the code orders the
calls of one key. Left out: the counter of provider calls beside the money
counters, control epochs (they only refuse or revoke, which may happen at any time
here), prices, the legacy facade, the execution admission.

### LotAuction: one lot of the trade auction

State: lot, window, offers, bids, awards, settlement and hold rows, payment
orders; `clear` follows the two runs of the clearing engine (the cron's and the
admin's), call by call.

| Action | Code |
|---|---|
| `Checkout`, `VerifyDeposit`, `PlaceLive`, `OwnerDecides`, `AcceptCounter`, `MintLive`, `CancelBid`, `CancelAward`, `RefundDeposit` | the bid routes of `api/trade`, the owner's desk, the admin's refund |
| `Load`, `AwardBid`, `MarkBid`, `FlipLot`, `Crash` | `clearLotDb`, which takes the bids in the database's order (`Dearest`); the packing itself is `ClearLot`: every bid takes the lowest slots that the bids ranked before it leave free on all its nights (`Seats`) |
| `CronOpens`, `Pick`, `ExpireUnpaid`, `ExpireStale`, `ExpireAwards` | `cron/auction-lifecycle` |
| `OpenOrder`, `Verify` | `awards/pay`, `awards/verify` |
| `CheckLot`, `DropLot` | the owner's withdrawal of a lot, two calls |

The loop of `clearLot` places one bid after the other; since a bid's slots depend
only on those of the bids before it, the result is the one assignment that meets
`Seats`, which is how the model says it. Left out: the limit of 1000 bids of the
clearing's read, enable-selling, orders over several bids (a verified order flips one
bid here), the check for one live bid per agent (the model allows more), the new
price of an accepted counter (live bids do not compete), fees, floors and the
autopilot's decision (either outcome may come). The run leaves out the faults
`load`, `check`, `mark`, `flip`, `hold` and `settle`: a failed read of the bids
counts as a lot without bids, which closes the lot in a clearing and withdraws it
in the owner's call, after which no deposit is decided; the module contains both
steps.

### MediaUpload and MediaPipeline: from a reserved session to served bytes

State: the session row (`status`, expiry, cleanup claim, per-stage claim
generation, lease and outcome), the two buckets (`raw`, `output`), the customer's
token and uploads under way, and the progress of requests, completion, janitors
and workers. Every deadline is the ticks left until it.

| Action | Code |
|---|---|
| `Reserve`, `Resume`, `Mint`, `MintFails`, `Authorize` | `upload-session.ts` around the reservation RPC and the authorization compare-and-set |
| `BeginUpload`, `EndUpload` | `storage-upload.ts`; the bytes may land after the token has died |
| `FindTarget`, `Observe`, `Confirm` | `upload-completion.ts` and the observation RPC |
| `ClaimCleanup`, `Delete`, `CompleteCleanup` | `quarantine-janitor.ts`, its store and its two RPCs |
| `ClaimStage`, `CompleteStage` | the claim and completion RPCs of validation, file safety and processing, one action for the three stages, which differ in column names, lease and the status of a first claim |
| `WriteOutput`, `WorkerStops` | the stage workers, which are not in the repository |

`MediaPipeline` is the promise of the three stages, without leases or workers:
claimed perhaps many times, decided once, by the newest claim, in order. Left
out: the rate limit, sizes, types, hashes and evidence shapes (a mismatch is a
refusal), which of the due sessions a batch takes (any may be), and the routes
that only read.

## 3. Runs

| Run | Checks | Instance |
|---|---|---|
| `stay_units` | types, `LinesDisjoint`, `OneOccupantUnlessLapsed`, `ColumnBackedByLine`, `ImplementsClaims` over all writers | 2 bids, 1 block, 2 units, 2 nights |
| `stay_units_app` | `BlocksDisjoint`, `PrimaryIsLowestSlot`, `RoomsWithinBooking`, `InHouseKeepsRoom` over the repository's writers | 1 night, 2 categories, 2 blocks |
| `stay_tx` | locks: `NoWaitCycle`, `EveryTxEnds`, `ExitedBidsHoldNothing`, refinement, `UndatedClaimsFailClosed` | 2 sessions, 3 stays (one undated, which may change its unit, fall back to COUNTER and return), 1 block, 2 units |
| `stay_desk` | evidence and status together, guest can leave | 2 concurrent requests, 2 failures |
| `classic_holds` | `HoldsNeverOversell` under replay, lost releases and failed reads | 2 blocks with staggered nights, capacity 1 |
| `classic_abandoned` | no hold leaks, abandoned checkouts give their room back, with every call but the deletion allowed to fail | 1 block, 2 guests, 1 bid |
| `bid_lifecycle` | types, `RewardedOnce`, `WindowHonoured`, `SweepSparesPayers`, `ScheduleKept`, `NothingLingers` | 1 bid, 3 actors, every call may fail or lose its reply |
| `live_budget` | `ExposureWithinCeiling`, `CountersMatchEnvelopes`, `NoMintedMoney`, refinement of `BudgetAccounts` | 2 turns and 2 calls of a session, 2 boots, 2 days, 4 counters |
| `trade_auction` | `OneRunFits`, `NoEnvy`, `PaymentBuysOneVoucher`, `BidsAreDecided` | 2 bids, 2 rooms, 2 nights, 2 clearing runs, 1 crash |
| `media_upload` | types, `AcceptedKeepsObject`, `CleanedStaysClean`, `ReadyServesItsOwnBytes`, refinement of `MediaPipeline` | 1 session, 2 requests, 2 uploads, 2 janitors, 2 workers |
| `classic_cron_race`, `trade_reclear` | violations, see section 5 | the smallest instance that shows each |

Why these bounds are enough to be interesting. A double booking needs two
claimants and one unit; two units and two-room bookings add slots, transfers
and lock order; two nights add partial overlap; an undated stay is a third kind
of claimant. Deadlock needs two sessions and two locks, and three kinds of call
on two rows. The desk's races need two requests and one writer; two failures
cover a lost PATCH followed by a lost retry. `stay_units_app` keeps one night for
its two blocks, so it exercises the pinning of a block to another unit; widened dates
meet the guard in `stay_units` and in the proof. Its writers are the
repository's: a column that an outside writer sets beside held rooms does exceed
`RoomsWithinBooking`. Capacity one with two blocks makes
every reservation contended; bids only take rooms away from reservations, so
they are left to the other classic run. Beyond the bounds nothing is
extrapolated: every safety property of the passing runs is proved for arbitrary
constants, but for the one named at the end of section 6.

In `bid_lifecycle` time is counted in half hours; the windows keep their order
but the longest are cut (`OldAge`, `CounterGrace` to four half hours), since what
matters is which deadline comes first; `MaxCheckout` and `MaxCharges` bound the
payment dialog and repeated payments. In `live_budget` the ceilings of session, day
and month admit a second envelope only after the first released something, and
the day's counter is a fresh one after midnight; two boots and two turns allow one overlapping prepare and
one crash between any two calls. In `trade_auction` the second clearing run is
the interesting one, and two bids on overlapping nights for two rooms make the
rank, a partial award and a refusal possible; `LiveBids`, `MaxOrders` and
`MaxCrashes` bound negotiation, payment and faults. In `media_upload` one session
suffices since sessions share nothing but the quota and the janitor's batch; the
life of a token is two ticks, leases one, the processing lease two, so that each
can outlive or be outlived by the others; `MaxClaims` and `MaxUploads` allow one
reclaim and one doubled upload. The quota is therefore not exercised by the run.

Other bounds: `MaxFailures` (failed desk calls), `LastDay` (the classic
calendar). `CHECK_DEADLOCK FALSE` appears where work really ends: in the classic
runs, the auction, the budget and the upload, whose finished stories take no
further step.

## 4. Fairness

* `StayTx`: strong fairness of row and advisory locks (PostgreSQL queues the
  waiters, so a lock that is repeatedly free is granted) and weak fairness of
  statements already running. Sessions are never obliged to begin.
* `StayDesk.FairDesk`: weak fairness of the calls of a request in flight;
  strong fairness of the partner asking for check-out again, the assumption
  being that the desk retries while the guest stands there. `Fail` has no
  fairness and at most `MaxFailures` occurrences: the property is about what a
  finite number of failures can do for good.
* `ClassicInventory.FairSpec`: time passes (`Age`), a reservation inside its
  transaction commits, `vercel.json` keeps calling the cron; its PATCH of a block
  that is found again and again does not fail for ever (strong fairness). Hold
  deletions are assumed to succeed in that run: one that fails is never retried
  by the code, which the hazard at the sweep's DELETE records. Buyers, owners,
  guests and bids are never obliged to act.
* `BidLifecycle.FairSpec`: a call that was begun ends, the cron's calls succeed
  now and then (strong fairness; an external scheduler calls the route every 5 to
  15 minutes, `docs/BID_SYSTEM_A_TO_Z.md:207,429`), and time passes whenever no
  call is under way. `NothingLingers` sets aside runs in which calls overlap for
  ever and no half hour passes.
* `LotAuction.FairSpec`: weak fairness of time, of the cron's steps
  (`vercel.json`) and of each clearing run that has not died. Agents, owners and
  admins are never obliged to act.
* `LiveBudget` and `MediaUpload` state no fairness: a turn may be abandoned at
  any point, and no scheduler is registered for the janitor or the workers.

## 5. Where code and documents disagree

Two runs show a definite disagreement and are listed as findings:

* `classic_cron_race`: the sweep takes "200, no row matched" for success and
  deletes the hold of a block that was just paid.
* `trade_reclear`: a second clearing of a lot, beside the first or after it died,
  packs the bids that are left into all the rooms again. `OneRunFits` is what
  does hold.

The modules state more that a document or a comment claims and the code does not
keep, as definitions that no run checks; each was seen violated in TLC:

| Definition | What happens |
|---|---|
| `StayUnits.OneOccupantPerUnitNight` | an ACCEPTED booking that goes to COUNTER and back keeps its line unchecked and may share its unit with a block pinned meanwhile; `OneOccupantUnlessLapsed` holds and is proved |
| `StayDesk.NeverDowngraded` | a slow check-in rewrites `checked_out` evidence to `checked_in` |
| `StayDesk.CheckedInGuestCanLeave` | a lost PATCH after the mint leaves a guest neither route can move |
| `ClassicInventory.SettledIsBoughtOrReviewed` | a payment that arrives after the sweep is settled without block or review mark |
| `ClassicInventory.OneGuestPerBlock` | two guests pay for one listed block |
| `BidLifecycle.PaidNeverSwept` | the sweep knows a paid bid by its amount row, written last by the page, best effort (`my-bids/page.tsx:660-671`); `lib/bid-expiry.ts:115-116` says paid rows never expire |
| `BidLifecycle.PaidBidKept` | the stale sweep asks for no payment: a PENDING bid, prepaid or paid from the link, is expired for its age; the link's comment says that paying "flips bid to ACCEPTED" (`my-bids/page.tsx:858-863`), the route only stamps the message |
| `BidLifecycle.PaidIsStamped` | Book Now and the accepted counter (`my-bids/page.tsx:495-527`) never write the stamp by which the pages tell a paid bid |
| `MediaUpload.ActiveWithinLimit` | a retry refreshes a session past its expiry beside the six that replaced it in the quota |

Not stated as properties, since no document promises otherwise, but visible in
the models: a bid cancelled or released between the gate and the mint is still
checked in; a bid and a block can together exceed the category, because bids
count rooms outside the lock; a reservation repeated with the id of an expired
block answers success and takes a hold; a cancellation that read PENDING
overwrites an acceptance written meanwhile; one failed call of the cron ends its
run before the sweeps, though its comment calls them independent. In the auction:
a bid cancelled between acceptance and minting leaves a payable award; a second
order replaces the first one's id; a live bid that is paid stays `accepted` and
is later marked expired; a deposit verified after the clearing stays active for
ever; unpaid awards of sealed lots never expire; a failed read of the bids closes
the lot. In the upload: an expired session whose object was never uploaded is
claimed for cleanup again and again and never completed.

## 6. Proofs

All proofs are for arbitrary constants under the named assumptions of the
modules, which TLC evaluates in the runs: `StayUnitsAssumption`,
`StayClaimsAssumption`, `StayTxAssumption` (the lock order is a total order of
the units), `StayDeskAssumption`, `ClassicAssumption`, `BidAssumption` (the
payment window is the shortest, a placed bid's window ends before it is old),
`LiveBudgetAssumption` (finitely many turns and calls), `AuctionAssumption`
(finitely many bids, each for at least one night and no more rooms than the lot
has, as the routes check) and `UploadAssumption`. A theorem that needs more says
so: finitely many units for counting rooms and for `NoDeadlock`, which also needs
distinct lock keys; `MaxCheckout =< Grace` for `PayersAreSpared`; `Reliable` for
`NoHoldLeaks`. Properties that are not inductive were strengthened, the
strengthening was checked by TLC on the runs' instances first, and is named
below. Steps are proved action by action.

**`StayUnitsProofs`**, one transaction at a time.

* `TypeCorrect`, `NoDoubleAssignment`, `OneOccupant`, `ColumnBacked`,
  `ExitedHoldNothing`, `BlocksNeverOverlap`. `OneOccupantUnlessLapsed` is not
  inductive: a block may be pinned beside a line whose bid is PENDING. The
  companion `LapsedWhenNotOccupying` says that such a line is marked lapsed. A
  granted line then passed the conflict check against every pin, and a granted pin
  against every line not lapsed. `LinesDisjoint` rests on the exclusion constraint
  and the slot allocation (`FreeSlotsPositive`). Most lemmas speak of *what is
  written*, with the checks left aside, so that they serve `StayTx` too.
* `Implementation` (of `UnitClaims`), one lemma per kind of write, and
  `StandingClaimsExclusive`, the abstract exclusivity carried through the map.
* The repository's own writers: `PrimaryIsLowest`, `RoomsFitBooking`,
  `InHouseStays`, from `AppInv`: none of them sets the column of a bid that has
  lines, hence a bid with lines is led by its lowest slot *whatever its status*
  (`LedByPrimary`), and the trigger adds a line to a bid without lines only.
* `FailsClosed`: a line on a unit its bid did not hold is granted by the
  assignment RPC or by one branch of the trigger, and both count undated stays as
  conflicts.

**`StayProcessesProofs`**, the processes that work on those tables.

* Sessions: `TxInv` says that a session at work knows that its call is still
  admitted, locks its units in rank order, and that the units it has checked are
  locked by it and free of other standing claims (`Informed`); and that two
  sessions at work share neither row nor unit (`Apart`). "Free" is over standing
  claims and not the check's own `Vacant`: between the check and the commit a
  lapsed line of the unit may come to occupy again, because the status write of
  another bid locks the unit in its column, and its lines may be on others.
  From `TxInv`: `TxImplementation` (locks make the check and the write look atomic),
  `TxOneOccupant`, `TxExitedHoldNothing`.
* `TxFailsClosed`: a session working for a dated stay knows that no undated line
  that has not lapsed is on the units it has checked (`UndatedKnown`). It stays so
  because such a line is only ever added by a session holding the unit's lock. The
  stronger `UnknownDatesFailClosed` of `FailsClosed`, about every undated line of an
  occupying stay, is *false* between the locks: an undated booking moves its column
  to u2 while PENDING or COUNTER, a session checks u1 and passes, the booking is
  accepted under the lock of u2 alone, and the session commits on u1 beside the
  lapsed line. Run one after the other the two reach the same rows. The calls of
  `stay_tx` include this history.
* `NoDeadlock`: of the sessions that wait, take one with the fewest units still
  ahead of it in the order; the holder of what it waits for has fewer, and a row is
  only ever waited for by a session without unit locks.
* Desk: `CheckInsAreEvidenced`, `CheckOutNeedsCheckIn` from `RequestsInformed`,
  what a request in a given phase has seen. Evidence is never deleted, so what was
  read cannot become false.

**`ClassicInventoryProofs`**: `HoldsFitTheCategory` from `RoomIsKept`: while a
reservation is between its checks and its commit no other reservation is there,
and the room it found is still free of *holds*, because only a commit inside the
lock adds one. `NoHoldLeaks` under `Reliable` (deletions succeed, no replay), from
`LeakInv`. `LiveHoldsLostToCron`, without `Reliable`: what the admin desk is about
to release is expired or refunded and never revives (`DeskReleasesTheDead`), so a
live block loses its hold to the cron alone, the loss of `classic_cron_race`.
`ClassicTypeCorrect`.

**`BidLifecycleProofs`**: every step is first reduced to what it may write to the
row (`Legal`), so that each property looks at a handful of writes
and not at the calls behind them. `RewardOnce` from `RewardInv` (a desk call under
way is on a rewarded bid). `WindowIsHonoured` from `WindowInv`: time left plus time
since the first acceptance is at least the window. `PayersAreSpared` from
`PaysInTime` and `ChargeRecorded`: the dialog of an accepted bid, unless a link
opened it late, is past the window by no more than it was open, and a charge is
recorded, still to be recorded, or its call was lost; the premise
`MaxCheckout =< Grace` is needed, since a dialog left open for longer than the grace
loses the bid in the code too. `ScheduleIsKept` from `ScheduleInv`. `BidTypesHold`.

**`MediaUploadProofs`**: `AcceptedKept` from `KeepInv` (what a report observed
stays unless a janitor has the session, and a janitor has expired sessions only);
`CleanedIsClean` from `CleanInv`, for sessions that never had two uploads under way
at once (no token outlives its session; such a session has its object either under way or in place); `ReadyServed` from
`ServeInv` over `StagesInOrder`; `UploadsImplementPipeline`, where every step is a
claim, a decision or a stutter of `MediaPipeline`; `UploadTypesHold`.

**`LiveBudgetProofs`**, the longest. `CeilingsHold` and `CountersHold` follow from
how a step moves envelopes and counters together (`LedgerSteps`). `NoMintedMoney`
compares what a lease still hands out with what is billed, and is not inductive: it
says nothing of a lease taken anew from the rows, nor of money that a late
reconciliation gives back. The strengthening is `\E bill : Billed(bill)`, where
`bill` divides each envelope's bill among its calls, a history the model does not
keep:

| Part of `Billed` | Says |
|---|---|
| `CallsFollow` | nothing is billed before a call starts; one that may start has an open child row; a child is settled for no less than its bill |
| `LeasesSound` | a lease divides its envelope's money, with an entry for every child, each setting aside what may still be billed |
| `FewChildren`, `PreparesFree` | a turn has as many children as it may; a replay finds neither lease nor reconciliation |
| `ReconcilesCover`, `ClosedCover` | a pending reconciliation and a closed envelope charge at least what may still be billed |
| `SpentIsBilled` | the provider's bill is the sum of the calls' |

`LedgerImplementsAccounts`: acquiring opens an account, a reconciliation or the
reaper closes it, a call's start and answer spend from it, everything else is a
stutter. `AccountsCovered` is the promise of `BudgetAccounts` by itself,
`ProviderIsCovered` its image in the ledger.

**`LotAuctionProofs`**: a clearing is one function of the bids it read, but its
rows are written one by one, while bids are placed, verified, cancelled, refunded
and paid, and it may die in between. `ClearingInv` says that there are a set of
bids read and a seating of them (`Outcome`: bids that share a night sit on
different slots; a bid given fewer rooms than it wanted envies nobody) which plans
and rows follow as far as written (`Follows`). `ClearingOutcome` proves the outcome
of the algorithm itself, from the rank being a strict order and the slots being
taken lowest first (`LowestSlots`). Then `OneRunNeverOversells` is the sum of
disjoint slots, `DearerBidFirst` the absence of envy. `VoucherHasItsPayment` from
`PaymentInv`: a stamp refers to an order of its own award. `AuctionTypes`.

**`SumsProofs`**: sums of a function over a finite set (one term changed, moved,
added; sizes of disjoint sets), which both of the last two need. The library's
induction theorems are out of the provers' reach; the proofs take a smallest
counterexample instead (`SmallestSubset`, `LeastNumber`).

Model-checked only. Liveness, which rests on fairness and ENABLED, is out of the
prover's reach: `EveryTxEnds`, `InHouseGuestLeaves`, `AbandonedIsReleased`,
`NothingLingers`, `BidsAreDecided`. `UnknownDatesFailClosed` (atomic
transactions) and `OnlyCronTakesLiveHolds` are proved and checked by no run.

## 7. Not modelled, and the plan

Next, in this order:

1. Circle settlement and payout retries (`lib/circle`, `lib/b2b`,
   `cron/circle-settlement`).
2. Channel synchronisation; the session protocol of the voice gateway.

Left out for good: React pages and browser state (no authority over rows);
pricing, scoring and ranking (numeric heuristics without state); authentication
(each modelled route is taken after it); wording, notifications, analytics.
The Railway backend is not in the repository; it appears as `WriteColumn` and any
status change in `StayUnits`, and as `Railway` in `BidLifecycle`.
