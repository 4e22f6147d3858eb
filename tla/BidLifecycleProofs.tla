------------------------- MODULE BidLifecycleProofs -------------------------
(***************************************************************************)
(* Proofs that a bid is rewarded once, keeps its windows and is not swept  *)
(* from under a payment, for any lengths of the windows, graces and delays *)
(* and whichever calls may fail.                                           *)
(***************************************************************************)
EXTENDS BidLifecycle, TLAPS

-----------------------------------------------------------------------------
(* Parts of the inductive invariants. *)

\* An accepted, staying or departing guest has been rewarded, and so has the one the
\* desk is about to check in or out.
RewardInv ==
    /\ RewardedOnce
    /\ hotel \in {"check-in", "check-out"} => rewards = 1

\* An accepted bid has had, or has still before it, its payment window.
WindowInv == status = "ACCEPTED" =>
    since > PayWindow + Grace \/ left + since >= PayWindow

\* The calls of a payment, from its dialog to its record.
Paying == {"checkout", "stamp", "counter-accept", "accept", "record", "schedule"}

\* The calls that record what was charged, or lead to it.
Recording == {<<"stamp", "record">>, <<"counter-accept", "record">>, <<"accept", "record">>,
              <<"record">>, <<"record", "schedule">>}

\* The payment of an accepted bid began inside the window, and has not left it by more
\* than its dialog was open, but for a chain that a link began late.
PaysInTime ==
    /\ status = "ACCEPTED" /\ Due = "checkout" /\ ~late => left >= -open
    /\ status = "ACCEPTED" /\ Due \in Paying /\ ~late => left >= -MaxCheckout

\* What was charged is recorded, or is still to be, unless a call was lost.
ChargeRecorded == charges > 0 /\ ~lost /\ ~recorded => customer \in Recording

\* Once the sweep has accepted what was due, a bid that is due and pending again has
\* come back from a counter.
ScheduleInv ==
    /\ status = "none" => auto = None /\ customer = <<>>
    /\ status = "COUNTER" \/ Due = "repitch" => countered
    /\ cron = "stale" /\ status = "PENDING" /\ auto # None /\ auto < 0 => countered
-----------------------------------------------------------------------------
(* What the calls of the three actors do to the row. *)

\* The periods are natural numbers, and every window fits between the values at
\* which a clock stops.
LEMMA Periods ==
  /\ PayWindow \in Nat /\ HotelWindow \in Nat /\ PlaceWindow \in Nat /\ CounterWindow \in Nat
  /\ Grace \in Nat /\ CounterGrace \in Nat /\ OldAge \in Nat /\ AutoDelay \in Nat
  /\ MaxCheckout \in Nat /\ MaxCharges \in Nat \ {0}
  /\ PayWindow =< HotelWindow /\ PayWindow =< PlaceWindow
  /\ Longest \in Nat /\ HotelWindow =< Longest /\ PlaceWindow =< Longest
  /\ CounterWindow =< Longest
  /\ Latest \in Int /\ Latest < -Grace /\ Latest < -CounterGrace
<1>1. {PayWindow, HotelWindow, PlaceWindow, CounterWindow, Grace, CounterGrace,
       OldAge, AutoDelay, MaxCheckout, MaxCharges} \subseteq Nat
  BY BidAssumption
<1>2. MaxCharges > 0 /\ PayWindow =< HotelWindow /\ PayWindow =< PlaceWindow
  BY BidAssumption
<1> QED BY <1>1, <1>2 DEF Longest, Latest, Larger

\* What a write of a status and an expiry may be, by the state it is made in.
Legal(s, exp) ==
    /\ s \in Statuses /\ (s = "none" => status = "none")
    /\ exp \in {left, PayWindow, PlaceWindow, CounterWindow}
    /\ s = "ACCEPTED" /\ status = "ACCEPTED" => exp \in {PayWindow, PlaceWindow}
    /\ s \in {"CHECKED_IN", "CHECKED_OUT"} => status = s \/ hotel \in {"check-in", "check-out"}
    /\ s = "EXPIRED" => \/ status = "EXPIRED"
                        \/ cron = "stale" /\ Stale
                        \/ cron = "orphans" /\ Orphaned
    /\ s = "PENDING" => \/ status \in {"none", "PENDING"}
                        \/ Due = "repitch"

\* Heads and tails of the short chains of calls.
LEMMA OfOne ==
  ASSUME NEW a
  PROVE  Head(<<a>>) = a /\ Tail(<<a>>) = <<>> /\ <<a>> # <<>>
OBVIOUS

\* The same for two calls.
LEMMA OfTwo ==
  ASSUME NEW a, NEW b
  PROVE  Head(<<a, b>>) = a /\ Tail(<<a, b>>) = <<b>> /\ <<a, b>> # <<>>
OBVIOUS

\* The same for three.
LEMMA OfThree ==
  ASSUME NEW a, NEW b, NEW c
  PROVE  Head(<<a, b, c>>) = a /\ Tail(<<a, b, c>>) = <<b, c>> /\ <<a, b, c>> # <<>>
OBVIOUS

\* What is due is a call of the chain, and what remains is one of the chains.
LEMMA ChainFacts ==
  ASSUME customer \in Chains, customer # <<>>
  PROVE  /\ Due \in Calls /\ Due # "nothing"
         /\ Tail(customer) \in Chains
         /\ Due = "checkout" => Tail(customer) \in {<<"stamp", "record">>, <<"counter-accept", "record">>}
         /\ Due \in {"stamp", "counter-accept", "accept"} => Tail(customer) = <<"record">>
         /\ Due = "record" => Tail(customer) \in {<<>>, <<"schedule">>}
         /\ Due \in {"schedule", "cancel", "decline", "reprice", "repitch", "rebid"} =>
              Tail(customer) = <<>>
<1> DEFINE Facts ==
      /\ Due \in Calls /\ Due # "nothing"
      /\ Tail(customer) \in Chains
      /\ Due = "checkout" => Tail(customer) \in {<<"stamp", "record">>, <<"counter-accept", "record">>}
      /\ Due \in {"stamp", "counter-accept", "accept"} => Tail(customer) = <<"record">>
      /\ Due = "record" => Tail(customer) \in {<<>>, <<"schedule">>}
      /\ Due \in {"schedule", "cancel", "decline", "reprice", "repitch", "rebid"} =>
           Tail(customer) = <<>>
<1> SUFFICES Facts OBVIOUS
<1>1. ASSUME NEW a \in {"stamp", "counter-accept"}, customer = <<"checkout", a, "record">>
      PROVE  Facts
  <2>1. Due = "checkout" /\ Tail(customer) = <<a, "record">>
    BY <1>1, OfThree DEF Due
  <2> QED BY <2>1 DEF Chains, Calls
<1>2. ASSUME NEW a \in {"stamp", "counter-accept", "accept"}, customer = <<a, "record">>
      PROVE  Facts
  <2>1. Due = a /\ Tail(customer) = <<"record">>
    BY <1>2, OfTwo DEF Due
  <2> QED BY <2>1 DEF Chains, Calls
<1>3. CASE customer = <<"record", "schedule">>
  <2>1. Due = "record" /\ Tail(customer) = <<"schedule">>
    BY <1>3, OfTwo DEF Due
  <2> QED BY <2>1 DEF Chains, Calls
<1>4. ASSUME NEW a \in {"record", "schedule", "cancel", "decline", "reprice", "repitch", "rebid"},
             customer = <<a>>
      PROVE  Facts
  <2>1. Due = a /\ Tail(customer) = <<>>
    BY <1>4, OfOne DEF Due
  <2> QED BY <2>1 DEF Chains, Calls
<1> QED BY <1>1, <1>2, <1>3, <1>4 DEF Chains

\* A customer without calls left has nothing due.
LEMMA DueNothing ==
  customer \in Chains => (Due = "nothing" <=> customer = <<>>)
BY ChainFacts DEF Due

\* The routes behind the customer's calls.
LEMMA EffectWrites ==
  ASSUME BidTypeOK, Due \notin {"nothing", "checkout"}, Effect(Due)
  PROVE  \/ /\ Due = "stamp" /\ stamped' = TRUE /\ UNCHANGED <<row, auto, recorded>>
         \/ /\ Due = "record" /\ recorded' = TRUE /\ UNCHANGED <<row, auto, stamped>>
         \/ /\ Due = "schedule" /\ auto' \in {auto, AutoDelay}
            /\ UNCHANGED <<row, stamped, recorded>>
         \/ /\ Due \notin {"stamp", "record", "schedule"}
            /\ UNCHANGED <<auto, stamped, recorded>>
            /\ \E s \in Statuses, exp \in Int : Write(s, exp) /\ Legal(s, exp)
<1> DEFINE Wrote == \E s \in Statuses, exp \in Int : Write(s, exp) /\ Legal(s, exp)
<1>1. Due \in Calls
  BY DueNothing, ChainFacts DEF BidTypeOK
<1>2. left \in Int /\ PayWindow \in Int /\ PlaceWindow \in Int /\ CounterWindow \in Int
  BY Periods DEF BidTypeOK
<1>3. CASE Due \in {"stamp", "record", "schedule"}
  BY <1>3 DEF Effect
<1>4. CASE Due \in {"accept", "counter-accept", "rebid"}
  <2>1. Write("ACCEPTED", PayWindow) /\ UNCHANGED <<auto, stamped, recorded>>
    BY <1>4 DEF Effect
  <2>2. Legal("ACCEPTED", PayWindow)
    BY DEF Legal, Statuses
  <2> QED BY <1>2, <1>4, <2>1, <2>2 DEF Statuses
<1>5. CASE Due = "cancel"
  <2>1. Write("CANCELLED", left) /\ UNCHANGED <<auto, stamped, recorded>>
    BY <1>5 DEF Effect
  <2>2. Legal("CANCELLED", left)
    BY DEF Legal, Statuses
  <2> QED BY <1>2, <1>5, <2>1, <2>2 DEF Statuses
<1>6. CASE Due = "decline"
  <2>1. Write("REJECTED", left) /\ UNCHANGED <<auto, stamped, recorded>>
    BY <1>6 DEF Effect
  <2>2. Legal("REJECTED", left)
    BY DEF Legal, Statuses
  <2> QED BY <1>2, <1>6, <2>1, <2>2 DEF Statuses
<1>7. CASE Due = "reprice"
  <2>1. Write(status, PlaceWindow) /\ UNCHANGED <<auto, stamped, recorded>>
    BY <1>7 DEF Effect
  <2>2. Legal(status, PlaceWindow)
    BY DEF Legal, BidTypeOK
  <2> QED BY <1>2, <1>7, <2>1, <2>2 DEF BidTypeOK
<1>8. CASE Due = "repitch"
  <2>1. Write("PENDING", PlaceWindow) /\ UNCHANGED <<auto, stamped, recorded>>
    BY <1>8 DEF Effect
  <2>2. Legal("PENDING", PlaceWindow)
    BY <1>8 DEF Legal, Statuses
  <2> QED BY <1>2, <1>8, <2>1, <2>2 DEF Statuses
<1> QED BY <1>1, <1>3, <1>4, <1>5, <1>6, <1>7, <1>8 DEF Calls
\* Every step writes the row legally, lets time pass, or leaves it alone.
LEMMA RowSteps ==
  ASSUME BidTypeOK, [Next]_vars
  PROVE  \/ UNCHANGED row
         \/ Tick
         \/ \E s \in Statuses, exp \in Int : Write(s, exp) /\ Legal(s, exp)
<1> DEFINE Writes == \E s \in Statuses, exp \in Int : Write(s, exp) /\ Legal(s, exp)
           Goal == UNCHANGED row \/ Tick \/ Writes
<1> SUFFICES Goal OBVIOUS
<1>1. ASSUME NEW s \in Statuses, NEW exp \in Int, Write(s, exp), Legal(s, exp)
      PROVE  Goal
  BY <1>1
<1>2. left \in Int /\ PayWindow \in Int /\ PlaceWindow \in Int /\ CounterWindow \in Int
  BY Periods DEF BidTypeOK
<1>3. {"PENDING", "COUNTER", "ACCEPTED", "REJECTED", "EXPIRED", "CHECKED_IN", "CHECKED_OUT"}
        \subseteq Statuses
  BY DEF Statuses
<1> HIDE DEF Goal
<1>4. CASE Place
  <2>1. PICK s \in {"PENDING", "COUNTER", "ACCEPTED"}, exp \in {PayWindow, CounterWindow, PlaceWindow} :
          status = "none" /\ Write(s, exp)
    BY <1>4 DEF Place
  <2>2. Legal(s, exp)
    BY <1>3, <2>1 DEF Legal
  <2> QED BY <1>1, <1>2, <1>3, <2>1, <2>2
<1>5. CASE PlacePrepaid
  <2>1. status = "none" /\ Write("PENDING", PlaceWindow)
    BY <1>5 DEF PlacePrepaid
  <2> QED BY <1>1, <1>2, <1>3, <2>1 DEF Legal
<1>6. CASE PayNow \/ PayFromLink \/ PayCounter \/ Cancel \/ Decline \/ ChangeBudget
  BY <1>6 DEF PayNow, PayFromLink, PayCounter, Cancel, Decline, ChangeBudget, Begin, Goal
<1>7. CASE Capture \/ Dismiss
  BY <1>7 DEF Capture, Dismiss, Goal
<1>8. CASE Call
  <2>1. UNCHANGED row \/ (Due \notin {"nothing", "checkout"} /\ Effect(Due))
    BY <1>8 DEF Call
  <2> QED BY <2>1, EffectWrites DEF Goal
<1>9. CASE TriggerAccept
  <2>1. status = "PENDING" /\ Write("ACCEPTED", PayWindow)
    BY <1>9 DEF TriggerAccept
  <2> QED BY <1>1, <1>2, <1>3, <2>1 DEF Legal
<1>10. CASE OpenBid \/ Answer \/ Desk \/ HotelGivesUp
  BY <1>10 DEF OpenBid, Answer, Desk, HotelGivesUp, HotelTurns, Goal
<1>11. CASE Railway
  <2>1. /\ status \in {"PENDING", "COUNTER"} /\ Write(Answered(hotel), left)
        /\ Answered(hotel) \in {"ACCEPTED", "COUNTER", "REJECTED"}
    BY <1>11 DEF Railway, Answers, Answered
  <2> QED BY <1>1, <1>2, <1>3, <2>1 DEF Legal
<1>12. CASE Fallback
  <2>1. PICK s \in {"ACCEPTED", "COUNTER", "REJECTED"}, exp \in {PayWindow, left} :
          Write(s, exp) /\ (s = "ACCEPTED" => exp = PayWindow)
    BY <1>12 DEF Fallback, Answers, Answered
  <2> QED BY <1>1, <1>2, <1>3, <2>1 DEF Legal
<1>13. CASE DeskPatch
  <2>1. PICK s \in {"CHECKED_IN", "CHECKED_OUT"} :
          hotel \in {"check-in", "check-out"} /\ Write(s, left)
    BY <1>13 DEF DeskPatch
  <2> QED BY <1>1, <1>2, <1>3, <2>1 DEF Legal
<1>14. CASE CronAccept
  <2>1. UNCHANGED row \/ (status = "PENDING" /\ Write("ACCEPTED", left))
    BY <1>14 DEF CronAccept
  <2>2. status = "PENDING" => Legal("ACCEPTED", left)
    BY <1>3 DEF Legal
  <2> QED BY <1>1, <1>2, <1>3, <2>1, <2>2 DEF Goal
<1>15. CASE CronStale
  <2>1. UNCHANGED row \/ (cron = "stale" /\ Stale /\ Write("EXPIRED", left))
    BY <1>15 DEF CronStale, Swept
  <2>2. cron = "stale" /\ Stale => Legal("EXPIRED", left)
    BY <1>3 DEF Legal
  <2> QED BY <1>1, <1>2, <1>3, <2>1, <2>2 DEF Goal
<1>16. CASE CronOrphans
  <2>1. UNCHANGED row \/ (cron = "orphans" /\ Orphaned /\ Write("EXPIRED", left))
    BY <1>16 DEF CronOrphans, Swept
  <2>2. cron = "orphans" /\ Orphaned => Legal("EXPIRED", left)
    BY <1>3 DEF Legal
  <2> QED BY <1>1, <1>2, <1>3, <2>1, <2>2 DEF Goal
<1>17. CASE CronSweepFails
  BY <1>17 DEF CronSweepFails, Swept, Goal
<1>18. CASE Tick \/ UNCHANGED vars
  BY <1>18 DEF vars, row, Goal
<1> QED BY <1>4, <1>5, <1>6, <1>7, <1>8, <1>9, <1>10, <1>11, <1>12, <1>13, <1>14, <1>15,
           <1>16, <1>17, <1>18 DEF Next

-----------------------------------------------------------------------------
(* Types. *)

\* The columns of the row and the history of its acceptances.
RowTypes ==
    /\ status \in Statuses /\ left \in Latest .. Longest
    /\ rewards \in 0 .. 2 /\ countered \in BOOLEAN
    /\ since \in 0 .. PayWindow + Grace + 1

\* Every step leaves a bid row, with its expiry, holds and stamps.
LEMMA RowTypesStep ==
  ASSUME BidTypeOK, [Next]_vars
  PROVE  RowTypes'
<1>1. RowTypes
  BY DEF BidTypeOK, RowTypes
<1>2. CASE UNCHANGED row
  BY <1>1, <1>2 DEF row, RowTypes
<1>3. CASE Tick
  <2>1. left' \in Latest .. Longest
    BY <1>1, <1>3, Periods DEF Tick, Larger, RowTypes
  <2>2. since' \in 0 .. PayWindow + Grace + 1
    BY <1>1, <1>3, Periods DEF Tick, RowTypes
  <2> QED BY <1>1, <1>3, <2>1, <2>2 DEF Tick, RowTypes
<1>4. ASSUME NEW s \in Statuses, NEW exp \in Int, Write(s, exp), Legal(s, exp)
      PROVE  RowTypes'
  <2>1. exp \in Latest .. Longest /\ HotelWindow \in Latest .. Longest
    BY <1>1, <1>4, Periods DEF Legal, RowTypes
  <2>2. left' \in Latest .. Longest
    BY <1>4, <2>1 DEF Write, StampExpiry
  <2>3. rewards' \in 0 .. 2 /\ since' \in 0 .. PayWindow + Grace + 1
    BY <1>1, <1>4, Periods DEF Write, Reward, RowTypes
  <2>4. status' \in Statuses /\ countered' \in BOOLEAN
    BY <1>1, <1>4 DEF Write, RowTypes
  <2> QED BY <2>2, <2>3, <2>4 DEF RowTypes
<1> QED BY <1>2, <1>3, <1>4, RowSteps
\* The chain, the charges and the schedule of the customer, and the calls of the hotel
\* and the cron.
ActorTypes ==
    /\ auto \in (-1 .. AutoDelay) \cup {None} /\ age \in 0 .. OldAge
    /\ stamped \in BOOLEAN /\ recorded \in BOOLEAN /\ lost \in BOOLEAN
    /\ charges \in 0 .. MaxCharges /\ late \in BOOLEAN
    /\ customer \in Chains /\ open \in 0 .. MaxCheckout
    /\ hotel \in Answers \cup {"idle", "dialog", "check-in", "check-out"}
    /\ cron \in {"idle", "stale", "orphans"}

\* Every step leaves the three actors between two of their calls.
LEMMA ActorTypesStep ==
  ASSUME BidTypeOK, [Next]_vars
  PROVE  ActorTypes'
<1> USE Periods, BidAssumption
<1>1. ActorTypes
  BY DEF BidTypeOK, ActorTypes
<1>2. CASE Place
  BY <1>1, <1>2 DEF Place, paying, ActorTypes, Chains
<1>3. CASE PlacePrepaid
  <2>1. /\ customer' \in {<<"accept", "record">>, <<"record", "schedule">>}
        /\ stamped' \in BOOLEAN /\ charges' = 1
        /\ UNCHANGED <<auto, age, recorded, lost, open, late, hotel, cron>>
    BY <1>3 DEF PlacePrepaid
  <2> QED BY <1>1, <2>1 DEF ActorTypes, Chains
<1>4. CASE PayNow \/ PayFromLink \/ PayCounter \/ Cancel \/ Decline \/ ChangeBudget
  <2>1. PICK todo \in Chains : Begin(todo)
    BY <1>4 DEF PayNow, PayFromLink, PayCounter, Cancel, Decline, ChangeBudget, Chains
  <2>2. /\ customer' \in Chains /\ open' = 0
        /\ UNCHANGED <<auto, age, stamped, recorded, lost, charges, hotel, cron>>
    BY <2>1 DEF Begin, paying
  <2>3. late' \in BOOLEAN
    BY <2>1, Zenon DEF Begin
  <2> QED BY <1>1, <2>2, <2>3 DEF ActorTypes
<1>5. CASE Capture
  <2>1. Tail(customer) \in Chains /\ charges' \in 0 .. MaxCharges
    BY <1>1, <1>5, ChainFacts, DueNothing DEF Capture, ActorTypes
  <2> QED BY <1>1, <1>5, <2>1 DEF Capture, ActorTypes
<1>6. CASE Dismiss
  BY <1>1, <1>6 DEF Dismiss, paying, ActorTypes, Chains
<1>7. CASE Call
  <2>1. Tail(customer) \in Chains /\ <<>> \in Chains
    BY <1>1, <1>7, ChainFacts, DueNothing DEF Call, ActorTypes, Chains
  <2>2. customer' \in Chains
    BY <1>7, <2>1 DEF Call
  <2>3. /\ auto' \in (-1 .. AutoDelay) \cup {None}
        /\ stamped' \in BOOLEAN /\ recorded' \in BOOLEAN
    <3>1. auto' \in {auto, AutoDelay} /\ stamped' \in {stamped, TRUE} /\ recorded' \in {recorded, TRUE}
      BY <1>7, EffectWrites DEF Call
    <3>2. auto' \in (-1 .. AutoDelay) \cup {None}
      BY <1>1, <3>1 DEF ActorTypes
    <3>3. stamped' \in BOOLEAN /\ recorded' \in BOOLEAN
      BY <1>1, <3>1, Zenon DEF ActorTypes
    <3> QED BY <3>2, <3>3
  <2>4. lost' \in BOOLEAN
    BY <1>7 DEF Call
  <2> QED BY <1>1, <1>7, <2>2, <2>3, <2>4 DEF Call, ActorTypes
<1>8. CASE OpenBid \/ Answer \/ Desk \/ HotelGivesUp
  BY <1>1, <1>8 DEF OpenBid, Answer, Desk, HotelGivesUp, HotelTurns, paying, page, ActorTypes
<1>9. CASE Railway \/ Fallback \/ DeskPatch
  BY <1>1, <1>9 DEF Railway, Fallback, DeskPatch, paying, page, ActorTypes
<1>10. CASE CronAccept \/ CronStale \/ CronOrphans \/ CronSweepFails
  BY <1>1, <1>10 DEF CronAccept, CronStale, CronOrphans, CronSweepFails, Swept, paying, page,
                     ActorTypes
<1>11. CASE Tick
  <2>1. auto' \in (-1 .. AutoDelay) \cup {None} /\ age' \in 0 .. OldAge
    BY <1>1, <1>11 DEF Tick, Larger, ActorTypes
  <2>2. open' \in 0 .. MaxCheckout
    BY <1>1, <1>11 DEF Tick, ActorTypes
  <2> QED BY <1>1, <1>11, <2>1, <2>2 DEF Tick, paying, ActorTypes
<1>12. CASE TriggerAccept
  BY <1>1, <1>12 DEF TriggerAccept, paying, page, actors, ActorTypes
<1>13. CASE UNCHANGED vars
  BY <1>1, <1>13 DEF vars, ActorTypes
<1> QED BY <1>2, <1>3, <1>4, <1>5, <1>6, <1>7, <1>8, <1>9, <1>10, <1>11, <1>12, <1>13 DEF Next

\* Every column, clock and actor of a bid holds a value that it can hold.
THEOREM BidTypesHold == Spec => []BidTypeOK
<1>1. Init => BidTypeOK
  <2> SUFFICES ASSUME Init PROVE RowTypes /\ ActorTypes
    BY DEF RowTypes, ActorTypes, BidTypeOK
  <2>1. /\ stamped \in BOOLEAN /\ recorded \in BOOLEAN /\ lost \in BOOLEAN
        /\ countered \in BOOLEAN /\ late \in BOOLEAN /\ customer \in Chains /\ auto \in {None}
    BY Zenon DEF Init, Chains
  <2>2. /\ status \in Statuses /\ left = 0 /\ age = 0 /\ rewards = 0 /\ since = 0 /\ open = 0
        /\ charges = 0 /\ hotel = "idle" /\ cron = "idle"
    BY DEF Init, Statuses
  <2> QED BY <2>1, <2>2, Periods DEF RowTypes, ActorTypes
<1>2. BidTypeOK /\ [Next]_vars => BidTypeOK'
  BY RowTypesStep, ActorTypesStep DEF RowTypes, ActorTypes, BidTypeOK
<1> QED BY <1>1, <1>2, PTL DEF Spec

-----------------------------------------------------------------------------
(* The rewards. *)

\* The desk begins a check-in or a check-out only on a guest it may.
LEMMA DeskSteps ==
  ASSUME [Next]_vars, hotel' \in {"check-in", "check-out"}
  PROVE  \/ hotel' = hotel
         \/ status \in {"ACCEPTED", "CHECKED_IN"} /\ UNCHANGED row
BY DEF Next, vars, page, actors, Place, PlacePrepaid, PayNow, PayFromLink, PayCounter, Cancel,
       Decline, ChangeBudget, Begin, Capture, Dismiss, Call, TriggerAccept, OpenBid, Answer,
       Desk, Railway, Fallback, DeskPatch, HotelGivesUp, HotelTurns, Answers, CronAccept, CronStale, CronOrphans,
       CronSweepFails, Swept, Tick

\* The first acceptance rewards the referrer and the guest, and no later one does again.
LEMMA RewardStep ==
  ASSUME BidTypeOK, RewardInv, [Next]_vars
  PROVE  RewardInv'
<1>1. /\ rewards \in 0 .. 2 /\ rewards =< 1
      /\ status \in {"ACCEPTED", "CHECKED_IN", "CHECKED_OUT"} => rewards = 1
      /\ hotel \in {"check-in", "check-out"} => rewards = 1
  BY DEF BidTypeOK, RewardInv, RewardedOnce
<1>2. CASE UNCHANGED row \/ Tick
  <2>1. status' = status /\ rewards' = rewards
    BY <1>2 DEF row, Tick
  <2> QED BY <1>1, <2>1, DeskSteps DEF RewardInv, RewardedOnce
<1>3. ASSUME NEW s \in Statuses, NEW exp \in Int, Write(s, exp), Legal(s, exp)
      PROVE  RewardInv'
  <2>1. status' = s /\ rewards' \in {rewards, 1} /\ (s = "ACCEPTED" => rewards' = 1)
    BY <1>1, <1>3 DEF Write, Reward
  <2>2. s \in {"CHECKED_IN", "CHECKED_OUT"} => rewards = 1
    BY <1>1, <1>3 DEF Legal
  <2>3. hotel' \in {"check-in", "check-out"} => rewards' = 1
    BY <1>1, <2>1, DeskSteps DEF row
  <2> QED BY <1>1, <2>1, <2>2, <2>3 DEF RewardInv, RewardedOnce
<1> QED BY <1>2, <1>3, RowSteps

\* The commission and the points of a bid are booked once, however often it is accepted
\* and taken back, and no guest stays without them (fn_on_bid_accepted).
THEOREM RewardOnce == Spec => []RewardedOnce
<1>1. Init => RewardInv
  BY DEF Init, RewardInv, RewardedOnce
<1>2. BidTypeOK /\ RewardInv /\ [Next]_vars => RewardInv'
  BY RewardStep
<1>3. RewardInv => RewardedOnce
  BY DEF RewardInv
<1> QED BY <1>1, <1>2, <1>3, BidTypesHold, PTL DEF Spec

-----------------------------------------------------------------------------
(* The windows. *)

\* A write that leaves the bid accepted gives it its window, and the first one starts
\* the count of the time since.
LEMMA OpensWindow ==
  ASSUME BidTypeOK, NEW s \in Statuses, NEW exp \in Int, Write(s, exp), Legal(s, exp),
         status' = "ACCEPTED"
  PROVE  left' >= PayWindow /\ since' \in {since, 0}
BY Periods DEF Write, StampExpiry, Legal

\* A sum passes a bound that one of its parts passes.
LEMMA SumBound ==
  ASSUME NEW a \in Int, NEW b \in Nat, NEW c \in Int, a >= c
  PROVE  a + b >= c
OBVIOUS

\* Time takes from the window of an accepted bid what it adds to the time since.
LEMMA WindowStep ==
  ASSUME BidTypeOK, WindowInv, [Next]_vars
  PROVE  WindowInv'
<1>1. left \in Int /\ since \in Nat /\ Latest \in Int
  BY Periods DEF BidTypeOK
<1>2. CASE UNCHANGED row
  BY <1>2 DEF row, WindowInv
<1>3. CASE Tick
  <2>1. /\ status' = status
        /\ left' = Larger(left - 1, Latest)
        /\ since' = IF since =< PayWindow + Grace THEN since + 1 ELSE since
    BY <1>3 DEF Tick
  <2>2. left' \in Int /\ left' >= left - 1
    BY <1>1, <2>1 DEF Larger
  <2> QED BY <1>1, <2>1, <2>2, Periods DEF WindowInv
<1>4. ASSUME NEW s \in Statuses, NEW exp \in Int, Write(s, exp), Legal(s, exp)
      PROVE  WindowInv'
  <2> SUFFICES ASSUME status' = "ACCEPTED" PROVE left' + since' >= PayWindow
    BY DEF WindowInv
  <2>1. left' >= PayWindow /\ since' \in Nat
    BY <1>1, <1>4, OpensWindow
  <2>2. left' \in Int
    BY <1>4, Periods DEF Write, StampExpiry
  <2>3. PayWindow \in Int
    BY Periods
  <2> QED BY <2>1, <2>2, <2>3, SumBound
<1> QED BY <1>2, <1>3, <1>4, RowSteps

\* An accepted bid is swept only past its grace, and without a recorded payment.
LEMMA SweptOrphaned ==
  ASSUME BidTypeOK, [Next]_vars, status = "ACCEPTED", status' = "EXPIRED"
  PROVE  left < -Grace /\ ~recorded
<1>1. CASE UNCHANGED row \/ Tick
  BY <1>1 DEF row, Tick
<1>2. ASSUME NEW s \in Statuses, NEW exp \in Int, Write(s, exp), Legal(s, exp)
      PROVE  left < -Grace /\ ~recorded
  BY <1>2 DEF Write, Legal, Stale, Orphaned
<1> QED BY <1>1, <1>2, RowSteps

\* Whoever accepted the bid, and whatever was written into expiresAt before or after, the
\* sweep (mark_orphaned_accepted_bids) leaves it the payment window and its grace.
THEOREM WindowIsHonoured == Spec => WindowHonoured
<1>1. Init => WindowInv
  BY DEF Init, WindowInv
<1>2. BidTypeOK /\ WindowInv /\ [Next]_vars => WindowInv'
  BY WindowStep
<1>3. ASSUME BidTypeOK, WindowInv, [Next]_vars, status = "ACCEPTED", status' = "EXPIRED"
      PROVE  since > PayWindow + Grace
  <2>1. left < -Grace
    BY <1>3, SweptOrphaned
  <2>2. left \in Int /\ since \in Nat
    BY <1>3 DEF BidTypeOK, Latest
  <2> QED BY <1>3, <2>1, <2>2, Periods DEF WindowInv
<1>4. BidTypeOK /\ WindowInv /\ [Next]_vars =>
        [status = "ACCEPTED" /\ status' = "EXPIRED" => since > PayWindow + Grace]_vars
  BY <1>3
<1> QED BY <1>1, <1>2, <1>4, BidTypesHold, PTL DEF Spec, WindowHonoured
-----------------------------------------------------------------------------
(* The payments. *)

\* A chain that still records is due to do so; the payments' calls lead only to each
\* other.
LEMMA RecordingDue ==
  /\ customer \in Recording => Due \in Paying /\ Due # "checkout"
  /\ customer = <<>> => Due \notin Paying /\ customer \notin Recording
  /\ Due = "checkout" => customer \notin Recording
<1>1. ASSUME NEW a, NEW b, customer = <<a, b>> PROVE Due = a
  BY <1>1, OfTwo DEF Due
<1>2. ASSUME NEW a, customer = <<a>> PROVE Due = a
  BY <1>2, OfOne DEF Due
<1>3. customer \in Recording => Due \in Paying /\ Due # "checkout"
  BY <1>1, <1>2 DEF Recording, Paying
<1>4. customer = <<>> => Due \notin Paying /\ customer \notin Recording
  BY OfOne, OfTwo DEF Due, Paying, Recording
<1> QED BY <1>3, <1>4

\* What is due next in a chain that records a payment.
LEMMA RecordingDueNext ==
  /\ customer' \in Recording => Due' \in Paying /\ Due' # "checkout"
  /\ customer' = <<>> => Due' \notin Paying /\ Due' # "checkout"
  /\ customer' = <<"schedule">> => Due' # "checkout"
  /\ \A a : customer' = <<a>> => Due' = a
  /\ \A a, b, c : customer' = <<a, b, c>> => Due' = a
<1>1. ASSUME NEW a, NEW b, customer' = <<a, b>> PROVE Due' = a
  BY <1>1, OfTwo DEF Due
<1>2. ASSUME NEW a, customer' = <<a>> PROVE Due' = a
  BY <1>2, OfOne DEF Due
<1>3. ASSUME NEW a, NEW b, NEW c, customer' = <<a, b, c>> PROVE Due' = a
  BY <1>3, OfThree DEF Due
<1>4. customer' \in Recording => Due' \in Paying /\ Due' # "checkout"
  BY <1>1, <1>2 DEF Recording, Paying
<1>5. customer' = <<>> => Due' \notin Paying /\ Due' # "checkout"
  BY DEF Due, Paying
<1>6. customer' = <<"schedule">> => Due' # "checkout"
  BY <1>2
<1> QED BY <1>2, <1>3, <1>4, <1>5, <1>6

\* What a step does to the money and to the calls that follow it.
LEMMA PaymentSteps ==
  ASSUME BidTypeOK, [Next]_vars
  PROVE  \/ UNCHANGED <<page, charges, lost, recorded>>
         \/ Tick
         \/ Place
         \/ PlacePrepaid
         \/ PayNow
         \/ PayFromLink
         \/ PayCounter
         \/ Cancel \/ Decline \/ ChangeBudget
         \/ Capture \/ Dismiss
         \/ Call
BY DEF Next, vars, paying, page, actors, TriggerAccept, OpenBid, Answer, Desk, Railway,
       Fallback, DeskPatch, HotelGivesUp, HotelTurns, CronAccept, CronStale, CronOrphans,
       CronSweepFails, Swept

\* A step of the row that is no tick leaves an accepted bid its time, or gives it more.
LEMMA AcceptedKeepsTime ==
  ASSUME BidTypeOK, [Next]_vars, ~Tick, status' = "ACCEPTED"
  PROVE  (status = "ACCEPTED" /\ left' = left) \/ (left' \in Int /\ left' >= 0)
<1>1. CASE UNCHANGED row
  BY <1>1 DEF row
<1>2. ASSUME NEW s \in Statuses, NEW exp \in Int, Write(s, exp), Legal(s, exp)
      PROVE  left' \in Int /\ left' >= 0
  BY <1>2, Periods DEF Write, StampExpiry, Legal
<1> QED BY <1>1, <1>2, RowSteps

\* A captured charge is recorded, unless a call that leads to it is lost.
LEMMA RecordedStep ==
  ASSUME BidTypeOK, ScheduleInv, ChargeRecorded, [Next]_vars
  PROVE  ChargeRecorded'
<1>0. customer \in Chains
  BY DEF BidTypeOK
<1>1. CASE UNCHANGED <<page, charges, lost, recorded>> \/ Tick
  BY <1>1 DEF Tick, paying, page, ChargeRecorded
<1>2. CASE Place
  <2>1. customer = <<>> /\ UNCHANGED <<charges, lost, recorded>>
    BY <1>2 DEF Place, paying, ScheduleInv
  <2>2. customer \notin Recording
    BY <2>1, RecordingDue
  <2> QED BY <2>1, <2>2 DEF ChargeRecorded
<1>3. CASE PayNow \/ PayFromLink \/ PayCounter \/ Cancel \/ Decline \/ ChangeBudget
  <2>1. customer = <<>> /\ UNCHANGED <<charges, lost, recorded>>
    BY <1>3 DEF PayNow, PayFromLink, PayCounter, Cancel, Decline, ChangeBudget, Begin, paying
  <2>2. customer \notin Recording
    BY <2>1, RecordingDue
  <2> QED BY <2>1, <2>2 DEF ChargeRecorded
<1>4. CASE Capture
  <2>1. customer' \in {<<"stamp", "record">>, <<"counter-accept", "record">>}
    BY <1>0, <1>4, ChainFacts, DueNothing DEF Capture
  <2> QED BY <2>1 DEF ChargeRecorded, Recording
<1>5. CASE Dismiss
  BY <1>5, RecordingDue DEF Dismiss, paying, ChargeRecorded
<1>6. CASE Call
  <2> SUFFICES ASSUME charges' > 0, ~lost', ~recorded' PROVE customer' \in Recording
    BY DEF ChargeRecorded
  <2>1. PICK out \in Outcome(Due) :
          /\ IF out = "failed" THEN UNCHANGED <<row, auto, stamped, recorded>> ELSE Effect(Due)
          /\ lost' = (lost \/ (charges > 0 /\ out # "ok"))
          /\ customer' = IF Throws(Due, out) THEN <<>> ELSE Tail(customer)
    BY <1>6 DEF Call
  <2>2. charges > 0 /\ ~lost /\ out = "ok" /\ Due \notin {"nothing", "checkout"}
    BY <1>6, <2>1 DEF Call
  <2>3. Effect(Due) /\ customer' = Tail(customer)
    BY <2>1, <2>2 DEF Throws
  <2>4. ~recorded /\ Due # "record"
    <3>1. (recorded' = recorded /\ Due # "record") \/ recorded' = TRUE
      BY <2>2, <2>3, EffectWrites
    <3>2. CASE recorded' = recorded /\ Due # "record"
      BY <3>2, Zenon
    <3>3. CASE recorded' = TRUE
      BY <3>3, Zenon
    <3> QED BY <3>1, <3>2, <3>3
  <2>5. customer \in Recording
    BY <2>2, <2>4 DEF ChargeRecorded
  <2>6. CASE customer \in {<<"stamp", "record">>, <<"counter-accept", "record">>, <<"accept", "record">>}
    BY <2>3, <2>6, OfTwo DEF Recording
  <2>7. CASE customer = <<"record">> \/ customer = <<"record", "schedule">>
    BY <2>4, <2>7, OfOne, OfTwo DEF Due
  <2> QED BY <2>5, <2>6, <2>7 DEF Recording
<1>7. CASE PlacePrepaid
  BY <1>7 DEF PlacePrepaid, ChargeRecorded, Recording
<1> QED BY <1>1, <1>2, <1>3, <1>4, <1>5, <1>6, <1>7, PaymentSteps

\* Bounds for what is left of a window while a dialog is open.
LEMMA AtLeastMinus ==
  /\ \A a \in Int, b \in Nat : a >= 0 => a >= -b
  /\ \A a \in Int, m \in Nat : \A b \in 0 .. m : b \in Nat /\ (a >= -b => a >= -m)
OBVIOUS

\* A dialog opened inside the window closes before it is past by more than MaxCheckout;
\* one that a link opened past it is marked late.
LEMMA PaysInTimeStep ==
  ASSUME BidTypeOK, BidTypeOK', PaysInTime, [Next]_vars
  PROVE  PaysInTime'
<1>0. /\ customer \in Chains /\ left \in Int /\ left' \in Int
      /\ open \in 0 .. MaxCheckout /\ open' \in 0 .. MaxCheckout /\ MaxCheckout \in Nat
  BY Periods DEF BidTypeOK
<1>1. CASE Tick
  <2>1. status' = status /\ customer' = customer /\ left' >= left - 1
        /\ Due \in {"nothing", "checkout"} /\ Due' = Due /\ late' = late
    BY <1>0, <1>1, Periods DEF Tick, Larger, Quiet, Due
  <2>2. Due = "checkout" => open' = open + 1
    BY <1>1 DEF Tick, Due
  <2>3. "nothing" \notin Paying
    BY DEF Paying
  <2>4. ASSUME status' = "ACCEPTED", Due' = "checkout", ~late' PROVE left' >= -open'
    <3>1. left >= -open /\ open' = open + 1
      BY <2>1, <2>2, <2>4 DEF PaysInTime
    <3> QED BY <1>0, <2>1, <3>1
  <2>5. ASSUME status' = "ACCEPTED", Due' \in Paying, ~late' PROVE left' >= -MaxCheckout
    <3>1. left' >= -open'
      BY <2>1, <2>3, <2>4, <2>5
    <3> QED BY <1>0, <3>1, AtLeastMinus
  <2> QED BY <2>4, <2>5 DEF PaysInTime
<1>2. CASE ~Tick /\ status' # "ACCEPTED"
  BY <1>2 DEF PaysInTime
<1>3. CASE ~Tick /\ status' = "ACCEPTED" /\ left' >= 0
  <2>1. left' >= -open' /\ left' >= -MaxCheckout
    BY <1>0, <1>3, AtLeastMinus
  <2> QED BY <2>1 DEF PaysInTime
<1>4. CASE ~Tick /\ status' = "ACCEPTED" /\ status = "ACCEPTED" /\ left' = left
  <2>1. CASE UNCHANGED <<page, charges, lost, recorded>>
    BY <1>4, <2>1 DEF PaysInTime, Due, page
  <2>2. CASE PayNow \/ PayFromLink
    <3> SUFFICES ASSUME ~late' PROVE left' >= -open' /\ left' >= -MaxCheckout
      BY DEF PaysInTime
    <3>1. late' = (status = "ACCEPTED" /\ left < 0)
      BY <2>2 DEF PayNow, PayFromLink, Begin
    <3>2. ~(left < 0)
      BY <1>4, <3>1, Zenon
    <3>3. left' >= 0
      BY <1>0, <1>4, <3>2
    <3> QED BY <1>0, <3>3, AtLeastMinus
  <2>3. CASE Place \/ PlacePrepaid \/ PayCounter
    BY <1>4, <2>3 DEF Place, PlacePrepaid, PayCounter
  <2>4. CASE Cancel \/ Decline \/ ChangeBudget
    BY <1>4, <2>4 DEF Cancel, Decline, ChangeBudget
  <2>5. CASE Capture
    <3>1. customer' \in {<<"stamp", "record">>, <<"counter-accept", "record">>}
      BY <1>0, <2>5, ChainFacts, DueNothing DEF Capture
    <3>2. Due = "checkout" /\ Due' # "checkout" /\ late' = late
      BY <2>5, <3>1, RecordingDueNext DEF Capture, Recording
    <3> QED BY <1>0, <1>4, <3>2 DEF PaysInTime, Paying
  <2>6. CASE Dismiss
    BY <2>6, RecordingDueNext DEF Dismiss, PaysInTime
  <2>7. CASE Call
    <3>1. /\ Due \notin {"nothing", "checkout"} /\ Due \in Calls
          /\ customer' \in {<<>>, Tail(customer)} /\ late' = late
      BY <1>0, <2>7, ChainFacts, DueNothing DEF Call
    <3>2. CASE Due \in Paying
      <4>1. customer' \in {<<>>, <<"record">>, <<"schedule">>}
        BY <1>0, <3>1, <3>2, ChainFacts, DueNothing DEF Paying
      <4>2. Due' # "checkout"
        BY <4>1, RecordingDueNext DEF Recording
      <4> QED BY <1>4, <3>1, <3>2, <4>2 DEF PaysInTime
    <3>3. CASE Due \notin Paying
      <4>1. customer' = <<>>
        BY <1>0, <3>1, <3>3, ChainFacts, DueNothing DEF Paying, Calls
      <4> QED BY <4>1, RecordingDueNext DEF PaysInTime
    <3> QED BY <3>2, <3>3
  <2> QED BY <1>4, <2>1, <2>2, <2>3, <2>4, <2>5, <2>6, <2>7, PaymentSteps
<1> QED BY <1>1, <1>2, <1>3, <1>4, AcceptedKeepsTime

-----------------------------------------------------------------------------
(* The schedule. *)

\* The schedule is set by the customer's call, and runs down with time alone.
LEMMA AutoSteps ==
  ASSUME BidTypeOK, [Next]_vars
  PROVE  auto' = auto \/ Tick \/ (Call /\ auto' \in {auto, AutoDelay})
<1>1. ASSUME Call PROVE auto' \in {auto, AutoDelay}
  BY <1>1, EffectWrites DEF Call
<1>2. auto' = auto \/ Tick \/ Call
  BY DEF Next, vars, Place, PlacePrepaid, PayNow, PayFromLink, PayCounter, Cancel, Decline,
         ChangeBudget, Begin, Capture, Dismiss, TriggerAccept, OpenBid, Answer, Desk, Railway,
         Fallback, DeskPatch, HotelGivesUp, HotelTurns, CronAccept, CronStale, CronOrphans,
       CronSweepFails, Swept
<1> QED BY <1>1, <1>2

\* The sweep reaches its second call when the first has accepted what was due.
LEMMA CronSteps ==
  ASSUME [Next]_vars, cron' = "stale"
  PROVE  \/ cron = "stale"
         \/ CronAccept /\ \/ status' = "ACCEPTED"
                          \/ status' = status /\ ~(status = "PENDING" /\ auto # None /\ auto =< 0)
<1>1. CASE CronAccept
  BY <1>1 DEF CronAccept, Write, row
<1>2. cron' = cron \/ CronAccept
  BY DEF Next, vars, page, actors, Place, PlacePrepaid, PayNow, PayFromLink, PayCounter, Cancel, Decline,
         ChangeBudget, Begin, Capture, Dismiss, Call, TriggerAccept, OpenBid, Answer, Desk,
         Railway, Fallback, DeskPatch, HotelGivesUp, HotelTurns, CronStale, CronOrphans,
         CronSweepFails, Swept, Tick
<1> QED BY <1>1, <1>2

\* A chain begins on a bid that exists, and pitches again only what was countered.
LEMMA ChainSteps ==
  ASSUME BidTypeOK, [Next]_vars
  PROVE  /\ customer' # <<>> => customer # <<>> \/ status' # "none"
         /\ Due' = "repitch" => Due = "repitch" \/ (status = "COUNTER" /\ UNCHANGED row)
<1> DEFINE Goal == /\ customer' # <<>> => customer # <<>> \/ status' # "none"
                   /\ Due' = "repitch" => Due = "repitch" \/ (status = "COUNTER" /\ UNCHANGED row)
<1> SUFFICES Goal OBVIOUS
<1>0. customer \in Chains
  BY DEF BidTypeOK
<1>1. CASE UNCHANGED customer
  BY <1>1 DEF Due
<1>2. CASE PlacePrepaid
  <2>1. customer' \in {<<"accept", "record">>, <<"record", "schedule">>} /\ status' = "PENDING"
    BY <1>2 DEF PlacePrepaid, Write
  <2>2. Due' \in {"accept", "record"}
    BY <2>1, OfTwo DEF Due
  <2> QED BY <2>1, <2>2
<1>3. CASE PayNow \/ PayFromLink \/ PayCounter \/ Cancel \/ Decline \/ ChangeBudget
  <2>1. status' # "none"
    BY <1>3 DEF PayNow, PayFromLink, PayCounter, Cancel, Decline, ChangeBudget, Begin, row
  <2>2. CASE status = "COUNTER"
    BY <1>3, <2>1, <2>2 DEF PayNow, PayFromLink, PayCounter, Cancel, Decline, ChangeBudget, Begin
  <2>3. CASE status # "COUNTER"
    <3>1. customer' \in {<<"checkout", "stamp", "record">>, <<"cancel">>, <<"reprice">>, <<"rebid">>}
      BY <1>3, <2>3 DEF PayNow, PayFromLink, PayCounter, Cancel, Decline, ChangeBudget, Begin
    <3>2. Due' # "repitch"
      BY <3>1, RecordingDueNext
    <3> QED BY <2>1, <3>2
  <2> QED BY <2>2, <2>3
<1>4. CASE Capture \/ Dismiss \/ Call
  <2>1. customer # <<>> /\ customer' \in {<<>>, Tail(customer)}
    BY <1>0, <1>4, DueNothing DEF Capture, Dismiss, Call, Due
  <2>2. /\ customer' \in {<<>>, <<"record">>, <<"schedule">>, <<"stamp", "record">>,
                          <<"counter-accept", "record">>}
    BY <1>0, <2>1, ChainFacts DEF Calls
  <2>3. customer' \in Recording \cup {<<>>, <<"schedule">>}
    BY <2>2 DEF Recording
  <2>4. Due' # "repitch"
    <3>1. CASE customer' \in Recording
      BY <3>1, RecordingDueNext DEF Paying
    <3>2. CASE customer' = <<"schedule">>
      BY <3>2, RecordingDueNext
    <3>3. CASE customer' = <<>>
      BY <3>3 DEF Due
    <3> QED BY <2>3, <3>1, <3>2, <3>3
  <2> QED BY <2>1, <2>4
<1>5. CASE Tick
  BY <1>5 DEF Tick, Due
<1>6. CASE Place
  <2>1. customer' \in {<<>>, <<"schedule">>} /\ status' # "none"
    BY <1>6 DEF Place, Write
  <2>2. Due' # "repitch"
    BY <2>1, OfOne DEF Due
  <2> QED BY <2>1, <2>2
<1> QED BY <1>1, <1>2, <1>3, <1>4, <1>5, <1>6, PaymentSteps DEF page

\* The sweep accepts what is due before it expires what is stale.
LEMMA ScheduleStep ==
  ASSUME BidTypeOK, BidTypeOK', ScheduleInv, [Next]_vars
  PROVE  ScheduleInv'
<1>1. countered => countered'
  <2>1. CASE UNCHANGED row \/ Tick
    BY <2>1 DEF row, Tick
  <2>2. ASSUME NEW s \in Statuses, NEW exp \in Int, Write(s, exp) PROVE countered => countered'
    BY <2>2 DEF Write
  <2> QED BY <2>1, <2>2, RowSteps
<1>2. /\ status' = "none" => status = "none"
      /\ status' = "COUNTER" => status = "COUNTER" \/ countered'
      /\ status' = "PENDING" => status \in {"PENDING", "none"} \/ Due = "repitch"
  <2>1. CASE UNCHANGED row \/ Tick
    BY <2>1 DEF row, Tick
  <2>2. ASSUME NEW s \in Statuses, NEW exp \in Int, Write(s, exp), Legal(s, exp)
        PROVE  /\ status' = "none" => status = "none"
               /\ status' = "COUNTER" => countered'
               /\ status' = "PENDING" => status \in {"PENDING", "none"} \/ Due = "repitch"
    BY <2>2 DEF Write, Legal
  <2> QED BY <2>1, <2>2, RowSteps
<1>3. ASSUME status' = "none" PROVE auto' = None /\ customer' = <<>>
  <2>1. status = "none" /\ auto = None /\ customer = <<>>
    BY <1>2, <1>3 DEF ScheduleInv
  <2>2. customer' = <<>>
    BY <1>3, <2>1, ChainSteps
  <2>3. ~Tick /\ ~Call
    BY <2>1 DEF Tick, Call, Due
  <2> QED BY <2>1, <2>2, <2>3, AutoSteps
<1>4. ASSUME status' = "COUNTER" \/ Due' = "repitch" PROVE countered'
  BY <1>1, <1>2, <1>4, ChainSteps DEF ScheduleInv
<1>5. ASSUME cron' = "stale", status' = "PENDING", auto' # None, auto' < 0 PROVE countered'
  <2>1. CASE cron = "stale"
    <3>1. ~Tick
      BY <2>1 DEF Tick, Quiet
    <3>2. auto' = auto
      BY <1>5, <3>1, AutoSteps, Periods
    <3>3. status # "none"
      BY <1>5, <3>2 DEF ScheduleInv
    <3> QED BY <1>1, <1>2, <1>5, <2>1, <3>2, <3>3 DEF ScheduleInv
  <2>2. CASE CronAccept /\ status' = status /\ ~(status = "PENDING" /\ auto # None /\ auto =< 0)
    <3>1. auto' = auto
      BY <2>2 DEF CronAccept
    <3>2. auto \in Int
      BY <1>5, <3>1 DEF BidTypeOK
    <3> QED BY <1>5, <2>2, <3>1, <3>2
  <2> QED BY <1>5, <2>1, <2>2, CronSteps
<1> QED BY <1>3, <1>4, <1>5 DEF ScheduleInv

\* A scheduled bid is expired only when the hotel had countered it: a run of the cron
\* accepts what is due (mark_expired_holds) before it looks for what is stale
\* (mark_stale_pending_bids), and does not go on when that call fails.
THEOREM ScheduleIsKept == Spec => ScheduleKept
<1>1. Init => ScheduleInv
  BY DEF Init, ScheduleInv, Due
<1>2. BidTypeOK /\ BidTypeOK' /\ ScheduleInv /\ [Next]_vars => ScheduleInv'
  BY ScheduleStep
<1>3. ASSUME BidTypeOK, ScheduleInv, [Next]_vars,
             status = "PENDING", auto # None, status' = "EXPIRED"
      PROVE  countered
  <2>1. CASE UNCHANGED row \/ Tick
    BY <1>3, <2>1 DEF row, Tick
  <2>2. ASSUME NEW s \in Statuses, NEW exp \in Int, Write(s, exp), Legal(s, exp)
        PROVE  countered
    BY <1>3, <2>2 DEF Write, Legal, Stale, Orphaned, ScheduleInv
  <2> QED BY <1>3, <2>1, <2>2, RowSteps
<1>4. BidTypeOK /\ ScheduleInv /\ [Next]_vars =>
        [status = "PENDING" /\ auto # None /\ status' = "EXPIRED" => countered]_vars
  BY <1>3
<1> QED BY <1>1, <1>2, <1>4, BidTypesHold, PTL DEF Spec, ScheduleKept

-----------------------------------------------------------------------------
(* The sweep and the payers. *)

\* Where a dialog is not open for longer than the grace, no accepted bid is swept from
\* under it or from under the calls after it, nor later unless one of those calls was
\* lost, but for a dialog that a link opened past the window
\* (mark_orphaned_accepted_bids, Case B).
THEOREM PayersAreSpared ==
  ASSUME MaxCheckout =< Grace
  PROVE  Spec => SweepSparesPayers
<1> DEFINE Spared == status = "ACCEPTED" /\ status' = "EXPIRED" /\ ~(late /\ customer # <<>>) =>
              /\ Due \in {"nothing", "cancel", "decline", "reprice", "repitch", "rebid"}
              /\ charges > 0 => lost
<1>1. Init => ScheduleInv /\ PaysInTime /\ ChargeRecorded
  BY DEF Init, ScheduleInv, PaysInTime, ChargeRecorded, Due
<1>2. BidTypeOK /\ BidTypeOK' /\ ScheduleInv /\ PaysInTime /\ ChargeRecorded /\ [Next]_vars
        => (ScheduleInv /\ PaysInTime /\ ChargeRecorded)'
  BY ScheduleStep, PaysInTimeStep, RecordedStep
<1>3. ASSUME BidTypeOK, PaysInTime, ChargeRecorded, [Next]_vars PROVE Spared
  <2> SUFFICES ASSUME status = "ACCEPTED", status' = "EXPIRED", ~late \/ customer = <<>>
               PROVE  /\ Due \in {"nothing", "cancel", "decline", "reprice", "repitch", "rebid"}
                      /\ charges > 0 => lost
    OBVIOUS
  <2>1. left < -Grace /\ ~recorded
    BY <1>3, SweptOrphaned
  <2>2. left \in Int /\ customer \in Chains
    BY <1>3 DEF BidTypeOK, Latest
  <2>3. Due \notin Paying
    <3>1. CASE ~late
      BY <1>3, <2>1, <2>2, <3>1, Periods DEF PaysInTime
    <3>2. CASE customer = <<>>
      BY <3>2, RecordingDue
    <3> QED BY <3>1, <3>2
  <2>4. Due = "nothing" \/ Due \in Calls
    BY <2>2, ChainFacts, DueNothing
  <2>5. charges > 0 => lost
    BY <1>3, <2>1, <2>3, RecordingDue DEF ChargeRecorded
  <2> QED BY <2>3, <2>4, <2>5 DEF Calls, Paying
<1>4. BidTypeOK /\ PaysInTime /\ ChargeRecorded /\ [Next]_vars => [Spared]_vars
  BY <1>3
<1> QED BY <1>1, <1>2, <1>4, BidTypesHold, PTL DEF Spec, SweepSparesPayers
=============================================================================
