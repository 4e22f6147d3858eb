------------------------------ MODULE StayDesk ------------------------------
(***************************************************************************)
(* The partner's check-in and check-out routes over the assignment         *)
(* authority.  A request is a chain of separate calls to the database:     *)
(* read the bid, read the protected evidence (verified_stay_evidence),     *)
(* read what the assignment gate needs, upsert the evidence, and PATCH     *)
(* bids.status as a "best-effort display side-effect".  Nothing ties the   *)
(* calls together, so other requests and every other writer of the bid run *)
(* between any two of them.                                                *)
(*                                                                         *)
(* The calendar is left out: a check-in outside the stay's nights and an   *)
(* unconfirmed early check-out end the request without a write, as Fail    *)
(* does.  So do the partner-authority and configuration refusals.          *)
(***************************************************************************)
EXTENDS StayUnits

CONSTANTS
  Requests,     \* check-in / check-out requests that can be in flight at once
  MaxFailures   \* bound on failed calls

\* The desk alone writes CHECKED_IN and CHECKED_OUT.
ASSUME StayDeskAssumption ==
  /\ MaxFailures \in Nat
  /\ Written \cap {"CHECKED_IN", "CHECKED_OUT"} = {}

VARIABLES
  proof,      \* proof_state of the bid's evidence row, "none" without a row
  request,    \* local state of every request
  failures    \* calls failed so far

deskVars == <<proof, request, failures>>
allVars  == <<vars, deskVars>>

ProofStates == {"none", "checked_in", "checked_out"}
Phases      == {"proof", "count", "lines", "gate", "mint", "patch"}

\* What a request has read so far: the bid row, then its assigned units.
Busy == [phase : Phases, op : {"in", "out"}, bid : Bids, row : BidRow, units : SUBSET Units]
NoRequest == [phase |-> "idle"]

DeskTypeOK ==
  /\ TypeOK
  /\ proof \in [Bids -> ProofStates]
  /\ request \in [Requests -> Busy \cup {NoRequest}]
  /\ failures \in 0..MaxFailures

DeskInit ==
  /\ Init
  /\ proof = [b \in Bids |-> "none"]
  /\ request = [r \in Requests |-> NoRequest]
  /\ failures = 0

-----------------------------------------------------------------------------
\* The request goes on with the given phase, or ends with a reply.
Proceed(r, phase) == request' = [request EXCEPT ![r].phase = phase]
Reply(r)          == request' = [request EXCEPT ![r] = NoRequest]

ReadBid(r, b, op) ==
  /\ request[r] = NoRequest
  /\ bids[b].status # "NONE"
  /\ request' = [request EXCEPT ![r] = [phase |-> "proof", op |-> op, bid |-> b,
                                        row |-> bids[b], units |-> {}]]
  /\ UNCHANGED <<vars, proof, failures>>

\* Faulty: a check-out looks at the evidence alone.
ReadProofOnly(r) ==
  LET q == request[r] IN
  /\ q.phase = "proof"
  /\ IF q.op = "in" /\ proof[q.bid] = "none" /\ q.row.status = "ACCEPTED"
       THEN Proceed(r, "count")
     ELSE IF q.op = "out" /\ proof[q.bid] # "checked_out"
       THEN Proceed(r, "mint")
     ELSE Reply(r)
  /\ UNCHANGED <<vars, proof, failures>>

\* Faulty: any evidence is answered as a replay.
ReadProofReplaysAll(r) ==
  LET q == request[r] IN
  /\ q.phase = "proof"
  /\ IF proof[q.bid] = "none" /\ q.op = "in" /\ q.row.status = "ACCEPTED"
       THEN Proceed(r, "count") ELSE Reply(r)
  /\ UNCHANGED <<vars, proof, failures>>

\* A replay (checked_in again, checked_out again) is answered without a write; a
\* check-in needs an ACCEPTED bid without evidence, a check-out a CHECKED_IN bid
\* with checked_in evidence.
ReadProof(r) ==
  LET q == request[r] IN
  /\ q.phase = "proof"
  /\ IF q.op = "in" /\ proof[q.bid] = "none" /\ q.row.status = "ACCEPTED"
       THEN Proceed(r, "count")
     ELSE IF q.op = "out" /\ proof[q.bid] = "checked_in" /\ q.row.status = "CHECKED_IN"
       THEN Proceed(r, "mint")
     ELSE Reply(r)
  /\ UNCHANGED <<vars, proof, failures>>

\* countActiveUnitsInCategory: quantity inventory skips the assignment gate.
CountUnits(r) ==
  /\ request[r].phase = "count"
  /\ IF \E u \in activeUnits : CategoryOf[u] = request[r].row.room
       THEN Proceed(r, "lines") ELSE Proceed(r, "mint")
  /\ UNCHANGED <<vars, proof, failures>>

\* readAssignmentState: the active lines, else the column of the row read earlier.
ReadLines(r) ==
  LET q    == request[r]
      held == UnitsOf(q.bid)
  IN
  /\ q.phase = "lines"
  /\ request' = [request EXCEPT ![r].phase = "gate",
                                ![r].units = IF held # {} THEN held ELSE {q.row.unit} \ {NULL}]
  /\ UNCHANGED <<vars, proof, failures>>

\* evaluateCheckInAssignment over freshly read unit rows.
Gate(r) ==
  LET q == request[r] IN
  /\ q.phase = "gate"
  /\ IF /\ Cardinality(q.units) = RoomsBooked[q.bid]
        /\ \A u \in q.units : UnitValid(u, q.row.room)
       THEN Proceed(r, "mint") ELSE Reply(r)
  /\ UNCHANGED <<vars, proof, failures>>

\* Faulty: a refused evidence write is swallowed like the others.
MintBestEffort(r) ==
  LET q == request[r] IN
  /\ q.phase = "mint"
  /\ \/ proof' = [proof EXCEPT ![q.bid] = IF q.op = "in" THEN "checked_in" ELSE "checked_out"]
     \/ UNCHANGED proof
  /\ Proceed(r, "patch")
  /\ UNCHANGED <<vars, failures>>

\* writeVerifiedStayEvidence: an unconditional merge-duplicates upsert.
Mint(r) ==
  LET q == request[r] IN
  /\ q.phase = "mint"
  /\ proof' = [proof EXCEPT ![q.bid] = IF q.op = "in" THEN "checked_in" ELSE "checked_out"]
  /\ Proceed(r, "patch")
  /\ UNCHANGED <<vars, failures>>

\* The trigger raises: the column names a unit that can no longer be taken.
Refused(b) ==
  LET u == bids[b].unit IN
  /\ u \in Units \ UnitsOf(b)
  /\ ~(Claimable(u, bids[b].room, b) /\ NotExcluded(u, StayOf[b], lines))

PatchBid(r) ==
  LET q == request[r] IN
  /\ q.phase = "patch"
  /\ \/ PatchStatus(q.bid, IF q.op = "in" THEN "CHECKED_IN" ELSE "CHECKED_OUT")
     \/ q.op = "in" /\ Refused(q.bid) /\ UNCHANGED vars
  /\ Reply(r)
  /\ UNCHANGED <<proof, failures>>

\* A read or write fails, or the server dies: the request ends and what it wrote stays.
\* A failed PATCH is swallowed.
Fail(r) ==
  /\ request[r] # NoRequest
  /\ failures < MaxFailures
  /\ failures' = failures + 1
  /\ Reply(r)
  /\ UNCHANGED <<vars, proof>>

Advance(r) == ReadProof(r) \/ CountUnits(r) \/ ReadLines(r) \/ Gate(r) \/ Mint(r) \/ PatchBid(r)

DeskNext ==
  \E r \in Requests :
    \/ \E b \in Bids : ReadBid(r, b, "in") \/ ReadBid(r, b, "out")
    \/ Advance(r)
    \/ Fail(r)

\* Every writer of the store beside the desk.
Others == AppNext /\ UNCHANGED deskVars

DeskSpec == DeskInit /\ [][DeskNext \/ Others]_allVars

\* Calls in flight are answered, and the partner asks again for every check-out.
Answered ==
  /\ \A r \in Requests : WF_allVars(Advance(r))
  /\ \A b \in Bids : SF_allVars(\E r \in Requests : ReadBid(r, b, "out"))

FairDesk == DeskSpec /\ Answered

\* Nobody touches a bid after it is placed and its rooms are assigned.
Quiet ==
  /\ \E b \in Bids :
       \/ \E s \in Written, room \in Rooms, u \in UnitColumn : PlaceBid(b, s, room, u)
       \/ \E target \in SUBSET Units : AssignUnits(b, target)
  /\ UNCHANGED deskVars

QuietDesk == DeskInit /\ [][DeskNext \/ Quiet]_allVars /\ Answered

-----------------------------------------------------------------------------
(* Properties *)

\* However requests interleave and fail, a bid is CHECKED_IN only with evidence.
CheckedInIsEvidenced ==
  \A b \in Bids : bids[b].status = "CHECKED_IN" => proof[b] # "none"

\* checked_out evidence, itself trusted, is never a way around the check-in gate: it
\* is minted over checked_in evidence only.
CheckedOutOverCheckedIn ==
  [][\A b \in Bids : proof'[b] = "checked_out" => proof[b] # "none"]_allVars

\* "an existing checked_out row is never downgraded back to checked_in".
\* The code does not keep this.
NeverDowngraded ==
  [][\A b \in Bids : proof[b] = "checked_out" => proof'[b] = "checked_out"]_allVars

\* A guest in house, by evidence and by status, is checked out by the partner who keeps
\* asking, unless another writer takes the booking out of CHECKED_IN.
InHouseGuestLeaves ==
  \A b \in Bids :
    (proof[b] = "checked_in" /\ bids[b].status = "CHECKED_IN")
      ~> (proof[b] = "checked_out" \/ bids[b].status # "CHECKED_IN")

\* A checked-in guest can leave: the partner who keeps asking gets the check-out.
\* The code does not keep this when the PATCH after the evidence is lost.
CheckedInGuestCanLeave ==
  \A b \in Bids : proof[b] = "checked_in" ~> proof[b] = "checked_out"
=============================================================================
