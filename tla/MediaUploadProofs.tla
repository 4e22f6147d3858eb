------------------------- MODULE MediaUploadProofs -------------------------
(***************************************************************************)
(* Proofs that an upload keeps its promises for any sessions, requests,    *)
(* janitors and workers, and any limits, lives and leases.                 *)
(***************************************************************************)
EXTENDS MediaUpload, TLAPS

-----------------------------------------------------------------------------
(* Types. *)

\* What a request in flight, and a worker at work, hold.
LEMMA RequestHolds ==
  ASSUME ActorTypes, NEW r \in Requests, req[r].at # "idle"
  PROVE  /\ req[r].s \in Sessions /\ req[r].saw \in Waiting
         /\ req[r].at = "cas" => req[r].token \in 0 .. Ttl
BY DEF ActorTypes, NoRequest

\* A worker at work holds a claim of one stage of one session.
LEMMA WorkHolds ==
  ASSUME ActorTypes, NEW w \in Workers, work[w].at # "idle"
  PROVE  work[w] \in [at : {"work", "wrote"}, s : Sessions, x : Stages, gen : 1 .. MaxClaims]
BY DEF ActorTypes, NoWork

\* Every status an action assigns is a status, and the numbers of the leases count.
LEMMA StatusesListed ==
  /\ {"none", "created", "upload_authorized", "quarantined", "ready", "rejected",
      "expired"} \subseteq Statuses
  /\ \A x \in Stages : StageName[x] \in Statuses
BY DEF Statuses

\* The lifetimes and bounds are at least one.
LEMMA Lives ==
  /\ Ttl \in Nat \ {0} /\ CleanupLease \in Nat \ {0}
  /\ MaxUploads \in Nat \ {0} /\ MaxClaims \in Nat \ {0}
  /\ \A x \in Stages : StageLease[x] \in Nat \ {0}
BY UploadAssumption

\* What a step leaves alone keeps its types.
LEMMA RowsKeep == ASSUME RowTypes, UNCHANGED rows PROVE RowTypes'
BY DEF RowTypes, rows

LEMMA StagesKeep == ASSUME StageTypes, UNCHANGED stages PROVE StageTypes'
BY DEF StageTypes, stages

LEMMA ObjectsKeep == ASSUME ObjectTypes, UNCHANGED <<storage, client>> PROVE ObjectTypes'
BY DEF ObjectTypes, storage, client

\* Requests of the upload-session route.
LEMMA RequestTypes ==
  ASSUME UploadTypeOK, NEW r \in Requests,
         \/ \E s \in Sessions : Reserve(r, s) \/ Resume(r, s)
         \/ Mint(r) \/ MintFails(r) \/ Authorize(r) \/ RequestDies(r)
  PROVE  UploadTypeOK'
<1> USE Lives, StatusesListed DEF UploadTypeOK
<1>1. ASSUME NEW s \in Sessions, Reserve(r, s) PROVE UploadTypeOK'
  <2>1. RowTypes'
    BY <1>1 DEF Reserve, RowTypes
  <2>2. StageTypes' /\ ObjectTypes'
    BY <1>1, StagesKeep, ObjectsKeep DEF Reserve
  <2>3. ActorTypes'
    BY <1>1 DEF Reserve, ActorTypes, Waiting
  <2> QED BY <2>1, <2>2, <2>3
<1>2. ASSUME NEW s \in Sessions, Resume(r, s) PROVE UploadTypeOK'
  <2>1. (RowTypes /\ StageTypes /\ ObjectTypes)'
    BY <1>2, RowsKeep, StagesKeep, ObjectsKeep DEF Resume
  <2>2. ActorTypes'
    BY <1>2 DEF Resume, ActorTypes
  <2> QED BY <2>1, <2>2
<1>3. CASE Mint(r)
  <2>1. (RowTypes /\ StageTypes /\ ObjectTypes)'
    BY <1>3, RowsKeep, StagesKeep, ObjectsKeep DEF Mint
  <2>2. ActorTypes'
    BY <1>3, RequestHolds DEF Mint, ActorTypes
  <2> QED BY <2>1, <2>2
<1>4. CASE MintFails(r)
  <2>1. RowTypes'
    BY <1>4, RequestHolds DEF MintFails, RowTypes
  <2>2. (StageTypes /\ ObjectTypes)'
    BY <1>4, StagesKeep, ObjectsKeep DEF MintFails
  <2>3. ActorTypes'
    BY <1>4 DEF MintFails, ActorTypes
  <2> QED BY <2>1, <2>2, <2>3
<1>5. CASE Authorize(r)
  <2>1. req[r].s \in Sessions /\ req[r].token \in 0 .. Ttl
    BY <1>5, RequestHolds DEF Authorize
  <2>2. (RowTypes /\ ObjectTypes)'
    <3>1. CASE status[req[r].s] = req[r].saw
      <4>1. RowTypes'
        BY <1>5, <2>1, <3>1 DEF Authorize, RowTypes
      <4>2. ObjectTypes'
        BY <1>5, <2>1, <3>1 DEF Authorize, ObjectTypes, storage
      <4> QED BY <4>1, <4>2
    <3>2. CASE status[req[r].s] # req[r].saw
      BY <1>5, <3>2 DEF Authorize, RowTypes, ObjectTypes, storage
    <3> QED BY <3>1, <3>2
  <2>3. StageTypes' /\ ActorTypes'
    BY <1>5 DEF Authorize, StageTypes, ActorTypes, stages
  <2> QED BY <2>2, <2>3
<1>6. CASE RequestDies(r)
  BY <1>6 DEF RequestDies, RowTypes, StageTypes, ObjectTypes, ActorTypes,
              rows, stages, storage, client
<1> QED BY <1>1, <1>2, <1>3, <1>4, <1>5, <1>6

\* The customer's upload and its report.
LEMMA CustomerTypes ==
  ASSUME UploadTypeOK, NEW s \in Sessions,
         BeginUpload(s) \/ EndUpload(s) \/ FindTarget(s) \/ Observe(s) \/ Confirm(s)
  PROVE  UploadTypeOK'
<1> USE Lives, StatusesListed DEF UploadTypeOK
<1>1. CASE BeginUpload(s)
  <2>1. ObjectTypes'
    BY <1>1 DEF BeginUpload, ObjectTypes, storage
  <2>2. (RowTypes /\ StageTypes /\ ActorTypes)'
    BY <1>1 DEF BeginUpload, RowTypes, StageTypes, ActorTypes, rows, stages, actors
  <2> QED BY <2>1, <2>2
<1>2. CASE EndUpload(s)
  <2>1. ObjectTypes'
    BY <1>2 DEF EndUpload, ObjectTypes
  <2>2. (RowTypes /\ StageTypes /\ ActorTypes)'
    BY <1>2 DEF EndUpload, RowTypes, StageTypes, ActorTypes, rows, stages, actors
  <2> QED BY <2>1, <2>2
<1>3. CASE FindTarget(s) \/ Observe(s)
  <2>1. ActorTypes'
    BY <1>3 DEF FindTarget, Observe, ActorTypes
  <2>2. (RowTypes /\ StageTypes /\ ObjectTypes)'
    BY <1>3 DEF FindTarget, Observe, RowTypes, StageTypes, ObjectTypes,
                rows, stages, storage, client
  <2> QED BY <2>1, <2>2
<1>4. CASE Confirm(s)
  <2>1. RowTypes' /\ ActorTypes'
    BY <1>4 DEF Confirm, RowTypes, ActorTypes
  <2>2. (StageTypes /\ ObjectTypes)'
    BY <1>4, StagesKeep, ObjectsKeep DEF Confirm
  <2> QED BY <2>1, <2>2
<1> QED BY <1>1, <1>2, <1>3, <1>4

\* The janitor's claim, deletion and completion.
LEMMA JanitorTypes ==
  ASSUME UploadTypeOK, NEW j \in Janitors,
         \/ ClaimCleanup(j) \/ CompleteCleanup(j) \/ JanitorDies(j)
         \/ \E s \in Sessions : Delete(j, s)
  PROVE  UploadTypeOK'
<1> USE Lives, StatusesListed DEF UploadTypeOK
<1>1. CASE ClaimCleanup(j)
  <2>1. RowTypes'
    <3>1. PICK batch \in SUBSET Sessions :
            /\ status' = [s \in Sessions |-> IF s \in batch THEN "expired" ELSE status[s]]
            /\ cleanup' = [s \in Sessions |-> IF s \in batch THEN CleanupLease ELSE cleanup[s]]
            /\ UNCHANGED <<left, deleted>>
      BY <1>1 DEF ClaimCleanup
    <3> QED BY <3>1 DEF RowTypes
  <2>2. (StageTypes /\ ObjectTypes)'
    BY <1>1, StagesKeep, ObjectsKeep DEF ClaimCleanup
  <2>3. ActorTypes'
    BY <1>1 DEF ClaimCleanup, ActorTypes
  <2> QED BY <2>1, <2>2, <2>3
<1>2. CASE CompleteCleanup(j)
  <2>1. PICK s \in job[j].acked :
          /\ \/ /\ deleted' = deleted \cup {s}
                /\ cleanup' = [cleanup EXCEPT ![s] = 0]
             \/ UNCHANGED <<deleted, cleanup>>
          /\ job' = [job EXCEPT ![j] = [todo |-> @.todo \ {s}, acked |-> {}]]
          /\ UNCHANGED <<status, left, stages, storage, client, req, report, work>>
    BY <1>2 DEF CompleteCleanup
  <2>2. s \in Sessions /\ job[j].todo \in SUBSET Sessions
    BY DEF ActorTypes
  <2>3. RowTypes'
    BY <2>1, <2>2 DEF RowTypes
  <2>4. (StageTypes /\ ObjectTypes)'
    BY <2>1, StagesKeep, ObjectsKeep
  <2>5. ActorTypes'
    BY <2>1, <2>2 DEF ActorTypes
  <2> QED BY <2>3, <2>4, <2>5
<1>3. CASE JanitorDies(j)
  <2>1. ActorTypes'
    BY <1>3 DEF JanitorDies, ActorTypes, NoJob
  <2>2. (RowTypes /\ StageTypes /\ ObjectTypes)'
    BY <1>3, RowsKeep, StagesKeep, ObjectsKeep DEF JanitorDies
  <2> QED BY <2>1, <2>2
<1>4. ASSUME NEW s \in Sessions, Delete(j, s) PROVE UploadTypeOK'
  <2>1. /\ \/ job' = [job EXCEPT ![j].acked = {s}]
           \/ job' = [job EXCEPT ![j].todo = @ \ {s}]
        /\ raw' \in {raw, raw \ {s}}
    BY <1>4 DEF Delete
  <2>2. job[j] \in [todo : SUBSET Sessions, acked : SUBSET Sessions]
    BY DEF ActorTypes
  <2>3. /\ [job[j] EXCEPT !.acked = {s}] \in [todo : SUBSET Sessions, acked : SUBSET Sessions]
        /\ [job[j] EXCEPT !.todo = @ \ {s}] \in [todo : SUBSET Sessions, acked : SUBSET Sessions]
    BY <2>2
  <2>4. ActorTypes'
    <3>1. /\ job' = [job EXCEPT ![j] = [job[j] EXCEPT !.acked = {s}]]
             \/ job' = [job EXCEPT ![j] = [job[j] EXCEPT !.todo = @ \ {s}]]
          /\ UNCHANGED <<req, report, work>>
      BY <1>4, <2>1 DEF Delete
    <3>2. job' \in [Janitors -> [todo : SUBSET Sessions, acked : SUBSET Sessions]]
      BY <2>3, <3>1 DEF ActorTypes
    <3> QED BY <3>1, <3>2 DEF ActorTypes
  <2>5. ObjectTypes'
    BY <1>4, <2>1 DEF Delete, ObjectTypes, client
  <2>6. (RowTypes /\ StageTypes)'
    BY <1>4, RowsKeep, StagesKeep DEF Delete
  <2> QED BY <2>4, <2>5, <2>6
<1> QED BY <1>1, <1>2, <1>3, <1>4

\* The workers of the stages.
LEMMA WorkerTypes ==
  ASSUME UploadTypeOK, NEW w \in Workers,
         \/ \E s \in Sessions, x \in Stages : ClaimStage(w, s, x)
         \/ WriteOutput(w) \/ WorkerStops(w)
         \/ \E v \in {"passed", "failed"} : CompleteStage(w, v)
  PROVE  UploadTypeOK'
<1> USE Lives, StatusesListed DEF UploadTypeOK
<1>1. ASSUME NEW s \in Sessions, NEW x \in Stages, ClaimStage(w, s, x) PROVE UploadTypeOK'
  <2>1. claims[s][x] + 1 \in 1 .. MaxClaims
    BY <1>1 DEF ClaimStage, StageTypes
  <2>2. RowTypes'
    BY <1>1 DEF ClaimStage, RowTypes
  <2>3. StageTypes'
    BY <1>1, <2>1 DEF ClaimStage, StageTypes
  <2>4. ObjectTypes'
    BY <1>1, ObjectsKeep DEF ClaimStage
  <2>5. ActorTypes'
    BY <1>1, <2>1 DEF ClaimStage, ActorTypes
  <2> QED BY <2>2, <2>3, <2>4, <2>5
<1>2. CASE WriteOutput(w)
  <2> DEFINE s == work[w].s  g == work[w].gen
  <2>1. s \in Sessions /\ work[w].x \in Stages /\ g \in 1 .. MaxClaims
        /\ work[w] \in [at : {"work", "wrote"}, s : Sessions, x : Stages, gen : 1 .. MaxClaims]
    BY <1>2, WorkHolds DEF WriteOutput
  <2>2. [work[w] EXCEPT !.at = "wrote"]
          \in [at : {"work", "wrote"}, s : Sessions, x : Stages, gen : 1 .. MaxClaims]
    BY <2>1
  <2>3. ActorTypes'
    BY <1>2, <2>2 DEF WriteOutput, ActorTypes
  <2>4. ObjectTypes'
    <3>1. output' = [output EXCEPT ![s][g] = g] /\ UNCHANGED <<raw, client>>
      BY <1>2 DEF WriteOutput, OutputKey
    <3>2. output \in [Sessions -> [1 .. MaxClaims -> 0 .. MaxClaims]]
      BY DEF ObjectTypes
    <3>4. g \in 0 .. MaxClaims
      BY <2>1
    <3>3. output' \in [Sessions -> [1 .. MaxClaims -> 0 .. MaxClaims]]
      BY <3>1, <3>2, <3>4, Zenon
    <3> QED BY <3>1, <3>3 DEF ObjectTypes, client
  <2>5. (RowTypes /\ StageTypes)'
    BY <1>2, RowsKeep, StagesKeep DEF WriteOutput
  <2> QED BY <2>3, <2>4, <2>5
<1>3. CASE WorkerStops(w)
  <2>1. ActorTypes'
    BY <1>3 DEF WorkerStops, ActorTypes
  <2>2. (RowTypes /\ StageTypes /\ ObjectTypes)'
    BY <1>3, RowsKeep, StagesKeep, ObjectsKeep DEF WorkerStops
  <2> QED BY <2>1, <2>2
<1>4. ASSUME NEW v \in {"passed", "failed"}, CompleteStage(w, v) PROVE UploadTypeOK'
  <2>1. work[w].s \in Sessions /\ work[w].x \in Stages /\ work[w].gen \in 1 .. MaxClaims
    BY <1>4, WorkHolds DEF CompleteStage
  <2>2. work[w].x # 3 => work[w].x + 1 \in Stages
    BY <2>1 DEF Stages
  <2>3. RowTypes'
    BY <1>4, <2>1, <2>2 DEF CompleteStage, RowTypes
  <2>4. StageTypes'
    BY <1>4, <2>1 DEF CompleteStage, StageTypes
  <2>5. ObjectTypes' /\ ActorTypes'
    BY <1>4 DEF CompleteStage, ObjectTypes, ActorTypes, storage, client
  <2> QED BY <2>3, <2>4, <2>5
<1> QED BY <1>1, <1>2, <1>3, <1>4

\* A tick of the clock.
LEMMA LessCounts ==
  ASSUME NEW n \in Nat
  PROVE  Less(n) \in Nat /\ Less(n) =< n /\ \A m \in Nat : n \in 0 .. m => Less(n) \in 0 .. m
BY DEF Less

\* The passing of time keeps the clocks in their bounds.
LEMMA TickTypes ==
  ASSUME UploadTypeOK, Tick
  PROVE  UploadTypeOK'
<1> USE Lives DEF UploadTypeOK
<1>1. RowTypes' /\ ObjectTypes'
  BY LessCounts DEF Tick, RowTypes, ObjectTypes, storage
<1>2. ASSUME NEW s \in Sessions, NEW x \in Stages
      PROVE  lease'[s][x] \in Nat /\ lease'[s][x] =< StageLease[x]
  <2>1. lease[s][x] \in Nat /\ lease[s][x] =< StageLease[x] /\ lease'[s][x] = Less(lease[s][x])
    BY DEF Tick, StageTypes
  <2> QED BY <2>1, LessCounts
<1>3. StageTypes'
  BY <1>2 DEF Tick, StageTypes
<1>4. ASSUME NEW r \in Requests, req[r].at = "cas"
      PROVE  [req[r] EXCEPT !.token = Less(@)]
               \in [at : {"cas"}, s : Sessions, saw : Waiting, token : 0 .. Ttl]
  <2>1. req[r] \in [at : {"cas"}, s : Sessions, saw : Waiting, token : 0 .. Ttl]
    BY <1>4 DEF ActorTypes, NoRequest
  <2> QED BY <2>1, LessCounts
<1>5. ActorTypes'
  BY <1>4 DEF Tick, ActorTypes
<1> QED BY <1>1, <1>3, <1>5

-----------------------------------------------------------------------------
(* Parts of the inductive invariants. *)

\* A janitor holds claims on expired sessions only, and nothing revives one.
JobsExpired == \A j \in Janitors, s \in Sessions :
    s \in job[j].todo \cup job[j].acked => status[s] = "expired"

\* What a report has observed stays there until a janitor has the session.
ObservedKept == \A s \in Sessions :
    report[s] = "observed" => s \in raw \/ status[s] = "expired"

\* The janitor and the acceptance never meet on a session.
KeepInv == JobsExpired /\ ObservedKept /\ AcceptedKeepsObject

\* No token outlives its session, and an expired session has no life left.
TokensWithin == \A s \in Sessions :
    token[s] =< left[s] /\ (status[s] = "expired" => left[s] = 0)

\* A session never doubled has its one object either under way or in place.
OneObject == \A s \in Sessions \ doubled :
    flying[s] =< 1 /\ (s \in raw => flying[s] = 0)

\* A deletion that storage acknowledged was of the last bytes of its session.
AckedGone == \A j \in Janitors : \A s \in job[j].acked \ doubled :
    s \notin raw /\ flying[s] = 0

\* A cleaned session is expired, which it stays.
DeletedExpired == \A s \in deleted : status[s] = "expired"

CleanInv == JobsExpired /\ TokensWithin /\ OneObject /\ AckedGone
            /\ DeletedExpired /\ CleanedStaysClean

\* The statuses of a session that no stage has taken up.
Early == Waiting \cup {"none", "quarantined", "expired"}

\* Stages are passed in the order of their numbers, and none that is not reached
\* has been claimed.
StagesInOrder == \A s \in Sessions, x \in Stages :
    /\ status[s] = StageName[x] =>
         /\ outcome[s][x] = "none"
         /\ \A y \in Stages : y < x => outcome[s][y] = "passed"
         /\ \A y \in Stages : y > x => outcome[s][y] = "none" /\ claims[s][y] = 0
    /\ status[s] \in Early => outcome[s][x] = "none" /\ claims[s][x] = 0

\* A worker that wrote finds its bytes under the key of its own generation.
WrittenUnderOwnKey == \A w \in Workers : work[w].at = "wrote" =>
    output[work[w].s][OutputKey(work[w].gen)] = work[w].gen

\* A ready session names a claim that was made.
ReadyNamesClaim == \A s \in Sessions : status[s] = "ready" => by[s][3] \in 1 .. MaxClaims

ServeInv == WrittenUnderOwnKey /\ ReadyNamesClaim /\ ReadyServesItsOwnBytes
-----------------------------------------------------------------------------
(* Steps: who writes what, and how a session's status and object may change. *)

\* The calls that write a status.
LEMMA StatusWriters ==
  ASSUME [Next]_vars
  PROVE  \/ UNCHANGED status
         \/ \E r \in Requests : MintFails(r) \/ Authorize(r) \/ \E s \in Sessions : Reserve(r, s)
         \/ \E s \in Sessions : Confirm(s)
         \/ \E j \in Janitors : ClaimCleanup(j)
         \/ \E w \in Workers : \/ \E s \in Sessions, x \in Stages : ClaimStage(w, s, x)
                               \/ \E v \in {"passed", "failed"} : CompleteStage(w, v)
BY ZenonT(60) DEF Next, vars, rows, Resume, Mint, RequestDies, BeginUpload, EndUpload, FindTarget, Observe,
       CompleteCleanup, JanitorDies, Delete, WriteOutput, WorkerStops, Tick

\* The statuses after acceptance, one by one.
LEMMA AcceptedListed ==
  Accepted = {"quarantined", "validating", "file_safety", "media_processing", "ready"}
BY Z3T(20) DEF Accepted, StageName, Stages

\* An expired session stays expired; one is accepted only by the confirmation of a
\* report that observed its object.
LEMMA StatusSteps ==
  ASSUME UploadTypeOK, [Next]_vars, NEW s \in Sessions
  PROVE  /\ status[s] = "expired" => status'[s] = "expired"
         /\ status'[s] \in Accepted /\ status[s] \notin Accepted => report[s] = "observed"
         /\ status[s] \in Accepted => status'[s] # "expired"
<1> DEFINE Goal == /\ status[s] = "expired" => status'[s] = "expired"
                   /\ status'[s] \in Accepted /\ status[s] \notin Accepted
                        => report[s] = "observed"
                   /\ status[s] \in Accepted => status'[s] # "expired"
<1> USE AcceptedListed DEF UploadTypeOK, RowTypes
<1> SUFFICES Goal OBVIOUS
<1>1. CASE UNCHANGED status
  BY <1>1
<1>2. ASSUME NEW r \in Requests, NEW q \in Sessions, Reserve(r, q) PROVE Goal
  BY <1>2 DEF Reserve
<1>3. ASSUME NEW r \in Requests, MintFails(r) PROVE Goal
  BY <1>3, RequestHolds DEF MintFails
<1>4. ASSUME NEW r \in Requests, Authorize(r) PROVE Goal
  BY <1>4, RequestHolds DEF Authorize, Waiting
<1>5. ASSUME NEW q \in Sessions, Confirm(q) PROVE Goal
  BY <1>5 DEF Confirm, Confirmable
<1>6. ASSUME NEW j \in Janitors, ClaimCleanup(j) PROVE Goal
  BY <1>6 DEF ClaimCleanup, Claimable, Waiting
<1>7. ASSUME NEW w \in Workers, NEW q \in Sessions, NEW x \in Stages, ClaimStage(w, q, x)
      PROVE  Goal
  BY <1>7 DEF ClaimStage, Open, StageName, Stages
<1>8. ASSUME NEW w \in Workers, NEW v \in {"passed", "failed"}, CompleteStage(w, v)
      PROVE  Goal
  BY <1>8, WorkHolds, SMTT(40) DEF CompleteStage, Fenced, StageName, Stages
<1> QED BY <1>1, <1>2, <1>3, <1>4, <1>5, <1>6, <1>7, <1>8, StatusWriters

\* An object is removed by a janitor that has its session, and arrives by an upload.
LEMMA ObjectSteps ==
  ASSUME UploadTypeOK, [Next]_vars, NEW s \in Sessions
  PROVE  /\ s \in raw /\ s \notin raw' => \E j \in Janitors : s \in job[j].todo
         /\ s \notin raw /\ s \in raw' => flying[s] > 0 /\ flying'[s] = flying[s] - 1
BY ZenonT(60)
   DEF Next, vars, storage, Reserve, Resume, Mint, MintFails, Authorize, RequestDies, BeginUpload,
       EndUpload, FindTarget, Observe, Confirm, ClaimCleanup, CompleteCleanup, JanitorDies, Delete,
       ClaimStage, WriteOutput, WorkerStops, CompleteStage, Tick, UploadTypeOK, ObjectTypes

\* A report observes an object that is there.
LEMMA ReportSteps ==
  ASSUME UploadTypeOK, [Next]_vars, NEW s \in Sessions
  PROVE  report'[s] = "observed" => report[s] = "observed" \/ s \in raw'
BY ZenonT(60)
   DEF Next, vars, actors, storage, Reserve, Resume, Mint, MintFails, Authorize, RequestDies, BeginUpload,
       EndUpload, FindTarget, Observe, Confirm, ClaimCleanup, CompleteCleanup, JanitorDies, Delete,
       ClaimStage, WriteOutput, WorkerStops, CompleteStage, Tick, UploadTypeOK, ActorTypes

\* A janitor takes on sessions that it has expired.
LEMMA JobSteps ==
  ASSUME UploadTypeOK, [Next]_vars, NEW j \in Janitors, NEW s \in Sessions,
         s \in job'[j].todo \cup job'[j].acked
  PROVE  s \in job[j].todo \cup job[j].acked \/ status'[s] = "expired"
<1> USE DEF UploadTypeOK, ActorTypes
<1>1. CASE UNCHANGED job
  BY <1>1
<1>2. ASSUME NEW i \in Janitors, ClaimCleanup(i)
      PROVE  s \in job[j].todo \cup job[j].acked \/ status'[s] = "expired"
  BY <1>2 DEF ClaimCleanup
<1>3. ASSUME NEW i \in Janitors, CompleteCleanup(i)
      PROVE  s \in job[j].todo \cup job[j].acked
  BY <1>3 DEF CompleteCleanup
<1>4. ASSUME NEW i \in Janitors, JanitorDies(i)
      PROVE  s \in job[j].todo \cup job[j].acked
  BY <1>4 DEF JanitorDies, NoJob
<1>5. ASSUME NEW i \in Janitors, NEW q \in Sessions, Delete(i, q)
      PROVE  s \in job[j].todo \cup job[j].acked
  BY <1>5, SMTT(40) DEF Delete
<1>6. \/ UNCHANGED job
      \/ \E i \in Janitors : \/ ClaimCleanup(i) \/ CompleteCleanup(i) \/ JanitorDies(i)
                             \/ \E q \in Sessions : Delete(i, q)
  BY ZenonT(60) DEF Next, vars, actors, Reserve, Resume, Mint, MintFails, Authorize, RequestDies,
         BeginUpload, EndUpload, FindTarget, Observe, Confirm, ClaimStage, WriteOutput,
         WorkerStops, CompleteStage, Tick
<1> QED BY <1>1, <1>2, <1>3, <1>4, <1>5, <1>6
-----------------------------------------------------------------------------
(* Types hold, and what is accepted keeps its object. *)

\* Every row, lease, object and actor holds a value its column or variable can hold.
THEOREM UploadTypesHold == Spec => []UploadTypeOK
<1>1. Init => UploadTypeOK
  BY Lives DEF Init, UploadTypeOK, RowTypes, StageTypes, ObjectTypes, ActorTypes, Statuses, NoJob
<1>2. ASSUME UploadTypeOK, [Next]_vars PROVE UploadTypeOK'
  <2>1. CASE UNCHANGED vars
    BY <1>2, <2>1 DEF vars, rows, stages, storage, client, actors,
                      UploadTypeOK, RowTypes, StageTypes, ObjectTypes, ActorTypes
  <2> QED BY <1>2, <2>1, RequestTypes, CustomerTypes, JanitorTypes, WorkerTypes, TickTypes DEF Next
<1> QED BY <1>1, <1>2, PTL DEF Spec

\* No step brings the janitor and the acceptance together on a session.
LEMMA KeepStep ==
  ASSUME UploadTypeOK, KeepInv, [Next]_vars
  PROVE  KeepInv'
<1> USE DEF KeepInv
<1>1. JobsExpired'
  BY JobSteps, StatusSteps DEF JobsExpired
<1>2. \A s \in Sessions : s \in raw => s \in raw' \/ status[s] = "expired"
  BY ObjectSteps DEF JobsExpired
<1>3. ObservedKept'
  BY <1>2, ReportSteps, StatusSteps DEF ObservedKept
<1>4. ASSUME NEW s \in Sessions, status'[s] \in Accepted PROVE s \in raw'
  <2>1. status[s] # "expired"
    BY <1>4, StatusSteps, AcceptedListed
  <2>2. s \in raw
    BY <1>4, <2>1, StatusSteps DEF ObservedKept, AcceptedKeepsObject
  <2> QED BY <1>2, <2>1, <2>2
<1> QED BY <1>1, <1>3, <1>4 DEF AcceptedKeepsObject

\* An accepted upload keeps its bytes, whatever janitors, however late, still hold: the
\* claim (P1G.1) expires what it takes, the confirmation (P1F.2) refuses the expired,
\* and a report confirms only what it has observed.
THEOREM AcceptedKept == Spec => []AcceptedKeepsObject
<1>1. Init => KeepInv
  BY AcceptedListed DEF Init, KeepInv, JobsExpired, ObservedKept, AcceptedKeepsObject, NoJob
<1>2. UploadTypeOK /\ KeepInv /\ [Next]_vars => KeepInv'
  BY KeepStep
<1>3. KeepInv => AcceptedKeepsObject
  BY DEF KeepInv
<1> QED BY <1>1, <1>2, <1>3, UploadTypesHold, PTL DEF Spec
-----------------------------------------------------------------------------
(* What the janitor cleaned stays clean. *)

\* A session expires only when its time has run out.
LEMMA ExpirySteps ==
  ASSUME UploadTypeOK, [Next]_vars, NEW s \in Sessions,
         status'[s] = "expired", status[s] # "expired"
  PROVE  left[s] = 0 /\ left'[s] = left[s] /\ token'[s] = token[s]
<1> DEFINE Goal == left[s] = 0 /\ left'[s] = left[s] /\ token'[s] = token[s]
<1> USE DEF UploadTypeOK, RowTypes
<1> SUFFICES Goal OBVIOUS
<1>1. CASE UNCHANGED status
  BY <1>1
<1>2. ASSUME NEW r \in Requests, NEW q \in Sessions, Reserve(r, q) PROVE Goal
  BY <1>2 DEF Reserve
<1>3. ASSUME NEW r \in Requests, MintFails(r) PROVE Goal
  BY <1>3, RequestHolds DEF MintFails
<1>4. ASSUME NEW r \in Requests, Authorize(r) PROVE Goal
  BY <1>4, RequestHolds DEF Authorize
<1>5. ASSUME NEW q \in Sessions, Confirm(q) PROVE Goal
  BY <1>5 DEF Confirm
<1>6. ASSUME NEW j \in Janitors, ClaimCleanup(j) PROVE Goal
  BY <1>6 DEF ClaimCleanup, Claimable, client
<1>7. ASSUME NEW w \in Workers, NEW q \in Sessions, NEW x \in Stages, ClaimStage(w, q, x)
      PROVE  Goal
  BY <1>7 DEF ClaimStage, StageName, Stages
<1>8. ASSUME NEW w \in Workers, NEW v \in {"passed", "failed"}, CompleteStage(w, v)
      PROVE  Goal
  BY <1>8, WorkHolds DEF CompleteStage, StageName, Stages
<1> QED BY <1>1, <1>2, <1>3, <1>4, <1>5, <1>6, <1>7, <1>8, StatusWriters

\* Time and the authorization keep every token within the life of its session.
LEMMA TokensStep ==
  ASSUME UploadTypeOK, TokensWithin, [Next]_vars
  PROVE  TokensWithin'
<1> USE Lives DEF UploadTypeOK, RowTypes, ObjectTypes, TokensWithin
<1> SUFFICES ASSUME NEW s \in Sessions
             PROVE  token'[s] =< left'[s] /\ (status'[s] = "expired" => left'[s] = 0)
  OBVIOUS
<1>1. token[s] \in 0 .. Ttl /\ left[s] \in 0 .. Ttl /\ token[s] =< left[s]
      /\ (status[s] = "expired" => left[s] = 0)
  OBVIOUS
<1>2. CASE UNCHANGED <<left, token>>
  BY <1>1, <1>2, ExpirySteps
<1>3. ASSUME NEW r \in Requests, NEW q \in Sessions, Reserve(r, q)
      PROVE  token'[s] =< left'[s] /\ (status'[s] = "expired" => left'[s] = 0)
  BY <1>1, <1>3 DEF Reserve, client
<1>4. ASSUME NEW r \in Requests, Authorize(r)
      PROVE  token'[s] =< left'[s] /\ (status'[s] = "expired" => left'[s] = 0)
  <2>1. req[r].s \in Sessions /\ req[r].token \in 0 .. Ttl
    BY <1>4, RequestHolds DEF Authorize
  <2>2. CASE s = req[r].s /\ status[s] = req[r].saw
    <3>1. left'[s] = Ttl /\ token'[s] \in {token[s], req[r].token}
          /\ status'[s] = "upload_authorized"
      BY <1>4, <2>1, <2>2, ZenonT(60) DEF Authorize
    <3> QED BY <1>1, <2>1, <3>1
  <2>3. CASE ~ (s = req[r].s /\ status[s] = req[r].saw)
    <3>1. left'[s] = left[s] /\ token'[s] = token[s] /\ status'[s] = status[s]
      BY <1>4, <2>1, <2>3 DEF Authorize
    <3> QED BY <1>1, <3>1
  <2> QED BY <2>2, <2>3
<1>5. CASE Tick
  BY <1>1, <1>5 DEF Tick, Less
<1>6. \/ UNCHANGED <<left, token>>
      \/ \E r \in Requests : Authorize(r) \/ \E q \in Sessions : Reserve(r, q)
      \/ Tick
  BY ZenonT(60) DEF Next, vars, rows, client, Resume, Mint, MintFails, RequestDies, BeginUpload, EndUpload,
         FindTarget, Observe, Confirm, ClaimCleanup, CompleteCleanup, JanitorDies, Delete,
         ClaimStage, WriteOutput, WorkerStops, CompleteStage
<1> QED BY <1>2, <1>3, <1>4, <1>5, <1>6

\* An upload begins with a live token and a free key, and ends by bringing the object
\* or nothing; a session that two uploads of met is marked for good.
LEMMA UploadSteps ==
  ASSUME UploadTypeOK, [Next]_vars, NEW s \in Sessions
  PROVE  /\ s \in doubled => s \in doubled'
         /\ \/ flying'[s] = flying[s] /\ (s \in raw' => s \in raw)
            \/ /\ flying'[s] = flying[s] + 1 /\ token[s] > 0 /\ s \notin raw
               /\ raw' = raw /\ (flying[s] > 0 => s \in doubled')
            \/ flying'[s] = flying[s] - 1 /\ flying[s] > 0
<1> DEFINE Goal ==
      /\ s \in doubled => s \in doubled'
      /\ \/ flying'[s] = flying[s] /\ (s \in raw' => s \in raw)
         \/ /\ flying'[s] = flying[s] + 1 /\ token[s] > 0 /\ s \notin raw
            /\ raw' = raw /\ (flying[s] > 0 => s \in doubled')
         \/ flying'[s] = flying[s] - 1 /\ flying[s] > 0
<1> USE DEF UploadTypeOK, ObjectTypes
<1> SUFFICES Goal OBVIOUS
<1>1. ASSUME NEW q \in Sessions, BeginUpload(q) PROVE Goal
  BY <1>1 DEF BeginUpload, storage
<1>2. ASSUME NEW q \in Sessions, EndUpload(q) PROVE Goal
  BY <1>2 DEF EndUpload
<1>3. CASE UNCHANGED <<flying, doubled>> /\ raw' \subseteq raw
  BY <1>3
<1>4. \/ UNCHANGED <<flying, doubled>> /\ raw' \subseteq raw
      \/ \E q \in Sessions : BeginUpload(q) \/ EndUpload(q)
  BY ZenonT(60) DEF Next, vars, client, storage, Reserve, Resume, Mint, MintFails, Authorize, RequestDies,
         FindTarget, Observe, Confirm, ClaimCleanup, CompleteCleanup, JanitorDies, Delete,
         ClaimStage, WriteOutput, WorkerStops, CompleteStage, Tick
<1> QED BY <1>1, <1>2, <1>3, <1>4

\* A session that is not doubled keeps its one object, under way or in place.
LEMMA OneObjectStep ==
  ASSUME UploadTypeOK, OneObject, [Next]_vars
  PROVE  OneObject'
<1> SUFFICES ASSUME NEW s \in Sessions, s \notin doubled'
             PROVE  flying'[s] =< 1 /\ (s \in raw' => flying'[s] = 0)
  BY DEF OneObject
<1>1. flying[s] \in 0 .. MaxUploads
  BY DEF UploadTypeOK, ObjectTypes
<1>2. s \notin doubled
  BY UploadSteps
<1>3. flying[s] =< 1 /\ (s \in raw => flying[s] = 0)
  BY <1>2 DEF OneObject
<1> QED BY Lives, <1>1, <1>3, UploadSteps

\* Where nothing is under way and no token lives, nothing comes.
LEMMA StaysGone ==
  ASSUME UploadTypeOK, [Next]_vars, NEW s \in Sessions,
         token[s] = 0, flying[s] = 0, s \notin raw
  PROVE  s \notin raw' /\ flying'[s] = 0
BY UploadSteps

\* An acknowledged session is one whose object has just been removed.
LEMMA AckSteps ==
  ASSUME UploadTypeOK, [Next]_vars, NEW j \in Janitors, NEW s \in Sessions,
         s \in job'[j].acked
  PROVE  \/ s \in job[j].acked
         \/ s \in job[j].todo /\ s \in raw /\ s \notin raw' /\ UNCHANGED <<flying, doubled>>
<1> DEFINE Goal == \/ s \in job[j].acked
                   \/ s \in job[j].todo /\ s \in raw /\ s \notin raw' /\ UNCHANGED <<flying, doubled>>
<1> USE DEF UploadTypeOK, ActorTypes
<1> SUFFICES Goal OBVIOUS
<1>1. CASE UNCHANGED job
  BY <1>1
<1>2. ASSUME NEW i \in Janitors, ClaimCleanup(i) PROVE Goal
  BY <1>2 DEF ClaimCleanup
<1>3. ASSUME NEW i \in Janitors, CompleteCleanup(i) PROVE Goal
  BY <1>3 DEF CompleteCleanup
<1>4. ASSUME NEW i \in Janitors, JanitorDies(i) PROVE Goal
  BY <1>4 DEF JanitorDies, NoJob
<1>5. ASSUME NEW i \in Janitors, NEW q \in Sessions, Delete(i, q) PROVE Goal
  <2>1. job[i] \in [todo : SUBSET Sessions, acked : SUBSET Sessions]
    OBVIOUS
  <2>2. CASE job' = [job EXCEPT ![i].acked = {q}] /\ q \in raw /\ raw' = raw \ {q}
    <3>1. CASE i = j
      BY <1>5, <2>1, <2>2, <3>1 DEF Delete, client
    <3>2. CASE i # j
      BY <1>5, <2>1, <2>2, <3>2
    <3> QED BY <3>1, <3>2
  <2>3. CASE job' = [job EXCEPT ![i].todo = @ \ {q}]
    BY <1>5, <2>1, <2>3
  <2> QED BY <1>5, <2>2, <2>3 DEF Delete, Acknowledged
<1>6. \/ UNCHANGED job
      \/ \E i \in Janitors : \/ ClaimCleanup(i) \/ CompleteCleanup(i) \/ JanitorDies(i)
                             \/ \E q \in Sessions : Delete(i, q)
  BY ZenonT(60) DEF Next, vars, actors, Reserve, Resume, Mint, MintFails, Authorize, RequestDies,
         BeginUpload, EndUpload, FindTarget, Observe, Confirm, ClaimStage, WriteOutput,
         WorkerStops, CompleteStage, Tick
<1> QED BY <1>1, <1>2, <1>3, <1>4, <1>5, <1>6

\* A session is marked as cleaned by a janitor whose deletion was acknowledged.
LEMMA MarkSteps ==
  ASSUME [Next]_vars, NEW s, s \in deleted'
  PROVE  s \in deleted \/ \E j \in Janitors : s \in job[j].acked
BY ZenonT(60) DEF Next, vars, rows, Reserve, Resume, Mint, MintFails, Authorize, RequestDies, BeginUpload,
       EndUpload, FindTarget, Observe, Confirm, ClaimCleanup, CompleteCleanup, JanitorDies, Delete,
       ClaimStage, WriteOutput, WorkerStops, CompleteStage, Tick

\* A cleaned session has no object and no upload under way, and gets none.
LEMMA CleanStep ==
  ASSUME UploadTypeOK, UploadTypeOK', CleanInv, [Next]_vars
  PROVE  CleanInv'
<1> USE DEF CleanInv
<1>1. JobsExpired'
  BY JobSteps, StatusSteps DEF JobsExpired
<1>2. TokensWithin' /\ OneObject'
  BY TokensStep, OneObjectStep
<1>3. ASSUME NEW s \in Sessions, status[s] = "expired" PROVE token[s] = 0
  BY <1>3 DEF TokensWithin, UploadTypeOK, RowTypes, ObjectTypes
<1>4. ASSUME NEW s \in Sessions, status'[s] = "expired" PROVE token'[s] = 0
  BY <1>2, <1>4 DEF TokensWithin, UploadTypeOK, RowTypes, ObjectTypes
<1>5. AckedGone'
  <2> SUFFICES ASSUME NEW j \in Janitors, NEW s \in job'[j].acked, s \notin doubled'
               PROVE  s \notin raw' /\ flying'[s] = 0
    BY DEF AckedGone
  <2>1. s \in Sessions
    BY DEF UploadTypeOK, ActorTypes
  <2>2. s \notin doubled
    BY <2>1, UploadSteps
  <2>3. CASE s \in job[j].acked
    <3>1. s \notin raw /\ flying[s] = 0
      BY <2>2, <2>3 DEF AckedGone
    <3>2. token[s] = 0
      BY <1>3, <2>1, <2>3 DEF JobsExpired
    <3> QED BY <2>1, <3>1, <3>2, StaysGone
  <2>4. CASE s \in raw /\ s \notin raw' /\ UNCHANGED <<flying, doubled>>
    BY <2>1, <2>2, <2>4 DEF OneObject
  <2> QED BY <2>1, <2>3, <2>4, AckSteps
<1>6. ASSUME NEW s \in deleted'
      PROVE  /\ s \in Sessions /\ status'[s] = "expired" /\ token'[s] = 0
             /\ s \notin doubled' => s \notin raw' /\ flying'[s] = 0
  <2>1. s \in Sessions
    BY DEF UploadTypeOK, RowTypes
  <2>2. /\ status[s] = "expired"
        /\ s \notin doubled => s \notin raw /\ flying[s] = 0
    BY <2>1, MarkSteps DEF DeletedExpired, JobsExpired, CleanedStaysClean, AckedGone
  <2>3. status'[s] = "expired"
    BY <2>1, <2>2, StatusSteps
  <2>4. s \notin doubled' => s \notin raw' /\ flying'[s] = 0
    BY <1>3, <2>1, <2>2, UploadSteps, StaysGone
  <2> QED BY <1>4, <2>1, <2>3, <2>4
<1> QED BY <1>1, <1>2, <1>5, <1>6 DEF DeletedExpired, CleanedStaysClean

\* A session marked as cleaned is empty and stays so, except for the second of two
\* uploads that met: its token died with the session, and the janitor's mark
\* (P1G.3) follows an acknowledged removal of the one object there could be.
THEOREM CleanedIsClean == Spec => []CleanedStaysClean
<1>1. Init => CleanInv
  BY DEF Init, CleanInv, JobsExpired, TokensWithin, OneObject, AckedGone, DeletedExpired,
         CleanedStaysClean, NoJob
<1>2. UploadTypeOK /\ UploadTypeOK' /\ CleanInv /\ [Next]_vars => CleanInv'
  BY CleanStep
<1>3. CleanInv => CleanedStaysClean
  BY DEF CleanInv
<1> QED BY <1>1, <1>2, <1>3, UploadTypesHold, PTL DEF Spec
-----------------------------------------------------------------------------
(* The stages: their order, the bytes served, and the refinement. *)

\* The names of the stages are different, and differ from the statuses before them.
LEMMA StageNames ==
  /\ \A x, y \in Stages : StageName[x] = StageName[y] => x = y
  /\ \A x \in Stages : StageName[x] \notin Early \cup {"ready", "rejected"}
BY Z3T(20) DEF StageName, Stages, Early, Waiting

\* Only a claim and a completion touch a stage; the other calls move a session among
\* the early statuses, or reject it.
LEMMA EarlySteps ==
  ASSUME UploadTypeOK, [Next]_vars, NEW s \in Sessions
  PROVE  \/ \E w \in Workers : \/ \E q \in Sessions, x \in Stages : ClaimStage(w, q, x)
                               \/ \E v \in {"passed", "failed"} : CompleteStage(w, v)
         \/ /\ UNCHANGED <<claims, outcome, by>>
            /\ \/ status'[s] = status[s] \/ status'[s] = "rejected"
               \/ status[s] \in Early /\ status'[s] \in Early
<1> DEFINE Moves == \/ status'[s] = status[s] \/ status'[s] = "rejected"
                    \/ status[s] \in Early /\ status'[s] \in Early
<1> USE DEF UploadTypeOK, RowTypes
<1>1. ASSUME NEW r \in Requests, NEW q \in Sessions, Reserve(r, q)
      PROVE  Moves /\ UNCHANGED stages
  BY <1>1 DEF Reserve, Early, Waiting
<1>2. ASSUME NEW r \in Requests, MintFails(r) PROVE Moves /\ UNCHANGED stages
  BY <1>2, RequestHolds DEF MintFails
<1>3. ASSUME NEW r \in Requests, Authorize(r) PROVE Moves /\ UNCHANGED stages
  BY <1>3, RequestHolds DEF Authorize, Early, Waiting
<1>4. ASSUME NEW q \in Sessions, Confirm(q) PROVE Moves /\ UNCHANGED stages
  BY <1>4 DEF Confirm, Confirmable, Early, Waiting
<1>5. ASSUME NEW j \in Janitors, ClaimCleanup(j) PROVE Moves /\ UNCHANGED stages
  BY <1>5 DEF ClaimCleanup, Claimable, Early, Waiting
<1>6. CASE UNCHANGED status
  <2>1. \/ UNCHANGED <<claims, outcome, by>>
        \/ \E w \in Workers : \/ \E q \in Sessions, x \in Stages : ClaimStage(w, q, x)
                              \/ \E v \in {"passed", "failed"} : CompleteStage(w, v)
    BY ZenonT(60) DEF Next, vars, stages, Reserve, Resume, Mint, MintFails, Authorize, RequestDies,
           BeginUpload, EndUpload, FindTarget, Observe, Confirm, ClaimCleanup, CompleteCleanup,
           JanitorDies, Delete, WriteOutput, WorkerStops, Tick
  <2> QED BY <1>6, <2>1
<1> QED BY <1>1, <1>2, <1>3, <1>4, <1>5, <1>6, StatusWriters DEF stages

\* A claim moves its session to its stage, and touches no other.
LEMMA ClaimInOrder ==
  ASSUME UploadTypeOK, StagesInOrder,
         NEW w \in Workers, NEW q \in Sessions, NEW z \in Stages, ClaimStage(w, q, z)
  PROVE  StagesInOrder'
<1>1. /\ status' = [status EXCEPT ![q] = StageName[z]]
      /\ claims' = [claims EXCEPT ![q][z] = @ + 1]
      /\ UNCHANGED outcome
  BY DEF ClaimStage
<1>2. \/ z = 1 /\ status[q] = "quarantined"
      \/ status[q] = StageName[z]
  BY DEF ClaimStage, Open
<1>3. status \in [Sessions -> Statuses] /\ claims \in [Sessions -> [Stages -> 0 .. MaxClaims]]
  BY DEF UploadTypeOK, RowTypes, StageTypes
<1>4. ASSUME NEW y \in Stages
      PROVE  /\ y < z => outcome[q][y] = "passed"
             /\ y = z => outcome[q][y] = "none"
             /\ y > z => outcome[q][y] = "none" /\ claims[q][y] = 0
  <2>1. CASE status[q] = StageName[z]
    BY <2>1 DEF StagesInOrder
  <2>2. CASE z = 1 /\ status[q] = "quarantined"
    BY <2>2 DEF StagesInOrder, Early, Stages
  <2> QED BY <1>2, <2>1, <2>2
<1> SUFFICES ASSUME NEW s \in Sessions, NEW x \in Stages
             PROVE  /\ status'[s] = StageName[x] =>
                         /\ outcome[s][x] = "none"
                         /\ \A y \in Stages : y < x => outcome[s][y] = "passed"
                         /\ \A y \in Stages : y > x => outcome[s][y] = "none" /\ claims'[s][y] = 0
                    /\ status'[s] \in Early => outcome[s][x] = "none" /\ claims'[s][x] = 0
  BY <1>1 DEF StagesInOrder
<1>5. CASE s # q
  BY <1>1, <1>3, <1>5 DEF StagesInOrder
<1>6. CASE s = q
  <2>1. status'[s] = StageName[z]
    BY <1>1, <1>3, <1>6
  <2>2. \A y \in Stages : y # z => claims'[s][y] = claims[s][y]
    BY <1>1, <1>3, <1>6
  <2>3. \A y \in Stages : y > z => y # z
    BY DEF Stages
  <2>4. status'[s] \notin Early
    BY <2>1, StageNames
  <2>5. status'[s] = StageName[x] => x = z
    BY <2>1, StageNames
  <2>6. \A y \in Stages : y > z => outcome[q][y] = "none" /\ claims'[q][y] = 0
    BY <1>4, <1>6, <2>2, <2>3
  <2> QED BY <1>4, <1>6, <2>4, <2>5, <2>6
<1> QED BY <1>5, <1>6

\* A completion passes its session on to the next stage, or ends it.
LEMMA CompleteInOrder ==
  ASSUME UploadTypeOK, StagesInOrder,
         NEW w \in Workers, NEW v \in {"passed", "failed"}, CompleteStage(w, v)
  PROVE  StagesInOrder'
<1> DEFINE q == work[w].s  z == work[w].x
<1>1. q \in Sessions /\ z \in Stages
  BY WorkHolds DEF UploadTypeOK, CompleteStage
<1>2. /\ status' = [status EXCEPT ![q] = IF v = "failed" THEN "rejected"
                                         ELSE IF z = 3 THEN "ready" ELSE StageName[z + 1]]
      /\ outcome' = [outcome EXCEPT ![q][z] = v]
      /\ UNCHANGED claims
  BY DEF CompleteStage
<1>3. status[q] = StageName[z]
  BY DEF CompleteStage, Fenced
<1>4. /\ status \in [Sessions -> Statuses]
      /\ outcome \in [Sessions -> [Stages -> {"none", "passed", "failed"}]]
  BY DEF UploadTypeOK, RowTypes, StageTypes
<1> SUFFICES ASSUME NEW s \in Sessions, NEW x \in Stages
             PROVE  /\ status'[s] = StageName[x] =>
                         /\ outcome'[s][x] = "none"
                         /\ \A y \in Stages : y < x => outcome'[s][y] = "passed"
                         /\ \A y \in Stages : y > x => outcome'[s][y] = "none" /\ claims[s][y] = 0
                    /\ status'[s] \in Early => outcome'[s][x] = "none" /\ claims[s][x] = 0
  BY <1>2 DEF StagesInOrder
<1>5. CASE s # q
  BY <1>2, <1>4, <1>5 DEF StagesInOrder
<1>6. CASE s = q /\ (v = "failed" \/ z = 3)
  <2>1. status'[s] \in {"rejected", "ready"}
    BY <1>1, <1>2, <1>4, <1>6
  <2> QED BY <2>1, StageNames DEF Early, Waiting
<1>7. CASE s = q /\ v = "passed" /\ z # 3
  <2>1. z + 1 \in Stages /\ z \in Int
    BY <1>1, <1>7 DEF Stages
  <2>2. status'[s] = StageName[z + 1]
    BY <1>1, <1>2, <1>4, <1>7
  <2>3. \A y \in Stages : outcome'[s][y] = IF y = z THEN "passed" ELSE outcome[s][y]
    BY <1>1, <1>2, <1>4, <1>7
  <2>4. /\ \A y \in Stages : y < z => outcome[s][y] = "passed"
        /\ \A y \in Stages : y > z => outcome[s][y] = "none" /\ claims[s][y] = 0
    BY <1>1, <1>3, <1>7 DEF StagesInOrder
  <2>5. \A y \in Stages : y < z + 1 => outcome'[s][y] = "passed"
    BY <2>1, <2>3, <2>4 DEF Stages
  <2>6. \A y \in Stages : y > z => outcome'[s][y] = "none" /\ claims[s][y] = 0
    BY <2>1, <2>3, <2>4 DEF Stages
  <2>7. \A y \in Stages : y >= z + 1 => y > z
    BY <2>1 DEF Stages
  <2> QED BY <2>1, <2>2, <2>5, <2>6, <2>7, StageNames DEF Stages
<1> QED BY <1>5, <1>6, <1>7

\* No stage is decided before the stages ahead of it have passed.
LEMMA OrderStep ==
  ASSUME UploadTypeOK, StagesInOrder, [Next]_vars
  PROVE  StagesInOrder'
<1>1. CASE \E w \in Workers : \/ \E q \in Sessions, x \in Stages : ClaimStage(w, q, x)
                              \/ \E v \in {"passed", "failed"} : CompleteStage(w, v)
  BY <1>1, ClaimInOrder, CompleteInOrder
<1>2. CASE ~ \E w \in Workers : \/ \E q \in Sessions, x \in Stages : ClaimStage(w, q, x)
                                \/ \E v \in {"passed", "failed"} : CompleteStage(w, v)
  <2>1. ASSUME NEW s \in Sessions
        PROVE  /\ UNCHANGED <<claims, outcome>>
               /\ \/ status'[s] = status[s] \/ status'[s] = "rejected"
                  \/ status[s] \in Early /\ status'[s] \in Early
    BY <1>2, EarlySteps
  <2>2. "rejected" \notin Early
    BY DEF Early, Waiting
  <2> QED BY <2>1, <2>2, StageNames DEF StagesInOrder
<1> QED BY <1>1, <1>2
\* What is written under a generation's key stays what that generation wrote.
LEMMA OutputSteps ==
  ASSUME UploadTypeOK, [Next]_vars, NEW s \in Sessions, NEW g \in 1 .. MaxClaims,
         output[s][OutputKey(g)] = g
  PROVE  output'[s][OutputKey(g)] = g
<1>1. ASSUME NEW w \in Workers, WriteOutput(w) PROVE output'[s][OutputKey(g)] = g
  <2>1. work[w].s \in Sessions /\ work[w].gen \in 1 .. MaxClaims
    BY <1>1, WorkHolds DEF WriteOutput, UploadTypeOK
  <2>2. output' = [output EXCEPT ![work[w].s][work[w].gen] = work[w].gen]
    BY <1>1 DEF WriteOutput, OutputKey
  <2> QED BY <2>1, <2>2, SMTT(40) DEF OutputKey, UploadTypeOK, ObjectTypes
<1>2. UNCHANGED output \/ \E w \in Workers : WriteOutput(w)
  BY ZenonT(60)
   DEF Next, vars, storage, Reserve, Resume, Mint, MintFails, Authorize, RequestDies,
         BeginUpload, EndUpload, FindTarget, Observe, Confirm, ClaimCleanup, CompleteCleanup,
         JanitorDies, Delete, ClaimStage, WorkerStops, CompleteStage, Tick
<1> QED BY <1>1, <1>2

\* A worker that wrote did so under its own key, for the claim it holds.
LEMMA WrittenStep ==
  ASSUME UploadTypeOK, UploadTypeOK', WrittenUnderOwnKey, [Next]_vars
  PROVE  WrittenUnderOwnKey'
<1> SUFFICES ASSUME NEW w \in Workers, work'[w].at = "wrote"
             PROVE  output'[work'[w].s][OutputKey(work'[w].gen)] = work'[w].gen
  BY DEF WrittenUnderOwnKey
<1>1. work'[w].s \in Sessions /\ work'[w].gen \in 1 .. MaxClaims
  BY DEF UploadTypeOK, ActorTypes, NoWork
<1>2. CASE work'[w] = work[w]
  BY <1>1, <1>2, OutputSteps DEF WrittenUnderOwnKey
<1>3. CASE WriteOutput(w)
  <2>1. work[w] \in [at : {"work", "wrote"}, s : Sessions, x : Stages, gen : 1 .. MaxClaims]
    BY <1>3, WorkHolds DEF WriteOutput, UploadTypeOK
  <2>2. work'[w] = [work[w] EXCEPT !.at = "wrote"]
    BY <1>3 DEF WriteOutput, UploadTypeOK, ActorTypes
  <2>3. work'[w].s = work[w].s /\ work'[w].gen = work[w].gen
    BY <2>1, <2>2
  <2> QED BY <1>3, <2>1, <2>3 DEF WriteOutput, OutputKey, UploadTypeOK, ObjectTypes
<1>4. CASE work'[w].at \in {"work", "idle"}
  BY <1>4
<1>5. work'[w] = work[w] \/ work'[w].at \in {"work", "idle"} \/ WriteOutput(w)
  <2> USE DEF UploadTypeOK, ActorTypes, NoWork
  <2>1. CASE UNCHANGED work
    BY <2>1
  <2>2. ASSUME NEW u \in Workers, NEW q \in Sessions, NEW x \in Stages, ClaimStage(u, q, x)
        PROVE  work'[w] = work[w] \/ work'[w].at \in {"work", "idle"}
    BY <2>2 DEF ClaimStage
  <2>3. ASSUME NEW u \in Workers, WriteOutput(u) PROVE work'[w] = work[w] \/ WriteOutput(w)
    BY <2>3 DEF WriteOutput
  <2>4. ASSUME NEW u \in Workers, WorkerStops(u) \/ \E v \in {"passed", "failed"} : CompleteStage(u, v)
        PROVE  work'[w] = work[w] \/ work'[w].at \in {"work", "idle"}
    BY <2>4 DEF WorkerStops, CompleteStage
  <2>5. \/ UNCHANGED work
        \/ \E u \in Workers : \/ \E q \in Sessions, x \in Stages : ClaimStage(u, q, x)
                              \/ WriteOutput(u) \/ WorkerStops(u)
                              \/ \E v \in {"passed", "failed"} : CompleteStage(u, v)
    BY ZenonT(60) DEF Next, vars, actors, Reserve, Resume, Mint, MintFails, Authorize, RequestDies,
           BeginUpload, EndUpload, FindTarget, Observe, Confirm, ClaimCleanup,
           CompleteCleanup, JanitorDies, Delete, Tick
  <2> QED BY <2>1, <2>2, <2>3, <2>4, <2>5
<1> QED BY <1>2, <1>3, <1>4, <1>5

\* A session becomes ready by a worker that has written, and names its claim.
LEMMA ReadySteps ==
  ASSUME UploadTypeOK, [Next]_vars, NEW s \in Sessions, status'[s] = "ready"
  PROVE  \/ status[s] = "ready" /\ by'[s][3] = by[s][3]
         \/ \E w \in Workers : /\ work[w].at = "wrote" /\ work[w].s = s
                               /\ by'[s][3] = work[w].gen /\ UNCHANGED output
<1> DEFINE Goal == \/ status[s] = "ready" /\ by'[s][3] = by[s][3]
                   \/ \E w \in Workers : /\ work[w].at = "wrote" /\ work[w].s = s
                                         /\ by'[s][3] = work[w].gen /\ UNCHANGED output
<1> SUFFICES Goal OBVIOUS
<1>1. status \in [Sessions -> Statuses] /\ by \in [Sessions -> [Stages -> 0 .. MaxClaims]]
  BY DEF UploadTypeOK, RowTypes, StageTypes
<1>2. ASSUME NEW w \in Workers, NEW q \in Sessions, NEW x \in Stages, ClaimStage(w, q, x)
      PROVE  Goal
  BY <1>1, <1>2, StageNames DEF ClaimStage
<1>3. ASSUME NEW w \in Workers, NEW v \in {"passed", "failed"}, CompleteStage(w, v)
      PROVE  Goal
  <2> DEFINE q == work[w].s  x == work[w].x
  <2>1. q \in Sessions /\ x \in Stages /\ work[w].at \in {"work", "wrote"}
    BY <1>3, WorkHolds DEF CompleteStage, UploadTypeOK
  <2>2. x # 3 => x + 1 \in Stages
    BY <2>1 DEF Stages
  <2>3. /\ status' = [status EXCEPT ![q] = IF v = "failed" THEN "rejected"
                                           ELSE IF x = 3 THEN "ready" ELSE StageName[x + 1]]
        /\ by' = [by EXCEPT ![q][x] = work[w].gen]
        /\ UNCHANGED output
        /\ v = "passed" /\ x = 3 => work[w].at = "wrote"
    BY <1>3 DEF CompleteStage, storage
  <2>4. CASE s # q
    BY <1>1, <2>3, <2>4
  <2>5. CASE s = q
    <3>1. v = "passed" /\ x = 3
      BY <1>1, <2>1, <2>2, <2>3, <2>5, StageNames
    <3>2. by'[s][3] = work[w].gen
      BY <1>1, <2>1, <2>3, <2>5, <3>1
    <3> QED BY <2>3, <2>5, <3>1, <3>2
  <2> QED BY <2>4, <2>5
<1>4. CASE /\ UNCHANGED <<claims, outcome, by>>
           /\ \/ status'[s] = status[s] \/ status'[s] = "rejected"
              \/ status[s] \in Early /\ status'[s] \in Early
  BY <1>4 DEF Early, Waiting
<1> QED BY <1>2, <1>3, <1>4, EarlySteps

\* A ready session serves the bytes that the claim it names has written.
LEMMA ServeStep ==
  ASSUME UploadTypeOK, UploadTypeOK', ServeInv, [Next]_vars
  PROVE  ServeInv'
<1> USE DEF ServeInv
<1>1. WrittenUnderOwnKey'
  BY WrittenStep
<1>2. ASSUME NEW s \in Sessions, status'[s] = "ready"
      PROVE  by'[s][3] \in 1 .. MaxClaims /\ output'[s][OutputKey(by'[s][3])] = by'[s][3]
  <2>1. CASE status[s] = "ready" /\ by'[s][3] = by[s][3]
    BY <2>1, OutputSteps DEF ReadyNamesClaim, ReadyServesItsOwnBytes
  <2>2. ASSUME NEW w \in Workers, work[w].at = "wrote", work[w].s = s,
               by'[s][3] = work[w].gen, UNCHANGED output
        PROVE  by'[s][3] \in 1 .. MaxClaims /\ output'[s][OutputKey(by'[s][3])] = by'[s][3]
    BY <2>2, WorkHolds DEF WrittenUnderOwnKey, UploadTypeOK
  <2> QED BY <1>2, <2>1, <2>2, ReadySteps
<1> QED BY <1>1, <1>2 DEF ReadyNamesClaim, ReadyServesItsOwnBytes

\* What a ready session serves was written by the claim that completed it: the key of
\* the processed bucket names the claim, so that a worker whose lease ran out writes
\* beside it (P1J.3).
THEOREM ReadyServed == Spec => []ReadyServesItsOwnBytes
<1>1. Init => ServeInv
  BY DEF Init, ServeInv, WrittenUnderOwnKey, ReadyNamesClaim, ReadyServesItsOwnBytes, NoWork
<1>2. UploadTypeOK /\ UploadTypeOK' /\ ServeInv /\ [Next]_vars => ServeInv'
  BY ServeStep
<1>3. ServeInv => ReadyServesItsOwnBytes
  BY DEF ServeInv
<1> QED BY <1>1, <1>2, <1>3, UploadTypesHold, PTL DEF Spec

\* Every step is a claim, a decision or a stutter of the pipeline.
LEMMA PipelineStep ==
  ASSUME UploadTypeOK, StagesInOrder, [Next]_vars
  PROVE  [Pipeline!Next]_(Pipeline!pipe)
<1>1. ASSUME NEW w \in Workers, NEW q \in Sessions, NEW x \in Stages, ClaimStage(w, q, x)
      PROVE  Pipeline!Claim(q, x)
  <2>1. outcome[q][x] = "none" /\ (status[q] = StageName[x] \/ x = 1)
    BY <1>1 DEF ClaimStage, Open
  <2>2. \A y \in Stages : y < x => outcome[q][y] = "passed"
    BY <2>1 DEF StagesInOrder, Stages
  <2> QED BY <1>1, <2>1, <2>2 DEF ClaimStage, Pipeline!Claim, Pipeline!Undecided
<1>2. ASSUME NEW w \in Workers, NEW v \in {"passed", "failed"}, CompleteStage(w, v)
      PROVE  Pipeline!Decide(work[w].s, work[w].x, v) /\ work[w].s \in Sessions /\ work[w].x \in Stages
  <2> DEFINE q == work[w].s  x == work[w].x
  <2>1. q \in Sessions /\ x \in Stages /\ work[w].gen \in 1 .. MaxClaims
    BY <1>2, WorkHolds DEF CompleteStage, UploadTypeOK
  <2>2. status[q] = StageName[x] /\ outcome[q][x] = "none" /\ claims[q][x] = work[w].gen
    BY <1>2 DEF CompleteStage, Fenced
  <2>3. \A y \in Stages : y < x => outcome[q][y] = "passed"
    BY <2>1, <2>2 DEF StagesInOrder
  <2>4. claims[q][x] > 0
    BY Lives, <2>1, <2>2
  <2>5. /\ outcome' = [outcome EXCEPT ![q][x] = v]
        /\ by' = [by EXCEPT ![q][x] = claims[q][x]]
        /\ UNCHANGED claims
    BY <1>2, <2>2 DEF CompleteStage
  <2> QED BY <2>1, <2>2, <2>3, <2>4, <2>5 DEF Pipeline!Decide, Pipeline!Undecided
<1>3. CASE UNCHANGED <<claims, outcome, by>>
  BY <1>3 DEF Pipeline!pipe
<1>4. \/ UNCHANGED <<claims, outcome, by>>
      \/ \E w \in Workers : \/ \E q \in Sessions, x \in Stages : ClaimStage(w, q, x)
                            \/ \E v \in {"passed", "failed"} : CompleteStage(w, v)
  BY ZenonT(60) DEF Next, vars, stages, Reserve, Resume, Mint, MintFails, Authorize, RequestDies,
         BeginUpload, EndUpload, FindTarget, Observe, Confirm, ClaimCleanup, CompleteCleanup,
         JanitorDies, Delete, WriteOutput, WorkerStops, Tick
<1> QED BY <1>1, <1>2, <1>3, <1>4 DEF Pipeline!Next

\* Whatever the leases, crashes and late completions, each stage is decided once, by
\* its newest claim, and in order: the upload sessions implement the pipeline.
THEOREM UploadsImplementPipeline == Spec => ImplementsPipeline
<1>1. Init => Pipeline!Init /\ StagesInOrder
  BY DEF Init, Pipeline!Init, StagesInOrder, StageName, Stages
<1>2. UploadTypeOK /\ StagesInOrder /\ [Next]_vars => StagesInOrder'
  BY OrderStep
<1>3. UploadTypeOK /\ StagesInOrder /\ [Next]_vars => [Pipeline!Next]_(Pipeline!pipe)
  BY PipelineStep
<1> QED BY <1>1, <1>2, <1>3, UploadTypesHold, PTL DEF Spec, ImplementsPipeline, Pipeline!Spec
=============================================================================
