---------------------------- MODULE MediaUpload ----------------------------
(***************************************************************************)
(* Upload sessions of social media: a customer reserves a session, gets a  *)
(* signed token, puts one object into the quarantine bucket and reports    *)
(* it; the object is then validated, scanned and processed by workers that *)
(* hold leases, and what is never accepted is deleted by a janitor that    *)
(* holds leases too.                                                       *)
(*                                                                         *)
(* A plpgsql function is one action.  The routes make several calls: req   *)
(* and report follow them, job follows the janitor's.  Time runs in ticks; *)
(* every deadline is kept as the ticks left until it, 0 when it has        *)
(* passed.  Object storage and the workers are outside the repository:     *)
(* the storage answers as the routes expect of it, a worker may do         *)
(* anything the functions it calls allow, and either may be slow.          *)
(***************************************************************************)
EXTENDS Integers, FiniteSets

CONSTANTS
    Sessions,       \* one owner's idempotency keys, each a session's identity
    Requests,       \* upload-session requests in flight
    Janitors,       \* runs of the quarantine janitor
    Workers,        \* stage workers
    ActiveLimit,    \* sessions that may be active at once
    Batch,          \* sessions one janitor run may claim
    Ttl,            \* life of a session and of a token
    CleanupLease,   \* life of the janitor's claim
    StageLease,     \* [Stages -> life of a worker's claim]
    MaxUploads,     \* bound: uploads of one session under way at once
    MaxClaims       \* bound: claims of one stage of one session

Stages == 1 .. 3
StageName == <<"validating", "file_safety", "media_processing">>

ASSUME UploadAssumption ==
    /\ {ActiveLimit, Batch, Ttl, CleanupLease, MaxUploads, MaxClaims} \subseteq Nat \ {0}
    /\ StageLease \in [Stages -> Nat \ {0}]

VARIABLES
    status,         \* [Sessions -> status]
    left,           \* [Sessions -> ticks until expires_at]
    cleanup,        \* [Sessions -> ticks left of the cleanup claim]
    deleted,        \* the sessions with quarantine_deleted_at
    claims,         \* [Sessions -> [Stages -> claim generation]]
    lease,          \* [Sessions -> [Stages -> ticks left of the claim]]
    outcome,        \* [Sessions -> [Stages -> the stage's outcome]]
    by,             \* history: [Sessions -> [Stages -> generation that decided]]
    raw,            \* the sessions with an object in quarantine
    output,         \* [Sessions -> [output keys -> generation that wrote it, or 0]]
    token,          \* [Sessions -> ticks the customer's best token has left]
    flying,         \* [Sessions -> uploads under way]
    doubled,        \* history: the sessions that had two uploads under way at once
    req, report, job, work

rows == <<status, left, cleanup, deleted>>
stages == <<claims, lease, outcome, by>>
storage == <<raw, output>>
client == <<token, flying, doubled>>
actors == <<req, report, job, work>>
vars == <<rows, stages, storage, client, actors>>

Statuses == {"none", "created", "upload_authorized", "quarantined", "ready",
             "rejected", "expired"} \cup {StageName[x] : x \in Stages}
Accepted == {"quarantined", "ready"} \cup {StageName[x] : x \in Stages}
Waiting == {"created", "upload_authorized"}

NoRequest == [at |-> "idle"]
NoJob == [todo |-> {}, acked |-> {}]
NoWork == [at |-> "idle"]

Init ==
    /\ status = [s \in Sessions |-> "none"]
    /\ left = [s \in Sessions |-> 0] /\ cleanup = [s \in Sessions |-> 0]
    /\ deleted = {}
    /\ claims = [s \in Sessions |-> [x \in Stages |-> 0]]
    /\ lease = [s \in Sessions |-> [x \in Stages |-> 0]]
    /\ outcome = [s \in Sessions |-> [x \in Stages |-> "none"]]
    /\ by = [s \in Sessions |-> [x \in Stages |-> 0]]
    /\ raw = {} /\ output = [s \in Sessions |-> [g \in 1 .. MaxClaims |-> 0]]
    /\ token = [s \in Sessions |-> 0] /\ flying = [s \in Sessions |-> 0] /\ doubled = {}
    /\ req = [r \in Requests |-> NoRequest]
    /\ report = [s \in Sessions |-> "idle"]
    /\ job = [j \in Janitors |-> NoJob]
    /\ work = [w \in Workers |-> NoWork]

-----------------------------------------------------------------------------
(* The upload-session route. *)

Active == {s \in Sessions : status[s] \in Waiting /\ left[s] > 0}

\* A request finds no session under its key and reserves one, if the quota allows.
Reserve(r, s) ==
    /\ req[r] = NoRequest /\ status[s] = "none"
    /\ Cardinality(Active) < ActiveLimit
    /\ status' = [status EXCEPT ![s] = "created"]
    /\ left' = [left EXCEPT ![s] = Ttl]
    /\ req' = [req EXCEPT ![r] = [at |-> "mint", s |-> s, saw |-> "created"]]
    /\ UNCHANGED <<cleanup, deleted, stages, storage, client, report, job, work>>

\* A retry finds the session of its key; it remembers the status it read.
Resume(r, s) ==
    /\ req[r] = NoRequest /\ status[s] \in Waiting
    /\ req' = [req EXCEPT ![r] = [at |-> "mint", s |-> s, saw |-> status[s]]]
    /\ UNCHANGED <<rows, stages, storage, client, report, job, work>>

Mint(r) ==
    /\ req[r].at = "mint"
    /\ req' = [req EXCEPT ![r] = [at |-> "cas", s |-> @.s, saw |-> @.saw, token |-> Ttl]]
    /\ UNCHANGED <<rows, stages, storage, client, report, job, work>>

\* No token: a session still in created is rejected, by a call that may be lost too.
MintFails(r) ==
    /\ req[r].at = "mint"
    /\ \/ /\ req[r].saw = "created" /\ status[req[r].s] = "created"
          /\ status' = [status EXCEPT ![req[r].s] = "rejected"]
       \/ UNCHANGED status
    /\ req' = [req EXCEPT ![r] = NoRequest]
    /\ UNCHANGED <<left, cleanup, deleted, stages, storage, client, report, job, work>>

\* The token is handed out only when the session is still what the request read.
Authorize(r) ==
    /\ req[r].at = "cas"
    /\ LET s == req[r].s IN
         IF status[s] = req[r].saw
         THEN /\ status' = [status EXCEPT ![s] = "upload_authorized"]
              /\ left' = [left EXCEPT ![s] = Ttl]
              /\ \/ req[r].token > token[s] /\ token' = [token EXCEPT ![s] = req[r].token]
                 \/ UNCHANGED token     \* the reply is lost, or an older token lives longer
         ELSE UNCHANGED <<status, left, token>>
    /\ req' = [req EXCEPT ![r] = NoRequest]
    /\ UNCHANGED <<cleanup, deleted, stages, storage, flying, doubled, report, job, work>>

RequestDies(r) ==
    /\ req[r].at # "idle"
    /\ req' = [req EXCEPT ![r] = NoRequest]
    /\ UNCHANGED <<rows, stages, storage, client, report, job, work>>

-----------------------------------------------------------------------------
(* The customer's upload, and its report. *)

\* Storage checks the token and that the key is free (upsert: false) at the start.
BeginUpload(s) ==
    /\ token[s] > 0 /\ s \notin raw /\ flying[s] < MaxUploads
    /\ flying' = [flying EXCEPT ![s] = @ + 1]
    /\ doubled' = IF flying[s] > 0 THEN doubled \cup {s} ELSE doubled
    /\ UNCHANGED <<rows, stages, storage, token, actors>>

\* The bytes arrive, however late, or never do.
EndUpload(s) ==
    /\ flying[s] > 0
    /\ raw' \in {raw, raw \cup {s}}
    /\ flying' = [flying EXCEPT ![s] = @ - 1]
    /\ UNCHANGED <<rows, stages, output, token, doubled, actors>>

FindTarget(s) ==
    /\ report[s] = "idle" /\ status[s] = "upload_authorized"
    /\ report' = [report EXCEPT ![s] = "found"]
    /\ UNCHANGED <<rows, stages, storage, client, req, job, work>>

Observe(s) ==
    /\ report[s] = "found"
    /\ report' = [report EXCEPT ![s] = IF s \in raw THEN "observed" ELSE "idle"]
    /\ UNCHANGED <<rows, stages, storage, client, req, job, work>>

\* Mutant: the confirmation does not look at the expiry or at the janitor.
ConfirmableLate(s) == status[s] \in {"upload_authorized", "expired"}

Confirmable(s) == status[s] = "upload_authorized" /\ left[s] > 0

\* Refused also when the size or type is not what was declared, or the call is lost.
Confirm(s) ==
    /\ report[s] = "observed"
    /\ \/ Confirmable(s) /\ status' = [status EXCEPT ![s] = "quarantined"]
       \/ UNCHANGED status
    /\ report' = [report EXCEPT ![s] = "idle"]
    /\ UNCHANGED <<left, cleanup, deleted, stages, storage, client, req, job, work>>

-----------------------------------------------------------------------------
(* The janitor. *)

Claimable(s) ==
    /\ s \notin deleted /\ cleanup[s] = 0
    /\ \/ status[s] = "expired"
       \/ status[s] \in Waiting /\ left[s] = 0

ClaimCleanup(j) == \E batch \in SUBSET {s \in Sessions : Claimable(s)} :
    /\ job[j] = NoJob
    /\ Cardinality(batch) \in 1 .. Batch
    /\ status' = [s \in Sessions |-> IF s \in batch THEN "expired" ELSE status[s]]
    /\ cleanup' = [s \in Sessions |-> IF s \in batch THEN CleanupLease ELSE cleanup[s]]
    /\ job' = [job EXCEPT ![j] = [todo |-> batch, acked |-> {}]]
    /\ UNCHANGED <<left, deleted, stages, storage, client, req, report, work>>

\* Mutant: an empty answer of the storage counts as a deletion.
AcknowledgedAlways(s) == TRUE

\* Storage acknowledges the removal of an object that was there.
Acknowledged(s) == s \in raw

Delete(j, s) ==
    /\ s \in job[j].todo /\ job[j].acked = {}
    /\ \/ /\ Acknowledged(s)
          /\ raw' = raw \ {s}
          /\ job' = [job EXCEPT ![j].acked = {s}]
       \/ /\ raw' \in {raw, raw \ {s}}      \* nothing there, an error, or a lost answer
          /\ job' = [job EXCEPT ![j].todo = @ \ {s}]
    /\ UNCHANGED <<rows, stages, output, client, req, report, work>>

CompleteCleanup(j) == \E s \in job[j].acked :
    /\ \/ /\ status[s] = "expired" /\ s \notin deleted
          /\ deleted' = deleted \cup {s}
          /\ cleanup' = [cleanup EXCEPT ![s] = 0]
       \/ UNCHANGED <<deleted, cleanup>>
    /\ job' = [job EXCEPT ![j] = [todo |-> @.todo \ {s}, acked |-> {}]]
    /\ UNCHANGED <<status, left, stages, storage, client, req, report, work>>

JanitorDies(j) ==
    /\ job[j] # NoJob
    /\ job' = [job EXCEPT ![j] = NoJob]
    /\ UNCHANGED <<rows, stages, storage, client, req, report, work>>

-----------------------------------------------------------------------------
(* The stages. *)

\* First claim, or the reclaim of a lease that ran out.
Open(s, x) ==
    /\ s \notin deleted /\ outcome[s][x] = "none"
    /\ \/ claims[s][x] = 0
          /\ status[s] = IF x = 1 THEN "quarantined" ELSE StageName[x]
       \/ claims[s][x] > 0 /\ lease[s][x] = 0 /\ status[s] = StageName[x]

ClaimStage(w, s, x) ==
    /\ work[w] = NoWork /\ Open(s, x) /\ claims[s][x] < MaxClaims
    /\ status' = [status EXCEPT ![s] = StageName[x]]
    /\ claims' = [claims EXCEPT ![s][x] = @ + 1]
    /\ lease' = [lease EXCEPT ![s][x] = StageLease[x]]
    /\ work' = [work EXCEPT ![w] =
                  [at |-> "work", s |-> s, x |-> x, gen |-> claims[s][x] + 1]]
    /\ UNCHANGED <<left, cleanup, deleted, outcome, by, storage, client, req, report, job>>

\* Mutant: all claims of a session write to one key.
OutputKeyShared(gen) == 1

\* The key a processing claim names in the processed bucket.
OutputKey(gen) == gen

WriteOutput(w) ==
    /\ work[w].at = "work" /\ work[w].x = 3
    /\ output' = [output EXCEPT ![work[w].s][OutputKey(work[w].gen)] = work[w].gen]
    /\ work' = [work EXCEPT ![w].at = "wrote"]
    /\ UNCHANGED <<rows, stages, raw, client, req, report, job>>

\* Mutant: a completion checks the lease and not the generation.
FencedByLease(w) == LET s == work[w].s  x == work[w].x IN
    /\ status[s] = StageName[x] /\ outcome[s][x] = "none" /\ s \notin deleted
    /\ lease[s][x] > 0

Fenced(w) == LET s == work[w].s  x == work[w].x IN
    /\ status[s] = StageName[x] /\ outcome[s][x] = "none" /\ s \notin deleted
    /\ claims[s][x] = work[w].gen /\ lease[s][x] > 0

CompleteStage(w, verdict) ==
    /\ work[w].at # "idle" /\ Fenced(w)
    /\ verdict = "passed" /\ work[w].x = 3 => work[w].at = "wrote"
    /\ LET s == work[w].s  x == work[w].x IN
         /\ status' = [status EXCEPT ![s] = IF verdict = "failed" THEN "rejected"
                                            ELSE IF x = 3 THEN "ready" ELSE StageName[x + 1]]
         /\ outcome' = [outcome EXCEPT ![s][x] = verdict]
         /\ by' = [by EXCEPT ![s][x] = work[w].gen]
    /\ work' = [work EXCEPT ![w] = NoWork]
    /\ UNCHANGED <<left, cleanup, deleted, claims, lease, storage, client, req, report, job>>

\* A crash, or a completion that is refused: a stale lease, other bytes than scanned,
\* evidence of the wrong shape.
WorkerStops(w) ==
    /\ work[w].at # "idle"
    /\ work' = [work EXCEPT ![w] = NoWork]
    /\ UNCHANGED <<rows, stages, storage, client, req, report, job>>

-----------------------------------------------------------------------------

\* Mutant: a deadline that has passed goes on counting.
LessPast(n) == n - 1

Less(n) == IF n = 0 THEN 0 ELSE n - 1

Tick ==
    /\ left' = [s \in Sessions |-> Less(left[s])]
    /\ cleanup' = [s \in Sessions |-> Less(cleanup[s])]
    /\ token' = [s \in Sessions |-> Less(token[s])]
    /\ lease' = [s \in Sessions |-> [x \in Stages |-> Less(lease[s][x])]]
    /\ req' = [r \in Requests |-> IF req[r].at = "cas"
                                  THEN [req[r] EXCEPT !.token = Less(@)] ELSE req[r]]
    /\ UNCHANGED <<status, deleted, claims, outcome, by, storage, flying, doubled, report, job, work>>

Next ==
    \/ \E r \in Requests : \/ \E s \in Sessions : Reserve(r, s) \/ Resume(r, s)
                           \/ Mint(r) \/ MintFails(r) \/ Authorize(r) \/ RequestDies(r)
    \/ \E s \in Sessions : \/ BeginUpload(s) \/ EndUpload(s)
                           \/ FindTarget(s) \/ Observe(s) \/ Confirm(s)
    \/ \E j \in Janitors : \/ ClaimCleanup(j) \/ CompleteCleanup(j) \/ JanitorDies(j)
                           \/ \E s \in Sessions : Delete(j, s)
    \/ \E w \in Workers : \/ \E s \in Sessions, x \in Stages : ClaimStage(w, s, x)
                          \/ WriteOutput(w) \/ WorkerStops(w)
                          \/ \E v \in {"passed", "failed"} : CompleteStage(w, v)
    \/ Tick

Spec == Init /\ [][Next]_vars

-----------------------------------------------------------------------------
(* Properties. *)

RowTypes ==
    /\ status \in [Sessions -> Statuses] /\ left \in [Sessions -> 0 .. Ttl]
    /\ cleanup \in [Sessions -> 0 .. CleanupLease] /\ deleted \subseteq Sessions

StageTypes ==
    /\ claims \in [Sessions -> [Stages -> 0 .. MaxClaims]]
    /\ lease \in [Sessions -> [Stages -> Nat]]
    /\ \A s \in Sessions, x \in Stages : lease[s][x] =< StageLease[x]
    /\ outcome \in [Sessions -> [Stages -> {"none", "passed", "failed"}]]
    /\ by \in [Sessions -> [Stages -> 0 .. MaxClaims]]

ObjectTypes ==
    /\ raw \subseteq Sessions
    /\ output \in [Sessions -> [1 .. MaxClaims -> 0 .. MaxClaims]]
    /\ token \in [Sessions -> 0 .. Ttl]
    /\ flying \in [Sessions -> 0 .. MaxUploads] /\ doubled \subseteq Sessions

ActorTypes ==
    /\ req \in [Requests -> {NoRequest} \cup [at : {"mint"}, s : Sessions, saw : Waiting]
         \cup [at : {"cas"}, s : Sessions, saw : Waiting, token : 0 .. Ttl]]
    /\ report \in [Sessions -> {"idle", "found", "observed"}]
    /\ job \in [Janitors -> [todo : SUBSET Sessions, acked : SUBSET Sessions]]
    /\ work \in [Workers -> {NoWork} \cup
         [at : {"work", "wrote"}, s : Sessions, x : Stages, gen : 1 .. MaxClaims]]

\* Types: every row, lease, object and actor holds a value its column or variable can
\* hold.
UploadTypeOK == RowTypes /\ StageTypes /\ ObjectTypes /\ ActorTypes

\* An accepted upload keeps its bytes: no janitor, however late, removes an object
\* between its observation and its acceptance, or afterwards.
AcceptedKeepsObject == \A s \in Sessions : status[s] \in Accepted => s \in raw

\* A session marked as cleaned has no object and never gets one: every token a
\* customer holds dies no later than the session, and an upload that started in time
\* and lands late is still seen by a janitor before the mark.  Only a customer who had
\* two uploads of the session under way at once may leave the bytes of the second.
CleanedStaysClean == \A s \in deleted :
    token[s] = 0 /\ (s \notin doubled => s \notin raw /\ flying[s] = 0)

\* What a ready session names is what its own processing wrote: a worker whose lease
\* ran out may still write, and changes nothing that is served.
ReadyServesItsOwnBytes == \A s \in Sessions :
    status[s] = "ready" => output[s][OutputKey(by[s][3])] = by[s][3]

Pipeline == INSTANCE MediaPipeline WITH Items <- Sessions

\* Whatever the leases, crashes and late completions, each stage is decided once, by
\* its newest claim, and in order.
ImplementsPipeline == Pipeline!Spec

\* At most ActiveLimit sessions of an owner are open for upload at once.  The code
\* does not keep this: a session past its expiry is not counted, and a retry of its
\* request opens it again, since the refresh looks at the status alone.
ActiveWithinLimit == Cardinality(Active) =< ActiveLimit

=============================================================================
