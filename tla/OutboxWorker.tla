---------------------------- MODULE OutboxWorker ----------------------------
(***************************************************************************)
(* The outbox of the Data Module: the business transactions that append to *)
(* the table outbox_events (the pending-review use cases as they are, the  *)
(* appointment, alert and notification commands by the rows they leave or  *)
(* do not leave), the worker scripts/simple_outbox_worker.py that projects *)
(* the rows to MongoDB and Redis in batches, and the read-through of       *)
(* GET /arrivals/id.                                                       *)
(*                                                                         *)
(* One worker process runs.  Its session holds the status updates of a     *)
(* batch until the single commit at the end, so a crash or a database      *)
(* error in between forgets them all while the read models keep what they  *)
(* were given.                                                             *)
(***************************************************************************)
EXTENDS Naturals, FiniteSets

CONSTANTS
  Appointments,   \* appointment ids
  Reviews,        \* event_ids of pending reviews
  RowIds,         \* primary keys the table outbox_events may hand out
  MaxRetries,     \* MAX_RETRIES of the worker
  BatchSize,      \* BATCH_SIZE of the worker
  None,           \* no value
  MaxCrashes,     \* bound: crashes and database errors of the worker
  MaxReads,       \* bound: cache misses of GET /arrivals/{id}
  MaxAmendments,  \* bound: changes of one appointment that leave no row
  Announced       \* bound: which of the events AnnouncementKinds are appended

AnnouncementKinds == {"AlertCreated", "NotificationCreated"}

ASSUME WorkerAssumption ==
  /\ RowIds \subseteq Nat
  /\ MaxRetries \in Nat \ {0}
  /\ BatchSize \in Nat \ {0}
  /\ None \notin Nat
  /\ MaxCrashes \in Nat
  /\ MaxReads \in Nat
  /\ MaxAmendments \in Nat
  /\ Appointments \cap Reviews = {}
  /\ Announced \subseteq AnnouncementKinds

VARIABLES
  \* PostgreSQL, committed
  review,         \* review[r]: row of pending_reviews
  version,        \* version[a]: number of committed changes of appointment a
  announced,      \* announced[a]: the last of them that left an outbox row
  event,          \* event[i]: what outbox row i announces
  status,         \* status[i]: status column of row i
  retries,        \* retries[i]: retry_count column of row i
  due,            \* FAILED rows whose next_retry_at has passed
  \* the worker process
  pc,             \* where the worker is, see WorkerStates
  batch,          \* rows of the batch still to project
  sStatus,        \* status values in the worker's session
  sRetries,       \* retry_count values in the worker's session
  loaded,         \* appointment versions the session's identity map may hold
  \* read models
  mongo,          \* rows with a document in MongoDB
  applied,        \* rows whose Redis and notification effects took place
  pendingKey,     \* reviews with a key in Redis
  cache,          \* cache[a]: version of the appointment snapshot in Redis
  \* readers and bookkeeping
  reading,        \* snapshots that GET requests read and have not cached yet
  tainted,        \* appointments whose cache a reader or a Redis error spoiled
  crashes, reads

pgVars     == <<review, version, announced, event, status, retries, due>>
workerVars == <<pc, batch, sStatus, sRetries, loaded>>
redisVars  == <<pendingKey, cache, tainted>>
modelVars  == <<mongo, applied, redisVars>>
readVars   == <<reading, reads>>
vars       == <<pgVars, workerVars, modelVars, readVars, crashes>>

Events ==
  [kind: {"ReviewCreated", "ReviewResolved"}, key: Reviews]
    \cup [kind: {"AppointmentChanged"} \cup AnnouncementKinds, key: Appointments]
NoEvent     == [kind |-> "none", key |-> None]
RowStatuses == {"absent", "PENDING", "FAILED", "PUBLISHED", "DEAD_LETTER"}
OpenStatuses == {"PENDING", "FAILED"}
\* "mongo" and "redis": in a batch, before project_to_mongo (or at the commit)
\* and between it and project_to_redis of the current row.
WorkerStates == {"down", "warmup", "idle", "mongo", "redis"}
InBatch == pc \in {"mongo", "redis"}
Resolutions == {"APPROVED", "REJECTED"}
Snapshots   == Nat \cup {None}

TypeOK ==
  /\ review \in [Reviews -> {"none", "PENDING"} \cup Resolutions]
  /\ version \in [Appointments -> Nat]
  /\ announced \in [Appointments -> Nat]
  /\ event \in [RowIds -> Events \cup {NoEvent}]
  /\ status \in [RowIds -> RowStatuses]
  /\ retries \in [RowIds -> 0..MaxRetries]
  /\ due \in SUBSET RowIds
  /\ pc \in WorkerStates
  /\ batch \in SUBSET RowIds
  /\ sStatus \in [RowIds -> RowStatuses]
  /\ sRetries \in [RowIds -> 0..MaxRetries]
  /\ loaded \in [Appointments -> Snapshots]
  /\ mongo \in SUBSET RowIds
  /\ applied \in SUBSET RowIds
  /\ pendingKey \in SUBSET Reviews
  /\ cache \in [Appointments -> Snapshots]
  /\ reading \in [Appointments -> Snapshots]
  /\ tainted \in SUBSET Appointments
  /\ crashes \in 0..MaxCrashes
  /\ reads \in 0..MaxReads

Init ==
  /\ review = [r \in Reviews |-> "none"]
  /\ version = [a \in Appointments |-> 0]
  /\ announced = version
  /\ event = [i \in RowIds |-> NoEvent]
  /\ status = [i \in RowIds |-> "absent"]
  /\ retries = [i \in RowIds |-> 0]
  /\ due = {}
  /\ pc = "down"
  /\ batch = {}
  /\ sStatus = status
  /\ sRetries = retries
  /\ loaded = [a \in Appointments |-> None]
  /\ mongo = {}
  /\ applied = {}
  /\ pendingKey = {}
  /\ cache = [a \in Appointments |-> None]
  /\ reading = [a \in Appointments |-> None]
  /\ tainted = {}
  /\ crashes = 0
  /\ reads = 0

-----------------------------------------------------------------------------
(* Business transactions.  Row ids come from a sequence: they may become    *)
(* visible out of order, but the rows of one aggregate are inserted under   *)
(* its row lock, so among them ids follow commit order.                     *)

Fresh(i, key) ==
  /\ status[i] = "absent"
  /\ \A j \in RowIds : event[j].key = key => j < i

AppendRow(i, kind, key) ==
  /\ Fresh(i, key)
  /\ event' = [event EXCEPT ![i] = [kind |-> kind, key |-> key]]
  /\ status' = [status EXCEPT ![i] = "PENDING"]
  /\ UNCHANGED <<retries, due, workerVars, modelVars, readVars, crashes>>

\* cmd_store_pending_review: the PENDING row and its event, one transaction.
StorePendingReview(r, i) ==
  /\ review[r] = "none"
  /\ AppendRow(i, "ReviewCreated", r)
  /\ review' = [review EXCEPT ![r] = "PENDING"]
  /\ UNCHANGED <<version, announced>>

\* cmd_resolve_pending_review: under the row lock, only a PENDING review.
ResolvePendingReview(r, res, i) ==
  /\ review[r] = "PENDING"
  /\ AppendRow(i, "ReviewResolved", r)
  /\ review' = [review EXCEPT ![r] = res]
  /\ UNCHANGED <<version, announced>>

\* The commands on an appointment or its visit that append an event to the
\* outbox, in the transaction of the change.
ChangeAppointment(a, i) ==
  /\ AppendRow(i, "AppointmentChanged", a)
  /\ version' = [version EXCEPT ![a] = @ + 1]
  /\ announced' = [announced EXCEPT ![a] = version'[a]]
  /\ UNCHANGED review

RowsOf(kind, key) == {i \in RowIds : event[i] = [kind |-> kind, key |-> key]}

\* The changes of what a snapshot holds that append no event and evict no key:
\* a driver's claim, the review of an infraction.
AmendAppointment(a) ==
  /\ version[a] < Cardinality(RowsOf("AppointmentChanged", a)) + MaxAmendments
  /\ version' = [version EXCEPT ![a] = @ + 1]
  /\ UNCHANGED <<review, announced, event, status, retries, due,
                 workerVars, modelVars, readVars, crashes>>

\* create_alerts_for_appointment and cmd_create_notification.
Announce(kind, a, i) ==
  /\ AppendRow(i, kind, a)
  /\ UNCHANGED <<review, version, announced>>

-----------------------------------------------------------------------------
(* GET /arrivals/{id} on a cache miss: read PostgreSQL, then fill the cache.*)
(* A key whose TTL has passed counts as present until somebody misses it;   *)
(* no property below asks that a key be present.                            *)

\* The snapshot s of a shows every change of a that left a row.
Shows(a, s) == s = None \/ announced[a] <= s

ReadMiss(a) ==
  /\ reads < MaxReads
  /\ reading[a] = None
  /\ cache' = [cache EXCEPT ![a] = None]
  /\ reading' = [reading EXCEPT ![a] = version[a]]
  /\ reads' = reads + 1
  /\ UNCHANGED <<pgVars, workerVars, mongo, applied, pendingKey, tainted, crashes>>

ReadFill(a) ==
  /\ reading[a] # None
  /\ cache' = [cache EXCEPT ![a] = reading[a]]
  /\ tainted' = IF Shows(a, reading[a]) THEN tainted ELSE tainted \cup {a}
  /\ reading' = [reading EXCEPT ![a] = None]
  /\ UNCHANGED <<pgVars, workerVars, mongo, applied, pendingKey, reads, crashes>>

-----------------------------------------------------------------------------
(* The worker.                                                              *)

\* The FAILED row's next_retry_at passes.
BackoffElapses(i) ==
  /\ status[i] = "FAILED"
  /\ i \notin due
  /\ due' = due \cup {i}
  /\ UNCHANGED <<review, version, announced, event, status, retries,
                 workerVars, modelVars, readVars, crashes>>

\* main: warm_up_redis_cache reads every appointment first ...
Start ==
  /\ pc = "down"
  /\ pc' = "warmup"
  /\ loaded' = version
  /\ UNCHANGED <<pgVars, batch, sStatus, sRetries, modelVars,
                 readVars, crashes>>

\* ... and caches the snapshots afterwards; Redis errors are only logged.
WarmUp ==
  /\ pc = "warmup"
  /\ pc' = "idle"
  /\ \E lost \in SUBSET Appointments :
       /\ cache' = [a \in Appointments |->
                      IF a \in lost THEN cache[a] ELSE loaded[a]]
       /\ tainted' = tainted \cup {a \in Appointments : ~Shows(a, cache'[a])}
  /\ loaded' = [a \in Appointments |-> None]
  /\ UNCHANGED <<pgVars, batch, sStatus, sRetries, mongo, applied,
                 pendingKey, readVars, crashes>>

\* Mutants of Projectable: FAILED rows forgotten; dead letters taken up again.
PendingOnly == {i \in RowIds : status[i] = "PENDING"}
DeadLettersToo ==
  {i \in RowIds : \/ status[i] \in {"PENDING", "DEAD_LETTER"}
                  \/ status[i] = "FAILED" /\ retries[i] < MaxRetries /\ i \in due}

\* fetch_projectable_rows: the filter of the query.
Projectable ==
  {i \in RowIds : \/ status[i] = "PENDING"
                  \/ status[i] = "FAILED" /\ retries[i] < MaxRetries /\ i \in due}

\* ... and its ORDER BY id LIMIT batch_size.
FirstRows(S) == {i \in S : Cardinality({j \in S : j < i}) < BatchSize}

\* The session holds the rows of the batch S.
OpenSession(S) ==
  /\ sStatus' = [i \in RowIds |-> IF i \in S THEN status[i] ELSE "absent"]
  /\ sRetries' = [i \in RowIds |-> IF i \in S THEN retries[i] ELSE 0]

\* Mutants of FetchBatch: rows acknowledged before they are projected; one
\* session, and its identity map, kept for every cycle.
FetchBatchPublishing ==
  /\ pc = "idle"
  /\ Projectable # {}
  /\ pc' = "mongo"
  /\ batch' = FirstRows(Projectable)
  /\ status' = [i \in RowIds |-> IF i \in batch' THEN "PUBLISHED" ELSE status[i]]
  /\ sStatus' = [i \in RowIds |-> IF i \in batch' THEN "PUBLISHED" ELSE "absent"]
  /\ sRetries' = [i \in RowIds |-> IF i \in batch' THEN retries[i] ELSE 0]
  /\ loaded' = [a \in Appointments |-> None]
  /\ UNCHANGED <<review, version, announced, event, retries, due, modelVars, readVars, crashes>>

FetchBatchSameSession ==
  /\ pc = "idle"
  /\ Projectable # {}
  /\ pc' = "mongo"
  /\ batch' = FirstRows(Projectable)
  /\ OpenSession(batch')
  /\ UNCHANGED <<pgVars, loaded, modelVars, readVars, crashes>>

FetchBatch ==
  /\ pc = "idle"
  /\ Projectable # {}
  /\ pc' = "mongo"
  /\ batch' = FirstRows(Projectable)
  /\ OpenSession(batch')
  /\ loaded' = [a \in Appointments |-> None]
  /\ UNCHANGED <<pgVars, modelVars, readVars, crashes>>

AtAnyRow(i) == InBatch /\ i \in batch

\* The row the loop is at: rows are taken in the order of their ids.
AtRow(i) == AtAnyRow(i) /\ \A j \in batch : i <= j

\* project_to_mongo: an upsert by event_id.
ProjectToMongo(i) ==
  /\ AtRow(i)
  /\ pc = "mongo"
  /\ mongo' = mongo \cup {i}
  /\ pc' = "redis"
  /\ UNCHANGED <<pgVars, batch, sStatus, sRetries, loaded, applied,
                 redisVars, readVars, crashes>>

\* What project_to_redis does for each type of event.  The appointment is
\* read again, from PostgreSQL or from the session's identity map; the cache
\* helpers swallow Redis errors, which may leave the old snapshot in place.
RedisEffect(i) ==
  LET key == event[i].key IN
  CASE event[i].kind = "ReviewCreated" ->
         /\ pendingKey' = pendingKey \cup {key}
         /\ UNCHANGED <<cache, tainted, loaded>>
    [] event[i].kind = "ReviewResolved" ->
         /\ pendingKey' = pendingKey \ {key}
         /\ UNCHANGED <<cache, tainted, loaded>>
    [] event[i].kind = "AppointmentChanged" ->
         \E snapshot \in {version[key]} \cup ({loaded[key]} \ {None}) :
         \E left \in {snapshot, None, cache[key]} :
           /\ loaded' = [loaded EXCEPT ![key] = snapshot]
           /\ cache' = [cache EXCEPT ![key] = left]
           /\ tainted' = IF left \in {snapshot, None} THEN tainted \ {key}
                                                     ELSE tainted \cup {key}
           /\ UNCHANGED pendingKey
    [] event[i].kind = "AlertCreated" ->
         \E left \in {None, cache[key]} :
           /\ cache' = [cache EXCEPT ![key] = left]
           /\ UNCHANGED <<pendingKey, tainted, loaded>>
    [] OTHER -> UNCHANGED <<redisVars, loaded>>

\* Both projections returned: PUBLISHED, in the session only.
ProjectToRedis(i) ==
  /\ AtRow(i)
  /\ pc = "redis"
  /\ RedisEffect(i)
  /\ applied' = applied \cup {i}
  /\ sStatus' = [sStatus EXCEPT ![i] = "PUBLISHED"]
  /\ batch' = batch \ {i}
  /\ pc' = "mongo"
  /\ UNCHANGED <<pgVars, sRetries, mongo, readVars, crashes>>

\* Mutants of Verdict: off by one at the limit; a status nobody knows.
VerdictOffByOne(i, permanent) ==
  IF permanent \/ sRetries[i] + 1 > MaxRetries THEN "DEAD_LETTER" ELSE "FAILED"
VerdictMisspelt(i, permanent) ==
  IF permanent \/ sRetries[i] + 1 >= MaxRetries THEN "DEADLETTER" ELSE "FAILED"

\* The classification of process_batch's except clause.
Verdict(i, permanent) ==
  IF permanent \/ sRetries[i] + 1 >= MaxRetries THEN "DEAD_LETTER" ELSE "FAILED"

\* A projection raises, before or after its effect reached the store.
ProjectionFails(i, permanent) ==
  /\ AtRow(i)
  /\ \/ /\ pc = "mongo"
        /\ mongo' \in {mongo, mongo \cup {i}}
        /\ UNCHANGED <<redisVars, loaded>>
     \/ /\ pc = "redis"
        /\ RedisEffect(i) \/ UNCHANGED <<redisVars, loaded>>
        /\ UNCHANGED mongo
  /\ sRetries' = [sRetries EXCEPT ![i] = @ + 1]
  /\ sStatus' = [sStatus EXCEPT ![i] = Verdict(i, permanent)]
  /\ batch' = batch \ {i}
  /\ pc' = "mongo"
  /\ UNCHANGED <<pgVars, applied, readVars, crashes>>

\* session.close(): what the session had not committed is gone.
CloseSession ==
  /\ batch' = {}
  /\ sStatus' = [i \in RowIds |-> "absent"]
  /\ sRetries' = [i \in RowIds |-> 0]

\* The single commit of the batch.
CommitBatch ==
  /\ pc = "mongo"
  /\ batch = {}
  /\ pc' = "idle"
  /\ status' = [i \in RowIds |-> IF sStatus[i] = "absent" THEN status[i] ELSE sStatus[i]]
  /\ retries' = [i \in RowIds |-> IF sStatus[i] = "absent" THEN retries[i] ELSE sRetries[i]]
  /\ due' = {i \in due : status'[i] = "FAILED" /\ retries'[i] = retries[i]}
  /\ CloseSession
  /\ UNCHANGED <<review, version, announced, event, loaded, modelVars, readVars, crashes>>

\* A database error in the batch: main rolls back and polls again.
RollBackBatch ==
  /\ InBatch
  /\ crashes < MaxCrashes
  /\ crashes' = crashes + 1
  /\ pc' = "idle"
  /\ CloseSession
  /\ UNCHANGED <<pgVars, loaded, modelVars, readVars>>

\* The process dies; the session and what it had not committed die with it.
Crash ==
  /\ pc # "down"
  /\ crashes < MaxCrashes
  /\ crashes' = crashes + 1
  /\ pc' = "down"
  /\ CloseSession
  /\ UNCHANGED <<pgVars, loaded, modelVars, readVars>>

-----------------------------------------------------------------------------
Commands ==
  \E i \in RowIds :
    \/ \E r \in Reviews : StorePendingReview(r, i)
    \/ \E r \in Reviews, res \in Resolutions : ResolvePendingReview(r, res, i)
    \/ \E a \in Appointments : ChangeAppointment(a, i)
    \/ \E a \in Appointments, kind \in Announced :
         Announce(kind, a, i)

ProjectRow(i) == ProjectToMongo(i) \/ ProjectToRedis(i)

Worker ==
  \/ Start \/ WarmUp \/ FetchBatch \/ CommitBatch
  \/ \E i \in RowIds : ProjectRow(i)

Next ==
  \/ Commands
  \/ \E a \in Appointments : AmendAppointment(a) \/ ReadMiss(a) \/ ReadFill(a)
  \/ \E i \in RowIds : BackoffElapses(i)
  \/ Worker
  \/ \E i \in RowIds, permanent \in BOOLEAN : ProjectionFails(i, permanent)
  \/ RollBackBatch
  \/ Crash

Spec == Init /\ [][Next]_vars

\* The worker's loop and the clock run on; nothing forces a command, a read,
\* a failure or a crash.
Fairness ==
  /\ WF_vars(Worker)
  /\ \A i \in RowIds : WF_vars(BackoffElapses(i))

FairSpec == Spec /\ Fairness

-----------------------------------------------------------------------------
(* Properties *)

\* A row is settled as published only when MongoDB has its document and its
\* Redis and notification effects took place, whatever batches were cut short
\* (process_batch: project first, one commit afterwards).
PublishedIsProjected ==
  \A i \in RowIds : status[i] = "PUBLISHED" => i \in mongo \cap applied

\* No row is left FAILED with its retries used up: fetch_projectable_rows would
\* never select it again and it would be neither delivered nor dead-lettered.
NoStrandedRow ==
  \A i \in RowIds : status[i] = "FAILED" => retries[i] < MaxRetries

\* When the rows of an appointment's changes are all published, its snapshot in
\* Redis shows every one of those changes, whatever was read from the identity
\* map, unless a read-through or a swallowed Redis error put an older one there
\* last.  Of a claim or a review, which append no row, it promises nothing.
CacheFollowsOutbox ==
  \A a \in Appointments \ tainted :
    (\A i \in RowsOf("AppointmentChanged", a) : status[i] = "PUBLISHED")
      => Shows(a, cache[a])

\* Once a review's two events are published, Redis no longer serves it as
\* pending, provided the first was never put off by a failure.
ResolvedReviewEvictedInOrder ==
  \A r \in Reviews :
    \A i \in RowsOf("ReviewCreated", r), j \in RowsOf("ReviewResolved", r) :
      status[i] = "PUBLISHED" /\ status[j] = "PUBLISHED" /\ retries[i] = 0
        => r \notin pendingKey

\* Every committed row is delivered or dead-lettered in the end.
RowsSettle ==
  \A i \in RowIds : status[i] = "PENDING" ~> status[i] \in {"PUBLISHED", "DEAD_LETTER"}

\* The outbox keeps its promise: published rows were projected, and settling
\* a row is final.
Promise == [i \in RowIds |-> IF status[i] \in OpenStatuses THEN "waiting"
                            ELSE IF status[i] = "PUBLISHED" THEN "published"
                            ELSE IF status[i] = "DEAD_LETTER" THEN "dead"
                            ELSE "absent"]

Delivery == INSTANCE OutboxDelivery WITH state <- Promise, projected <- applied

ImplementsDelivery == Delivery!Spec

=============================================================================
