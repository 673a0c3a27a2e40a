------------------------- MODULE OutboxWorkerProofs -------------------------
(***************************************************************************)
(* Proofs about OutboxWorker, for every set of rows, reviews and           *)
(* appointments, every retry limit and every number of crashes: the types, *)
(* that a published row was projected, that no FAILED row is stranded,     *)
(* that a resolved review leaves Redis, that cached snapshots catch up     *)
(* with the published changes, and that the worker implements              *)
(* OutboxDelivery.                                                         *)
(*                                                                         *)
(* The argument rests on SessionInv: the rows in the worker's session are  *)
(* still open in PostgreSQL, and the verdict PUBLISHED is only given to a  *)
(* row whose effects have taken place.  ReviewInv and SnapshotInv add the  *)
(* order of a review's two rows and what the session may have read.        *)
(***************************************************************************)
EXTENDS OutboxWorker, FiniteSetTheorems, TLAPS

\* The rows the worker has still to project, and the row whose document is
\* already in MongoDB.
CursorInv ==
  /\ ~InBatch => batch = {} /\ sStatus = [i \in RowIds |-> "absent"]
  /\ \A i \in batch : sStatus[i] # "absent" /\ sRetries[i] < MaxRetries
  /\ pc = "redis" => \A i \in batch : (\A j \in batch : i <= j) => i \in mongo

\* What the session holds for a row against what PostgreSQL holds.
SessionInv ==
  \A i \in RowIds : sStatus[i] # "absent" =>
    /\ status[i] \in OpenStatuses
    /\ i \notin batch =>
         /\ sStatus[i] \in {"PUBLISHED", "FAILED", "DEAD_LETTER"}
         /\ sStatus[i] = "PUBLISHED" => i \in mongo \cap applied
         /\ sStatus[i] = "FAILED" => sRetries[i] < MaxRetries

\* Rows that have not failed yet, in PostgreSQL's eyes, have retries left.
PendingInv == \A i \in RowIds : status[i] \in {"absent", "PENDING"} => retries[i] < MaxRetries

Inv == TypeOK /\ CursorInv /\ SessionInv /\ PendingInv
       /\ PublishedIsProjected /\ NoStrandedRow

\* Init satisfies the invariant.
LEMMA InitInv == Init => Inv
<1> SUFFICES ASSUME Init PROVE Inv
  OBVIOUS
<1>1. TypeOK
  <2>1. /\ review \in [Reviews -> {"none", "PENDING"} \cup Resolutions]
        /\ version \in [Appointments -> Nat]
        /\ announced \in [Appointments -> Nat]
        /\ event \in [RowIds -> Events \cup {NoEvent}]
    BY DEF Init
  <2>2. /\ status \in [RowIds -> RowStatuses]
        /\ sStatus \in [RowIds -> RowStatuses]
    BY DEF Init, RowStatuses
  <2>3. /\ retries \in [RowIds -> 0..MaxRetries]
        /\ sRetries \in [RowIds -> 0..MaxRetries]
    BY WorkerAssumption DEF Init
  <2>4. /\ loaded \in [Appointments -> Snapshots]
        /\ cache \in [Appointments -> Snapshots]
        /\ reading \in [Appointments -> Snapshots]
    BY DEF Init, Snapshots
  <2>5. /\ due \in SUBSET RowIds /\ batch \in SUBSET RowIds
        /\ mongo \in SUBSET RowIds /\ applied \in SUBSET RowIds
        /\ pendingKey \in SUBSET Reviews /\ tainted \in SUBSET Appointments
    BY DEF Init
  <2>6. pc \in WorkerStates /\ crashes \in 0..MaxCrashes /\ reads \in 0..MaxReads
    BY WorkerAssumption DEF Init, WorkerStates
  <2> QED
    BY <2>1, <2>2, <2>3, <2>4, <2>5, <2>6 DEF TypeOK
<1>2. CursorInv /\ SessionInv
  BY DEF Init, CursorInv, SessionInv, InBatch
<1>3. PendingInv /\ NoStrandedRow
  BY WorkerAssumption DEF Init, PendingInv, NoStrandedRow
<1>4. PublishedIsProjected
  BY DEF Init, PublishedIsProjected
<1> QED
  BY <1>1, <1>2, <1>3, <1>4 DEF Inv

\* An insertion into outbox_events, whatever else the transaction does to the
\* typed reviews and versions, disturbs nothing.
LEMMA AppendInv ==
  ASSUME NEW i \in RowIds, NEW kind, NEW key,
         Inv, AppendRow(i, kind, key),
         [kind |-> kind, key |-> key] \in Events,
         review' \in [Reviews -> {"none", "PENDING"} \cup Resolutions],
         version' \in [Appointments -> Nat],
         announced' \in [Appointments -> Nat]
  PROVE Inv'
<1> USE DEF AppendRow, Fresh, workerVars, modelVars, redisVars, readVars
<1>1. TypeOK'
  <2>1. event' \in [RowIds -> Events \cup {NoEvent}]
    BY DEF Inv, TypeOK
  <2>2. status' \in [RowIds -> RowStatuses]
    BY DEF Inv, TypeOK, RowStatuses
  <2> QED
    BY <2>1, <2>2 DEF Inv, TypeOK
<1>2. CursorInv'
  BY DEF Inv, TypeOK, CursorInv, InBatch
<1>3. SessionInv'
  BY DEF Inv, TypeOK, SessionInv, OpenStatuses
<1>4. PendingInv' /\ PublishedIsProjected' /\ NoStrandedRow'
  BY DEF Inv, TypeOK, PendingInv, PublishedIsProjected, NoStrandedRow
<1> QED
  BY <1>1, <1>2, <1>3, <1>4 DEF Inv

\* Every business transaction is such an insertion.
LEMMA CommandsInv == Inv /\ Commands => Inv'
<1> SUFFICES ASSUME Inv, NEW i \in RowIds,
                    \/ \E r \in Reviews : StorePendingReview(r, i)
                    \/ \E r \in Reviews, res \in Resolutions : ResolvePendingReview(r, res, i)
                    \/ \E a \in Appointments : ChangeAppointment(a, i)
                    \/ \E a \in Appointments, kind \in Announced : Announce(kind, a, i)
             PROVE Inv'
  BY DEF Commands
<1>1. ASSUME NEW r \in Reviews, StorePendingReview(r, i) PROVE Inv'
  BY <1>1, AppendInv DEF StorePendingReview, Inv, TypeOK, Events
<1>2. ASSUME NEW r \in Reviews, NEW res \in Resolutions, ResolvePendingReview(r, res, i)
      PROVE Inv'
  BY <1>2, AppendInv DEF ResolvePendingReview, Inv, TypeOK, Events
<1>3. ASSUME NEW a \in Appointments, ChangeAppointment(a, i) PROVE Inv'
  BY <1>3, AppendInv DEF ChangeAppointment, Inv, TypeOK, Events
<1>4. ASSUME NEW a \in Appointments, NEW kind \in Announced, Announce(kind, a, i)
      PROVE Inv'
  BY <1>4, AppendInv, WorkerAssumption DEF Announce, Inv, TypeOK, Events
<1> QED
  BY <1>1, <1>2, <1>3, <1>4

-----------------------------------------------------------------------------
\* What project_to_redis may write is typed, and it touches nothing else.
LEMMA RedisEffectTyped ==
  ASSUME TypeOK, NEW i \in RowIds, RedisEffect(i)
  PROVE /\ pendingKey' \in SUBSET Reviews
        /\ cache' \in [Appointments -> Snapshots]
        /\ tainted' \in SUBSET Appointments
        /\ loaded' \in [Appointments -> Snapshots]
<1> DEFINE key == event[i].key
<1>0. event[i] \in Events \cup {NoEvent}
  BY DEF TypeOK
<1>1. CASE event[i].kind = "ReviewCreated"
  <2>1. key \in Reviews
    BY <1>0, <1>1 DEF Events, NoEvent, AnnouncementKinds
  <2> QED
    BY <1>1, <2>1 DEF RedisEffect, TypeOK
<1>2. CASE event[i].kind = "ReviewResolved"
  BY <1>2 DEF RedisEffect, TypeOK
<1>3. CASE event[i].kind = "AppointmentChanged"
  <2>1. key \in Appointments
    BY <1>0, <1>3 DEF Events, NoEvent, AnnouncementKinds
  <2>2. PICK snapshot \in {version[key]} \cup ({loaded[key]} \ {None}) :
             \E left \in {snapshot, None, cache[key]} :
               /\ loaded' = [loaded EXCEPT ![key] = snapshot]
               /\ cache' = [cache EXCEPT ![key] = left]
               /\ tainted' = IF left \in {snapshot, None} THEN tainted \ {key}
                                                         ELSE tainted \cup {key}
               /\ UNCHANGED pendingKey
    BY <1>3 DEF RedisEffect
  <2>3. snapshot \in Snapshots
    BY <2>1, <2>2 DEF TypeOK, Snapshots
  <2>4. \A left \in {snapshot, None, cache[key]} : left \in Snapshots
    BY <2>1, <2>3 DEF TypeOK, Snapshots
  <2> QED
    BY <2>1, <2>2, <2>3, <2>4 DEF TypeOK
<1>4. CASE event[i].kind = "AlertCreated"
  <2>1. key \in Appointments
    BY <1>0, <1>4 DEF Events, NoEvent, AnnouncementKinds
  <2>2. \A left \in {None, cache[key]} : left \in Snapshots
    BY <2>1 DEF TypeOK, Snapshots
  <2> QED
    BY <1>4, <2>1, <2>2 DEF RedisEffect, TypeOK
<1>5. CASE event[i].kind \notin {"ReviewCreated", "ReviewResolved",
                                "AppointmentChanged", "AlertCreated"}
  BY <1>5 DEF RedisEffect, TypeOK, redisVars
<1> QED
  BY <1>1, <1>2, <1>3, <1>4, <1>5

\* A step that leaves the rows and the session alone keeps the invariant.
LEMMA ReadModelsInv ==
  ASSUME Inv, TypeOK', InBatch' = InBatch, pc = "redis" <=> pc' = "redis",
         UNCHANGED <<status, retries, batch, sStatus, sRetries, mongo, applied>>
  PROVE Inv'
BY DEF Inv, CursorInv, SessionInv, PendingInv, PublishedIsProjected, NoStrandedRow

\* GET /arrivals/{id} and the passing of time.
LEMMA ReadersInv ==
  ASSUME Inv,
         \/ \E a \in Appointments : AmendAppointment(a) \/ ReadMiss(a) \/ ReadFill(a)
         \/ \E i \in RowIds : BackoffElapses(i)
  PROVE Inv'
<1> USE DEF pgVars, workerVars, modelVars, redisVars, readVars, InBatch
<1>1. ASSUME NEW a \in Appointments, ReadMiss(a) PROVE Inv'
  <2>1. reads' \in 0..MaxReads
    BY <1>1, WorkerAssumption DEF ReadMiss, Inv, TypeOK
  <2>2. cache' \in [Appointments -> Snapshots] /\ reading' \in [Appointments -> Snapshots]
    BY <1>1 DEF ReadMiss, Inv, TypeOK, Snapshots
  <2>3. TypeOK'
    BY <1>1, <2>1, <2>2 DEF ReadMiss, Inv, TypeOK
  <2> QED
    BY <1>1, <2>3, ReadModelsInv DEF ReadMiss
<1>2. ASSUME NEW a \in Appointments, ReadFill(a) PROVE Inv'
  <2>1. cache' \in [Appointments -> Snapshots] /\ reading' \in [Appointments -> Snapshots]
    BY <1>2 DEF ReadFill, Inv, TypeOK, Snapshots
  <2>2. TypeOK'
    BY <1>2, <2>1 DEF ReadFill, Inv, TypeOK
  <2> QED
    BY <1>2, <2>2, ReadModelsInv DEF ReadFill
<1>3. ASSUME NEW i \in RowIds, BackoffElapses(i) PROVE Inv'
  <2>1. TypeOK'
    BY <1>3 DEF BackoffElapses, Inv, TypeOK
  <2> QED
    BY <1>3, <2>1, ReadModelsInv DEF BackoffElapses
<1>4. ASSUME NEW a \in Appointments, AmendAppointment(a) PROVE Inv'
  <2>1. TypeOK'
    BY <1>4 DEF AmendAppointment, Inv, TypeOK
  <2> QED
    BY <1>4, <2>1, ReadModelsInv DEF AmendAppointment
<1> QED
  BY <1>1, <1>2, <1>3, <1>4

\* Start and warm-up touch no row.
LEMMA StartInv ==
  ASSUME Inv, Start \/ WarmUp
  PROVE Inv'
<1> USE DEF pgVars, workerVars, modelVars, redisVars, readVars
<1>1. CASE Start
  <2>1. TypeOK'
    BY <1>1 DEF Start, Inv, TypeOK, WorkerStates, Snapshots
  <2> QED
    BY <1>1, <2>1, ReadModelsInv DEF Start, InBatch
<1>2. CASE WarmUp
  <2>1. PICK lost \in SUBSET Appointments :
             /\ cache' = [a \in Appointments |->
                            IF a \in lost THEN cache[a] ELSE loaded[a]]
             /\ tainted' = tainted \cup {a \in Appointments : ~Shows(a, cache'[a])}
    BY <1>2 DEF WarmUp
  <2>2. cache' \in [Appointments -> Snapshots] /\ tainted' \in SUBSET Appointments
    BY <2>1 DEF Inv, TypeOK
  <2>3. loaded' \in [Appointments -> Snapshots]
    BY <1>2 DEF WarmUp, Snapshots
  <2>4. TypeOK'
    BY <1>2, <2>2, <2>3 DEF WarmUp, Inv, TypeOK, WorkerStates
  <2> QED
    BY <1>2, <2>4, ReadModelsInv DEF WarmUp, InBatch
<1> QED
  BY <1>1, <1>2

-----------------------------------------------------------------------------
\* A fetched row is open and has retries left.
LEMMA FetchInv ==
  ASSUME Inv, FetchBatch
  PROVE Inv'
<1> USE DEF FetchBatch, OpenSession, FirstRows, pgVars, modelVars, redisVars, readVars
<1>1. batch' \subseteq Projectable /\ Projectable \subseteq RowIds
  BY DEF Projectable
<1>2. \A i \in batch' : status[i] \in OpenStatuses /\ retries[i] < MaxRetries
  BY <1>1 DEF Inv, PendingInv, NoStrandedRow, Projectable, OpenStatuses
<1>3. TypeOK'
  <2>1. sStatus' \in [RowIds -> RowStatuses]
    BY DEF Inv, TypeOK, RowStatuses
  <2>2. sRetries' \in [RowIds -> 0..MaxRetries]
    BY WorkerAssumption DEF Inv, TypeOK
  <2>3. loaded' \in [Appointments -> Snapshots]
    BY DEF Snapshots
  <2> QED
    BY <1>1, <2>1, <2>2, <2>3 DEF Inv, TypeOK, WorkerStates
<1>4. CursorInv'
  BY <1>1, <1>2 DEF CursorInv, InBatch, OpenStatuses
<1>5. SessionInv'
  BY <1>1, <1>2 DEF SessionInv, OpenStatuses
<1>6. PendingInv' /\ PublishedIsProjected' /\ NoStrandedRow'
  BY DEF Inv, PendingInv, PublishedIsProjected, NoStrandedRow
<1> QED
  BY <1>3, <1>4, <1>5, <1>6 DEF Inv

\* The document of the current row reaches MongoDB.
LEMMA ProjectToMongoInv ==
  ASSUME Inv, NEW i \in RowIds, ProjectToMongo(i)
  PROVE Inv'
<1> USE DEF ProjectToMongo, AtRow, AtAnyRow, pgVars, redisVars, readVars
<1>1. TypeOK'
  BY DEF Inv, TypeOK, WorkerStates
<1>2. CursorInv'
  <2> SUFFICES ASSUME NEW j \in batch, \A k \in batch : j <= k PROVE j \in mongo'
    BY DEF Inv, CursorInv, InBatch
  <2>1. j <= i /\ i <= j /\ i \in Nat /\ j \in Nat
    BY WorkerAssumption DEF Inv, TypeOK
  <2> QED
    BY <2>1
<1>3. SessionInv' /\ PendingInv' /\ PublishedIsProjected' /\ NoStrandedRow'
  BY DEF Inv, SessionInv, PendingInv, PublishedIsProjected, NoStrandedRow
<1> QED
  BY <1>1, <1>2, <1>3 DEF Inv

\* The current row leaves the batch with the verdict PUBLISHED.
LEMMA ProjectToRedisInv ==
  ASSUME Inv, NEW i \in RowIds, ProjectToRedis(i)
  PROVE Inv'
<1> USE DEF ProjectToRedis, AtRow, AtAnyRow, pgVars, readVars
<1>1. TypeOK'
  <2>1. sStatus' \in [RowIds -> RowStatuses]
    BY DEF Inv, TypeOK, RowStatuses
  <2> QED
    BY <2>1, RedisEffectTyped DEF Inv, TypeOK, WorkerStates
<1>2. i \in mongo
  BY DEF Inv, CursorInv
<1>3. CursorInv'
  BY DEF Inv, CursorInv, InBatch, TypeOK
<1>4. SessionInv'
  <2> SUFFICES ASSUME NEW j \in RowIds, sStatus'[j] # "absent"
               PROVE /\ status[j] \in OpenStatuses
                     /\ j \notin batch' =>
                          /\ sStatus'[j] \in {"PUBLISHED", "FAILED", "DEAD_LETTER"}
                          /\ sStatus'[j] = "PUBLISHED" => j \in mongo \cap applied'
                          /\ sStatus'[j] = "FAILED" => sRetries[j] < MaxRetries
    BY DEF SessionInv
  <2>1. CASE j = i
    BY <1>2, <2>1 DEF Inv, CursorInv, SessionInv, TypeOK
  <2>2. CASE j # i
    BY <2>2 DEF Inv, SessionInv, TypeOK
  <2> QED
    BY <2>1, <2>2
<1>5. PendingInv' /\ PublishedIsProjected' /\ NoStrandedRow'
  BY DEF Inv, PendingInv, PublishedIsProjected, NoStrandedRow
<1> QED
  BY <1>1, <1>3, <1>4, <1>5 DEF Inv

\* The current row leaves the batch with one retry less, or for good.
LEMMA ProjectionFailsInv ==
  ASSUME Inv, NEW i \in RowIds, NEW permanent \in BOOLEAN, ProjectionFails(i, permanent)
  PROVE Inv'
<1> USE DEF ProjectionFails, AtRow, AtAnyRow, pgVars, readVars
<1>1. i \in batch /\ sRetries[i] \in Nat /\ sRetries[i] < MaxRetries /\ MaxRetries \in Nat
  BY WorkerAssumption DEF Inv, CursorInv, TypeOK
<1>2. mongo \subseteq mongo' /\ mongo' \in SUBSET RowIds
  BY DEF Inv, TypeOK
<1>3. TypeOK'
  <2>1. sStatus' \in [RowIds -> RowStatuses]
    BY DEF Inv, TypeOK, RowStatuses, Verdict
  <2>2. sRetries' \in [RowIds -> 0..MaxRetries]
    BY <1>1 DEF Inv, TypeOK
  <2>3. /\ pendingKey' \in SUBSET Reviews
        /\ cache' \in [Appointments -> Snapshots]
        /\ tainted' \in SUBSET Appointments
        /\ loaded' \in [Appointments -> Snapshots]
    <3>1. CASE RedisEffect(i)
      BY <3>1, RedisEffectTyped DEF Inv
    <3>2. CASE UNCHANGED <<redisVars, loaded>>
      BY <3>2 DEF redisVars, Inv, TypeOK
    <3> QED
      BY <3>1, <3>2
  <2> QED
    BY <1>2, <2>1, <2>2, <2>3 DEF Inv, TypeOK, WorkerStates
<1>4. CursorInv'
  BY <1>1 DEF Inv, CursorInv, InBatch, TypeOK
<1>5. SessionInv'
  <2> SUFFICES ASSUME NEW j \in RowIds, sStatus'[j] # "absent"
               PROVE /\ status[j] \in OpenStatuses
                     /\ j \notin batch' =>
                          /\ sStatus'[j] \in {"PUBLISHED", "FAILED", "DEAD_LETTER"}
                          /\ sStatus'[j] = "PUBLISHED" => j \in mongo' \cap applied
                          /\ sStatus'[j] = "FAILED" => sRetries'[j] < MaxRetries
    BY DEF SessionInv
  <2>1. CASE j = i
    BY <1>1, <2>1 DEF Inv, CursorInv, SessionInv, TypeOK, Verdict
  <2>2. CASE j # i
    BY <1>2, <2>2 DEF Inv, SessionInv, TypeOK
  <2> QED
    BY <2>1, <2>2
<1>6. PendingInv' /\ PublishedIsProjected' /\ NoStrandedRow'
  BY <1>2 DEF Inv, PendingInv, PublishedIsProjected, NoStrandedRow
<1> QED
  BY <1>3, <1>4, <1>5, <1>6 DEF Inv

\* An ended session is typed.
LEMMA CloseSessionTyped ==
  CloseSession => /\ batch' = {}
                  /\ sStatus' \in [RowIds -> RowStatuses]
                  /\ sRetries' \in [RowIds -> 0..MaxRetries]
BY WorkerAssumption DEF CloseSession, RowStatuses

\* The commit carries the verdicts over; SessionInv makes them safe.
LEMMA CommitInv ==
  ASSUME Inv, CommitBatch
  PROVE Inv'
<1> USE DEF CommitBatch, modelVars, redisVars, readVars
<1>1. TypeOK'
  <2>1. status' \in [RowIds -> RowStatuses] /\ retries' \in [RowIds -> 0..MaxRetries]
    BY DEF Inv, TypeOK
  <2>2. due' \in SUBSET RowIds
    BY DEF Inv, TypeOK
  <2> QED
    BY <2>1, <2>2, CloseSessionTyped DEF Inv, TypeOK, WorkerStates
<1>2. CursorInv' /\ SessionInv'
  BY DEF CloseSession, CursorInv, SessionInv, InBatch
<1>3. ASSUME NEW i \in RowIds
      PROVE \/ status'[i] = status[i] /\ retries'[i] = retries[i]
            \/ /\ status'[i] \in {"PUBLISHED", "FAILED", "DEAD_LETTER"}
               /\ status'[i] = "PUBLISHED" => i \in mongo \cap applied
               /\ status'[i] = "FAILED" => retries'[i] < MaxRetries
  BY DEF Inv, SessionInv
<1>4. PendingInv' /\ PublishedIsProjected' /\ NoStrandedRow'
  BY <1>3 DEF Inv, PendingInv, PublishedIsProjected, NoStrandedRow
<1> QED
  BY <1>1, <1>2, <1>4 DEF Inv

\* A rollback or a crash forgets the session and leaves the rows open.
LEMMA AbandonInv ==
  ASSUME Inv, RollBackBatch \/ Crash
  PROVE Inv'
<1> USE DEF RollBackBatch, Crash, pgVars, modelVars, redisVars, readVars
<1>1. TypeOK'
  <2>1. crashes' \in 0..MaxCrashes
    BY WorkerAssumption DEF Inv, TypeOK
  <2> QED
    BY <2>1, CloseSessionTyped DEF Inv, TypeOK, WorkerStates
<1>2. CursorInv' /\ SessionInv'
  BY DEF CloseSession, CursorInv, SessionInv, InBatch
<1>3. PendingInv' /\ PublishedIsProjected' /\ NoStrandedRow'
  BY DEF Inv, PendingInv, PublishedIsProjected, NoStrandedRow
<1> QED
  BY <1>1, <1>2, <1>3 DEF Inv

\* Every step keeps the invariant.
LEMMA NextInv == Inv /\ [Next]_vars => Inv'
<1> SUFFICES ASSUME Inv, [Next]_vars PROVE Inv'
  OBVIOUS
<1>1. CASE Commands
  BY <1>1, CommandsInv
<1>2. CASE \E a \in Appointments : AmendAppointment(a) \/ ReadMiss(a) \/ ReadFill(a)
  BY <1>2, ReadersInv
<1>3. CASE \E i \in RowIds : BackoffElapses(i)
  BY <1>3, ReadersInv
<1>4. CASE Worker
  BY <1>4, StartInv, FetchInv, CommitInv, ProjectToMongoInv, ProjectToRedisInv
     DEF Worker, ProjectRow
<1>5. CASE \E i \in RowIds, permanent \in BOOLEAN : ProjectionFails(i, permanent)
  BY <1>5, ProjectionFailsInv
<1>6. CASE RollBackBatch \/ Crash
  BY <1>6, AbandonInv
<1>7. CASE UNCHANGED vars
  <2>1. TypeOK'
    BY <1>7 DEF vars, pgVars, workerVars, modelVars, redisVars, readVars, Inv, TypeOK
  <2> QED
    BY <1>7, <2>1, ReadModelsInv
       DEF vars, pgVars, workerVars, modelVars, redisVars, readVars, InBatch
<1> QED
  BY <1>1, <1>2, <1>3, <1>4, <1>5, <1>6, <1>7 DEF Next

\* The invariant holds in every reachable state.
THEOREM Invariance == Spec => []Inv
BY InitInv, NextInv, PTL DEF Spec

\* Type correctness of the outbox, the worker and the read models.
THEOREM TypeCorrect == Spec => []TypeOK
<1>1. Inv => TypeOK
  BY DEF Inv
<1> QED
  BY <1>1, Invariance, PTL

\* process_batch never acknowledges a row that was not projected.
THEOREM NothingLost == Spec => []PublishedIsProjected
<1>1. Inv => PublishedIsProjected
  BY DEF Inv
<1> QED
  BY <1>1, Invariance, PTL

\* No row is left FAILED where fetch_projectable_rows cannot select it.
THEOREM NothingStranded == Spec => []NoStrandedRow
<1>1. Inv => NoStrandedRow
  BY DEF Inv
<1> QED
  BY <1>1, Invariance, PTL

-----------------------------------------------------------------------------
(* Reviews: the two rows of a review are projected in the order of their    *)
(* ids unless the first one fails.                                          *)

Created(r)  == RowsOf("ReviewCreated", r)
Resolved(r) == RowsOf("ReviewResolved", r)

\* A row in the batch is as PostgreSQL has it; one that failed has a retry less.
FailureInv ==
  /\ \A i \in RowIds : status[i] = "FAILED" => retries[i] > 0
  /\ \A i \in batch : sStatus[i] = status[i] /\ sRetries[i] = retries[i]
  /\ \A i \in RowIds \ batch : sStatus[i] = "FAILED" => sRetries[i] > 0

\* Row i was published, or will be by the commit, at the first attempt.
Clean(i) == \/ status[i] = "PUBLISHED" /\ retries[i] = 0
            \/ sStatus[i] = "PUBLISHED" /\ sRetries[i] = 0
Done(i)  == status[i] = "PUBLISHED" \/ sStatus[i] = "PUBLISHED"

\* A review has at most one row of each kind, the resolution after the creation.
ReviewRows(r) ==
  /\ review[r] = "none" => Created(r) = {} /\ Resolved(r) = {}
  /\ review[r] = "PENDING" => Resolved(r) = {}
  /\ \A i, k \in Created(r) : i = k
  /\ \A i \in Created(r), j \in Resolved(r) : i < j

\* While the creation has not been tried, the resolution is not ahead of it: a
\* batch that holds the resolution holds the creation, and projects it first.
InOrder(r, i, j) ==
  /\ status[i] = "PENDING" => status[j] = "PENDING"
  /\ sStatus[j] # "absent" /\ status[i] = "PENDING" => sStatus[i] # "absent"
  /\ sStatus[j] # "absent" /\ i \in batch => j \in batch
  /\ Clean(i) /\ Done(j) => r \notin pendingKey

ReviewInv ==
  \A r \in Reviews :
    ReviewRows(r) /\ \A i \in Created(r), j \in Resolved(r) : InOrder(r, i, j)

\* project_to_redis, by what it can do to a pending key and to a snapshot.
LEMMA EffectOnKeys ==
  ASSUME NEW i \in RowIds, RedisEffect(i), TypeOK
  PROVE /\ \A r \in pendingKey' \ pendingKey :
             event[i] = [kind |-> "ReviewCreated", key |-> r]
        /\ \A r \in Reviews :
             event[i] = [kind |-> "ReviewResolved", key |-> r] => r \notin pendingKey'
<1> DEFINE e == event[i]
<1>0. e \in Events \cup {NoEvent}
  BY DEF TypeOK
<1>1. CASE e.kind = "ReviewCreated"
  <2>1. pendingKey' = pendingKey \cup {e.key}
    BY <1>1 DEF RedisEffect
  <2>2. e = [kind |-> "ReviewCreated", key |-> e.key]
    BY <1>0, <1>1 DEF Events, NoEvent
  <2> QED
    BY <1>1, <2>1, <2>2
<1>2. CASE e.kind = "ReviewResolved"
  <2>1. pendingKey' = pendingKey \ {e.key}
    BY <1>2 DEF RedisEffect
  <2> QED
    BY <1>2, <2>1
<1>3. CASE e.kind \notin {"ReviewCreated", "ReviewResolved"}
  <2>1. pendingKey' = pendingKey
    BY <1>3 DEF RedisEffect, redisVars
  <2> QED
    BY <1>3, <2>1
<1> QED
  BY <1>1, <1>2, <1>3

\* FailureInv: only the current row of the batch and the commit disturb it.
LEMMA FailureStep == Inv /\ FailureInv /\ [Next]_vars => FailureInv'
<1> SUFFICES ASSUME Inv, FailureInv, [Next]_vars PROVE FailureInv'
  OBVIOUS
<1> USE DEF pgVars, workerVars, modelVars, redisVars, readVars
<1>0. /\ status \in [RowIds -> RowStatuses] /\ sStatus \in [RowIds -> RowStatuses]
      /\ retries \in [RowIds -> 0..MaxRetries] /\ sRetries \in [RowIds -> 0..MaxRetries]
      /\ batch \in SUBSET RowIds /\ MaxRetries \in Nat
  BY WorkerAssumption DEF Inv, TypeOK
<1>1. CASE Commands
  <2>1. PICK i \in RowIds : /\ status[i] = "absent"
                            /\ status' = [status EXCEPT ![i] = "PENDING"]
                            /\ UNCHANGED <<retries, batch, sStatus, sRetries>>
    BY <1>1 DEF Commands, StorePendingReview, ResolvePendingReview, ChangeAppointment,
           Announce, AppendRow, Fresh
  <2>2. i \notin batch
    BY <2>1 DEF Inv, CursorInv, SessionInv, OpenStatuses
  <2> QED
    BY <1>0, <2>1, <2>2 DEF FailureInv
<1>2. CASE UNCHANGED <<status, retries, batch, sStatus, sRetries>>
  BY <1>2 DEF FailureInv
<1>3. CASE FetchBatch
  BY <1>0, <1>3 DEF FetchBatch, OpenSession, FirstRows, Projectable, FailureInv
<1>4. ASSUME NEW i \in RowIds,
             ProjectToRedis(i) \/ \E permanent \in BOOLEAN : ProjectionFails(i, permanent)
      PROVE FailureInv'
  <2>1. /\ UNCHANGED <<status, retries>> /\ batch' = batch \ {i}
        /\ \A j \in RowIds \ {i} : sStatus'[j] = sStatus[j] /\ sRetries'[j] = sRetries[j]
    BY <1>0, <1>4 DEF ProjectToRedis, ProjectionFails
  <2>2. sStatus'[i] = "PUBLISHED" \/ sRetries'[i] > 0
    BY <1>0, <1>4 DEF ProjectToRedis, ProjectionFails
  <2> QED
    BY <1>0, <2>1, <2>2 DEF FailureInv
<1>5. CASE CommitBatch
  BY <1>0, <1>5 DEF CommitBatch, CloseSession, FailureInv
<1>6. CASE RollBackBatch \/ Crash
  BY <1>6 DEF RollBackBatch, Crash, CloseSession, FailureInv
<1>7. CASE Start \/ WarmUp \/ \E i \in RowIds : ProjectToMongo(i) \/ BackoffElapses(i)
  BY <1>2, <1>7 DEF Start, WarmUp, ProjectToMongo, BackoffElapses
<1>8. CASE \E a \in Appointments : AmendAppointment(a) \/ ReadMiss(a) \/ ReadFill(a)
  BY <1>2, <1>8 DEF AmendAppointment, ReadMiss, ReadFill
<1>9. CASE UNCHANGED vars
  BY <1>2, <1>9 DEF vars
<1> QED
  BY <1>1, <1>3, <1>4, <1>5, <1>6, <1>7, <1>8, <1>9 DEF Next, Worker, ProjectRow

-----------------------------------------------------------------------------
\* A row and those before it: what is taken up has its elders with it.
LEMMA EldersFirst ==
  ASSUME NEW S \in SUBSET Nat, NEW i \in S, NEW j \in FirstRows(S), i < j
  PROVE i \in FirstRows(S)
<1> DEFINE Before(n) == {k \in S : k < n}
<1>1. i \in Nat /\ j \in Nat /\ Cardinality(Before(j)) < BatchSize /\ BatchSize \in Nat
  BY WorkerAssumption DEF FirstRows
<1>2. IsFiniteSet(Before(j))
  BY <1>1, FS_BoundedSetOfNaturals
<1>3. Before(i) \in SUBSET Before(j)
  <2>1. ASSUME NEW k \in Before(i) PROVE k \in Before(j)
    <3>1. k \in S /\ k \in Nat /\ k < i
      OBVIOUS
    <3>2. k < j
      BY <1>1, <3>1
    <3> QED
      BY <3>1, <3>2
  <2> QED
    BY <2>1
<1>4. /\ Cardinality(Before(i)) <= Cardinality(Before(j))
      /\ IsFiniteSet(Before(i))
  BY <1>2, <1>3, FS_Subset
<1>5. Cardinality(Before(i)) \in Nat /\ Cardinality(Before(j)) \in Nat
  BY <1>2, <1>4, FS_CardinalityType
<1> QED
  BY <1>1, <1>4, <1>5 DEF FirstRows

\* A new row of a review, or of anything else.
LEMMA AppendReview ==
  ASSUME Inv, ReviewInv, NEW n \in RowIds, NEW kind, NEW key, AppendRow(n, kind, key),
         NEW r \in Reviews,
         \/ UNCHANGED review /\ (kind \notin {"ReviewCreated", "ReviewResolved"})
         \/ /\ kind = "ReviewCreated" /\ key \in Reviews /\ review[key] = "none"
            /\ review' = [review EXCEPT ![key] = "PENDING"]
         \/ /\ kind = "ReviewResolved" /\ key \in Reviews /\ review[key] = "PENDING"
            /\ \E res \in Resolutions : review' = [review EXCEPT ![key] = res]
  PROVE ReviewRows(r)' /\ \A i \in Created(r)', j \in Resolved(r)' : InOrder(r, i, j)'
<1> USE DEF AppendRow, modelVars, redisVars, workerVars
<1>0. /\ event' = [event EXCEPT ![n] = [kind |-> kind, key |-> key]]
      /\ status' = [status EXCEPT ![n] = "PENDING"] /\ status[n] = "absent"
      /\ \A k \in RowIds : event[k].key = key => k < n
      /\ UNCHANGED <<retries, batch, sStatus, sRetries, pendingKey>>
  BY DEF Fresh
<1>1. /\ event \in [RowIds -> Events \cup {NoEvent}] /\ status \in [RowIds -> RowStatuses]
      /\ review \in [Reviews -> {"none", "PENDING"} \cup Resolutions]
  BY DEF Inv, TypeOK
<1>2. sStatus[n] = "absent" /\ n \notin batch
  BY <1>0 DEF Inv, SessionInv, CursorInv, OpenStatuses
<1>3. /\ Created(r)' \subseteq Created(r) \cup {n}
      /\ Resolved(r)' \subseteq Resolved(r) \cup {n}
      /\ n \in Created(r)' => kind = "ReviewCreated" /\ key = r
      /\ n \in Resolved(r)' => kind = "ReviewResolved" /\ key = r
  BY <1>0, <1>1 DEF Created, Resolved, RowsOf
<1>4. /\ ReviewRows(r)
      /\ \A i \in Created(r), j \in Resolved(r) : InOrder(r, i, j)
  BY DEF ReviewInv
<1>5. CASE kind = "ReviewCreated" /\ key = r
  <2>1. Created(r) = {} /\ Resolved(r) = {} /\ review[r] = "none" /\ review'[r] = "PENDING"
    BY <1>1, <1>4, <1>5 DEF ReviewRows
  <2>2. Resolved(r)' = {} /\ Created(r)' \subseteq {n}
    BY <1>3, <1>5, <2>1
  <2> QED
    BY <2>1, <2>2 DEF ReviewRows
<1>6. CASE kind = "ReviewResolved" /\ key = r
  <2>1. Resolved(r) = {} /\ review'[r] \notin {"none", "PENDING"}
    BY <1>1, <1>4, <1>6 DEF ReviewRows, Resolutions
  <2>2. Resolved(r)' \subseteq {n} /\ Created(r)' \subseteq Created(r) /\ n \notin Created(r)'
    BY <1>3, <1>6, <2>1
  <2>3. \A i \in Created(r) : i < n
    BY <1>0, <1>6 DEF Created, RowsOf
  <2>4. ReviewRows(r)'
    BY <1>4, <2>1, <2>2, <2>3 DEF ReviewRows
  <2>5. ASSUME NEW i \in Created(r)' PROVE InOrder(r, i, n)'
    BY <1>0, <1>1, <1>2, <2>2 DEF InOrder, Clean, Done
  <2> QED
    BY <2>2, <2>4, <2>5
<1>7. CASE ~(kind \in {"ReviewCreated", "ReviewResolved"} /\ key = r)
  <2>1. /\ Created(r)' \subseteq Created(r) /\ Resolved(r)' \subseteq Resolved(r)
        /\ n \notin Created(r)' /\ n \notin Resolved(r)'
    BY <1>3, <1>7
  <2>2. review'[r] = review[r]
    BY <1>1, <1>7
  <2>3. ReviewRows(r)'
    BY <1>4, <2>1, <2>2 DEF ReviewRows
  <2>4. ASSUME NEW i \in Created(r)', NEW j \in Resolved(r)' PROVE InOrder(r, i, j)'
    <3>1. /\ InOrder(r, i, j) /\ i # n /\ j # n
          /\ status'[i] = status[i] /\ status'[j] = status[j]
      BY <1>0, <1>1, <1>4, <2>1 DEF Created, Resolved, RowsOf
    <3> QED
      BY <1>0, <3>1 DEF InOrder, Clean, Done
  <2> QED
    BY <2>3, <2>4
<1> QED
  BY <1>5, <1>6, <1>7

\* A step of the worker changes no review: only the order is at stake.
LEMMA ReviewKept ==
  ASSUME ReviewInv, UNCHANGED <<review, event>>,
         \A r \in Reviews : \A i \in Created(r), j \in Resolved(r) :
           i < j /\ InOrder(r, i, j) => InOrder(r, i, j)'
  PROVE ReviewInv'
<1>1. \A r \in Reviews : Created(r)' = Created(r) /\ Resolved(r)' = Resolved(r)
  BY DEF Created, Resolved, RowsOf
<1>2. \A r \in Reviews : ReviewRows(r)'
  BY <1>1 DEF ReviewInv, ReviewRows
<1>3. \A r \in Reviews : \A i \in Created(r), j \in Resolved(r) : InOrder(r, i, j)'
  BY DEF ReviewInv, ReviewRows
<1> QED
  BY <1>1, <1>2, <1>3 DEF ReviewInv

\* The fetch of a batch.
LEMMA FetchReview ==
  ASSUME Inv, ReviewInv, FetchBatch
  PROVE ReviewInv'
<1> USE DEF FetchBatch, OpenSession, pgVars, modelVars, redisVars
<1>1. ASSUME NEW r \in Reviews, NEW i \in Created(r), NEW j \in Resolved(r),
             i < j, InOrder(r, i, j)
      PROVE InOrder(r, i, j)'
  <2>0. i \in RowIds /\ j \in RowIds
    BY DEF Created, Resolved, RowsOf
  <2>1. sStatus'[j] # "absent" => j \in batch'
    BY <2>0
  <2>2. j \in batch' /\ status[i] = "PENDING" => i \in batch'
    <3>1. Projectable \in SUBSET Nat /\ (status[i] = "PENDING" => i \in Projectable)
      BY <2>0, WorkerAssumption DEF Projectable
    <3> QED
      BY <1>1, <3>1, EldersFirst
  <2>3. \A k \in {i, j} : /\ sStatus'[k] \in {status[k], "absent"} /\ sStatus'[k] # "PUBLISHED"
                          /\ k \in batch' => sStatus'[k] = status[k]
    BY <2>0 DEF FirstRows, Projectable
  <2> QED
    BY <1>1, <2>1, <2>2, <2>3 DEF InOrder, Clean, Done
<1> QED
  BY <1>1, ReviewKept

\* The projection of the current row, with or without an exception.
LEMMA ProjectReview ==
  ASSUME Inv, FailureInv, ReviewInv, NEW n \in RowIds,
         ProjectToRedis(n) \/ \E permanent \in BOOLEAN : ProjectionFails(n, permanent)
  PROVE ReviewInv'
<1>0. /\ AtRow(n) /\ batch' = batch \ {n} /\ n \in batch
      /\ UNCHANGED <<review, event, status, retries>>
  BY DEF ProjectToRedis, ProjectionFails, pgVars, AtRow, AtAnyRow
<1>1. /\ sStatus \in [RowIds -> RowStatuses] /\ sRetries \in [RowIds -> 0..MaxRetries]
      /\ batch \in SUBSET RowIds /\ RowIds \subseteq Nat
  BY WorkerAssumption DEF Inv, TypeOK
<1>2. /\ \A k \in RowIds \ {n} : sStatus'[k] = sStatus[k] /\ sRetries'[k] = sRetries[k]
      /\ sStatus'[n] # "absent"
      /\ sStatus'[n] = "PUBLISHED" => /\ ProjectToRedis(n)
                                      /\ sRetries'[n] = sRetries[n]
  BY <1>1 DEF ProjectToRedis, ProjectionFails, Verdict
<1>3. status[n] \in OpenStatuses /\ sStatus[n] # "absent" /\ sStatus[n] # "PUBLISHED"
  BY <1>0, <1>1 DEF Inv, CursorInv, SessionInv, FailureInv, OpenStatuses
<1>4. pendingKey' = pendingKey \/ RedisEffect(n)
  BY DEF ProjectToRedis, ProjectionFails, redisVars
<1>5. ASSUME NEW r \in Reviews, NEW i \in Created(r), NEW j \in Resolved(r),
             i < j, InOrder(r, i, j)
      PROVE InOrder(r, i, j)'
  <2>0. /\ i \in RowIds /\ j \in RowIds /\ i # j
        /\ event[i].kind = "ReviewCreated" /\ event[j].kind = "ReviewResolved"
        /\ event[j] = [kind |-> "ReviewResolved", key |-> r]
    BY DEF Created, Resolved, RowsOf
  <2>1. status'[i] = "PENDING" => status'[j] = "PENDING"
    BY <1>0, <1>5 DEF InOrder
  <2>2. sStatus'[j] # "absent" /\ status'[i] = "PENDING" => sStatus'[i] # "absent"
    BY <1>0, <1>2, <1>3, <1>5, <2>0 DEF InOrder
  <2>3. sStatus'[j] # "absent" /\ i \in batch' => j \in batch'
    <3>1. i \in batch => j # n
      <4>1. i \in batch => n <= i
        BY <1>0 DEF AtRow
      <4>2. i \in Nat /\ j \in Nat
        BY <1>1, <2>0
      <4> QED
        BY <1>5, <4>1, <4>2
    <3> QED
      BY <1>0, <1>2, <1>3, <1>5, <2>0, <3>1 DEF InOrder
  <2>4. ASSUME Clean(i)', Done(j)' PROVE r \notin pendingKey'
    <3>1. CASE n = j
      <4>1. ProjectToRedis(n)
        BY <1>0, <1>2, <1>3, <2>4, <3>1 DEF Done, OpenStatuses
      <4>2. RedisEffect(n)
        BY <4>1 DEF ProjectToRedis
      <4> QED
        BY <2>0, <3>1, <4>2, EffectOnKeys DEF Inv
    <3>2. CASE n = i
      <4>1. sStatus'[i] = "PUBLISHED" /\ sRetries[i] = 0
        BY <1>0, <1>2, <1>3, <2>4, <3>2 DEF Clean, OpenStatuses
      <4>2. retries[i] = 0
        BY <1>0, <3>2, <4>1 DEF FailureInv
      <4>3. status[i] = "PENDING"
        BY <1>3, <3>2, <4>2, <2>0 DEF FailureInv, OpenStatuses
      <4>4. status[j] = "PENDING"
        BY <1>5, <4>3 DEF InOrder
      <4>5. sStatus[j] = "PUBLISHED"
        BY <1>0, <1>2, <2>0, <2>4, <3>2, <4>4 DEF Done
      <4>6. j \in batch
        BY <1>0, <1>5, <3>2, <4>5 DEF InOrder
      <4> QED
        BY <4>4, <4>5, <4>6 DEF FailureInv
    <3>3. CASE n # i /\ n # j
      <4>1. Clean(i) /\ Done(j)
        BY <1>0, <1>2, <2>0, <2>4, <3>3 DEF Clean, Done
      <4>2. r \notin pendingKey
        BY <1>5, <4>1 DEF InOrder
      <4>3. r \in pendingKey' => event[n] = [kind |-> "ReviewCreated", key |-> r]
        BY <1>4, <4>2, EffectOnKeys DEF Inv
      <4>4. event[n] = [kind |-> "ReviewCreated", key |-> r] => n = i
        BY DEF ReviewInv, ReviewRows, Created, RowsOf
      <4> QED
        BY <3>3, <4>3, <4>4
    <3> QED
      BY <3>1, <3>2, <3>3
  <2> QED
    BY <2>1, <2>2, <2>3, <2>4 DEF InOrder
<1> QED
  BY <1>0, <1>5, ReviewKept

\* The end of a session, with its verdicts or without.
LEMMA SessionEndsReview ==
  ASSUME Inv, ReviewInv, CommitBatch \/ RollBackBatch \/ Crash
  PROVE ReviewInv'
<1> USE DEF pgVars, modelVars, redisVars, CloseSession
<1>0. UNCHANGED <<review, event, pendingKey>>
  BY DEF CommitBatch, RollBackBatch, Crash
<1>1. ASSUME NEW r \in Reviews, NEW i \in Created(r), NEW j \in Resolved(r),
             i < j, InOrder(r, i, j)
      PROVE InOrder(r, i, j)'
  <2>0. i \in RowIds /\ j \in RowIds
    BY DEF Created, Resolved, RowsOf
  <2>1. /\ batch' = {} /\ sStatus'[i] = "absent" /\ sStatus'[j] = "absent"
    BY <2>0 DEF CommitBatch, RollBackBatch, Crash
  <2>2. CASE CommitBatch
    <3>1. \A k \in {i, j} :
            \/ sStatus[k] = "absent" /\ status'[k] = status[k] /\ retries'[k] = retries[k]
            \/ /\ sStatus[k] \notin {"absent", "PENDING"}
               /\ status'[k] = sStatus[k] /\ retries'[k] = sRetries[k]
      BY <2>0, <2>2 DEF CommitBatch, Inv, SessionInv
    <3>2. status'[i] = "PENDING" => status'[j] = "PENDING"
      BY <1>1, <3>1 DEF InOrder
    <3>3. (Clean(i)' => Clean(i)) /\ (Done(j)' => Done(j))
      BY <2>1, <3>1 DEF Clean, Done
    <3> QED
      BY <1>0, <1>1, <2>1, <3>2, <3>3 DEF InOrder
  <2>3. CASE RollBackBatch \/ Crash
    <3>1. UNCHANGED <<status, retries>>
      BY <2>3 DEF RollBackBatch, Crash
    <3>2. (Clean(i)' => Clean(i)) /\ (Done(j)' => Done(j))
      BY <2>1, <3>1 DEF Clean, Done
    <3> QED
      BY <1>0, <1>1, <2>1, <3>1, <3>2 DEF InOrder
  <2> QED
    BY <2>2, <2>3
<1> QED
  BY <1>0, <1>1, ReviewKept

\* Every step keeps the reviews in order.
LEMMA ReviewStep == Inv /\ FailureInv /\ ReviewInv /\ [Next]_vars => ReviewInv'
<1> SUFFICES ASSUME Inv, FailureInv, ReviewInv, [Next]_vars PROVE ReviewInv'
  OBVIOUS
<1> USE DEF pgVars, workerVars, modelVars, redisVars, readVars
<1>1. CASE Commands
  <2> SUFFICES ASSUME NEW r \in Reviews
               PROVE ReviewRows(r)' /\ \A i \in Created(r)', j \in Resolved(r)' : InOrder(r, i, j)'
    BY DEF ReviewInv
  <2>1. PICK n \in RowIds :
             \/ \E q \in Reviews : StorePendingReview(q, n)
             \/ \E q \in Reviews, res \in Resolutions : ResolvePendingReview(q, res, n)
             \/ \E a \in Appointments : ChangeAppointment(a, n)
             \/ \E a \in Appointments, kind \in Announced : Announce(kind, a, n)
    BY <1>1 DEF Commands
  <2>2. CASE \E q \in Reviews : StorePendingReview(q, n)
    BY <2>2, AppendReview DEF StorePendingReview
  <2>3. CASE \E q \in Reviews, res \in Resolutions : ResolvePendingReview(q, res, n)
    BY <2>3, AppendReview DEF ResolvePendingReview
  <2>4. CASE \E a \in Appointments : ChangeAppointment(a, n)
    BY <2>4, AppendReview DEF ChangeAppointment
  <2>5. CASE \E a \in Appointments, kind \in Announced : Announce(kind, a, n)
    <3>1. \A kind \in Announced : kind \notin {"ReviewCreated", "ReviewResolved"}
      BY WorkerAssumption DEF AnnouncementKinds
    <3> QED
      BY <2>5, <3>1, AppendReview DEF Announce
  <2> QED
    BY <2>1, <2>2, <2>3, <2>4, <2>5
<1>2. CASE UNCHANGED <<review, event, status, retries, batch, sStatus, sRetries, pendingKey>>
  BY <1>2, ReviewKept DEF InOrder, Clean, Done
<1>3. CASE FetchBatch
  BY <1>3, FetchReview
<1>4. CASE \E i \in RowIds : ProjectToRedis(i)
           \/ \E permanent \in BOOLEAN : ProjectionFails(i, permanent)
  BY <1>4, ProjectReview
<1>5. CASE CommitBatch \/ RollBackBatch \/ Crash
  BY <1>5, SessionEndsReview
<1>6. CASE Start \/ WarmUp \/ \E i \in RowIds : ProjectToMongo(i) \/ BackoffElapses(i)
  BY <1>2, <1>6 DEF Start, WarmUp, ProjectToMongo, BackoffElapses
<1>7. CASE \E a \in Appointments : AmendAppointment(a) \/ ReadMiss(a) \/ ReadFill(a)
  BY <1>2, <1>7 DEF AmendAppointment, ReadMiss, ReadFill
<1>8. CASE UNCHANGED vars
  BY <1>2, <1>8 DEF vars
<1> QED
  BY <1>1, <1>3, <1>4, <1>5, <1>6, <1>7, <1>8 DEF Next, Worker, ProjectRow

-----------------------------------------------------------------------------
(* Snapshots: an untainted one shows every change unless its row is waiting.*)

Changes(a) == RowsOf("AppointmentChanged", a)

\* A change that neither PostgreSQL nor the session has as published.
Waiting(a) ==
  \E k \in Changes(a) : status[k] \notin {"absent", "PUBLISHED"} /\ sStatus[k] # "PUBLISHED"
\* A change that was committed after the batch was fetched.
Newer(a) == \E k \in Changes(a) : status[k] \in OpenStatuses /\ sStatus[k] = "absent"

SnapshotInv ==
  \A a \in Appointments :
    /\ announced[a] <= version[a]
    /\ InBatch => Shows(a, loaded[a]) \/ Newer(a)
    /\ a \in tainted \/ Shows(a, cache[a]) \/ Waiting(a)

\* project_to_redis, by what it can do to the snapshot of a: nothing but drop
\* it, or read a version and leave that one, none, or a tainted one.
LEMMA EffectOnSnapshot ==
  ASSUME NEW i \in RowIds, RedisEffect(i), TypeOK, NEW a \in Appointments
  PROVE \/ /\ i \notin Changes(a)
           /\ loaded'[a] = loaded[a] /\ cache'[a] \in {None, cache[a]}
           /\ a \in tainted => a \in tainted'
        \/ \E snapshot \in {version[a]} \cup ({loaded[a]} \ {None}) :
             loaded'[a] = snapshot /\ (a \in tainted' \/ cache'[a] \in {None, snapshot})
<1> DEFINE key == event[i].key
<1>0. /\ event[i] \in Events \cup {NoEvent}
      /\ loaded \in [Appointments -> Snapshots] /\ cache \in [Appointments -> Snapshots]
      /\ tainted \in SUBSET Appointments
  BY DEF TypeOK
<1>1. CASE event[i].kind = "AppointmentChanged"
  <2>1. key \in Appointments
    BY <1>0, <1>1 DEF Events, NoEvent, AnnouncementKinds
  <2>2. PICK snapshot \in {version[key]} \cup ({loaded[key]} \ {None}) :
             \E left \in {snapshot, None, cache[key]} :
               /\ loaded' = [loaded EXCEPT ![key] = snapshot]
               /\ cache' = [cache EXCEPT ![key] = left]
               /\ tainted' = IF left \in {snapshot, None} THEN tainted \ {key}
                                                         ELSE tainted \cup {key}
    BY <1>1 DEF RedisEffect
  <2>3. CASE a = key
    BY <1>0, <2>2, <2>3
  <2>4. CASE a # key
    BY <1>0, <2>2, <2>4 DEF Changes, RowsOf
  <2> QED
    BY <2>3, <2>4
<1>2. CASE event[i].kind = "AlertCreated"
  BY <1>0, <1>2 DEF RedisEffect, Changes, RowsOf
<1>3. CASE event[i].kind \notin {"AppointmentChanged", "AlertCreated"}
  BY <1>3 DEF RedisEffect, redisVars, Changes, RowsOf
<1> QED
  BY <1>1, <1>2, <1>3

\* A row that is appended.
LEMMA AppendSnapshot ==
  ASSUME Inv, SnapshotInv, NEW n \in RowIds, NEW kind, NEW key, AppendRow(n, kind, key),
         \/ UNCHANGED <<version, announced>>
         \/ /\ kind = "AppointmentChanged" /\ key \in Appointments
            /\ version' = [version EXCEPT ![key] = @ + 1]
            /\ announced' = [announced EXCEPT ![key] = version'[key]]
  PROVE SnapshotInv'
<1> USE DEF AppendRow, modelVars, redisVars, workerVars
<1>0. /\ event' = [event EXCEPT ![n] = [kind |-> kind, key |-> key]]
      /\ status' = [status EXCEPT ![n] = "PENDING"] /\ status[n] = "absent"
      /\ UNCHANGED <<pc, sStatus, loaded, cache, tainted>>
  BY DEF Fresh
<1>1. /\ event \in [RowIds -> Events \cup {NoEvent}] /\ status \in [RowIds -> RowStatuses]
      /\ version \in [Appointments -> Nat] /\ announced \in [Appointments -> Nat]
  BY DEF Inv, TypeOK
<1>2. sStatus[n] = "absent"
  BY <1>0 DEF Inv, SessionInv, OpenStatuses
<1> SUFFICES ASSUME NEW a \in Appointments
             PROVE /\ (announced[a] <= version[a])'
                   /\ InBatch' => Shows(a, loaded[a])' \/ Newer(a)'
                   /\ a \in tainted' \/ Shows(a, cache[a])' \/ Waiting(a)'
  BY DEF SnapshotInv
<1>3. CASE UNCHANGED <<version, announced>> \/ key # a
  <2>1. announced'[a] = announced[a] /\ version'[a] = version[a]
    BY <1>1, <1>3
  <2>2. \A k \in Changes(a) : k # n => k \in Changes(a)' /\ status'[k] = status[k]
    BY <1>0, <1>1 DEF Changes, RowsOf
  <2>3. (Newer(a) => Newer(a)') /\ (Waiting(a) => Waiting(a)')
    BY <1>0, <2>2 DEF Newer, Waiting, OpenStatuses
  <2> QED
    BY <1>0, <2>1, <2>3 DEF SnapshotInv, InBatch, Shows
<1>4. CASE kind = "AppointmentChanged" /\ key = a /\ announced'[a] = version'[a]
  <2>1. n \in Changes(a)' /\ status'[n] = "PENDING" /\ sStatus'[n] = "absent"
    BY <1>0, <1>1, <1>2, <1>4 DEF Changes, RowsOf
  <2>2. announced'[a] <= version'[a]
    BY <1>1, <1>4
  <2> QED
    BY <2>1, <2>2 DEF Newer, Waiting, OpenStatuses
<1> QED
  BY <1>1, <1>3, <1>4

\* A step that projects no row.
LEMMA SnapshotKept ==
  ASSUME SnapshotInv, UNCHANGED <<announced, event>>,
         \A a \in Appointments : announced[a] <= version'[a],
         InBatch' => \/ \A a \in Appointments : loaded'[a] = None
                     \/ InBatch /\ UNCHANGED <<loaded, status, sStatus>>,
         \A a \in Appointments : Waiting(a) => Waiting(a)',
         \A a \in Appointments \ tainted' :
           Shows(a, cache'[a]) \/ (a \notin tainted /\ cache'[a] = cache[a])
  PROVE SnapshotInv'
<1> SUFFICES ASSUME NEW a \in Appointments
             PROVE /\ (announced[a] <= version[a])'
                   /\ InBatch' => Shows(a, loaded[a])' \/ Newer(a)'
                   /\ a \in tainted' \/ Shows(a, cache[a])' \/ Waiting(a)'
  BY DEF SnapshotInv
<1>1. InBatch' => Shows(a, loaded[a])' \/ Newer(a)'
  BY DEF SnapshotInv, Newer, Changes, RowsOf, Shows
<1>2. a \in tainted' \/ Shows(a, cache[a])' \/ Waiting(a)'
  BY DEF SnapshotInv, Shows
<1> QED
  BY <1>1, <1>2

\* The projection of the current row, with or without an exception.
LEMMA ProjectSnapshot ==
  ASSUME Inv, FailureInv, SnapshotInv, NEW n \in RowIds,
         ProjectToRedis(n) \/ \E permanent \in BOOLEAN : ProjectionFails(n, permanent)
  PROVE SnapshotInv'
<1> SUFFICES ASSUME NEW a \in Appointments
             PROVE /\ (announced[a] <= version[a])'
                   /\ InBatch' => Shows(a, loaded[a])' \/ Newer(a)'
                   /\ a \in tainted' \/ Shows(a, cache[a])' \/ Waiting(a)'
  BY DEF SnapshotInv
<1>0. /\ InBatch /\ n \in batch /\ UNCHANGED <<version, announced, event, status>>
  BY DEF ProjectToRedis, ProjectionFails, pgVars, AtRow, AtAnyRow
<1>1. sStatus \in [RowIds -> RowStatuses]
  BY DEF Inv, TypeOK
<1>2. /\ \A k \in RowIds \ {n} : sStatus'[k] = sStatus[k]
      /\ sStatus[n] # "absent"
      /\ sStatus'[n] = "PUBLISHED" => ProjectToRedis(n)
  BY <1>0, <1>1 DEF ProjectToRedis, ProjectionFails, Verdict, Inv, CursorInv
<1>3. Changes(a)' = Changes(a) /\ Changes(a) \subseteq RowIds
  BY <1>0 DEF Changes, RowsOf
<1>4. Newer(a) => Newer(a)' /\ Waiting(a)'
  BY <1>0, <1>2, <1>3 DEF Newer, Waiting, OpenStatuses
<1>5. n \notin Changes(a) \/ sStatus'[n] # "PUBLISHED" => (Waiting(a) => Waiting(a)')
  BY <1>0, <1>2, <1>3 DEF Waiting
<1>6. /\ announced[a] <= version[a]
      /\ Shows(a, loaded[a]) \/ Newer(a)
      /\ a \in tainted \/ Shows(a, cache[a]) \/ Waiting(a)
  BY <1>0 DEF SnapshotInv
<1>7. CASE UNCHANGED <<redisVars, loaded>> /\ ~ProjectToRedis(n)
  BY <1>0, <1>2, <1>4, <1>5, <1>6, <1>7 DEF redisVars, Shows
<1>8. CASE RedisEffect(n)
  <2>1. CASE \E snapshot \in {version[a]} \cup ({loaded[a]} \ {None}) :
               loaded'[a] = snapshot /\ (a \in tainted' \/ cache'[a] \in {None, snapshot})
    BY <1>0, <1>4, <1>6, <2>1 DEF Shows
  <2>2. CASE /\ n \notin Changes(a)
             /\ loaded'[a] = loaded[a] /\ cache'[a] \in {None, cache[a]}
             /\ a \in tainted => a \in tainted'
    BY <1>0, <1>4, <1>5, <1>6, <2>2 DEF Shows
  <2> QED
    BY <1>8, <2>1, <2>2, EffectOnSnapshot DEF Inv
<1> QED
  BY <1>7, <1>8 DEF ProjectToRedis, ProjectionFails

\* Every step keeps the snapshots.
LEMMA SnapshotStep == Inv /\ FailureInv /\ SnapshotInv /\ [Next]_vars => SnapshotInv'
<1> SUFFICES ASSUME Inv, FailureInv, SnapshotInv, [Next]_vars PROVE SnapshotInv'
  OBVIOUS
<1> USE DEF pgVars, workerVars, modelVars, redisVars, readVars
<1>0. /\ reading \in [Appointments -> Snapshots] /\ cache \in [Appointments -> Snapshots]
      /\ loaded \in [Appointments -> Snapshots] /\ version \in [Appointments -> Nat]
      /\ tainted \in SUBSET Appointments
      /\ status \in [RowIds -> RowStatuses] /\ sStatus \in [RowIds -> RowStatuses]
      /\ \A a \in Appointments : announced[a] <= version[a]
  BY DEF Inv, TypeOK, SnapshotInv
<1>1. CASE Commands
  <2>1. PICK n \in RowIds :
             \/ \E q \in Reviews : StorePendingReview(q, n)
             \/ \E q \in Reviews, res \in Resolutions : ResolvePendingReview(q, res, n)
             \/ \E a \in Appointments : ChangeAppointment(a, n)
             \/ \E a \in Appointments, kind \in Announced : Announce(kind, a, n)
    BY <1>1 DEF Commands
  <2> QED
    BY <2>1, AppendSnapshot
       DEF StorePendingReview, ResolvePendingReview, ChangeAppointment, Announce
<1>2. ASSUME UNCHANGED <<event, status, sStatus>> PROVE \A a \in Appointments : Waiting(a) => Waiting(a)'
  BY <1>2 DEF Waiting, Changes, RowsOf
<1>3. CASE \E a \in Appointments : AmendAppointment(a) \/ ReadMiss(a) \/ ReadFill(a)
  <2>1. PICK a \in Appointments : AmendAppointment(a) \/ ReadMiss(a) \/ ReadFill(a)
    BY <1>3
  <2>0. \A b \in Appointments : announced[b] <= version'[b]
    <3>1. CASE AmendAppointment(a)
      <4>1. version' = [version EXCEPT ![a] = @ + 1]
        BY <3>1 DEF AmendAppointment
      <4>2. \A b \in Appointments : announced[b] \in Nat
        BY DEF Inv, TypeOK
      <4> QED
        BY <1>0, <4>1, <4>2
    <3>2. CASE ReadMiss(a) \/ ReadFill(a)
      BY <1>0, <3>2 DEF ReadMiss, ReadFill
    <3> QED
      BY <2>1, <3>1, <3>2
  <2>2. /\ UNCHANGED <<announced, event, loaded, status, sStatus, pc>>
        /\ \A b \in Appointments \ tainted' :
             Shows(b, cache'[b]) \/ (b \notin tainted /\ cache'[b] = cache[b])
    BY <1>0, <2>1 DEF AmendAppointment, ReadMiss, ReadFill, Shows
  <2> QED
    BY <1>2, <2>0, <2>2, SnapshotKept DEF InBatch
<1>4. CASE \/ Start \/ \E i \in RowIds : ProjectToMongo(i) \/ BackoffElapses(i)
           \/ UNCHANGED vars
  <2>1. /\ UNCHANGED <<version, announced, event, status, sStatus, cache, tainted>>
        /\ InBatch' => InBatch /\ UNCHANGED loaded
    BY <1>4 DEF Start, ProjectToMongo, BackoffElapses, AtRow, AtAnyRow, InBatch, vars
  <2> QED
    BY <1>0, <1>2, <2>1, SnapshotKept
<1>5. CASE WarmUp
  <2>1. /\ UNCHANGED <<version, announced, event, status, sStatus>> /\ ~InBatch'
        /\ \A a \in Appointments \ tainted' : Shows(a, cache'[a])
    BY <1>0, <1>5 DEF WarmUp, InBatch, Shows
  <2> QED
    BY <1>0, <1>2, <2>1, SnapshotKept
<1>6. CASE FetchBatch
  <2>1. \A i \in RowIds : sStatus'[i] = "PUBLISHED" => status[i] = "PUBLISHED"
    BY <1>6 DEF FetchBatch, OpenSession
  <2>2. /\ UNCHANGED <<version, announced, event, status, cache, tainted>>
        /\ \A a \in Appointments : loaded'[a] = None
    BY <1>6 DEF FetchBatch
  <2>3. \A a \in Appointments : Waiting(a) => Waiting(a)'
    BY <2>1, <2>2 DEF Waiting, Changes, RowsOf
  <2> QED
    BY <1>0, <2>2, <2>3, SnapshotKept
<1>7. CASE \E i \in RowIds : ProjectToRedis(i)
           \/ \E permanent \in BOOLEAN : ProjectionFails(i, permanent)
  BY <1>7, ProjectSnapshot
<1>8. CASE CommitBatch \/ RollBackBatch \/ Crash
  <2>1. /\ UNCHANGED <<version, announced, event, cache, tainted>> /\ ~InBatch'
        /\ \A i \in RowIds : sStatus'[i] = "absent"
    BY <1>8 DEF CommitBatch, RollBackBatch, Crash, CloseSession, InBatch
  <2>2. \A i \in RowIds : status'[i] \in {status[i], sStatus[i]}
                          /\ (sStatus[i] = "absent" => status'[i] = status[i])
    BY <1>0, <1>8 DEF CommitBatch, RollBackBatch, Crash
  <2>3. \A a \in Appointments : Waiting(a) => Waiting(a)'
    BY <2>1, <2>2 DEF Waiting, Changes, RowsOf
  <2> QED
    BY <1>0, <2>1, <2>3, SnapshotKept
<1> QED
  BY <1>1, <1>3, <1>4, <1>5, <1>6, <1>7, <1>8 DEF Next, Worker, ProjectRow

-----------------------------------------------------------------------------
\* Once both events of a review are published and the first was never put off,
\* Redis does not serve the review as pending, whatever crashed in between.
THEOREM ReviewEvictedInOrder == Spec => []ResolvedReviewEvictedInOrder
<1>1. Init => FailureInv /\ ReviewInv
  <2> SUFFICES ASSUME Init PROVE FailureInv /\ ReviewInv
    OBVIOUS
  <2>1. /\ batch = {} /\ \A i \in RowIds : /\ status[i] = "absent" /\ sStatus[i] = "absent"
                                           /\ event[i] = NoEvent
    BY DEF Init
  <2>2. \A r \in Reviews : Created(r) = {} /\ Resolved(r) = {}
    BY <2>1 DEF Created, Resolved, RowsOf, NoEvent
  <2> QED
    BY <2>1, <2>2 DEF FailureInv, ReviewInv, ReviewRows
<1>2. Inv /\ FailureInv /\ ReviewInv /\ [Next]_vars => FailureInv' /\ ReviewInv'
  BY FailureStep, ReviewStep
<1>3. ReviewInv => ResolvedReviewEvictedInOrder
  BY DEF ReviewInv, InOrder, Clean, Done, Created, Resolved, ResolvedReviewEvictedInOrder
<1> QED
  BY <1>1, <1>2, <1>3, Invariance, PTL DEF Spec

\* When the rows of an appointment's changes are all published, its snapshot in
\* Redis shows every one of those changes, or is absent, unless a late reader or
\* a Redis error spoiled it; later claims and reviews, which append no row, may
\* be missing from it.
THEOREM CacheCatchesUp == Spec => []CacheFollowsOutbox
<1>1. Init => FailureInv /\ SnapshotInv
  BY DEF Init, FailureInv, SnapshotInv, InBatch, Shows
<1>2. Inv /\ FailureInv /\ SnapshotInv /\ [Next]_vars => FailureInv' /\ SnapshotInv'
  BY FailureStep, SnapshotStep
<1>3. SnapshotInv => CacheFollowsOutbox
  BY DEF SnapshotInv, Waiting, Changes, RowsOf, CacheFollowsOutbox
<1> QED
  BY <1>1, <1>2, <1>3, Invariance, PTL DEF Spec

-----------------------------------------------------------------------------
\* An insertion appends to the abstract outbox.
LEMMA AppendRefines ==
  ASSUME Inv, Commands
  PROVE Delivery!Next
<1>1. PICK i \in RowIds : /\ status[i] = "absent"
                          /\ status' = [status EXCEPT ![i] = "PENDING"]
                          /\ applied' = applied
  BY DEF Commands, StorePendingReview, ResolvePendingReview, ChangeAppointment,
         Announce, AppendRow, Fresh, modelVars
<1>2. Promise' = [Promise EXCEPT ![i] = "waiting"]
  BY <1>1 DEF Inv, TypeOK, Promise, OpenStatuses
<1>3. Promise[i] = "absent"
  BY <1>1 DEF Promise, OpenStatuses
<1> QED
  BY <1>1, <1>2, <1>3 DEF Delivery!Next, Delivery!Append

\* The Redis projection of the current row projects it in the abstract outbox.
LEMMA ProjectRefines ==
  ASSUME Inv, NEW i \in RowIds, ProjectToRedis(i)
  PROVE Delivery!Next
<1>1. status[i] \in OpenStatuses
  BY DEF Inv, CursorInv, SessionInv, ProjectToRedis, AtRow, AtAnyRow
<1>2. Promise[i] = "waiting"
  BY <1>1 DEF Promise, OpenStatuses
<1>3. Promise' = Promise /\ applied' = applied \cup {i}
  BY DEF ProjectToRedis, pgVars, Promise
<1> QED
  BY <1>2, <1>3 DEF Delivery!Next, Delivery!Project

\* The commit of a batch settles its published and dead-lettered rows.
LEMMA SettleRefines ==
  ASSUME Inv, CommitBatch
  PROVE Delivery!Next
<1> DEFINE P == {i \in RowIds : sStatus[i] = "PUBLISHED"}
           D == {i \in RowIds : sStatus[i] = "DEAD_LETTER"}
<1>1. batch = {} /\ applied' = applied
  BY DEF CommitBatch, modelVars
<1>2. ASSUME NEW i \in RowIds, sStatus[i] # "absent"
      PROVE /\ status[i] \in OpenStatuses
            /\ sStatus[i] \in {"PUBLISHED", "FAILED", "DEAD_LETTER"}
            /\ i \in P => i \in applied
  BY <1>1, <1>2 DEF Inv, SessionInv
<1>3. P \subseteq applied /\ P \cap D = {}
  BY <1>2
<1>4. \A i \in P \cup D : Promise[i] = "waiting"
  BY <1>2 DEF Promise, OpenStatuses
<1>5. Promise' = [i \in RowIds |-> IF i \in P THEN "published"
                                  ELSE IF i \in D THEN "dead" ELSE Promise[i]]
  <2>1. ASSUME NEW i \in RowIds
        PROVE Promise'[i] = IF i \in P THEN "published"
                            ELSE IF i \in D THEN "dead" ELSE Promise[i]
    <3>1. CASE sStatus[i] = "absent"
      <4>1. status'[i] = status[i]
        BY <3>1 DEF CommitBatch
      <4> QED
        BY <3>1, <4>1 DEF Promise, OpenStatuses
    <3>2. CASE sStatus[i] # "absent"
      <4>1. status'[i] = sStatus[i]
        BY <3>2 DEF CommitBatch
      <4> QED
        BY <1>2, <3>2, <4>1 DEF Promise, OpenStatuses
    <3> QED
      BY <3>1, <3>2
  <2> QED
    BY <2>1 DEF Promise
<1>6. P \in SUBSET RowIds /\ D \in SUBSET RowIds
  OBVIOUS
<1> HIDE DEF P, D
<1>7. Delivery!Settle(P, D)
  BY <1>1, <1>3, <1>4, <1>5 DEF Delivery!Settle
<1> QED
  BY <1>6, <1>7 DEF Delivery!Next

\* Every step is a step of the abstract outbox or leaves it alone.
LEMMA StepRefines == Inv /\ [Next]_vars => [Delivery!Next]_(Delivery!vars)
<1> SUFFICES ASSUME Inv, [Next]_vars PROVE [Delivery!Next]_(Delivery!vars)
  OBVIOUS
<1>1. CASE Commands
  BY <1>1, AppendRefines
<1>2. CASE \E i \in RowIds : ProjectToRedis(i)
  BY <1>2, ProjectRefines
<1>3. CASE CommitBatch
  BY <1>3, SettleRefines
<1>4. ASSUME UNCHANGED <<status, applied>> PROVE UNCHANGED Delivery!vars
  BY <1>4 DEF Promise, Delivery!vars
<1>5. CASE \E a \in Appointments : AmendAppointment(a) \/ ReadMiss(a) \/ ReadFill(a)
  BY <1>4, <1>5 DEF AmendAppointment, ReadMiss, ReadFill, pgVars, modelVars
<1>6. CASE \E i \in RowIds : BackoffElapses(i)
  BY <1>4, <1>6 DEF BackoffElapses, modelVars
<1>7. CASE Start \/ WarmUp \/ FetchBatch
  BY <1>4, <1>7 DEF Start, WarmUp, FetchBatch, pgVars, modelVars
<1>8. CASE \E i \in RowIds : ProjectToMongo(i)
  BY <1>4, <1>8 DEF ProjectToMongo, pgVars
<1>9. CASE \E i \in RowIds, permanent \in BOOLEAN : ProjectionFails(i, permanent)
  BY <1>4, <1>9 DEF ProjectionFails, pgVars
<1>10. CASE RollBackBatch \/ Crash
  BY <1>4, <1>10 DEF RollBackBatch, Crash, pgVars, modelVars
<1>11. CASE UNCHANGED vars
  BY <1>4, <1>11 DEF vars, pgVars, modelVars
<1> QED
  BY <1>1, <1>2, <1>3, <1>5, <1>6, <1>7, <1>8, <1>9, <1>10, <1>11
     DEF Next, Worker, ProjectRow

\* The worker, with its batches, retries and crashes, implements the outbox
\* that publishes a row only after it was projected and settles it once.
THEOREM Refinement == Spec => ImplementsDelivery
<1>1. Init => Delivery!Init
  BY DEF Init, Delivery!Init, Promise, OpenStatuses
<1> QED
  BY <1>1, StepRefines, Invariance, PTL DEF Spec, ImplementsDelivery, Delivery!Spec

=============================================================================
