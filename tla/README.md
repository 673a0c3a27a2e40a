# IntelligentLogistics in TLA+

TLA+ models of the port-gate system in this repository, TLC runs on small
instances of them, and theorems about them that TLAPS checks for every value of
their constants. Paths below are relative to the repository's root; `DM` stands
for `src/V_APP/Data_Module`.

Contents: 1 the system, 2 the modules and how they follow the code, 3 the runs,
4 what is proved, 5 where code and documentation disagree, 6 what is not
modelled, 7 the plan.

## 1. The system

A truck drives up to a gate. Agent A sees it on a low-resolution stream and
publishes `truck-detected`, then sleeps until it is reset. V-Brain scales the
network slice up so that Agents B and C can read license and hazard plates on
the 4K stream; their results go to the Decision Engine and the Infraction
Engine, whose decisions go to V-Brain (reset, scale-down), to the Data Module
(PostgreSQL, and from there MongoDB and Redis) and to the API gateway
(operators, drivers). Operators settle the doubtful cases. Everything travels
over two Kafka clusters joined by two HTTP gateways.

| Component | State it keeps | Operations | Talks to | What is hard | What makes it correct |
|---|---|---|---|---|---|
| Transactional outbox and worker (`DM/scripts/simple_outbox_worker.py`) | rows of `outbox_events` and their statuses, the worker's session and batch, read models in MongoDB and Redis | append in the business transaction; poll, project, classify errors, back off, commit, roll back, warm up | PostgreSQL, MongoDB, Redis, readers of `GET /arrivals/{id}` | one commit for a whole batch, after its effects; rows out of order after a failure; stale snapshots; crashes | nothing acknowledged unprojected, nothing stranded, everything settles, cached snapshots show what the rows announced |
| Decision consumer (`DM/infrastructure/messaging/kafka_decision_consumer.py`) | offsets, the message in hand, inbox rows | agent, operator and infraction messages, each a chain of transactions | Kafka, PostgreSQL; REST clients change the same rows | redelivery after a restart, asynchronous commits, exceptions that are swallowed, transactions the unit of work loses | drivers let in once, infractions raised once, no decision acknowledged without effect |
| Container-moved handler, appointment commands, trigger (`DM/application/use_cases`, `DM/scripts/triggers.sql`) | `appointment.status`, visits | status changes under a row lock and a trigger | consumer, REST clients | the status may change between the consumer's query and the lock | appointments live as the trigger prescribes |
| Pending reviews (`DM/routes/decisions.py`, `pending_review_handlers.py`) | `pending_reviews`, a Redis key per review | store, resolve | outbox, gateway | duplicates on redelivery; eviction of the key | resolved reviews disappear |
| Driver deliveries (`DM/routes/driver.py`, `driver_repository.py`, `driver_queries.py`) | `appointment.driver_license`, two Redis caches | claim with a PIN, list, report progress | API gateway, outbox worker | claims overlap; ownership is checked on a cached snapshot; three writers of one cache | an appointment keeps its driver; the app shows the delivery the table has, but where its correction was lost |
| Driver sessions and erasure (`DM/application/use_cases/erasure_handler.py`, `keycloak/sync_users.py`, `api_gateway/src/routers/auth.py`) | a row, a Keycloak user, a session, tokens, images | log in, refresh, log out, synchronise, erase | PostgreSQL, Keycloak, Redis, MongoDB, MinIO | five stores without a common transaction | an erased driver claims nothing and lists nothing of his own |
| Worker accounts (`DM/application/use_cases/worker_handlers.py`) | worker, operator and manager rows | create, rename, promote, deactivate | Keycloak synchronisation | check in one step, commit in another | addresses unique, roles disjoint |
| Shift roster and scheduler (`DM/routes/worker.py`, `shift_scheduler.py`, `shift_utils.py`) | shifts, templates | create, change, import, delete, generate; visits attach to shifts | API gateway, container-moved handler | check-then-commit at READ COMMITTED; the night shift crosses midnight | operators booked once a day, statuses go forward, visits keep their shift |
| CSV import of trips (`DM/routes/arrivals.py`) | a session of rows not flushed yet | reject, accept, flush, commit | PostgreSQL | the check does not see what is not flushed | a truck's trips lie apart |
| Cards, summaries, lists (`DM/application/queries`) | one cached answer | answers put together from several queries | PostgreSQL, Redis | trips move between the queries | parts add up to totals |
| Statistics aggregator (`DM/scripts/statistics_aggregator.py`) | hourly and daily documents, snapshots | backfill, cycles, repair on restart | PostgreSQL, MongoDB | crash and restart anywhere, aborted sessions | nothing counted twice, nothing missed but what is committed late |
| V-Brain (`src/V_APP/v_brain`) | the correlator's dictionary, the flag `scale_status` | five handlers, timeout loop, delayed resets | scaling API, Agent A | three kinds of threads share a dictionary and a flag without a lock | a waiting truck has the slice, one reset per truck, every truck resets Agent A |
| Agent A (`src/AI_APP/agentA`) | `awaiting_reset`, its position in the resets | detect, wait for a reset or a timeout | V-Brain through the gateways | late and duplicate resets, resets racing the timeout | neither asleep for good nor woken early |
| Gateways (`src/shared/src/base_gateway.py`) | a consumer thread and an HTTP server | forward every message to the other cluster | all of the above | posting once, without retry; a producer behind it that is not idempotent; a dead consumer thread behind a live server | hands over in order and at most once; the far topic holds nothing else, if with copies |
| Agents B and C (`src/AI_APP/shared/src/base_agent.py`, `stream_manager.py`) | a frame queue, background threads, an upload buffer | connect, read frames, release, publish | video server, engines | a thread may outlive its release by more than the second it is waited for | a result is made of its own truck's frames |
| Consensus, plate classifier (`src/AI_APP/shared/src`) | votes per character and length | vote, decide, best partial result | agents | ties, lengths, rejected readings | every position shown was voted for; more colour never weakens a verdict |
| Decision and infraction engines (`src/V_APP/decision_engine`, `infraction_engine`, `src/V_APP/shared`) | two buffers of results per truck | pair results, match plates, decide | Data Module, V-Brain | results in either order, copies, missing partners, exceptions between buffer and removal, units of time | decided from its own results, no pair left over |
| Plate matcher (`src/V_APP/shared/src/plate_matcher.py`) | none | exact, by confusions, by edit distance | engines | three strategies must agree on how near is near | matched if and only if near |
| API gateway, realtime half (`src/V_APP/api_gateway`) | WebSocket registries, coroutines | forward events, warn drivers | Kafka, Data Module, browsers | reads the Data Module while its consumer writes it | the trip selected for the warning is the one that is flagged |
| API gateway, proxies; dead-letter producer; image pipeline; dashboards and scripts | none that matters to the above | | | | |

## 2. The modules

| Module | Models |
|---|---|
| `OutboxDelivery` | abstract: a row is projected before it is published, and settling is final |
| `OutboxWorker` | the outbox, its worker and the readers |
| `AppointmentLifecycle` | abstract: the trigger's transitions, and admission as one step |
| `DecisionConsumer` | the consumer with its topics, tables and REST clients |
| `VBrain` | V-Brain's threads, its correlator and the network slice |
| `ShiftRoster` | shifts, templates, the scheduler, visits and the clock |
| `DriverDeliveries`, `DriverSessions`, `WorkerAccounts` | claims and their caches; the stores a driver is known in; operators and managers |
| `StreamAgent`, `Consensus`, `PlateClassifier` | Agents B and C, their video, the votes and the classifier |
| `LossyChannel` | abstract: messages are handed over in order, once or never; the far topic may have them again, late or not at all |
| `Gateway` | one gateway with its receivers |
| `GateLoop` | Agent A, the way to V-Brain and the way back, composed of two `LossyChannel`s |
| `ResultPairing`, `PlateMatcher` | the two engines, and the matcher they call |
| `RealtimeGateway` | the API gateway's consumer thread, coroutines and sockets beside the Data Module's consumer |
| `Dashboard`, `Statistics`, `AppointmentImport` | answers of several queries; the rollups; the CSV import |
| `MCOutboxWorker`, `MCDecisionConsumer`, `MCShiftRoster` | small instances of one module |
| `MCDrivers`, `MCAgents`, `MCBackOffice` | small instances of several: see section 3 |
| `OutboxWorkerProofs`, `DecisionConsumerProofs`, `VBrainProofs`, `ShiftRosterProofs`, `DriverDeliveriesProofs`, `DriversProofs`, `AgentsProofs`, `BackOfficeProofs` | invariants and theorems |

`PROJECT.json` gives the lines of code of every definition.

### OutboxWorker

Committed PostgreSQL (`status`, `retries`, `due`, `event`, `version`, `review`)
is kept apart from the worker's SQLAlchemy session (`sStatus`, `sRetries`,
`loaded`), because `process_batch` commits a batch once, at its end.
`FetchBatch` selects at most `BatchSize` projectable rows in id order;
`ProjectToMongo` and `ProjectToRedis` are the two effects of `process_batch` on
a row, `ProjectionFails` its exception handler (`_is_permanent_error`, retry
count, backoff, dead letter), `CommitBatch` and `RollBackBatch` the two ends of
the session, `Crash` anything that kills the process, `Start` and `WarmUp` the
cache warm-up. `loaded` is the identity map: an appointment that was read before
in the session is not read again. `ReadMiss` and `ReadFill` are the two halves
of the read-through of `GET /arrivals/{id}`. The commands appear by the rows
that they append in their own transactions, the pending-review ones in full.
`AmendAppointment` is what appends none and evicts nothing although the cached
snapshot shows it: the driver's claim (`driver_repository.py:121`) and the review
of an infraction (`routes/arrivals.py:369`). `version` counts all changes of an
appointment, `announced` is the last of them that left a row.
MongoDB is the set of rows whose document exists (the writes are idempotent by
key); statistics counters and TTLs are left out.

### DecisionConsumer

The consumer handles one message at a time, and every call it hands to an
executor is one action, named for it: `StoreReview`, `ResolveAppointment`,
`Handle` (the whole transaction of `ContainerMovedHandler`), `InboxCheck`,
`FindInfringing`, `FlagInfraction`, `CreateAlert`, `NotifyGate`,
`NotifyDriver`, `MarkProcessed`, `MarkFailed`, `CommitOffset`. REST clients
(`SetStatus`, `CreateVisit`, `FlagByRequest`) and `Crash` come between any two.
Each transaction may succeed, raise, or be lost: `SqlAlchemyUnitOfWork.commit`
answers an `OperationalError` with a rollback and a second, empty commit that
succeeds (`LosesCommit`). An exception ends the handling of the message but not
the loop, and the consumer's position has moved on (`Abandon`). `Resume` is
`auto.offset.reset = latest` for a group without a committed offset. Commits are
asynchronous and may be lost. A topic has one partition and the group has one
member; serialisation is abstracted to what a message asks for, with `IGNORED`
for everything that the loop skips.

The inbox row of a decision is left out: `event_id` is a fresh `uuid4` on every
delivery, so it never recognises anything. This is why `AdmittedOnce` is worth
checking.

### VBrain

An action is what a thread does between two points where the others matter; the
scaling API's call is apart from the assignment to `scale_status`, and the
`for` statement of `_scale_down_try` from its body. `tracked`, `lp`, `hz` and
`expired` are the correlator's entries. Python's dictionary is modelled as its
documentation and CPython 3.11 have it: an iteration over a dictionary that
changed size raises; if one entry went and another came it may raise or skip
entries (`DictionaryChanged`, `NoEntryLeft`). `Dies` is an exception that nobody
catches: the timeout thread is gone for good, the main thread ends the process,
which the container restarts with an empty correlator while the slice stays as
it was. Between a test for an entry and its use the timeout thread may remove
it: `MarkResult`, `ResultReady` and `WriteDecided` are the places where that is
a `KeyError`. A failed call to the scaling API is logged and may or may not have
taken effect; an effect that comes later than the failure is left out.

Bookkeeping variables: `overlooked` (trucks that a scale-down did not get to
see), `raced` (timed out while their decision was in hand), `died`.

### ShiftRoster

A request has two halves, the checks (`Check...`, through `Begin`) and the
commit (`Commit...`), because PostgreSQL runs it at READ COMMITTED and nothing
is locked in between; `CommitFails` is the `IntegrityError` or `StaleDataError`
of the constraints. Lines of one import do not see each other (`CheckBulk`):
the session does not flush. `GenerateShifts` computes its `Plan` from one
snapshot, for any order of the templates. `PromoteToManager` empties the
operator's shifts, `AutoCreateVisit` is what the container-moved handler does to
the roster. Time counts the four parts that shift changes cut a day into.
`unchecked` is bookkeeping: operator and date assigned by two steps that could
not see each other.

### DriverDeliveries, DriverSessions, WorkerAccounts

`DriverDeliveries`: a request reads, and later writes, under the row lock where
the code takes it (`Assign`). `pending` and `worker` stand for the outbox rows
and the worker's read-then-cache step; `appCache` and `activeCache` are the two
Redis keys. The helpers of `redis.py` swallow Redis's errors: a `get` that fails
is a miss, and a write or a delete that fails leaves the key as it was while its
outbox row is published all the same (`ProjectWrite`). `ProjectionGivenUp` is a
row that raised too often and ends as a dead letter. The gateway's routes check
ownership on a cached snapshot and call the Data Module afterwards. `adrift` marks
the drivers whose entry nothing will correct before it expires: a reader filled it
after the projection had overtaken it, Redis did not take the correction, or the
outbox gave it up.

`DriverSessions`: routes fall in two kinds. `ServedBySession` are those that end in
`get_current_claims` of the Data Module (claiming, the driver's own deliveries): a
token and a session. `ServedByToken` are the gateway's routes that look at the
Keycloak token alone (`api_gateway/src/routers/drivers.py:175-192`, `254-281`,
`291-378`: reading by license, problems, moving a delivery on); erasure takes no
token away, so nothing is promised of them. `Stages` are the stores the erasure has
done with; the synchronisation creates a user, sets a password and assigns roles in
three steps, any of which may fail or be the last. `excused` marks the two cases
that remain: Redis refused to delete the session, or the login was authenticated
before the erasure.

`WorkerAccounts`: check and commit of each command; unique keys are the guard
of the commit (`Free`).

### StreamAgent, Consensus, PlateClassifier

`StreamAgent` has the agent's thread and any number of background threads: the
release waits one second for its thread (`EndRelease` with or without it), and a
thread that lives on reconnects and puts frames in the same queue. A frame is
named by the cycle it was read in. `Consensus` is the state of the votes after
each crop. `PlateClassifier` is a function of a crop's measures; its two steps
vary one measure, so that the run relates neighbouring crops.

### Gateway and GateLoop

`Gateway`: `Consume` takes one message, `Forward` posts it once to a receiver
whether or not it is answered, `ConsumerDies` ends the thread but not the HTTP
half, `Restart` starts at the end of the topic. The receiver's handler calls
`produce` on a producer without `enable.idempotence` (`base_gateway.py:267`,
`kafka_wrapper.py:13-16`): `posted` is what it was called with, `unacked` what it
will send again because no acknowledgement has come. `Land` is the broker
appending one of these, acknowledged or not, in any order; `GiveUp` is a delivery
timeout or the end of the process. `ImplementsChannel` is the refinement to
`LossyChannel`, one channel per receiver. `GateLoop` uses the abstract channel
twice and adds Agent A and V-Brain's answers. V-Brain may answer each copy of a
truck it has learned of, and answers with two resets if a timeout races the
decision, so `Reset` may happen any number of times for a truck that has arrived.
A reset names no truck: `resets` and `back` remember for the properties which
truck one was for.

### ResultPairing, PlateMatcher

`Take` is one message of the engine's loop: expire, buffer, and, when both
results are there, decide, publish and clear, with an exception possible in
between. The Data Module's answer is any of those its client can return. The
matcher's verdict on a set of plates is any plate it may return; `PlateMatcher`
computes it: the alternatives of a position are a Python set of strings, whose
order changes between processes, so any expansion may come first. `Distance` is
the table of `utils.levenshtein_distance`, as a recursive function.

### RealtimeGateway, Dashboard, Statistics, AppointmentImport

`RealtimeGateway` makes every await of a coroutine a step (`AskInfraction`,
`AskAccepted`, `SendOne`), beside the Data Module's own consumption of the same
topic (`DataModuleReads`, `DataModuleFlags`). What becomes of a warning is one of
`NobodyToWarn`, `SkipWarning` (the trip is flagged already) and `Warn`; `chosen`
keeps the trip each side selected with the active trips it saw, `warned` and
`skipped` what came of it. `Dashboard` runs the queries of an
answer one by one while `Move`, `VisitStarts` and `Tick` go on; `moved` counts
what changed since the first. `Statistics` unfolds a pass into the documents it
computes; a failed query breaks the session until it is closed. Visits and
detections are stamped before they can be seen, so either may be of the hour
before; `prompt` counts the visits that were committed in their own hour.
`AppointmentImport` keeps apart what is pending, flushed and committed.

## 3. The runs

Twelve runs: seven pass, five show a disagreement. Three of the passing runs
check several modules as a sum: the modules share no variable that a property is
about, the initial state chooses the `part` that takes all the steps, and the
others stay in their initial state (`SumInit`, `SumNext`). The number of states
is the sum of the parts', not their product, and each part is checked as it would
be by itself. An MC module extends the part that proofs are about
(`DriverDeliveries`, `Gateway`, `ResultPairing`) and instantiates the others; it
evaluates all their assumptions (`ASSUME Assumptions`).

| Run | Properties | What it shows |
|---|---|---|
| `outbox` | `TypeOK`, `PublishedIsProjected`, `NoStrandedRow`, `CacheFollowsOutbox`, `ResolvedReviewEvictedInOrder`, `ImplementsDelivery`, `RowsSettle` | with failing projections, a crash or roll back, a racing reader and a claim that no row announces, nothing is acknowledged unprojected or stranded, a snapshot shows what the published rows announced, the worker refines `OutboxDelivery`, and every committed row is published or dead-lettered |
| `consumer` | `TypeOK`, `AdmittedOnce`, `InfractionTakesEffectOnce`, `AlertedTruckIsFlagged`, `AcknowledgedDecisionTookEffect`, `ImplementsLifecycle`, `DecisionsSettle` | the consumer and the REST clients together; every decision is dealt with |
| `vbrain` | `TypeOK`, `SliceUpWhileNeeded`, `OneResetUnlessRaced`, `DetectedTruckIsReset` | the threads against each other; Agent A is always sent back to work, unless a thread died |
| `roster` | `TypeOK`, `BookedOncePerDay`, `StatusOnlyAdvances` | overlapping requests, scheduler, promotions and visits over midnight |
| `drivers` | `TypesOK`, `OwnerNeverChanges`, `ActiveCacheFollows`, `ErasedDriverClaimsNothing`, `ProfileIsUnique` | claims and caches with Redis errors and dead letters; sessions and erasure; accounts |
| `agents` | `TypesOK`, `FramesAreOfThisTruck`, `EveryPositionVoted`, `ColoursAreMonotone`, `ImplementsChannel`, `WokenForItsTruck`, `ScansAgain` | video, consensus and classifier; the gateway as a lossy channel with producers that repeat; Agent A's loop |
| `backoffice` | `DecidedFromItsOwnResults`, `PairsAreDecided`, `MatchedWhenNear`, `SelectsTheFlaggedTrip`, `CardsAddUp`, `RollupsMissOnlyLateVisits`, `OnlyNeighboursCollide` | engines, matcher, the trip selected for a warning, cards, rollups, imports |
| `rejected_decision` (violation) | `RejectedDoesNotAdmit` | `rejected` admits the truck |
| `slice_needed` (violation) | `NeverScaledDownWhileNeeded` | `SliceUpWhileNeeded` without its proviso: the slice goes down under a waiting truck |
| `visit_on_shift` (violation) | `VisitOnRunningShift` | a truck that enters after midnight is put on a shift that has not begun |
| `stale_results` (violation) | `StaleResultsExpire` | seconds are compared with milliseconds: nothing expires |
| `skipped_warning` (violation) | `SkippedWasWarned` | the Data Module flags first: the only warning is left out as already sent |

What the exemptions leave out is what the code does lose. `CacheFollowsOutbox` says
nothing of claims and reviews; `ActiveCacheFollows` exempts a driver who is
`adrift`; `WokenForItsTruck` is about the first reset of a truck, since a copy, of
the reset or of the truck before V-Brain, may wake Agent A for another;
`SelectsTheFlaggedTrip` compares selections, and that a selected trip is warned of
is false (`skipped_warning`); `RollupsMissOnlyLateVisits` lets a document miss the
visits that were committed after their hour.

Bounds, and why they are enough:

- Outbox: two rows, because ordering, identity map and batch commit are about
  two rows of the same aggregate; one appointment and one review; `MaxRetries`
  2 instead of 5 has a first failure, a last retry and a dead letter;
  `BatchSize` 2 holds both rows in one batch; one crash and one read-through; one
  change without a row, which may come before, between and after the others. Of
  the announcements only alerts, since a notification has no effect on Redis.
- Consumer: two messages are a decision and its duplicate, a decision and an
  operator's, or a decision followed by one that acknowledges past it; one
  appointment at a gate, one plate; one database error and one crash, so that
  an error before or after a redelivery is covered.
- V-Brain: two trucks, one that an iteration has seen and one that arrives
  meanwhile, one failing call and one kill. A truck is detected once: Agent A
  makes a new id for each detection.
- Roster: two operators (one books, one takes over), one gate (operators, not
  gates, are booked twice), two overlapping requests, two templates that want
  one operator on one day, and a clock that goes from an evening over midnight
  into a morning. Requests are interchangeable (`ThreadSymmetry`).
- Drivers: two drivers for two appointments and two requests that overlap, a
  third one after them, two status changes by others. One driver has stores,
  tokens and an image, with two logins in progress. Two workers and two
  addresses allow the collision and the swap.
- Agents: three trucks are the one a frame is for, the one it was left from, and
  a third, after a restart; two frames and two threads (one outlives its
  release); texts up to three of two letters, six crops, threshold three; the
  classifier at and around each constant of the code; three messages to two
  receivers whose topics hold three, so that a copy and a late message fit; three
  trucks and three resets with topics of that length, hence a copy of either kind
  and a truck after it.
- Back office: two trucks at two gates with one plate, three results of which
  one may be a copy, one exception, one restart; every reading and every list of
  two plates over three letters, with an asymmetric confusion matrix like the
  code's; two trips and one message in two consumers; two appointments and one
  change during an answer; two days of two hours, two starts, one failing
  query, one event; two importers of three rows. `Symmetric` permutes trucks and
  appointments.

Fairness: `RowsSettle` assumes that the worker's loop and the clock go on, not
that projections succeed. `DecisionsSettle` assumes weak fairness of the
consumer as a whole, restarts included (`restart: unless-stopped`).
`DetectedTruckIsReset` assumes that both threads run on, that time passes,
sleeping threads wake and the container is restarted; no message has to arrive.
`ScansAgain` assumes weak fairness of `DecisionTimeout` alone: Agent A's clock
runs, and nothing need arrive. No fairness is assumed of producers, clients,
failures or crashes. Where a run checks invariants and liveness, the invariants
hold without the fairness.

Deadlock is not checked: each system comes to rest when the messages, rows or
trucks of the instance are used up.

Every property of a passing run has a mutant in `PROJECT.json`: a plausible bug
in one mapped definition (a dropped guard, an off-by-one, a swapped order) that
violates it. The mutated definitions stand beside the originals, marked as
mutants.

## 4. What is proved

Each proof module defines an inductive invariant for every component it is about
(`Inv`, or `RosterInv`, `SessionsInv`, `StreamInv` and so on), proves that it holds
initially and that every action preserves it, and draws the theorems from it.
Nothing is assumed but the modules' named assumptions on their constants; where
these are definitions (`DeliveriesAssumption`, `SessionsAssumption`,
`GatewayAssumption` and so on), the theorems name them as hypotheses and the MC
modules evaluate them. The modules about several components (`DriversProofs`,
`AgentsProofs`, `BackOfficeProofs`) extend the MC module and close with a proof
that each behaviour of the sum is a behaviour of every component
(`SumImplementsItsParts`, `AgentsImplementTheirParts`,
`BackOfficeImplementsItsParts`): so the properties of the runs are theorems of the
runs' own specification, for every value of the constants.

`OutboxWorkerProofs` (any rows, reviews, appointments, retry limit, batch size,
crashes): `TypeCorrect`, `NothingLost` (`PublishedIsProjected`),
`NothingStranded` (`NoStrandedRow`), `ReviewEvictedInOrder`
(`ResolvedReviewEvictedInOrder`), `CacheCatchesUp` (`CacheFollowsOutbox`),
`Refinement` (`ImplementsDelivery`).
`PublishedIsProjected` is not inductive: the session decides what PostgreSQL
will say. `SessionInv` adds that a row in the session is still open in
PostgreSQL and that a verdict PUBLISHED in it was earned; `CursorInv` that the
rows not yet reached are unjudged and that the row between its two projections
has its document; `PendingInv` that a row without a failure has retries left.
`ReviewInv` orders the two rows of a review: a batch that holds the resolution
holds an untried creation too (`EldersFirst`: the query takes the lowest ids) and
projects it first, so a roll back forgets both. `SnapshotInv` says that a version
the session may have read shows all that was announced, or a row was committed
after the batch was fetched and still waits for its own projection. Nothing is
proved of changes without a row.

`DecisionConsumerProofs` (any appointments, plates, messages, errors, crashes):
`TypeCorrect`, `AdmittedAtMostOnce` (`AdmittedOnce`), `InfractionOnce`
(`InfractionTakesEffectOnce`), `AlertsAreOnRecord` (`AlertedTruckIsFlagged`),
`OffsetsFollowDecisions` (`AcknowledgedDecisionTookEffect`),
`LifecycleRefinement` (`ImplementsLifecycle`).
`AdmissionInv` adds that an appointment in `scheduled` or `in_transit` was never
admitted, which holds since the trigger leads back to neither; `EffectInv` says
how far each infraction has got at each step and that the inbox row precedes
every effect; `LogInv` and `StepInv` say what the topics and the consumer hold.
`RecordInv` says that from the alert on the flag of the infraction in hand is
committed; `AckInv` that every decision below the consumer's position is settled,
the one being dispatched excepted, which is what a crash leaves to be fetched
again, and `OffsetInv` that the committed offset stays within the topic.

`VBrainProofs` (any finite set of trucks, any failures and kills):
`TypeCorrect`, `WaitingTruckServed` (`SliceUpWhileNeeded`), `ResetOnce`
(`OneResetUnlessRaced`). `ServiceInv` adds that no thread is past the check of a
scale-down while a truck waits that it could have seen, and that the flag tells
the truth but for a call in progress; `IterInv` says that what an iteration has
left behind is complete or gone; `ResetInv` counts resets by whether the truck is
tracked, being decided, or raced.

`ShiftRosterProofs` (any gates, operators, finite set of templates, horizon,
number of overlapping requests): `RosterTypeCorrect`, `OperatorsBookedOnce`
(`BookedOncePerDay`), `VisitsKeepTheirShift` (`VisitsHaveShift`), `StatusAdvances`
(`StatusOnlyAdvances`). What a request has checked may no longer hold when it
commits; `FlightsClear` says how it can have gone wrong: whatever the rows in
flight would book is free, or was booked by a step they could not see
(`unchecked`), and `InsertsSingle` that a plan of the scheduler books no operator
twice (`RankedOnce`, `PlanIsClear`). `StatusAdvances` rests on two
lemmas: the status is decided by the place in one linear order of dates and
shift types (`StatusByPlace`), and the running shift never goes back in it
(`RunningAdvances`), which would fail if the small hours belonged to the new day.

`DriverDeliveriesProofs` (any drivers, appointments, requests):
`DeliveriesTypeCorrect`, `ClaimsAreFinal` (`OwnerNeverChanges`), `ReportsAreOwn`
(`ReportsByOwner`), `ActiveDeliveryFollows` (`ActiveCacheFollows`). `OwnersKnown`
says that every copy of a row, in Redis, in the worker's hands or in a request,
still knows the owner or nobody; `ShownFollows` and `FillsFollow` are about the
case that is easy to miss: the worker read the appointment before it was
claimed, and so will not correct what the claim's reader shows. A correction that
Redis refuses or the outbox gives up leaves the driver `adrift`, and
`ActiveDeliveryFollows` holds of the others.

`DriversProofs`: `DriversTypeCorrect` (`TypesOK`), `SumImplementsItsParts`.
Sessions (any drivers, requests): `ErasureEndsClaiming`
(`ErasedDriverClaimsNothing`), about the routes that ask for the session.
`SessionsGone` covers the erasures whose later steps are still to come, and
`LoginsExcused` the logins that the Data Module has let through and that have yet
to store their session: the hole that the property's proviso names is the only
one. Accounts (any workers, addresses, requests): `ProfilesAreUnique`
(`ProfileIsUnique`), `RolesAreDisjoint` (`AtMostOneRole`). Uniqueness among active
workers is not inductive: `EmailsUnique` is about all.

`AgentsProofs`: `AgentsTypeCorrect` (`TypesOK`), `AgentsImplementTheirParts`.
Video (any trucks, frames, threads): `FramesFollowTrucks` (`FramesAreOfThisTruck`).
`CleanStream` says where frames can be, phase by phase: those queued, in a
thread's hands or analysed are of this cycle, and between two trucks nothing is
queued and no thread runs. Votes (any characters, length, number of crops,
threshold): `TextsHaveNoGap` (`EveryPositionVoted`). Lengths are counted of texts
that are then rejected, so the invariant `NoGap` starts from the lengths: as soon
as one is counted, every position of the most common length has a vote. One more
reading makes its own length the most common one, and then it is accepted and
votes in each of its positions, or leaves the most common length what it was
(`OneMoreReading`). Crops:
`CropsAreCrops`, `MoreColourConfirms` (`ColoursAreMonotone`), by the order of the
rules. Gateways (any receivers, copies and losses): `GatewayImplementsChannel`
(`ImplementsChannel`).
`InHand` says that nothing a receiver was given is newer than the message in hand,
and that a receiver yet to be tried was not given that one; `UnackedPosted` that a
producer sends nothing its handler was not given.
Agent A (any number of trucks, resets, copies and losses): `WokenForItsOwn`
(`WokenForItsTruck`).
`Settled` says that every truck detected is awaited, was gone on without, or has a
reset among those already consumed; so a reset of another truck than the one
awaited is of one gone on without, or not the first of its truck.

`BackOfficeProofs`: `BackOfficeImplementsItsParts`.
Engines (any trucks, gates, plates, copies, exceptions, restarts):
`DecisionsAreOwn` (`DecidedFromItsOwnResults`), `NoPairIsLeft`
(`PairsAreDecided`), `AcceptedOnlyWhereExpected` (`AcceptedAtItsGate`).
`OwnBuffers` and `OwnTopics` say that what waits lies under its own key.
Matcher (any characters, confusion matrix, lengths and list):
`MatchesAreOfNearPlates` (`MatchedWhenNear`), under the hypothesis
`MaxSubstitutions \in 1 .. MaxDistance`; in the code both are 2
(`plate_matcher.py:58`, `:242`), and 0, which lifts the limit, would refute it. The
proof is that the edit distance of two words of one length is at most the number
of positions in which they differ: the table, a row for each character, is
followed along its diagonal.
Realtime (any trips, sockets, messages): `FlaggedTripIsSelected`
(`SelectsTheFlaggedTrip`). `ChoiceInv` says of each choice, wherever trips moved
since, how it stands to the active trips it was made from: the Data Module's is the
latest of them, and so is the gateway's, of those of today, when there are any.
The two latest of two sets differ only by a member that one of the sets lacks
(`SameTripIsSelected`). Whether the warning then goes out it does not say.
Figures of the day (any appointments, page size, tolerance and classes of waiting):
`CardsOfTheBackOffice` (`CardsAddUp`), from `DayInvariant`. An answer half put
together says nothing by itself, so `Progress` compares, for each kind of answer,
the figures it has with what its later queries have yet to count (`CardsLeft`, the
appointments whose card comes after those already counted): together they are the
day's, give or take the rows that moved. A step of the traffic changes each of
these sizes by no more rows than the open answer is told of (`TrafficMoves`,
`SizesMove`); a query moves its own rows from what is left to what is counted
(`CardsShareTheDay`, `SummaryCounts`, `StatusesShareTheDay`,
`ClassesShareTheTrucks`: the classes of the queries are disjoint and leave nobody
out); and an answer once given, or kept in the cache, is compared only with what no
longer changes or only grows (`AnswersStay`).
Rollups (any gates, companies, hours and horizons, failing queries, restarts):
`RollupsOfTheBackOffice` (`RollupsMissOnlyLateVisits`). `IsPass` says that a pass, of
the backfill or of a cycle, holds only hours and days that are over, so that what
a document counted can only have grown by visits and detections that appear late,
and what it did not count was not `prompt`; the proof needs that a sum over a
set does not depend on the order in which its members are taken
(`SumsAreMonotone`, `SumOverIsMonotone`, `SumIsAtMost`), which is shown by the
least size at which it could.
Imports (any importers, rows, window): `OnlyNeighboursOfTheFileCollide`
(`OnlyNeighboursCollide`). `Waiting` says that only one accepted row is not yet
flushed, and that it is the last.

Only model-checked: the liveness properties `RowsSettle`, `DecisionsSettle`,
`DetectedTruckIsReset` and `ScansAgain` (liveness under fairness and `ENABLED` are
beyond the proof system). What recursive functions compute for every input
cannot be proved by induction; where the proofs above speak of such functions
(`Distance`, `MostCommon`, sums over sets) they argue by a least counterexample
instead. `TypesOK` of `MCBackOffice` holds as well; its run checks the other
properties only.

## 5. Where code and documentation disagree

`PROJECT.json` lists them with their lines and, in quotes, what the code is said to
do. Shown by a run: the rejection that admits (`rejected_decision`), the slice
taken from a waiting truck (`slice_needed`), the visit on a shift that has not
begun (`visit_on_shift`), results that never expire (`stale_results`), the first
warning, left out as already sent (`skipped_warning`). The others were met while
modelling, and the models have them: among them the CSV that books a truck twice in
consecutive rows, the session lookup that never fails open, the second commit of
the unit of work, the error that "will retry" and does not, a retried creation
event that resurrects the Redis key of a resolved review, the review stored once
per delivery, the slice that a decision before its results leaves up, V-Brain's
unprotected dictionary, the unbounded frame queue, the consensus of the first
character to reach the threshold, the truck that is never SKIPPED, the asymmetric
confusion matrix, and the backfill that sums hourly documents before they exist.

## 6. What is not modelled

The components with status `not_modelled` in `PROJECT.json`: the image pipeline
(networks and storage), the dead-letter producer (no state depends on it), scripts
run by hand, dashboards and deployment. Of components marked `partly`: lists that
are one query, routes of the API gateway that forward one call, the stale-visit
trigger, the operator's review of an infraction (but for the cached snapshot that
it leaves behind, `AmendAppointment`), and which candidate crop illustrates a
consensus. Within the modelled parts: contents of messages and documents, metrics,
tracing, TTLs other than those named, rebalancing of consumer groups, and more than
one worker process. Networks and timers are steps that may come at any time;
durations appear only where the code compares them.

## 7. The plan

Done, in this order, the most important first: what may never be lost or doubled
(`OutboxWorker`), who is let in (`DecisionConsumer`), what keeps the gate running
(`VBrain`); then the roster, the drivers and accounts, the agents with the
gateways and Agent A's loop, the engines, and the back office; then the proofs:
every safety property that a run checks is a theorem. Next:

1. An instance of `DecisionConsumer` with two appointments of one truck, so that a
   duplicate decision may fall on the second (for safety, the proofs cover it).
2. `GateLoop` composed with `VBrain` itself instead of its contract.
