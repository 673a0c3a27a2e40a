-------------------------- MODULE DriverDeliveries --------------------------
(***************************************************************************)
(* A driver claims an appointment with its PIN, sees it in the app and     *)
(* reports its progress.  Claims take the row lock of the appointment; the *)
(* gateway checks ownership on GET /arrivals/{id}, and the app reads       *)
(* /me/active: both go through Redis, which the outbox worker keeps up.    *)
(* The helpers that read and write Redis log its errors and go on: a get   *)
(* that fails is a miss, a setex or a delete that fails leaves the key as  *)
(* it was.                                                                 *)
(***************************************************************************)
EXTENDS Integers

CONSTANTS
  Drivers,
  Appointments,  \* numbered in the order of scheduled_start_time
  Requests,      \* HTTP requests that may overlap
  MaxRequests,   \* bound on requests
  MaxMoves,      \* bound on status changes by others
  None

Statuses == {"scheduled", "in_transit", "in_process", "completed", "canceled"}
Delivering == {"in_transit", "in_process"}

VARIABLES
  status,       \* appointment.status
  owner,        \* appointment.driver_license
  current,      \* driver.current_appointment_id
  pending,      \* appointments with outbox rows to project
  worker,       \* row the outbox worker has read and not cached yet
  appCache,     \* Redis appointment:{id}:details, what matters of the snapshot
  activeCache,  \* Redis driver:{license}:active_appointment
  flight,       \* flight[r]: where request r is
  started,      \* requests so far
  moves,        \* status changes by others so far
  adrift        \* history: drivers whose active_appointment was filled too late, or kept
                \* by a Redis error or a dead letter from its correction

vars == <<status, owner, current, pending, worker, appCache, activeCache, flight,
          started, moves, adrift>>

Rows == [status : Statuses, owner : Drivers \cup {None}]
Active == [app : Appointments, status : Delivering]
Snapshots == [app : Appointments, row : Rows]
Idle == [kind |-> "idle"]
Flights ==
  {Idle}
    \cup [kind : {"claim", "ordered", "report"}, driver : Drivers, app : Appointments]
    \cup [kind : {"arrival"}, driver : Drivers \cup {None}, app : Appointments, row : Rows]
    \cup [kind : {"active"}, driver : Drivers, row : Active]

DeliveriesAssumption ==
  /\ Appointments \subseteq Nat
  /\ None \notin Drivers \cup Snapshots
  /\ MaxRequests \in Nat /\ MaxMoves \in Nat

TypeOK ==
  /\ status \in [Appointments -> Statuses]
  /\ owner \in [Appointments -> Drivers \cup {None}]
  /\ current \in [Drivers -> Appointments \cup {None}]
  /\ pending \subseteq Appointments
  /\ worker \in Snapshots \cup {None}
  /\ appCache \in [Appointments -> Rows \cup {None}]
  /\ activeCache \in [Drivers -> Active \cup {None}]
  /\ flight \in [Requests -> Flights]
  /\ started \in 0 .. MaxRequests /\ moves \in 0 .. MaxMoves
  /\ adrift \subseteq Drivers

\* Appointments booked and not begun, one possibly claimed already.
Init ==
  /\ status = [a \in Appointments |-> "scheduled"]
  /\ current = [d \in Drivers |-> None]
  /\ owner \in {o \in [Appointments -> Drivers \cup {None}] :
                  \A a, b \in Appointments : o[a] # None /\ o[b] # None => a = b}
  /\ pending = {} /\ worker = None
  /\ appCache = [a \in Appointments |-> None]
  /\ activeCache = [d \in Drivers |-> None]
  /\ flight = [r \in Requests |-> Idle]
  /\ started = 0 /\ moves = 0 /\ adrift = {}

Row(a) == [status |-> status[a], owner |-> owner[a]]
Trigger == INSTANCE AppointmentLifecycle WITH entered <- {}

\* An appointment changes with its outbox row, in one transaction.
Move(a, s) ==
  /\ Trigger!Legal(status[a], s)
  /\ status' = [status EXCEPT ![a] = s]
  /\ pending' = pending \cup {a}

Go(r, to) == flight' = [flight EXCEPT ![r] = to]
Begin(r, to) ==
  /\ flight[r] = Idle /\ started < MaxRequests
  /\ started' = started + 1
  /\ Go(r, to)

-----------------------------------------------------------------------------
(* POST /drivers/claim: three statements of one transaction *)

\* Scheduled, and free or already this driver's.
ClaimRead(r, d) == \E a \in Appointments :
  /\ status[a] = "scheduled" /\ owner[a] \in {None, d}
  /\ Begin(r, [kind |-> "claim", driver |-> d, app |-> a])
  /\ UNCHANGED <<status, owner, current, pending, worker, appCache, activeCache, moves, adrift>>

Deliveries(d) == {a \in Appointments : owner[a] = d /\ status[a] \in Delivering}
First(S) == CHOOSE a \in S : \A b \in S : a <= b

\* Must complete an earlier delivery first.
ClaimOrder(r) ==
  /\ flight[r].kind = "claim"
  /\ LET d == flight[r].driver IN
     IF Deliveries(d) = {} \/ First(Deliveries(d)) = flight[r].app
     THEN Go(r, [flight[r] EXCEPT !.kind = "ordered"]) ELSE Go(r, Idle)
  /\ UNCHANGED <<status, owner, current, pending, worker, appCache, activeCache, started,
                 moves, adrift>>

\* Mutant: the owner that was read without the lock is trusted.
AssignBlindly(a, d) ==
  /\ owner' = [owner EXCEPT ![a] = d]
  /\ current' = [current EXCEPT ![d] = a]

\* Under the row lock the owner is read again, the status is not.  No outbox row, no
\* eviction.
Assign(a, d) ==
  IF owner[a] = None
  THEN /\ owner' = [owner EXCEPT ![a] = d]
       /\ current' = [current EXCEPT ![d] = a]
  ELSE UNCHANGED <<owner, current>>

ClaimAssign(r) ==
  /\ flight[r].kind = "ordered"
  /\ Assign(flight[r].app, flight[r].driver)
  /\ Go(r, Idle)
  /\ UNCHANGED <<status, pending, worker, appCache, activeCache, started, moves, adrift>>

-----------------------------------------------------------------------------
(* GET /arrivals/{id}, by anyone (d = None) or for a driver's report *)

Owns(row, d) == row.owner = d

Answer(a, d, row) ==
  IF d # None /\ Owns(row, d)
  THEN [kind |-> "report", driver |-> d, app |-> a] ELSE Idle

ArrivalHit(r, d) == \E a \in Appointments :
  /\ d # None /\ appCache[a] # None
  /\ Begin(r, Answer(a, d, appCache[a]))
  /\ UNCHANGED <<status, owner, current, pending, worker, appCache, activeCache, moves, adrift>>

\* A miss, or a Redis error, which counts as one.
ArrivalRead(r, d) == \E a \in Appointments :
  /\ Begin(r, [kind |-> "arrival", driver |-> d, app |-> a, row |-> Row(a)])
  /\ UNCHANGED <<status, owner, current, pending, worker, appCache, activeCache, moves, adrift>>

ArrivalCached(r) ==
  /\ flight[r].kind = "arrival"
  /\ appCache' \in {appCache, [appCache EXCEPT ![flight[r].app] = flight[r].row]}
  /\ Go(r, Answer(flight[r].app, flight[r].driver, flight[r].row))
  /\ UNCHANGED <<status, owner, current, pending, worker, activeCache, started, moves, adrift>>

\* PATCH /arrivals/{id}/status, or /visit, which adds a row and leaves the status.
Report(r) ==
  /\ flight[r].kind = "report"
  /\ \E s \in Statuses : Move(flight[r].app, s)
  /\ Go(r, Idle)
  /\ UNCHANGED <<owner, current, worker, appCache, activeCache, started, moves, adrift>>

-----------------------------------------------------------------------------
(* GET /drivers/me/active *)

NextDelivery(d) ==
  LET a == First(Deliveries(d)) IN [app |-> a, status |-> status[a]]

ActiveRead(r, d) ==
  /\ Deliveries(d) # {}
  /\ Begin(r, [kind |-> "active", driver |-> d, row |-> NextDelivery(d)])
  /\ UNCHANGED <<status, owner, current, pending, worker, appCache, activeCache, moves, adrift>>

\* Nothing will correct what the fill writes.
Uncorrected(a) == a \notin pending /\ (worker = None \/ worker.app # a)
Outdated(a, s) == status[a] # s /\ Uncorrected(a)

ActiveCached(r) ==
  /\ flight[r].kind = "active"
  /\ LET d == flight[r].driver row == flight[r].row IN
     \/ /\ activeCache' = [activeCache EXCEPT ![d] = row]
        /\ adrift' = IF Outdated(row.app, row.status) THEN adrift \cup {d} ELSE adrift \ {d}
     \/ UNCHANGED <<activeCache, adrift>>
  /\ Go(r, Idle)
  /\ UNCHANGED <<status, owner, current, pending, worker, appCache, started, moves>>

-----------------------------------------------------------------------------
(* The outbox worker projects the row as it finds it *)

ProjectRead(a) ==
  /\ worker = None /\ a \in pending
  /\ pending' = pending \ {a}
  /\ worker' = [app |-> a, row |-> Row(a)]
  /\ appCache' \in {appCache, [appCache EXCEPT ![a] = None]}
  /\ UNCHANGED <<status, owner, current, activeCache, flight, started, moves, adrift>>

\* Drivers who are shown a as it is no longer.
Misled(a) ==
  {d \in Drivers : /\ activeCache[d] # None /\ activeCache[d].app = a
                   /\ activeCache[d].status # status[a]}

\* The row ends as a dead letter: its projection raised for the last time, after the
\* eviction of the snapshot or before.
ProjectionGivenUp(a) ==
  /\ worker = None /\ a \in pending
  /\ pending' = pending \ {a}
  /\ appCache' \in {appCache, [appCache EXCEPT ![a] = None]}
  /\ adrift' = adrift \cup Misled(a)
  /\ UNCHANGED <<status, owner, current, worker, activeCache, flight, started, moves>>

\* Mutant: only entering the port is projected to the driver's key.
ActiveEntryKept(row, a, old) ==
  IF row.status = "in_process" THEN [app |-> a, status |-> row.status] ELSE old
\* What the driver's key becomes: the snapshot in the port, nothing otherwise.
ActiveEntry(row, a, old) ==
  IF row.status = "in_process" THEN [app |-> a, status |-> row.status] ELSE None

\* The snapshot, then the driver's key; the row is PUBLISHED whether Redis took them or not.
ProjectWrite ==
  /\ worker # None
  /\ appCache' \in {appCache, [appCache EXCEPT ![worker.app] = worker.row]}
  /\ LET d == worker.row.owner IN
     \/ d = None /\ UNCHANGED <<activeCache, adrift>>
     \/ /\ d # None
        /\ activeCache' = [activeCache EXCEPT ![d] = ActiveEntry(worker.row, worker.app, @)]
        /\ adrift' = adrift \ {d}
     \/ /\ d # None
        /\ adrift' = adrift \cup ({d} \cap Misled(worker.app))
        /\ UNCHANGED activeCache
  /\ worker' = None
  /\ UNCHANGED <<status, owner, current, pending, flight, started, moves>>

\* The transaction of the batch is lost and the row stays PENDING.
WorkerCrash ==
  /\ worker # None
  /\ pending' = pending \cup {worker.app}
  /\ worker' = None
  /\ UNCHANGED <<status, owner, current, appCache, activeCache, flight, started, moves, adrift>>

-----------------------------------------------------------------------------
(* Everything else *)

\* Decisions, managers and other drivers' reports.
Moved(a, s) ==
  /\ moves < MaxMoves
  /\ moves' = moves + 1
  /\ status[a] # s /\ Move(a, s)
  /\ UNCHANGED <<owner, current, worker, appCache, activeCache, flight, started, adrift>>

ArrivalExpires(a) ==
  /\ appCache[a] # None
  /\ appCache' = [appCache EXCEPT ![a] = None]
  /\ UNCHANGED <<status, owner, current, pending, worker, activeCache, flight, started,
                 moves, adrift>>

\* Its five minutes are over, or the driver is erased.
ActiveEvicted(d) ==
  /\ activeCache[d] # None
  /\ activeCache' = [activeCache EXCEPT ![d] = None]
  /\ adrift' = adrift \ {d}
  /\ UNCHANGED <<status, owner, current, pending, worker, appCache, flight, started, moves>>

Ask(r, d) == ClaimRead(r, d) \/ ActiveRead(r, d) \/ ArrivalHit(r, d)
Continue(r) == ClaimOrder(r) \/ ClaimAssign(r) \/ ArrivalCached(r) \/ Report(r) \/ ActiveCached(r)

Next ==
  \/ \E r \in Requests, d \in Drivers : Ask(r, d)
  \/ \E r \in Requests, d \in Drivers \cup {None} : ArrivalRead(r, d)
  \/ \E r \in Requests : Continue(r)
  \/ \E a \in Appointments : ProjectRead(a) \/ ProjectionGivenUp(a) \/ ArrivalExpires(a)
  \/ \E a \in Appointments, s \in Statuses : Moved(a, s)
  \/ ProjectWrite \/ WorkerCrash
  \/ \E d \in Drivers : ActiveEvicted(d)

Spec == Init /\ [][Next]_vars

-----------------------------------------------------------------------------
(* Properties *)

\* An appointment, once claimed, is never claimed away, however claims overlap
\* (assign_driver_to_appointment: no silent double-claim).
OwnerNeverChanges ==
  [][\A a \in Appointments : owner[a] # None => owner'[a] = owner[a]]_vars

\* A driver reports only on an appointment of his own, although the gateway checks a
\* snapshot that may be half an hour old: owners are written once.
ReportsByOwner ==
  \A r \in Requests : flight[r].kind = "report" => owner[flight[r].app] = flight[r].driver

\* What the app shows of the active delivery is this driver's, and it is so in PostgreSQL
\* or a row that corrects it is under way.  Exempt are the drivers whose key a fill wrote
\* after its correction, and those whose correction Redis refused or the outbox gave up.
ActiveCacheFollows ==
  \A d \in Drivers : activeCache[d] # None =>
    LET a == activeCache[d].app IN
    /\ owner[a] = d
    /\ status[a] = activeCache[d].status \/ ~Uncorrected(a) \/ d \in adrift

=============================================================================
