----------------------- MODULE DriverDeliveriesProofs -----------------------
(***************************************************************************)
(* For any drivers, appointments and overlapping requests: a claim is      *)
(* never lost to another, reports come from the owner, and the app shows   *)
(* the active delivery as PostgreSQL or as something under way has it.     *)
(***************************************************************************)
EXTENDS DriverDeliveries, WellFoundedInduction, TLAPS

\* What a snapshot says of the owner is nothing or the owner.
Known(row, a) == row.owner \in {None, owner[a]}

\* Owners are written once, so every copy of a row still knows the owner or nobody.
OwnersKnown ==
  /\ \A a \in Appointments : appCache[a] # None => Known(appCache[a], a)
  /\ worker # None => Known(worker.row, worker.app)
  /\ \A r \in Requests : flight[r].kind = "arrival" => Known(flight[r].row, flight[r].app)
  /\ ReportsByOwner

\* The row in the worker's hands is the current one or will be projected again.
WorkerFollows == worker # None => status[worker.app] = worker.row.status \/ worker.app \in pending

\* The worker has read the appointment before it was this driver's, and will not correct.
Overlooks(a, d) == worker # None /\ worker.app = a /\ worker.row.owner # d

\* Then what the app shows, or is about to, is right or will be projected again.
ShownFollows ==
  \A d \in Drivers :
    activeCache[d] # None /\ Overlooks(activeCache[d].app, d) =>
      \/ status[activeCache[d].app] = activeCache[d].status
      \/ activeCache[d].app \in pending \/ d \in adrift
FillsFollow ==
  \A r \in Requests : flight[r].kind = "active" =>
    LET d == flight[r].driver row == flight[r].row IN
    /\ owner[row.app] = d
    /\ Overlooks(row.app, d) => status[row.app] = row.status \/ row.app \in pending

DeliveriesInv ==
  /\ TypeOK /\ OwnersKnown /\ WorkerFollows
  /\ ShownFollows /\ FillsFollow /\ ActiveCacheFollows

-----------------------------------------------------------------------------
(* Lemmas *)

\* First picks one of the appointments: numbers have a least one.
LEMMA FirstIsOne ==
  ASSUME NEW S, S \subseteq Nat, S # {}
  PROVE First(S) \in S
<1>1. PICK a \in S : \A b \in S : <<b, a>> \notin OpToRel(<, Nat)
  <2>1. IsWellFoundedOn(OpToRel(<, Nat), Nat)
    BY NatLessThanWellFounded
  <2> HIDE DEF OpToRel
  <2> QED
    BY <2>1, WFMin
<1>2. ASSUME NEW b \in S PROVE a <= b
  <2>1. OpToRel(<, Nat) = {ss \in Nat \X Nat : ss[1] < ss[2]}
    BY DEF OpToRel
  <2>2. b < a => <<b, a>> \in {ss \in Nat \X Nat : ss[1] < ss[2]}
    OBVIOUS
  <2>3. ~(b < a)
    BY <1>1, <2>1, <2>2
  <2> QED
    BY <2>3
<1> QED
  BY <1>2 DEF First

\* The records a request may be are told apart by their kind.
LEMMA FlightKinds ==
  ASSUME TypeOK, NEW r \in Requests
  PROVE /\ flight[r].kind \in {"claim", "ordered", "report"} =>
             flight[r].driver \in Drivers /\ flight[r].app \in Appointments
        /\ flight[r].kind = "arrival" =>
             /\ flight[r].driver \in Drivers \cup {None} /\ flight[r].app \in Appointments
             /\ flight[r].row \in Rows
        /\ flight[r].kind = "active" => flight[r].driver \in Drivers /\ flight[r].row \in Active
<1>1. flight[r] \in Flights
  BY DEF TypeOK
<1> QED
  BY <1>1 DEF Flights, Idle

\* What the invariant says beside the types.
Beside == OwnersKnown /\ WorkerFollows /\ ShownFollows /\ FillsFollow /\ ActiveCacheFollows

\* Requests that come, go or claim leave it true.
LEMMA RequestsKeep ==
  ASSUME DeliveriesInv,
         UNCHANGED <<status, owner, pending, worker, appCache, activeCache, adrift>>,
         \A s \in Requests : flight'[s] = flight[s] \/ flight'[s].kind \in {"idle", "claim", "ordered"}
  PROVE Beside'
<1> USE DEF DeliveriesInv
<1>1. OwnersKnown'
  BY DEF OwnersKnown, ReportsByOwner, Known
<1>2. FillsFollow'
  BY DEF FillsFollow, Overlooks
<1>3. WorkerFollows' /\ ShownFollows' /\ ActiveCacheFollows'
  BY DEF WorkerFollows, ShownFollows, ActiveCacheFollows, Overlooks, Uncorrected
<1> QED
  BY <1>1, <1>2, <1>3 DEF Beside

\* A move leaves it true: the outbox row it commits will be projected.
LEMMA MovesKeep ==
  ASSUME DeliveriesInv, NEW a \in Appointments, NEW s \in Statuses, Move(a, s),
         UNCHANGED <<owner, worker, appCache, activeCache, adrift>>,
         \A r \in Requests : flight'[r] = flight[r] \/ flight'[r].kind = "idle"
  PROVE Beside' /\ status' \in [Appointments -> Statuses] /\ pending' \subseteq Appointments
<1> USE DEF DeliveriesInv
<1>1. /\ status' = [status EXCEPT ![a] = s]
      /\ pending' = pending \cup {a}
  BY DEF Move
<1>2. \A b \in Appointments : status'[b] = status[b] \/ b \in pending'
  BY <1>1 DEF TypeOK
<1>3. pending \subseteq pending'
  BY <1>1
<1>4. OwnersKnown'
  BY DEF OwnersKnown, ReportsByOwner, Known
<1>5. WorkerFollows'
  BY <1>2, <1>3 DEF WorkerFollows, TypeOK, Snapshots
<1>6. ShownFollows' /\ ActiveCacheFollows'
  BY <1>2, <1>3 DEF ShownFollows, ActiveCacheFollows, Overlooks, Uncorrected, TypeOK, Active
<1>7. FillsFollow'
  <2> SUFFICES ASSUME NEW r \in Requests, flight'[r].kind = "active"
               PROVE /\ owner[flight[r].row.app] = flight[r].driver
                     /\ Overlooks(flight[r].row.app, flight[r].driver) =>
                          \/ status'[flight[r].row.app] = flight[r].row.status
                          \/ flight[r].row.app \in pending'
    BY DEF FillsFollow, Overlooks
  <2>1. flight[r].kind = "active"
    OBVIOUS
  <2>2. flight[r].row.app \in Appointments
    BY <2>1, FlightKinds DEF Active
  <2> QED
    BY <1>2, <1>3, <2>1, <2>2 DEF FillsFollow
<1>8. status' \in [Appointments -> Statuses] /\ pending' \subseteq Appointments
  BY <1>1 DEF TypeOK
<1> QED
  BY <1>4, <1>5, <1>6, <1>7, <1>8 DEF Beside

-----------------------------------------------------------------------------
(* One lemma per group of actions *)

\* A claim.  Nothing was cached or read for a driver while the appointment was free.
LEMMA ClaimsKeep ==
  ASSUME DeliveriesAssumption, DeliveriesInv, NEW r \in Requests, NEW d \in Drivers,
         ClaimRead(r, d) \/ ClaimOrder(r) \/ ClaimAssign(r)
  PROVE DeliveriesInv'
<1> USE DEF DeliveriesInv
<1>1. CASE ClaimRead(r, d)
  <2>1. PICK a \in Appointments :
          /\ flight' = [flight EXCEPT ![r] = [kind |-> "claim", driver |-> d, app |-> a]]
          /\ started' = started + 1 /\ started < MaxRequests
    BY <1>1 DEF ClaimRead, Begin, Go
  <2>2. UNCHANGED <<status, owner, current, pending, worker, appCache, activeCache, moves, adrift>>
    BY <1>1 DEF ClaimRead
  <2>3. flight' \in [Requests -> Flights]
    BY <2>1 DEF TypeOK, Flights
  <2>4. TypeOK'
    BY <2>1, <2>2, <2>3 DEF TypeOK, DeliveriesAssumption
  <2>5. \A s \in Requests : flight'[s] = flight[s] \/ flight'[s].kind = "claim"
    BY <2>1 DEF TypeOK
  <2> QED
    BY <2>2, <2>4, <2>5, RequestsKeep DEF Beside
<1>2. CASE ClaimOrder(r)
  <2>1. /\ flight[r].kind = "claim"
        /\ \/ flight' = [flight EXCEPT ![r] = Idle]
           \/ flight' = [flight EXCEPT ![r] = [flight[r] EXCEPT !.kind = "ordered"]]
    BY <1>2 DEF ClaimOrder, Go
  <2>2. UNCHANGED <<status, owner, current, pending, worker, appCache, activeCache, started,
                    moves, adrift>>
    BY <1>2 DEF ClaimOrder
  <2>3. flight' \in [Requests -> Flights]
    BY <2>1 DEF TypeOK, Flights, Idle
  <2>4. TypeOK'
    BY <2>2, <2>3 DEF TypeOK
  <2>5. \A s \in Requests : flight'[s] = flight[s] \/ flight'[s].kind \in {"idle", "ordered"}
    BY <2>1 DEF TypeOK, Flights, Idle
  <2> QED
    BY <2>2, <2>4, <2>5, RequestsKeep DEF Beside
<1>3. CASE ClaimAssign(r)
  <2> DEFINE a == flight[r].app
             me == flight[r].driver
  <2>1. flight[r].kind = "ordered" /\ a \in Appointments /\ me \in Drivers
    BY <1>3, FlightKinds DEF ClaimAssign
  <2>2. /\ flight' = [flight EXCEPT ![r] = Idle]
        /\ UNCHANGED <<status, pending, worker, appCache, activeCache, started, moves, adrift>>
    BY <1>3 DEF ClaimAssign, Go
  <2>3. \A s \in Requests : flight'[s] = flight[s] \/ flight'[s].kind = "idle"
    BY <2>2 DEF TypeOK, Idle
  <2>4. flight' \in [Requests -> Flights]
    BY <2>2 DEF TypeOK, Flights
  <2>5. CASE UNCHANGED <<owner, current>>
    <3>1. TypeOK'
      BY <2>2, <2>4, <2>5 DEF TypeOK
    <3> QED
      BY <2>2, <2>3, <2>5, <3>1, RequestsKeep DEF Beside
  <2>6. CASE /\ owner[a] = None
             /\ owner' = [owner EXCEPT ![a] = me]
             /\ current' = [current EXCEPT ![me] = a]
    <3> HIDE DEF a, me
    <3>1. TypeOK'
      BY <2>1, <2>2, <2>4, <2>6 DEF TypeOK
    <3>2. \A b \in Appointments : owner'[b] = owner[b] \/ (b = a /\ owner[b] = None)
      BY <2>1, <2>6 DEF TypeOK
    <3>3. ASSUME NEW b \in Appointments, NEW row, Known(row, b)
          PROVE row.owner \in {None, owner'[b]}
      BY <2>1, <2>6, <3>2, <3>3 DEF Known
    <3>4. OwnersKnown'
      <4>1. ASSUME NEW s \in Requests, flight'[s].kind = "arrival"
            PROVE flight[s].row.owner \in {None, owner'[flight[s].app]}
        BY <2>3, <3>3, <4>1, FlightKinds DEF OwnersKnown
      <4>2. ASSUME NEW s \in Requests, flight'[s].kind = "report"
            PROVE owner'[flight[s].app] = flight[s].driver
        BY <2>3, <3>2, <4>2, FlightKinds DEF OwnersKnown, ReportsByOwner, DeliveriesAssumption
      <4>3. ASSUME worker # None PROVE worker.row.owner \in {None, owner'[worker.app]}
        <5>1. worker.app \in Appointments
          BY <4>3 DEF TypeOK, Snapshots
        <5> QED
          BY <3>3, <4>3, <5>1 DEF OwnersKnown
      <4>4. ASSUME NEW b \in Appointments, appCache[b] # None
            PROVE appCache[b].owner \in {None, owner'[b]}
        BY <3>3, <4>4 DEF OwnersKnown
      <4>5. \A s \in Requests : flight'[s].kind \in {"arrival", "report"} => flight'[s] = flight[s]
        BY <2>3
      <4> QED
        BY <2>2, <4>1, <4>2, <4>3, <4>4, <4>5 DEF OwnersKnown, ReportsByOwner, Known
    <3>5. FillsFollow'
      <4> SUFFICES ASSUME NEW s \in Requests, flight'[s].kind = "active"
                   PROVE LET e == flight[s].driver row == flight[s].row IN
                         /\ owner'[row.app] = e
                         /\ Overlooks(row.app, e) => status[row.app] = row.status \/ row.app \in pending
        BY <2>2, <2>3 DEF FillsFollow, Overlooks
      <4>1. flight[s].kind = "active"
        BY <2>3
      <4>2. flight[s].driver \in Drivers /\ flight[s].row.app \in Appointments
        BY <4>1, FlightKinds DEF Active
      <4> QED
        BY <3>2, <4>1, <4>2 DEF FillsFollow, DeliveriesAssumption
    <3>6. ActiveCacheFollows'
      <4>1. ASSUME NEW e \in Drivers, activeCache[e] # None
            PROVE owner'[activeCache[e].app] = owner[activeCache[e].app]
        <5>1. activeCache[e].app \in Appointments
          BY <4>1 DEF TypeOK, Active
        <5>2. owner[activeCache[e].app] = e
          BY <4>1 DEF ActiveCacheFollows
        <5> QED
          BY <3>2, <5>1, <5>2 DEF DeliveriesAssumption
      <4> QED
        BY <2>2, <4>1 DEF ActiveCacheFollows, Uncorrected
    <3>7. WorkerFollows' /\ ShownFollows'
      BY <2>2 DEF WorkerFollows, ShownFollows, Overlooks
    <3> QED
      BY <3>1, <3>4, <3>5, <3>6, <3>7
  <2> QED
    BY <1>3, <2>5, <2>6 DEF ClaimAssign, Assign
<1> QED
  BY <1>1, <1>2, <1>3

\* GET /arrivals/{id}: a snapshot with its owner, or nobody, goes into the cache and into
\* the check.
LEMMA ArrivalsKeep ==
  ASSUME DeliveriesAssumption, DeliveriesInv, NEW r \in Requests, NEW d \in Drivers \cup {None},
         ArrivalRead(r, d) \/ (d \in Drivers /\ ArrivalHit(r, d)) \/ ArrivalCached(r)
  PROVE DeliveriesInv'
<1> USE DEF DeliveriesInv
<1>1. ASSUME NEW a \in Appointments, NEW row \in Rows, NEW e \in Drivers \cup {None}, Known(row, a)
      PROVE /\ Answer(a, e, row) \in Flights
            /\ \/ Answer(a, e, row) = Idle
               \/ /\ Answer(a, e, row).kind = "report"
                  /\ owner[Answer(a, e, row).app] = Answer(a, e, row).driver
  BY <1>1 DEF Answer, Owns, Known, Flights
<1>2. ASSUME NEW f, f \in Flights, flight' = [flight EXCEPT ![r] = f],
             \/ f = Idle
             \/ f.kind = "report" /\ owner[f.app] = f.driver
             \/ f.kind = "arrival" /\ Known(f.row, f.app),
             UNCHANGED <<status, owner, current, pending, worker, activeCache, moves, adrift>>,
             started' \in 0 .. MaxRequests,
             appCache' \in [Appointments -> Rows \cup {None}],
             \A a \in Appointments : appCache'[a] # None => Known(appCache'[a], a)
      PROVE DeliveriesInv'
  <2>1. \A s \in Requests : flight'[s] = IF s = r THEN f ELSE flight[s]
    BY <1>2 DEF TypeOK
  <2>2. flight' \in [Requests -> Flights]
    BY <1>2 DEF TypeOK
  <2>3. TypeOK'
    BY <1>2, <2>2 DEF TypeOK
  <2>4. OwnersKnown'
    BY <1>2, <2>1 DEF OwnersKnown, ReportsByOwner, Known, Idle
  <2>5. FillsFollow'
    BY <1>2, <2>1 DEF FillsFollow, Overlooks, Idle
  <2>6. WorkerFollows' /\ ShownFollows' /\ ActiveCacheFollows'
    BY <1>2 DEF WorkerFollows, ShownFollows, ActiveCacheFollows, Overlooks, Uncorrected
  <2> QED
    BY <2>3, <2>4, <2>5, <2>6
<1>3. CASE ArrivalRead(r, d)
  <2>1. PICK a \in Appointments :
          flight' = [flight EXCEPT ![r] = [kind |-> "arrival", driver |-> d, app |-> a, row |-> Row(a)]]
    BY <1>3 DEF ArrivalRead, Begin, Go
  <2>2. Row(a) \in Rows /\ Known(Row(a), a)
    BY DEF Row, Rows, Known, TypeOK
  <2>3. [kind |-> "arrival", driver |-> d, app |-> a, row |-> Row(a)] \in Flights
    BY <2>2 DEF Flights
  <2>4. started' \in 0 .. MaxRequests
    BY <1>3 DEF ArrivalRead, Begin, TypeOK, DeliveriesAssumption
  <2>5. UNCHANGED <<status, owner, current, pending, worker, appCache, activeCache, moves, adrift>>
    BY <1>3 DEF ArrivalRead
  <2> QED
    BY <1>2, <2>1, <2>2, <2>3, <2>4, <2>5 DEF TypeOK, OwnersKnown
<1>4. CASE d \in Drivers /\ ArrivalHit(r, d)
  <2>1. PICK a \in Appointments :
          appCache[a] # None /\ flight' = [flight EXCEPT ![r] = Answer(a, d, appCache[a])]
    BY <1>4 DEF ArrivalHit, Begin, Go
  <2>2. appCache[a] \in Rows /\ Known(appCache[a], a)
    BY <2>1 DEF TypeOK, OwnersKnown
  <2>3. started' \in 0 .. MaxRequests
    BY <1>4 DEF ArrivalHit, Begin, TypeOK, DeliveriesAssumption
  <2>4. UNCHANGED <<status, owner, current, pending, worker, appCache, activeCache, moves, adrift>>
    BY <1>4 DEF ArrivalHit
  <2> DEFINE f == Answer(a, d, appCache[a])
  <2>5. /\ f \in Flights
        /\ f = Idle \/ (f.kind = "report" /\ owner[f.app] = f.driver)
    BY <1>1, <1>4, <2>2
  <2>6. flight' = [flight EXCEPT ![r] = f]
    BY <2>1
  <2>7. /\ appCache' \in [Appointments -> Rows \cup {None}]
        /\ \A b \in Appointments : appCache'[b] # None => Known(appCache'[b], b)
    BY <2>4 DEF TypeOK, OwnersKnown
  <2> HIDE DEF f
  <2> QED
    BY <1>2, <2>3, <2>4, <2>5, <2>6, <2>7
<1>5. CASE ArrivalCached(r)
  <2> DEFINE a == flight[r].app
             e == flight[r].driver
             row == flight[r].row
  <2>1. /\ a \in Appointments /\ e \in Drivers \cup {None} /\ row \in Rows
        /\ Known(row, a)
    BY <1>5, FlightKinds DEF ArrivalCached, OwnersKnown
  <2>2. /\ appCache' \in {appCache, [appCache EXCEPT ![a] = row]}
        /\ flight' = [flight EXCEPT ![r] = Answer(a, e, row)]
        /\ UNCHANGED <<status, owner, current, pending, worker, activeCache, started, moves, adrift>>
    BY <1>5 DEF ArrivalCached, Go
  <2> HIDE DEF a, e, row
  <2>3. appCache' \in [Appointments -> Rows \cup {None}]
    BY <2>1, <2>2 DEF TypeOK
  <2>4. \A b \in Appointments : appCache'[b] # None => Known(appCache'[b], b)
    BY <2>1, <2>2 DEF TypeOK, OwnersKnown
  <2> DEFINE f == Answer(a, e, row)
  <2>5. /\ f \in Flights
        /\ f = Idle \/ (f.kind = "report" /\ owner[f.app] = f.driver)
    BY <1>1, <2>1
  <2>6. flight' = [flight EXCEPT ![r] = f] /\ started' \in 0 .. MaxRequests
    BY <2>2 DEF TypeOK
  <2> HIDE DEF f
  <2> QED
    BY <1>2, <2>2, <2>3, <2>4, <2>5, <2>6
<1> QED
  BY <1>3, <1>4, <1>5

\* A driver's report changes the status.
LEMMA ReportsKeep ==
  ASSUME DeliveriesInv, NEW r \in Requests, Report(r)
  PROVE DeliveriesInv'
<1> USE DEF DeliveriesInv
<1>1. PICK s \in Statuses : Move(flight[r].app, s)
  BY DEF Report
<1>2. flight[r].app \in Appointments
  BY FlightKinds DEF Report
<1>3. /\ flight' = [flight EXCEPT ![r] = Idle]
      /\ UNCHANGED <<owner, current, worker, appCache, activeCache, started, moves, adrift>>
  BY DEF Report, Go
<1>4. \A q \in Requests : flight'[q] = flight[q] \/ flight'[q].kind = "idle"
  BY <1>3 DEF TypeOK, Idle
<1>5. Beside' /\ status' \in [Appointments -> Statuses] /\ pending' \subseteq Appointments
  BY <1>1, <1>2, <1>3, <1>4, MovesKeep
<1>6. flight' \in [Requests -> Flights]
  BY <1>3 DEF TypeOK, Flights
<1> QED
  BY <1>3, <1>5, <1>6 DEF TypeOK, Beside

\* So do decisions and managers.
LEMMA OthersMove ==
  ASSUME DeliveriesAssumption, DeliveriesInv, NEW a \in Appointments, NEW x \in Statuses,
         Moved(a, x)
  PROVE DeliveriesInv'
<1> USE DEF DeliveriesInv
<1>1. PICK s \in Statuses : Move(a, s)
  BY DEF Moved
<1>2. UNCHANGED <<owner, current, worker, appCache, activeCache, flight, started, adrift>>
  BY DEF Moved
<1>3. moves' \in 0 .. MaxMoves
  BY DEF Moved, TypeOK, DeliveriesAssumption
<1>4. Beside' /\ status' \in [Appointments -> Statuses] /\ pending' \subseteq Appointments
  BY <1>1, <1>2, MovesKeep
<1> QED
  BY <1>2, <1>3, <1>4 DEF TypeOK, Beside

\* GET /drivers/me/active: the row is right when it is read, and what fills the cache too
\* late for any correction is remembered.
LEMMA ActivesKeep ==
  ASSUME DeliveriesAssumption, DeliveriesInv, NEW r \in Requests, NEW d \in Drivers,
         ActiveRead(r, d) \/ ActiveCached(r)
  PROVE DeliveriesInv'
<1> USE DEF DeliveriesInv
<1>1. CASE ActiveRead(r, d)
  <2> DEFINE row == NextDelivery(d)
             f == [kind |-> "active", driver |-> d, row |-> row]
  <2>1. flight' = [flight EXCEPT ![r] = f] /\ started' \in 0 .. MaxRequests
    BY <1>1 DEF ActiveRead, Begin, Go, TypeOK, DeliveriesAssumption
  <2>2. UNCHANGED <<status, owner, current, pending, worker, appCache, activeCache, moves, adrift>>
    BY <1>1 DEF ActiveRead
  <2>3. First(Deliveries(d)) \in Deliveries(d)
    BY <1>1, FirstIsOne DEF ActiveRead, Deliveries, DeliveriesAssumption
  <2>4. row \in Active /\ owner[row.app] = d /\ status[row.app] = row.status
    BY <2>3 DEF NextDelivery, Deliveries, Active
  <2> HIDE DEF row
  <2>5. f \in Flights
    BY <2>4 DEF Flights
  <2>6. \A s \in Requests : flight'[s] = IF s = r THEN f ELSE flight[s]
    BY <2>1 DEF TypeOK
  <2>7. TypeOK'
    BY <2>1, <2>2, <2>5 DEF TypeOK
  <2>8. OwnersKnown' /\ FillsFollow'
    BY <2>2, <2>4, <2>6 DEF OwnersKnown, ReportsByOwner, Known, FillsFollow, Overlooks
  <2>9. WorkerFollows' /\ ShownFollows' /\ ActiveCacheFollows'
    BY <2>2 DEF WorkerFollows, ShownFollows, ActiveCacheFollows, Overlooks, Uncorrected
  <2> QED
    BY <2>7, <2>8, <2>9
<1>2. CASE ActiveCached(r)
  <2> DEFINE e == flight[r].driver
             row == flight[r].row
  <2>1. /\ flight[r].kind = "active" /\ e \in Drivers /\ row \in Active
        /\ owner[row.app] = e
        /\ Overlooks(row.app, e) => status[row.app] = row.status \/ row.app \in pending
    BY <1>2, FlightKinds DEF ActiveCached, FillsFollow
  <2>2. /\ \/ /\ activeCache' = [activeCache EXCEPT ![e] = row]
              /\ adrift' = IF Outdated(row.app, row.status) THEN adrift \cup {e} ELSE adrift \ {e}
           \/ UNCHANGED <<activeCache, adrift>>
        /\ flight' = [flight EXCEPT ![r] = Idle]
        /\ UNCHANGED <<status, owner, current, pending, worker, appCache, started, moves>>
    BY <1>2 DEF ActiveCached, Go
  <2> HIDE DEF e, row
  <2>3. \A s \in Requests : flight'[s] = flight[s] \/ flight'[s].kind = "idle"
    BY <2>2 DEF TypeOK, Idle
  <2>4. TypeOK'
    BY <2>1, <2>2 DEF TypeOK, Flights
  <2>5. OwnersKnown' /\ FillsFollow' /\ WorkerFollows'
    <3>1. OwnersKnown'
      BY <2>2, <2>3 DEF OwnersKnown, ReportsByOwner, Known
    <3>2. FillsFollow'
      BY <2>2, <2>3 DEF FillsFollow, Overlooks
    <3> QED
      BY <2>2, <3>1, <3>2 DEF WorkerFollows
  <2>6. \A x \in Drivers : /\ \/ activeCache'[x] = row /\ x = e
                              \/ activeCache'[x] = activeCache[x] /\ (x # e \/ adrift' = adrift)
                           /\ x # e => (x \in adrift' <=> x \in adrift)
    BY <2>2 DEF TypeOK
  <2>7. ShownFollows'
    <3> SUFFICES ASSUME NEW x \in Drivers, activeCache'[x] # None,
                        Overlooks(activeCache'[x].app, x)
                 PROVE \/ status[activeCache'[x].app] = activeCache'[x].status
                       \/ activeCache'[x].app \in pending \/ x \in adrift'
      BY <2>2 DEF ShownFollows, Overlooks
    <3>1. CASE x = e /\ activeCache'[x] = row
      BY <2>1, <3>1
    <3>2. CASE activeCache'[x] = activeCache[x] /\ (x # e \/ adrift' = adrift)
      BY <2>6, <3>2 DEF ShownFollows
    <3> QED
      BY <2>6, <3>1, <3>2
  <2>8. \/ UNCHANGED <<activeCache, adrift>>
        \/ status[row.app] = row.status \/ ~Uncorrected(row.app) \/ e \in adrift'
    BY <2>2 DEF Outdated
  <2>9. ActiveCacheFollows'
    <3> SUFFICES ASSUME NEW x \in Drivers, activeCache'[x] # None
                 PROVE LET b == activeCache'[x].app IN
                       /\ owner[b] = x
                       /\ status[b] = activeCache'[x].status \/ ~Uncorrected(b) \/ x \in adrift'
      BY <2>2 DEF ActiveCacheFollows, Uncorrected
    <3>1. CASE x = e /\ activeCache'[x] = row /\ ~UNCHANGED <<activeCache, adrift>>
      BY <2>1, <2>8, <3>1
    <3>2. CASE activeCache'[x] = activeCache[x] /\ (x # e \/ adrift' = adrift)
      BY <2>6, <3>2 DEF ActiveCacheFollows
    <3> QED
      BY <2>6, <3>1, <3>2
  <2> QED
    BY <2>4, <2>5, <2>7, <2>9
<1> QED
  BY <1>1, <1>2

\* The outbox worker: from reading a row to caching it no correction is lost.
LEMMA ProjectionsKeep ==
  ASSUME DeliveriesAssumption, DeliveriesInv, NEW a \in Appointments, ProjectRead(a)
  PROVE DeliveriesInv'
<1> USE DEF DeliveriesInv
<1>1. /\ worker = None /\ a \in pending
      /\ pending' = pending \ {a}
      /\ worker' = [app |-> a, row |-> Row(a)]
      /\ appCache' \in {appCache, [appCache EXCEPT ![a] = None]}
      /\ UNCHANGED <<status, owner, current, activeCache, flight, started, moves, adrift>>
  BY DEF ProjectRead
<1>2. /\ Row(a) \in Rows /\ Row(a).owner = owner[a] /\ Row(a).status = status[a]
      /\ worker' \in Snapshots
  BY <1>1 DEF Row, Rows, Snapshots, TypeOK
<1>3. worker' # None /\ worker'.app = a /\ worker'.row = Row(a)
  BY <1>1, <1>2 DEF DeliveriesAssumption
<1>4. \A b \in Appointments : appCache'[b] \in {None, appCache[b]}
  BY <1>1 DEF TypeOK
<1>5. TypeOK'
  BY <1>1, <1>2 DEF TypeOK
<1>6. OwnersKnown' /\ WorkerFollows'
  BY <1>1, <1>2, <1>3, <1>4 DEF OwnersKnown, ReportsByOwner, Known, WorkerFollows
<1>7. FillsFollow'
  BY <1>1, <1>2, <1>3 DEF FillsFollow, Overlooks
<1>8. ShownFollows'
  BY <1>1, <1>2, <1>3 DEF ActiveCacheFollows, ShownFollows, Overlooks
<1>9. ActiveCacheFollows'
  BY <1>1, <1>3 DEF ActiveCacheFollows, Uncorrected
<1> QED
  BY <1>5, <1>6, <1>7, <1>8, <1>9

\* A row that is given up: those it would have corrected are remembered.
LEMMA GiveUpKeeps ==
  ASSUME DeliveriesAssumption, DeliveriesInv, NEW a \in Appointments, ProjectionGivenUp(a)
  PROVE DeliveriesInv'
<1> USE DEF DeliveriesInv
<1>1. /\ worker = None /\ worker' = None
      /\ pending' = pending \ {a}
      /\ adrift' = adrift \cup Misled(a)
      /\ UNCHANGED <<status, owner, current, activeCache, flight, started, moves>>
  BY DEF ProjectionGivenUp
<1>2. appCache' \in {appCache, [appCache EXCEPT ![a] = None]}
  BY DEF ProjectionGivenUp
<1>3. \A b \in Appointments : appCache'[b] \in {None, appCache[b]}
  BY <1>2 DEF TypeOK
<1>4. TypeOK'
  BY <1>1, <1>2 DEF TypeOK, Misled
<1>5. OwnersKnown' /\ WorkerFollows'
  BY <1>1, <1>3 DEF OwnersKnown, ReportsByOwner, Known, WorkerFollows
<1>6. FillsFollow' /\ ShownFollows'
  BY <1>1 DEF FillsFollow, ShownFollows, Overlooks
<1>7. ActiveCacheFollows'
  <2> SUFFICES ASSUME NEW d \in Drivers, activeCache[d] # None
               PROVE LET b == activeCache[d].app IN
                     /\ owner[b] = d
                     /\ status[b] = activeCache[d].status \/ b \in pending' \/ d \in adrift'
    BY <1>1 DEF ActiveCacheFollows, Uncorrected
  <2>1. CASE activeCache[d].app = a
    BY <1>1, <2>1 DEF ActiveCacheFollows, Misled
  <2>2. CASE activeCache[d].app # a
    BY <1>1, <2>2 DEF ActiveCacheFollows, Uncorrected
  <2> QED
    BY <2>1, <2>2
<1> QED
  BY <1>4, <1>5, <1>6, <1>7

\* What the worker writes for the driver it knows of is right; of the others it overlooks
\* none that is wrong.
LEMMA WritesKeep ==
  ASSUME DeliveriesAssumption, DeliveriesInv, ProjectWrite
  PROVE DeliveriesInv'
<1> USE DEF DeliveriesInv
<1> DEFINE a == worker.app
           row == worker.row
           d == worker.row.owner
<1>1. /\ worker # None /\ a \in Appointments /\ row \in Rows
      /\ d = None \/ (d \in Drivers /\ d = owner[a])
      /\ status[a] = row.status \/ a \in pending
  BY DEF ProjectWrite, TypeOK, Snapshots, Rows, OwnersKnown, Known, WorkerFollows
<1>2. /\ appCache' \in {appCache, [appCache EXCEPT ![a] = row]}
      /\ worker' = None
      /\ UNCHANGED <<status, owner, current, pending, flight, started, moves>>
  BY DEF ProjectWrite
<1>3. \/ d = None /\ UNCHANGED <<activeCache, adrift>>
      \/ /\ d # None
         /\ activeCache' = [activeCache EXCEPT ![d] = ActiveEntry(row, a, @)]
         /\ adrift' = adrift \ {d}
      \/ /\ d # None
         /\ adrift' = adrift \cup ({d} \cap Misled(a))
         /\ UNCHANGED activeCache
  BY DEF ProjectWrite
<1>4. Known(row, a)
  BY <1>1 DEF OwnersKnown
<1> HIDE DEF a, row
<1>5. /\ \A b \in Appointments : appCache'[b] \in {appCache[b], row}
      /\ \A b \in Appointments : appCache'[b] = row => b = a \/ appCache[b] = row
  BY <1>2 DEF TypeOK
<1>6. OwnersKnown' /\ WorkerFollows'
  BY <1>2, <1>4, <1>5 DEF OwnersKnown, ReportsByOwner, Known, WorkerFollows
<1>7. FillsFollow' /\ ShownFollows'
  BY <1>2 DEF FillsFollow, ShownFollows, Overlooks
<1>8. ASSUME NEW e \in Drivers, activeCache'[e] = activeCache[e], e \in adrift => e \in adrift',
             activeCache[e] # None, ~(d # None /\ d = e)
      PROVE /\ owner[activeCache[e].app] = e
            /\ \/ status[activeCache[e].app] = activeCache[e].status
               \/ activeCache[e].app \in pending \/ e \in adrift'
  <2>1. worker.row.owner # e
    BY <1>8 DEF DeliveriesAssumption
  <2>2. CASE activeCache[e].app = worker.app
    BY <1>1, <1>8, <2>1, <2>2 DEF ActiveCacheFollows, ShownFollows, Overlooks
  <2>3. CASE activeCache[e].app # worker.app
    BY <1>8, <2>3 DEF ActiveCacheFollows, Uncorrected
  <2> QED
    BY <2>2, <2>3
<1>9. CASE d = None /\ UNCHANGED <<activeCache, adrift>>
  <2>1. TypeOK'
    BY <1>1, <1>2, <1>9 DEF TypeOK
  <2>2. ActiveCacheFollows'
    BY <1>2, <1>8, <1>9 DEF ActiveCacheFollows, Uncorrected
  <2> QED
    BY <1>6, <1>7, <2>1, <2>2
<1>10. CASE /\ d # None
            /\ activeCache' = [activeCache EXCEPT ![d] = ActiveEntry(row, a, @)]
            /\ adrift' = adrift \ {d}
  <2>1. ActiveEntry(row, a, activeCache[d]) \in Active \cup {None}
    BY <1>1 DEF ActiveEntry, Active, Delivering
  <2>2. activeCache' = [activeCache EXCEPT ![d] = ActiveEntry(row, a, activeCache[d])]
    BY <1>10
  <2> HIDE DEF d
  <2>3. TypeOK'
    BY <1>1, <1>2, <1>10, <2>1, <2>2 DEF TypeOK
  <2>4. \A e \in Drivers : /\ e # d => activeCache'[e] = activeCache[e]
                           /\ e # d => (e \in adrift' <=> e \in adrift)
    BY <1>10, <2>2 DEF TypeOK
  <2>5. activeCache'[d] # None =>
          /\ activeCache'[d].app = a /\ activeCache'[d].status = row.status
    BY <1>1, <1>10, <2>2 DEF TypeOK, ActiveEntry
  <2>6. ActiveCacheFollows'
    <3> SUFFICES ASSUME NEW e \in Drivers, activeCache'[e] # None
                 PROVE LET b == activeCache'[e].app IN
                       /\ owner[b] = e
                       /\ status[b] = activeCache'[e].status \/ b \in pending \/ e \in adrift'
      BY <1>2 DEF ActiveCacheFollows, Uncorrected
    <3>1. CASE e = d
      BY <1>1, <1>10, <2>5, <3>1 DEF d
    <3>2. CASE e # d
      BY <1>8, <2>4, <3>2 DEF d
    <3> QED
      BY <3>1, <3>2
  <2> QED
    BY <1>6, <1>7, <2>3, <2>6
<1>11. CASE /\ d # None
            /\ adrift' = adrift \cup ({d} \cap Misled(a))
            /\ UNCHANGED activeCache
  <2>1. TypeOK'
    BY <1>1, <1>2, <1>11 DEF TypeOK, Misled
  <2>2. ActiveCacheFollows'
    <3> SUFFICES ASSUME NEW e \in Drivers, activeCache[e] # None
                 PROVE LET b == activeCache[e].app IN
                       /\ owner[b] = e
                       /\ status[b] = activeCache[e].status \/ b \in pending \/ e \in adrift'
      BY <1>2, <1>11 DEF ActiveCacheFollows, Uncorrected
    <3>1. CASE e = d /\ activeCache[e].app = a
      BY <1>1, <1>11, <3>1 DEF ActiveCacheFollows, Misled
    <3>2. CASE e = d /\ activeCache[e].app # a
      BY <1>11, <3>2 DEF ActiveCacheFollows, Uncorrected, a
    <3>3. CASE e # d
      BY <1>8, <1>11, <3>3
    <3> QED
      BY <3>1, <3>2, <3>3
  <2> QED
    BY <1>6, <1>7, <2>1, <2>2
<1> QED
  BY <1>3, <1>9, <1>10, <1>11

\* A crash hands the row back, an expiry takes a copy away.
LEMMA LossesKeep ==
  ASSUME DeliveriesInv,
         \/ WorkerCrash
         \/ \E a \in Appointments : ArrivalExpires(a)
         \/ \E d \in Drivers : ActiveEvicted(d)
         \/ UNCHANGED vars
  PROVE DeliveriesInv'
<1> USE DEF DeliveriesInv
<1>1. CASE WorkerCrash
  <2>1. worker # None /\ pending' = pending \cup {worker.app} /\ worker' = None
    BY <1>1 DEF WorkerCrash
  <2>2. UNCHANGED <<status, owner, current, appCache, activeCache, flight, started, moves, adrift>>
    BY <1>1 DEF WorkerCrash
  <2>3. TypeOK'
    BY <2>1, <2>2 DEF TypeOK, Snapshots
  <2>4. OwnersKnown' /\ WorkerFollows' /\ FillsFollow' /\ ShownFollows'
    BY <2>1, <2>2 DEF OwnersKnown, ReportsByOwner, Known, WorkerFollows, FillsFollow, ShownFollows, Overlooks
  <2>5. ActiveCacheFollows'
    BY <2>1, <2>2 DEF ActiveCacheFollows, Uncorrected
  <2> QED
    BY <2>3, <2>4, <2>5
<1>2. ASSUME NEW a \in Appointments, ArrivalExpires(a) PROVE DeliveriesInv'
  <2>1. appCache' = [appCache EXCEPT ![a] = None]
    BY <1>2 DEF ArrivalExpires
  <2>2. UNCHANGED <<status, owner, current, pending, worker, activeCache, flight, started, moves, adrift>>
    BY <1>2 DEF ArrivalExpires
  <2>3. TypeOK'
    BY <2>1, <2>2 DEF TypeOK
  <2>4. OwnersKnown'
    BY <2>1, <2>2 DEF TypeOK, OwnersKnown, ReportsByOwner, Known
  <2>5. WorkerFollows' /\ FillsFollow' /\ ShownFollows' /\ ActiveCacheFollows'
    BY <2>2 DEF WorkerFollows, FillsFollow, ShownFollows, Overlooks, ActiveCacheFollows, Uncorrected
  <2> QED
    BY <2>3, <2>4, <2>5
<1>3. ASSUME NEW d \in Drivers, ActiveEvicted(d) PROVE DeliveriesInv'
  <2>1. activeCache' = [activeCache EXCEPT ![d] = None] /\ adrift' = adrift \ {d}
    BY <1>3 DEF ActiveEvicted
  <2>2. UNCHANGED <<status, owner, current, pending, worker, appCache, flight, started, moves>>
    BY <1>3 DEF ActiveEvicted
  <2>3. TypeOK'
    BY <2>1, <2>2 DEF TypeOK
  <2>4. OwnersKnown' /\ WorkerFollows' /\ FillsFollow'
    BY <2>2 DEF OwnersKnown, ReportsByOwner, Known, WorkerFollows, FillsFollow, Overlooks
  <2>5. \A e \in Drivers : /\ activeCache'[e] = IF e = d THEN None ELSE activeCache[e]
                           /\ e # d => (e \in adrift' <=> e \in adrift)
    BY <2>1 DEF TypeOK
  <2>6. ASSUME NEW e \in Drivers, activeCache'[e] # None
        PROVE activeCache'[e] = activeCache[e] /\ (e \in adrift => e \in adrift')
    BY <2>5, <2>6
  <2>7. ShownFollows'
    BY <2>2, <2>6 DEF ShownFollows, Overlooks
  <2>8. ActiveCacheFollows'
    BY <2>2, <2>6 DEF ActiveCacheFollows, Uncorrected
  <2> QED
    BY <2>3, <2>4, <2>7, <2>8
<1>4. CASE UNCHANGED vars
  BY <1>4 DEF vars, TypeOK, OwnersKnown, ReportsByOwner, Known, WorkerFollows, FillsFollow,
     ShownFollows, Overlooks, ActiveCacheFollows, Uncorrected
<1> QED
  BY <1>1, <1>2, <1>3, <1>4

\* Nothing is cached or under way to begin with.
LEMMA DeliveriesInit ==
  ASSUME DeliveriesAssumption
  PROVE Init => DeliveriesInv
<1> SUFFICES ASSUME Init PROVE DeliveriesInv
  OBVIOUS
<1>1. \A r \in Requests : flight[r] = Idle
  BY DEF Init
<1>2. TypeOK
  BY DEF Init, DeliveriesAssumption, TypeOK, Statuses, Flights
<1>3. OwnersKnown /\ FillsFollow
  BY <1>1 DEF Init, OwnersKnown, ReportsByOwner, FillsFollow, Idle
<1>4. WorkerFollows /\ ShownFollows /\ ActiveCacheFollows
  BY DEF Init, WorkerFollows, ShownFollows, ActiveCacheFollows
<1> QED
  BY <1>2, <1>3, <1>4 DEF DeliveriesInv

LEMMA DeliveriesStep ==
  ASSUME DeliveriesAssumption, DeliveriesInv, [Next]_vars
  PROVE DeliveriesInv'
<1>1. ASSUME NEW r \in Requests, NEW d \in Drivers, Ask(r, d) PROVE DeliveriesInv'
  BY <1>1, ClaimsKeep, ActivesKeep, ArrivalsKeep DEF Ask
<1>2. ASSUME NEW r \in Requests, NEW d \in Drivers \cup {None}, ArrivalRead(r, d)
      PROVE DeliveriesInv'
  BY <1>2, ArrivalsKeep
<1>3. ASSUME NEW r \in Requests, Continue(r) PROVE DeliveriesInv'
  <2>1. CASE ClaimOrder(r) \/ ClaimAssign(r)
    <3>1. flight[r].driver \in Drivers
      BY <2>1, FlightKinds DEF ClaimOrder, ClaimAssign, DeliveriesInv
    <3> QED
      BY <2>1, <3>1, ClaimsKeep
  <2>2. CASE ArrivalCached(r)
    BY <2>2, ArrivalsKeep
  <2>3. CASE ActiveCached(r)
    <3>1. flight[r].driver \in Drivers
      BY <2>3, FlightKinds DEF ActiveCached, DeliveriesInv
    <3> QED
      BY <2>3, <3>1, ActivesKeep
  <2>4. CASE Report(r)
    BY <2>4, ReportsKeep
  <2> QED
    BY <1>3, <2>1, <2>2, <2>3, <2>4 DEF Continue
<1>4. ASSUME NEW a \in Appointments, NEW s \in Statuses, Moved(a, s) PROVE DeliveriesInv'
  BY <1>4, OthersMove
<1> QED
  BY <1>1, <1>2, <1>3, <1>4, ProjectionsKeep, GiveUpKeeps, WritesKeep, LossesKeep
  DEF Next

-----------------------------------------------------------------------------
(* The theorems *)

\* The invariant holds however claims, reports, fills and the outbox worker overlap.
THEOREM DeliveriesInvariant ==
  ASSUME DeliveriesAssumption
  PROVE Spec => []DeliveriesInv
<1>1. DeliveriesInv /\ [Next]_vars => DeliveriesInv'
  BY DeliveriesStep
<1> QED
  BY DeliveriesInit, <1>1, PTL DEF Spec

\* The variables keep their types (all requests and the outbox worker).
THEOREM DeliveriesTypeCorrect ==
  ASSUME DeliveriesAssumption
  PROVE Spec => []TypeOK
<1>1. DeliveriesInv => TypeOK
  BY DEF DeliveriesInv
<1> QED
  BY DeliveriesInvariant, <1>1, PTL

\* No claim takes an appointment from another driver (assign_driver_to_appointment).
THEOREM ClaimsAreFinal ==
  ASSUME DeliveriesAssumption
  PROVE Spec => OwnerNeverChanges
<1>1. DeliveriesInv /\ [Next]_vars
      => [\A a \in Appointments : owner[a] # None => owner'[a] = owner[a]]_vars
  <2> SUFFICES ASSUME DeliveriesInv, Next, NEW a \in Appointments, owner[a] # None
               PROVE owner'[a] = owner[a]
    BY DEF vars
  <2>1. ASSUME NEW r \in Requests, ClaimAssign(r) PROVE owner'[a] = owner[a]
    <3>1. flight[r].app \in Appointments /\ owner \in [Appointments -> Drivers \cup {None}]
      BY <2>1, FlightKinds DEF ClaimAssign, DeliveriesInv, TypeOK
    <3> QED
      BY <2>1, <3>1 DEF ClaimAssign, Assign
  <2>2. CASE UNCHANGED owner
    BY <2>2
  <2> QED
    BY <2>1, <2>2 DEF Next, Ask, Continue, ClaimRead, ActiveRead, ArrivalHit, ArrivalRead,
       ClaimOrder, ArrivalCached, Report, ActiveCached, ProjectRead, ProjectionGivenUp, ArrivalExpires, Moved,
       ProjectWrite, WorkerCrash, ActiveEvicted
<1> QED
  BY DeliveriesInvariant, <1>1, PTL DEF Spec, OwnerNeverChanges

\* A driver reports only on an appointment of his own, however old the snapshot the
\* gateway has checked.
THEOREM ReportsAreOwn ==
  ASSUME DeliveriesAssumption
  PROVE Spec => []ReportsByOwner
<1>1. DeliveriesInv => ReportsByOwner
  BY DEF DeliveriesInv, OwnersKnown
<1> QED
  BY DeliveriesInvariant, <1>1, PTL

\* What the app shows as active is the driver's own, and right or about to be corrected by
\* the outbox; but for keys that a fill wrote too late, or whose correction Redis refused or
\* the outbox gave up.
THEOREM ActiveDeliveryFollows ==
  ASSUME DeliveriesAssumption
  PROVE Spec => []ActiveCacheFollows
<1>1. DeliveriesInv => ActiveCacheFollows
  BY DEF DeliveriesInv
<1> QED
  BY DeliveriesInvariant, <1>1, PTL
=============================================================================
