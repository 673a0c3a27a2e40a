------------------------------ MODULE Dashboard ------------------------------
(***************************************************************************)
(* The figures the Data Module shows of one day's appointments: the status *)
(* cards (cached in Redis), the manager's summary, the operator's view of a*)
(* gate, a page of the list, and the waiting times of the trucks that came.*)
(* Each answer is put together from several queries.  PostgreSQL gives     *)
(* every query its own snapshot (READ COMMITTED), so trips move, and the   *)
(* clock ticks, between two queries of one answer.  Appointments are those *)
(* the request's gate and date select.                                     *)
(***************************************************************************)
EXTENDS Integers, Sequences, FiniteSets, FiniteSetsExt

CONSTANTS Appointments, LastTime,
          DelayTolerance,  \* in the clock's units
          WaitBounds,      \* 5, 15 and 30 minutes in the code
          PageSize,           \* appointments per page
          None, MaxMoves, MaxAnswers  \* bounds of the exploration

DashboardAssumption ==
  /\ IsFiniteSet(Appointments) /\ None \notin Appointments
  /\ WaitBounds \in Seq(Nat) /\ Len(WaitBounds) = 3
  /\ WaitBounds[1] <= WaitBounds[2] /\ WaitBounds[2] <= WaitBounds[3]
  /\ LastTime \in Nat /\ DelayTolerance \in Nat /\ PageSize \in Nat \ {0}
  /\ MaxMoves \in Nat /\ MaxAnswers \in Nat

VARIABLES now, slot,   \* appointment -> scheduled start, or None
          status,
          entry, left, \* visit: entry_time and out_time, or None
          unloading,   \* visits in state unloading
          request,     \* the answer being put together, or None
          cached,      \* the cards in Redis, or None
          shown,       \* the last answer given, or None
          moves, answers

vars == <<now, slot, status, entry, left, unloading, request, cached,
          shown, moves, answers>>
trips == <<slot, status, entry, left, unloading, moves>>

Lifecycle == INSTANCE AppointmentLifecycle WITH entered <- {}

Init ==
  /\ now = DelayTolerance + 1
  /\ slot \in [Appointments -> {None, 0, 1}]
  /\ status \in [Appointments -> Lifecycle!Statuses]
  /\ entry \in [Appointments -> {None, 0, now}]
  /\ \A a \in Appointments : entry[a] # None <=> status[a] \in {"in_process", "completed"}
  /\ left = [a \in Appointments |-> None]
  /\ unloading = {}
  /\ request = None /\ cached = None /\ shown = None
  /\ moves = 0 /\ answers = 0

(***************************************************************************)
(* What each query counts.                                                 *)
(***************************************************************************)
Cutoff == now - DelayTolerance
\* Those with a scheduled start of the day.
Scheduled == {a \in Appointments : slot[a] # None}
In(s) == {a \in Scheduled : status[a] = s}

\* _delayed_condition, _unloading_condition
Delayed(cutoff) == {a \in In("scheduled") : slot[a] < cutoff}
Unloading == {a \in In("in_process") : a \in unloading /\ left[a] = None}

\* (mutant) in process, unloading included, as the list filters it
CardInProcessAll == In("in_process")
\* "exclude those rows from in_process_count so the two counts are disjoint"
CardInProcess == In("in_process") \ Unloading

CardQueries == <<"scheduled", "in_transit", "delayed", "unloading", "in_process",
                 "completed", "canceled">>
Card(q, cutoff) ==
  CASE q = "scheduled"  -> In("scheduled") \ Delayed(cutoff)
    [] q = "delayed"    -> Delayed(cutoff)
    [] q = "unloading"  -> Unloading
    [] q = "in_process" -> CardInProcess
    [] OTHER            -> In(q)

\* _resolve_status_filter: the list's filters, which overlap.
StatusFilter(s, cutoff) ==
  CASE s = "delayed" -> Delayed(cutoff) [] s = "unloading" -> Unloading [] OTHER -> In(s)

\* get_dashboard_summary; every visit of the model is one of the day.
Arrived == {a \in In("completed") : entry[a] # None}
OnTime(a) == entry[a] <= slot[a] + DelayTolerance
SummaryQueries == <<"total", "in_transit", "in_process", "unloading", "late_in_transit",
                    "entries", "exits", "overdue", "came_late", "arrived", "on_time">>
Summary(q, cutoff) ==
  CASE q = "total"           -> Scheduled
    [] q = "unloading"       -> Unloading
    [] q = "late_in_transit" -> {a \in In("in_transit") : slot[a] < cutoff}
    [] q = "entries"         -> {a \in Appointments : entry[a] # None}
    [] q = "exits"           -> {a \in Appointments : left[a] # None}
    [] q = "overdue"         -> {a \in In("scheduled") \cup In("in_transit") : slot[a] < cutoff}
    [] q = "came_late"       -> {a \in Arrived : ~OnTime(a)}
    [] q = "arrived"         -> Arrived
    [] q = "on_time"         -> {a \in Arrived : OnTime(a)}
    [] OTHER                 -> In(q)

\* get_operator_gate_dashboard: the next arrivals, then one grouped count.
GateQueries == <<{"upcoming"}, Lifecycle!Statuses>>

\* get_sustainability_summary: the trucks that came, each in one class of
\* waiting, and then those whose start nobody scheduled.
Waited(a) == Max({0, entry[a] - slot[a]})
Came == {a \in Scheduled : entry[a] # None}
WaitClass(q) ==
  CASE q = "0_5"      -> {a \in Came : Waited(a) <= WaitBounds[1]}
    [] q = "5_15"     -> {a \in Came : WaitBounds[1] < Waited(a) /\ Waited(a) <= WaitBounds[2]}
    [] q = "15_30"    -> {a \in Came : WaitBounds[2] < Waited(a) /\ Waited(a) <= WaitBounds[3]}
    [] q = "over_30"  -> {a \in Came : Waited(a) > WaitBounds[3]}
    [] q = "delayed"  -> {a \in Came : Waited(a) > WaitBounds[2]}
    [] q = "processed" -> Came
    [] q = "excluded" -> {a \in Appointments \ Scheduled : entry[a] # None}
WaitQueries == <<{"processed", "delayed", "0_5", "5_15", "15_30", "over_30"}, {"excluded"}>>

\* The queries of an answer in order, each with the figures it gives.
Singly(figures) == [i \in DOMAIN figures |-> {figures[i]}]
Queries(kind) ==
  CASE kind = "cards"   -> Singly(CardQueries)
    [] kind = "summary" -> Singly(SummaryQueries)
    [] kind = "gate"    -> GateQueries
    [] kind = "waits"   -> WaitQueries
    [] kind = "list"    -> Singly(<<"count", "page">>)

(***************************************************************************)
(* The trips move on meanwhile; "moved" counts, in an open request, the    *)
(* rows that changed class since it began.                                 *)
(***************************************************************************)
Disturbed(n) == request' = IF request = None THEN None ELSE [request EXCEPT !.moved = @ + n]

Move(a, s) ==
  /\ moves < MaxMoves /\ s # status[a] /\ Lifecycle!Legal(status[a], s)
  /\ status' = [status EXCEPT ![a] = s]
  /\ moves' = moves + 1 /\ Disturbed(1)
  /\ UNCHANGED <<now, slot, entry, left, unloading, cached, shown, answers>>

\* POST visit, or the container-moved handler: once per appointment.
VisitStarts(a) ==
  /\ moves < MaxMoves /\ entry[a] = None
  /\ entry' = [entry EXCEPT ![a] = now]
  /\ moves' = moves + 1 /\ Disturbed(1)
  /\ UNCHANGED <<now, slot, status, left, unloading, cached, shown, answers>>

\* PATCH visit: the state, and the exit time when the body names one.
VisitMoves(a) ==
  /\ moves < MaxMoves /\ entry[a] # None /\ left[a] = None
  /\ \/ unloading' = unloading \cup {a} /\ UNCHANGED left
     \/ unloading' = unloading \ {a} /\ left' = [left EXCEPT ![a] = now]
  /\ moves' = moves + 1 /\ Disturbed(1)
  /\ UNCHANGED <<now, slot, status, entry, cached, shown, answers>>

\* The summary fixes its cutoff once; the cards compute it per query.
Tick ==
  /\ now < LastTime /\ now' = now + 1
  /\ Disturbed(Cardinality({a \in Appointments : slot[a] = Cutoff}))
  /\ UNCHANGED <<trips, cached, shown, answers>>

(***************************************************************************)
(* The requests.  get_or_cache: Redis first, else compute and store.       *)
(***************************************************************************)
NewRequest(kind, skip, filter) ==
  [kind |-> kind, skip |-> skip, filter |-> filter, cutoff |-> Cutoff,
   asked |-> 0, got |-> <<>>, moved |-> 0]

Ask(kind, skip, filter) ==
  /\ request = None
  /\ IF kind = "cards" /\ cached # None
       THEN shown' = cached /\ UNCHANGED request
       ELSE /\ answers < MaxAnswers /\ request' = NewRequest(kind, skip, filter)
            /\ UNCHANGED shown
  /\ UNCHANGED <<now, trips, cached, answers>>

PageOf(rows, skip) == Min({PageSize, Max({0, Cardinality(rows) - skip})})
Answer(r, q) ==
  CASE r.kind = "cards"   -> Cardinality(Card(q, Cutoff))
    [] r.kind = "summary" -> Cardinality(Summary(q, r.cutoff))
    [] r.kind = "gate"    -> IF q = "upcoming" THEN Min({PageSize, Cardinality(In("in_transit"))})
                             ELSE Cardinality(In(q))
    [] r.kind = "waits"   -> Cardinality(WaitClass(q))
    [] r.kind = "list"    -> LET rows == StatusFilter(r.filter, Cutoff) IN
                             IF q = "count" THEN Cardinality(rows) ELSE PageOf(rows, r.skip)

RunQuery ==
  /\ request # None /\ request.asked < Len(Queries(request.kind))
  /\ LET figures == Queries(request.kind)[request.asked + 1]
         got == request.got IN
     request' = [request EXCEPT
       !.asked = @ + 1,
       !.got = [f \in DOMAIN got \cup figures |->
                  IF f \in figures THEN Answer(request, f) ELSE got[f]]]
  /\ UNCHANGED <<now, trips, cached, shown, answers>>

Reply ==
  /\ request # None /\ request.asked = Len(Queries(request.kind))
  /\ shown' = request /\ request' = None /\ answers' = answers + 1
  /\ cached' = IF request.kind = "cards" THEN request ELSE cached
  /\ UNCHANGED <<now, trips>>

Expire == cached # None /\ cached' = None /\ UNCHANGED <<now, trips, request, shown, answers>>

Next ==
  \/ \E a \in Appointments : VisitStarts(a) \/ VisitMoves(a) \/ \E s \in Lifecycle!Statuses : Move(a, s)
  \/ Tick \/ RunQuery \/ Reply \/ Expire
  \/ \E kind \in {"cards", "summary", "gate", "waits"} : Ask(kind, 0, None)
  \/ \E skip \in {0, PageSize}, s \in {"in_transit", "delayed"} : Ask("list", skip, s)

Spec == Init /\ [][Next]_vars
-----------------------------------------------------------------------------
TypeOK ==
  /\ status \in [Appointments -> Lifecycle!Statuses]
  /\ \A a \in Appointments : {entry[a], left[a]} \subseteq 0 .. now \cup {None}
  /\ unloading \subseteq Appointments
  /\ \A r \in {request, cached, shown} \ {None} :
       /\ r.asked \in 0 .. Len(Queries(r.kind)) /\ r.moved \in Nat
       /\ DOMAIN r.got = UNION {Queries(r.kind)[i] : i \in 1 .. r.asked}

Within(a, b, slack) == a - b <= slack /\ b - a <= slack

\* "so the two counts are disjoint and summing them gives the true total"
\* (arrival_queries.py:423); "Avoids mixing real-time snapshot with historical
\* counts" (manager_statistics_queries.py:242): an answer adds up when nothing
\* moved while its queries ran, and else is off by at most the rows that moved.
AddsUp(r) ==
  LET f(q) == r.got[q] slack == r.moved IN
  CASE r.kind = "cards" ->
         Within(f("scheduled") + f("in_transit") + f("delayed") + f("unloading")
                  + f("in_process") + f("completed") + f("canceled"),
                Cardinality(Scheduled), slack)
    [] r.kind = "summary" ->
         /\ f("unloading") <= f("in_process") + slack
         /\ f("late_in_transit") <= f("in_transit") + slack
         /\ f("exits") <= f("entries") + slack
         /\ f("overdue") + f("came_late") <= f("total") + slack
         /\ Within(f("on_time") + f("came_late"), f("arrived"), slack)
    [] r.kind = "gate" ->
         /\ MapThenSumSet(f, Lifecycle!Statuses) = Cardinality(Scheduled)
         /\ Within(f("upcoming"), Min({PageSize, f("in_transit")}), slack)
    [] r.kind = "waits" ->
         /\ f("0_5") + f("5_15") + f("15_30") + f("over_30") = f("processed")
         /\ f("delayed") = f("15_30") + f("over_30")
         /\ f("processed") + f("excluded")
              <= Cardinality({a \in Appointments : entry[a] # None})
    [] r.kind = "list" ->
         Within(f("page"), Min({PageSize, Max({0, f("count") - r.skip})}), slack)
CardsAddUp == shown # None => AddsUp(shown)
=============================================================================
