----------------------------- MODULE ShiftRoster -----------------------------
(***************************************************************************)
(* The shift roster: managers create, change, import and delete shifts,    *)
(* the scheduler expands templates into shifts, and trucks that are let in *)
(* hang their visits on a shift.  Every request checks first and commits   *)
(* later, in a transaction of its own at READ COMMITTED, and the requests  *)
(* interleave in between.                                                  *)
(***************************************************************************)
EXTENDS Integers, FiniteSets

CONSTANTS
  Gates,          \* gates whose estado is 'Ativo'
  Operators,      \* workers that start with a row in table operator
  Threads,        \* requests and scheduler runs that may overlap
  TemplateRules,  \* the templates managers choose from
  InitialRows,    \* rows one of which may already be there
  Horizon,        \* days the scheduler looks ahead
  FirstTime, LastTime,  \* bound on the clock, see now
  MaxRequests,    \* bound on requests; each line of an imported file counts as one
  None            \* no operator: the shift is 'inactive'

Types == {"MORNING", "AFTERNOON", "NIGHT"}

\* Time is counted in the four parts that shift changes cut a calendar day into:
\* 0 is 00-06h, 1 is 06-14h, 2 is 14-22h, 3 is 22-24h.
Today(t) == t \div 4
SmallHours(t) == t % 4 = 0
CurrentType(t) ==
  CASE t % 4 = 1 -> "MORNING" [] t % 4 = 2 -> "AFTERNOON" [] OTHER -> "NIGHT"

\* Mutant: the small hours belong to the new day.
ActiveDateToday(t) == Today(t)

\* The running shift: a night shift keeps the date of the evening it began.
ActiveDate(t) == IF SmallHours(t) THEN Today(t) - 1 ELSE Today(t)

ShiftOrder(type) ==
  CASE type = "MORNING" -> 0 [] type = "AFTERNOON" -> 1 [] type = "NIGHT" -> 2
OrderKey(date, type) == 3 * date + ShiftOrder(type)

Days == Today(FirstTime) .. Today(LastTime)
Keys == [gate : Gates, type : Types, date : Days]
Staff == Operators \cup {None}
Absent == "absent"
Rows == Keys \X Staff

ASSUME RosterAssumption ==
  /\ None \notin Operators
  /\ {Absent, ""} \cap (Operators \cup {None}) = {}
  /\ FirstTime \in Nat /\ LastTime \in Nat /\ FirstTime <= LastTime
  /\ Horizon \in Nat /\ MaxRequests \in Nat
  /\ InitialRows \subseteq Rows
  /\ IsFiniteSet(TemplateRules)
  /\ TemplateRules \subseteq
       [gate : Gates, type : Types, operator : Staff, days : SUBSET Days]

VARIABLES
  now,        \* the clock
  shift,      \* shift[k]: Absent, or the operator of the row with primary key k
  operators,  \* rows of table operator
  templates,  \* active templates
  visits,     \* shifts that visits refer to
  flight,     \* flight[r]: what request r has checked and not committed yet
  requests,   \* requests and imported lines so far
  unchecked   \* history: <<operator, date>> assigned by steps blind to each other

vars == <<now, shift, operators, templates, visits, flight, requests, unchecked>>

Idle == [kind |-> "idle", rows |-> {}]

TypeOK ==
  /\ now \in FirstTime .. LastTime
  /\ shift \in [Keys -> Staff \cup {Absent}]
  /\ operators \subseteq Operators
  /\ templates \subseteq TemplateRules
  /\ visits \subseteq Keys
  /\ flight \in [Threads -> [kind : {"idle", "insert", "bulk", "update", "delete"},
                             rows : SUBSET Rows]]
  /\ requests \in 0 .. MaxRequests
  /\ unchecked \subseteq Operators \X Days

\* A roster with at most one shift, and any templates.
Init ==
  /\ now = FirstTime
  /\ \/ shift = [k \in Keys |-> Absent]
     \/ \E row \in InitialRows : shift = [k \in Keys |-> IF k = row[1] THEN row[2] ELSE Absent]
  /\ operators = Operators
  /\ templates \in SUBSET TemplateRules
  /\ visits = {}
  /\ flight = [r \in Threads |-> Idle]
  /\ requests = 0
  /\ unchecked = {}

-----------------------------------------------------------------------------
(* What a request reads *)

Exists(k) == shift[k] # Absent

\* The operator already has a shift on that date, other than k.
Conflict(o, date, k) == \E j \in Keys \ {k} : j.date = date /\ shift[j] = o

\* Accepted by create_shift and by the same checks of the CSV import.
Creatable(k, o) ==
  /\ ~Exists(k)
  /\ o # None => ~\E j \in Keys : j.date = k.date /\ shift[j] = o

Begin(r, kind, rows, lines) ==
  /\ flight[r].kind = "idle"
  /\ requests + lines <= MaxRequests
  /\ requests' = requests + lines
  /\ flight' = [flight EXCEPT ![r] = [kind |-> kind, rows |-> rows]]
  /\ UNCHANGED <<now, shift, operators, templates, visits, unchecked>>

CheckCreate(r) == \E row \in Rows :
  Creatable(row[1], row[2]) /\ Begin(r, "insert", {row}, 1)

\* The import queries for every line, but autoflush is off: lines of the same file do
\* not see each other.  Lines that fail their checks are reported and left out; of the
\* others two of one date suffice.
CheckBulk(r) == \E x \in Rows :
  /\ Creatable(x[1], x[2])
  /\ \E y \in {z \in Rows \ {x} : z[1].date = x[1].date} :
       Creatable(y[1], y[2]) /\ Begin(r, "bulk", {x, y}, 2)

\* The empty string in a request takes the operator off.
OrNoneMissing(body) == body   \* mutant
OrNone(body) == IF body = "" THEN None ELSE body

\* A new operator is looked up on the date; a request that changes nothing writes nothing.
CheckUpdate(r) == \E k \in Keys, body \in Operators \cup {""} :
  LET o == OrNone(body) IN
  /\ Exists(k) /\ o # shift[k]
  /\ o # None => ~Conflict(o, k.date, k)
  /\ Begin(r, "update", {<<k, o>>}, 1)

\* Refuses the running shift, or what date.today() makes of it.
Running(k) == k.date = Today(now) /\ k.type = CurrentType(now)
CheckDelete(r) == \E k \in Keys :
  /\ Exists(k) /\ ~Running(k)
  /\ Begin(r, "delete", {<<k, None>>}, 1)

-----------------------------------------------------------------------------
(* The scheduler *)

Window == Today(now) .. (Today(now) + Horizon - 1)
Covers(t, date) == date \in t.days
KeyOf(t, date) == [gate |-> t.gate, type |-> t.type, date |-> date]

\* The templates come in the order of the query, any order; the first one to cover a
\* missing shift creates it, and the first of an operator's on a date gets the operator.
Creates(t, date, rank) ==
  /\ Covers(t, date) /\ ~Exists(KeyOf(t, date))
  /\ \A u \in templates :
       Covers(u, date) /\ KeyOf(u, date) = KeyOf(t, date) => rank[t] <= rank[u]
Booked(o, date) == \E j \in Keys : j.date = date /\ shift[j] = o
\* Mutant: operator_dates is not added to.
KeepsOperatorAgain(t, date, rank) == t.operator # None /\ ~Booked(t.operator, date)
KeepsOperator(t, date, rank) ==
  /\ t.operator # None /\ ~Booked(t.operator, date)
  /\ \A u \in templates :
       Creates(u, date, rank) /\ u.operator = t.operator => rank[t] <= rank[u]
Plan(rank) ==
  {<<KeyOf(td[1], td[2]),
     IF KeepsOperator(td[1], td[2], rank) THEN td[1].operator ELSE None>> :
   td \in {x \in templates \X (Window \cap Days) : Creates(x[1], x[2], rank)}}
Rankings == {rank \in [templates -> 1 .. Cardinality(templates)] :
               \A t, u \in templates : t # u => rank[t] # rank[u]}

GenerateShifts(r) == \E rank \in Rankings :
  /\ templates # {}
  /\ Begin(r, "insert", Plan(rank), 1)

-----------------------------------------------------------------------------
(* Commits *)

\* Operators that rows would put on a date.
Assigns(rows) == {<<row[2], row[1].date>> : row \in {x \in rows : x[2] # None}}

\* Lines of one file, or rows of two requests that overlap, assign without seeing each
\* other.
Twice(rows) ==
  {p \in Assigns(rows) : \E x, y \in rows :
     x # y /\ x[2] = p[1] /\ y[2] = p[1] /\ x[1].date = p[2] /\ y[1].date = p[2]}
Overlapping(r, rows) ==
  {p \in Assigns(rows) : \E s \in Threads \ {r} : p \in Assigns(flight[s].rows)}
Blind(r, rows) ==
  unchecked \cup Overlapping(r, rows)
    \cup IF flight[r].kind = "bulk" THEN Twice(rows) ELSE {}

\* Primary key of shift and foreign key to operator.
Insertable(rows) ==
  /\ \A x \in rows : ~Exists(x[1]) /\ x[2] \in operators \cup {None}
  /\ \A x, y \in rows : x[1] = y[1] => x = y

Done(r) == flight' = [flight EXCEPT ![r] = Idle]

CommitInsert(r) ==
  LET rows == flight[r].rows IN
  /\ flight[r].kind \in {"insert", "bulk"} /\ Insertable(rows)
  /\ shift' = [k \in Keys |-> IF \E o \in Staff : <<k, o>> \in rows
                              THEN CHOOSE o \in Staff : <<k, o>> \in rows ELSE shift[k]]
  /\ unchecked' = Blind(r, rows)
  /\ Done(r)
  /\ UNCHANGED <<now, operators, templates, visits, requests>>

CommitUpdate(r) == \E row \in flight[r].rows :
  /\ flight[r].kind = "update"
  /\ Exists(row[1]) /\ row[2] \in operators \cup {None}
  /\ shift' = [shift EXCEPT ![row[1]] = row[2]]
  /\ unchecked' = Blind(r, {row})
  /\ Done(r)
  /\ UNCHANGED <<now, operators, templates, visits, requests>>

\* Deleting a shift with visits would set their foreign key to NULL, which the column
\* refuses.
Deletable(k) == Exists(k) /\ k \notin visits
CommitDelete(r) == \E row \in flight[r].rows :
  /\ flight[r].kind = "delete"
  /\ Deletable(row[1])
  /\ shift' = [shift EXCEPT ![row[1]] = Absent]
  /\ Done(r)
  /\ UNCHANGED <<now, operators, templates, visits, requests, unchecked>>

\* IntegrityError or StaleDataError: 500, or the scheduler's rollback and next cycle.
CommitFails(r) ==
  /\ CASE flight[r].kind \in {"insert", "bulk"} -> ~Insertable(flight[r].rows)
       [] flight[r].kind = "update" ->
            \E row \in flight[r].rows : ~Exists(row[1]) \/ row[2] \notin operators \cup {None}
       [] flight[r].kind = "delete" ->
            \E row \in flight[r].rows : ~Deletable(row[1])
       [] OTHER -> FALSE
  /\ Done(r)
  /\ UNCHANGED <<now, shift, operators, templates, visits, requests, unchecked>>

-----------------------------------------------------------------------------
(* Templates, promotions, visits, time *)

SetTemplates(new) ==
  /\ requests < MaxRequests
  /\ requests' = requests + 1
  /\ templates' = new
  /\ UNCHANGED <<now, shift, operators, visits, flight, unchecked>>

CreateTemplate == \E t \in TemplateRules \ templates :
  t.operator \in operators \cup {None} /\ SetTemplates(templates \cup {t})
UpdateTemplate == \E t \in templates, u \in TemplateRules :
  /\ u.gate = t.gate /\ u.type = t.type /\ u.operator \in operators \cup {None}
  /\ SetTemplates((templates \ {t}) \cup {u})
DeleteTemplate == \E t \in templates : SetTemplates(templates \ {t})

\* Removing the operator row takes the operator off every shift, past ones included;
\* a template that names the operator makes the foreign key refuse it.
PromoteToManager(o) ==
  /\ o \in operators
  /\ ~\E t \in templates : t.operator = o
  /\ operators' = operators \ {o}
  /\ shift' = [k \in Keys |-> IF shift[k] = o THEN None ELSE shift[k]]
  /\ UNCHANGED <<now, templates, visits, flight, requests, unchecked>>

VisitKey(g) == [gate |-> g, type |-> CurrentType(now), date |-> Today(now)]

\* A truck is let in: its visit goes to the shift of this type and today's date, which
\* is created unstaffed when it is missing.
AutoCreateVisit(g) ==
  LET k == VisitKey(g) IN
  /\ visits' = visits \cup {k}
  /\ shift' = IF Exists(k) THEN shift ELSE [shift EXCEPT ![k] = None]
  /\ UNCHANGED <<now, operators, templates, flight, requests, unchecked>>

Tick ==
  /\ now < LastTime
  /\ now' = now + 1
  /\ UNCHANGED <<shift, operators, templates, visits, flight, requests, unchecked>>

Check(r) == CheckCreate(r) \/ CheckBulk(r) \/ CheckUpdate(r) \/ CheckDelete(r) \/ GenerateShifts(r)
Commit(r) == CommitInsert(r) \/ CommitUpdate(r) \/ CommitDelete(r) \/ CommitFails(r)
Templates == CreateTemplate \/ UpdateTemplate \/ DeleteTemplate

Next ==
  \/ \E r \in Threads : Check(r) \/ Commit(r)
  \/ Templates
  \/ \E o \in Operators : PromoteToManager(o)
  \/ \E g \in Gates : AutoCreateVisit(g)
  \/ Tick

Spec == Init /\ [][Next]_vars

-----------------------------------------------------------------------------
(* What the clients are shown *)

\* GET /workers/shifts
Status(k) ==
  CASE shift[k] = None -> "inactive"
    [] shift[k] # None /\ k.date = ActiveDate(now) /\ k.type = CurrentType(now) -> "active"
    [] OTHER -> IF OrderKey(k.date, k.type) < OrderKey(ActiveDate(now), CurrentType(now))
                THEN "completed" ELSE "pending"
Rank(status) ==
  CASE status = "pending" -> 0 [] status = "active" -> 1 [] status = "completed" -> 2
    [] OTHER -> 3

-----------------------------------------------------------------------------
(* Properties *)

\* No operator has two shifts on one date, whatever requests, imports, scheduler runs
\* and promotions interleave, unless both were assigned by steps that could not see
\* each other: overlapping requests, or two lines of one CSV file.
BookedOncePerDay ==
  \A j, k \in Keys :
    /\ j # k /\ j.date = k.date /\ shift[j] \in Operators /\ shift[j] = shift[k]
    => <<shift[j], j.date>> \in unchecked

\* Every visit refers to a shift that exists, although deletion looks at the clock
\* only, and visits arrive between its check and its commit (foreign key of visit).
VisitsHaveShift == \A k \in visits : Exists(k)

\* A shift that keeps its operator goes from pending to active to completed and never
\* back, over midnight too (_shift_status, shift_order_key).
StatusOnlyAdvances ==
  [][\A k \in Keys : shift[k] \in Operators /\ shift'[k] = shift[k]
       => Rank(Status(k)) <= Rank(Status(k)')]_vars

\* shift_utils.py:53: callers that ask what is running now must use
\* active_shift_window instead of today's date and the current type.
VisitOnRunningShift ==
  [][\A k \in visits' \ visits : k.date = ActiveDate(now) /\ k.type = CurrentType(now)]_vars

=============================================================================
