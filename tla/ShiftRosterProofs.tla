-------------------------- MODULE ShiftRosterProofs --------------------------
(***************************************************************************)
(* For any gates, operators, templates and overlapping requests: no        *)
(* operator is booked twice on a date by steps that could see each other,  *)
(* every visit has its shift, and a shift's status never goes back.        *)
(***************************************************************************)
EXTENDS ShiftRoster, FiniteSetTheorems, TLAPS

\* What a request is about to book is free, or was booked by a step it could not see.
Clear(rows) ==
  \A x \in rows : x[2] # None =>
    \A j \in Keys \ {x[1]} :
      j.date = x[1].date /\ shift[j] = x[2] => <<x[2], j.date>> \in unchecked
FlightsClear ==
  \A r \in Threads : flight[r].kind \in {"insert", "bulk", "update"} => Clear(flight[r].rows)

\* A request that is not an import books no operator twice.
Single(rows) ==
  \A x, y \in rows : x[2] # None /\ x[2] = y[2] /\ x[1].date = y[1].date => x = y
InsertsSingle == \A r \in Threads : flight[r].kind = "insert" => Single(flight[r].rows)

RosterInv == TypeOK /\ VisitsHaveShift /\ FlightsClear /\ InsertsSingle /\ BookedOncePerDay

-----------------------------------------------------------------------------
(* What the checks have seen *)

\* Templates that come before each other in a ranking are the same.
LEMMA RankedOnce ==
  ASSUME TypeOK, NEW rank \in Rankings, NEW t \in templates, NEW u \in templates,
         rank[t] <= rank[u], rank[u] <= rank[t]
  PROVE t = u
<1>1. templates \in SUBSET TemplateRules
  BY DEF TypeOK
<1>2. Cardinality(templates) \in Nat
  BY <1>1, RosterAssumption, FS_Subset, FS_CardinalityType
<1>3. rank \in [templates -> 1 .. Cardinality(templates)]
  BY DEF Rankings
<1>4. rank[t] = rank[u]
  BY <1>2, <1>3
<1> QED
  BY <1>4 DEF Rankings

\* What the scheduler plans is clear, and gives no operator two shifts on a date.
LEMMA PlanIsClear ==
  ASSUME TypeOK, NEW rank \in Rankings
  PROVE Plan(rank) \subseteq Rows /\ Clear(Plan(rank)) /\ Single(Plan(rank))
<1> DEFINE Picked == {x \in templates \X (Window \cap Days) : Creates(x[1], x[2], rank)}
           RowOf(td) == <<KeyOf(td[1], td[2]),
                          IF KeepsOperator(td[1], td[2], rank) THEN td[1].operator ELSE None>>
<1>1. ASSUME NEW td \in Picked
      PROVE /\ td[1] \in templates /\ td[2] \in Days /\ Creates(td[1], td[2], rank)
            /\ KeyOf(td[1], td[2]) \in Keys /\ KeyOf(td[1], td[2]).date = td[2]
            /\ RowOf(td) \in Rows
  <2>1. td[1] \in templates /\ td[2] \in Days /\ Creates(td[1], td[2], rank)
    OBVIOUS
  <2>2. /\ td[1].gate \in Gates /\ td[1].type \in Types
        /\ td[1].operator \in Operators \cup {None}
    BY <2>1, RosterAssumption DEF TypeOK, Staff
  <2>3. KeyOf(td[1], td[2]) \in Keys /\ KeyOf(td[1], td[2]).date = td[2]
    BY <2>1, <2>2 DEF KeyOf, Keys
  <2> QED
    BY <2>1, <2>2, <2>3 DEF Rows, Staff
<1>2. \A x \in Plan(rank) : \E td \in Picked : x = RowOf(td)
  BY DEF Plan
<1>3. ASSUME NEW td \in Picked, RowOf(td)[2] # None
      PROVE KeepsOperator(td[1], td[2], rank) /\ RowOf(td)[2] = td[1].operator
  BY <1>3
<1>4. Plan(rank) \subseteq Rows
  BY <1>1, <1>2
<1>5. Clear(Plan(rank))
  <2> SUFFICES ASSUME NEW x \in Plan(rank), x[2] # None, NEW j \in Keys, j.date = x[1].date
               PROVE shift[j] # x[2]
    BY DEF Clear
  <2>1. PICK td \in Picked : x = RowOf(td)
    BY <1>2
  <2>2. ~Booked(td[1].operator, td[2]) /\ x[2] = td[1].operator /\ x[1].date = td[2]
    BY <1>1, <1>3, <2>1 DEF KeepsOperator
  <2> QED
    BY <2>2 DEF Booked
<1>6. Single(Plan(rank))
  <2> SUFFICES ASSUME NEW x \in Plan(rank), NEW y \in Plan(rank),
                      x[2] # None, x[2] = y[2], x[1].date = y[1].date
               PROVE x = y
    BY DEF Single
  <2> HIDE DEF Picked, RowOf
  <2>1. PICK td \in Picked : x = RowOf(td)
    BY <1>2
  <2>2. PICK ue \in Picked : y = RowOf(ue)
    BY <1>2
  <2>3. /\ KeepsOperator(td[1], td[2], rank) /\ KeepsOperator(ue[1], ue[2], rank)
        /\ td[1].operator = ue[1].operator /\ td[2] = ue[2]
    <3>1. x[1].date = td[2] /\ y[1].date = ue[2]
      BY <1>1, <2>1, <2>2 DEF RowOf
    <3>2. RowOf(td)[2] # None /\ RowOf(ue)[2] # None
      BY <2>1, <2>2
    <3> QED
      BY <1>3, <2>1, <2>2, <3>1, <3>2
  <2>4. rank[td[1]] <= rank[ue[1]] /\ rank[ue[1]] <= rank[td[1]]
    BY <1>1, <2>3 DEF KeepsOperator
  <2>5. td[1] = ue[1]
    BY <1>1, <2>4, RankedOnce
  <2> QED
    BY <2>1, <2>2, <2>3, <2>5 DEF RowOf
<1> QED
  BY <1>4, <1>5, <1>6

\* The clock stays within its days.
LEMMA TodayIsADay ==
  ASSUME TypeOK
  PROVE Today(now) \in Days
<1>1. FirstTime \in Nat /\ LastTime \in Nat
  BY RosterAssumption
<1>2. now \in Nat /\ FirstTime <= now /\ now <= LastTime
  BY <1>1 DEF TypeOK
<1> QED
  BY <1>1, <1>2 DEF Days, Today

-----------------------------------------------------------------------------
(* Requests that begin *)

Booking(kind) == kind \in {"insert", "bulk", "update"}

\* A request that begins with rows that are clear changes nothing else.
LEMMA BeginKeeps ==
  ASSUME RosterInv, NEW r \in Threads, NEW kind \in {"insert", "bulk", "update", "delete"},
         NEW rows \in SUBSET Rows, NEW lines \in Nat, Begin(r, kind, rows, lines),
         Booking(kind) => Clear(rows),
         kind = "insert" => Single(rows)
  PROVE RosterInv'
<1> USE DEF RosterInv
<1>1. /\ flight' = [flight EXCEPT ![r] = [kind |-> kind, rows |-> rows]]
      /\ UNCHANGED <<now, shift, operators, templates, visits, unchecked>>
      /\ requests' = requests + lines /\ requests + lines <= MaxRequests
  BY DEF Begin
<1>2. requests' \in 0 .. MaxRequests
  <2>1. MaxRequests \in Nat
    BY RosterAssumption
  <2> QED
    BY <1>1, <2>1 DEF TypeOK
<1>3. TypeOK'
  BY <1>1, <1>2 DEF TypeOK
<1>4. \A s \in Threads : flight'[s] = IF s = r THEN [kind |-> kind, rows |-> rows] ELSE flight[s]
  BY <1>1 DEF TypeOK
<1>5. FlightsClear'
  <2> SUFFICES ASSUME NEW s \in Threads, Booking(flight'[s].kind), NEW x \in flight'[s].rows,
                      x[2] # None, NEW j \in Keys \ {x[1]}, j.date = x[1].date, shift[j] = x[2]
               PROVE <<x[2], j.date>> \in unchecked
    BY <1>1 DEF FlightsClear, Booking, Clear
  <2>1. CASE s = r
    BY <1>4, <2>1 DEF Clear
  <2>2. CASE s # r
    BY <1>4, <2>2 DEF FlightsClear, Booking, Clear
  <2> QED
    BY <2>1, <2>2
<1>6. InsertsSingle'
  BY <1>4 DEF InsertsSingle, Single
<1>7. VisitsHaveShift' /\ BookedOncePerDay'
  BY <1>1 DEF VisitsHaveShift, Exists, BookedOncePerDay
<1> QED
  BY <1>3, <1>5, <1>6, <1>7

\* All five checks begin with rows that are clear.
LEMMA ChecksKeep ==
  ASSUME RosterInv, NEW r \in Threads, Check(r)
  PROVE RosterInv'
<1>1. CASE CheckCreate(r)
  <2>1. PICK x \in Rows : Creatable(x[1], x[2]) /\ Begin(r, "insert", {x}, 1)
    BY <1>1 DEF CheckCreate
  <2>2. Clear({x}) /\ Single({x})
    BY <2>1 DEF Creatable, Clear, Single
  <2> QED
    BY <2>1, <2>2, BeginKeeps
<1>2. CASE CheckBulk(r)
  <2>1. PICK x \in Rows, y \in Rows :
          /\ Creatable(x[1], x[2]) /\ Creatable(y[1], y[2])
          /\ Begin(r, "bulk", {x, y}, 2)
    BY <1>2 DEF CheckBulk
  <2>2. Clear({x, y})
    BY <2>1 DEF Creatable, Clear
  <2> QED
    BY <2>1, <2>2, BeginKeeps
<1>3. CASE CheckUpdate(r)
  <2>1. PICK k \in Keys, body \in Operators \cup {""} :
          LET o == OrNone(body) IN
          /\ o # None => ~Conflict(o, k.date, k)
          /\ Begin(r, "update", {<<k, o>>}, 1)
    BY <1>3 DEF CheckUpdate
  <2>2. <<k, OrNone(body)>> \in Rows
    BY DEF OrNone, Rows, Staff
  <2>3. Clear({<<k, OrNone(body)>>})
    <3> DEFINE o == OrNone(body)
    <3>1. o # None => \A j \in Keys \ {k} : j.date = k.date => shift[j] # o
      BY <2>1 DEF Conflict
    <3> HIDE DEF o
    <3>2. Clear({<<k, o>>})
      <4> SUFFICES ASSUME NEW x, x = <<k, o>>, x[2] # None, NEW j \in Keys \ {x[1]},
                          j.date = x[1].date
                   PROVE shift[j] # x[2]
        BY DEF Clear
      <4>1. x[1] = k /\ x[2] = o
        OBVIOUS
      <4> QED
        BY <3>1, <4>1
    <3> QED
      BY <3>2 DEF o
  <2> QED
    BY <2>1, <2>2, <2>3, BeginKeeps
<1>4. CASE CheckDelete(r)
  <2>1. PICK k \in Keys : Begin(r, "delete", {<<k, None>>}, 1)
    BY <1>4 DEF CheckDelete
  <2>2. {<<k, None>>} \in SUBSET Rows
    BY DEF Rows, Staff
  <2> QED
    BY <2>1, <2>2, BeginKeeps DEF Booking
<1>5. CASE GenerateShifts(r)
  <2>1. PICK rank \in Rankings : Begin(r, "insert", Plan(rank), 1)
    BY <1>5 DEF GenerateShifts
  <2> QED
    BY <2>1, PlanIsClear, BeginKeeps DEF RosterInv
<1> QED
  BY <1>1, <1>2, <1>3, <1>4, <1>5 DEF Check

-----------------------------------------------------------------------------
(* Requests that end *)

\* Rows that are clear, unseen by no request that would book the same, and not twice among
\* themselves keep bookings apart, or are remembered.
LEMMA BookingKeeps ==
  ASSUME RosterInv, NEW added \in SUBSET Rows, Clear(added),
         unchecked \subseteq unchecked',
         \A k \in Keys : \/ shift'[k] = shift[k] \/ shift'[k] \in {None, Absent}
                         \/ <<k, shift'[k]>> \in added,
         \A x, y \in added :
           x[1] # y[1] /\ x[2] # None /\ x[2] = y[2] /\ x[1].date = y[1].date
             => <<x[2], x[1].date>> \in unchecked',
         \A s \in Threads :
           \/ ~Booking(flight'[s].kind)
           \/ /\ flight'[s] = flight[s]
              /\ Assigns(flight[s].rows) \cap Assigns(added) \subseteq unchecked'
  PROVE BookedOncePerDay' /\ FlightsClear'
<1> USE DEF RosterInv
<1>1. None \notin Operators /\ Absent \notin Staff
  BY RosterAssumption DEF Staff
<1>2. ASSUME NEW j \in Keys, NEW k \in Keys, j # k, j.date = k.date,
             shift'[j] \in Operators, shift'[j] = shift'[k]
      PROVE <<shift'[j], j.date>> \in unchecked'
  <2>1. shift'[j] # None /\ shift'[j] # Absent
    BY <1>1, <1>2 DEF Staff
  <2>2. CASE shift'[j] = shift[j] /\ shift'[k] = shift[k]
    BY <1>2, <2>2 DEF BookedOncePerDay
  <2>3. CASE <<j, shift'[j]>> \in added /\ shift'[k] = shift[k]
    BY <1>2, <2>1, <2>3 DEF Clear
  <2>4. CASE shift'[j] = shift[j] /\ <<k, shift'[k]>> \in added
    BY <1>2, <2>1, <2>4 DEF Clear
  <2>5. CASE <<j, shift'[j]>> \in added /\ <<k, shift'[k]>> \in added
    BY <1>2, <2>1, <2>5
  <2> QED
    BY <1>2, <2>1, <2>2, <2>3, <2>4, <2>5
<1>3. ASSUME NEW s \in Threads, Booking(flight'[s].kind), NEW x \in flight'[s].rows, x[2] # None,
             NEW j \in Keys \ {x[1]}, j.date = x[1].date, shift'[j] = x[2]
      PROVE <<x[2], j.date>> \in unchecked'
  <2>1. /\ flight'[s] = flight[s]
        /\ Assigns(flight[s].rows) \cap Assigns(added) \subseteq unchecked'
    BY <1>3
  <2>2. x \in Rows /\ x[2] # Absent
    BY <1>1, <1>3, <2>1 DEF TypeOK, Rows
  <2>3. CASE shift'[j] = shift[j]
    BY <1>3, <2>1, <2>3 DEF FlightsClear, Booking, Clear
  <2>4. CASE <<j, shift'[j]>> \in added
    <3>1. <<x[2], j.date>> \in Assigns(added)
      BY <1>3, <2>4 DEF Assigns
    <3>2. <<x[2], j.date>> \in Assigns(flight[s].rows)
      BY <1>3, <2>1 DEF Assigns
    <3> QED
      BY <2>1, <3>1, <3>2
  <2> QED
    BY <1>3, <2>2, <2>3, <2>4
<1>4. BookedOncePerDay'
  BY <1>2 DEF BookedOncePerDay
<1>5. FlightsClear'
  BY <1>3 DEF FlightsClear, Booking, Clear
<1> QED
  BY <1>4, <1>5

\* A request that is done books nothing any more.
LEMMA DoneIsIdle ==
  ASSUME TypeOK, NEW r \in Threads, Done(r)
  PROVE /\ flight' \in [Threads -> [kind : {"idle", "insert", "bulk", "update", "delete"},
                                    rows : SUBSET Rows]]
        /\ \A s \in Threads : flight'[s] = IF s = r THEN Idle ELSE flight[s]
  BY DEF TypeOK, Done, Idle

\* Shifts as a commit leaves them, and who shares the operator it assigns.
LEMMA BlindIsRemembered ==
  ASSUME TypeOK, NEW r \in Threads, NEW rows \in SUBSET Rows, Done(r),
         unchecked' = Blind(r, rows)
  PROVE /\ unchecked \subseteq unchecked' /\ unchecked' \subseteq Operators \X Days
        /\ \A s \in Threads :
             \/ ~Booking(flight'[s].kind)
             \/ /\ flight'[s] = flight[s]
                /\ Assigns(flight[s].rows) \cap Assigns(rows) \subseteq unchecked'
<1>1. Assigns(rows) \subseteq Operators \X Days
  <2> SUFFICES ASSUME NEW x \in rows, x[2] # None
               PROVE <<x[2], x[1].date>> \in Operators \X Days
    BY DEF Assigns
  <2> QED
    BY DEF Rows, Keys, Staff
<1>2. Overlapping(r, rows) \subseteq Assigns(rows) /\ Twice(rows) \subseteq Assigns(rows)
  BY DEF Overlapping, Twice
<1>3. unchecked \subseteq unchecked' /\ unchecked' \subseteq Operators \X Days
  BY <1>1, <1>2 DEF Blind, TypeOK
<1>4. ASSUME NEW s \in Threads, s # r
      PROVE Assigns(flight[s].rows) \cap Assigns(rows) \subseteq unchecked'
  BY <1>4 DEF Overlapping, Blind
<1> QED
  BY <1>3, <1>4, DoneIsIdle DEF Booking, Idle

LEMMA InsertKeeps ==
  ASSUME RosterInv, NEW r \in Threads, CommitInsert(r)
  PROVE RosterInv'
<1> USE DEF RosterInv
<1> DEFINE rows == flight[r].rows
           kind == flight[r].kind
<1>1. /\ kind \in {"insert", "bulk"} /\ Insertable(rows)
      /\ shift' = [k \in Keys |-> IF \E o \in Staff : <<k, o>> \in rows
                                  THEN CHOOSE o \in Staff : <<k, o>> \in rows ELSE shift[k]]
      /\ unchecked' = Blind(r, rows)
      /\ Done(r)
      /\ UNCHANGED <<now, operators, templates, visits, requests>>
  BY DEF CommitInsert
<1>2. rows \in SUBSET Rows
  BY DEF TypeOK
<1>3. Clear(rows) /\ (kind = "insert" => Single(rows))
  BY <1>1 DEF FlightsClear, InsertsSingle
<1>4. kind = "bulk" => Twice(rows) \subseteq unchecked'
  BY <1>1 DEF Blind
<1> HIDE DEF rows, kind
<1>5. \A k \in Keys : \/ shift'[k] = shift[k]
                      \/ shift'[k] \in Staff /\ <<k, shift'[k]>> \in rows
  BY <1>1
<1>6. TypeOK'
  BY <1>1, <1>2, <1>5, BlindIsRemembered, DoneIsIdle DEF TypeOK
<1>7. ASSUME NEW x \in rows, NEW y \in rows,
             x[1] # y[1], x[2] # None, x[2] = y[2], x[1].date = y[1].date
      PROVE <<x[2], x[1].date>> \in unchecked'
  <2>1. kind = "bulk"
    BY <1>1, <1>3, <1>7 DEF Single
  <2>2. <<x[2], x[1].date>> \in Twice(rows)
    BY <1>7 DEF Twice, Assigns
  <2> QED
    BY <1>4, <2>1, <2>2
<1>8. BookedOncePerDay' /\ FlightsClear'
  BY <1>1, <1>2, <1>3, <1>5, <1>7, BlindIsRemembered, BookingKeeps
<1>9. VisitsHaveShift'
  <2>1. Absent \notin Staff
    BY RosterAssumption DEF Staff
  <2> QED
    BY <1>1, <1>5, <2>1 DEF VisitsHaveShift, Exists, TypeOK
<1>10. InsertsSingle'
  BY <1>1, DoneIsIdle DEF InsertsSingle, Idle
<1> QED
  BY <1>6, <1>8, <1>9, <1>10

LEMMA UpdateKeeps ==
  ASSUME RosterInv, NEW r \in Threads, CommitUpdate(r)
  PROVE RosterInv'
<1> USE DEF RosterInv
<1>1. PICK row \in flight[r].rows :
        /\ shift' = [shift EXCEPT ![row[1]] = row[2]]
        /\ unchecked' = Blind(r, {row})
  BY DEF CommitUpdate
<1>2. /\ flight[r].kind = "update" /\ Done(r)
      /\ UNCHANGED <<now, operators, templates, visits, requests>>
  BY DEF CommitUpdate
<1>3. row \in Rows /\ row[1] \in Keys /\ row[2] \in Staff
  BY DEF TypeOK, Rows
<1>4. Clear({row})
  BY <1>2 DEF FlightsClear, Clear
<1>5. \A k \in Keys : shift'[k] = IF k = row[1] THEN row[2] ELSE shift[k]
  BY <1>1 DEF TypeOK
<1>6. \A k \in Keys : shift'[k] = shift[k] \/ <<k, shift'[k]>> \in {row}
  BY <1>3, <1>5 DEF Rows
<1>7. TypeOK'
  <2>1. {row} \in SUBSET Rows
    BY <1>3
  <2>2. unchecked' \subseteq Operators \X Days
    BY <1>1, <1>2, <2>1, BlindIsRemembered
  <2>3. shift' \in [Keys -> Staff \cup {Absent}]
    BY <1>1, <1>3 DEF TypeOK
  <2> QED
    BY <1>2, <2>2, <2>3, DoneIsIdle DEF TypeOK
<1>8. BookedOncePerDay' /\ FlightsClear'
  <2>1. {row} \in SUBSET Rows
    BY <1>3
  <2>2. /\ unchecked \subseteq unchecked'
        /\ \A s \in Threads :
             \/ ~Booking(flight'[s].kind)
             \/ /\ flight'[s] = flight[s]
                /\ Assigns(flight[s].rows) \cap Assigns({row}) \subseteq unchecked'
    BY <1>1, <1>2, <2>1, BlindIsRemembered
  <2>3. \A x, y \in {row} : x[1] = y[1]
    OBVIOUS
  <2> QED
    BY <1>4, <1>6, <2>1, <2>2, <2>3, BookingKeeps
<1>9. VisitsHaveShift'
  <2>1. Absent \notin Staff
    BY RosterAssumption DEF Staff
  <2> QED
    BY <1>2, <1>3, <1>5, <2>1 DEF VisitsHaveShift, Exists, TypeOK
<1>10. InsertsSingle'
  BY <1>2, DoneIsIdle DEF InsertsSingle, Idle
<1> QED
  BY <1>7, <1>8, <1>9, <1>10

\* Steps that only take operators or shifts away, or give a shift nobody.
LEMMA LossKeeps ==
  ASSUME RosterInv, unchecked' = unchecked,
         \A k \in Keys : shift'[k] = shift[k] \/ shift'[k] \in {None, Absent},
         \A s \in Threads : flight'[s] = flight[s] \/ flight'[s] = Idle
  PROVE BookedOncePerDay' /\ FlightsClear' /\ InsertsSingle'
<1> USE DEF RosterInv
<1>1. Clear({}) /\ Assigns({}) = {}
  BY DEF Clear, Assigns
<1>2. \A s \in Threads :
        \/ ~Booking(flight'[s].kind)
        \/ flight'[s] = flight[s] /\ Assigns(flight[s].rows) \cap Assigns({}) \subseteq unchecked'
  BY <1>1 DEF Booking, Idle
<1>3. BookedOncePerDay' /\ FlightsClear'
  BY <1>1, <1>2, BookingKeeps
<1>4. InsertsSingle'
  BY DEF InsertsSingle, Idle
<1> QED
  BY <1>3, <1>4

\* A deletion finds no visit, a failure changes nothing.
LEMMA EndsKeep ==
  ASSUME RosterInv, NEW r \in Threads, CommitDelete(r) \/ CommitFails(r)
  PROVE RosterInv'
<1> USE DEF RosterInv
<1>1. CASE CommitDelete(r)
  <2>1. PICK row \in flight[r].rows :
          row[1] \notin visits /\ shift' = [shift EXCEPT ![row[1]] = Absent]
    BY <1>1 DEF CommitDelete, Deletable
  <2>2. Done(r) /\ UNCHANGED <<now, operators, templates, visits, requests, unchecked>>
    BY <1>1 DEF CommitDelete
  <2>3. TypeOK'
    BY <2>1, <2>2, DoneIsIdle DEF TypeOK
  <2>4. BookedOncePerDay' /\ FlightsClear' /\ InsertsSingle'
    BY <2>1, <2>2, DoneIsIdle, LossKeeps DEF TypeOK
  <2>5. VisitsHaveShift'
    BY <2>1, <2>2 DEF VisitsHaveShift, Exists, TypeOK
  <2> QED
    BY <2>3, <2>4, <2>5
<1>2. CASE CommitFails(r)
  <2>1. Done(r) /\ UNCHANGED <<now, shift, operators, templates, visits, requests, unchecked>>
    BY <1>2 DEF CommitFails
  <2>2. TypeOK'
    BY <2>1, DoneIsIdle DEF TypeOK
  <2>3. BookedOncePerDay' /\ FlightsClear' /\ InsertsSingle'
    BY <2>1, DoneIsIdle, LossKeeps
  <2>4. VisitsHaveShift'
    BY <2>1 DEF VisitsHaveShift, Exists
  <2> QED
    BY <2>2, <2>3, <2>4
<1> QED
  BY <1>1, <1>2

\* Templates book nothing before the scheduler reads them.
LEMMA TemplatesKeep ==
  ASSUME RosterInv, Templates
  PROVE RosterInv'
<1> USE DEF RosterInv
<1>1. PICK new \in SUBSET TemplateRules : SetTemplates(new)
  <2>1. CASE CreateTemplate
    BY <2>1 DEF CreateTemplate, TypeOK
  <2>2. CASE UpdateTemplate
    BY <2>2 DEF UpdateTemplate, TypeOK
  <2>3. CASE DeleteTemplate
    BY <2>3 DEF DeleteTemplate, TypeOK
  <2> QED
    BY <2>1, <2>2, <2>3 DEF Templates
<1>2. requests' \in 0 .. MaxRequests
  <2>1. MaxRequests \in Nat
    BY RosterAssumption
  <2> QED
    BY <1>1, <2>1 DEF SetTemplates, TypeOK
<1>3. TypeOK'
  BY <1>1, <1>2 DEF SetTemplates, TypeOK
<1>4. BookedOncePerDay' /\ FlightsClear' /\ InsertsSingle'
  BY <1>1, LossKeeps DEF SetTemplates
<1>5. VisitsHaveShift'
  BY <1>1 DEF SetTemplates, VisitsHaveShift, Exists
<1> QED
  BY <1>3, <1>4, <1>5

\* A promotion takes an operator off, a visit gets its shift, time passes.
LEMMA RestKeeps ==
  ASSUME RosterInv,
         \/ \E o \in Operators : PromoteToManager(o)
         \/ \E g \in Gates : AutoCreateVisit(g)
         \/ Tick
         \/ UNCHANGED vars
  PROVE RosterInv'
<1> USE DEF RosterInv
<1>1. Absent # None
  BY RosterAssumption
<1>2. ASSUME NEW o \in Operators, PromoteToManager(o) PROVE RosterInv'
  <2>1. /\ operators' = operators \ {o}
        /\ shift' = [k \in Keys |-> IF shift[k] = o THEN None ELSE shift[k]]
        /\ UNCHANGED <<now, templates, visits, flight, requests, unchecked>>
    BY <1>2 DEF PromoteToManager
  <2>2. TypeOK'
    BY <2>1 DEF TypeOK, Staff
  <2>3. BookedOncePerDay' /\ FlightsClear' /\ InsertsSingle'
    BY <2>1, LossKeeps
  <2>4. VisitsHaveShift'
    BY <1>1, <2>1 DEF VisitsHaveShift, Exists, TypeOK
  <2> QED
    BY <2>2, <2>3, <2>4
<1>3. ASSUME NEW g \in Gates, AutoCreateVisit(g) PROVE RosterInv'
  <2> DEFINE k == VisitKey(g)
  <2>1. /\ visits' = visits \cup {k}
        /\ shift' = IF Exists(k) THEN shift ELSE [shift EXCEPT ![k] = None]
        /\ UNCHANGED <<now, operators, templates, flight, requests, unchecked>>
    BY <1>3 DEF AutoCreateVisit
  <2>2. k \in Keys
    BY TodayIsADay DEF VisitKey, Keys, CurrentType, Types
  <2> HIDE DEF k
  <2>3. TypeOK'
    BY <2>1, <2>2 DEF TypeOK, Staff
  <2>4. BookedOncePerDay' /\ FlightsClear' /\ InsertsSingle'
    BY <2>1, <2>2, LossKeeps DEF TypeOK
  <2>5. VisitsHaveShift'
    BY <1>1, <2>1, <2>2 DEF VisitsHaveShift, Exists, TypeOK
  <2> QED
    BY <2>3, <2>4, <2>5
<1>4. CASE Tick
  <2>1. now' \in FirstTime .. LastTime /\ UNCHANGED <<shift, operators, templates, visits, flight, requests, unchecked>>
    <3>1. FirstTime \in Nat /\ LastTime \in Nat
      BY RosterAssumption
    <3> QED
      BY <1>4, <3>1 DEF Tick, TypeOK
  <2>2. TypeOK'
    BY <2>1 DEF TypeOK
  <2>3. BookedOncePerDay' /\ FlightsClear' /\ InsertsSingle'
    BY <2>1, LossKeeps
  <2> QED
    BY <2>1, <2>2, <2>3 DEF VisitsHaveShift, Exists
<1>5. CASE UNCHANGED vars
  BY <1>5, LossKeeps DEF vars, TypeOK, VisitsHaveShift, Exists
<1> QED
  BY <1>2, <1>3, <1>4, <1>5

\* A roster with at most one shift and no request is in order.
LEMMA RosterInit == Init => RosterInv
<1> SUFFICES ASSUME Init PROVE RosterInv
  OBVIOUS
<1>1. /\ MaxRequests \in Nat /\ FirstTime \in FirstTime .. LastTime
      /\ InitialRows \subseteq Rows
  <2>1. /\ MaxRequests \in Nat /\ FirstTime \in Nat /\ LastTime \in Nat /\ FirstTime <= LastTime
        /\ InitialRows \subseteq Rows
    BY RosterAssumption
  <2> QED
    BY <2>1
<1>2. shift \in [Keys -> Staff \cup {Absent}]
  BY <1>1 DEF Init, Rows
<1>3. TypeOK
  BY <1>1, <1>2 DEF Init, TypeOK, Idle
<1>4. FlightsClear /\ InsertsSingle /\ VisitsHaveShift
  BY DEF Init, FlightsClear, Clear, InsertsSingle, Single, VisitsHaveShift, Idle
<1>5. \A j, k \in Keys : shift[j] # Absent /\ shift[k] # Absent => j = k
  BY DEF Init
<1>6. Absent \notin Operators
  BY RosterAssumption
<1>7. BookedOncePerDay
  BY <1>5, <1>6 DEF BookedOncePerDay
<1> QED
  BY <1>3, <1>4, <1>7 DEF RosterInv

-----------------------------------------------------------------------------
(* What the clients are shown *)

Place(k) == OrderKey(k.date, k.type)
RunningPlace == OrderKey(ActiveDate(now), CurrentType(now))
ByPlace(k) == IF Place(k) < RunningPlace THEN 2 ELSE IF Place(k) = RunningPlace THEN 1 ELSE 0
RanksByPlace == TypeOK => \A k \in Keys : shift[k] \in Operators => Rank(Status(k)) = ByPlace(k)

LEMMA OrderOfTypes ==
  /\ \A x \in Types : ShiftOrder(x) \in 0 .. 2
  /\ \A x, y \in Types : ShiftOrder(x) = ShiftOrder(y) => x = y
<1>1. ShiftOrder("MORNING") = 0 /\ ShiftOrder("AFTERNOON") = 1 /\ ShiftOrder("NIGHT") = 2
  BY DEF ShiftOrder
<1>2. \A x \in Types : x = "MORNING" \/ x = "AFTERNOON" \/ x = "NIGHT"
  BY DEF Types
<1> QED
  BY <1>1, <1>2

\* A place in the order names one date and one type (shift_order_key).
LEMMA PlacesAreDistinct ==
  ASSUME NEW d \in Int, NEW e \in Int, NEW x \in Types, NEW y \in Types
  PROVE /\ OrderKey(d, x) \in Int
        /\ OrderKey(d, x) = OrderKey(e, y) <=> d = e /\ x = y
<1>1. /\ ShiftOrder(x) \in 0 .. 2 /\ ShiftOrder(y) \in 0 .. 2
      /\ ShiftOrder(x) = ShiftOrder(y) => x = y
  BY OrderOfTypes
<1>2. ASSUME NEW m \in 0 .. 2, NEW n \in 0 .. 2, 3 * d + m = 3 * e + n
      PROVE d = e /\ m = n
  BY <1>2
<1> QED
  BY <1>1, <1>2 DEF OrderKey

\* The status of a shift with an operator says where it stands against the running one.
LEMMA StatusByPlace == RanksByPlace
<1> SUFFICES ASSUME TypeOK, NEW k \in Keys, shift[k] \in Operators
             PROVE Rank(Status(k)) = ByPlace(k)
  BY DEF RanksByPlace
<1>1. shift[k] # None
  BY RosterAssumption
<1>2. FirstTime \in Nat /\ LastTime \in Nat
  BY RosterAssumption
<1>3. now \in Nat /\ k.date \in Int /\ k.type \in Types
  BY <1>2 DEF TypeOK, Keys, Days, Today
<1>4. ActiveDate(now) \in Int /\ CurrentType(now) \in Types
  BY <1>3 DEF ActiveDate, SmallHours, Today, CurrentType, Types
<1>5. Place(k) = RunningPlace <=> k.date = ActiveDate(now) /\ k.type = CurrentType(now)
  BY <1>3, <1>4, PlacesAreDistinct DEF Place, RunningPlace
<1>6. Place(k) \in Int /\ RunningPlace \in Int
  BY <1>3, <1>4, PlacesAreDistinct DEF Place, RunningPlace
<1>7. Status(k) = IF Place(k) = RunningPlace THEN "active"
                  ELSE IF Place(k) < RunningPlace THEN "completed" ELSE "pending"
  BY <1>1, <1>5 DEF Status, Place, RunningPlace
<1> QED
  BY <1>6, <1>7 DEF Rank, ByPlace

\* The running shift never goes back, over midnight too.
LEMMA RunningAdvances ==
  ASSUME NEW t \in Nat
  PROVE OrderKey(ActiveDate(t), CurrentType(t)) <= OrderKey(ActiveDate(t + 1), CurrentType(t + 1))
  BY DEF OrderKey, ActiveDate, CurrentType, ShiftOrder, SmallHours, Today

-----------------------------------------------------------------------------
(* The theorems *)

\* The invariant holds however requests, the scheduler, promotions and visits overlap.
THEOREM RosterInvariant == Spec => []RosterInv
<1>1. RosterInv /\ [Next]_vars => RosterInv'
  BY ChecksKeep, InsertKeeps, UpdateKeeps, EndsKeep, TemplatesKeep, RestKeeps DEF Next, Commit
<1> QED
  BY RosterInit, <1>1, PTL DEF Spec

\* The variables keep their types (all requests, the scheduler and the clock).
THEOREM RosterTypeCorrect == Spec => []TypeOK
<1>1. RosterInv => TypeOK
  BY DEF RosterInv
<1> QED
  BY RosterInvariant, <1>1, PTL

\* No operator has two shifts on a date, unless steps that could not see each other have
\* assigned them.
THEOREM OperatorsBookedOnce == Spec => []BookedOncePerDay
<1>1. RosterInv => BookedOncePerDay
  BY DEF RosterInv
<1> QED
  BY RosterInvariant, <1>1, PTL

\* Every visit refers to a shift that exists (foreign key of visit).
THEOREM VisitsKeepTheirShift == Spec => []VisitsHaveShift
<1>1. RosterInv => VisitsHaveShift
  BY DEF RosterInv
<1> QED
  BY RosterInvariant, <1>1, PTL

\* The status of a shift that keeps its operator never goes back (_shift_status).
THEOREM StatusAdvances == Spec => StatusOnlyAdvances
<1>1. RanksByPlace /\ RanksByPlace'
  BY StatusByPlace, PTL
<1>2. TypeOK /\ TypeOK' /\ [Next]_vars
      => [\A k \in Keys : shift[k] \in Operators /\ shift'[k] = shift[k]
            => Rank(Status(k)) <= Rank(Status(k)')]_vars
  <2> SUFFICES ASSUME TypeOK, TypeOK', [Next]_vars, NEW k \in Keys,
                      shift[k] \in Operators, shift'[k] = shift[k]
               PROVE Rank(Status(k)) <= Rank(Status(k)')
    OBVIOUS
  <2>1. Rank(Status(k)) = ByPlace(k) /\ Rank(Status(k)') = ByPlace(k)'
    BY <1>1 DEF RanksByPlace, Rank
  <2>2. FirstTime \in Nat /\ LastTime \in Nat
    BY RosterAssumption
  <2>3. now \in Nat /\ k.date \in Int /\ k.type \in Types
    BY <2>2 DEF TypeOK, Keys, Days, Today
  <2>4. now' = now \/ now' = now + 1
    BY DEF Next, Check, Commit, Templates, Tick, AutoCreateVisit, PromoteToManager, SetTemplates,
       CreateTemplate, UpdateTemplate, DeleteTemplate, CommitInsert, CommitUpdate, CommitDelete,
       CommitFails, CheckCreate, CheckBulk, CheckUpdate, CheckDelete, GenerateShifts, Begin, vars
  <2>5. \A t \in Nat : /\ ActiveDate(t) \in Int /\ CurrentType(t) \in Types
                       /\ OrderKey(ActiveDate(t), CurrentType(t)) \in Int
    BY PlacesAreDistinct DEF ActiveDate, SmallHours, Today, CurrentType, Types
  <2>6. RunningPlace \in Int /\ RunningPlace' \in Int /\ RunningPlace <= RunningPlace'
    <3>1. CASE now' = now
      BY <2>3, <2>5, <3>1 DEF RunningPlace
    <3>2. CASE now' = now + 1
      BY <2>3, <2>5, <3>2, RunningAdvances DEF RunningPlace
    <3> QED
      BY <2>4, <3>1, <3>2
  <2>7. Place(k) \in Int /\ Place(k)' = Place(k)
    BY <2>3, PlacesAreDistinct DEF Place
  <2>8. ByPlace(k) <= ByPlace(k)'
    BY <2>6, <2>7 DEF ByPlace
  <2> QED
    BY <2>1, <2>8
<1> QED
  BY RosterTypeCorrect, <1>2, PTL DEF Spec, StatusOnlyAdvances
=============================================================================
