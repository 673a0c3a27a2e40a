-------------------------- MODULE AppointmentImport --------------------------
(***************************************************************************)
(* POST /arrivals/bulk: a CSV of trips, one row at a time in one session   *)
(* that does not flush by itself (autoflush=False), committed at the end;  *)
(* several imports at once, and trips that end meanwhile.                  *)
(***************************************************************************)
EXTENDS Integers, Sequences, FiniteSets

CONSTANTS Importers, Trucks, UnknownTruck, LastHour,
          Window,       \* hours on either side in which a truck has one trip
          NoTime, Closed, MaxRows

ImportAssumption ==
  /\ LastHour \in Nat /\ Window \in Nat /\ MaxRows \in Nat
  /\ UnknownTruck \notin Trucks /\ Closed \notin 0 .. MaxRows

VARIABLES table,     \* committed trips
          flushed,   \* importer -> rows its transaction has inserted
          pending,   \* importer -> the row added but not yet flushed
          rows       \* importer -> rows read so far, or Closed

vars == <<table, flushed, pending, rows>>

Times == 0 .. LastHour
Row == [truck : Trucks \cup {UnknownTruck}, time : Times \cup {NoTime}, valid : BOOLEAN]
Trip(i, row) == [by |-> <<i, rows[i] + 1>>, truck |-> row.truck, time |-> row.time]

Init ==
  /\ table = {}
  /\ flushed = [i \in Importers |-> {}] /\ pending = [i \in Importers |-> {}]
  /\ rows = [i \in Importers |-> 0]

\* (mutant) the check reads through a session of its own
VisibleElsewhere(i) == table
Visible(i) == table \cup flushed[i]
Near(t, u) == t # NoTime /\ u # NoTime /\ t - u \in (0 - Window) .. Window

\* The trips that refuse the row.  Without a time, any trip of today does
\* (all times are today's); a trip without a time never does.
Conflicts(i, row) ==
  {t \in Visible(i) : t.truck = row.truck /\ t.time # NoTime
                        /\ (row.time = NoTime \/ Near(row.time, t.time))}

\* Terminal, gate, direction and numbers of the row are its validity.
Reject(i, row) ==
  /\ rows[i] # Closed /\ rows[i] < MaxRows
  /\ row.truck = UnknownTruck \/ Conflicts(i, row) # {} \/ ~row.valid
  /\ rows' = [rows EXCEPT ![i] = @ + 1]
  /\ UNCHANGED <<table, flushed, pending>>

\* The booking's flush inserts the row accepted before; this one waits.
Accept(i, row) ==
  /\ rows[i] # Closed /\ rows[i] < MaxRows
  /\ row.truck \in Trucks /\ Conflicts(i, row) = {} /\ row.valid
  /\ flushed' = [flushed EXCEPT ![i] = @ \cup pending[i]]
  /\ pending' = [pending EXCEPT ![i] = {Trip(i, row)}]
  /\ rows' = [rows EXCEPT ![i] = @ + 1]
  /\ UNCHANGED table

Commit(i) ==
  /\ rows[i] # Closed /\ rows[i] > 0
  /\ table' = table \cup flushed[i] \cup pending[i]
  /\ flushed' = [flushed EXCEPT ![i] = {}] /\ pending' = [pending EXCEPT ![i] = {}]
  /\ rows' = [rows EXCEPT ![i] = Closed]

Abort(i) ==
  /\ rows[i] # Closed
  /\ flushed' = [flushed EXCEPT ![i] = {}] /\ pending' = [pending EXCEPT ![i] = {}]
  /\ rows' = [rows EXCEPT ![i] = Closed]
  /\ UNCHANGED table

\* A trip is completed or canceled: it leaves the active statuses.
Ends(t) ==
  /\ table' = table \ {t}
  /\ UNCHANGED <<flushed, pending, rows>>

Next ==
  \/ \E i \in Importers : Commit(i) \/ Abort(i) \/ \E row \in Row : Reject(i, row) \/ Accept(i, row)
  \/ \E t \in table : Ends(t)

Spec == Init /\ [][Next]_vars
-----------------------------------------------------------------------------
TypeOK ==
  /\ \A t \in table \cup UNION {flushed[i] \cup pending[i] : i \in Importers} :
       t.truck \in Trucks /\ t.time \in Times \cup {NoTime}
  /\ \A i \in Importers : rows[i] = Closed => flushed[i] \cup pending[i] = {}

\* "reject if truck already has an active appointment within" the window
\* (routes/arrivals.py:582), for the rows of one file: a row may only collide
\* with the row accepted right before it, the one row not flushed yet.
Imported(i) == flushed[i] \cup pending[i]
OnlyNeighboursCollide ==
  \A i \in Importers : \A t, u \in Imported(i) :
    (t.truck = u.truck /\ Near(t.time, u.time) /\ t.by[2] < u.by[2])
      => \A v \in Imported(i) : v.by[2] \notin t.by[2] + 1 .. u.by[2] - 1
=============================================================================
