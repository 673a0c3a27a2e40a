----------------------------- MODULE Statistics -----------------------------
(***************************************************************************)
(* The statistics aggregator: rollups of visits and detections into the    *)
(* hourly and daily MongoDB collections, a backfill on every start, and    *)
(* a snapshot per company; beside it the traffic it counts and the queries *)
(* that read the rollups.  Time is in hours.                               *)
(***************************************************************************)
EXTENDS Integers, Sequences, FiniteSets, FiniteSetsExt, SequencesExt

CONSTANTS Gates, HoursPerDay,
          FirstHour, LastHour,        \* the clock runs from one to the other
          DailyHorizon, HourlyHorizon,  \* days the backfill goes back
          Companies,
          Period,                     \* hours a snapshot covers
          None, MaxEvents, MaxRestarts, MaxErrors  \* bounds

StatisticsAssumption ==
  /\ IsFiniteSet(Gates) /\ IsFiniteSet(Companies) /\ HoursPerDay \in Nat \ {0}
  /\ FirstHour \in Nat /\ LastHour \in Nat /\ FirstHour >= HoursPerDay * DailyHorizon + 1
  /\ DailyHorizon \in Nat /\ HourlyHorizon \in 0 .. DailyHorizon

VARIABLES now,
          entered, detected,  \* gate -> hour -> rows in PostgreSQL and in MongoDB
          prompt,             \* the visits among them that were committed in their hour
          tripsOf,            \* company -> hours with a trip of it
          hourly, daily,      \* gate -> bucket -> document, or None
          snapshot,           \* company -> figure, or None
          up, work,           \* the aggregator, and what is left of its pass
          broken,             \* its PostgreSQL session is in an aborted transaction
          lastCycle, restarts, errors, events

vars == <<now, entered, detected, prompt, tripsOf, hourly, daily, snapshot, up,
          work, broken, lastCycle, restarts, errors, events>>
traffic == <<entered, detected, prompt, tripsOf, events>>
rollups == <<hourly, daily, snapshot>>

Hours == 0 .. LastHour
DayOf(h) == h \div HoursPerDay
Days == 0 .. DayOf(LastHour)
HoursOf(d) == {h \in Hours : DayOf(h) = d}
GateOrder == SetToSeq(Gates)
CompanyOrder == SetToSeq(Companies)

Init ==
  /\ now = FirstHour
  /\ entered = [g \in Gates |-> [h \in Hours |-> IF h < FirstHour THEN h % 2 ELSE 0]]
  /\ detected = [g \in Gates |-> [h \in Hours |-> IF h < FirstHour THEN 1 ELSE 0]]
  /\ prompt = entered
  /\ tripsOf = [s \in Companies |-> {FirstHour - 1}]
  /\ hourly = [g \in Gates |-> [h \in Hours |-> None]]
  /\ daily = [g \in Gates |-> [d \in Days |-> None]]
  /\ snapshot = [s \in Companies |-> None]
  /\ up = FALSE /\ work = <<>> /\ broken = FALSE
  /\ lastCycle = 0 /\ restarts = 0 /\ errors = 0 /\ events = 0

(***************************************************************************)
(* The traffic.  A visit is stamped before its transaction commits, and a  *)
(* detection before it is inserted, so that either may be of the hour that *)
(* has just ended when the aggregator can first see it.                    *)
(***************************************************************************)
TrafficKeeps == UNCHANGED <<now, rollups, up, work, broken, lastCycle, restarts, errors>>
Enter(g) ==
  /\ events < MaxEvents /\ events' = events + 1
  /\ \E h \in {now - 1, now} :
       /\ entered' = [entered EXCEPT ![g][h] = @ + 1]
       /\ prompt' = IF h = now THEN [prompt EXCEPT ![g][h] = @ + 1] ELSE prompt
  /\ UNCHANGED <<detected, tripsOf>> /\ TrafficKeeps
Detect(g) ==
  /\ events < MaxEvents /\ events' = events + 1
  /\ \E h \in {now - 1, now} : detected' = [detected EXCEPT ![g][h] = @ + 1]
  /\ UNCHANGED <<entered, prompt, tripsOf>> /\ TrafficKeeps
Trip(s) ==
  /\ events < MaxEvents /\ events' = events + 1
  /\ tripsOf' = [tripsOf EXCEPT ![s] = @ \cup {now}]
  /\ UNCHANGED <<entered, detected, prompt>> /\ TrafficKeeps

Tick == now < LastHour /\ now' = now + 1
          /\ UNCHANGED <<traffic, rollups, up, work, broken, lastCycle, restarts, errors>>

(***************************************************************************)
(* The passes of the aggregator, as the documents they compute in order.   *)
(***************************************************************************)
\* (mutant) the hour that is still running
RunningHour(t) == t
\* main: "the previous completed hour"
PreviousHour(t) == t - 1

\* For every bucket, the documents of all the gates.
Documents(what, buckets) ==
  [k \in 1 .. Len(buckets) * Cardinality(Gates) |->
     [do |-> what, of |-> GateOrder[1 + ((k - 1) % Cardinality(Gates))],
      bucket |-> buckets[1 + ((k - 1) \div Cardinality(Gates))]]]
Hourly(hours) == Documents("hour", hours)
Daily(days) == Documents("day", days)

\* run_cycle: its day is that of the hour a day before prev_hour.
Cycle(hour) ==
  Hourly(<<hour>>) \o Daily(<<DayOf(hour - HoursPerDay)>>)
    \o [k \in 1 .. Cardinality(Companies) |-> [do |-> "snapshot", of |-> CompanyOrder[k], bucket |-> None]]

\* backfill: the days going back, then the hours of the latest of them,
\* unless nine tenths of the daily documents are there.
Covered == 10 * Cardinality({b \in Gates \X Days : /\ daily[b[1]][b[2]] # None
                               /\ b[2] >= DayOf(now - DailyHorizon * HoursPerDay)})
             >= 9 * DailyHorizon * Cardinality(Gates)
NewSession == <<[do |-> "new session", of |-> None, bucket |-> None]>>
Backfill ==
  IF Covered THEN <<>>
  ELSE Daily([i \in 1 .. DailyHorizon |-> DayOf(now) - i])
         \o Hourly([i \in 1 .. HourlyHorizon * HoursPerDay |->
              (DayOf(now) - 1 - (i - 1) \div HoursPerDay) * HoursPerDay + ((i - 1) % HoursPerDay)])
         \o NewSession

\* main: the backfill, then at once a cycle.  prev_hour is read after it.
Start ==
  /\ ~up /\ restarts < MaxRestarts
  /\ up' = TRUE /\ restarts' = restarts + 1 /\ broken' = FALSE
  /\ work' = Backfill \o <<[do |-> "cycle", of |-> None, bucket |-> None]>>
  /\ UNCHANGED <<now, traffic, rollups, lastCycle, errors>>

\* A crash, or the end after SIGTERM, which cuts only the backfill short.
Crash ==
  /\ up /\ up' = FALSE /\ work' = <<>> /\ broken' = FALSE
  /\ UNCHANGED <<now, traffic, rollups, lastCycle, restarts, errors>>

\* It sleeps an hour after each pass, so an hour may go by between cycles.
Wake ==
  /\ up /\ work = <<>> /\ now > lastCycle
  /\ work' = Cycle(PreviousHour(now)) /\ lastCycle' = now /\ broken' = FALSE
  /\ UNCHANGED <<now, traffic, rollups, up, restarts, errors>>

(***************************************************************************)
(* One step of a pass: an upsert of the document, or a logged failure.  A  *)
(* failed query aborts the transaction of the session, which nobody rolls  *)
(* back, so that every later query of the session fails too.               *)
(***************************************************************************)
SumOver(f, S) == MapThenSumSet(LAMBDA x : f[x], S)
HourlyDoc(g, h) == [entries |-> entered[g][h], detections |-> detected[g][h]]
DailyDoc(g, d) ==
  [entries |-> SumOver(entered[g], HoursOf(d)),
   detections |-> MapThenSumSet(LAMBDA h : hourly[g][h].detections,
                                {h \in HoursOf(d) : hourly[g][h] # None})]
InPeriod(s) == {h \in tripsOf[s] : h > now - Period}

Compute(t) ==
  CASE t.do = "hour" -> hourly' = [hourly EXCEPT ![t.of][t.bucket] = HourlyDoc(t.of, t.bucket)]
                          /\ UNCHANGED <<daily, snapshot>>
    [] t.do = "day" -> daily' = [daily EXCEPT ![t.of][t.bucket] = DailyDoc(t.of, t.bucket)]
                         /\ UNCHANGED <<hourly, snapshot>>
    [] t.do = "snapshot" ->
         snapshot' = (IF InPeriod(t.of) = {} THEN snapshot
                      ELSE [snapshot EXCEPT ![t.of] = Cardinality(InPeriod(t.of))])
           /\ UNCHANGED <<hourly, daily>>

Step(t) == up /\ work # <<>> /\ t = Head(work)
StepKeeps == UNCHANGED <<now, traffic, up, restarts>>

Succeed(t) ==
  /\ Step(t) /\ t.do \in {"hour", "day", "snapshot"} /\ ~broken
  /\ Compute(t) /\ work' = Tail(work)
  /\ UNCHANGED <<broken, lastCycle, errors>> /\ StepKeeps

Fail(t) ==
  /\ Step(t) /\ t.do \in {"hour", "day", "snapshot"}
  /\ broken \/ errors < MaxErrors
  /\ errors' = IF broken THEN errors ELSE errors + 1
  /\ broken' \in {broken, TRUE}  \* MongoDB's fault, or PostgreSQL's
  /\ work' = Tail(work)
  /\ UNCHANGED <<rollups, lastCycle>> /\ StepKeeps

BeginCycle(t) ==
  /\ Step(t) /\ t.do = "cycle"
  /\ work' = Cycle(PreviousHour(now)) /\ lastCycle' = now /\ broken' = FALSE
  /\ UNCHANGED <<rollups, errors>> /\ StepKeeps

CloseSession(t) ==
  /\ Step(t) /\ t.do = "new session"
  /\ broken' = FALSE /\ work' = Tail(work)
  /\ UNCHANGED <<rollups, lastCycle, errors>> /\ StepKeeps

Pass == work # <<>> /\ LET t == Head(work) IN
          Succeed(t) \/ Fail(t) \/ BeginCycle(t) \/ CloseSession(t)

Next ==
  \/ \E g \in Gates : Enter(g) \/ Detect(g)
  \/ \E s \in Companies : Trip(s)
  \/ Tick \/ Start \/ Crash \/ Wake \/ Pass

Spec == Init /\ [][Next]_vars

(***************************************************************************)
(* The readers.  get_volume_data trusts the rollups when they cover half   *)
(* the range, and asks PostgreSQL otherwise; get_transport_stats trusts    *)
(* any snapshot there is, whatever the period asked for.                   *)
(***************************************************************************)
Rolled(hours) == {h \in hours : \E g \in Gates : hourly[g][h] # None}
ExpectedBuckets(hours) == Cardinality(hours)
VolumeAt(h, hours) ==
  IF 2 * Cardinality(Rolled(hours)) >= ExpectedBuckets(hours)
    THEN MapThenSumSet(LAMBDA g : hourly[g][h].entries, {g \in Gates : hourly[g][h] # None})
    ELSE MapThenSumSet(LAMBDA g : entered[g][h], Gates)

\* A company without trips in the period has no line in either answer.
LiveFigure(s, from) == LET trips == {h \in tripsOf[s] : h >= from} IN
  IF trips = {} THEN None ELSE Cardinality(trips)
Figure(s, from) == IF \E x \in Companies : snapshot[x] # None THEN snapshot[s]
                   ELSE LiveFigure(s, from)
-----------------------------------------------------------------------------
TypeOK ==
  /\ now \in Hours
  /\ \A g \in Gates : \A h \in Hours : hourly[g][h] # None => hourly[g][h].entries \in Nat
  /\ \A g \in Gates : \A d \in Days : daily[g][d] # None => daily[g][d].entries \in Nat
  /\ \A s \in Companies : tripsOf[s] \subseteq 0 .. now
  /\ ~up => work = <<>>

\* "Idempotently populate" (statistics_aggregator.py:124): however often the
\* aggregator restarts, backfills and repeats a bucket, and whichever steps of
\* a pass fail, a document counts no visit or detection twice and misses no
\* visit of its bucket but those committed only after their hour was over,
\* which nobody counts again; no chart shows more trucks than came, nor a
\* company more trips than it had.
RollupsMissOnlyLateVisits ==
  /\ \A s \in Companies : \A from \in Hours :
       Figure(s, from) # None => Figure(s, from) \in 1 .. Cardinality(tripsOf[s])
  /\ \A g \in Gates :
    /\ \A h \in Hours : hourly[g][h] # None =>
         /\ hourly[g][h].entries \in prompt[g][h] .. entered[g][h]
         /\ hourly[g][h].detections <= detected[g][h]
    /\ \A d \in Days : daily[g][d] # None =>
         /\ daily[g][d].entries \in
              SumOver(prompt[g], HoursOf(d)) .. SumOver(entered[g], HoursOf(d))
         /\ daily[g][d].detections <= SumOver(detected[g], HoursOf(d))
    /\ \A d \in Days : \A h \in HoursOf(d) :
         VolumeAt(h, HoursOf(d)) <= SumOver([x \in Gates |-> entered[x][h]], Gates)
=============================================================================
