--------------------------- MODULE RealtimeGateway ---------------------------
(***************************************************************************)
(* The realtime half of the API gateway: the consumer thread that turns    *)
(* Kafka messages into coroutines of the event loop, the coroutines (every *)
(* await is a step), the WebSocket registries, and, beside it, the Data    *)
(* Module consuming the same infraction topic.  One truck, with several    *)
(* trips (appointments) numbered by their start time.                      *)
(***************************************************************************)
EXTENDS Integers, Sequences, FiniteSets, FiniteSetsExt

CONSTANTS LastTrip,     \* trips are 1 .. LastTrip
          SourceGate, OperationalGates,
          Sockets, ChannelOf,  \* browser tabs and phones, and what they follow
          Driver,       \* the channel of the truck's driver
          None, MaxMessages, MaxMoves

RealtimeAssumption ==
  /\ LastTrip \in Nat /\ MaxMessages \in Nat /\ MaxMoves \in Nat
  /\ None \notin 1 .. LastTrip
  /\ ChannelOf \in [Sockets -> {SourceGate, Driver} \cup OperationalGates]

VARIABLES status,      \* trip -> status in PostgreSQL
          flagged,     \* trips with highway_infraction
          today,       \* trips whose scheduled start is today
          topic,       \* messages of the topics the gateway consumes
          gatewayAt, dataModuleAt,  \* messages consumed by each
          flagging,    \* trip the Data Module has read and will flag, or None
          tasks,       \* coroutines of the event loop
          open,        \* sockets whose client is connected
          registered,  \* sockets in the registries
          warned,      \* trips a warning of which went to their driver
          skipped,     \* trips whose warning was left out as already sent
          chosen,      \* message -> trip each side chose, and the active ones it saw
          moves,       \* status changes so far
          spikes       \* energy spikes the Data Module has stored

vars == <<status, flagged, today, topic, gatewayAt, dataModuleAt, flagging,
          tasks, open, registered, warned, skipped, chosen, moves, spikes>>
tables == <<status, flagged, today, moves>>
sockets == <<open, registered>>

Trips == 1 .. LastTrip
Kinds == {"infraction", "no_infraction", "accepted", "manual_review", "skipped", "scale_up"}
Statuses == <<"scheduled", "in_transit", "in_process", "completed">>
NotChosen == [trip |-> None, active |-> {}]

Init ==
  /\ status = [t \in Trips |-> "scheduled"]
  /\ flagged = {}
  /\ today \in {n .. LastTrip : n \in 1 .. LastTrip + 1}
  /\ topic = <<>> /\ gatewayAt = 0 /\ dataModuleAt = 0
  /\ flagging = None
  /\ tasks = {}
  /\ open = {} /\ registered = {}
  /\ warned = {} /\ skipped = {}
  /\ chosen = [side \in {"gateway", "dataModule"} |-> [m \in 1 .. MaxMessages |-> NotChosen]]
  /\ moves = 0
  /\ spikes = {}

(***************************************************************************)
(* Which trip a plate stands for.                                          *)
(***************************************************************************)
Active(trips) == {t \in trips : status[t] \in {"in_transit", "in_process"}}
Latest(trips) == IF trips = {} THEN None ELSE Max(trips)
Earliest(trips) == IF trips = {} THEN None ELSE Min(trips)

\* update_appointment_after_infraction: the latest active trip of any day.
DataModuleTrip == Latest(Active(Trips))

\* (mutant) the first trip of the day
FirstOfToday == Earliest(today)
\* _resolve_and_notify_driver_infraction: today's trips, active ones first.
WarnedTrip == IF Active(today) # {} THEN Latest(Active(today)) ELSE Latest(today)

\* _resolve_and_notify_driver: the first trip in the answer.
AcceptedTrip == Earliest(today)

(***************************************************************************)
(* The world: engines publish, trips move on, clients come and go.         *)
(***************************************************************************)
Publish ==
  /\ Len(topic) < MaxMessages
  /\ \E kind \in Kinds : topic' = Append(topic, kind)
  /\ UNCHANGED <<tables, gatewayAt, dataModuleAt, flagging, tasks, sockets,
                 warned, skipped, chosen, spikes>>

TripMoves ==
  /\ moves < MaxMoves
  /\ \E t \in Trips, i \in 1 .. Len(Statuses) - 1 :
       /\ status[t] = Statuses[i]
       /\ status' = [status EXCEPT ![t] = Statuses[i + 1]]
  /\ moves' = moves + 1
  /\ UNCHANGED <<flagged, today, topic, gatewayAt, dataModuleAt, flagging,
                 tasks, sockets, warned, skipped, chosen, spikes>>

quiet == <<tables, topic, gatewayAt, dataModuleAt, flagging, tasks, warned,
           skipped, chosen, spikes>>

\* ws_gate, ws_driver: accept, then register; a client may leave at any
\* time and is forgotten when its handler or a broadcast notices.
Accept(s) == s \notin open \cup registered /\ open' = open \cup {s} /\ UNCHANGED <<registered, quiet>>
Register(s) == s \in open \ registered /\ registered' = registered \cup {s} /\ UNCHANGED <<open, quiet>>
Leave(s) == s \in open /\ open' = open \ {s} /\ UNCHANGED <<registered, quiet>>
Forget(s) == s \in registered \ open /\ registered' = registered \ {s} /\ UNCHANGED <<open, quiet>>

(***************************************************************************)
(* The Data Module: read the trip, then flag it in a transaction.          *)
(***************************************************************************)
DataModuleReads ==
  /\ dataModuleAt < Len(topic) /\ flagging = None
  /\ dataModuleAt' = dataModuleAt + 1
  /\ IF topic[dataModuleAt + 1] = "infraction"
       THEN /\ chosen' = [chosen EXCEPT !["dataModule"][dataModuleAt + 1] =
                            [trip |-> DataModuleTrip, active |-> Active(Trips)]]
            /\ flagging' = IF DataModuleTrip \in flagged THEN None ELSE DataModuleTrip
       ELSE UNCHANGED <<chosen, flagging>>
  /\ UNCHANGED <<tables, topic, gatewayAt, tasks, sockets, warned, skipped, spikes>>

\* cmd_flag_highway_infraction refuses a trip that is not on its way.
DataModuleFlags ==
  /\ flagging # None
  /\ flagged' = IF status[flagging] = "in_transit"
                  THEN flagged \cup {flagging} ELSE flagged
  /\ flagging' = None
  /\ UNCHANGED <<status, today, moves, topic, gatewayAt, dataModuleAt, tasks,
                 sockets, warned, skipped, chosen, spikes>>

(***************************************************************************)
(* The consumer thread.  Every message becomes coroutines.                 *)
(***************************************************************************)
Broadcast(m, channel) == [message |-> m, do |-> "broadcast", to |-> channel, trip |-> None, left |-> {}]
Lookup(m, what) == [message |-> m, do |-> what, to |-> Driver, trip |-> None, left |-> {}]

HandleInfraction(m) ==
  {Broadcast(m, SourceGate)}
    \cup {Broadcast(m, g) : g \in OperationalGates \ {SourceGate}}
    \cup (IF topic[m] = "infraction" THEN {Lookup(m, "ask infraction")} ELSE {})
HandleDecision(m) ==
  {Broadcast(m, SourceGate)}
    \cup (IF topic[m] = "accepted" THEN {Lookup(m, "ask accepted")} ELSE {})
    \cup (IF topic[m] = "scale_up" THEN {Lookup(m, "store spike")} ELSE {})
CoroutinesOf(m) ==
  CASE topic[m] = "skipped" -> {}
    [] topic[m] \in {"infraction", "no_infraction"} -> HandleInfraction(m)
    [] OTHER -> HandleDecision(m)

ConsumerLoop ==
  /\ gatewayAt < Len(topic)
  /\ gatewayAt' = gatewayAt + 1
  /\ tasks' = tasks \cup CoroutinesOf(gatewayAt + 1)
  /\ UNCHANGED <<tables, topic, dataModuleAt, flagging, sockets, warned,
                 skipped, chosen, spikes>>

(***************************************************************************)
(* The coroutines.                                                         *)
(***************************************************************************)
OnChannel(c) == {s \in registered : ChannelOf[s] = c}
Sending(t, trip) == [t EXCEPT !.do = "send", !.trip = trip, !.left = OnChannel(t.to)]
Replace(t, new) == tasks' = (tasks \ {t}) \cup new
network == <<tables, topic, gatewayAt, dataModuleAt, flagging>>

StartBroadcast(t) ==
  /\ t.do = "broadcast"
  /\ Replace(t, {Sending(t, None)})
  /\ UNCHANGED <<network, sockets, warned, skipped, chosen, spikes>>

\* What becomes of a warning: no trip, or none that a driver has claimed; a trip that is
\* flagged, which is taken to mean that it was warned of; or the driver's sockets.
NobodyToWarn(t) == Replace(t, {}) /\ UNCHANGED <<warned, skipped>>
SkipWarning(t) ==
  /\ WarnedTrip \in flagged
  /\ skipped' = skipped \cup {WarnedTrip}
  /\ Replace(t, {})
  /\ UNCHANGED warned
Warn(t) ==
  /\ WarnedTrip \notin flagged \cup {None}
  /\ warned' = warned \cup {WarnedTrip}
  /\ Replace(t, {Sending(t, WarnedTrip)})
  /\ UNCHANGED skipped

\* The GET of the truck's trips answers.
AskInfraction(t) ==
  /\ t.do = "ask infraction"
  /\ chosen' = [chosen EXCEPT !["gateway"][t.message] =
                  [trip |-> WarnedTrip, active |-> Active(today)]]
  /\ NobodyToWarn(t) \/ SkipWarning(t) \/ Warn(t)
  /\ UNCHANGED <<network, sockets, spikes>>

AskAccepted(t) ==
  /\ t.do = "ask accepted"
  /\ \/ Replace(t, {})
     \/ AcceptedTrip # None /\ Replace(t, {Sending(t, AcceptedTrip)})
  /\ UNCHANGED <<network, sockets, warned, skipped, chosen, spikes>>

\* _record_energy_spike posts once and only logs a failure.
StoreSpike(t) ==
  /\ t.do = "store spike"
  /\ Replace(t, {})
  /\ spikes' \in {spikes, spikes \cup {t.message}}
  /\ UNCHANGED <<network, sockets, warned, skipped, chosen>>

\* One send_json of a broadcast; a failed one forgets the socket.
SendOne(t, s) ==
  /\ t.do = "send" /\ s \in t.left
  /\ Replace(t, {[t EXCEPT !.left = @ \ {s}]})
  /\ registered' = IF s \in open THEN registered ELSE registered \ {s}
  /\ UNCHANGED <<network, open, warned, skipped, chosen, spikes>>

Finish(t) ==
  /\ t.do = "send" /\ t.left = {}
  /\ Replace(t, {})
  /\ UNCHANGED <<network, sockets, warned, skipped, chosen, spikes>>

\* A lookup fails, is answered with an error or times out: it is logged.
LookupFails(t) ==
  /\ t.do \in {"ask infraction", "ask accepted"}
  /\ Replace(t, {})
  /\ UNCHANGED <<network, sockets, warned, skipped, chosen, spikes>>

EventLoop == \E t \in tasks :
  \/ StartBroadcast(t) \/ AskInfraction(t) \/ AskAccepted(t) \/ StoreSpike(t)
  \/ (\E s \in t.left : SendOne(t, s)) \/ Finish(t) \/ LookupFails(t)

Clients == \E s \in Sockets : Accept(s) \/ Register(s) \/ Leave(s) \/ Forget(s)

Next == Publish \/ TripMoves \/ Clients \/ DataModuleReads \/ DataModuleFlags
          \/ ConsumerLoop \/ EventLoop

Spec == Init /\ [][Next]_vars
-----------------------------------------------------------------------------
TypeOK ==
  /\ \A t \in Trips : \E i \in DOMAIN Statuses : status[t] = Statuses[i]
  /\ flagged \cup today \cup warned \cup skipped \subseteq Trips
  /\ flagging \in Trips \cup {None}
  /\ gatewayAt \in 0 .. Len(topic) /\ dataModuleAt \in 0 .. Len(topic)
  /\ open \cup registered \subseteq Sockets
  /\ \A t \in tasks : t.message \in 1 .. gatewayAt /\ t.left \subseteq Sockets
  /\ spikes \subseteq DOMAIN topic

\* "Select the SAME appointment the Data Module flags" (api_gateway.py:293): when the trip
\* that the Data Module chose for an infraction is among the active trips the gateway is
\* shown, the gateway chooses that one, or one that the Data Module did not see active.  It
\* is about the choice: whether a warning of it goes out is another matter.
SelectsTheFlaggedTrip ==
  \A m \in 1 .. MaxMessages :
    LET ours == chosen["gateway"][m] theirs == chosen["dataModule"][m] IN
    theirs.trip \in ours.active =>
      ours.trip = theirs.trip \/ ours.trip \in ours.active \ theirs.active

\* "Once this appointment is already flagged, the warning was already sent"
\* (api_gateway.py:308): so a trip whose warning is left out was warned of.
SkippedWasWarned == skipped \subseteq warned
=============================================================================
