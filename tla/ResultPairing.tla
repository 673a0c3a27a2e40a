--------------------------- MODULE ResultPairing ---------------------------
(***************************************************************************)
(* One engine of V_APP: BaseDecisionEngine with the logic of either        *)
(* DecisionEngine or InfractionEngine, its HTTP client of the Data Module  *)
(* and the Kafka consumer it reads plate (lp) and hazard (hz) results      *)
(* with.  A result is one copy of what an agent saw of a truck: Kafka's    *)
(* producer resends on a lost acknowledgement, so a topic may hold copies. *)
(* Which plate of a set matches a reading is PlateMatcher's; here it is    *)
(* any expected plate, or none, unless the reading itself is expected.     *)
(***************************************************************************)
EXTENDS Integers, Sequences, FiniteSets

CONSTANTS Trucks,       \* truck ids; Agent A draws a fresh one per truck
          Gates, MainGate, \* gates of the engine; the client's default gate
          Plates,       \* number plates
          None,
          Copies,       \* copies a topic may hold of one result
          MaxResults,   \* results the agents publish in all
          MaxFailures,  \* times the producer may raise
          MaxRestarts,
          MaxHour, ExpirationHours

PairingAssumption ==
  /\ IsFiniteSet(Gates) /\ MainGate \in Gates
  /\ None \notin Plates
  /\ Copies \in Nat /\ MaxResults \in Nat /\ MaxFailures \in Nat /\ MaxRestarts \in Nat
  /\ MaxHour \in Nat /\ ExpirationHours \in Nat

VARIABLES engine,      \* "decision" or "infraction"
          expected,    \* gate -> plates of its appointments in transit
          topic,       \* <<kind, gate>> -> results published so far
          position,    \* <<kind, gate>> -> results consumed so far
          buffer,      \* kind -> key -> result waiting for its partner
          published,   \* what the engine has published, in order
          raised,      \* keys whose publication raised
          restarts, hour

vars == <<engine, expected, topic, position, buffer, published,
          raised, restarts, hour>>

Kinds == {"lp", "hz"}
Topics == Kinds \X Gates

\* (mutant) buffers keyed by the gate alone
KeyOfGate(gate, truck) == <<gate>>
\* The buffers are dictionaries keyed by gate and truck.
Key(gate, truck) == <<gate, truck>>
Keys == {Key(g, t) : g \in Gates, t \in Trucks}

\* Message.timestamp counts milliseconds since the epoch, time.time() seconds; the model's
\* epoch is one hour before its clock starts.
Seconds(h) == 3600 * (1 + h)
Milliseconds(h) == 1000 * Seconds(h)

\* What a result says: the plate that was read ("N/A" is None), or whether
\* a UN number or Kemler code was.
Readings(kind) == IF kind = "lp" THEN Plates \cup {None} ELSE BOOLEAN
Result(kind, gate, truck, reading, copy) ==
  [kind |-> kind, gate |-> gate, truck |-> truck, reading |-> reading,
   copy |-> copy, timestamp |-> Milliseconds(hour)]
EmptyBuffers == [k \in Kinds |-> [key \in Keys |-> None]]

Init ==
  /\ engine \in {"decision", "infraction"}
  /\ expected \in [Gates -> SUBSET Plates]
  /\ topic = [t \in Topics |-> <<>>]
  /\ position = [t \in Topics |-> 0]
  /\ buffer = EmptyBuffers
  /\ published = <<>>
  /\ raised = {}
  /\ restarts = 0
  /\ hour = 0

(***************************************************************************)
(* The agents.  A truck passes one gate; a copy repeats an earlier result. *)
(***************************************************************************)
All(kind) == UNION {{topic[<<kind, g>>][i] : i \in DOMAIN topic[<<kind, g>>]} : g \in Gates}
CopiesOf(kind, truck) == {r \in All(kind) : r.truck = truck}

AgentPublishes(kind, gate, truck) ==
  \E reading \in Readings(kind) :
    LET earlier == CopiesOf(kind, truck)
        result == Result(kind, gate, truck, reading, Cardinality(earlier)) IN
    /\ Cardinality(earlier) < Copies
    /\ Cardinality(All("lp") \cup All("hz")) < MaxResults
    /\ \A r \in CopiesOf("lp", truck) \cup CopiesOf("hz", truck) : r.gate = gate
    /\ \A r \in earlier : r.reading = reading
    /\ topic' = [topic EXCEPT ![<<kind, gate>>] = Append(@, result)]
    /\ UNCHANGED <<engine, expected, position, buffer, published,
                   raised, restarts, hour>>

(***************************************************************************)
(* One turn of the main loop: drop what is stale, take a result, store it  *)
(* and, when its partner is there, run the engine's logic on the pair.     *)
(***************************************************************************)
Expiration == 3600 * ExpirationHours
Stale(result) == Seconds(hour) - result.timestamp > Expiration
WithoutStale(b) ==
  [k \in Kinds |-> [key \in Keys |->
     IF b[k][key] # None /\ Stale(b[k][key]) THEN None ELSE b[k][key]]]

Stored(b, r) == [b EXCEPT ![r.kind][Key(r.gate, r.truck)] = r]
Complete(b, key) == b["lp"][key] # None /\ b["hz"][key] # None
Cleared(b, key) == [k \in Kinds |-> [b[k] EXCEPT ![key] = None]]

\* get_appointments_for_decision: in transit to the gate, today or yesterday.
Candidates(gate) == expected[gate]

\* get_appointments with the gate the client holds: it answers with the
\* plates expected there, with an API error, or that the API is unreachable.
Answers(gate) == {[kind |-> "found", plates |-> Candidates(gate)],
                  [kind |-> "error", plates |-> {}],
                  [kind |-> "unavailable", plates |-> {}]}
Matches(reading, plates) ==
  IF reading \in plates THEN {reading} ELSE plates \cup {None}

Outcome(verdict, reason, plate) == [verdict |-> verdict, reason |-> reason, plate |-> plate]

\* DecisionEngine._execute_logic asks for the appointments of the truck's gate.
AskedGate(gate) == gate
DecisionOutcomes(lpReading, answer) ==
  IF lpReading = None THEN {Outcome("MANUAL_REVIEW", "not detected", None)}
  ELSE CASE answer.kind = "unavailable" -> {Outcome("MANUAL_REVIEW", "unavailable", lpReading)}
         [] answer.kind = "error" \/ (answer.kind = "found" /\ answer.plates = {}) ->
              {Outcome("MANUAL_REVIEW", "none found", lpReading)}
         [] OTHER ->
              {IF p = None THEN Outcome("MANUAL_REVIEW", "no match", lpReading)
                           ELSE Outcome("ACCEPTED", "matched", p) :
                 p \in Matches(lpReading, answer.plates)}

\* InfractionEngine._execute_logic: a hazardous truck is an infraction
\* whatever the appointments say; they only correct its plate.
InfractionOutcomes(lpReading, hazardous, answer) ==
  IF ~hazardous THEN {Outcome("NO_INFRACTION", "not hazardous", lpReading)}
  ELSE {Outcome("INFRACTION", "hazardous", IF p = None THEN lpReading ELSE p) :
          p \in IF lpReading = None THEN {None} ELSE Matches(lpReading, answer.plates)}

Outcomes(gate, b, key) ==
  LET lpReading == b["lp"][key].reading
      asked == IF engine = "decision" THEN AskedGate(gate) ELSE MainGate IN
  UNION {IF engine = "decision"
           THEN DecisionOutcomes(lpReading, answer)
           ELSE InfractionOutcomes(lpReading, b["hz"][key].reading, answer) :
         answer \in Answers(asked)}

Publication(key, b, outcome) ==
  [key |-> key, lp |-> b["lp"][key], hz |-> b["hz"][key], outcome |-> outcome]

\* (mutant) only a plate result triggers the decision
TriesOnPlate(result, b) == result.kind = "lp" /\ Complete(b, Key(result.gate, result.truck))
\* _try_process_truck runs after every stored result, of either kind.
Tries(result, b) == Complete(b, Key(result.gate, result.truck))

Take(t) ==
  LET result == topic[t][position[t] + 1]
      key == Key(result.gate, result.truck)
      stored == Stored(WithoutStale(buffer), result) IN
  /\ position[t] < Len(topic[t])
  /\ position' = [position EXCEPT ![t] = @ + 1]
  /\ UNCHANGED <<engine, expected, topic, restarts, hour>>
  /\ \/ /\ ~Tries(result, stored)
        /\ buffer' = stored
        /\ UNCHANGED <<published, raised>>
     \/ /\ Tries(result, stored)
        /\ \E outcome \in Outcomes(result.gate, stored, key) :
             published' = Append(published, Publication(key, stored, outcome))
        /\ buffer' = Cleared(stored, key)
        /\ UNCHANGED raised
     \* the producer raises: the loop logs it and both results stay
     \/ /\ Tries(result, stored)
        /\ Cardinality(raised) < MaxFailures
        /\ buffer' = stored
        /\ raised' = raised \cup {key}
        /\ UNCHANGED published

\* A turn in which no result comes.
Idle ==
  /\ buffer' = WithoutStale(buffer)
  /\ UNCHANGED <<engine, expected, topic, position, published,
                 raised, restarts, hour>>

\* Nothing is committed and auto.offset.reset is "latest": a restarted
\* engine starts with empty buffers after everything published so far.
Restart ==
  /\ restarts < MaxRestarts
  /\ restarts' = restarts + 1
  /\ buffer' = EmptyBuffers
  /\ position' = [t \in Topics |-> Len(topic[t])]
  /\ UNCHANGED <<engine, expected, topic, published, raised, hour>>

HourPasses ==
  /\ hour < MaxHour
  /\ hour' = hour + 1
  /\ UNCHANGED <<engine, expected, topic, position, buffer,
                 published, raised, restarts>>

Next == \/ \E k \in Kinds, g \in Gates, t \in Trucks : AgentPublishes(k, g, t)
        \/ \E t \in Topics : Take(t)
        \/ Idle
        \/ Restart
        \/ HourPasses

Spec == Init /\ [][Next]_vars
-----------------------------------------------------------------------------
ResultOf(kind) ==
  [kind : {kind}, gate : Gates, truck : Trucks, reading : Readings(kind),
   copy : 0 .. Copies - 1, timestamp : {Milliseconds(h) : h \in 0 .. MaxHour}]

Results == ResultOf("lp") \cup ResultOf("hz")

TypeOK ==
  /\ engine \in {"decision", "infraction"}
  /\ expected \in [Gates -> SUBSET Plates]
  /\ topic \in [Topics -> Seq(Results)]
  /\ position \in [Topics -> Nat]
  /\ buffer \in [Kinds -> [Keys -> Results \cup {None}]]
  /\ raised \subseteq Keys
  /\ restarts \in 0 .. MaxRestarts /\ hour \in 0 .. MaxHour

\* A publication is made from two results of the truck and the gate it
\* names, whatever order the results of all trucks come in.
DecidedFromItsOwnResults ==
  \A i \in DOMAIN published :
    LET p == published[i] IN
    /\ p.lp.truck = p.hz.truck /\ p.lp.gate = p.hz.gate
    /\ p.key = Key(p.lp.gate, p.lp.truck)

\* Both results of a truck wait in the buffers only when publishing its
\* decision has raised: no order of arrival leaves a pair undecided.
PairsAreDecided ==
  \A key \in Keys : Complete(buffer, key) => key \in raised

\* A truck is accepted at a gate only for a plate that is expected at that
\* gate, whichever gate the engine's client asks by default.
AcceptedAtItsGate ==
  \A i \in DOMAIN published :
    LET p == published[i] IN
    p.outcome.verdict = "ACCEPTED" => p.outcome.plate \in expected[p.lp.gate]

\* A result that has waited longer than expiration_time_hours is dropped
\* when the loop takes its next message: what _clear_stale_buffer_entries is
\* for.  The code compares seconds with milliseconds, so it never is.
Age(result) == Seconds(hour) - result.timestamp \div 1000
StaleResultsExpire ==
  [][position' # position =>
       \A k \in Kinds, key \in Keys :
         /\ buffer[k][key] # None
         /\ Age(buffer[k][key]) > Expiration
         => buffer'[k][key] # buffer[k][key]]_vars
=============================================================================
