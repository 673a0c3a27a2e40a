--------------------------- MODULE BackOfficeProofs ---------------------------
(***************************************************************************)
(* For any trucks, gates, plates, results, trips, sockets and importers:   *)
(* decisions are made of the results of one truck at one gate, a matched   *)
(* plate is near what was read, the gateway selects the trip that is       *)
(* flagged, the figures of an answer add up, a rollup counts no row twice, *)
(* and the rows of an import that collide are neighbours.  The run's       *)
(* specification, the sum of these modules, implements each of them.       *)
(***************************************************************************)
EXTENDS MCBackOffice, FiniteSetTheorems, WellFoundedInduction, TLAPS

\* Every set of numbers has a least member.
LEMMA LeastOf ==
  ASSUME NEW T, T \subseteq Nat, T # {}
  PROVE \E x \in T : \A y \in T : x <= y
<1>1. PICK x \in T : \A y \in T : ~(<<y, x>> \in OpToRel(<, Nat))
  BY NatLessThanWellFounded, WFMin
<1>2. \A y \in T : ~(y < x)
  BY <1>1 DEF OpToRel
<1> QED
  BY <1>2

-----------------------------------------------------------------------------
(* The pairing of results *)

\* What waits in a buffer is of its kind and lies under the key of its truck.
OwnResult(r, kind, key) == r # None => r.kind = kind /\ Key(r.gate, r.truck) = key
OwnBuffers == \A k \in Kinds, key \in Keys : OwnResult(buffer[k][key], k, key)

\* A topic holds results of its kind and its gate, and is read no further than it goes.
OwnTopics ==
  \A t \in Topics :
    /\ position[t] <= Len(topic[t])
    /\ \A i \in DOMAIN topic[t] : topic[t][i].kind = t[1] /\ topic[t][i].gate = t[2]

PairingInv ==
  /\ TypeOK /\ OwnTopics /\ OwnBuffers
  /\ DecidedFromItsOwnResults /\ PairsAreDecided /\ AcceptedAtItsGate

-----------------------------------------------------------------------------
(* The buffers *)

Buffers == [Kinds -> [Keys -> Results \cup {None}]]

\* Dropping what is stale completes no pair and moves no result.
LEMMA DroppingKeeps ==
  ASSUME NEW b \in Buffers
  PROVE /\ WithoutStale(b) \in Buffers
        /\ \A k \in Kinds, key \in Keys : WithoutStale(b)[k][key] \in {b[k][key], None}
  BY DEF Buffers, WithoutStale

\* Storing a result changes the place of its truck in the buffer of its kind only.
LEMMA StoringKeeps ==
  ASSUME NEW b \in Buffers, NEW r \in Results
  PROVE /\ Stored(b, r) \in Buffers
        /\ Key(r.gate, r.truck) \in Keys
        /\ \A k \in Kinds, key \in Keys :
             Stored(b, r)[k][key] =
               IF k = r.kind /\ key = Key(r.gate, r.truck) THEN r ELSE b[k][key]
<1>1. r.kind \in Kinds /\ Key(r.gate, r.truck) \in Keys
  BY DEF Results, ResultOf, Kinds, Keys, Key
<1> QED
  BY <1>1 DEF Buffers, Stored

\* Clearing a key empties its two places and no other.
LEMMA ClearingKeeps ==
  ASSUME NEW b \in Buffers, NEW key \in Keys
  PROVE /\ Cleared(b, key) \in Buffers
        /\ \A k \in Kinds, other \in Keys :
             Cleared(b, key)[k][other] = IF other = key THEN None ELSE b[k][other]
  BY DEF Buffers, Cleared

-----------------------------------------------------------------------------
(* The decision *)

\* A truck is accepted only for a plate among the appointments of the gate that was asked.
LEMMA AcceptedWhatWasFound ==
  ASSUME TypeOK, NEW gate \in Gates, NEW b, NEW key,
         NEW outcome \in Outcomes(gate, b, key), outcome.verdict = "ACCEPTED"
  PROVE outcome.plate \in expected[gate]
<1> DEFINE lp == b["lp"][key].reading
           hz == b["hz"][key].reading
           asked == IF engine = "decision" THEN gate ELSE MainGate
<1>1. PICK reply \in Answers(asked) :
        outcome \in IF engine = "decision" THEN DecisionOutcomes(lp, reply)
                                            ELSE InfractionOutcomes(lp, hz, reply)
  BY DEF Outcomes, AskedGate
<1>2. ASSUME outcome \in InfractionOutcomes(lp, hz, reply)
      PROVE outcome.verdict # "ACCEPTED"
  <2>1. CASE ~hz
    <3>1. outcome = Outcome("NO_INFRACTION", "not hazardous", lp)
      BY <1>2, <2>1 DEF InfractionOutcomes
    <3> QED
      BY <3>1 DEF Outcome
  <2>2. CASE hz
    <3> DEFINE found == IF lp = None THEN {None} ELSE Matches(lp, reply.plates)
    <3>1. outcome \in {Outcome("INFRACTION", "hazardous", IF p = None THEN lp ELSE p) :
                       p \in found}
      BY <1>2, <2>2 DEF InfractionOutcomes
    <3> HIDE DEF found
    <3>2. PICK p \in found :
           outcome = Outcome("INFRACTION", "hazardous", IF p = None THEN lp ELSE p)
      BY <3>1
    <3> QED
      BY <3>2 DEF Outcome
  <2> QED
    BY <2>1, <2>2
<1>3. engine = "decision" /\ outcome \in DecisionOutcomes(lp, reply)
  BY <1>1, <1>2
<1>4. reply.plates \subseteq expected[gate]
  BY <1>1, <1>3 DEF Answers, Candidates
<1>5. /\ lp # None /\ reply.kind # "unavailable" /\ reply.kind # "error"
      /\ reply.plates # {}
  <2>1. ASSUME lp = None PROVE FALSE
    <3>1. outcome = Outcome("MANUAL_REVIEW", "not detected", None)
      BY <1>3, <2>1 DEF DecisionOutcomes
    <3> QED
      BY <3>1 DEF Outcome
  <2>2. ASSUME reply.kind = "unavailable" PROVE FALSE
    <3>1. outcome = Outcome("MANUAL_REVIEW", "unavailable", lp)
      BY <1>3, <2>1, <2>2 DEF DecisionOutcomes
    <3> QED
      BY <3>1 DEF Outcome
  <2>3. ASSUME reply.kind = "error" \/ reply.plates = {} PROVE FALSE
    <3>1. reply.kind = "error" \/ (reply.kind = "found" /\ reply.plates = {})
      BY <1>1, <2>2, <2>3 DEF Answers
    <3>2. outcome = Outcome("MANUAL_REVIEW", "none found", lp)
      BY <1>3, <2>1, <2>2, <3>1 DEF DecisionOutcomes
    <3> QED
      BY <3>2 DEF Outcome
  <2> QED
    BY <2>1, <2>2, <2>3
<1>6. outcome \in {IF p = None THEN Outcome("MANUAL_REVIEW", "no match", lp)
                              ELSE Outcome("ACCEPTED", "matched", p) :
                    p \in Matches(lp, reply.plates)}
  BY <1>3, <1>5 DEF DecisionOutcomes
<1>7. PICK p \in Matches(lp, reply.plates) :
        p # None /\ outcome = Outcome("ACCEPTED", "matched", p)
  <2>1. PICK p \in Matches(lp, reply.plates) :
          outcome = IF p = None THEN Outcome("MANUAL_REVIEW", "no match", lp)
                                ELSE Outcome("ACCEPTED", "matched", p)
    BY <1>6
  <2>2. p # None
    BY <2>1 DEF Outcome
  <2> QED
    BY <2>1, <2>2
<1>8. p \in reply.plates
  BY <1>7 DEF Matches
<1> QED
  BY <1>4, <1>7, <1>8 DEF Outcome

-----------------------------------------------------------------------------
(* The agents *)

\* The copies that are published of a result can be counted.
LEMMA CopiesCounted ==
  ASSUME PairingAssumption, TypeOK, NEW kind \in Kinds, NEW truck
  PROVE Cardinality(CopiesOf(kind, truck)) \in Nat
<1> DEFINE ResultsAt(g) == {topic[<<kind, g>>][i] : i \in DOMAIN topic[<<kind, g>>]}
           Places == {ResultsAt(g) : g \in Gates}
<1>1. ASSUME NEW g \in Gates PROVE IsFiniteSet(ResultsAt(g))
  <2>1. topic[<<kind, g>>] \in Seq(Results)
    BY DEF TypeOK, Topics
  <2>2. topic[<<kind, g>>] \in Surjection(1 .. Len(topic[<<kind, g>>]), ResultsAt(g))
    BY <2>1 DEF Surjection
  <2>3. Len(topic[<<kind, g>>]) \in Int
    BY <2>1
  <2>4. IsFiniteSet(1 .. Len(topic[<<kind, g>>]))
    BY <2>3, FS_Interval
  <2> QED
    BY <2>2, <2>4, FS_Surjection
<1>2. IsFiniteSet(Places)
  <2>1. [g \in Gates |-> ResultsAt(g)] \in Surjection(Gates, Places)
    BY DEF Surjection
  <2> HIDE DEF Places
  <2> QED
    BY <2>1, FS_Surjection DEF PairingAssumption
<1>3. All(kind) = UNION Places
  BY DEF All
<1>4. \A P \in Places : IsFiniteSet(P)
  BY <1>1
<1>5. IsFiniteSet(All(kind))
  <2> HIDE DEF Places
  <2> QED
    BY <1>2, <1>3, <1>4, FS_UNION
<1>6. CopiesOf(kind, truck) \in SUBSET All(kind)
  BY DEF CopiesOf
<1> QED
  BY <1>5, <1>6, FS_Subset, FS_CardinalityType

-----------------------------------------------------------------------------
(* One turn of the loop *)

\* The result in hand.
LEMMA TakenResult ==
  ASSUME TypeOK, OwnTopics, NEW t \in Topics, position[t] < Len(topic[t]),
         NEW r, r = topic[t][position[t] + 1]
  PROVE r \in Results /\ r.gate \in Gates
<1>1. position[t] + 1 \in 1 .. Len(topic[t])
  BY DEF TypeOK
<1>2. r \in Results
  BY <1>1 DEF TypeOK
<1> QED
  BY <1>2 DEF Results, ResultOf

\* The buffers after the result has been stored: each place holds what it held, nothing,
\* or the result that was taken.
LEMMA StoredResult ==
  ASSUME TypeOK, OwnBuffers, NEW r \in Results, NEW stored,
         stored = Stored(WithoutStale(buffer), r)
  PROVE /\ stored \in Buffers
        /\ \A k \in Kinds, key \in Keys :
             /\ OwnResult(stored[k][key], k, key)
             /\ key # Key(r.gate, r.truck) => stored[k][key] \in {buffer[k][key], None}
<1>1. buffer \in Buffers
  BY DEF TypeOK, Buffers
<1>2. WithoutStale(buffer) \in Buffers
  BY <1>1, DroppingKeeps
<1>3. ASSUME NEW k \in Kinds, NEW key \in Keys
      PROVE OwnResult(WithoutStale(buffer)[k][key], k, key)
  BY <1>1, DroppingKeeps DEF OwnBuffers, OwnResult
<1>4. ASSUME NEW k \in Kinds, NEW key \in Keys
      PROVE OwnResult(stored[k][key], k, key)
  BY <1>2, <1>3, StoringKeeps DEF OwnResult
<1>5. ASSUME NEW k \in Kinds, NEW key \in Keys, key # Key(r.gate, r.truck)
      PROVE stored[k][key] \in {buffer[k][key], None}
  BY <1>1, <1>2, <1>5, DroppingKeeps, StoringKeeps
<1> QED
  BY <1>2, <1>4, <1>5, StoringKeeps

\* A topic is still read in place, and every new place is set by a publication below.
LEMMA PublishingKeeps ==
  ASSUME PairingAssumption, PairingInv,
         NEW k \in Kinds, NEW g \in Gates, NEW t \in Trucks, AgentPublishes(k, g, t)
  PROVE PairingInv'
<1>1. UNCHANGED <<engine, expected, position, buffer, published, raised, restarts, hour>>
  BY DEF AgentPublishes
<1>a. PICK said \in Readings(k) : \E n :
        /\ topic' = [topic EXCEPT ![<<k, g>>] = Append(@, Result(k, g, t, said, n))]
        /\ n = Cardinality(CopiesOf(k, t)) /\ n < Copies
  BY DEF AgentPublishes
<1>2. PICK n : /\ topic' = [topic EXCEPT ![<<k, g>>] = Append(@, Result(k, g, t, said, n))]
               /\ n = Cardinality(CopiesOf(k, t)) /\ n < Copies
  BY <1>a
<1>3. n \in 0 .. Copies - 1
  BY <1>2, CopiesCounted DEF PairingInv, PairingAssumption
<1>4. Result(k, g, t, said, n) \in Results
  BY <1>3 DEF Result, Results, ResultOf, Kinds, PairingInv, TypeOK, Readings
<1>5. <<k, g>> \in Topics
  BY DEF Topics
<1>6. TypeOK'
  <2>1. topic \in [Topics -> Seq(Results)]
    BY DEF PairingInv, TypeOK
  <2>2. Append(topic[<<k, g>>], Result(k, g, t, said, n)) \in Seq(Results)
    BY <1>4, <1>5, <2>1
  <2>3. topic' \in [Topics -> Seq(Results)]
    BY <1>2, <2>1, <2>2
  <2> QED
    BY <1>1, <2>3 DEF PairingInv, TypeOK
<1>7. OwnTopics'
  <2> SUFFICES ASSUME NEW u \in Topics
               PROVE /\ position[u] <= Len(topic'[u])
                     /\ \A i \in DOMAIN topic'[u] :
                          topic'[u][i].kind = u[1] /\ topic'[u][i].gate = u[2]
    BY <1>1 DEF OwnTopics
  <2>1. CASE u = <<k, g>>
    <3>1. topic[u] \in Seq(Results) /\ position[u] \in Nat
      BY DEF PairingInv, TypeOK
    <3>2. topic'[u] = Append(topic[u], Result(k, g, t, said, n))
      BY <1>2, <1>5, <2>1 DEF PairingInv, TypeOK
    <3>3. ASSUME NEW i \in DOMAIN topic'[u]
          PROVE topic'[u][i].kind = u[1] /\ topic'[u][i].gate = u[2]
      <4>1. CASE i \in DOMAIN topic[u]
        BY <1>4, <3>1, <3>2, <4>1 DEF PairingInv, OwnTopics
      <4>2. CASE i = Len(topic[u]) + 1
        BY <1>4, <2>1, <3>1, <3>2, <4>2 DEF Result
      <4> QED
        BY <1>4, <3>1, <3>2, <4>1, <4>2
    <3>4. Len(topic'[u]) = Len(topic[u]) + 1
      BY <1>4, <3>1, <3>2
    <3> QED
      BY <3>1, <3>3, <3>4 DEF PairingInv, OwnTopics
  <2>2. CASE u # <<k, g>>
    BY <1>2, <2>2 DEF PairingInv, TypeOK, OwnTopics
  <2> QED
    BY <2>1, <2>2
<1>8. OwnBuffers' /\ DecidedFromItsOwnResults' /\ PairsAreDecided' /\ AcceptedAtItsGate'
  BY <1>1 DEF PairingInv, OwnBuffers, DecidedFromItsOwnResults, PairsAreDecided,
     AcceptedAtItsGate, Complete
<1> QED
  BY <1>6, <1>7, <1>8 DEF PairingInv

-----------------------------------------------------------------------------
(* The steps of the engine *)

\* Whatever the turn does, the buffers it leaves hold own results, and every complete pair
\* of another truck was there before.
LEMMA TakingKeeps ==
  ASSUME PairingInv, NEW t \in Topics, Take(t)
  PROVE PairingInv'
<1> DEFINE r == topic[t][position[t] + 1]
           stored == Stored(WithoutStale(buffer), r)
           place == Key(r.gate, r.truck)
<1>1. /\ position[t] < Len(topic[t])
      /\ position' = [position EXCEPT ![t] = @ + 1]
      /\ UNCHANGED <<engine, expected, topic, restarts, hour>>
  BY DEF Take
<1>2. r \in Results /\ r.gate \in Gates /\ place \in Keys
  <2>1. r \in Results /\ r.gate \in Gates
    BY <1>1, TakenResult DEF PairingInv
  <2> QED
    BY <2>1 DEF Results, ResultOf, Keys, Key
<1>3. stored \in Buffers
  BY <1>2, StoredResult DEF PairingInv
<1>4. \A k \in Kinds, key \in Keys :
        /\ OwnResult(stored[k][key], k, key)
        /\ key # place => stored[k][key] \in {buffer[k][key], None}
  BY <1>2, StoredResult DEF PairingInv
<1>5. OwnTopics' /\ position' \in [Topics -> Nat]
  <2> SUFFICES ASSUME NEW u \in Topics
               PROVE position'[u] <= Len(topic[u]) /\ position'[u] \in Nat
    BY <1>1 DEF PairingInv, OwnTopics, TypeOK
  <2> QED
    BY <1>1 DEF PairingInv, OwnTopics, TypeOK
<1> HIDE DEF r, stored, place
<1>6. \A key \in Keys : key # place /\ Complete(stored, key) => key \in raised
  BY <1>4 DEF Complete, Kinds, PairingInv, PairsAreDecided
<1>7. CASE buffer' = stored /\ ~Complete(stored, place) /\ UNCHANGED <<published, raised>>
  <2>1. TypeOK' /\ OwnBuffers'
    BY <1>1, <1>3, <1>4, <1>5, <1>7 DEF PairingInv, TypeOK, Buffers, OwnBuffers
  <2>2. PairsAreDecided'
    BY <1>6, <1>7 DEF PairsAreDecided
  <2> QED
    BY <1>1, <1>5, <1>7, <2>1, <2>2 DEF PairingInv, DecidedFromItsOwnResults, AcceptedAtItsGate
<1>8. CASE /\ buffer' = stored /\ raised' = raised \cup {place}
           /\ UNCHANGED published
  <2>1. TypeOK' /\ OwnBuffers'
    BY <1>1, <1>2, <1>3, <1>4, <1>5, <1>8 DEF PairingInv, TypeOK, Buffers, OwnBuffers
  <2>2. PairsAreDecided'
    BY <1>6, <1>8 DEF PairsAreDecided
  <2> QED
    BY <1>1, <1>5, <1>8, <2>1, <2>2 DEF PairingInv, DecidedFromItsOwnResults, AcceptedAtItsGate
<1>9. CASE /\ Complete(stored, place)
           /\ \E outcome \in Outcomes(r.gate, stored, place) :
                published' = Append(published, Publication(place, stored, outcome))
           /\ buffer' = Cleared(stored, place)
           /\ UNCHANGED raised
  <2>1. PICK outcome \in Outcomes(r.gate, stored, place) :
          published' = Append(published, Publication(place, stored, outcome))
    BY <1>9
  <2>2. /\ buffer' \in Buffers
        /\ \A k \in Kinds, key \in Keys :
             buffer'[k][key] = IF key = place THEN None ELSE stored[k][key]
    BY <1>2, <1>3, <1>9, ClearingKeeps
  <2>3. TypeOK' /\ OwnBuffers'
    <3>1. TypeOK'
      BY <1>1, <1>5, <1>9, <2>2 DEF PairingInv, TypeOK, Buffers
    <3>2. OwnBuffers'
      BY <1>4, <2>2 DEF OwnBuffers, OwnResult
    <3> QED
      BY <3>1, <3>2
  <2>4. PairsAreDecided'
    BY <1>6, <1>9, <2>2 DEF PairsAreDecided, Complete, Kinds
  <2>5. /\ Key(stored["lp"][place].gate, stored["lp"][place].truck) = place
        /\ Key(stored["hz"][place].gate, stored["hz"][place].truck) = place
    BY <1>2, <1>4, <1>9 DEF OwnResult, Complete, Kinds
  <2>6. DecidedFromItsOwnResults'
    BY <2>1, <2>5 DEF PairingInv, DecidedFromItsOwnResults, Publication, Key
  <2>7. stored["lp"][place].gate = r.gate
    BY <2>5 DEF place, Key
  <2>8. AcceptedAtItsGate'
    BY <1>1, <1>2, <2>1, <2>7, AcceptedWhatWasFound
       DEF PairingInv, AcceptedAtItsGate, Publication
  <2> QED
    BY <1>5, <2>3, <2>4, <2>6, <2>8 DEF PairingInv
<1> QED
  BY <1>7, <1>8, <1>9 DEF Take, Tries, r, stored, place

\* Dropping stale results, a restart and the clock complete no pair.
LEMMA OthersKeep ==
  ASSUME PairingAssumption, PairingInv, Idle \/ Restart \/ HourPasses \/ UNCHANGED vars
  PROVE PairingInv'
<1>1. buffer \in Buffers
  BY DEF PairingInv, TypeOK, Buffers
<1>2. CASE Idle
  <2>1. /\ buffer' \in Buffers
        /\ \A k \in Kinds, key \in Keys : buffer'[k][key] \in {buffer[k][key], None}
    BY <1>1, <1>2, DroppingKeeps DEF Idle
  <2>2. TypeOK'
    BY <1>2, <2>1 DEF Idle, PairingInv, TypeOK, Buffers
  <2>3. OwnBuffers' /\ PairsAreDecided'
    BY <1>2, <2>1 DEF Idle, PairingInv, OwnBuffers, OwnResult, PairsAreDecided, Complete, Kinds
  <2> QED
    BY <1>2, <2>2, <2>3
       DEF Idle, PairingInv, OwnTopics, DecidedFromItsOwnResults, AcceptedAtItsGate
<1>3. CASE Restart
  <2>1. buffer' \in Buffers /\ \A k \in Kinds, key \in Keys : buffer'[k][key] = None
    BY <1>3 DEF Restart, EmptyBuffers, Buffers
  <2>2. OwnBuffers' /\ PairsAreDecided'
    BY <2>1 DEF OwnBuffers, OwnResult, PairsAreDecided, Complete, Kinds
  <2>3. position' \in [Topics -> Nat] /\ OwnTopics'
    <3> SUFFICES ASSUME NEW t \in Topics
                 PROVE position'[t] \in Nat /\ position'[t] <= Len(topic[t])
      BY <1>3 DEF Restart, PairingInv, OwnTopics
    <3>1. topic[t] \in Seq(Results)
      BY DEF PairingInv, TypeOK
    <3> QED
      BY <1>3, <3>1 DEF Restart
  <2>4. restarts' \in 0 .. MaxRestarts
    BY <1>3 DEF Restart, PairingInv, TypeOK, PairingAssumption
  <2>5. TypeOK'
    BY <1>3, <2>1, <2>3, <2>4 DEF Restart, PairingInv, TypeOK, Buffers
  <2> QED
    BY <1>3, <2>2, <2>3, <2>5 DEF Restart, PairingInv, DecidedFromItsOwnResults,
       AcceptedAtItsGate
<1>4. CASE HourPasses
  <2>1. hour' \in 0 .. MaxHour
    BY <1>4 DEF HourPasses, PairingInv, TypeOK, PairingAssumption
  <2>2. TypeOK'
    BY <1>4, <2>1 DEF HourPasses, PairingInv, TypeOK
  <2> QED
    BY <1>4, <2>2 DEF HourPasses, PairingInv, OwnTopics, OwnBuffers, DecidedFromItsOwnResults,
       PairsAreDecided, AcceptedAtItsGate, Complete
<1>5. CASE UNCHANGED vars
  BY <1>5 DEF vars, PairingInv, TypeOK, OwnTopics, OwnBuffers, DecidedFromItsOwnResults,
     PairsAreDecided, AcceptedAtItsGate, Complete
<1> QED
  BY <1>2, <1>3, <1>4, <1>5

\* Nothing is published or waiting to begin with.
LEMMA PairingInit ==
  ASSUME PairingAssumption
  PROVE Init => PairingInv
<1> SUFFICES ASSUME Init PROVE PairingInv
  OBVIOUS
<1>1. \A k \in Kinds, key \in Keys : buffer[k][key] = None
  BY DEF Init, EmptyBuffers
<1>2. OwnBuffers /\ PairsAreDecided
  BY <1>1 DEF OwnBuffers, OwnResult, PairsAreDecided, Complete, Kinds
<1>3. TypeOK /\ OwnTopics
  BY DEF Init, PairingAssumption, TypeOK, OwnTopics, EmptyBuffers
<1> QED
  BY <1>2, <1>3 DEF Init, PairingInv, DecidedFromItsOwnResults, AcceptedAtItsGate

-----------------------------------------------------------------------------
(* The theorems *)

\* The invariant holds in whatever order results, copies, failures and restarts come.
THEOREM PairingInvariant ==
  ASSUME PairingAssumption
  PROVE Spec => []PairingInv
<1>1. PairingInv /\ [Next]_vars => PairingInv'
  BY PublishingKeeps, TakingKeeps, OthersKeep DEF Next
<1> QED
  BY PairingInit, <1>1, PTL DEF Spec

\* A decision is made of two results of the truck and the gate it names, however the
\* results of all trucks interleave (_try_process_truck).
THEOREM DecisionsAreOwn ==
  ASSUME PairingAssumption
  PROVE Spec => []DecidedFromItsOwnResults
<1>1. PairingInv => DecidedFromItsOwnResults
  BY DEF PairingInv
<1> QED
  BY PairingInvariant, <1>1, PTL

\* No order of arrival leaves both results of a truck waiting, unless publishing raised.
THEOREM NoPairIsLeft ==
  ASSUME PairingAssumption
  PROVE Spec => []PairsAreDecided
<1>1. PairingInv => PairsAreDecided
  BY DEF PairingInv
<1> QED
  BY PairingInvariant, <1>1, PTL

\* A truck is accepted at a gate only for a plate that is expected there.
THEOREM AcceptedOnlyWhereExpected ==
  ASSUME PairingAssumption
  PROVE Spec => []AcceptedAtItsGate
<1>1. PairingInv => AcceptedAtItsGate
  BY DEF PairingInv
<1> QED
  BY PairingInvariant, <1>1, PTL

-----------------------------------------------------------------------------
(* The matching of plates *)

\* n steps on the values of S, and what they make of a first value.
StepsOn(n, S) == [1 .. n -> [S -> S]]
IsRun(f, n, S, a, step) ==
  /\ f \in [0 .. n -> S]
  /\ f[0] = a /\ \A i \in 1 .. n : f[i] = step[i][f[i - 1]]

\* Steps, each from the value before it, have a run.
LEMMA StepsHaveARun ==
  ASSUME NEW n \in Nat, NEW S, NEW a \in S, NEW step \in StepsOn(n, S)
  PROVE \E f : IsRun(f, n, S, a, step)
<1>0. step \in [1 .. n -> [S -> S]]
  BY DEF StepsOn
<1> DEFINE Values(k) == \E f \in [0 .. k -> S] :
                          f[0] = a /\ \A i \in 1 .. k : f[i] = step[i][f[i - 1]]
           Without == {k \in 0 .. n : ~Values(k)}
<1>1. Values(0)
  <2> DEFINE f == [i \in 0 .. 0 |-> a]
  <2>1. f \in [0 .. 0 -> S] /\ f[0] = a
    OBVIOUS
  <2>2. \A i \in 1 .. 0 : f[i] = step[i][f[i - 1]]
    OBVIOUS
  <2> HIDE DEF f
  <2> QED
    BY <2>1, <2>2
<1>2. ASSUME NEW k \in 1 .. n, Values(k - 1) PROVE Values(k)
  <2>1. PICK f \in [0 .. k - 1 -> S] :
          f[0] = a /\ \A i \in 1 .. k - 1 : f[i] = step[i][f[i - 1]]
    BY <1>2
  <2> DEFINE g == [i \in 0 .. k |-> IF i = k THEN step[k][f[k - 1]] ELSE f[i]]
  <2>2. step[k][f[k - 1]] \in S
    <3>1. f[k - 1] \in S
      BY <2>1
    <3>2. step[k] \in [S -> S]
      BY <1>0
    <3> QED
      BY <3>1, <3>2
  <2>3. \A i \in 0 .. k : i # k => i \in 0 .. k - 1
    OBVIOUS
  <2>4. g \in [0 .. k -> S]
    BY <2>1, <2>2, <2>3
  <2>5. g[0] = a
    BY <2>1
  <2>6. \A i \in 1 .. k : g[i] = step[i][g[i - 1]]
    <3> TAKE i \in 1 .. k
    <3>1. i \in 0 .. k /\ i - 1 \in 0 .. k /\ i - 1 # k
      OBVIOUS
    <3>2. g[i - 1] = f[i - 1]
      BY <3>1
    <3>3. CASE i = k
      BY <3>1, <3>2, <3>3
    <3>4. CASE i # k
      <4>1. i \in 1 .. k - 1
        BY <3>4
      <4>2. g[i] = f[i]
        BY <3>1, <3>4
      <4> QED
        BY <2>1, <3>2, <4>1, <4>2
    <3> QED
      BY <3>3, <3>4
  <2> HIDE DEF g
  <2> QED
    BY <2>4, <2>5, <2>6
<1>3. Without = {}
  <2> SUFFICES ASSUME Without # {} PROVE FALSE
    OBVIOUS
  <2>1. Without \subseteq Nat
    OBVIOUS
  <2>2. PICK k \in Without : \A j \in Without : k <= j
    <3> HIDE DEF Without
    <3> QED
      BY <2>1, LeastOf
  <2>3. k \in 0 .. n /\ ~Values(k)
    OBVIOUS
  <2> HIDE DEF Values
  <2>4. k # 0
    BY <1>1, <2>3
  <2>5. k \in 1 .. n /\ k - 1 \in 0 .. n /\ k - 1 < k
    BY <2>3, <2>4
  <2>6. Values(k - 1)
    BY <2>2, <2>5
  <2> QED
    BY <1>2, <2>3, <2>5, <2>6
<1> HIDE DEF Values
<1>4. Values(n)
  BY <1>3
<1> QED
  BY <1>4 DEF Values, IsRun

\* The least of three numbers is one of them.
LEMMA LeastOfThree ==
  ASSUME NEW x \in Nat, NEW y \in Nat, NEW z \in Nat
  PROVE /\ Plate!Min({x, y, z}) \in Nat
        /\ Plate!Min({x, y, z}) <= z
<1>1. {x, y, z} \subseteq Nat
  OBVIOUS
<1>2. \E u \in {x, y, z} : \A v \in {x, y, z} : u <= v
  BY <1>1, LeastOf
<1>3. /\ Plate!Min({x, y, z}) \in {x, y, z}
      /\ \A v \in {x, y, z} : Plate!Min({x, y, z}) <= v
  BY <1>2 DEF Plate!Min
<1> QED
  BY <1>3

\* A row of edit distances: each is at most one more than the one before it in
\* the row before, and no more where the characters are the same.
LEMMA RowValues ==
  ASSUME NEW s, NEW t, NEW i \in Nat, Len(t) \in Nat,
         NEW previous \in [0 .. Len(t) -> Nat]
  PROVE LET row == Plate!NextRow(s, t, i, previous) IN
        /\ row \in [0 .. Len(t) -> Nat]
        /\ \A j \in 1 .. Len(t) :
             row[j] <= previous[j - 1] + (IF s[i] = t[j] THEN 0 ELSE 1)
<1> DEFINE m == Len(t)
           cost(j) == IF s[i] = t[j] THEN 0 ELSE 1
           least(j, x) == Plate!Min({previous[j] + 1, x + 1, previous[j - 1] + cost(j)})
           step == [j \in 1 .. m |-> [x \in Nat |-> least(j, x)]]
           row == Plate!NextRow(s, t, i, previous)
<1>1. \A j \in 1 .. m, x \in Nat :
        least(j, x) \in Nat /\ least(j, x) <= previous[j - 1] + cost(j)
  <2> TAKE j \in 1 .. m, x \in Nat
  <2>1. j \in 0 .. m /\ j - 1 \in 0 .. m
    OBVIOUS
  <2>2. previous[j] + 1 \in Nat /\ x + 1 \in Nat /\ previous[j - 1] + cost(j) \in Nat
    BY <2>1
  <2> HIDE DEF cost, m
  <2> QED
    BY <2>2, LeastOfThree
<1> HIDE DEF least
<1>2. step \in [1 .. m -> [Nat -> Nat]]
  BY <1>1
<1>3. PICK f \in [0 .. m -> Nat] :
        f[0] = i /\ \A j \in 1 .. m : f[j] = step[j][f[j - 1]]
  <2>1. m \in Nat /\ i \in Nat /\ step \in StepsOn(m, Nat)
    BY <1>2 DEF StepsOn
  <2> HIDE DEF step, m
  <2>2. \E f : IsRun(f, m, Nat, i, step)
    BY <2>1, StepsHaveARun
  <2> QED
    BY <2>2 DEF IsRun
<1>4. \A j \in 1 .. m : f[j] = least(j, f[j - 1])
  <2> TAKE j \in 1 .. m
  <2>1. f[j - 1] \in Nat
    OBVIOUS
  <2> QED
    BY <1>3, <2>1
<1>5. f = [j \in 0 .. m |-> IF j = 0 THEN i ELSE least(j, f[j - 1])]
  BY <1>3, <1>4
<1>6. row = [j \in 0 .. m |-> IF j = 0 THEN i ELSE least(j, row[j - 1])]
  <2>1. row = CHOOSE d : d = [j \in 0 .. m |-> IF j = 0 THEN i ELSE least(j, d[j - 1])]
    BY DEF Plate!NextRow, least
  <2> HIDE DEF row
  <2> QED
    BY <1>5, <2>1
<1> HIDE DEF row
<1>7. \A j \in 0 .. m : row[j] \in Nat
  <2> DEFINE Wild == {j \in 0 .. m : row[j] \notin Nat}
  <2> SUFFICES ASSUME Wild # {} PROVE FALSE
    OBVIOUS
  <2>1. Wild \subseteq Nat
    OBVIOUS
  <2>2. PICK j \in Wild : \A k \in Wild : j <= k
    <3> HIDE DEF Wild
    <3> QED
      BY <2>1, LeastOf
  <2>3. j \in 0 .. m /\ row[j] \notin Nat
    OBVIOUS
  <2>4. j # 0
    BY <1>6, <2>3
  <2>5. j \in 1 .. m /\ j - 1 \in 0 .. m /\ j - 1 < j
    BY <2>3, <2>4
  <2>6. row[j - 1] \in Nat
    BY <2>2, <2>5
  <2>7. row[j] = least(j, row[j - 1])
    BY <1>6, <2>3, <2>4
  <2> QED
    BY <1>1, <2>3, <2>5, <2>6, <2>7
<1>8. row \in [0 .. m -> Nat]
  BY <1>6, <1>7
<1>9. \A j \in 1 .. m : row[j] <= previous[j - 1] + cost(j)
  <2> TAKE j \in 1 .. m
  <2>1. row[j] = least(j, row[j - 1])
    BY <1>6
  <2>2. row[j - 1] \in Nat
    BY <1>7
  <2> QED
    BY <1>1, <2>1, <2>2
<1> QED
  BY <1>8, <1>9 DEF row

\* The table of distances: a row for each character.  Along its diagonal a distance
\* grows only where the words differ.
LEMMA TableValues ==
  ASSUME NEW s, NEW t, Len(s) \in Nat, Len(t) \in Nat
  PROVE /\ Plate!LastRow(s, t) \in [0 .. Len(t) -> Nat]
        /\ Len(s) = Len(t) =>
             Plate!LastRow(s, t)[Len(t)]
               <= Cardinality({k \in 1 .. Len(s) : s[k] # t[k]})
<1> DEFINE n == Len(s)
           m == Len(t)
           Rows == [0 .. m -> Nat]
           next(i, p) == Plate!NextRow(s, t, i, p)
           step == [i \in 1 .. n |-> [p \in Rows |-> next(i, p)]]
           first == Plate!FirstRow(t)
           apart(k) == {j \in 1 .. k : s[j] # t[j]}
           cost(j) == IF s[j] = t[j] THEN 0 ELSE 1
<1>0. n \in Nat /\ m \in Nat
  OBVIOUS
<1>1. first \in Rows /\ first[0] = 0
  BY DEF Plate!FirstRow
<1>2. \A i \in 1 .. n, p \in Rows :
        /\ next(i, p) \in Rows
        /\ \A j \in 1 .. m : next(i, p)[j] <= p[j - 1] + (IF s[i] = t[j] THEN 0 ELSE 1)
  <2> TAKE i \in 1 .. n, p \in Rows
  <2>1. i \in Nat
    OBVIOUS
  <2> QED
    BY <2>1, RowValues
<1> HIDE DEF next, first, Rows
<1>3. step \in [1 .. n -> [Rows -> Rows]]
  BY <1>2
<1>4. PICK f \in [0 .. n -> Rows] :
        f[0] = first /\ \A i \in 1 .. n : f[i] = step[i][f[i - 1]]
  <2>1. step \in StepsOn(n, Rows)
    BY <1>3 DEF StepsOn
  <2> HIDE DEF step, n
  <2>2. \E f : IsRun(f, n, Rows, first, step)
    BY <1>0, <1>1, <2>1, StepsHaveARun
  <2> QED
    BY <2>2 DEF IsRun
<1>5. \A i \in 1 .. n : f[i] = next(i, f[i - 1])
  <2> TAKE i \in 1 .. n
  <2>1. f[i - 1] \in Rows
    OBVIOUS
  <2> QED
    BY <1>4, <2>1
<1>6. f = [i \in 0 .. n |-> IF i = 0 THEN first ELSE next(i, f[i - 1])]
  BY <1>4, <1>5
<1> DEFINE grid == CHOOSE d :
             d = [i \in 0 .. n |-> IF i = 0 THEN first ELSE next(i, d[i - 1])]
<1>7. Plate!LastRow(s, t) = grid[n]
  BY DEF Plate!LastRow, next, first
<1>8. grid = [i \in 0 .. n |-> IF i = 0 THEN first ELSE next(i, grid[i - 1])]
  BY <1>6
<1> HIDE DEF grid
<1>9. \A i \in 0 .. n : grid[i] \in Rows
  <2> DEFINE Wild == {i \in 0 .. n : grid[i] \notin Rows}
  <2> SUFFICES ASSUME Wild # {} PROVE FALSE
    OBVIOUS
  <2>1. Wild \subseteq Nat
    OBVIOUS
  <2>2. PICK i \in Wild : \A k \in Wild : i <= k
    <3> HIDE DEF Wild
    <3> QED
      BY <2>1, LeastOf
  <2>3. i \in 0 .. n /\ grid[i] \notin Rows
    OBVIOUS
  <2>4. i # 0
    BY <1>1, <1>8, <2>3
  <2>5. i \in 1 .. n /\ i - 1 \in 0 .. n /\ i - 1 < i
    BY <2>3, <2>4
  <2>6. grid[i - 1] \in Rows
    BY <2>2, <2>5
  <2>7. grid[i] = next(i, grid[i - 1])
    BY <1>8, <2>3, <2>4
  <2> QED
    BY <1>2, <2>3, <2>5, <2>6, <2>7
<1>10. ASSUME n = m PROVE grid[n][m] <= Cardinality(apart(n))
  <2> DEFINE Far == {i \in 0 .. n : ~(grid[i][i] <= Cardinality(apart(i)))}
  <2>1. \A i \in 0 .. n : IsFiniteSet(apart(i)) /\ Cardinality(apart(i)) \in Nat
    <3> TAKE i \in 0 .. n
    <3>1. IsFiniteSet(1 .. i)
      BY FS_Interval
    <3>2. IsFiniteSet(apart(i))
      BY <3>1, FS_Subset
    <3> QED
      BY <3>2, FS_CardinalityType
  <2>2. \A i \in 1 .. n : Cardinality(apart(i)) = Cardinality(apart(i - 1)) + cost(i)
    <3> TAKE i \in 1 .. n
    <3>1. IsFiniteSet(apart(i - 1)) /\ i \notin apart(i - 1)
      BY <2>1
    <3>2. Cardinality(apart(i - 1)) \in Nat
      BY <2>1
    <3>3. CASE s[i] = t[i]
      <4>1. apart(i) = apart(i - 1)
        BY <3>3
      <4> HIDE DEF apart
      <4> QED
        BY <3>2, <3>3, <4>1
    <3>4. CASE s[i] # t[i]
      <4>1. apart(i) = apart(i - 1) \cup {i}
        BY <3>4
      <4> HIDE DEF apart
      <4>2. Cardinality(apart(i - 1) \cup {i}) = Cardinality(apart(i - 1)) + 1
        BY <3>1, FS_AddElement
      <4> QED
        BY <3>4, <4>1, <4>2
    <3> QED
      BY <3>3, <3>4
  <2>3. Far = {}
    <3> SUFFICES ASSUME Far # {} PROVE FALSE
      OBVIOUS
    <3>1. Far \subseteq Nat
      OBVIOUS
    <3>2. PICK i \in Far : \A k \in Far : i <= k
      <4> HIDE DEF Far
      <4> QED
        BY <3>1, LeastOf
    <3>3. i \in 0 .. n /\ ~(grid[i][i] <= Cardinality(apart(i)))
      OBVIOUS
    <3> HIDE DEF apart
    <3>4. grid[0][0] = 0 /\ Cardinality(apart(0)) \in Nat
      BY <1>0, <1>1, <1>8, <2>1
    <3>5. i # 0
      BY <3>3, <3>4
    <3>6. i \in 1 .. n /\ i - 1 \in 0 .. n /\ i - 1 < i
      BY <1>0, <3>3, <3>5
    <3>7. grid[i - 1][i - 1] <= Cardinality(apart(i - 1))
      BY <3>2, <3>6
    <3>8. grid[i] = next(i, grid[i - 1])
      BY <1>8, <3>3, <3>5
    <3>9. grid[i][i] <= grid[i - 1][i - 1] + cost(i)
      <4>1. i \in 1 .. m /\ grid[i - 1] \in Rows
        BY <1>9, <1>10, <3>6
      <4> QED
        BY <1>2, <3>6, <3>8, <4>1
    <3>10. /\ grid[i - 1][i - 1] \in Nat /\ grid[i][i] \in Nat
           /\ Cardinality(apart(i - 1)) \in Nat
      <4>1. grid[i - 1] \in Rows /\ grid[i] \in Rows
        BY <1>9, <3>3, <3>6
      <4>2. i \in 0 .. m /\ i - 1 \in 0 .. m
        BY <1>10, <3>3, <3>6
      <4> QED
        BY <2>1, <3>6, <4>1, <4>2 DEF Rows
    <3>11. Cardinality(apart(i)) = Cardinality(apart(i - 1)) + cost(i)
      BY <2>2, <3>6
    <3> QED
      BY <3>3, <3>7, <3>9, <3>10, <3>11
  <2> QED
    BY <1>0, <1>10, <2>3
<1> QED
  BY <1>0, <1>7, <1>9, <1>10 DEF Rows

\* The edit distance is a number, and words of one length are no farther apart than
\* the positions where they differ.
LEMMA DistanceBounds ==
  ASSUME NEW s, NEW t, Len(s) \in Nat, Len(t) \in Nat
  PROVE /\ Plate!Distance(s, t) \in Nat
        /\ Len(s) = Len(t) =>
             Plate!Distance(s, t) <= Cardinality({k \in 1 .. Len(s) : s[k] # t[k]})
<1>1. Plate!LastRow(s, t)[Len(t)] \in Nat /\ Plate!LastRow(t, s)[Len(s)] \in Nat
  <2>1. Plate!LastRow(s, t) \in [0 .. Len(t) -> Nat]
    BY TableValues
  <2>2. Plate!LastRow(t, s) \in [0 .. Len(s) -> Nat]
    BY TableValues
  <2>3. Len(s) \in 0 .. Len(s) /\ Len(t) \in 0 .. Len(t)
    OBVIOUS
  <2> QED
    BY <2>1, <2>2, <2>3
<1>2. Plate!Distance(s, t) \in Nat
  BY <1>1 DEF Plate!Distance
<1>3. Len(s) = Len(t) => Plate!Distance(s, t) = Plate!LastRow(s, t)[Len(t)]
  BY DEF Plate!Distance
<1> QED
  BY <1>2, <1>3, TableValues

\* An expansion is no farther from the word than its substitutions.
LEMMA ExpansionsAreNear ==
  ASSUME MaxSubstitutions \in 1 .. MaxDistance, MaxDistance \in Nat,
         NEW word \in Plate!PlatesOf, NEW e \in Plate!Expansions(word)
  PROVE Plate!Distance(word, e) <= MaxDistance
<1>1. PICK n \in 1 .. MaxLength : word \in [1 .. n -> Characters]
  BY DEF Plate!PlatesOf
<1>2. /\ DOMAIN word = 1 .. n /\ e \in [1 .. n -> Characters]
      /\ Plate!Differences(e, word) <= MaxSubstitutions
  BY <1>1 DEF Plate!Expansions, Plate!Limit
<1>3. Len(word) = n /\ Len(e) = n /\ n \in Nat
  BY <1>1, <1>2
<1> DEFINE apart == {k \in 1 .. n : word[k] # e[k]}
<1>4. Plate!Differences(e, word) = Cardinality(apart)
  <2>1. DOMAIN e = 1 .. n
    BY <1>2
  <2>2. {k \in DOMAIN e : e[k] # word[k]} = apart
    BY <2>1
  <2>3. Plate!Differences(e, word) = Plate!Cardinality(apart)
    BY <2>2 DEF Plate!Differences
  <2> HIDE DEF apart
  <2> QED
    BY <2>3 DEF Plate!Cardinality, Cardinality
<1>5. Plate!Distance(word, e) \in Nat /\ Plate!Distance(word, e) <= Cardinality(apart)
  BY <1>3, DistanceBounds
<1>6. Cardinality(apart) \in Nat
  <2>1. IsFiniteSet(1 .. n)
    BY <1>3, FS_Interval
  <2>2. IsFiniteSet(apart)
    BY <2>1, FS_Subset
  <2> QED
    BY <2>2, FS_CardinalityType
<1> HIDE DEF apart
<1> QED
  BY <1>2, <1>4, <1>5, <1>6

\* A plate is at no distance of itself.
LEMMA PlateIsNearItself ==
  ASSUME NEW word \in Plate!PlatesOf
  PROVE Plate!Distance(word, word) = 0
<1>1. PICK n \in 1 .. MaxLength : word \in [1 .. n -> Characters]
  BY DEF Plate!PlatesOf
<1>2. Len(word) \in Nat
  BY <1>1
<1>3. {k \in 1 .. Len(word) : word[k] # word[k]} = {}
  OBVIOUS
<1>4. Cardinality({}) = 0
  BY FS_EmptySet
<1>5. Plate!Distance(word, word) \in Nat /\ Plate!Distance(word, word) <= Cardinality({})
  BY <1>2, <1>3, DistanceBounds
<1> QED
  BY <1>4, <1>5

\* The search by distance finds a plate that is near when there is one, and no other.
LEMMA NearestIsNear ==
  ASSUME MaxDistance \in Nat, NEW word \in Plate!PlatesOf, NEW list \in Plate!Lists
  PROVE LET near == {p \in Plate!Range(list) : Plate!Distance(word, p) <= MaxDistance} IN
        /\ Plate!ByDistance(word, list) \subseteq near
        /\ near # {} => Plate!ByDistance(word, list) # {}
<1> DEFINE distance(i) == Plate!Distance(word, list[i])
           near == {i \in DOMAIN list : distance(i) <= MaxDistance}
           best == {i \in near : \A j \in near : distance(i) <= distance(j)}
           nearest == Plate!Min(best)
           nearPlates ==
             {p \in Plate!Range(list) : Plate!Distance(word, p) <= MaxDistance}
<1>1. Plate!ByDistance(word, list) = IF near = {} THEN {} ELSE {list[nearest]}
  BY DEF Plate!ByDistance
<1>2. PICK n \in 0 .. MaxListed : list \in [1 .. n -> Plate!PlatesOf]
  BY DEF Plate!Lists
<1>3. DOMAIN list = 1 .. n /\ n \in Nat /\ near \subseteq Nat
  BY <1>2
<1>4. \A i \in DOMAIN list : distance(i) \in Nat
  <2> TAKE i \in DOMAIN list
  <2>1. list[i] \in Plate!PlatesOf
    BY <1>2
  <2>2. Len(word) \in Nat /\ Len(list[i]) \in Nat
    BY <2>1 DEF Plate!PlatesOf
  <2> QED
    BY <2>2, DistanceBounds
<1>5. \A i \in DOMAIN list : i \in near <=> list[i] \in nearPlates
  BY DEF Plate!Range
<1>6. nearPlates # {} => near # {}
  BY DEF Plate!Range
<1>7. near # {} => nearest \in near
  <2> SUFFICES ASSUME near # {} PROVE nearest \in near
    OBVIOUS
  <2> DEFINE found == {distance(i) : i \in near}
  <2>1. found \subseteq Nat /\ found # {}
    BY <1>4
  <2>2. PICK d \in found : \A e \in found : d <= e
    <3> HIDE DEF found
    <3> QED
      BY <2>1, LeastOf
  <2>3. best # {}
    <3>1. PICK i \in near : d = distance(i)
      BY <2>2
    <3>2. \A j \in near : distance(i) <= distance(j)
      BY <2>2, <3>1
    <3> HIDE DEF near, distance
    <3> QED
      BY <3>2
  <2>4. best \subseteq Nat /\ best \subseteq near
    BY <1>3
  <2> HIDE DEF best
  <2>5. \E i \in best : \A j \in best : i <= j
    BY <2>3, <2>4, LeastOf
  <2>6. nearest \in best
    BY <2>5 DEF Plate!Min
  <2> QED
    BY <2>4, <2>6
<1>8. near # {} => list[nearest] \in nearPlates
  <2> HIDE DEF nearest, nearPlates
  <2>1. near \subseteq DOMAIN list
    OBVIOUS
  <2> HIDE DEF near
  <2> QED
    BY <1>5, <1>7, <2>1
<1> HIDE DEF near, nearest
<1>9. Plate!ByDistance(word, list) \subseteq nearPlates
  <2> HIDE DEF nearPlates
  <2> QED
    BY <1>1, <1>8
<1>10. nearPlates # {} => Plate!ByDistance(word, list) # {}
  BY <1>1, <1>6
<1> QED
  BY <1>9, <1>10

\* Whatever strategy answers, it finds a plate when one is near, and no other.
LEMMA MatchesAreNear ==
  ASSUME Plate!MatcherAssumption, MaxSubstitutions \in 1 .. MaxDistance,
         NEW word \in Plate!PlatesOf, NEW list \in Plate!Lists
  PROVE LET near == {p \in Plate!Range(list) : Plate!Distance(word, p) <= MaxDistance} IN
        /\ Plate!MatchPlate(word, list) \subseteq near
        /\ near # {} => Plate!MatchPlate(word, list) # {}
<1> DEFINE near == {p \in Plate!Range(list) : Plate!Distance(word, p) <= MaxDistance}
<1>1. MaxDistance \in Nat
  BY DEF Plate!MatcherAssumption
<1>2. Plate!Exact(word, list) \subseteq near
  <2>1. Plate!Distance(word, word) = 0
    BY PlateIsNearItself
  <2> QED
    BY <1>1, <2>1 DEF Plate!Exact
<1>3. Plate!ByConfusion(word, list) \subseteq near
  BY <1>1, ExpansionsAreNear DEF Plate!ByConfusion
<1>4. /\ Plate!ByDistance(word, list) \subseteq near
      /\ near # {} => Plate!ByDistance(word, list) # {}
  BY <1>1, NearestIsNear
<1> HIDE DEF near
<1>5. /\ Plate!MatchPlate(word, list) \subseteq near
      /\ near # {} => Plate!MatchPlate(word, list) # {}
  BY <1>2, <1>3, <1>4 DEF Plate!MatchPlate, Plate!Hybrid
<1> QED
  BY <1>5 DEF near

\* Matching an answer's plates: what was read and what is listed are plates.
MatchingInv ==
  part = "plate" =>
    reading \in Plate!PlatesOf /\ plates \in Plate!Lists /\ Plate!MatchedWhenNear

\* match_plate answers with a plate of the list within the accepted distance, whichever
\* of its three strategies finds it, and with none only when no plate is that near.
THEOREM MatchingInvariant ==
  ASSUME Plate!MatcherAssumption, MaxSubstitutions \in 1 .. MaxDistance
  PROVE SumSpec => []MatchingInv
<1>1. SumInit => MatchingInv
  BY DEF SumInit, MatchingInv, Plate!Init, Plate!MatchedWhenNear
<1>2. MatchingInv /\ [SumNext]_allVars => MatchingInv'
  <2> SUFFICES ASSUME MatchingInv, [SumNext]_allVars, part' = "plate" PROVE MatchingInv'
    BY DEF MatchingInv
  <2>1. part = "plate" /\ reading \in Plate!PlatesOf /\ plates \in Plate!Lists
    BY DEF MatchingInv, SumNext, allVars
  <2>2. CASE UNCHANGED <<reading, plates, answer>>
    BY <2>1, <2>2 DEF MatchingInv, Plate!MatchedWhenNear
  <2>3. CASE Plate!Answer
    <3> DEFINE found == Plate!MatchPlate(reading, plates)
               near ==
                 {p \in Plate!Range(plates) : Plate!Distance(reading, p) <= MaxDistance}
    <3>1. found \subseteq near /\ (near # {} => found # {})
      BY <2>1, MatchesAreNear
    <3>2. /\ reading' = reading /\ plates' = plates
          /\ answer' \in IF found = {} THEN {NoMatch} ELSE found
      BY <2>3 DEF Plate!Answer
    <3>3. Plate!MatchedWhenNear' <=>
            (answer' # Pending => IF near = {} THEN answer' = NoMatch ELSE answer' \in near)
      BY <3>2 DEF Plate!MatchedWhenNear
    <3> HIDE DEF found, near
    <3> QED
      BY <2>1, <3>1, <3>2, <3>3 DEF MatchingInv
  <2> QED
    BY <2>1, <2>2, <2>3 DEF SumNext, allVars, PlateVars, Plate!Next
<1> QED
  BY <1>1, <1>2, PTL DEF SumSpec

\* The matches of the run.
THEOREM MatchesAreOfNearPlates ==
  ASSUME Plate!MatcherAssumption, MaxSubstitutions \in 1 .. MaxDistance
  PROVE SumSpec => []MatchedWhenNear
<1>1. MatchingInv => MatchedWhenNear
  BY DEF MatchingInv, MatchedWhenNear
<1> QED
  BY <1>1, MatchingInvariant, PTL

-----------------------------------------------------------------------------
(* The realtime half of the API gateway *)

\* The latest of some trips is one of them, and none of them is later.
LEMMA LatestOf ==
  ASSUME Real!RealtimeAssumption, NEW S, S \subseteq Real!Trips, S # {}
  PROVE Real!Latest(S) \in S /\ \A t \in S : t <= Real!Latest(S)
<1>1. LastTrip \in Nat /\ S \subseteq 1 .. LastTrip
  BY DEF Real!RealtimeAssumption, Real!Trips
<1> DEFINE Left == {LastTrip - t : t \in S}
<1>2. Left \subseteq Nat /\ Left # {}
  <2>1. \A t \in S : t \in Int /\ LastTrip - t \in Nat
    BY <1>1
  <2> QED
    BY <2>1
<1>3. PICK x \in Left : \A y \in Left : x <= y
  <2> HIDE DEF Left
  <2> QED
    BY <1>2, LeastOf
<1>4. PICK t \in S : x = LastTrip - t
  BY <1>3
<1>5. \A u \in S : t >= u
  <2> TAKE u \in S
  <2>1. LastTrip - u \in Left
    OBVIOUS
  <2>2. LastTrip - t <= LastTrip - u
    BY <1>3, <1>4, <2>1
  <2>3. t \in Int /\ u \in Int
    BY <1>1
  <2> QED
    BY <1>1, <2>2, <2>3
<1>6. Real!Max(S) \in S /\ \A u \in S : Real!Max(S) >= u
  BY <1>5 DEF Real!Max
<1>7. \A u \in S : u \in Int
  BY <1>1
<1>8. \A u \in S : u <= Real!Max(S)
  BY <1>6, <1>7
<1> QED
  BY <1>6, <1>8 DEF Real!Latest

\* What the two sides choose: the latest of the active trips they saw, if there were any.
LatestChosen(c) ==
  /\ c.active \subseteq Real!Trips
  /\ c.active # {} => c.trip \in c.active /\ \A t \in c.active : t <= c.trip

LEMMA WarnedIsLatest ==
  ASSUME Real!RealtimeAssumption, today \subseteq Real!Trips
  PROVE LatestChosen([trip |-> Real!WarnedTrip, active |-> Real!Active(today)])
<1> DEFINE seen == Real!Active(today)
<1>1. seen \subseteq Real!Trips
  BY DEF Real!Active
<1>2. seen # {} => Real!WarnedTrip \in seen /\ \A t \in seen : t <= Real!WarnedTrip
  BY <1>1, LatestOf DEF Real!WarnedTrip
<1> HIDE DEF seen
<1> QED
  BY <1>1, <1>2 DEF LatestChosen, seen

\* The Data Module looks at the trips of every day, and chooses none when none is active.
LEMMA DataModuleIsLatest ==
  ASSUME Real!RealtimeAssumption
  PROVE /\ LatestChosen([trip |-> Real!DataModuleTrip, active |-> Real!Active(Real!Trips)])
        /\ Real!Active(Real!Trips) = {} => Real!DataModuleTrip = None
<1> DEFINE seen == Real!Active(Real!Trips)
<1>1. seen \subseteq Real!Trips
  BY DEF Real!Active
<1>2. seen # {} => Real!DataModuleTrip \in seen /\ \A t \in seen : t <= Real!DataModuleTrip
  BY <1>1, LatestOf DEF Real!DataModuleTrip
<1>3. seen = {} => Real!DataModuleTrip = None
  BY DEF Real!DataModuleTrip, Real!Latest
<1> HIDE DEF seen
<1> QED
  BY <1>1, <1>2, <1>3 DEF LatestChosen, seen

ChosenByDataModule(c) == LatestChosen(c) /\ (c.active = {} => c.trip = None)

ChoiceInv ==
  /\ today \subseteq Real!Trips
  /\ DOMAIN chosen = {"gateway", "dataModule"}
  /\ \A side \in {"gateway", "dataModule"} : DOMAIN chosen[side] = 1 .. MaxMessages
  /\ \A m \in 1 .. MaxMessages : LatestChosen(chosen["gateway"][m])
  /\ \A m \in 1 .. MaxMessages : ChosenByDataModule(chosen["dataModule"][m])

\* No trip is chosen to begin with.
LEMMA ChoiceInit ==
  ASSUME Real!RealtimeAssumption
  PROVE Real!Init => ChoiceInv
<1> SUFFICES ASSUME Real!Init PROVE ChoiceInv
  OBVIOUS
<1>1. /\ today \subseteq Real!Trips
      /\ DOMAIN chosen = {"gateway", "dataModule"}
      /\ \A side \in {"gateway", "dataModule"} :
           chosen[side] = [m \in 1 .. MaxMessages |-> Real!NotChosen]
  BY DEF Real!Init, Real!Trips, Real!RealtimeAssumption
<1>2. \A side \in {"gateway", "dataModule"}, m \in 1 .. MaxMessages :
        chosen[side][m] = Real!NotChosen
  BY <1>1
<1>3. ChosenByDataModule(Real!NotChosen) /\ LatestChosen(Real!NotChosen)
  BY DEF ChosenByDataModule, LatestChosen, Real!NotChosen
<1> QED
  BY <1>1, <1>2, <1>3 DEF ChoiceInv

\* Either side may choose for one message.
LEMMA ChoosingKeeps ==
  ASSUME Real!RealtimeAssumption, ChoiceInv, NEW k, UNCHANGED today,
         \/ chosen' = [chosen EXCEPT !["gateway"][k] =
                         [trip |-> Real!WarnedTrip, active |-> Real!Active(today)]]
         \/ chosen' = [chosen EXCEPT !["dataModule"][k] =
                         [trip |-> Real!DataModuleTrip, active |-> Real!Active(Real!Trips)]]
         \/ chosen' = chosen
  PROVE ChoiceInv'
<1> DEFINE ours == [trip |-> Real!WarnedTrip, active |-> Real!Active(today)]
           theirs == [trip |-> Real!DataModuleTrip, active |-> Real!Active(Real!Trips)]
<1>1. /\ today \subseteq Real!Trips
      /\ DOMAIN chosen = {"gateway", "dataModule"}
      /\ DOMAIN chosen["gateway"] = 1 .. MaxMessages
      /\ DOMAIN chosen["dataModule"] = 1 .. MaxMessages
  BY DEF ChoiceInv
<1>2. LatestChosen(ours)
  BY <1>1, WarnedIsLatest
<1>3. ChosenByDataModule(theirs)
  BY DataModuleIsLatest DEF ChosenByDataModule
<1> HIDE DEF ours, theirs
<1>4. \/ chosen' = [chosen EXCEPT !["gateway"][k] = ours]
      \/ chosen' = [chosen EXCEPT !["dataModule"][k] = theirs]
      \/ chosen' = chosen
  BY DEF ours, theirs
<1>5. /\ DOMAIN chosen' = {"gateway", "dataModule"}
      /\ DOMAIN chosen'["gateway"] = 1 .. MaxMessages
      /\ DOMAIN chosen'["dataModule"] = 1 .. MaxMessages
  BY <1>1, <1>4
<1>6. ASSUME NEW m \in 1 .. MaxMessages
      PROVE /\ chosen'["gateway"][m] \in {chosen["gateway"][m], ours}
            /\ chosen'["dataModule"][m] \in {chosen["dataModule"][m], theirs}
  BY <1>1, <1>4
<1>7. ASSUME NEW m \in 1 .. MaxMessages
      PROVE LatestChosen(chosen'["gateway"][m]) /\ ChosenByDataModule(chosen'["dataModule"][m])
  BY <1>2, <1>3, <1>6, <1>7 DEF ChoiceInv
<1>8. (today \subseteq Real!Trips)'
  BY <1>1 DEF Real!Trips
<1>9. \A m \in 1 .. MaxMessages : /\ LatestChosen(chosen["gateway"][m])'
                                  /\ ChosenByDataModule(chosen["dataModule"][m])'
  BY <1>7 DEF LatestChosen, ChosenByDataModule, Real!Trips
<1> QED
  BY <1>5, <1>8, <1>9 DEF ChoiceInv

\* The invariant holds however coroutines interleave and trips move, and whichever lookups
\* fail.
THEOREM ChoiceInvariant ==
  ASSUME Real!RealtimeAssumption
  PROVE Real!Spec => []ChoiceInv
<1>1. ChoiceInv /\ [Real!Next]_(Real!vars) => ChoiceInv'
  <2> SUFFICES ASSUME ChoiceInv, [Real!Next]_(Real!vars) PROVE ChoiceInv'
    OBVIOUS
  <2>1. CASE UNCHANGED <<today, chosen>>
    BY <2>1, ChoosingKeeps
  <2>2. CASE Real!Publish \/ Real!TripMoves \/ Real!Clients \/ Real!DataModuleFlags
             \/ Real!ConsumerLoop \/ UNCHANGED Real!vars
    BY <2>1, <2>2 DEF Real!Publish, Real!TripMoves, Real!Clients, Real!Accept, Real!Register,
       Real!Leave, Real!Forget, Real!quiet, Real!tables, Real!DataModuleFlags,
       Real!ConsumerLoop, Real!vars
  <2>3. CASE Real!DataModuleReads
    BY <2>3, ChoosingKeeps DEF Real!DataModuleReads, Real!tables
  <2>4. CASE Real!EventLoop
    <3>1. PICK t \in tasks : \/ Real!StartBroadcast(t) \/ Real!AskInfraction(t)
                             \/ Real!AskAccepted(t) \/ Real!StoreSpike(t)
                             \/ (\E s \in t.left : Real!SendOne(t, s))
                             \/ Real!Finish(t) \/ Real!LookupFails(t)
      BY <2>4 DEF Real!EventLoop
    <3>2. CASE Real!AskInfraction(t)
      <4>1. /\ UNCHANGED today
            /\ chosen' = [chosen EXCEPT !["gateway"][t.message] =
                            [trip |-> Real!WarnedTrip, active |-> Real!Active(today)]]
        BY ONLY <3>2, Zenon DEF Real!AskInfraction, Real!network, Real!tables
      <4> QED
        BY <4>1, ChoosingKeeps
    <3>3. CASE ~Real!AskInfraction(t)
      BY ONLY <2>1, <3>1, <3>3, Zenon DEF Real!StartBroadcast, Real!AskAccepted, Real!StoreSpike,
         Real!SendOne, Real!Finish, Real!LookupFails, Real!network, Real!tables
    <3> QED
      BY <3>2, <3>3
  <2> QED
    BY <2>2, <2>3, <2>4 DEF Real!Next
<1> QED
  BY ChoiceInit, <1>1, PTL DEF Real!Spec

\* When the trip that the Data Module chose for an infraction is among the active trips that
\* the gateway is shown, the gateway chooses it too, or a trip that became active since
\* (api_gateway.py, and update_appointment_after_infraction).
THEOREM SameTripIsSelected ==
  ASSUME Real!RealtimeAssumption
  PROVE Real!Spec => []Real!SelectsTheFlaggedTrip
<1>1. ChoiceInv => Real!SelectsTheFlaggedTrip
  <2> SUFFICES ASSUME ChoiceInv, NEW m \in 1 .. MaxMessages,
                      chosen["dataModule"][m].trip \in chosen["gateway"][m].active,
                      chosen["gateway"][m].trip \notin
                        chosen["gateway"][m].active \ chosen["dataModule"][m].active
               PROVE chosen["gateway"][m].trip = chosen["dataModule"][m].trip
    BY DEF Real!SelectsTheFlaggedTrip
  <2> DEFINE ours == chosen["gateway"][m]
             theirs == chosen["dataModule"][m]
  <2>1. LatestChosen(ours) /\ ChosenByDataModule(theirs)
    BY DEF ChoiceInv
  <2>2. None \notin Real!Trips /\ Real!Trips \subseteq Int
    BY DEF Real!RealtimeAssumption, Real!Trips
  <2> HIDE DEF ours, theirs
  <2>3. theirs.trip \in ours.active /\ ours.trip \notin ours.active \ theirs.active
    BY DEF ours, theirs
  <2>4. ours.trip \in ours.active /\ theirs.trip <= ours.trip
    BY <2>1, <2>3 DEF LatestChosen
  <2>5. ours.trip \in theirs.active /\ ours.trip <= theirs.trip
    BY <2>1, <2>3, <2>4 DEF LatestChosen, ChosenByDataModule
  <2>6. ours.trip \in Int /\ theirs.trip \in Int
    BY <2>1, <2>2, <2>3, <2>4 DEF LatestChosen
  <2> QED
    BY <2>4, <2>5, <2>6 DEF ours, theirs
<1> QED
  BY ChoiceInvariant, <1>1, PTL

-----------------------------------------------------------------------------
(* The rollups *)

\* The member of a set that a sum takes next, and the sums of what g gives to the
\* members of the sets in D.
AnyOf(s) == CHOOSE x \in s : TRUE
AreSums(F, g, D) ==
  F = [s \in SUBSET D |-> IF s = {} THEN 0 ELSE g[AnyOf(s)] + F[s \ {AnyOf(s)}]]

LEMMA AnyOfIsMember ==
  ASSUME NEW s, s # {}
  PROVE AnyOf(s) \in s
  BY DEF AnyOf

\* A set without one of its members is smaller.
LEMMA Smaller ==
  ASSUME NEW s, IsFiniteSet(s), NEW x \in s
  PROVE /\ IsFiniteSet(s \ {x})
        /\ Cardinality(s) \in Nat \ {0} /\ Cardinality(s \ {x}) = Cardinality(s) - 1
<1>1. IsFiniteSet(s \ {x}) /\ Cardinality(s \ {x}) = Cardinality(s) - 1
  BY FS_RemoveElement
<1>2. Cardinality(s) \in Nat /\ Cardinality(s \ {x}) \in Nat
  BY <1>1, FS_CardinalityType
<1> QED
  BY <1>1, <1>2

\* Sums of numbers are numbers, whatever order the members are taken in.
LEMMA SumsAreNumbers ==
  ASSUME NEW D, IsFiniteSet(D), NEW g \in [D -> Nat], NEW F, AreSums(F, g, D)
  PROVE \A s \in SUBSET D : F[s] \in Nat
<1> DEFINE Sizes == {Cardinality(s) : s \in {s \in SUBSET D : F[s] \notin Nat}}
<1>1. \A s \in SUBSET D : IsFiniteSet(s) /\ Cardinality(s) \in Nat
  BY FS_Subset, FS_CardinalityType
<1>2. Sizes \subseteq Nat
  BY <1>1
<1>3. SUFFICES ASSUME Sizes # {} PROVE FALSE
  OBVIOUS
<1>4. PICK n \in Sizes : \A k \in Sizes : n <= k
  <2> HIDE DEF Sizes
  <2> QED
    BY <1>2, <1>3, LeastOf
<1>5. PICK s \in SUBSET D : F[s] \notin Nat /\ n = Cardinality(s)
  OBVIOUS
<1>6. s # {}
  BY <1>5 DEF AreSums
<1> DEFINE x == AnyOf(s)
<1>7. x \in s /\ g[x] \in Nat
  BY <1>6, AnyOfIsMember
<1> HIDE DEF x
<1>8. F[s] = g[x] + F[s \ {x}]
  BY <1>6 DEF AreSums, x
<1>9. Cardinality(s) \in Nat /\ Cardinality(s \ {x}) = Cardinality(s) - 1
  BY <1>1, <1>7, Smaller
<1>10. F[s \ {x}] \in Nat
  <2>1. s \ {x} \in SUBSET D
    BY <1>5
  <2>2. F[s \ {x}] \notin Nat => Cardinality(s \ {x}) \in Sizes
    BY <2>1
  <2> HIDE DEF Sizes
  <2> QED
    BY <1>4, <1>5, <1>9, <2>2
<1> QED
  BY <1>5, <1>7, <1>8, <1>10

\* Any member may be taken first.
LEMMA AnyMemberFirst ==
  ASSUME NEW D, IsFiniteSet(D), NEW g \in [D -> Nat], NEW F, AreSums(F, g, D)
  PROVE \A s \in SUBSET D : \A x \in s : F[s] = g[x] + F[s \ {x}]
<1> DEFINE Wrong(s) == \E x \in s : F[s] # g[x] + F[s \ {x}]
           Sizes == {Cardinality(s) : s \in {s \in SUBSET D : Wrong(s)}}
<1>1. \A s \in SUBSET D : IsFiniteSet(s) /\ Cardinality(s) \in Nat
  BY FS_Subset, FS_CardinalityType
<1>2. Sizes \subseteq Nat
  BY <1>1
<1>3. SUFFICES ASSUME Sizes # {} PROVE FALSE
  OBVIOUS
<1>4. PICK n \in Sizes : \A k \in Sizes : n <= k
  <2> HIDE DEF Sizes
  <2> QED
    BY <1>2, <1>3, LeastOf
<1>5. PICK s \in SUBSET D : Wrong(s) /\ n = Cardinality(s)
  <2> HIDE DEF Wrong
  <2> QED
    OBVIOUS
<1>6. PICK x \in s : F[s] # g[x] + F[s \ {x}]
  BY <1>5
<1> DEFINE y == AnyOf(s)
<1>7. y \in s /\ F[s] = g[y] + F[s \ {y}]
  BY <1>6, AnyOfIsMember DEF AreSums
<1> HIDE DEF y
<1>8. y # x
  BY <1>6, <1>7
<1>9. ASSUME NEW u \in s, NEW v \in s, u # v
      PROVE F[s \ {u}] = g[v] + F[(s \ {u}) \ {v}]
  <2>1. s \ {u} \in SUBSET D /\ v \in s \ {u}
    BY <1>5, <1>9
  <2>2. Cardinality(s) \in Nat /\ Cardinality(s \ {u}) = Cardinality(s) - 1
    BY <1>1, Smaller
  <2>3. ~Wrong(s \ {u})
    <3>1. Wrong(s \ {u}) => Cardinality(s \ {u}) \in Sizes
      <4> HIDE DEF Wrong
      <4> QED
        BY <2>1
    <3> HIDE DEF Wrong, Sizes
    <3> QED
      BY <1>4, <1>5, <2>2, <3>1
  <2> QED
    BY <2>1, <2>3
<1>10. (s \ {x}) \ {y} = (s \ {y}) \ {x}
  OBVIOUS
<1> DEFINE rest == (s \ {y}) \ {x}
<1>11. F[s \ {y}] = g[x] + F[rest] /\ F[s \ {x}] = g[y] + F[rest]
  BY <1>7, <1>8, <1>9, <1>10
<1>12. g[x] \in Nat /\ g[y] \in Nat /\ F[rest] \in Nat
  <2>1. rest \in SUBSET D
    OBVIOUS
  <2> HIDE DEF rest
  <2> QED
    BY <1>5, <1>6, <1>7, <2>1, SumsAreNumbers
<1> HIDE DEF rest
<1> QED
  BY <1>6, <1>7, <1>11, <1>12

\* What is summed over fewer members, and gives each no more, is no more.
LEMMA SumsAreMonotone ==
  ASSUME NEW D, IsFiniteSet(D), NEW g \in [D -> Nat], NEW F, AreSums(F, g, D),
         NEW E, IsFiniteSet(E), NEW h \in [E -> Nat], NEW G, AreSums(G, h, E),
         D \subseteq E, \A x \in D : g[x] <= h[x]
  PROVE \A s \in SUBSET D, t \in SUBSET E : s \subseteq t => F[s] <= G[t]
<1> DEFINE Wrong(t) == \E s \in SUBSET D : s \subseteq t /\ ~(F[s] <= G[t])
           Sizes == {Cardinality(t) : t \in {t \in SUBSET E : Wrong(t)}}
<1>1. \A t \in SUBSET E : IsFiniteSet(t) /\ Cardinality(t) \in Nat
  BY FS_Subset, FS_CardinalityType
<1>2. Sizes \subseteq Nat
  <2> HIDE DEF Wrong
  <2> QED
    BY <1>1
<1>3. SUFFICES ASSUME Sizes # {} PROVE FALSE
  OBVIOUS
<1>4. PICK n \in Sizes : \A k \in Sizes : n <= k
  <2> HIDE DEF Sizes
  <2> QED
    BY <1>2, <1>3, LeastOf
<1>5. PICK t \in SUBSET E : Wrong(t) /\ n = Cardinality(t)
  <2> HIDE DEF Wrong
  <2> QED
    OBVIOUS
<1>6. PICK s \in SUBSET D : s \subseteq t /\ ~(F[s] <= G[t])
  BY <1>5
<1>7. (\A u \in SUBSET D : F[u] \in Nat) /\ (\A u \in SUBSET E : G[u] \in Nat)
  BY SumsAreNumbers
<1>8. t # {}
  <2> SUFFICES ASSUME t = {} PROVE FALSE
    OBVIOUS
  <2>1. s = {}
    BY <1>6
  <2>2. F[{}] = 0 /\ G[{}] = 0
    BY DEF AreSums
  <2> QED
    BY <1>6, <2>1, <2>2
<1> DEFINE x == AnyOf(t)
<1>9. x \in t
  BY <1>8, AnyOfIsMember
<1> HIDE DEF x
<1>10. G[t] = h[x] + G[t \ {x}] /\ t \ {x} \in SUBSET E
  BY <1>9, AnyMemberFirst
<1>11. \A u \in SUBSET D : u \subseteq t \ {x} => F[u] <= G[t \ {x}]
  <2>1. Cardinality(t) \in Nat /\ Cardinality(t \ {x}) = Cardinality(t) - 1
    BY <1>1, <1>9, Smaller
  <2>2. Wrong(t \ {x}) => Cardinality(t \ {x}) \in Sizes
    <3> HIDE DEF Wrong
    <3> QED
      BY <1>10
  <2>3. ~Wrong(t \ {x})
    <3> HIDE DEF Wrong, Sizes
    <3> QED
      BY <1>4, <1>5, <2>1, <2>2
  <2> QED
    BY <2>3
<1>12. h[x] \in Nat /\ G[t \ {x}] \in Nat
  BY <1>5, <1>7, <1>9, <1>10
<1>13. CASE x \in s
  <2>1. F[s] = g[x] + F[s \ {x}] /\ s \ {x} \in SUBSET D
    BY <1>13, AnyMemberFirst
  <2>2. F[s \ {x}] <= G[t \ {x}]
    BY <1>6, <1>11, <2>1
  <2>3. g[x] <= h[x] /\ g[x] \in Nat /\ F[s \ {x}] \in Nat
    BY <1>7, <1>13, <2>1
  <2> QED
    BY <1>6, <1>10, <1>12, <2>1, <2>2, <2>3
<1>14. CASE x \notin s
  <2>1. F[s] <= G[t \ {x}]
    BY <1>6, <1>11, <1>14
  <2> QED
    BY <1>6, <1>7, <1>10, <1>12, <2>1
<1> QED
  BY <1>13, <1>14

\* Numbers have sums.
LEMMA SumsExist ==
  ASSUME NEW D, IsFiniteSet(D), NEW g \in [D -> Nat]
  PROVE \E F : AreSums(F, g, D)
<1> DEFINE Summed(F, s) == IF s = {} THEN 0 ELSE g[AnyOf(s)] + F[s \ {AnyOf(s)}]
           SumsTo(n) == \E F \in [SUBSET D -> Nat] :
                          \A s \in SUBSET D : Cardinality(s) <= n => F[s] = Summed(F, s)
           Without == {n \in Nat : ~SumsTo(n)}
<1>1. \A s \in SUBSET D : IsFiniteSet(s) /\ Cardinality(s) \in Nat
  BY FS_Subset, FS_CardinalityType
<1>2. SumsTo(0)
  <2> DEFINE F == [s \in SUBSET D |-> 0]
  <2>1. \A s \in SUBSET D : Cardinality(s) <= 0 => s = {}
    BY <1>1, FS_EmptySet
  <2>2. /\ F \in [SUBSET D -> Nat]
        /\ \A s \in SUBSET D : Cardinality(s) <= 0 => F[s] = Summed(F, s)
    BY <2>1
  <2> HIDE DEF F, Summed
  <2> QED
    BY <2>2
<1>3. ASSUME NEW n \in Nat, SumsTo(n) PROVE SumsTo(n + 1)
  <2>1. PICK F \in [SUBSET D -> Nat] :
          \A s \in SUBSET D : Cardinality(s) <= n => F[s] = Summed(F, s)
    BY <1>3
  <2> DEFINE G == [s \in SUBSET D |-> Summed(F, s)]
  <2>2. \A s \in SUBSET D : s # {} => AnyOf(s) \in s /\ s \ {AnyOf(s)} \in SUBSET D
    BY AnyOfIsMember
  <2>3. \A s \in SUBSET D : Summed(F, s) \in Nat
    <3> TAKE s \in SUBSET D
    <3>1. CASE s = {}
      BY <3>1
    <3>2. CASE s # {}
      <4>1. g[AnyOf(s)] \in Nat /\ F[s \ {AnyOf(s)}] \in Nat
        BY <2>2, <3>2
      <4> QED
        BY <3>2, <4>1
    <3> QED
      BY <3>1, <3>2
  <2>4. ASSUME NEW s \in SUBSET D, Cardinality(s) <= n + 1 PROVE G[s] = Summed(G, s)
    <3>1. CASE s = {}
      BY <3>1
    <3>2. CASE s # {}
      <4> DEFINE rest == s \ {AnyOf(s)}
      <4>1. rest \in SUBSET D /\ Cardinality(rest) <= n
        <5>1. AnyOf(s) \in s
          BY <2>2, <3>2
        <5>2. Cardinality(s) \in Nat /\ Cardinality(rest) = Cardinality(s) - 1
          BY <1>1, <5>1, Smaller
        <5> QED
          BY <2>4, <5>2
      <4>2. F[rest] = G[rest]
        <5> HIDE DEF rest, Summed
        <5> QED
          BY <2>1, <4>1
      <4> QED
        BY <3>2, <4>2
    <3> QED
      BY <3>1, <3>2
  <2>5. G \in [SUBSET D -> Nat]
    <3> HIDE DEF Summed
    <3> QED
      BY <2>3
  <2> HIDE DEF G, Summed
  <2> QED
    BY <2>4, <2>5
<1>4. Without = {}
  <2> SUFFICES ASSUME Without # {} PROVE FALSE
    OBVIOUS
  <2>1. Without \subseteq Nat
    OBVIOUS
  <2>2. PICK n \in Without : \A k \in Without : n <= k
    <3> HIDE DEF Without
    <3> QED
      BY <2>1, LeastOf
  <2> HIDE DEF SumsTo
  <2>3. n \in Nat /\ ~SumsTo(n)
    OBVIOUS
  <2>4. n # 0
    BY <1>2, <2>3
  <2>5. n - 1 \in Nat /\ n - 1 < n /\ (n - 1) + 1 = n
    BY <2>3, <2>4
  <2>6. SumsTo(n - 1)
    BY <2>2, <2>5
  <2> QED
    BY <1>3, <2>3, <2>5, <2>6
<1>5. Cardinality(D) \in Nat /\ \A s \in SUBSET D : Cardinality(s) <= Cardinality(D)
  BY <1>1, FS_Subset
<1>6. PICK F \in [SUBSET D -> Nat] :
        \A s \in SUBSET D : Cardinality(s) <= Cardinality(D) => F[s] = Summed(F, s)
  <2> HIDE DEF Summed
  <2>1. SumsTo(Cardinality(D))
    <3> HIDE DEF SumsTo
    <3> QED
      BY <1>4, <1>5
  <2> QED
    BY <2>1
<1>7. F = [s \in SUBSET D |-> Summed(F, s)]
  <2> HIDE DEF Summed
  <2> QED
    BY <1>5, <1>6
<1> QED
  BY <1>7 DEF AreSums

\* SumOver adds what f gives to the members of S.
LEMMA SumOverAdds ==
  ASSUME NEW S, IsFiniteSet(S), NEW f, \A x \in S : f[x] \in Nat
  PROVE \E F : AreSums(F, [x \in S |-> f[x]], S) /\ Rolls!SumOver(f, S) = F[S]
<1> DEFINE g == [x \in S |-> f[x]]
           F == CHOOSE F : AreSums(F, f, S)
<1>1. \A G : AreSums(G, f, S) <=> AreSums(G, g, S)
  <2>1. \A s \in SUBSET S : s # {} => f[AnyOf(s)] = g[AnyOf(s)]
    BY AnyOfIsMember
  <2> HIDE DEF g
  <2> QED
    BY <2>1 DEF AreSums
<1>2. \E G : AreSums(G, g, S)
  BY SumsExist
<1>3. AreSums(F, g, S)
  <2> HIDE DEF g
  <2> QED
    BY <1>1, <1>2
<1>4. Rolls!SumOver(f, S) = F[S]
  BY DEF Rolls!SumOver, Rolls!MapThenSumSet, Rolls!MapThenFoldSet, AnyOf, AreSums
<1> HIDE DEF F
<1> QED
  BY <1>3, <1>4

\* A sum over fewer members, each with no more, is no more; over the same, the same.
LEMMA SumOverIsMonotone ==
  ASSUME NEW S, NEW T, IsFiniteSet(T), S \subseteq T, NEW f, NEW k,
         \A x \in S : f[x] \in Nat, \A x \in T : k[x] \in Nat, \A x \in S : f[x] <= k[x]
  PROVE Rolls!SumOver(f, S) \in Nat /\ Rolls!SumOver(f, S) <= Rolls!SumOver(k, T)
<1> DEFINE g == [x \in S |-> f[x]]
           h == [x \in T |-> k[x]]
<1>1. IsFiniteSet(S) /\ g \in [S -> Nat] /\ h \in [T -> Nat] /\ \A x \in S : g[x] <= h[x]
  BY FS_Subset
<1>2. PICK F : AreSums(F, g, S) /\ Rolls!SumOver(f, S) = F[S]
  BY <1>1, SumOverAdds
<1>3. PICK G : AreSums(G, h, T) /\ Rolls!SumOver(k, T) = G[T]
  BY SumOverAdds
<1> HIDE DEF g, h
<1>4. F[S] <= G[T] /\ F[S] \in Nat
  BY <1>1, <1>2, <1>3, SumsAreMonotone, SumsAreNumbers
<1> QED
  BY <1>2, <1>3, <1>4

LEMMA SumOverSame ==
  ASSUME NEW S, IsFiniteSet(S), NEW f, NEW k, \A x \in S : f[x] \in Nat /\ k[x] = f[x]
  PROVE Rolls!SumOver(f, S) = Rolls!SumOver(k, S)
<1>1. \A x \in S : f[x] \in Nat /\ k[x] \in Nat /\ f[x] <= k[x] /\ k[x] <= f[x]
  OBVIOUS
<1>2. Rolls!SumOver(f, S) \in Nat /\ Rolls!SumOver(f, S) <= Rolls!SumOver(k, S)
  BY <1>1, SumOverIsMonotone
<1>3. Rolls!SumOver(k, S) \in Nat /\ Rolls!SumOver(k, S) <= Rolls!SumOver(f, S)
  BY <1>1, SumOverIsMonotone
<1> QED
  BY <1>2, <1>3

\* Whole days and the hours of a day.
LEMMA Division ==
  ASSUME NEW a \in Int, NEW b \in Nat \ {0}
  PROVE /\ a \div b \in Int /\ a % b \in Int /\ 0 <= a % b /\ a % b < b
        /\ a = b * (a \div b) + (a % b)
  OBVIOUS

LEMMA ProductsGrow ==
  ASSUME NEW b \in Nat \ {0}, NEW x \in Int, NEW y \in Int, x <= y
  PROVE b * x <= b * y
  OBVIOUS

\* A later hour is not of an earlier day.
LEMMA DaysGrow ==
  ASSUME NEW b \in Nat \ {0}, NEW a \in Int, NEW c \in Int, a <= c
  PROVE a \div b <= c \div b
<1> DEFINE p == a \div b
           q == c \div b
<1>1. p \in Int /\ q \in Int /\ b * p <= a /\ c < b * q + b
  BY Division
<1> HIDE DEF p, q
<1>2. SUFFICES ASSUME q + 1 <= p PROVE FALSE
  BY <1>1 DEF p, q
<1>3. b * (q + 1) <= b * p
  BY <1>1, <1>2, ProductsGrow
<1>4. b * (q + 1) = b * q + b
  BY <1>1
<1> QED
  BY <1>1, <1>3, <1>4

\* A document of an hour or a day that is over at hour "at".
IsOver(t, at) ==
  /\ t.do = "hour" => t.bucket \in Int /\ t.bucket < at
  /\ t.do = "day" => t.bucket \in Int /\ t.bucket < Rolls!DayOf(at)
\* A pass of the aggregator computes documents of hours and days that are over.
IsPass(w, at) == \E S : w \in Seq(S) /\ \A t \in S : IsOver(t, at)

Counters == [RolledGates -> [Rolls!Hours -> Nat]]
RollTypes ==
  /\ clock \in Nat /\ entered \in Counters /\ detected \in Counters /\ prompt \in Counters
  /\ \A g \in RolledGates : \A h \in Rolls!Hours : prompt[g][h] <= entered[g][h]
  /\ DOMAIN hourly = RolledGates /\ DOMAIN daily = RolledGates
  /\ \A g \in RolledGates : DOMAIN hourly[g] = Rolls!Hours /\ DOMAIN daily[g] = Rolls!Days
  /\ tripsOf \in [Companies -> SUBSET (0 .. clock)]
  /\ DOMAIN snapshot = Companies

\* A document is of an hour or a day that is over: the visits committed in their hour were
\* all there when it counted, and what has been committed since only adds to the rows.
HoursAreRight ==
  \A g \in RolledGates : \A h \in Rolls!Hours : hourly[g][h] # None =>
    /\ h < clock /\ hourly[g][h].entries \in prompt[g][h] .. entered[g][h]
    /\ hourly[g][h].detections \in Nat /\ hourly[g][h].detections <= detected[g][h]
DaysAreRight ==
  \A g \in RolledGates : \A d \in Rolls!Days : daily[g][d] # None =>
    /\ d < Rolls!DayOf(clock)
    /\ daily[g][d].entries \in Rolls!SumOver(prompt[g], Rolls!HoursOf(d))
                                 .. Rolls!SumOver(entered[g], Rolls!HoursOf(d))
    /\ daily[g][d].detections <= Rolls!SumOver(detected[g], Rolls!HoursOf(d))
    /\ daily[g][d].detections \in Nat
SnapshotsAreRight ==
  \A s \in Companies : snapshot[s] # None => snapshot[s] \in 1 .. Cardinality(tripsOf[s])

RollupInv ==
  RollTypes /\ HoursAreRight /\ DaysAreRight /\ SnapshotsAreRight /\ IsPass(work, clock)

-----------------------------------------------------------------------------
(* Passes *)

LEMMA HoursOfADay ==
  ASSUME Rolls!StatisticsAssumption, NEW d
  PROVE /\ IsFiniteSet(Rolls!Hours) /\ IsFiniteSet(Rolls!HoursOf(d))
        /\ Rolls!HoursOf(d) \subseteq Rolls!Hours /\ Rolls!Hours \subseteq Nat
<1>1. IsFiniteSet(Rolls!Hours) /\ Rolls!Hours \subseteq Nat
  <2>1. LastHour \in Nat
    BY DEF Rolls!StatisticsAssumption
  <2> QED
    BY <2>1, FS_Interval DEF Rolls!Hours
<1>2. Rolls!HoursOf(d) \subseteq Rolls!Hours
  BY DEF Rolls!HoursOf
<1> QED
  BY <1>1, <1>2, FS_Subset

\* The hours of a day that is over are over.
LEMMA OverDays ==
  ASSUME Rolls!StatisticsAssumption, NEW at \in Nat,
         NEW d, d < Rolls!DayOf(at), NEW h \in Rolls!HoursOf(d)
  PROVE h < at
<1>1. HoursPerDay \in Nat \ {0} /\ h \in Nat /\ Rolls!DayOf(h) = d
  BY HoursOfADay DEF Rolls!StatisticsAssumption, Rolls!HoursOf
<1>2. Rolls!DayOf(h) \in Int /\ Rolls!DayOf(at) \in Int
  BY <1>1, Division DEF Rolls!DayOf
<1>3. at <= h => Rolls!DayOf(at) <= Rolls!DayOf(h)
  BY <1>1, DaysGrow DEF Rolls!DayOf
<1> QED
  BY <1>1, <1>2, <1>3

LEMMA PassesStayPast ==
  ASSUME Rolls!StatisticsAssumption, NEW w, NEW a \in Nat, NEW b \in Nat, a <= b, IsPass(w, a)
  PROVE IsPass(w, b)
<1>1. Rolls!DayOf(a) <= Rolls!DayOf(b) /\ Rolls!DayOf(a) \in Int /\ Rolls!DayOf(b) \in Int
  BY DaysGrow, Division DEF Rolls!DayOf, Rolls!StatisticsAssumption
<1>2. \A t : IsOver(t, a) => IsOver(t, b)
  BY <1>1 DEF IsOver
<1> QED
  BY <1>2 DEF IsPass

LEMMA JoinedPasses ==
  ASSUME NEW v, NEW w, NEW at, IsPass(v, at), IsPass(w, at)
  PROVE IsPass(v \o w, at)
<1>1. PICK S : v \in Seq(S) /\ \A t \in S : IsOver(t, at)
  BY DEF IsPass
<1>2. PICK T : w \in Seq(T) /\ \A t \in T : IsOver(t, at)
  BY DEF IsPass
<1>3. v \in Seq(S \cup T) /\ w \in Seq(S \cup T)
  BY <1>1, <1>2
<1>4. v \o w \in Seq(S \cup T)
  BY <1>3
<1> QED
  BY <1>1, <1>2, <1>4 DEF IsPass

LEMMA NoPass ==
  ASSUME NEW at
  PROVE IsPass(<<>>, at)
<1> DEFINE S == {}
<1>1. \A t \in S : IsOver(t, at)
  OBVIOUS
<1> HIDE DEF S
<1>2. <<>> \in Seq(S)
  OBVIOUS
<1> QED
  BY <1>1, <1>2 DEF IsPass

LEMMA RestOfAPass ==
  ASSUME NEW w, NEW at, IsPass(w, at), w # <<>>
  PROVE IsPass(Tail(w), at) /\ IsOver(Head(w), at)
<1>1. PICK S : w \in Seq(S) /\ \A t \in S : IsOver(t, at)
  BY DEF IsPass
<1>2. Tail(w) \in Seq(S) /\ Head(w) \in S
  BY <1>1
<1> QED
  BY <1>1, <1>2 DEF IsPass

LEMMA OneStep ==
  ASSUME NEW t, NEW at, IsOver(t, at)
  PROVE IsPass(<<t>>, at)
<1> DEFINE S == {t}
<1>1. t \in S /\ \A u \in S : IsOver(u, at)
  OBVIOUS
<1> HIDE DEF S
<1>2. <<t>> \in Seq(S)
  BY <1>1
<1> QED
  BY <1>1, <1>2 DEF IsPass

\* The documents of buckets that are over.
LEMMA DocumentsAreOver ==
  ASSUME Rolls!StatisticsAssumption, NEW at \in Nat, NEW what \in {"hour", "day"},
         NEW buckets, Len(buckets) \in Nat,
         \A i \in 1 .. Len(buckets) :
           /\ buckets[i] \in Int
           /\ IF what = "hour" THEN buckets[i] < at ELSE buckets[i] < Rolls!DayOf(at)
  PROVE IsPass(Rolls!Documents(what, buckets), at)
<1> DEFINE n == Len(buckets) * Rolls!Cardinality(RolledGates)
           docs == Rolls!Documents(what, buckets)
           S == {docs[k] : k \in 1 .. n}
<1>1. Rolls!Cardinality(RolledGates) \in Nat
  <2>1. Cardinality(RolledGates) \in Nat
    BY FS_CardinalityType DEF Rolls!StatisticsAssumption, Rolls!IsFiniteSet, IsFiniteSet
  <2> QED
    BY <2>1 DEF Rolls!Cardinality, Cardinality
<1> DEFINE c == Rolls!Cardinality(RolledGates)
<1>2. n \in Nat
  <2> HIDE DEF c
  <2> QED
    BY <1>1 DEF c
<1>3. docs = [k \in 1 .. n |-> [do |-> what, of |-> Rolls!GateOrder[1 + ((k - 1) % c)],
                               bucket |-> buckets[1 + ((k - 1) \div c)]]]
  BY DEF Rolls!Documents
<1>4. docs \in Seq(S)
  <2>1. docs = [k \in 1 .. n |-> docs[k]]
    BY <1>3
  <2> HIDE DEF docs, n
  <2> QED
    BY <1>2, <2>1
<1> HIDE DEF c
<1>5. \A k \in 1 .. n : 1 + ((k - 1) \div c) \in 1 .. Len(buckets)
  <2> TAKE k \in 1 .. n
  <2>1. c # 0
    BY <1>1, <1>2 DEF c
  <2>2. c \in Nat \ {0}
    BY <1>1, <2>1 DEF c
  <2> DEFINE q == (k - 1) \div c
             l == Len(buckets)
  <2>3. q \in Int /\ c * q <= k - 1 /\ k - 1 < c * q + c
    BY <1>2, <2>2, Division
  <2>4. k - 1 < c * l /\ 0 <= k - 1
    BY <1>2, <2>2 DEF c
  <2> HIDE DEF q
  <2>5. q < l
    <3>1. SUFFICES ASSUME l <= q PROVE FALSE
      BY <2>3
    <3>2. c * l <= c * q
      BY <2>2, <2>3, <3>1, ProductsGrow
    <3> QED
      BY <1>2, <2>2, <2>3, <2>4, <3>2
  <2>6. 0 <= q
    <3>1. SUFFICES ASSUME q + 1 <= 0 PROVE FALSE
      BY <2>3
    <3>2. c * (q + 1) <= c * 0
      BY <2>2, <2>3, <3>1, ProductsGrow
    <3>3. c * (q + 1) = c * q + c /\ c * 0 = 0
      BY <2>2, <2>3
    <3> QED
      BY <1>2, <2>2, <2>3, <2>4, <3>2, <3>3
  <2> QED
    BY <2>3, <2>5, <2>6 DEF q
<1>6. \A t \in S : IsOver(t, at)
  <2> TAKE t \in S
  <2>1. PICK k \in 1 .. n : t = docs[k]
    OBVIOUS
  <2> HIDE DEF docs, n
  <2>2. PICK i \in 1 .. Len(buckets) : t.do = what /\ t.bucket = buckets[i]
    BY <1>3, <1>5, <2>1
  <2> QED
    BY <2>2 DEF IsOver
<1> HIDE DEF S, docs
<1> QED
  BY <1>4, <1>6 DEF IsPass, docs

LEMMA CyclesAreOver ==
  ASSUME Rolls!StatisticsAssumption, NEW at \in Nat
  PROVE IsPass(Rolls!Cycle(Rolls!PreviousHour(at)), at)
<1> DEFINE last == at - 1
           dayBefore == Rolls!DayOf(last - HoursPerDay)
           snapshots == [k \in 1 .. Rolls!Cardinality(Companies) |->
             [do |-> "snapshot", of |-> Rolls!CompanyOrder[k], bucket |-> None]]
<1>1. Rolls!Cycle(Rolls!PreviousHour(at))
        = Rolls!Hourly(<<last>>) \o Rolls!Daily(<<dayBefore>>) \o snapshots
  BY DEF Rolls!Cycle, Rolls!PreviousHour
<1>2. IsPass(Rolls!Hourly(<<last>>), at)
  <2>1. Len(<<last>>) = 1 /\ <<last>>[1] = last /\ last \in Int /\ last < at
    OBVIOUS
  <2>2. \A i \in 1 .. Len(<<last>>) : <<last>>[i] \in Int /\ <<last>>[i] < at
    BY <2>1
  <2> QED
    BY <2>1, <2>2, DocumentsAreOver DEF Rolls!Hourly
<1>3. IsPass(Rolls!Daily(<<dayBefore>>), at)
  <2>1. dayBefore \in Int /\ dayBefore < Rolls!DayOf(at)
    <3>1. HoursPerDay \in Nat \ {0}
      BY DEF Rolls!StatisticsAssumption
    <3> DEFINE p == (last - HoursPerDay) \div HoursPerDay
               q == at \div HoursPerDay
    <3>2. /\ p \in Int /\ q \in Int
          /\ HoursPerDay * p <= last - HoursPerDay /\ at < HoursPerDay * q + HoursPerDay
      BY <3>1, Division
    <3> HIDE DEF p, q
    <3>3. SUFFICES ASSUME q <= p PROVE FALSE
      BY <3>2 DEF p, q, Rolls!DayOf
    <3>4. HoursPerDay * q <= HoursPerDay * p
      BY <3>1, <3>2, <3>3, ProductsGrow
    <3>5. HoursPerDay * q \in Int /\ HoursPerDay * p \in Int
      BY <3>1, <3>2
    <3> QED
      BY <3>1, <3>2, <3>4, <3>5
  <2> HIDE DEF dayBefore
  <2>2. Len(<<dayBefore>>) = 1 /\ <<dayBefore>>[1] = dayBefore
    OBVIOUS
  <2>3. \A i \in 1 .. Len(<<dayBefore>>) :
          <<dayBefore>>[i] \in Int /\ <<dayBefore>>[i] < Rolls!DayOf(at)
    BY <2>1, <2>2
  <2> QED
    BY <2>2, <2>3, DocumentsAreOver DEF Rolls!Daily
<1>4. IsPass(snapshots, at)
  <2>1. Rolls!Cardinality(Companies) \in Nat
    <3>1. Cardinality(Companies) \in Nat
      BY FS_CardinalityType DEF Rolls!StatisticsAssumption, Rolls!IsFiniteSet, IsFiniteSet
    <3> QED
      BY <3>1 DEF Rolls!Cardinality, Cardinality
  <2> DEFINE n == Rolls!Cardinality(Companies)
             S == {snapshots[k] : k \in 1 .. n}
  <2>2. \A t \in S : t.do = "snapshot"
    OBVIOUS
  <2>3. snapshots = [k \in 1 .. n |-> snapshots[k]]
    OBVIOUS
  <2> HIDE DEF snapshots, n
  <2>4. snapshots \in Seq(S)
    BY <2>1, <2>3 DEF n
  <2> HIDE DEF S
  <2> QED
    BY <2>2, <2>4 DEF IsPass, IsOver
<1> HIDE DEF snapshots, last, dayBefore
<1>5. IsPass(Rolls!Hourly(<<last>>) \o Rolls!Daily(<<dayBefore>>), at)
  BY <1>2, <1>3, JoinedPasses
<1> QED
  BY <1>1, <1>4, <1>5, JoinedPasses

LEMMA BackfillsAreOver ==
  ASSUME Rolls!StatisticsAssumption, clock \in Nat
  PROVE IsPass(Rolls!Backfill, clock)
<1> DEFINE thisDay == Rolls!DayOf(clock)
           days == [i \in 1 .. DailyHorizon |-> thisDay - i]
           hours == [i \in 1 .. HourlyHorizon * HoursPerDay |->
             (thisDay - 1 - (i - 1) \div HoursPerDay) * HoursPerDay
               + ((i - 1) % HoursPerDay)]
<1>1. /\ HoursPerDay \in Nat \ {0} /\ DailyHorizon \in Nat /\ HourlyHorizon \in Nat
      /\ HourlyHorizon * HoursPerDay \in Nat
  BY DEF Rolls!StatisticsAssumption
<1>2. thisDay \in Int /\ HoursPerDay * thisDay <= clock
  BY <1>1, Division DEF Rolls!DayOf
<1>3. IsPass(Rolls!Daily(days), clock)
  <2> HIDE DEF thisDay
  <2>1. Len(days) = DailyHorizon
    BY <1>1
  <2>2. \A i \in 1 .. DailyHorizon : days[i] \in Int /\ days[i] < thisDay
    BY <1>1, <1>2
  <2> HIDE DEF days
  <2> QED
    BY <1>1, <2>1, <2>2, DocumentsAreOver DEF Rolls!Daily, thisDay
<1>4. IsPass(Rolls!Hourly(hours), clock)
  <2> HIDE DEF thisDay
  <2>1. Len(hours) = HourlyHorizon * HoursPerDay
    BY <1>1
  <2>2. ASSUME NEW i \in 1 .. HourlyHorizon * HoursPerDay
        PROVE hours[i] \in Int /\ hours[i] < clock
    <3> DEFINE back == (i - 1) \div HoursPerDay
               rest == (i - 1) % HoursPerDay
    <3>1. i \in Int /\ 0 <= i - 1
      BY <1>1
    <3>2. /\ back \in Int /\ rest \in Int /\ 0 <= rest /\ rest < HoursPerDay
          /\ i - 1 = HoursPerDay * back + rest
      BY <1>1, <3>1, Division
    <3>3. hours[i] = (thisDay - 1 - back) * HoursPerDay + rest
      OBVIOUS
    <3> HIDE DEF back, rest, hours
    <3>4. 0 <= back
      <4>1. SUFFICES ASSUME back + 1 <= 0 PROVE FALSE
        BY <3>2
      <4>2. HoursPerDay * (back + 1) <= HoursPerDay * 0
        BY <1>1, <3>2, <4>1, ProductsGrow
      <4>3. HoursPerDay * (back + 1) = HoursPerDay * back + HoursPerDay
        BY <1>1, <3>2
      <4>4. HoursPerDay * 0 = 0
        BY <1>1
      <4> QED
        BY <1>1, <3>1, <3>2, <4>2, <4>3, <4>4
    <3>5. HoursPerDay * (thisDay - 1 - back) <= HoursPerDay * (thisDay - 1)
      BY <1>1, <1>2, <3>2, <3>4, ProductsGrow
    <3>6. HoursPerDay * (thisDay - 1) = HoursPerDay * thisDay - HoursPerDay
      BY <1>1, <1>2
    <3>7. (thisDay - 1 - back) * HoursPerDay = HoursPerDay * (thisDay - 1 - back)
      BY <1>1, <1>2, <3>2
    <3>8. HoursPerDay * (thisDay - 1 - back) \in Int /\ HoursPerDay * thisDay \in Int
      BY <1>1, <1>2, <3>2
    <3> QED
      BY <1>1, <1>2, <3>2, <3>3, <3>5, <3>6, <3>7, <3>8
  <2> HIDE DEF hours
  <2>3. \A i \in 1 .. Len(hours) : hours[i] \in Int /\ hours[i] < clock
    BY <2>1, <2>2
  <2> QED
    BY <1>1, <2>1, <2>3, DocumentsAreOver DEF Rolls!Hourly
<1>5. IsPass(Rolls!NewSession, clock)
  <2> DEFINE t == [do |-> "new session", of |-> None, bucket |-> None]
  <2>1. IsOver(t, clock)
    BY DEF IsOver
  <2> HIDE DEF t
  <2>2. IsPass(<<t>>, clock)
    BY <2>1, OneStep
  <2> QED
    BY <2>2 DEF Rolls!NewSession, t
<1>6. IsPass(Rolls!Daily(days) \o Rolls!Hourly(hours) \o Rolls!NewSession, clock)
  <2> HIDE DEF days, hours
  <2>1. IsPass(Rolls!Daily(days) \o Rolls!Hourly(hours), clock)
    BY <1>3, <1>4, JoinedPasses
  <2> QED
    BY <1>5, <2>1, JoinedPasses
<1>7. Rolls!Backfill = IF Rolls!Covered THEN <<>>
                       ELSE Rolls!Daily(days) \o Rolls!Hourly(hours) \o Rolls!NewSession
  BY DEF Rolls!Backfill
<1> HIDE DEF days, hours
<1> QED
  BY <1>6, <1>7, NoPass

-----------------------------------------------------------------------------
(* The rollups are right: one lemma per kind of step *)

LEMMA RollupInit ==
  ASSUME Rolls!StatisticsAssumption, Rolls!Init
  PROVE RollupInv
<1>1. FirstHour \in Nat /\ LastHour \in Nat /\ FirstHour - 1 \in 0 .. FirstHour
  <2>1. /\ FirstHour \in Nat /\ LastHour \in Nat /\ HoursPerDay \in Nat \ {0}
        /\ DailyHorizon \in Nat /\ FirstHour >= HoursPerDay * DailyHorizon + 1
    BY DEF Rolls!StatisticsAssumption
  <2>2. HoursPerDay * DailyHorizon \in Nat
    BY <2>1
  <2> QED
    BY <2>1, <2>2
<1>2. RollTypes
  <2>1. \A h \in Rolls!Hours : h % 2 \in Nat
    BY <1>1 DEF Rolls!Hours
  <2>2. entered \in Counters
    BY <2>1 DEF Rolls!Init, Counters
  <2>3. detected \in Counters
    BY DEF Rolls!Init, Counters
  <2>4. tripsOf \in [Companies -> SUBSET (0 .. clock)]
    BY <1>1 DEF Rolls!Init
  <2>5. prompt \in Counters
        /\ \A g \in RolledGates : \A h \in Rolls!Hours : prompt[g][h] <= entered[g][h]
    <3>1. prompt = entered
      BY DEF Rolls!Init
    <3>2. \A g \in RolledGates : \A h \in Rolls!Hours : entered[g][h] \in Nat
      BY <2>2 DEF Counters
    <3> QED
      BY <2>2, <3>1, <3>2
  <2> QED
    BY <1>1, <2>2, <2>3, <2>4, <2>5 DEF RollTypes, Rolls!Init
<1>3. HoursAreRight /\ DaysAreRight /\ SnapshotsAreRight
  BY DEF Rolls!Init, HoursAreRight, DaysAreRight, SnapshotsAreRight
<1>4. IsPass(work, clock)
  BY NoPass DEF Rolls!Init
<1> QED
  BY <1>2, <1>3, <1>4 DEF RollupInv

\* Counting one more at one place, if there is such a place.
LEMMA CountedOnce ==
  ASSUME NEW c \in Counters, NEW g \in RolledGates, NEW x,
         NEW d, d = [c EXCEPT ![g][x] = @ + 1]
  PROVE /\ d \in Counters
        /\ \A k \in RolledGates, h \in Rolls!Hours : d[k][h] \in {c[k][h], c[k][h] + 1}
        /\ \A k \in RolledGates, h \in Rolls!Hours : h # x => d[k][h] = c[k][h]
<1> DEFINE row == [c[g] EXCEPT ![x] = @ + 1]
<1>1. c[g] \in [Rolls!Hours -> Nat]
  BY DEF Counters
<1>2. row = [h \in Rolls!Hours |-> IF h = x THEN c[g][h] + 1 ELSE c[g][h]]
  BY <1>1
<1>3. row \in [Rolls!Hours -> Nat]
  <2>1. \A h \in Rolls!Hours : c[g][h] \in Nat /\ c[g][h] + 1 \in Nat
    BY <1>1
  <2> HIDE DEF row
  <2> QED
    BY <1>2, <2>1
<1>4. d = [k \in RolledGates |-> IF k = g THEN row ELSE c[k]]
  BY DEF Counters
<1> HIDE DEF row
<1>5. d \in Counters
  BY <1>3, <1>4 DEF Counters
<1>6. \A k \in RolledGates, h \in Rolls!Hours :
        /\ d[k][h] \in {c[k][h], c[k][h] + 1}
        /\ h # x => d[k][h] = c[k][h]
  <2> TAKE k \in RolledGates, h \in Rolls!Hours
  <2>1. CASE k = g
    BY <1>2, <1>4, <2>1
  <2>2. CASE k # g
    BY <1>4, <2>2
  <2> QED
    BY <2>1, <2>2
<1> QED
  BY <1>5, <1>6

\* A visit is committed in its hour, which no document is of yet, or after it: then it is
\* not among those that a document must hold.
LEMMA EnteringKeeps ==
  ASSUME Rolls!StatisticsAssumption, RollupInv, NEW g \in RolledGates, Rolls!Enter(g)
  PROVE RollupInv'
<1>1. PICK x \in {clock - 1, clock} :
        /\ entered' = [entered EXCEPT ![g][x] = @ + 1]
        /\ prompt' = IF x = clock THEN [prompt EXCEPT ![g][x] = @ + 1] ELSE prompt
  BY DEF Rolls!Enter
<1>2. UNCHANGED <<detected, tripsOf, clock, hourly, daily, snapshot, work>>
  BY DEF Rolls!Enter, Rolls!TrafficKeeps, Rolls!rollups
<1>3. RollTypes
  BY DEF RollupInv
<1>4. entered' \in Counters /\ prompt' \in Counters
  BY <1>1, <1>3, CountedOnce DEF RollTypes
<1>5. ASSUME NEW k \in RolledGates, NEW h \in Rolls!Hours
      PROVE /\ entered[k][h] \in Nat /\ entered'[k][h] \in Nat
            /\ prompt[k][h] \in Nat /\ prompt'[k][h] \in Nat
            /\ entered[k][h] <= entered'[k][h] /\ prompt'[k][h] <= entered'[k][h]
            /\ h < clock => prompt'[k][h] = prompt[k][h]
  <2>1. /\ entered[k][h] \in Nat /\ entered'[k][h] \in Nat
        /\ prompt[k][h] \in Nat /\ prompt'[k][h] \in Nat /\ prompt[k][h] <= entered[k][h]
    BY <1>3, <1>4 DEF RollTypes, Counters
  <2>2. entered'[k][h] = IF k = g /\ h = x THEN entered[k][h] + 1 ELSE entered[k][h]
    <3>1. entered \in Counters /\ entered' = [entered EXCEPT ![g][x] = @ + 1]
      BY <1>1, <1>3 DEF RollTypes
    <3>2. entered[g] \in [Rolls!Hours -> Nat]
      BY <3>1 DEF Counters
    <3>3. entered'[k] = IF k = g THEN [entered[g] EXCEPT ![x] = @ + 1] ELSE entered[k]
      BY <3>1 DEF Counters
    <3> QED
      BY <3>2, <3>3
  <2>3. \/ prompt'[k][h] = prompt[k][h]
        \/ prompt'[k][h] = prompt[k][h] + 1 /\ x = clock /\ k = g /\ h = x
    BY <1>1, <1>3, CountedOnce DEF RollTypes
  <2>4. clock \in Nat /\ h \in Nat
    BY <1>3, HoursOfADay DEF RollTypes
  <2> QED
    BY <2>1, <2>2, <2>3, <2>4
<1>6. RollTypes'
  BY <1>2, <1>3, <1>4, <1>5 DEF RollTypes
<1>7. HoursAreRight'
  <2> SUFFICES ASSUME NEW k \in RolledGates, NEW h \in Rolls!Hours, hourly[k][h] # None
               PROVE /\ h < clock /\ hourly[k][h].entries \in prompt'[k][h] .. entered'[k][h]
                     /\ hourly[k][h].detections \in Nat
                     /\ hourly[k][h].detections <= detected[k][h]
    BY <1>2 DEF HoursAreRight
  <2>1. /\ h < clock /\ hourly[k][h].entries \in prompt[k][h] .. entered[k][h]
        /\ hourly[k][h].detections \in Nat /\ hourly[k][h].detections <= detected[k][h]
    BY DEF RollupInv, HoursAreRight
  <2> QED
    BY <1>5, <2>1
<1>8. DaysAreRight'
  <2> SUFFICES ASSUME NEW k \in RolledGates, NEW d \in Rolls!Days, daily[k][d] # None
               PROVE daily[k][d].entries \in Rolls!SumOver(prompt'[k], Rolls!HoursOf(d))
                                              .. Rolls!SumOver(entered'[k], Rolls!HoursOf(d))
    BY <1>2 DEF RollupInv, DaysAreRight
  <2>1. /\ d < Rolls!DayOf(clock)
        /\ daily[k][d].entries \in Rolls!SumOver(prompt[k], Rolls!HoursOf(d))
                                     .. Rolls!SumOver(entered[k], Rolls!HoursOf(d))
    BY DEF RollupInv, DaysAreRight
  <2>2. IsFiniteSet(Rolls!HoursOf(d)) /\ Rolls!HoursOf(d) \subseteq Rolls!Hours
    BY HoursOfADay
  <2>3. \A h \in Rolls!HoursOf(d) : h < clock
    BY <1>3, <2>1, OverDays DEF RollTypes
  <2>4. Rolls!SumOver(prompt[k], Rolls!HoursOf(d)) = Rolls!SumOver(prompt'[k], Rolls!HoursOf(d))
    <3>1. \A h \in Rolls!HoursOf(d) : prompt[k][h] \in Nat /\ prompt'[k][h] = prompt[k][h]
      BY <1>5, <2>2, <2>3
    <3> QED
      BY <2>2, <3>1, SumOverSame
  <2>5. /\ Rolls!SumOver(entered[k], Rolls!HoursOf(d)) \in Nat
        /\ Rolls!SumOver(entered[k], Rolls!HoursOf(d))
             <= Rolls!SumOver(entered'[k], Rolls!HoursOf(d))
        /\ Rolls!SumOver(entered'[k], Rolls!HoursOf(d)) \in Nat
        /\ Rolls!SumOver(prompt[k], Rolls!HoursOf(d)) \in Nat
    <3>1. \A h \in Rolls!HoursOf(d) :
            /\ entered[k][h] \in Nat /\ entered'[k][h] \in Nat /\ prompt[k][h] \in Nat
            /\ entered[k][h] <= entered'[k][h] /\ entered'[k][h] <= entered'[k][h]
            /\ prompt[k][h] <= prompt[k][h]
      BY <1>5, <2>2
    <3> QED
      BY <2>2, <3>1, SumOverIsMonotone
  <2> QED
    BY <2>1, <2>4, <2>5
<1> QED
  BY <1>2, <1>6, <1>7, <1>8 DEF RollupInv, SnapshotsAreRight

\* Detections only grow.
LEMMA DetectingKeeps ==
  ASSUME Rolls!StatisticsAssumption, RollupInv, NEW g \in RolledGates, Rolls!Detect(g)
  PROVE RollupInv'
<1>1. PICK x : detected' = [detected EXCEPT ![g][x] = @ + 1]
  BY DEF Rolls!Detect
<1>2. UNCHANGED <<entered, prompt, tripsOf, clock, hourly, daily, snapshot, work>>
  BY DEF Rolls!Detect, Rolls!TrafficKeeps, Rolls!rollups
<1>3. RollTypes
  BY DEF RollupInv
<1>4. RollTypes'
  <2>1. detected' \in Counters
    BY <1>1, <1>3, CountedOnce DEF RollTypes
  <2> QED
    BY <1>2, <1>3, <2>1 DEF RollTypes
<1>5. \A k \in RolledGates : \A h \in Rolls!Hours :
        detected[k][h] \in Nat /\ detected'[k][h] \in Nat /\ detected[k][h] <= detected'[k][h]
  <2>1. \A k \in RolledGates, h \in Rolls!Hours : detected[k][h] \in Nat
    BY <1>3 DEF RollTypes, Counters
  <2>2. \A k \in RolledGates, h \in Rolls!Hours :
          detected'[k][h] \in {detected[k][h], detected[k][h] + 1}
    BY <1>1, <1>3, CountedOnce DEF RollTypes
  <2> QED
    BY <2>1, <2>2
<1>6. HoursAreRight'
  <2> SUFFICES ASSUME NEW k \in RolledGates, NEW h \in Rolls!Hours, hourly[k][h] # None
               PROVE hourly[k][h].detections <= detected'[k][h]
    BY <1>2 DEF RollupInv, HoursAreRight
  <2>1. hourly[k][h].detections \in Nat /\ hourly[k][h].detections <= detected[k][h]
    BY DEF RollupInv, HoursAreRight
  <2> QED
    BY <1>5, <2>1
<1>7. DaysAreRight'
  <2> SUFFICES ASSUME NEW k \in RolledGates, NEW d \in Rolls!Days, daily[k][d] # None
               PROVE daily[k][d].detections
                       <= Rolls!SumOver(detected'[k], Rolls!HoursOf(d))
    BY <1>2 DEF RollupInv, DaysAreRight
  <2>1. /\ daily[k][d].detections \in Nat
        /\ daily[k][d].detections <= Rolls!SumOver(detected[k], Rolls!HoursOf(d))
    BY DEF RollupInv, DaysAreRight
  <2>2. IsFiniteSet(Rolls!HoursOf(d)) /\ Rolls!HoursOf(d) \subseteq Rolls!Hours
    BY HoursOfADay
  <2>3. \A h \in Rolls!HoursOf(d) :
          detected[k][h] \in Nat /\ detected'[k][h] \in Nat /\ detected[k][h] <= detected'[k][h]
    BY <1>5, <2>2
  <2>4. /\ Rolls!SumOver(detected[k], Rolls!HoursOf(d)) \in Nat
        /\ Rolls!SumOver(detected[k], Rolls!HoursOf(d))
             <= Rolls!SumOver(detected'[k], Rolls!HoursOf(d))
    BY <2>2, <2>3, SumOverIsMonotone
  <2>5. Rolls!SumOver(detected'[k], Rolls!HoursOf(d)) \in Nat
    BY <2>2, <2>3, SumOverIsMonotone
  <2> QED
    BY <2>1, <2>4, <2>5
<1> QED
  BY <1>2, <1>4, <1>6, <1>7 DEF RollupInv, SnapshotsAreRight

\* Trips are only added.
LEMMA TrippingKeeps ==
  ASSUME RollupInv, NEW s \in Companies, Rolls!Trip(s)
  PROVE RollupInv'
<1>1. /\ tripsOf' = [tripsOf EXCEPT ![s] = @ \cup {clock}]
      /\ UNCHANGED <<detected, entered, prompt, clock, hourly, daily, snapshot, work>>
  BY DEF Rolls!Trip, Rolls!TrafficKeeps, Rolls!rollups
<1>2. RollTypes
  BY DEF RollupInv
<1>3. tripsOf' \in [Companies -> SUBSET (0 .. clock)]
  BY <1>1, <1>2 DEF RollTypes
<1>4. RollTypes'
  BY <1>1, <1>2, <1>3 DEF RollTypes
<1>5. SnapshotsAreRight'
  <2> SUFFICES ASSUME NEW r \in Companies, snapshot[r] # None
               PROVE snapshot[r] \in 1 .. Cardinality(tripsOf'[r])
    BY <1>1 DEF SnapshotsAreRight
  <2>1. snapshot[r] \in 1 .. Cardinality(tripsOf[r])
    BY DEF RollupInv, SnapshotsAreRight
  <2>2. IsFiniteSet(tripsOf'[r]) /\ tripsOf[r] \subseteq tripsOf'[r]
    <3>1. IsFiniteSet(0 .. clock)
      BY <1>2, FS_Interval DEF RollTypes
    <3>2. tripsOf'[r] \subseteq 0 .. clock /\ tripsOf[r] \subseteq tripsOf'[r]
      BY <1>1, <1>2, <1>3 DEF RollTypes
    <3> QED
      BY <3>1, <3>2, FS_Subset
  <2>3. /\ Cardinality(tripsOf[r]) \in Nat /\ Cardinality(tripsOf'[r]) \in Nat
        /\ Cardinality(tripsOf[r]) <= Cardinality(tripsOf'[r])
    BY <2>2, FS_Subset, FS_CardinalityType
  <2> QED
    BY <2>1, <2>3
<1> QED
  BY <1>1, <1>4, <1>5 DEF RollupInv, HoursAreRight, DaysAreRight

\* What is over stays over.
LEMMA RollTickKeeps ==
  ASSUME Rolls!StatisticsAssumption, RollupInv, Rolls!Tick
  PROVE RollupInv'
<1>1. /\ clock' = clock + 1
      /\ UNCHANGED <<entered, detected, prompt, tripsOf, hourly, daily, snapshot, work>>
  BY DEF Rolls!Tick, Rolls!traffic, Rolls!rollups
<1>2. RollTypes
  BY DEF RollupInv
<1>3. clock \in Nat /\ clock' \in Nat /\ clock <= clock'
  BY <1>1, <1>2 DEF RollTypes
<1>4. RollTypes'
  <2>1. 0 .. clock \subseteq 0 .. clock'
    BY <1>1, <1>3
  <2>2. tripsOf' \in [Companies -> SUBSET (0 .. clock')]
    BY <1>1, <1>2, <2>1 DEF RollTypes
  <2> QED
    BY <1>1, <1>2, <1>3, <2>2 DEF RollTypes
<1>5. HoursAreRight'
  <2>1. Rolls!Hours \subseteq Nat
    BY HoursOfADay
  <2>2. \A h \in Rolls!Hours : h < clock => h < clock'
    BY <1>1, <1>3, <2>1
  <2>3. HoursAreRight
    BY DEF RollupInv
  <2> QED
    BY <1>1, <2>2, <2>3 DEF HoursAreRight
<1>6. DaysAreRight'
  <2>1. /\ Rolls!DayOf(clock) <= Rolls!DayOf(clock')
        /\ Rolls!DayOf(clock) \in Int /\ Rolls!DayOf(clock') \in Int
    <3>1. HoursPerDay \in Nat \ {0} /\ clock \in Int /\ clock' \in Int
      BY <1>3 DEF Rolls!StatisticsAssumption
    <3> QED
      BY <1>3, <3>1, DaysGrow, Division DEF Rolls!DayOf
  <2>2. \A d \in Rolls!Days : d \in Int
    BY DEF Rolls!Days
  <2> QED
    BY <1>1, <2>1, <2>2 DEF RollupInv, DaysAreRight
<1>7. IsPass(work, clock)'
  <2>1. IsPass(work, clock')
    BY <1>3, PassesStayPast DEF RollupInv
  <2> QED
    BY <1>1, <2>1
<1> QED
  BY <1>1, <1>4, <1>5, <1>6, <1>7 DEF RollupInv, SnapshotsAreRight

\* Writing one document.
LEMMA WrittenOnce ==
  ASSUME NEW c, NEW of, NEW bucket, NEW doc, NEW d, d = [c EXCEPT ![of][bucket] = doc]
  PROVE /\ DOMAIN d = DOMAIN c
        /\ \A g \in DOMAIN c : DOMAIN d[g] = DOMAIN c[g]
        /\ \A g \in DOMAIN c : \A b \in DOMAIN c[g] :
             d[g][b] = IF g = of /\ b = bucket THEN doc ELSE c[g][b]
<1>1. d = [g \in DOMAIN c |-> IF g = of THEN [c[of] EXCEPT ![bucket] = doc] ELSE c[g]]
  OBVIOUS
<1> QED
  BY <1>1

\* v is what the members of S add to, each with what k gives it.
IsSum(v, k, S) == \E F : AreSums(F, k, S) /\ v = F[S]

LEMMA SumIsAtMost ==
  ASSUME NEW v, NEW S, NEW k \in [S -> Nat], IsSum(v, k, S),
         NEW T, IsFiniteSet(T), S \subseteq T,
         NEW f, \A x \in T : f[x] \in Nat, \A x \in S : k[x] <= f[x]
  PROVE v \in Nat /\ v <= Rolls!SumOver(f, T)
<1> DEFINE h == [x \in T |-> f[x]]
<1>1. IsFiniteSet(S) /\ h \in [T -> Nat] /\ \A x \in S : k[x] <= h[x]
  BY FS_Subset
<1>2. PICK F : AreSums(F, k, S) /\ v = F[S]
  BY DEF IsSum
<1>3. PICK G : AreSums(G, h, T) /\ Rolls!SumOver(f, T) = G[T]
  BY SumOverAdds
<1> HIDE DEF h
<1> QED
  BY <1>1, <1>2, <1>3, SumsAreMonotone, SumsAreNumbers

\* The detections of a day are those of its documented hours.
LEMMA DetectionsAdd ==
  ASSUME RollTypes, HoursAreRight, Rolls!StatisticsAssumption,
         NEW g \in RolledGates, NEW d
  PROVE /\ Rolls!DailyDoc(g, d).detections \in Nat
        /\ Rolls!DailyDoc(g, d).detections
             <= Rolls!SumOver(detected[g], Rolls!HoursOf(d))
<1> DEFINE S == {h \in Rolls!HoursOf(d) : hourly[g][h] # None}
           k == [h \in S |-> hourly[g][h].detections]
           v == Rolls!DailyDoc(g, d).detections
           Adds(F) == F = [s \in SUBSET S |->
             IF s = {} THEN 0 ELSE hourly[g][AnyOf(s)].detections + F[s \ {AnyOf(s)}]]
           F == CHOOSE F : Adds(F)
<1>1. IsFiniteSet(Rolls!HoursOf(d)) /\ Rolls!HoursOf(d) \subseteq Rolls!Hours
  BY HoursOfADay
<1>2. \A h \in S : hourly[g][h].detections \in Nat /\ hourly[g][h].detections <= detected[g][h]
  BY <1>1 DEF HoursAreRight
<1>3. IsFiniteSet(S) /\ S \subseteq Rolls!HoursOf(d)
  BY <1>1, FS_Subset
<1>4. v = F[S]
  BY DEF Rolls!DailyDoc, Rolls!MapThenSumSet, Rolls!MapThenFoldSet, AnyOf
<1>5. \A G : Adds(G) <=> AreSums(G, k, S)
  <2> HIDE DEF S
  <2>1. \A s \in SUBSET S : s # {} => k[AnyOf(s)] = hourly[g][AnyOf(s)].detections
    BY AnyOfIsMember
  <2> HIDE DEF k
  <2> QED
    BY <2>1 DEF AreSums
<1> HIDE DEF S
<1>6. k \in [S -> Nat]
  BY <1>2
<1> HIDE DEF k, Adds, v
<1>7. Adds(F)
  BY <1>3, <1>5, <1>6, SumsExist
<1> HIDE DEF F
<1>8. IsSum(v, k, S)
  BY <1>4, <1>5, <1>7 DEF IsSum
<1>9. \A h \in S : k[h] <= detected[g][h]
  BY <1>2 DEF k
<1>10. \A h \in Rolls!HoursOf(d) : detected[g][h] \in Nat
  BY <1>1 DEF RollTypes, Counters
<1>11. v \in Nat /\ v <= Rolls!SumOver(detected[g], Rolls!HoursOf(d))
  BY <1>1, <1>3, <1>6, <1>8, <1>9, <1>10, SumIsAtMost
<1> QED
  BY <1>11 DEF v

\* A step of a pass writes one document of an hour or a day that is over, or the figure
\* of a company, or nothing.
LEMMA ComputingKeeps ==
  ASSUME Rolls!StatisticsAssumption, RollupInv, NEW t, IsOver(t, clock),
         t.do \in {"hour", "day", "snapshot"}, Rolls!Compute(t),
         UNCHANGED <<clock, entered, detected, prompt, tripsOf>>
  PROVE RollTypes' /\ HoursAreRight' /\ DaysAreRight' /\ SnapshotsAreRight'
<1>0. RollTypes /\ HoursAreRight /\ DaysAreRight /\ SnapshotsAreRight
  BY DEF RollupInv
<1>1. CASE t.do = "hour"
  <2>1. /\ hourly' = [hourly EXCEPT ![t.of][t.bucket] = Rolls!HourlyDoc(t.of, t.bucket)]
        /\ UNCHANGED <<daily, snapshot>>
    BY <1>1 DEF Rolls!Compute
  <2>2. t.bucket < clock
    BY <1>1 DEF IsOver
  <2>3. /\ DOMAIN hourly' = RolledGates
        /\ \A g \in RolledGates : DOMAIN hourly'[g] = Rolls!Hours
        /\ \A g \in RolledGates : \A h \in Rolls!Hours :
             hourly'[g][h] = IF g = t.of /\ h = t.bucket
                             THEN Rolls!HourlyDoc(t.of, t.bucket) ELSE hourly[g][h]
    BY <1>0, <2>1, WrittenOnce DEF RollTypes
  <2>4. RollTypes'
    BY <1>0, <2>1, <2>3 DEF RollTypes
  <2>5. HoursAreRight'
    <3> SUFFICES ASSUME NEW g \in RolledGates, NEW h \in Rolls!Hours, hourly'[g][h] # None
                 PROVE /\ h < clock /\ hourly'[g][h].entries \in prompt[g][h] .. entered[g][h]
                       /\ hourly'[g][h].detections \in Nat
                       /\ hourly'[g][h].detections <= detected[g][h]
      BY DEF HoursAreRight
    <3>1. CASE g = t.of /\ h = t.bucket
      <4>1. hourly'[g][h] = [entries |-> entered[g][h], detections |-> detected[g][h]]
        BY <2>3, <3>1 DEF Rolls!HourlyDoc
      <4>2. /\ detected[g][h] \in Nat /\ entered[g][h] \in Nat /\ prompt[g][h] \in Nat
            /\ prompt[g][h] <= entered[g][h]
        BY <1>0 DEF RollTypes, Counters
      <4> QED
        BY <2>2, <3>1, <4>1, <4>2
    <3>2. CASE ~(g = t.of /\ h = t.bucket)
      BY <1>0, <2>3, <3>2 DEF HoursAreRight
    <3> QED
      BY <3>1, <3>2
  <2> QED
    BY <1>0, <2>1, <2>4, <2>5 DEF DaysAreRight, SnapshotsAreRight
<1>2. CASE t.do = "day"
  <2>1. /\ daily' = [daily EXCEPT ![t.of][t.bucket] = Rolls!DailyDoc(t.of, t.bucket)]
        /\ UNCHANGED <<hourly, snapshot>>
    BY <1>2 DEF Rolls!Compute
  <2>2. t.bucket < Rolls!DayOf(clock)
    BY <1>2 DEF IsOver
  <2>3. /\ DOMAIN daily' = RolledGates
        /\ \A g \in RolledGates : DOMAIN daily'[g] = Rolls!Days
        /\ \A g \in RolledGates : \A d \in Rolls!Days :
             daily'[g][d] = IF g = t.of /\ d = t.bucket
                            THEN Rolls!DailyDoc(t.of, t.bucket) ELSE daily[g][d]
    BY <1>0, <2>1, WrittenOnce DEF RollTypes
  <2>4. RollTypes'
    BY <1>0, <2>1, <2>3 DEF RollTypes
  <2>5. DaysAreRight'
    <3> SUFFICES ASSUME NEW g \in RolledGates, NEW d \in Rolls!Days, daily'[g][d] # None
                 PROVE /\ d < Rolls!DayOf(clock)
                       /\ daily'[g][d].entries
                            \in Rolls!SumOver(prompt[g], Rolls!HoursOf(d))
                                .. Rolls!SumOver(entered[g], Rolls!HoursOf(d))
                       /\ daily'[g][d].detections
                            <= Rolls!SumOver(detected[g], Rolls!HoursOf(d))
                       /\ daily'[g][d].detections \in Nat
      BY DEF DaysAreRight
    <3>1. CASE g = t.of /\ d = t.bucket
      <4>1. daily'[g][d] = Rolls!DailyDoc(g, d)
        BY <2>3, <3>1
      <4>2. Rolls!DailyDoc(g, d).entries = Rolls!SumOver(entered[g], Rolls!HoursOf(d))
        BY DEF Rolls!DailyDoc
      <4>3. /\ Rolls!SumOver(prompt[g], Rolls!HoursOf(d)) \in Nat
            /\ Rolls!SumOver(prompt[g], Rolls!HoursOf(d))
                 <= Rolls!SumOver(entered[g], Rolls!HoursOf(d))
            /\ Rolls!SumOver(entered[g], Rolls!HoursOf(d)) \in Nat
        <5>1. IsFiniteSet(Rolls!HoursOf(d)) /\ Rolls!HoursOf(d) \subseteq Rolls!Hours
          BY HoursOfADay
        <5>2. \A h \in Rolls!HoursOf(d) :
                /\ prompt[g][h] \in Nat /\ entered[g][h] \in Nat
                /\ prompt[g][h] <= entered[g][h] /\ entered[g][h] <= entered[g][h]
          BY <1>0, <5>1 DEF RollTypes, Counters
        <5> QED
          BY <5>1, <5>2, SumOverIsMonotone
      <4>4. /\ daily'[g][d].detections <= Rolls!SumOver(detected[g], Rolls!HoursOf(d))
            /\ daily'[g][d].detections \in Nat
        BY <1>0, <4>1, DetectionsAdd
      <4> QED
        BY <2>2, <3>1, <4>1, <4>2, <4>3, <4>4
    <3>2. CASE ~(g = t.of /\ d = t.bucket)
      BY <1>0, <2>3, <3>2 DEF DaysAreRight
    <3> QED
      BY <3>1, <3>2
  <2> QED
    BY <1>0, <2>1, <2>4, <2>5 DEF HoursAreRight, SnapshotsAreRight
<1>3. CASE t.do = "snapshot"
  <2>1. /\ snapshot' = IF Rolls!InPeriod(t.of) = {} THEN snapshot
                       ELSE [snapshot EXCEPT ![t.of]
                               = Rolls!Cardinality(Rolls!InPeriod(t.of))]
        /\ UNCHANGED <<hourly, daily>>
    BY <1>3 DEF Rolls!Compute
  <2>2. DOMAIN snapshot' = Companies
    BY <1>0, <2>1 DEF RollTypes
  <2>3. SnapshotsAreRight'
    <3> SUFFICES ASSUME NEW s \in Companies, snapshot'[s] # None
                 PROVE snapshot'[s] \in 1 .. Cardinality(tripsOf[s])
      BY DEF SnapshotsAreRight
    <3>1. CASE snapshot'[s] = snapshot[s]
      BY <1>0, <3>1 DEF SnapshotsAreRight
    <3>2. CASE snapshot'[s] # snapshot[s]
      <4> DEFINE trips == Rolls!InPeriod(s)
      <4>1. trips # {} /\ snapshot'[s] = Rolls!Cardinality(trips)
        BY <1>0, <2>1, <3>2 DEF RollTypes
      <4>2. snapshot'[s] = Cardinality(trips)
        BY <4>1 DEF Rolls!Cardinality, Cardinality
      <4>3. IsFiniteSet(tripsOf[s])
        <5>1. IsFiniteSet(0 .. clock) /\ tripsOf[s] \subseteq 0 .. clock
          BY <1>0, FS_Interval DEF RollTypes
        <5> QED
          BY <5>1, FS_Subset
      <4>4. trips \subseteq tripsOf[s]
        BY DEF Rolls!InPeriod
      <4> HIDE DEF trips
      <4>5. /\ IsFiniteSet(trips) /\ Cardinality(trips) \in Nat
            /\ Cardinality(tripsOf[s]) \in Nat
            /\ Cardinality(trips) <= Cardinality(tripsOf[s])
        BY <4>3, <4>4, FS_Subset, FS_CardinalityType
      <4>6. Cardinality(trips) # 0
        BY <4>1, <4>5, FS_EmptySet
      <4> QED
        BY <4>2, <4>5, <4>6
    <3> QED
      BY <3>1, <3>2
  <2>4. RollTypes'
    BY <1>0, <2>1, <2>2 DEF RollTypes
  <2> QED
    BY <1>0, <2>1, <2>3, <2>4 DEF HoursAreRight, DaysAreRight
<1> QED
  BY <1>1, <1>2, <1>3

\* The aggregator begins, goes on with and abandons its passes.
LEMMA PassingKeeps ==
  ASSUME Rolls!StatisticsAssumption, RollupInv,
         Rolls!Start \/ Rolls!Crash \/ Rolls!Wake \/ Rolls!Pass
  PROVE RollupInv'
<1>0. clock \in Nat /\ IsPass(work, clock) /\ RollTypes
  BY DEF RollupInv, RollTypes
<1>1. UNCHANGED <<clock, entered, detected, prompt, tripsOf>>
  BY DEF Rolls!Start, Rolls!Crash, Rolls!Wake, Rolls!Pass, Rolls!Succeed, Rolls!Fail,
         Rolls!BeginCycle, Rolls!CloseSession, Rolls!StepKeeps, Rolls!traffic
<1>2. ASSUME UNCHANGED <<hourly, daily, snapshot>>, IsPass(work', clock) PROVE RollupInv'
  BY <1>1, <1>2 DEF RollupInv, RollTypes, HoursAreRight, DaysAreRight, SnapshotsAreRight
<1>3. CASE Rolls!Start
  <2>1. IsPass(Rolls!Backfill, clock)
    BY <1>0, BackfillsAreOver
  <2> DEFINE t == [do |-> "cycle", of |-> None, bucket |-> None]
  <2>2. IsOver(t, clock)
    BY DEF IsOver
  <2>3. work' = Rolls!Backfill \o <<t>> /\ UNCHANGED <<hourly, daily, snapshot>>
    BY <1>3 DEF Rolls!Start, Rolls!rollups
  <2> HIDE DEF t
  <2>4. IsPass(<<t>>, clock)
    BY <2>2, OneStep
  <2>5. IsPass(work', clock)
    BY <2>1, <2>3, <2>4, JoinedPasses
  <2> QED
    BY <1>2, <2>3, <2>5
<1>4. CASE Rolls!Crash
  BY <1>2, <1>4, NoPass DEF Rolls!Crash, Rolls!rollups
<1>5. CASE Rolls!Wake
  BY <1>0, <1>2, <1>5, CyclesAreOver DEF Rolls!Wake, Rolls!rollups
<1>6. CASE Rolls!Pass
  <2> DEFINE t == Head(work)
  <2>1. work # <<>>
    BY <1>6 DEF Rolls!Pass
  <2>2. IsOver(t, clock) /\ IsPass(Tail(work), clock)
    BY <1>0, <2>1, RestOfAPass
  <2>3. CASE Rolls!Succeed(t)
    <3>1. /\ t.do \in {"hour", "day", "snapshot"} /\ Rolls!Compute(t)
          /\ work' = Tail(work)
      BY <2>3 DEF Rolls!Succeed
    <3> HIDE DEF t
    <3>2. RollTypes' /\ HoursAreRight' /\ DaysAreRight' /\ SnapshotsAreRight'
      BY <1>1, <2>2, <3>1, ComputingKeeps
    <3> QED
      BY <1>1, <2>2, <3>1, <3>2 DEF RollupInv
  <2>4. CASE Rolls!Fail(t) \/ Rolls!CloseSession(t)
    <3>1. work' = Tail(work) /\ UNCHANGED <<hourly, daily, snapshot>>
      BY <2>4 DEF Rolls!Fail, Rolls!CloseSession, Rolls!rollups
    <3> QED
      BY <1>2, <2>2, <3>1
  <2>5. CASE Rolls!BeginCycle(t)
    <3>1. /\ work' = Rolls!Cycle(Rolls!PreviousHour(clock))
          /\ UNCHANGED <<hourly, daily, snapshot>>
      BY <2>5 DEF Rolls!BeginCycle, Rolls!rollups
    <3> QED
      BY <1>0, <1>2, <3>1, CyclesAreOver
  <2> QED
    BY <1>6, <2>3, <2>4, <2>5 DEF Rolls!Pass
<1> QED
  BY <1>3, <1>4, <1>5, <1>6

\* Passes are of hours and days that are over; a document of one holds every visit that
\* was committed in its hour, since no more of those can come, and none twice, however
\* often it is written again.
THEOREM RollupInvariant ==
  ASSUME Rolls!StatisticsAssumption
  PROVE Rolls!Spec => []RollupInv
<1>1. Rolls!Init => RollupInv
  BY RollupInit
<1>2. RollupInv /\ [Rolls!Next]_(Rolls!vars) => RollupInv'
  <2> SUFFICES ASSUME RollupInv, [Rolls!Next]_(Rolls!vars) PROVE RollupInv'
    OBVIOUS
  <2>1. CASE UNCHANGED Rolls!vars
    BY <2>1 DEF Rolls!vars, RollupInv, RollTypes, HoursAreRight, DaysAreRight,
                SnapshotsAreRight
  <2> QED
    BY <2>1, EnteringKeeps, DetectingKeeps, TrippingKeeps, RollTickKeeps, PassingKeeps
       DEF Rolls!Next
<1> QED
  BY <1>1, <1>2, PTL DEF Rolls!Spec

\* The chart's figure of an hour is of no more trucks than came in it.
LEMMA VolumesAreAtMost ==
  ASSUME Rolls!StatisticsAssumption, RollupInv, NEW h \in Rolls!Hours, NEW hours
  PROVE Rolls!VolumeAt(h, hours)
          <= Rolls!SumOver([x \in RolledGates |-> entered[x][h]], RolledGates)
<1> DEFINE S == {g \in RolledGates : hourly[g][h] # None}
           k == [g \in S |-> hourly[g][h].entries]
           all == [g \in RolledGates |-> entered[g][h]]
           Documented(F) == F = [s \in SUBSET S |->
             IF s = {} THEN 0 ELSE hourly[AnyOf(s)][h].entries + F[s \ {AnyOf(s)}]]
           Live(F) == F = [s \in SUBSET RolledGates |->
             IF s = {} THEN 0 ELSE entered[AnyOf(s)][h] + F[s \ {AnyOf(s)}]]
           F == CHOOSE F : Documented(F)
           G == CHOOSE G : Live(G)
<1>0. IsFiniteSet(RolledGates)
  BY DEF Rolls!StatisticsAssumption, Rolls!IsFiniteSet, IsFiniteSet
<1>1. \A g \in RolledGates : entered[g][h] \in Nat
  BY DEF RollupInv, RollTypes, Counters
<1>2. Rolls!VolumeAt(h, hours) \in {F[S], G[RolledGates]}
  BY DEF Rolls!VolumeAt, Rolls!MapThenSumSet, Rolls!MapThenFoldSet, AnyOf
<1>3. \A E : Documented(E) <=> AreSums(E, k, S)
  <2>1. \A g \in S : hourly[g][h].entries = k[g]
    OBVIOUS
  <2> HIDE DEF S, k
  <2>2. \A s \in SUBSET S : s # {} => k[AnyOf(s)] = hourly[AnyOf(s)][h].entries
    BY <2>1, AnyOfIsMember
  <2> QED
    BY <2>2 DEF AreSums
<1>4. \A E : Live(E) <=> AreSums(E, all, RolledGates)
  <2>1. \A s \in SUBSET RolledGates : s # {} => all[AnyOf(s)] = entered[AnyOf(s)][h]
    BY AnyOfIsMember
  <2> HIDE DEF all
  <2> QED
    BY <2>1 DEF AreSums
<1>5. S \subseteq RolledGates /\ IsFiniteSet(S)
  BY <1>0, FS_Subset
<1>6. \A g \in S : k[g] \in Nat /\ k[g] <= all[g]
  <2> TAKE g \in S
  <2>1. hourly[g][h].entries \in prompt[g][h] .. entered[g][h]
    BY DEF RollupInv, HoursAreRight
  <2>2. prompt[g][h] \in Nat
    BY DEF RollupInv, RollTypes, Counters
  <2> QED
    BY <1>1, <2>1, <2>2
<1>7. \A g \in RolledGates : all[g] \in Nat /\ all[g] <= all[g]
  BY <1>1
<1> HIDE DEF S
<1>8. k \in [S -> Nat] /\ all \in [RolledGates -> Nat]
  BY <1>1, <1>5, <1>6
<1> HIDE DEF k, all, Documented, Live
<1>9. Documented(F) /\ Live(G)
  BY <1>0, <1>3, <1>4, <1>5, <1>8, SumsExist
<1> HIDE DEF F, G
<1>10. IsSum(F[S], k, S) /\ IsSum(G[RolledGates], all, RolledGates)
  BY <1>3, <1>4, <1>9 DEF IsSum
<1>11. F[S] <= Rolls!SumOver(all, RolledGates)
  BY <1>0, <1>5, <1>6, <1>7, <1>8, <1>10, SumIsAtMost
<1>12. G[RolledGates] <= Rolls!SumOver(all, RolledGates)
  BY <1>0, <1>7, <1>8, <1>10, SumIsAtMost
<1>13. Rolls!VolumeAt(h, hours) <= Rolls!SumOver(all, RolledGates)
  BY <1>2, <1>11, <1>12
<1> QED
  BY <1>13 DEF all

\* A company's figure is of no more trips than it had.
LEMMA FiguresAreAtMost ==
  ASSUME RollupInv, NEW s \in Companies, NEW from, Rolls!Figure(s, from) # None
  PROVE Rolls!Figure(s, from) \in 1 .. Rolls!Cardinality(tripsOf[s])
<1>0. Rolls!Cardinality(tripsOf[s]) = Cardinality(tripsOf[s])
  BY DEF Rolls!Cardinality, Cardinality
<1>1. CASE Rolls!Figure(s, from) = snapshot[s]
  BY <1>0, <1>1 DEF RollupInv, SnapshotsAreRight
<1>2. CASE Rolls!Figure(s, from) # snapshot[s]
  <2> DEFINE trips == {h \in tripsOf[s] : h >= from}
  <2>1. trips # {} /\ Rolls!Figure(s, from) = Rolls!Cardinality(trips)
    BY <1>2 DEF Rolls!Figure, Rolls!LiveFigure
  <2>2. Rolls!Figure(s, from) = Cardinality(trips)
    BY <2>1 DEF Rolls!Cardinality, Cardinality
  <2>3. IsFiniteSet(tripsOf[s])
    <3>1. IsFiniteSet(0 .. clock) /\ tripsOf[s] \subseteq 0 .. clock
      BY FS_Interval DEF RollupInv, RollTypes
    <3> QED
      BY <3>1, FS_Subset
  <2>4. trips \subseteq tripsOf[s]
    OBVIOUS
  <2> HIDE DEF trips
  <2>5. /\ IsFiniteSet(trips) /\ Cardinality(trips) \in Nat
        /\ Cardinality(tripsOf[s]) \in Nat
        /\ Cardinality(trips) <= Cardinality(tripsOf[s])
    BY <2>3, <2>4, FS_Subset, FS_CardinalityType
  <2>6. Cardinality(trips) # 0
    BY <2>1, <2>5, FS_EmptySet
  <2> QED
    BY <1>0, <2>2, <2>5, <2>6
<1> QED
  BY <1>1, <1>2

\* However often the aggregator restarts, fails and repeats itself, its documents hold every
\* visit committed in its hour and no row twice, and no chart or list shows more than there
\* was.
THEOREM RollupsAreRight ==
  ASSUME Rolls!StatisticsAssumption
  PROVE Rolls!Spec => []Rolls!RollupsMissOnlyLateVisits
<1>1. RollupInv => Rolls!RollupsMissOnlyLateVisits
  <2> SUFFICES ASSUME RollupInv PROVE Rolls!RollupsMissOnlyLateVisits
    OBVIOUS
  <2>1. \A g \in RolledGates : \A h \in Rolls!Hours : hourly[g][h] # None =>
          /\ hourly[g][h].entries \in prompt[g][h] .. entered[g][h]
          /\ hourly[g][h].detections <= detected[g][h]
    BY DEF RollupInv, HoursAreRight
  <2>2. \A g \in RolledGates : \A d \in Rolls!Days : daily[g][d] # None =>
          /\ daily[g][d].entries \in Rolls!SumOver(prompt[g], Rolls!HoursOf(d))
                                       .. Rolls!SumOver(entered[g], Rolls!HoursOf(d))
          /\ daily[g][d].detections <= Rolls!SumOver(detected[g], Rolls!HoursOf(d))
    BY DEF RollupInv, DaysAreRight
  <2>3. \A d \in Rolls!Days : \A h \in Rolls!HoursOf(d) :
          Rolls!VolumeAt(h, Rolls!HoursOf(d))
            <= Rolls!SumOver([x \in RolledGates |-> entered[x][h]], RolledGates)
    BY HoursOfADay, VolumesAreAtMost
  <2>4. \A s \in Companies : \A from \in Rolls!Hours : Rolls!Figure(s, from) # None =>
          Rolls!Figure(s, from) \in 1 .. Rolls!Cardinality(tripsOf[s])
    BY FiguresAreAtMost
  <2> QED
    BY <2>1, <2>2, <2>3, <2>4 DEF Rolls!RollupsMissOnlyLateVisits
<1> QED
  BY <1>1, RollupInvariant, PTL

-----------------------------------------------------------------------------
(* The figures of the day *)

\* The appointments whose truck came, and those in each of the cards, by their order.
CameIn == {a \in Appointments : entry[a] # None}
CardOf(a) ==
  CASE status[a] = "scheduled" -> IF slot[a] < Cards!Cutoff THEN 3 ELSE 1
    [] status[a] = "in_transit" -> 2
    [] status[a] = "in_process" -> IF a \in unloading /\ left[a] = None THEN 4 ELSE 5
    [] status[a] = "completed" -> 6
    [] OTHER -> 7
CardsLeft(n) == {a \in Cards!Scheduled : CardOf(a) > n}

DayTypes ==
  /\ now \in Nat /\ slot \in [Appointments -> {None, 0, 1}]
  /\ status \in [Appointments -> Cards!Lifecycle!Statuses]
  /\ DOMAIN entry = Appointments /\ DOMAIN left = Appointments
  /\ \A a \in Appointments : entry[a] # None => entry[a] \in Nat
  /\ \A a \in Appointments : left[a] # None => entry[a] # None

\* Steps of the traffic, and rows outside R that keep their place in every figure.
Traffic ==
  \/ Cards!Tick
  \/ \E a \in Appointments :
       \/ Cards!VisitStarts(a) \/ Cards!VisitMoves(a)
       \/ \E s \in Cards!Lifecycle!Statuses : Cards!Move(a, s)
RowsKept(R) ==
  \A a \in Appointments \ R :
    /\ status'[a] = status[a] /\ entry'[a] = entry[a] /\ left'[a] = left[a]
    /\ a \in unloading' <=> a \in unloading
    /\ slot[a] # None => (slot[a] < Cards!Cutoff' <=> slot[a] < Cards!Cutoff)

LEMMA CardsCount == \A S : Cards!Cardinality(S) = Cardinality(S)
  BY DEF Cards!Cardinality, Cardinality

LEMMA AppointmentsAreFinite ==
  ASSUME Cards!DashboardAssumption
  PROVE IsFiniteSet(Appointments)
  BY DEF Cards!DashboardAssumption, Cards!IsFiniteSet, IsFiniteSet

\* Sets that differ only in rows of R differ in size by at most that of R.
LEMMA SizesApart ==
  ASSUME NEW S, NEW T, NEW R, IsFiniteSet(S), IsFiniteSet(T), IsFiniteSet(R),
         \A x : x \notin R => (x \in S <=> x \in T)
  PROVE /\ Cardinality(S) \in Nat /\ Cardinality(T) \in Nat /\ Cardinality(R) \in Nat
        /\ Cardinality(S) <= Cardinality(T) + Cardinality(R)
        /\ Cardinality(T) <= Cardinality(S) + Cardinality(R)
<1>1. ASSUME NEW U, NEW V, IsFiniteSet(U), IsFiniteSet(V), U \subseteq V \cup R
      PROVE Cardinality(U) <= Cardinality(V) + Cardinality(R)
  <2>1. IsFiniteSet(V \cup R) /\ IsFiniteSet(V \cap R)
    BY <1>1, FS_Union, FS_Intersection
  <2>2. Cardinality(V \cup R) = Cardinality(V) + Cardinality(R) - Cardinality(V \cap R)
    BY <1>1, FS_Union
  <2>3. /\ Cardinality(V) \in Nat /\ Cardinality(R) \in Nat /\ Cardinality(U) \in Nat
        /\ Cardinality(V \cap R) \in Nat /\ Cardinality(V \cup R) \in Nat
    BY <1>1, <2>1, FS_CardinalityType
  <2>4. Cardinality(U) <= Cardinality(V \cup R)
    BY <1>1, <2>1, FS_Subset
  <2> QED
    BY <2>2, <2>3, <2>4
<1>2. S \subseteq T \cup R /\ T \subseteq S \cup R
  OBVIOUS
<1>3. Cardinality(S) \in Nat /\ Cardinality(T) \in Nat /\ Cardinality(R) \in Nat
  BY FS_CardinalityType
<1> QED
  BY <1>1, <1>2, <1>3

\* A step of the traffic moves the rows an open answer is told of, and no others.
LEMMA TrafficMoves ==
  ASSUME Cards!DashboardAssumption, DayTypes, Traffic
  PROVE /\ DayTypes' /\ UNCHANGED <<slot, cached, shown>> /\ CameIn \subseteq CameIn'
        /\ \E R \in SUBSET Appointments :
             /\ RowsKept(R)
             /\ request' = IF request = None THEN None
                           ELSE [request EXCEPT !.moved = @ + Cardinality(R)]
<1>0. DelayTolerance \in Nat
  BY DEF Cards!DashboardAssumption
<1>1. CASE Cards!Tick
  <2> DEFINE R == {a \in Appointments : slot[a] = Cards!Cutoff}
  <2>1. /\ now' = now + 1
        /\ UNCHANGED <<slot, status, entry, left, unloading, moves, cached, shown>>
    BY <1>1 DEF Cards!Tick, Cards!trips
  <2>2. request' = IF request = None THEN None
                   ELSE [request EXCEPT !.moved = @ + Cardinality(R)]
    BY <1>1, CardsCount DEF Cards!Tick, Cards!Disturbed
  <2>3. RowsKept(R)
    <3> SUFFICES ASSUME NEW a \in Appointments \ R, slot[a] # None
                 PROVE slot[a] < Cards!Cutoff' <=> slot[a] < Cards!Cutoff
      BY <2>1 DEF RowsKept
    <3>1. slot[a] \in {0, 1} /\ slot[a] # Cards!Cutoff /\ now \in Nat
      BY DEF DayTypes
    <3>2. Cards!Cutoff = now - DelayTolerance
      BY DEF Cards!Cutoff
    <3>3. Cards!Cutoff' = now + 1 - DelayTolerance
      <4>1. now' = now + 1 /\ now \in Nat
        BY <2>1, <3>1
      <4>2. Cards!Cutoff' = now' - DelayTolerance
        BY DEF Cards!Cutoff
      <4> QED
        BY ONLY <1>0, <4>1, <4>2
    <3>4. now - DelayTolerance \in Int /\ now + 1 - DelayTolerance = now - DelayTolerance + 1
      BY <1>0, <3>1
    <3>5. ASSUME NEW x \in Int, NEW y \in Int, y # x PROVE y < x + 1 <=> y < x
      BY <3>5
    <3>6. slot[a] \in Int
      BY <3>1
    <3> HIDE DEF R
    <3> QED
      BY ONLY <3>1, <3>2, <3>3, <3>4, <3>5, <3>6
  <2>4. DayTypes' /\ CameIn' = CameIn
    BY <2>1 DEF DayTypes, CameIn
  <2> HIDE DEF R
  <2>5. R \in SUBSET Appointments
    BY DEF R
  <2> QED
    BY <2>1, <2>2, <2>3, <2>4, <2>5
<1> DEFINE Told(a) ==
             /\ DayTypes' /\ UNCHANGED <<slot, cached, shown>> /\ CameIn \subseteq CameIn'
             /\ RowsKept({a})
             /\ request' = IF request = None THEN None ELSE [request EXCEPT !.moved = @ + 1]
<1>2. ASSUME NEW a \in Appointments,
             \/ Cards!VisitStarts(a) \/ Cards!VisitMoves(a)
             \/ \E s \in Cards!Lifecycle!Statuses : Cards!Move(a, s)
      PROVE Told(a)
  <2>1. CASE Cards!VisitStarts(a)
    <3>1. /\ entry[a] = None /\ entry' = [entry EXCEPT ![a] = now]
          /\ UNCHANGED <<now, slot, status, left, unloading, cached, shown>>
          /\ request' = IF request = None THEN None ELSE [request EXCEPT !.moved = @ + 1]
      BY <2>1 DEF Cards!VisitStarts, Cards!Disturbed
    <3>2. left[a] = None
      BY <3>1 DEF DayTypes
    <3>3. DayTypes'
      BY <3>1, <3>2 DEF DayTypes
    <3>4. CameIn \subseteq CameIn' /\ RowsKept({a})
      BY <3>1 DEF CameIn, RowsKept, DayTypes, Cards!Cutoff
    <3> QED
      BY <3>1, <3>3, <3>4
  <2>2. CASE Cards!VisitMoves(a)
    <3>1. /\ entry[a] # None /\ UNCHANGED <<now, slot, status, entry, cached, shown>>
          /\ request' = IF request = None THEN None ELSE [request EXCEPT !.moved = @ + 1]
          /\ \/ unloading' = unloading \cup {a} /\ UNCHANGED left
             \/ unloading' = unloading \ {a} /\ left' = [left EXCEPT ![a] = now]
      BY <2>2 DEF Cards!VisitMoves, Cards!Disturbed
    <3>2. DayTypes'
      BY <3>1 DEF DayTypes
    <3>3. CameIn = CameIn' /\ RowsKept({a})
      BY <3>1 DEF CameIn, RowsKept, DayTypes, Cards!Cutoff
    <3> QED
      BY <3>1, <3>2, <3>3
  <2>3. ASSUME NEW s \in Cards!Lifecycle!Statuses, Cards!Move(a, s)
        PROVE Told(a)
    <3>1. /\ status' = [status EXCEPT ![a] = s]
          /\ UNCHANGED <<now, slot, entry, left, unloading, cached, shown>>
          /\ request' = IF request = None THEN None ELSE [request EXCEPT !.moved = @ + 1]
      BY <2>3 DEF Cards!Move, Cards!Disturbed
    <3>2. DayTypes'
      BY <2>3, <3>1 DEF DayTypes
    <3>3. CameIn = CameIn' /\ RowsKept({a})
      BY <3>1 DEF CameIn, RowsKept, DayTypes, Cards!Cutoff
    <3> QED
      BY <3>1, <3>2, <3>3
  <2> QED
    BY <1>2, <2>1, <2>2, <2>3
<1>3. ASSUME NEW a \in Appointments PROVE Cardinality({a}) = 1 /\ {a} \in SUBSET Appointments
  BY FS_Singleton
<1> QED
  BY <1>1, <1>2, <1>3 DEF Traffic

\* How many rows there are of the day's figures.
Size(S) == Cardinality(S)
InTransit == Cards!In("in_transit")
InProcess == Cards!In("in_process")
CameLate == {a \in Cards!Arrived : ~Cards!OnTime(a)}
CameOnTime == {a \in Cards!Arrived : Cards!OnTime(a)}
ListFilters == {"in_transit", "delayed"}
DaySizes ==
  [scheduled |-> Size(Cards!Scheduled), left |-> [n \in 0 .. 7 |-> Size(CardsLeft(n))],
   inTransit |-> Size(InTransit), inProcess |-> Size(InProcess), came |-> Size(CameIn),
   expected |-> Size(Cards!Came), late |-> Size(CameLate), onTime |-> Size(CameOnTime),
   rows |-> [s \in ListFilters |-> Size(Cards!StatusFilter(s, Cards!Cutoff))]]
FigureSizes ==
  [scheduled : Nat, left : [0 .. 7 -> Nat], inTransit : Nat, inProcess : Nat, came : Nat,
   expected : Nat, late : Nat, onTime : Nat, rows : [ListFilters -> Nat]]

\* The figures of an answer.
AnswerKinds == {"cards", "summary", "gate", "waits", "list"}
RequestFields == {"kind", "skip", "filter", "cutoff", "asked", "got", "moved"}
RequestOK(r) ==
  /\ DOMAIN r = RequestFields /\ r.kind \in AnswerKinds
  /\ r.moved \in Nat /\ r.skip \in Nat /\ (r.kind = "list" => r.filter \in ListFilters)
  /\ r.asked \in 0 .. Len(Cards!Queries(r.kind))
  /\ DOMAIN r.got = UNION {Cards!Queries(r.kind)[i] : i \in 1 .. r.asked}
  /\ \A q \in DOMAIN r.got : r.got[q] \in Nat

\* How far each kind of answer has come: what it has and what it still has to count
\* differ by no more than the rows that moved.
GotCard(r, i) == IF i <= r.asked THEN r.got[Cards!CardQueries[i]] ELSE 0
CardsProgress(r, z) ==
  Cards!Within(GotCard(r, 1) + GotCard(r, 2) + GotCard(r, 3) + GotCard(r, 4)
                 + GotCard(r, 5) + GotCard(r, 6) + GotCard(r, 7) + z.left[r.asked],
               z.scheduled, r.moved)
\* A later query counts some of the rows an earlier one counted.
PartProgress(r, whole, n, size, some, m) ==
  /\ r.asked >= n /\ r.asked < m => size <= r.got[whole] + r.moved
  /\ r.asked >= m => r.got[some] <= r.got[whole] + r.moved
LateProgress(r, z) ==
  /\ r.asked >= 1 => r.got["total"] = z.scheduled
  /\ r.asked = 8 => r.got["overdue"] + z.late <= z.scheduled + r.moved
  /\ r.asked >= 9 => r.got["overdue"] + r.got["came_late"] <= z.scheduled + r.moved
OnTimeProgress(r, z) ==
  /\ r.asked = 9 => Cards!Within(r.got["came_late"], z.late, r.moved)
  /\ r.asked = 10 => Cards!Within(z.onTime + r.got["came_late"], r.got["arrived"], r.moved)
  /\ r.asked = 11 =>
       Cards!Within(r.got["on_time"] + r.got["came_late"], r.got["arrived"], r.moved)
SummaryProgress(r, z) ==
  /\ PartProgress(r, "in_transit", 2, z.inTransit, "late_in_transit", 5)
  /\ PartProgress(r, "in_process", 3, z.inProcess, "unloading", 4)
  /\ PartProgress(r, "entries", 6, z.came, "exits", 7)
  /\ LateProgress(r, z) /\ OnTimeProgress(r, z)
GateProgress(r, z) ==
  /\ r.asked = 1 =>
       Cards!Within(r.got["upcoming"], Cards!Min({PageSize, z.inTransit}), r.moved)
  /\ r.asked = 2 =>
       /\ r.got["scheduled"] + r.got["in_transit"] + r.got["in_process"]
            + r.got["completed"] + r.got["canceled"] = z.scheduled
       /\ Cards!Within(r.got["upcoming"], Cards!Min({PageSize, r.got["in_transit"]}),
                       r.moved)
WaitsProgress(r, z) ==
  /\ r.asked >= 1 =>
       /\ r.got["0_5"] + r.got["5_15"] + r.got["15_30"] + r.got["over_30"]
            = r.got["processed"]
       /\ r.got["delayed"] = r.got["15_30"] + r.got["over_30"]
  /\ r.asked = 1 => r.got["processed"] <= z.expected
  /\ r.asked = 2 => r.got["processed"] + r.got["excluded"] <= z.came
ListProgress(r, z) ==
  /\ r.asked = 1 => Cards!Within(z.rows[r.filter], r.got["count"], r.moved)
  /\ r.asked = 2 =>
       Cards!Within(r.got["page"],
                    Cards!Min({PageSize, Cards!Max({0, r.got["count"] - r.skip})}), r.moved)
Progress(r, z) ==
  /\ r.kind = "cards" => CardsProgress(r, z)
  /\ r.kind = "summary" => SummaryProgress(r, z)
  /\ r.kind = "gate" => GateProgress(r, z)
  /\ r.kind = "waits" => WaitsProgress(r, z)
  /\ r.kind = "list" => ListProgress(r, z)
Answered(r) == r.asked = Len(Cards!Queries(r.kind))

DayInv ==
  /\ DayTypes
  /\ request # None => RequestOK(request) /\ Progress(request, DaySizes)
  /\ \A r \in {cached, shown} :
       r # None => RequestOK(r) /\ Progress(r, DaySizes) /\ Answered(r)

-----------------------------------------------------------------------------
(* The traffic *)

\* Rows that move change the size of what a figure counts by no more than their number.
LEMMA FiguresApart ==
  ASSUME Cards!DashboardAssumption, DayTypes, NEW R \in SUBSET Appointments, RowsKept(R),
         UNCHANGED slot,
         NEW S \in SUBSET Appointments, NEW T \in SUBSET Appointments,
         \A a \in Appointments \ R : a \in S <=> a \in T
  PROVE /\ Size(S) \in Nat /\ Size(T) \in Nat /\ Size(R) \in Nat
        /\ Size(S) <= Size(T) + Size(R) /\ Size(T) <= Size(S) + Size(R)
<1>1. IsFiniteSet(S) /\ IsFiniteSet(T) /\ IsFiniteSet(R)
  BY AppointmentsAreFinite, FS_Subset
<1>2. \A x : x \notin R => (x \in S <=> x \in T)
  OBVIOUS
<1> QED
  BY <1>1, <1>2, SizesApart DEF Size

\* What is counted is some of the appointments.
LEMMA FiguresCount ==
  /\ CameIn \in SUBSET Appointments /\ Cards!Scheduled \in SUBSET Appointments
  /\ \A s : Cards!In(s) \in SUBSET Appointments
  /\ CameLate \in SUBSET Appointments /\ CameOnTime \in SUBSET Appointments
  /\ \A n : CardsLeft(n) \in SUBSET Appointments
  /\ \A s, c : Cards!StatusFilter(s, c) \in SUBSET Appointments
<1>1. /\ CameIn \in SUBSET Appointments /\ Cards!Scheduled \in SUBSET Appointments
      /\ \A s : Cards!In(s) \in SUBSET Appointments
      /\ CameLate \in SUBSET Appointments /\ CameOnTime \in SUBSET Appointments
      /\ \A n : CardsLeft(n) \in SUBSET Appointments
  BY DEF CameIn, CameLate, CameOnTime, Cards!Arrived, Cards!In, CardsLeft, Cards!Scheduled
<1>2. \A s, c : Cards!StatusFilter(s, c) \in SUBSET Appointments
  BY <1>1 DEF Cards!StatusFilter, Cards!Delayed, Cards!Unloading
<1> QED
  BY <1>1, <1>2

LEMMA SizesAreNumbers ==
  ASSUME Cards!DashboardAssumption, NEW S \in SUBSET Appointments
  PROVE IsFiniteSet(S) /\ Size(S) \in Nat
  BY AppointmentsAreFinite, FS_Subset, FS_CardinalityType DEF Size

LEMMA KeptRowsAreCountedAlike ==
  ASSUME DayTypes, NEW R, RowsKept(R), UNCHANGED slot, NEW a \in Appointments \ R
  PROVE /\ \A n : a \in CardsLeft(n) <=> a \in CardsLeft(n)'
        /\ a \in InTransit <=> a \in InTransit'
        /\ a \in InProcess <=> a \in InProcess'
        /\ a \in CameIn <=> a \in CameIn'
        /\ a \in CameLate <=> a \in CameLate'
        /\ a \in CameOnTime <=> a \in CameOnTime'
        /\ \A s : a \in Cards!StatusFilter(s, Cards!Cutoff)
                    <=> a \in Cards!StatusFilter(s, Cards!Cutoff)'
<1>1. /\ status'[a] = status[a] /\ entry'[a] = entry[a] /\ left'[a] = left[a]
      /\ a \in unloading' <=> a \in unloading
      /\ slot[a] # None => (slot[a] < Cards!Cutoff' <=> slot[a] < Cards!Cutoff)
      /\ slot' = slot
  BY DEF RowsKept
<1>2. Cards!Scheduled' = Cards!Scheduled
  BY <1>1 DEF Cards!Scheduled
<1>3. \A s : a \in Cards!In(s) <=> a \in Cards!In(s)'
  BY <1>1, <1>2 DEF Cards!In
<1>4. /\ a \in InTransit <=> a \in InTransit'
      /\ a \in InProcess <=> a \in InProcess'
  BY <1>3 DEF InTransit, InProcess
<1>5. a \in CameIn <=> a \in CameIn'
  BY <1>1 DEF CameIn
<1>6. Cards!OnTime(a) <=> Cards!OnTime(a)'
  BY <1>1 DEF Cards!OnTime
<1>7. a \in Cards!Arrived <=> a \in Cards!Arrived'
  BY <1>1, <1>3 DEF Cards!Arrived
<1>8. /\ a \in CameLate <=> a \in CameLate'
      /\ a \in CameOnTime <=> a \in CameOnTime'
  BY <1>6, <1>7 DEF CameLate, CameOnTime
<1>9. a \in Cards!Scheduled => CardOf(a)' = CardOf(a)
  BY <1>1 DEF CardOf, Cards!Scheduled
<1>10. \A n : a \in CardsLeft(n) <=> a \in CardsLeft(n)'
  BY <1>2, <1>9 DEF CardsLeft
<1>11. a \in Cards!Unloading <=> a \in Cards!Unloading'
  BY <1>1, <1>3 DEF Cards!Unloading
<1>12. a \in Cards!Delayed(Cards!Cutoff) <=> a \in Cards!Delayed(Cards!Cutoff)'
  BY <1>1, <1>2, <1>3 DEF Cards!Delayed, Cards!In, Cards!Scheduled
<1>13. \A s : a \in Cards!StatusFilter(s, Cards!Cutoff)
                    <=> a \in Cards!StatusFilter(s, Cards!Cutoff)'
  BY <1>3, <1>11, <1>12 DEF Cards!StatusFilter
<1> QED
  BY <1>4, <1>5, <1>8, <1>10, <1>13

\* How far the sizes y may be from the sizes z when d rows have moved.
Apart(y, z, d) ==
  /\ y.scheduled = z.scheduled /\ z.came <= y.came /\ z.expected <= y.expected
  /\ y.inTransit <= z.inTransit + d /\ z.inTransit <= y.inTransit + d
  /\ y.inProcess <= z.inProcess + d /\ y.came <= z.came + d
  /\ y.late <= z.late + d /\ z.late <= y.late + d
  /\ y.onTime <= z.onTime + d /\ z.onTime <= y.onTime + d
  /\ \A n \in 0 .. 7 : y.left[n] <= z.left[n] + d /\ z.left[n] <= y.left[n] + d
  /\ \A s \in ListFilters : y.rows[s] <= z.rows[s] + d /\ z.rows[s] <= y.rows[s] + d

\* What the figures are of, before and after a step of the traffic.
LEMMA SizesMove ==
  ASSUME Cards!DashboardAssumption, DayTypes, NEW R \in SUBSET Appointments, RowsKept(R),
         UNCHANGED slot, CameIn \subseteq CameIn'
  PROVE /\ DaySizes \in FigureSizes /\ DaySizes' \in FigureSizes /\ Size(R) \in Nat
        /\ Apart(DaySizes', DaySizes, Size(R))
<1>1. /\ IsFiniteSet(Appointments)
      /\ \A S \in SUBSET Appointments : IsFiniteSet(S) /\ Size(S) \in Nat
  BY AppointmentsAreFinite, SizesAreNumbers
<1>2. Cards!Came \in SUBSET Appointments /\ Cards!Came \subseteq Cards!Came'
  BY DEF Cards!Came, Cards!Scheduled, CameIn
<1>3. Cards!Came' \in SUBSET Appointments
  BY DEF Cards!Came, Cards!Scheduled
<1>4. /\ CameIn' \in SUBSET Appointments /\ Cards!Scheduled' \in SUBSET Appointments
      /\ InTransit \in SUBSET Appointments /\ InTransit' \in SUBSET Appointments
      /\ InProcess \in SUBSET Appointments /\ InProcess' \in SUBSET Appointments
      /\ CameLate' \in SUBSET Appointments /\ CameOnTime' \in SUBSET Appointments
      /\ \A n : CardsLeft(n)' \in SUBSET Appointments
      /\ \A s : Cards!StatusFilter(s, Cards!Cutoff)' \in SUBSET Appointments
  BY DEF CameIn, CameLate, CameOnTime, Cards!Arrived, Cards!In, CardsLeft, Cards!Scheduled,
         InTransit, InProcess, Cards!StatusFilter, Cards!Delayed, Cards!Unloading
<1>5. /\ Size(Cards!Came) <= Size(Cards!Came') /\ Size(CameIn) <= Size(CameIn')
  BY <1>1, <1>2, <1>3, <1>4, FiguresCount, FS_Subset DEF Size
<1>6. Size(Cards!Scheduled)' = Size(Cards!Scheduled)
  BY DEF Cards!Scheduled, Size
<1> DEFINE Near(S, T) == Size(S) <= Size(T) + Size(R) /\ Size(T) <= Size(S) + Size(R)
<1>7. ASSUME NEW S \in SUBSET Appointments, NEW T \in SUBSET Appointments,
             \A a \in Appointments \ R : a \in S <=> a \in T
      PROVE Near(S, T)
  BY <1>7, FiguresApart
<1> HIDE DEF Near
<1>8. Near(InTransit, InTransit') /\ Near(InProcess, InProcess') /\ Near(CameIn, CameIn')
  BY <1>4, <1>7, FiguresCount, KeptRowsAreCountedAlike
<1>9. Near(CameLate, CameLate') /\ Near(CameOnTime, CameOnTime')
  BY <1>4, <1>7, FiguresCount, KeptRowsAreCountedAlike
<1>10. \A n : Near(CardsLeft(n), CardsLeft(n)')
  BY <1>4, <1>7, FiguresCount, KeptRowsAreCountedAlike
<1>11. \A s : Near(Cards!StatusFilter(s, Cards!Cutoff), Cards!StatusFilter(s, Cards!Cutoff)')
  BY <1>4, <1>7, FiguresCount, KeptRowsAreCountedAlike
<1> DEFINE y == DaySizes'
<1>12. y = [scheduled |-> Size(Cards!Scheduled'),
            left |-> [n \in 0 .. 7 |-> Size(CardsLeft(n)')],
            inTransit |-> Size(InTransit'), inProcess |-> Size(InProcess'),
            came |-> Size(CameIn'), expected |-> Size(Cards!Came'),
            late |-> Size(CameLate'), onTime |-> Size(CameOnTime'),
            rows |-> [s \in ListFilters |-> Size(Cards!StatusFilter(s, Cards!Cutoff)')]]
  BY DEF DaySizes, Size
<1>13. /\ y.scheduled = Size(Cards!Scheduled') /\ y.inTransit = Size(InTransit')
       /\ y.inProcess = Size(InProcess') /\ y.came = Size(CameIn')
       /\ y.expected = Size(Cards!Came') /\ y.late = Size(CameLate')
       /\ y.onTime = Size(CameOnTime')
       /\ y.left = [n \in 0 .. 7 |-> Size(CardsLeft(n)')]
       /\ y.rows = [s \in ListFilters |-> Size(Cards!StatusFilter(s, Cards!Cutoff)')]
  <2> HIDE DEF y
  <2> QED
    BY <1>12
<1>14. DaySizes \in FigureSizes
  <2>1. /\ Size(Cards!Scheduled) \in Nat /\ Size(InTransit) \in Nat
        /\ Size(InProcess) \in Nat /\ Size(CameIn) \in Nat /\ Size(Cards!Came) \in Nat
        /\ Size(CameLate) \in Nat /\ Size(CameOnTime) \in Nat
    BY <1>1, <1>2, <1>4, FiguresCount
  <2>2. [n \in 0 .. 7 |-> Size(CardsLeft(n))] \in [0 .. 7 -> Nat]
    BY <1>1, FiguresCount
  <2>3. [s \in ListFilters |-> Size(Cards!StatusFilter(s, Cards!Cutoff))]
          \in [ListFilters -> Nat]
    BY <1>1, FiguresCount
  <2> QED
    BY <2>1, <2>2, <2>3 DEF DaySizes, FigureSizes
<1>15. y \in FigureSizes
  <2> HIDE DEF y
  <2> QED
    BY <1>1, <1>3, <1>4, <1>12 DEF FigureSizes
<1> HIDE DEF y
<1>16. Size(R) \in Nat
  BY <1>1
<1>17. /\ y.scheduled = DaySizes.scheduled
       /\ DaySizes.came <= y.came /\ DaySizes.expected <= y.expected
  BY <1>5, <1>6, <1>13 DEF DaySizes, Size
<1>18. /\ y.inTransit <= DaySizes.inTransit + Size(R)
       /\ DaySizes.inTransit <= y.inTransit + Size(R)
       /\ y.inProcess <= DaySizes.inProcess + Size(R)
       /\ y.came <= DaySizes.came + Size(R)
  BY <1>8, <1>13 DEF DaySizes, Near
<1>19. /\ y.late <= DaySizes.late + Size(R) /\ DaySizes.late <= y.late + Size(R)
       /\ y.onTime <= DaySizes.onTime + Size(R) /\ DaySizes.onTime <= y.onTime + Size(R)
  BY <1>9, <1>13 DEF DaySizes, Near
<1>20. \A n \in 0 .. 7 : /\ y.left[n] <= DaySizes.left[n] + Size(R)
                         /\ DaySizes.left[n] <= y.left[n] + Size(R)
  BY <1>10, <1>13 DEF DaySizes, Near
<1>21. \A s \in ListFilters : /\ y.rows[s] <= DaySizes.rows[s] + Size(R)
                              /\ DaySizes.rows[s] <= y.rows[s] + Size(R)
  BY <1>11, <1>13 DEF DaySizes, Near
<1> QED
  BY <1>14, <1>15, <1>16, <1>17, <1>18, <1>19, <1>20, <1>21 DEF y, Apart

\* The queries of each kind, and the figures given so far.
LEMMA QueriesOfKinds ==
  /\ Cards!Queries("cards") = [i \in 1 .. 7 |-> {Cards!CardQueries[i]}]
  /\ Cards!Queries("summary") = [i \in 1 .. 11 |-> {Cards!SummaryQueries[i]}]
  /\ Cards!Queries("list") = [i \in 1 .. 2 |-> {<<"count", "page">>[i]}]
  /\ Cards!Queries("gate") = Cards!GateQueries
  /\ Cards!Queries("waits") = Cards!WaitQueries
  BY DEF Cards!Queries, Cards!Singly, Cards!CardQueries, Cards!SummaryQueries

LEMMA QueriesCounted ==
  /\ Len(Cards!Queries("cards")) = 7 /\ Len(Cards!Queries("summary")) = 11
  /\ Len(Cards!Queries("list")) = 2 /\ Len(Cards!Queries("gate")) = 2
  /\ Len(Cards!Queries("waits")) = 2
  BY DEF Cards!Queries, Cards!Singly, Cards!CardQueries, Cards!SummaryQueries,
         Cards!GateQueries, Cards!WaitQueries

LEMMA SummaryNames ==
  /\ Cards!SummaryQueries[1] = "total" /\ Cards!SummaryQueries[2] = "in_transit"
  /\ Cards!SummaryQueries[3] = "in_process" /\ Cards!SummaryQueries[4] = "unloading"
  /\ Cards!SummaryQueries[5] = "late_in_transit" /\ Cards!SummaryQueries[6] = "entries"
  /\ Cards!SummaryQueries[7] = "exits" /\ Cards!SummaryQueries[8] = "overdue"
  /\ Cards!SummaryQueries[9] = "came_late" /\ Cards!SummaryQueries[10] = "arrived"
  /\ Cards!SummaryQueries[11] = "on_time"
  BY DEF Cards!SummaryQueries

LEMMA FiveStatuses ==
  Cards!Lifecycle!Statuses =
    {"scheduled", "in_transit", "in_process", "completed", "canceled"}
  BY DEF Cards!Lifecycle!Statuses

LEMMA FiguresGiven ==
  ASSUME NEW r, RequestOK(r)
  PROVE /\ r.kind = "cards" =>
             r.asked \in 0 .. 7 /\ \A i \in 1 .. r.asked : r.got[Cards!CardQueries[i]] \in Nat
        /\ r.kind = "summary" =>
             /\ r.asked \in 0 .. 11
             /\ \A i \in 1 .. r.asked : r.got[Cards!SummaryQueries[i]] \in Nat
        /\ r.kind = "list" =>
             /\ r.asked \in 0 .. 2 /\ (r.asked >= 1 => r.got["count"] \in Nat)
             /\ r.asked = 2 => r.got["page"] \in Nat
        /\ r.kind = "gate" =>
             /\ r.asked \in 0 .. 2 /\ (r.asked >= 1 => r.got["upcoming"] \in Nat)
             /\ r.asked = 2 => \A s \in Cards!Lifecycle!Statuses : r.got[s] \in Nat
        /\ r.kind = "waits" =>
             /\ r.asked \in 0 .. 2
             /\ r.asked >= 1 => \A q \in Cards!WaitQueries[1] : r.got[q] \in Nat
             /\ r.asked = 2 => r.got["excluded"] \in Nat
<1>1. /\ r.asked \in 0 .. Len(Cards!Queries(r.kind))
      /\ \A i \in 1 .. r.asked : \A q \in Cards!Queries(r.kind)[i] : r.got[q] \in Nat
  BY DEF RequestOK
<1>2. CASE r.kind = "cards"
  <2>1. r.asked \in 0 .. 7
    BY <1>1, <1>2, QueriesCounted
  <2>2. \A i \in 1 .. 7 : Cards!Queries("cards")[i] = {Cards!CardQueries[i]}
    BY QueriesOfKinds
  <2>3. ASSUME NEW i \in 1 .. r.asked PROVE r.got[Cards!CardQueries[i]] \in Nat
    <3>1. i \in 1 .. 7
      BY <2>1
    <3>2. Cards!CardQueries[i] \in Cards!Queries("cards")[i]
      BY <2>2, <3>1
    <3> QED
      BY ONLY <1>1, <1>2, <3>2, i \in 1 .. r.asked
  <2> QED
    BY <1>2, <2>1, <2>3
<1>3. CASE r.kind = "summary"
  <2>1. r.asked \in 0 .. 11
    BY <1>1, <1>3, QueriesCounted
  <2>2. \A i \in 1 .. 11 : Cards!Queries("summary")[i] = {Cards!SummaryQueries[i]}
    BY QueriesOfKinds
  <2>3. ASSUME NEW i \in 1 .. r.asked PROVE r.got[Cards!SummaryQueries[i]] \in Nat
    <3>1. i \in 1 .. 11
      BY <2>1
    <3>2. Cards!SummaryQueries[i] \in Cards!Queries("summary")[i]
      BY <2>2, <3>1
    <3> QED
      BY ONLY <1>1, <1>3, <3>2, i \in 1 .. r.asked
  <2> QED
    BY <1>3, <2>1, <2>3
<1>4. CASE r.kind = "list"
  <2>1. r.asked \in 0 .. 2
    BY <1>1, <1>4, QueriesCounted
  <2>2. "count" \in Cards!Queries("list")[1] /\ "page" \in Cards!Queries("list")[2]
    BY QueriesOfKinds
  <2>3. \A i \in 1 .. r.asked : \A q \in Cards!Queries("list")[i] : r.got[q] \in Nat
    BY ONLY <1>1, <1>4
  <2>4. /\ r.asked >= 1 => 1 \in 1 .. r.asked
        /\ r.asked = 2 => 2 \in 1 .. r.asked
    BY <2>1
  <2> QED
    BY <1>4, <2>1, <2>2, <2>3, <2>4
<1>5. CASE r.kind = "gate"
  <2>1. r.asked \in 0 .. 2
    BY <1>1, <1>5, QueriesCounted
  <2>2. /\ "upcoming" \in Cards!Queries("gate")[1]
        /\ Cards!Queries("gate")[2] = Cards!Lifecycle!Statuses
    BY QueriesOfKinds DEF Cards!GateQueries
  <2>3. \A i \in 1 .. r.asked : \A q \in Cards!Queries("gate")[i] : r.got[q] \in Nat
    BY ONLY <1>1, <1>5
  <2>4. /\ r.asked >= 1 => 1 \in 1 .. r.asked
        /\ r.asked = 2 => 2 \in 1 .. r.asked
    BY <2>1
  <2> QED
    BY <1>5, <2>1, <2>2, <2>3, <2>4
<1>6. CASE r.kind = "waits"
  <2>1. r.asked \in 0 .. 2
    BY <1>1, <1>6, QueriesCounted
  <2>2. /\ Cards!Queries("waits")[1] = Cards!WaitQueries[1]
        /\ "excluded" \in Cards!Queries("waits")[2]
    BY QueriesOfKinds DEF Cards!WaitQueries
  <2>3. \A i \in 1 .. r.asked : \A q \in Cards!Queries("waits")[i] : r.got[q] \in Nat
    BY ONLY <1>1, <1>6
  <2>4. /\ r.asked >= 1 => 1 \in 1 .. r.asked
        /\ r.asked = 2 => 2 \in 1 .. r.asked
    BY <2>1
  <2> QED
    BY <1>6, <2>1, <2>2, <2>3, <2>4
<1> QED
  BY <1>2, <1>3, <1>4, <1>5, <1>6

\* The figures of a summary as far as it has come.
SummaryGiven(r) ==
  /\ r.asked \in 0 .. 11
  /\ r.asked >= 1 => r.got["total"] \in Nat
  /\ r.asked >= 2 => r.got["in_transit"] \in Nat
  /\ r.asked >= 3 => r.got["in_process"] \in Nat
  /\ r.asked >= 4 => r.got["unloading"] \in Nat
  /\ r.asked >= 5 => r.got["late_in_transit"] \in Nat
  /\ r.asked >= 6 => r.got["entries"] \in Nat
  /\ r.asked >= 7 => r.got["exits"] \in Nat
  /\ r.asked >= 8 => r.got["overdue"] \in Nat
  /\ r.asked >= 9 => r.got["came_late"] \in Nat
  /\ r.asked >= 10 => r.got["arrived"] \in Nat
  /\ r.asked >= 11 => r.got["on_time"] \in Nat

LEMMA SummaryFigures ==
  ASSUME NEW r, RequestOK(r), r.kind = "summary"
  PROVE SummaryGiven(r)
<1>1. /\ r.asked \in 0 .. 11
      /\ \A i \in 1 .. r.asked : r.got[Cards!SummaryQueries[i]] \in Nat
  BY FiguresGiven
<1>2. \A i \in 1 .. 11 : r.asked >= i => i \in 1 .. r.asked
  BY <1>1
<1>3. \A i \in 1 .. 11 : r.asked >= i => r.got[Cards!SummaryQueries[i]] \in Nat
  BY <1>1, <1>2
<1>4. /\ 1 \in 1 .. 11 /\ 2 \in 1 .. 11 /\ 3 \in 1 .. 11 /\ 4 \in 1 .. 11
      /\ 5 \in 1 .. 11 /\ 6 \in 1 .. 11 /\ 7 \in 1 .. 11 /\ 8 \in 1 .. 11
      /\ 9 \in 1 .. 11 /\ 10 \in 1 .. 11 /\ 11 \in 1 .. 11
  OBVIOUS
<1> QED
  BY <1>1, <1>3, <1>4, SummaryNames DEF SummaryGiven

LEMMA LesserOfTwo ==
  ASSUME NEW x \in Int, NEW y \in Int
  PROVE Cards!Min({x, y}) = IF x <= y THEN x ELSE y
<1> DEFINE m == IF x <= y THEN x ELSE y
<1>1. m \in {x, y} /\ \A u \in {x, y} : m <= u
  OBVIOUS
<1>2. \A v \in {x, y} : (\A u \in {x, y} : v <= u) => v = m
  OBVIOUS
<1> HIDE DEF m
<1>3. Cards!Min({x, y}) = m
  BY <1>1, <1>2 DEF Cards!Min
<1> QED
  BY <1>3 DEF m

LEMMA GreaterOfTwo ==
  ASSUME NEW x \in Int, NEW y \in Int
  PROVE Cards!Max({x, y}) = IF x <= y THEN y ELSE x
<1> DEFINE m == IF x <= y THEN y ELSE x
<1>1. m \in {x, y} /\ \A u \in {x, y} : m >= u
  OBVIOUS
<1>2. \A v \in {x, y} : (\A u \in {x, y} : v >= u) => v = m
  OBVIOUS
<1> HIDE DEF m
<1>3. Cards!Max({x, y}) = m
  BY <1>1, <1>2 DEF Cards!Max
<1> QED
  BY <1>3 DEF m

\* Two numbers that are near stay so under a bound, and when a little is taken off.
LEMMA NearWithin ==
  ASSUME NEW a \in Int, NEW b \in Int, NEW d \in Nat, NEW p \in Int
  PROVE /\ Cards!Within(a, b, d) <=> a <= b + d /\ b <= a + d
        /\ a <= b + d /\ b <= a + d =>
             /\ Cards!Min({p, a}) <= Cards!Min({p, b}) + d
             /\ Cards!Min({p, b}) <= Cards!Min({p, a}) + d
             /\ Cards!Max({p, a}) <= Cards!Max({p, b}) + d
             /\ Cards!Max({p, b}) <= Cards!Max({p, a}) + d
        /\ Cards!Min({p, a}) \in Int /\ Cards!Max({p, a}) \in Int
<1>1. Cards!Within(a, b, d) <=> a <= b + d /\ b <= a + d
  BY DEF Cards!Within
<1>2. /\ Cards!Min({p, a}) = IF p <= a THEN p ELSE a
      /\ Cards!Min({p, b}) = IF p <= b THEN p ELSE b
      /\ Cards!Max({p, a}) = IF p <= a THEN a ELSE p
      /\ Cards!Max({p, b}) = IF p <= b THEN b ELSE p
  BY LesserOfTwo, GreaterOfTwo
<1> QED
  BY <1>1, <1>2

\* An answer whose rows moved is told how many, and is no further off than that.
LEMMA ProgressMoves ==
  ASSUME Cards!DashboardAssumption, NEW r, RequestOK(r), NEW z \in FigureSizes,
         NEW y \in FigureSizes, NEW d \in Nat, Apart(y, z, d), Progress(r, z),
         NEW q, q = [r EXCEPT !.moved = @ + d]
  PROVE RequestOK(q) /\ Progress(q, y)
<1>1. /\ DOMAIN q = RequestFields /\ q.kind = r.kind /\ q.skip = r.skip
      /\ q.filter = r.filter /\ q.asked = r.asked /\ q.got = r.got
      /\ q.moved = r.moved + d /\ r.moved \in Nat /\ q.moved \in Nat
  BY DEF RequestOK, RequestFields
<1>2. RequestOK(q)
  BY <1>1 DEF RequestOK
<1>3. PageSize \in Nat /\ PageSize \in Int
  BY DEF Cards!DashboardAssumption
<1>4. CASE r.kind = "cards"
  <2>1. r.asked \in 0 .. 7 /\ \A i \in 1 .. r.asked : r.got[Cards!CardQueries[i]] \in Nat
    BY <1>4, FiguresGiven
  <2>2. \A i \in 1 .. 7 : GotCard(q, i) = GotCard(r, i)
    BY <1>1 DEF GotCard
  <2>3. \A i \in 1 .. 7 : GotCard(r, i) \in Nat
    BY <2>1 DEF GotCard
  <2> DEFINE t == GotCard(r, 1) + GotCard(r, 2) + GotCard(r, 3) + GotCard(r, 4)
                   + GotCard(r, 5) + GotCard(r, 6) + GotCard(r, 7)
  <2>4. t \in Nat
    BY <2>3
  <2>5. /\ t = GotCard(q, 1) + GotCard(q, 2) + GotCard(q, 3) + GotCard(q, 4)
                   + GotCard(q, 5) + GotCard(q, 6) + GotCard(q, 7)
    BY <2>2
  <2>6. Cards!Within(t + z.left[r.asked], z.scheduled, r.moved)
    BY <1>4 DEF Progress, CardsProgress
  <2> HIDE DEF t
  <2>7. /\ z.left[r.asked] \in Nat /\ y.left[r.asked] \in Nat /\ z.scheduled \in Nat
        /\ y.left[r.asked] <= z.left[r.asked] + d /\ z.left[r.asked] <= y.left[r.asked] + d
        /\ y.scheduled = z.scheduled
    BY <2>1 DEF FigureSizes, Apart
  <2>8. Cards!Within(t + y.left[r.asked], y.scheduled, q.moved)
    BY <1>1, <2>4, <2>6, <2>7 DEF Cards!Within
  <2> QED
    BY <1>1, <1>2, <1>4, <2>5, <2>8 DEF Progress, CardsProgress
<1>5. CASE r.kind = "summary"
  <2>1. /\ r.asked \in 0 .. 11
        /\ \A i \in 1 .. r.asked : r.got[Cards!SummaryQueries[i]] \in Nat
    BY <1>5, FiguresGiven
  <2>2. SummaryGiven(r)
    BY <1>5, SummaryFigures
  <2>3. /\ PartProgress(r, "in_transit", 2, z.inTransit, "late_in_transit", 5)
        /\ PartProgress(r, "in_process", 3, z.inProcess, "unloading", 4)
        /\ PartProgress(r, "entries", 6, z.came, "exits", 7)
        /\ LateProgress(r, z) /\ OnTimeProgress(r, z)
    BY <1>5 DEF Progress, SummaryProgress
  <2>4. /\ z.scheduled \in Nat /\ y.scheduled = z.scheduled
        /\ z.inTransit \in Nat /\ y.inTransit \in Nat /\ z.inProcess \in Nat
        /\ y.inProcess \in Nat /\ z.came \in Nat /\ y.came \in Nat
        /\ z.late \in Nat /\ y.late \in Nat /\ z.onTime \in Nat /\ y.onTime \in Nat
        /\ y.inTransit <= z.inTransit + d /\ y.inProcess <= z.inProcess + d
        /\ y.came <= z.came + d
        /\ y.late <= z.late + d /\ z.late <= y.late + d
        /\ y.onTime <= z.onTime + d /\ z.onTime <= y.onTime + d
    BY DEF FigureSizes, Apart
  <2>5. PartProgress(q, "in_transit", 2, y.inTransit, "late_in_transit", 5)
    BY ONLY <1>1, <2>2, <2>3, <2>4, d \in Nat DEF PartProgress, SummaryGiven
  <2>6. PartProgress(q, "in_process", 3, y.inProcess, "unloading", 4)
    BY ONLY <1>1, <2>2, <2>3, <2>4, d \in Nat DEF PartProgress, SummaryGiven
  <2>7. PartProgress(q, "entries", 6, y.came, "exits", 7)
    BY ONLY <1>1, <2>2, <2>3, <2>4, d \in Nat DEF PartProgress, SummaryGiven
  <2>8. LateProgress(q, y)
    BY ONLY <1>1, <2>2, <2>3, <2>4, d \in Nat DEF LateProgress, SummaryGiven
  <2>9. OnTimeProgress(q, y)
    BY ONLY <1>1, <2>2, <2>3, <2>4, d \in Nat
    DEF OnTimeProgress, SummaryGiven, Cards!Within
  <2> QED
    BY <1>1, <1>2, <1>5, <2>5, <2>6, <2>7, <2>8, <2>9 DEF Progress, SummaryProgress
<1>6. CASE r.kind = "gate"
  <2>1. /\ r.asked \in 0 .. 2 /\ (r.asked >= 1 => r.got["upcoming"] \in Nat)
        /\ r.asked = 2 => r.got["in_transit"] \in Nat
    BY <1>6, FiguresGiven, FiveStatuses
  <2>2. GateProgress(r, z) /\ y.scheduled = z.scheduled
    BY <1>6 DEF Progress, Apart
  <2>3. /\ z.inTransit \in Nat /\ y.inTransit \in Nat
        /\ y.inTransit <= z.inTransit + d /\ z.inTransit <= y.inTransit + d
    BY DEF FigureSizes, Apart
  <2>0. PageSize \in Int /\ z.inTransit \in Int /\ y.inTransit \in Int
    BY <1>3, <2>3
  <2>4. /\ Cards!Min({PageSize, z.inTransit}) \in Int
        /\ Cards!Min({PageSize, y.inTransit}) \in Int
        /\ Cards!Min({PageSize, y.inTransit}) <= Cards!Min({PageSize, z.inTransit}) + d
        /\ Cards!Min({PageSize, z.inTransit}) <= Cards!Min({PageSize, y.inTransit}) + d
    BY ONLY <2>0, <2>3, d \in Nat, NearWithin
  <2>5. r.asked = 2 => Cards!Min({PageSize, r.got["in_transit"]}) \in Int
    <3> SUFFICES ASSUME r.asked = 2 PROVE Cards!Min({PageSize, r.got["in_transit"]}) \in Int
      OBVIOUS
    <3>1. r.got["in_transit"] \in Int /\ 0 \in Nat
      BY <2>1
    <3> QED
      BY ONLY <2>0, <3>1, NearWithin
  <2>6. ASSUME NEW g \in Int, NEW a \in Int, NEW b \in Int, NEW m \in Nat,
               Cards!Within(g, a, m), a <= b + d, b <= a + d
        PROVE Cards!Within(g, b, m + d)
    BY <2>6 DEF Cards!Within
  <2>7. ASSUME NEW g \in Int, NEW a \in Int, NEW m \in Nat, Cards!Within(g, a, m)
        PROVE Cards!Within(g, a, m + d)
    BY <2>7 DEF Cards!Within
  <2>8. GateProgress(q, y)
    <3>1. CASE r.asked = 1
      BY <1>1, <2>1, <2>2, <2>4, <2>6, <3>1 DEF GateProgress
    <3>2. CASE r.asked = 2
      BY <1>1, <2>1, <2>2, <2>5, <2>7, <3>2 DEF GateProgress
    <3>3. CASE r.asked = 0
      BY <1>1, <3>3 DEF GateProgress
    <3> QED
      BY <2>1, <3>1, <3>2, <3>3
  <2> QED
    BY <1>1, <1>2, <1>6, <2>8 DEF Progress
<1>7. CASE r.kind = "waits"
  <2>1. /\ r.asked \in 0 .. 2
        /\ r.asked >= 1 => r.got["processed"] \in Nat
        /\ r.asked = 2 => r.got["excluded"] \in Nat
    BY <1>7, FiguresGiven DEF Cards!WaitQueries
  <2>2. WaitsProgress(r, z)
    BY <1>7 DEF Progress
  <2>3. /\ z.came \in Nat /\ y.came \in Nat /\ z.expected \in Nat /\ y.expected \in Nat
        /\ z.came <= y.came /\ z.expected <= y.expected
    BY DEF FigureSizes, Apart
  <2>4. WaitsProgress(q, y)
    BY <1>1, <2>1, <2>2, <2>3 DEF WaitsProgress
  <2> QED
    BY <1>1, <1>2, <1>7, <2>4 DEF Progress
<1>8. CASE r.kind = "list"
  <2>1. /\ r.asked \in 0 .. 2 /\ (r.asked >= 1 => r.got["count"] \in Nat)
        /\ r.asked = 2 => r.got["page"] \in Nat
        /\ r.filter \in ListFilters /\ r.skip \in Nat
    BY <1>8, FiguresGiven DEF RequestOK
  <2>2. ListProgress(r, z)
    BY <1>8 DEF Progress
  <2>3. /\ z.rows[r.filter] \in Nat /\ y.rows[r.filter] \in Nat
        /\ y.rows[r.filter] <= z.rows[r.filter] + d
        /\ z.rows[r.filter] <= y.rows[r.filter] + d
    BY <2>1 DEF FigureSizes, Apart
  <2>4. CASE r.asked = 0
    BY <1>1, <1>2, <1>8, <2>4 DEF Progress, ListProgress
  <2>5. CASE r.asked = 1
    <3>1. Cards!Within(y.rows[r.filter], r.got["count"], r.moved + d)
      BY <1>1, <2>1, <2>2, <2>3, <2>5 DEF ListProgress, Cards!Within
    <3> QED
      BY <1>1, <1>2, <1>8, <2>5, <3>1 DEF Progress, ListProgress
  <2>6. CASE r.asked = 2
    <3> DEFINE rest == Cards!Min({PageSize, Cards!Max({0, r.got["count"] - r.skip})})
    <3>1. r.got["count"] - r.skip \in Int
      BY <2>1, <2>6
    <3>2. rest \in Int
      <4>1. Cards!Max({0, r.got["count"] - r.skip}) \in Int
        BY ONLY <3>1, 0 \in Int, 0 \in Nat, NearWithin
      <4> QED
        BY ONLY <1>3, <4>1, 0 \in Nat, NearWithin
    <3>3. Cards!Within(r.got["page"], rest, r.moved)
      BY <2>2, <2>6 DEF ListProgress
    <3>4. ASSUME NEW g \in Int, NEW a \in Int, NEW m \in Nat, Cards!Within(g, a, m)
          PROVE Cards!Within(g, a, m + d)
      BY <3>4 DEF Cards!Within
    <3>5. Cards!Within(r.got["page"], rest, r.moved + d)
      <4> HIDE DEF rest
      <4> QED
        BY <1>1, <2>1, <2>6, <3>2, <3>3, <3>4
    <3> QED
      BY <1>1, <1>2, <1>8, <2>6, <3>5 DEF Progress, ListProgress
  <2> QED
    BY <2>1, <2>4, <2>5, <2>6
<1> QED
  BY <1>4, <1>5, <1>6, <1>7, <1>8 DEF RequestOK, AnswerKinds

\* An answer that was given stays right: what it is compared with does not change, and
\* more trucks can only have come.
LEMMA AnswersStay ==
  ASSUME NEW r, RequestOK(r), Answered(r), NEW z \in FigureSizes, NEW y \in FigureSizes,
         Progress(r, z),
         y.scheduled = z.scheduled, z.came <= y.came, y.left[7] = z.left[7]
  PROVE Progress(r, y)
<1>1. /\ r.kind = "cards" => r.asked = 7
      /\ r.kind = "summary" => r.asked = 11
      /\ r.kind \in {"gate", "waits", "list"} => r.asked = 2
  BY QueriesCounted DEF Answered
<1>2. CASE r.kind = "cards"
  BY <1>1, <1>2 DEF Progress, CardsProgress
<1>3. CASE r.kind = "summary"
  <2>1. PartProgress(r, "in_transit", 2, y.inTransit, "late_in_transit", 5)
    BY <1>1, <1>3 DEF Progress, SummaryProgress, PartProgress
  <2>2. PartProgress(r, "in_process", 3, y.inProcess, "unloading", 4)
    BY <1>1, <1>3 DEF Progress, SummaryProgress, PartProgress
  <2>3. PartProgress(r, "entries", 6, y.came, "exits", 7)
    BY <1>1, <1>3 DEF Progress, SummaryProgress, PartProgress
  <2>4. LateProgress(r, y)
    BY <1>1, <1>3 DEF Progress, SummaryProgress, LateProgress
  <2>5. OnTimeProgress(r, y)
    BY <1>1, <1>3 DEF Progress, SummaryProgress, OnTimeProgress
  <2> QED
    BY <1>3, <2>1, <2>2, <2>3, <2>4, <2>5 DEF Progress, SummaryProgress
<1>4. CASE r.kind = "gate"
  BY <1>1, <1>4 DEF Progress, GateProgress
<1>5. CASE r.kind = "waits"
  <2>1. r.got["processed"] \in Nat /\ r.got["excluded"] \in Nat
    BY <1>1, <1>5, FiguresGiven DEF Cards!WaitQueries
  <2>2. z.came \in Nat /\ y.came \in Nat
    BY DEF FigureSizes
  <2>3. WaitsProgress(r, z)
    BY <1>5 DEF Progress
  <2>4. WaitsProgress(r, y)
    BY <1>1, <1>5, <2>1, <2>2, <2>3 DEF WaitsProgress
  <2> QED
    BY <1>5, <2>4 DEF Progress
<1>6. CASE r.kind = "list"
  BY <1>1, <1>6 DEF Progress, ListProgress
<1> QED
  BY <1>2, <1>3, <1>4, <1>5, <1>6 DEF RequestOK, AnswerKinds

-----------------------------------------------------------------------------
(* The queries *)

\* The answer r with the figures v of its next query.
WithFigures(r, v) ==
  [r EXCEPT !.asked = @ + 1,
            !.got = [f \in DOMAIN r.got \cup DOMAIN v |->
                       IF f \in DOMAIN v THEN v[f] ELSE r.got[f]]]

LEMMA FiguresAreAdded ==
  ASSUME NEW r, RequestOK(r), r.asked < Len(Cards!Queries(r.kind)),
         NEW v \in [Cards!Queries(r.kind)[r.asked + 1] -> Nat],
         NEW q, q = WithFigures(r, v)
  PROVE /\ RequestOK(q) /\ q.kind = r.kind /\ q.skip = r.skip /\ q.filter = r.filter
        /\ q.moved = r.moved /\ q.asked = r.asked + 1
        /\ \A f \in Cards!Queries(r.kind)[r.asked + 1] : q.got[f] = v[f]
        /\ \A i \in 1 .. r.asked : \A f \in Cards!Queries(r.kind)[i] :
             f \notin Cards!Queries(r.kind)[r.asked + 1] => q.got[f] = r.got[f]
<1> DEFINE Q == Cards!Queries(r.kind)
           figures == Q[r.asked + 1]
           got == [f \in DOMAIN r.got \cup DOMAIN v |->
                     IF f \in DOMAIN v THEN v[f] ELSE r.got[f]]
<1>1. /\ DOMAIN r = RequestFields /\ r.kind \in AnswerKinds
      /\ r.moved \in Nat /\ r.skip \in Nat /\ (r.kind = "list" => r.filter \in ListFilters)
      /\ r.asked \in 0 .. Len(Q)
      /\ DOMAIN r.got = UNION {Q[i] : i \in 1 .. r.asked}
      /\ \A f \in DOMAIN r.got : r.got[f] \in Nat
  BY DEF RequestOK
<1>2. /\ DOMAIN q = RequestFields /\ q.kind = r.kind /\ q.skip = r.skip
      /\ q.filter = r.filter /\ q.moved = r.moved /\ q.asked = r.asked + 1 /\ q.got = got
  BY <1>1 DEF WithFigures, RequestFields
<1>3. DOMAIN v = figures /\ \A f \in figures : v[f] \in Nat
  OBVIOUS
<1>4. Len(Q) \in Nat
  BY <1>1, QueriesCounted DEF AnswerKinds
<1>5. r.asked + 1 \in 1 .. Len(Q) /\ 1 .. r.asked + 1 = 1 .. r.asked \cup {r.asked + 1}
  BY <1>1, <1>4
<1> HIDE DEF Q
<1>6. DOMAIN got = UNION {Q[i] : i \in 1 .. q.asked}
  BY <1>1, <1>2, <1>3, <1>5
<1>7. \A f \in DOMAIN got : got[f] \in Nat
  BY <1>1, <1>3
<1>8. \A f \in figures : got[f] = v[f]
  BY <1>3
<1>9. \A i \in 1 .. r.asked : \A f \in Q[i] : f \notin figures => got[f] = r.got[f]
  BY <1>1, <1>3
<1> HIDE DEF got
<1>10. RequestOK(q)
  BY <1>1, <1>2, <1>5, <1>6, <1>7 DEF RequestOK, Q
<1> QED
  BY <1>2, <1>8, <1>9, <1>10 DEF Q

\* No query is asked twice.
LEMMA QueriesAreApart ==
  /\ \A i, j \in 1 .. 7 : Cards!CardQueries[i] = Cards!CardQueries[j] => i = j
  /\ \A i, j \in 1 .. 11 : Cards!SummaryQueries[i] = Cards!SummaryQueries[j] => i = j
<1>1. \A i, j \in 1 .. 7 : Cards!CardQueries[i] = Cards!CardQueries[j] => i = j
  BY DEF Cards!CardQueries
<1>2. \A i, j \in 1 .. 11 : Cards!SummaryQueries[i] = Cards!SummaryQueries[j] => i = j
  BY DEF Cards!SummaryQueries
<1> QED
  BY <1>1, <1>2

\* The queries of a kind of answer are the m figures of Q, one by one.
AreSingle(Q, m, kind) ==
  /\ m \in Nat /\ Len(Cards!Queries(kind)) = m
  /\ \A i \in 1 .. m : Cards!Queries(kind)[i] = {Q[i]}
  /\ \A i, j \in 1 .. m : Q[i] = Q[j] => i = j
\* q is r with one more of them.
HasOneMore(q, r, Q, x, m) ==
  /\ RequestOK(q) /\ q.kind = r.kind /\ q.skip = r.skip /\ q.filter = r.filter
  /\ q.moved = r.moved /\ q.asked = r.asked + 1 /\ r.asked \in 0 .. m - 1
  /\ q.got[Q[r.asked + 1]] = x /\ x \in Nat
  /\ \A i \in 1 .. r.asked : q.got[Q[i]] = r.got[Q[i]]

\* Queries of one figure each: the next figure comes to those there are.
LEMMA FigureIsAdded ==
  ASSUME NEW r, RequestOK(r), NEW m, NEW Q, AreSingle(Q, m, r.kind), r.asked < m,
         NEW v \in [Cards!Queries(r.kind)[r.asked + 1] -> Nat]
  PROVE HasOneMore(WithFigures(r, v), r, Q, v[Q[r.asked + 1]], m)
<1> DEFINE q == WithFigures(r, v)
<1>0. /\ m \in Nat /\ Len(Cards!Queries(r.kind)) = m
      /\ \A i \in 1 .. m : Cards!Queries(r.kind)[i] = {Q[i]}
      /\ \A i, j \in 1 .. m : Q[i] = Q[j] => i = j
  BY DEF AreSingle
<1>1. r.asked \in 0 .. m - 1 /\ r.asked + 1 \in 1 .. m
  BY <1>0 DEF RequestOK
<1>2. /\ RequestOK(q) /\ q.kind = r.kind /\ q.skip = r.skip /\ q.filter = r.filter
      /\ q.moved = r.moved /\ q.asked = r.asked + 1
      /\ \A f \in Cards!Queries(r.kind)[r.asked + 1] : q.got[f] = v[f]
      /\ \A i \in 1 .. r.asked : \A f \in Cards!Queries(r.kind)[i] :
           f \notin Cards!Queries(r.kind)[r.asked + 1] => q.got[f] = r.got[f]
  BY <1>0, FiguresAreAdded
<1> HIDE DEF q
<1>3. Cards!Queries(r.kind)[r.asked + 1] = {Q[r.asked + 1]}
  BY <1>0, <1>1
<1>4. q.got[Q[r.asked + 1]] = v[Q[r.asked + 1]] /\ v[Q[r.asked + 1]] \in Nat
  BY <1>2, <1>3
<1>5. ASSUME NEW i \in 1 .. r.asked PROVE q.got[Q[i]] = r.got[Q[i]]
  <2>1. i \in 1 .. m /\ i # r.asked + 1
    BY ONLY <1>0, <1>1, i \in 1 .. r.asked
  <2>2. Q[i] \in Cards!Queries(r.kind)[i] /\ Q[i] # Q[r.asked + 1]
    BY <1>0, <1>1, <2>1
  <2> QED
    BY <1>2, <1>3, <2>2
<1> QED
  BY <1>1, <1>2, <1>4, <1>5 DEF HasOneMore, q

LEMMA SinglesAre ==
  /\ AreSingle(Cards!CardQueries, 7, "cards")
  /\ AreSingle(Cards!SummaryQueries, 11, "summary")
  /\ AreSingle(<<"count", "page">>, 2, "list")
<1>1. AreSingle(Cards!CardQueries, 7, "cards")
  BY QueriesOfKinds, QueriesCounted, QueriesAreApart DEF AreSingle
<1>2. AreSingle(Cards!SummaryQueries, 11, "summary")
  BY QueriesOfKinds, QueriesCounted, QueriesAreApart DEF AreSingle
<1>3. AreSingle(<<"count", "page">>, 2, "list")
  BY QueriesOfKinds, QueriesCounted DEF AreSingle
<1> QED
  BY <1>1, <1>2, <1>3

\* The next card counts what it takes from those left.
LEMMA CardIsAdded ==
  ASSUME NEW r, RequestOK(r), r.kind = "cards", r.asked < 7, NEW z \in FigureSizes,
         Progress(r, z),
         NEW v \in [Cards!Queries("cards")[r.asked + 1] -> Nat],
         v[Cards!CardQueries[r.asked + 1]] + z.left[r.asked + 1] = z.left[r.asked]
  PROVE RequestOK(WithFigures(r, v)) /\ Progress(WithFigures(r, v), z)
<1> DEFINE q == WithFigures(r, v)
           n == r.asked
<1>1. n \in 0 .. 6 /\ n + 1 \in 1 .. 7 /\ n + 1 \in 0 .. 7
  BY FiguresGiven
<1>2. /\ AreSingle(Cards!CardQueries, 7, r.kind)
      /\ v \in [Cards!Queries(r.kind)[r.asked + 1] -> Nat]
  BY SinglesAre
<1>3. HasOneMore(q, r, Cards!CardQueries, v[Cards!CardQueries[r.asked + 1]], 7)
  BY <1>2, FigureIsAdded
<1> HIDE DEF q
<1> DEFINE x == v[Cards!CardQueries[n + 1]]
<1>6. x \in Nat
  BY <1>3 DEF HasOneMore
<1>7. \A i \in 1 .. 7 : GotCard(r, i) \in Nat
  BY FiguresGiven DEF GotCard
<1>8. /\ GotCard(r, n + 1) = 0 /\ GotCard(q, n + 1) = x
      /\ \A i \in 1 .. 7 : i # n + 1 => GotCard(q, i) = GotCard(r, i)
  BY <1>1, <1>3 DEF GotCard, HasOneMore
<1> DEFINE Total(s) == GotCard(s, 1) + GotCard(s, 2) + GotCard(s, 3) + GotCard(s, 4)
                         + GotCard(s, 5) + GotCard(s, 6) + GotCard(s, 7)
<1> HIDE DEF x, n
<1>9. Total(q) = Total(r) + x /\ Total(r) \in Nat
  <2>1. n \in {0, 1, 2, 3, 4, 5, 6}
    BY <1>1
  <2> QED
    BY ONLY <1>6, <1>7, <1>8, <2>1
<1>10. /\ z.left[n] \in Nat /\ z.left[n + 1] \in Nat /\ z.scheduled \in Nat
  BY <1>1 DEF FigureSizes
<1>11. r.moved \in Nat
  BY DEF RequestOK
<1>12. Cards!Within(Total(r) + z.left[n], z.scheduled, r.moved)
  BY DEF Progress, CardsProgress, n
<1>13. x + z.left[n + 1] = z.left[n]
  BY DEF x, n
<1> HIDE DEF Total
<1>14. Total(q) + z.left[n + 1] = Total(r) + z.left[n]
  BY <1>6, <1>9, <1>10, <1>13
<1>15. Cards!Within(Total(q) + z.left[q.asked], z.scheduled, q.moved)
  BY <1>3, <1>12, <1>14 DEF n, HasOneMore
<1>16. CardsProgress(q, z)
  BY <1>15 DEF CardsProgress, Total
<1> QED
  BY <1>3, <1>16 DEF Progress, q, HasOneMore

\* What the k-th query of a summary counts.
SummaryFigure(k, x, z) ==
  /\ k = 1 => x = z.scheduled
  /\ k = 2 => x = z.inTransit
  /\ k = 3 => x = z.inProcess
  /\ k = 4 => x <= z.inProcess
  /\ k = 5 => x <= z.inTransit
  /\ k = 6 => x = z.came
  /\ k = 7 => x <= z.came
  /\ k = 8 => x + z.late <= z.scheduled
  /\ k = 9 => x = z.late
  /\ k = 10 => x = z.late + z.onTime
  /\ k = 11 => x = z.onTime

\* The next figure of a summary is of some of the rows an earlier one was of.
LEMMA SummaryIsAdded ==
  ASSUME NEW r, RequestOK(r), r.kind = "summary", r.asked < 11, NEW z \in FigureSizes,
         Progress(r, z), NEW v \in [Cards!Queries("summary")[r.asked + 1] -> Nat],
         SummaryFigure(r.asked + 1, v[Cards!SummaryQueries[r.asked + 1]], z)
  PROVE RequestOK(WithFigures(r, v)) /\ Progress(WithFigures(r, v), z)
<1> DEFINE q == WithFigures(r, v)
           n == r.asked
           x == v[Cards!SummaryQueries[r.asked + 1]]
<1>1. /\ AreSingle(Cards!SummaryQueries, 11, r.kind)
      /\ v \in [Cards!Queries(r.kind)[r.asked + 1] -> Nat]
  BY SinglesAre
<1>2. HasOneMore(q, r, Cards!SummaryQueries, x, 11)
  BY <1>1, FigureIsAdded
<1> HIDE DEF q, n, x
<1>3. /\ n >= 1 => q.got["total"] = r.got["total"]
      /\ n >= 2 => q.got["in_transit"] = r.got["in_transit"]
      /\ n >= 3 => q.got["in_process"] = r.got["in_process"]
      /\ n >= 4 => q.got["unloading"] = r.got["unloading"]
      /\ n >= 5 => q.got["late_in_transit"] = r.got["late_in_transit"]
      /\ n >= 6 => q.got["entries"] = r.got["entries"]
      /\ n >= 7 => q.got["exits"] = r.got["exits"]
      /\ n >= 8 => q.got["overdue"] = r.got["overdue"]
      /\ n >= 9 => q.got["came_late"] = r.got["came_late"]
      /\ n >= 10 => q.got["arrived"] = r.got["arrived"]
  <2>1. \A i \in 1 .. 10 : n >= i => i \in 1 .. n
    BY <1>2 DEF HasOneMore, n
  <2>2. \A i \in 1 .. 10 :
          n >= i => q.got[Cards!SummaryQueries[i]] = r.got[Cards!SummaryQueries[i]]
    BY <1>2, <2>1 DEF HasOneMore, n
  <2>3. /\ 1 \in 1 .. 10 /\ 2 \in 1 .. 10 /\ 3 \in 1 .. 10 /\ 4 \in 1 .. 10
        /\ 5 \in 1 .. 10 /\ 6 \in 1 .. 10 /\ 7 \in 1 .. 10 /\ 8 \in 1 .. 10
        /\ 9 \in 1 .. 10 /\ 10 \in 1 .. 10
    OBVIOUS
  <2> QED
    BY ONLY <2>2, <2>3, SummaryNames
<1>4. /\ n = 0 => q.got["total"] = x
      /\ n = 1 => q.got["in_transit"] = x
      /\ n = 2 => q.got["in_process"] = x
      /\ n = 3 => q.got["unloading"] = x
      /\ n = 4 => q.got["late_in_transit"] = x
      /\ n = 5 => q.got["entries"] = x
      /\ n = 6 => q.got["exits"] = x
      /\ n = 7 => q.got["overdue"] = x
      /\ n = 8 => q.got["came_late"] = x
      /\ n = 9 => q.got["arrived"] = x
      /\ n = 10 => q.got["on_time"] = x
  <2>1. q.got[Cards!SummaryQueries[n + 1]] = x
    BY <1>2 DEF HasOneMore, n
  <2> QED
    BY ONLY <2>1, SummaryNames
<1>5. SummaryGiven(q) /\ q.asked = n + 1 /\ r.asked = n /\ q.moved = r.moved
  BY <1>2, SummaryFigures DEF n, HasOneMore
<1>6. SummaryFigure(n + 1, x, z)
  BY DEF n, x
<1>7. /\ PartProgress(r, "in_transit", 2, z.inTransit, "late_in_transit", 5)
      /\ PartProgress(r, "in_process", 3, z.inProcess, "unloading", 4)
      /\ PartProgress(r, "entries", 6, z.came, "exits", 7)
      /\ LateProgress(r, z) /\ OnTimeProgress(r, z)
  BY DEF Progress, SummaryProgress
<1>8. /\ z.scheduled \in Nat /\ z.inTransit \in Nat /\ z.inProcess \in Nat
      /\ z.came \in Nat /\ z.late \in Nat /\ z.onTime \in Nat
      /\ r.moved \in Nat /\ n \in 0 .. 10 /\ x \in Nat
  BY <1>2 DEF FigureSizes, RequestOK, HasOneMore, n
<1>9. PartProgress(q, "in_transit", 2, z.inTransit, "late_in_transit", 5)
  BY ONLY <1>3, <1>4, <1>5, <1>6, <1>7, <1>8 DEF PartProgress, SummaryGiven, SummaryFigure
<1>10. PartProgress(q, "in_process", 3, z.inProcess, "unloading", 4)
  BY ONLY <1>3, <1>4, <1>5, <1>6, <1>7, <1>8 DEF PartProgress, SummaryGiven, SummaryFigure
<1>11. PartProgress(q, "entries", 6, z.came, "exits", 7)
  BY ONLY <1>3, <1>4, <1>5, <1>6, <1>7, <1>8 DEF PartProgress, SummaryGiven, SummaryFigure
<1>12. LateProgress(q, z)
  BY ONLY <1>3, <1>4, <1>5, <1>6, <1>7, <1>8 DEF LateProgress, SummaryGiven, SummaryFigure
<1>13. OnTimeProgress(q, z)
  BY ONLY <1>3, <1>4, <1>5, <1>6, <1>7, <1>8
  DEF OnTimeProgress, SummaryGiven, SummaryFigure, Cards!Within
<1> QED
  BY <1>2, <1>9, <1>10, <1>11, <1>12, <1>13 DEF Progress, SummaryProgress, q, HasOneMore

\* The page is cut from the rows that the count was of.
LEMMA ListIsAdded ==
  ASSUME Cards!DashboardAssumption, NEW r, RequestOK(r), r.kind = "list", r.asked < 2,
         NEW z \in FigureSizes, Progress(r, z),
         NEW v \in [Cards!Queries("list")[r.asked + 1] -> Nat],
         r.asked = 0 => v["count"] = z.rows[r.filter],
         r.asked = 1 => v["page"] =
           Cards!Min({PageSize, Cards!Max({0, z.rows[r.filter] - r.skip})})
  PROVE RequestOK(WithFigures(r, v)) /\ Progress(WithFigures(r, v), z)
<1> DEFINE q == WithFigures(r, v)
           Q == <<"count", "page">>
           x == v[Q[r.asked + 1]]
<1>1. /\ AreSingle(Q, 2, r.kind)
      /\ v \in [Cards!Queries(r.kind)[r.asked + 1] -> Nat]
  BY SinglesAre
<1>2. HasOneMore(q, r, Q, x, 2)
  <2> HIDE DEF Q
  <2> QED
    BY <1>1, FigureIsAdded
<1>3. /\ r.asked \in {0, 1} /\ x \in Nat /\ q.asked = r.asked + 1 /\ RequestOK(q)
      /\ q.kind = "list" /\ q.skip = r.skip /\ q.filter = r.filter /\ q.moved = r.moved
      /\ q.got[Q[r.asked + 1]] = x
      /\ \A i \in 1 .. r.asked : q.got[Q[i]] = r.got[Q[i]]
  <2> HIDE DEF q, x, Q
  <2> QED
    BY <1>2 DEF HasOneMore
<1>4. /\ r.moved \in Nat /\ r.skip \in Nat /\ r.filter \in ListFilters
      /\ z.rows[r.filter] \in Nat
  BY DEF RequestOK, FigureSizes
<1>5. PageSize \in Int
  BY DEF Cards!DashboardAssumption
<1> HIDE DEF q
<1>6. CASE r.asked = 0
  <2>1. q.got["count"] = z.rows[r.filter]
    BY <1>3, <1>6
  <2>2. Cards!Within(z.rows[r.filter], q.got["count"], q.moved)
    BY <1>3, <1>4, <2>1 DEF Cards!Within
  <2> QED
    BY <1>3, <1>6, <2>2 DEF Progress, ListProgress, q
<1>7. CASE r.asked = 1
  <2>1. q.got["count"] = r.got["count"]
    <3>1. 1 \in 1 .. r.asked
      BY <1>7
    <3> QED
      BY <1>3, <3>1
  <2>2. q.got["page"] = Cards!Min({PageSize, Cards!Max({0, z.rows[r.filter] - r.skip})})
    BY <1>3, <1>7
  <2>3. /\ Cards!Within(z.rows[r.filter], r.got["count"], r.moved)
        /\ r.got["count"] \in Nat
    BY <1>7, FiguresGiven DEF Progress, ListProgress
  <2> DEFINE a == z.rows[r.filter] - r.skip
             b == r.got["count"] - r.skip
  <2>4. /\ a \in Int /\ b \in Int /\ a <= b + r.moved /\ b <= a + r.moved
    BY <1>4, <2>3 DEF Cards!Within
  <2> HIDE DEF a, b
  <2>5. /\ Cards!Max({0, a}) \in Int /\ Cards!Max({0, b}) \in Int
        /\ Cards!Max({0, a}) <= Cards!Max({0, b}) + r.moved
        /\ Cards!Max({0, b}) <= Cards!Max({0, a}) + r.moved
    BY ONLY <1>4, <2>4, 0 \in Int, NearWithin
  <2>6. /\ Cards!Min({PageSize, Cards!Max({0, a})}) \in Int
        /\ Cards!Min({PageSize, Cards!Max({0, b})}) \in Int
        /\ Cards!Min({PageSize, Cards!Max({0, a})})
             <= Cards!Min({PageSize, Cards!Max({0, b})}) + r.moved
        /\ Cards!Min({PageSize, Cards!Max({0, b})})
             <= Cards!Min({PageSize, Cards!Max({0, a})}) + r.moved
    BY ONLY <1>4, <1>5, <2>5, NearWithin
  <2>7. Cards!Within(Cards!Min({PageSize, Cards!Max({0, a})}),
                     Cards!Min({PageSize, Cards!Max({0, b})}), r.moved)
    BY ONLY <1>4, <2>6 DEF Cards!Within
  <2>8. Cards!Within(q.got["page"],
                     Cards!Min({PageSize, Cards!Max({0, q.got["count"] - q.skip})}), q.moved)
    BY <1>3, <2>1, <2>2, <2>7 DEF a, b
  <2> QED
    BY <1>3, <1>7, <2>8 DEF Progress, ListProgress, q
<1> QED
  BY <1>3, <1>6, <1>7

\* The grouped count gives every appointment to one status.
LEMMA GateIsAdded ==
  ASSUME Cards!DashboardAssumption, NEW r, RequestOK(r), r.kind = "gate", r.asked < 2,
         NEW z \in FigureSizes, Progress(r, z),
         NEW v \in [Cards!Queries("gate")[r.asked + 1] -> Nat],
         r.asked = 0 => v["upcoming"] = Cards!Min({PageSize, z.inTransit}),
         r.asked = 1 =>
           /\ v["in_transit"] = z.inTransit
           /\ v["scheduled"] + v["in_transit"] + v["in_process"] + v["completed"]
                + v["canceled"] = z.scheduled
  PROVE RequestOK(WithFigures(r, v)) /\ Progress(WithFigures(r, v), z)
<1> DEFINE q == WithFigures(r, v)
<1>1. /\ v \in [Cards!Queries(r.kind)[r.asked + 1] -> Nat]
      /\ r.asked < Len(Cards!Queries(r.kind))
  BY QueriesCounted
<1>2. /\ RequestOK(q) /\ q.kind = r.kind
      /\ q.moved = r.moved /\ q.asked = r.asked + 1
      /\ \A f \in Cards!Queries(r.kind)[r.asked + 1] : q.got[f] = v[f]
      /\ \A i \in 1 .. r.asked : \A f \in Cards!Queries(r.kind)[i] :
             f \notin Cards!Queries(r.kind)[r.asked + 1] => q.got[f] = r.got[f]
  BY <1>1, FiguresAreAdded
<1>3. Cards!Queries(r.kind)[1] = {"upcoming"}
      /\ Cards!Queries(r.kind)[2] =
           {"scheduled", "in_transit", "in_process", "completed", "canceled"}
  BY QueriesOfKinds, FiveStatuses DEF Cards!GateQueries
<1>4. r.asked \in {0, 1} /\ r.moved \in Nat /\ PageSize \in Int /\ z.inTransit \in Int
  <2>1. r.asked \in 0 .. 2
    BY FiguresGiven
  <2>2. PageSize \in Int /\ z.inTransit \in Int
    BY DEF FigureSizes, Cards!DashboardAssumption
  <2>3. r.moved \in Nat
    BY DEF RequestOK
  <2> QED
    BY <2>1, <2>2, <2>3
<1>5. Cards!Min({PageSize, z.inTransit}) \in Int
  BY ONLY <1>4, 0 \in Nat, NearWithin
<1> HIDE DEF q
<1>6. CASE r.asked = 0
  <2>1. q.got["upcoming"] = Cards!Min({PageSize, z.inTransit}) /\ q.asked = 1
    BY <1>2, <1>3, <1>6
  <2>2. GateProgress(q, z)
    BY <1>2, <1>4, <1>5, <2>1 DEF GateProgress, Cards!Within
  <2> QED
    BY <1>2, <2>2 DEF Progress, q
<1>7. CASE r.asked = 1
  <2>1. r.asked + 1 = 2 /\ 1 \in 1 .. r.asked /\ q.asked = 2
    BY <1>2, <1>7
  <2>2. /\ q.got["scheduled"] = v["scheduled"] /\ q.got["in_transit"] = v["in_transit"]
        /\ q.got["in_process"] = v["in_process"] /\ q.got["completed"] = v["completed"]
        /\ q.got["canceled"] = v["canceled"] /\ q.got["upcoming"] = r.got["upcoming"]
    BY <1>2, <1>3, <2>1
  <2>3. Cards!Within(r.got["upcoming"], Cards!Min({PageSize, z.inTransit}), r.moved)
    BY <1>7 DEF Progress, GateProgress
  <2>4. GateProgress(q, z)
    BY <1>2, <1>7, <2>1, <2>2, <2>3 DEF GateProgress
  <2> QED
    BY <1>2, <2>4 DEF Progress, q
<1> QED
  BY <1>4, <1>6, <1>7

\* The classes of waiting share out the trucks that came.
LEMMA WaitsAreAdded ==
  ASSUME NEW r, RequestOK(r), r.kind = "waits", r.asked < 2, NEW z \in FigureSizes,
         Progress(r, z),
         NEW v \in [Cards!Queries("waits")[r.asked + 1] -> Nat],
         r.asked = 0 =>
           /\ v["processed"] = z.expected
           /\ v["0_5"] + v["5_15"] + v["15_30"] + v["over_30"] = v["processed"]
           /\ v["delayed"] = v["15_30"] + v["over_30"],
         r.asked = 1 => z.expected + v["excluded"] = z.came
  PROVE RequestOK(WithFigures(r, v)) /\ Progress(WithFigures(r, v), z)
<1> DEFINE q == WithFigures(r, v)
<1>1. /\ v \in [Cards!Queries(r.kind)[r.asked + 1] -> Nat]
      /\ r.asked < Len(Cards!Queries(r.kind))
  BY QueriesCounted
<1>2. /\ RequestOK(q) /\ q.kind = r.kind
      /\ q.moved = r.moved /\ q.asked = r.asked + 1
      /\ \A f \in Cards!Queries(r.kind)[r.asked + 1] : q.got[f] = v[f]
      /\ \A i \in 1 .. r.asked : \A f \in Cards!Queries(r.kind)[i] :
             f \notin Cards!Queries(r.kind)[r.asked + 1] => q.got[f] = r.got[f]
  BY <1>1, FiguresAreAdded
<1>3. /\ Cards!Queries(r.kind)[1] =
           {"processed", "delayed", "0_5", "5_15", "15_30", "over_30"}
      /\ Cards!Queries(r.kind)[2] = {"excluded"}
  BY QueriesOfKinds DEF Cards!WaitQueries
<1>4. r.asked \in {0, 1} /\ z.expected \in Nat /\ z.came \in Nat
  <2>1. r.asked \in 0 .. 2
    BY FiguresGiven
  <2> QED
    BY <2>1 DEF FigureSizes
<1> HIDE DEF q
<1>5. CASE r.asked = 0
  <2>1. /\ q.got["processed"] = v["processed"] /\ q.got["delayed"] = v["delayed"]
        /\ q.got["0_5"] = v["0_5"] /\ q.got["5_15"] = v["5_15"]
        /\ q.got["15_30"] = v["15_30"] /\ q.got["over_30"] = v["over_30"] /\ q.asked = 1
    BY <1>2, <1>3, <1>5
  <2>2. WaitsProgress(q, z)
    BY <1>4, <1>5, <2>1 DEF WaitsProgress
  <2> QED
    BY <1>2, <2>2 DEF Progress, q
<1>6. CASE r.asked = 1
  <2>1. r.asked + 1 = 2 /\ 1 \in 1 .. r.asked /\ q.asked = 2
    BY <1>2, <1>6
  <2>2. /\ q.got["excluded"] = v["excluded"] /\ v["excluded"] \in Nat
        /\ \A f \in {"processed", "delayed", "0_5", "5_15", "15_30", "over_30"} :
             q.got[f] = r.got[f]
    BY <1>1, <1>2, <1>3, <2>1
  <2>3. WaitsProgress(r, z) /\ r.got["processed"] \in Nat
    BY <1>6, FiguresGiven DEF Progress, Cards!WaitQueries
  <2>4. WaitsProgress(q, z)
    BY <1>4, <1>6, <2>1, <2>2, <2>3 DEF WaitsProgress
  <2> QED
    BY <1>2, <2>4 DEF Progress, q
<1> QED
  BY <1>4, <1>5, <1>6

-----------------------------------------------------------------------------
(* What the queries count *)

LEMMA SizesAdd ==
  ASSUME Cards!DashboardAssumption, NEW S \in SUBSET Appointments,
         NEW T \in SUBSET Appointments, \A a \in S : a \notin T
  PROVE Size(S \cup T) = Size(S) + Size(T)
<1>1. IsFiniteSet(S) /\ IsFiniteSet(T) /\ Size(S) \in Nat /\ Size(T) \in Nat
  BY SizesAreNumbers
<1>2. S \cap T = {} /\ Cardinality(S \cap T) = 0
  BY FS_EmptySet
<1>3. Cardinality(S \cup T) = Cardinality(S) + Cardinality(T) - Cardinality(S \cap T)
  BY <1>1, FS_Union
<1> QED
  BY <1>1, <1>2, <1>3 DEF Size

LEMMA SizesGrow ==
  ASSUME Cards!DashboardAssumption, NEW S \in SUBSET Appointments,
         NEW T \in SUBSET Appointments, S \subseteq T
  PROVE Size(S) <= Size(T)
<1>1. IsFiniteSet(T)
  BY SizesAreNumbers
<1> QED
  BY <1>1, FS_Subset DEF Size

\* The first card takes its rows from all, each other from those left, and the last
\* leaves none.
LEMMA CardsShareTheDay ==
  ASSUME Cards!DashboardAssumption, DayTypes
  PROVE /\ DaySizes.left[0] = DaySizes.scheduled /\ DaySizes.left[7] = 0
        /\ \A i \in 1 .. 7 :
             Size(Cards!Card(Cards!CardQueries[i], Cards!Cutoff)) + DaySizes.left[i]
               = DaySizes.left[i - 1]
<1>1. \A a \in Cards!Scheduled : status[a] \in Cards!Lifecycle!Statuses
  BY DEF DayTypes, Cards!Scheduled
<1>2. \A a \in Cards!Scheduled : CardOf(a) \in 1 .. 7
  BY DEF CardOf
<1>3. CardsLeft(0) = Cards!Scheduled /\ CardsLeft(7) = {}
  <2>1. \A k \in 1 .. 7 : k > 0 /\ ~(k > 7)
    OBVIOUS
  <2> QED
    BY <1>2, <2>1 DEF CardsLeft
<1>4. /\ Cards!CardQueries[1] = "scheduled" /\ Cards!CardQueries[2] = "in_transit"
      /\ Cards!CardQueries[3] = "delayed" /\ Cards!CardQueries[4] = "unloading"
      /\ Cards!CardQueries[5] = "in_process" /\ Cards!CardQueries[6] = "completed"
      /\ Cards!CardQueries[7] = "canceled"
  BY DEF Cards!CardQueries
<1> DEFINE Counted(i) == Cards!Card(Cards!CardQueries[i], Cards!Cutoff)
<1>5. ASSUME NEW i \in 1 .. 7
      PROVE Counted(i) = {a \in Cards!Scheduled : CardOf(a) = i}
  <2> DEFINE Rows(k) == {a \in Cards!Scheduled : CardOf(a) = k}
  <2>1. Counted(1) = Rows(1)
    BY <1>1, <1>4, FiveStatuses DEF CardOf, Cards!Card, Cards!In, Cards!Delayed
  <2>2. Counted(2) = Rows(2)
    BY <1>1, <1>4, FiveStatuses DEF CardOf, Cards!Card, Cards!In
  <2>3. Counted(3) = Rows(3)
    BY <1>1, <1>4, FiveStatuses DEF CardOf, Cards!Card, Cards!In, Cards!Delayed
  <2>4. Counted(4) = Rows(4)
    BY <1>1, <1>4, FiveStatuses DEF CardOf, Cards!Card, Cards!In, Cards!Unloading
  <2>5. Counted(5) = Rows(5)
    BY <1>1, <1>4, FiveStatuses
    DEF CardOf, Cards!Card, Cards!CardInProcess, Cards!In, Cards!Unloading
  <2>6. Counted(6) = Rows(6)
    BY <1>1, <1>4, FiveStatuses DEF CardOf, Cards!Card, Cards!In
  <2>7. Counted(7) = Rows(7)
    BY <1>1, <1>4, FiveStatuses DEF CardOf, Cards!Card, Cards!In
  <2> HIDE DEF Counted, Rows
  <2>8. i \in {1, 2, 3, 4, 5, 6, 7}
    OBVIOUS
  <2>9. Counted(i) = Rows(i)
    BY ONLY <2>1, <2>2, <2>3, <2>4, <2>5, <2>6, <2>7, <2>8
  <2> QED
    BY <2>9 DEF Counted, Rows
<1>6. ASSUME NEW i \in 1 .. 7
      PROVE Size(Counted(i)) + Size(CardsLeft(i)) = Size(CardsLeft(i - 1))
  <2> HIDE DEF Counted
  <2>1. /\ Counted(i) \in SUBSET Appointments /\ CardsLeft(i) \in SUBSET Appointments
        /\ \A a \in Counted(i) : a \notin CardsLeft(i)
    BY <1>2, <1>5, FiguresCount DEF CardsLeft
  <2>2. \A k \in 1 .. 7 : k > i - 1 <=> k = i \/ k > i
    OBVIOUS
  <2>3. CardsLeft(i - 1) = Counted(i) \cup CardsLeft(i)
    BY <1>2, <1>5, <2>2 DEF CardsLeft
  <2> QED
    BY <2>1, <2>3, SizesAdd
<1>7. \A i \in 0 .. 7 : DaySizes.left[i] = Size(CardsLeft(i))
  BY DEF DaySizes
<1>8. Size({}) = 0
  BY FS_EmptySet DEF Size
<1>9. DaySizes.scheduled = Size(Cards!Scheduled)
  BY DEF DaySizes
<1>10. \A i \in 1 .. 7 : i \in 0 .. 7 /\ i - 1 \in 0 .. 7
  OBVIOUS
<1>11. DaySizes.left[0] = DaySizes.scheduled /\ DaySizes.left[7] = 0
  BY <1>3, <1>7, <1>8, <1>9
<1> QED
  BY <1>6, <1>7, <1>10, <1>11

\* What a summary's queries count, whatever its cutoff.
LEMMA SummaryCounts ==
  ASSUME Cards!DashboardAssumption, DayTypes, NEW c
  PROVE \A k \in 1 .. 11 :
          SummaryFigure(k, Size(Cards!Summary(Cards!SummaryQueries[k], c)), DaySizes)
<1> DEFINE Counted(k) == Cards!Summary(Cards!SummaryQueries[k], c)
<1>1. Counted(1) = Cards!Scheduled
  BY SummaryNames DEF Cards!Summary
<1>2. Counted(2) = InTransit
  BY SummaryNames DEF Cards!Summary, InTransit
<1>3. Counted(3) = InProcess
  BY SummaryNames DEF Cards!Summary, InProcess
<1>4. Counted(4) \subseteq InProcess
  BY SummaryNames DEF Cards!Summary, InProcess, Cards!Unloading
<1>5. Counted(5) \subseteq InTransit
  BY SummaryNames DEF Cards!Summary, InTransit
<1>6. Counted(6) = CameIn
  BY SummaryNames DEF Cards!Summary, CameIn
<1>7. Counted(7) \subseteq CameIn
  BY SummaryNames DEF Cards!Summary, CameIn, DayTypes
<1>8. /\ Counted(8) \subseteq Cards!Scheduled /\ CameLate \subseteq Cards!Scheduled
      /\ \A a \in Counted(8) : a \notin CameLate
  BY SummaryNames DEF Cards!Summary, Cards!In, CameLate, Cards!Arrived
<1>9. Counted(9) = CameLate
  BY SummaryNames DEF Cards!Summary, CameLate
<1>10. Counted(10) = CameLate \cup CameOnTime /\ \A a \in CameLate : a \notin CameOnTime
  BY SummaryNames DEF Cards!Summary, CameLate, CameOnTime
<1>11. Counted(11) = CameOnTime
  BY SummaryNames DEF Cards!Summary, CameOnTime
<1> HIDE DEF Counted
<1>12. /\ DaySizes.scheduled = Size(Cards!Scheduled) /\ DaySizes.inTransit = Size(InTransit)
       /\ DaySizes.inProcess = Size(InProcess) /\ DaySizes.came = Size(CameIn)
       /\ DaySizes.late = Size(CameLate) /\ DaySizes.onTime = Size(CameOnTime)
  BY DEF DaySizes
<1>13. InTransit \in SUBSET Appointments /\ InProcess \in SUBSET Appointments
  BY FiguresCount DEF InTransit, InProcess
<1>14. Size(Counted(4)) <= Size(InProcess) /\ Size(Counted(5)) <= Size(InTransit)
  BY <1>4, <1>5, <1>13, SizesGrow
<1>15. Size(Counted(7)) <= Size(CameIn)
  BY <1>7, FiguresCount, SizesGrow
<1>16. Size(Counted(8)) + Size(CameLate) <= Size(Cards!Scheduled)
  <2>1. /\ Counted(8) \in SUBSET Appointments /\ CameLate \in SUBSET Appointments
        /\ Counted(8) \cup CameLate \in SUBSET Appointments
        /\ Counted(8) \cup CameLate \subseteq Cards!Scheduled
    BY <1>8, FiguresCount
  <2>2. Size(Counted(8) \cup CameLate) = Size(Counted(8)) + Size(CameLate)
    BY <1>8, <2>1, SizesAdd
  <2>3. Size(Counted(8) \cup CameLate) <= Size(Cards!Scheduled)
    BY <2>1, FiguresCount, SizesGrow
  <2> QED
    BY <2>2, <2>3
<1>17. Size(Counted(10)) = Size(CameLate) + Size(CameOnTime)
  BY <1>10, FiguresCount, SizesAdd
<1>18. SUFFICES ASSUME NEW k \in 1 .. 11 PROVE SummaryFigure(k, Size(Counted(k)), DaySizes)
  BY DEF Counted
<1> QED
  BY <1>1, <1>2, <1>3, <1>6, <1>9, <1>11, <1>12, <1>14, <1>15, <1>16, <1>17 DEF SummaryFigure

\* The statuses share out the day's appointments.
LEMMA StatusesShareTheDay ==
  ASSUME Cards!DashboardAssumption, DayTypes
  PROVE /\ Size(Cards!In("in_transit")) = DaySizes.inTransit
        /\ Size(Cards!In("scheduled")) + Size(Cards!In("in_transit"))
             + Size(Cards!In("in_process")) + Size(Cards!In("completed"))
             + Size(Cards!In("canceled")) = DaySizes.scheduled
<1> DEFINE S1 == Cards!In("scheduled")
           S2 == Cards!In("in_transit")
           S3 == Cards!In("in_process")
           S4 == Cards!In("completed")
           S5 == Cards!In("canceled")
<1>1. /\ S1 \in SUBSET Appointments /\ S2 \in SUBSET Appointments
      /\ S3 \in SUBSET Appointments /\ S4 \in SUBSET Appointments
      /\ S5 \in SUBSET Appointments
  BY FiguresCount
<1>2. \A a \in Cards!Scheduled : status[a] \in Cards!Lifecycle!Statuses
  BY DEF DayTypes, Cards!Scheduled
<1>3. Cards!Scheduled = S1 \cup S2 \cup S3 \cup S4 \cup S5
  BY <1>2, FiveStatuses DEF Cards!In
<1>4. /\ \A a \in S1 : a \notin S2
      /\ \A a \in S1 \cup S2 : a \notin S3
      /\ \A a \in S1 \cup S2 \cup S3 : a \notin S4
      /\ \A a \in S1 \cup S2 \cup S3 \cup S4 : a \notin S5
  BY DEF Cards!In
<1> HIDE DEF S1, S2, S3, S4, S5
<1>0. /\ S1 \cup S2 \in SUBSET Appointments /\ S1 \cup S2 \cup S3 \in SUBSET Appointments
      /\ S1 \cup S2 \cup S3 \cup S4 \in SUBSET Appointments
  BY <1>1
<1>5. Size(S1 \cup S2) = Size(S1) + Size(S2)
  BY <1>0, <1>1, <1>4, SizesAdd
<1>6. Size(S1 \cup S2 \cup S3) = Size(S1 \cup S2) + Size(S3)
  BY <1>0, <1>1, <1>4, SizesAdd
<1>7. Size(S1 \cup S2 \cup S3 \cup S4) = Size(S1 \cup S2 \cup S3) + Size(S4)
  BY <1>0, <1>1, <1>4, SizesAdd
<1>8. Size(S1 \cup S2 \cup S3 \cup S4 \cup S5) = Size(S1 \cup S2 \cup S3 \cup S4) + Size(S5)
  BY <1>0, <1>1, <1>4, SizesAdd
<1>9. Size(S1) + Size(S2) + Size(S3) + Size(S4) + Size(S5) = Size(Cards!Scheduled)
  BY <1>3, <1>5, <1>6, <1>7, <1>8
<1> QED
  BY <1>9 DEF DaySizes, InTransit, S1, S2, S3, S4, S5

\* The classes of waiting share out the trucks that came and were expected.
LEMMA ClassesShareTheTrucks ==
  ASSUME Cards!DashboardAssumption, DayTypes
  PROVE /\ Size(Cards!WaitClass("processed")) = DaySizes.expected
        /\ Size(Cards!WaitClass("0_5")) + Size(Cards!WaitClass("5_15"))
             + Size(Cards!WaitClass("15_30")) + Size(Cards!WaitClass("over_30"))
             = Size(Cards!WaitClass("processed"))
        /\ Size(Cards!WaitClass("delayed"))
             = Size(Cards!WaitClass("15_30")) + Size(Cards!WaitClass("over_30"))
        /\ DaySizes.expected + Size(Cards!WaitClass("excluded")) = DaySizes.came
<1> DEFINE W1 == Cards!WaitClass("0_5")
           W2 == Cards!WaitClass("5_15")
           W3 == Cards!WaitClass("15_30")
           W4 == Cards!WaitClass("over_30")
           D == Cards!WaitClass("delayed")
           E == Cards!WaitClass("excluded")
<1>1. Cards!WaitClass("processed") = Cards!Came
  BY DEF Cards!WaitClass
<1>2. /\ WaitBounds[1] \in Int /\ WaitBounds[2] \in Int /\ WaitBounds[3] \in Int
      /\ WaitBounds[1] <= WaitBounds[2] /\ WaitBounds[2] <= WaitBounds[3]
  <2>1. WaitBounds \in Seq(Nat) /\ Len(WaitBounds) = 3
    BY DEF Cards!DashboardAssumption
  <2>2. \A i \in 1 .. Len(WaitBounds) : WaitBounds[i] \in Nat
    BY ONLY <2>1
  <2>3. \A i \in 1 .. 3 : WaitBounds[i] \in Nat
    BY ONLY <2>1, <2>2
  <2>4. WaitBounds[1] \in Nat /\ WaitBounds[2] \in Nat /\ WaitBounds[3] \in Nat
    BY ONLY <2>3
  <2> QED
    BY <2>4 DEF Cards!DashboardAssumption
<1>3. \A a \in Cards!Came : Cards!Waited(a) \in Int
  <2> SUFFICES ASSUME NEW a \in Cards!Came PROVE Cards!Waited(a) \in Int
    OBVIOUS
  <2>1. entry[a] \in Nat /\ slot[a] \in {0, 1}
    BY DEF Cards!Came, Cards!Scheduled, DayTypes
  <2>2. entry[a] - slot[a] \in Int
    BY <2>1
  <2>3. Cards!Max({0, entry[a] - slot[a]}) \in Int
    BY ONLY <2>2, 0 \in Int, 0 \in Nat, NearWithin
  <2> QED
    BY <2>3 DEF Cards!Waited
<1>4. /\ W1 \in SUBSET Appointments /\ W2 \in SUBSET Appointments
      /\ W3 \in SUBSET Appointments /\ W4 \in SUBSET Appointments
      /\ E \in SUBSET Appointments /\ Cards!Came \in SUBSET Appointments
  BY DEF Cards!WaitClass, Cards!Came, Cards!Scheduled
<1>5. ASSUME NEW w \in Int
      PROVE /\ \/ w <= WaitBounds[1]
               \/ WaitBounds[1] < w /\ w <= WaitBounds[2]
               \/ WaitBounds[2] < w /\ w <= WaitBounds[3]
               \/ w > WaitBounds[3]
            /\ w > WaitBounds[2] <=>
                 \/ WaitBounds[2] < w /\ w <= WaitBounds[3]
                 \/ w > WaitBounds[3]
            /\ w <= WaitBounds[1] => ~(WaitBounds[1] < w)
            /\ w <= WaitBounds[2] => ~(WaitBounds[2] < w)
            /\ w <= WaitBounds[3] => ~(w > WaitBounds[3])
            /\ WaitBounds[2] < w => WaitBounds[1] < w
            /\ w > WaitBounds[3] => WaitBounds[2] < w
  BY <1>2
<1>6. Cards!Came = W1 \cup W2 \cup W3 \cup W4 /\ D = W3 \cup W4
  BY <1>3, <1>5 DEF Cards!WaitClass
<1>7. /\ \A a \in W1 : a \notin W2
      /\ \A a \in W1 \cup W2 : a \notin W3
      /\ \A a \in W1 \cup W2 \cup W3 : a \notin W4
      /\ \A a \in W3 : a \notin W4
  BY <1>3, <1>5 DEF Cards!WaitClass
<1>8. CameIn = Cards!Came \cup E /\ \A a \in Cards!Came : a \notin E
  BY DEF Cards!WaitClass, CameIn, Cards!Came, Cards!Scheduled
<1> HIDE DEF W1, W2, W3, W4, D, E
<1>0. /\ W1 \cup W2 \in SUBSET Appointments /\ W1 \cup W2 \cup W3 \in SUBSET Appointments
  BY <1>4
<1>9. Size(W1 \cup W2) = Size(W1) + Size(W2)
  BY <1>0, <1>4, <1>7, SizesAdd
<1>10. Size(W1 \cup W2 \cup W3) = Size(W1 \cup W2) + Size(W3)
  BY <1>0, <1>4, <1>7, SizesAdd
<1>11. Size(W1 \cup W2 \cup W3 \cup W4) = Size(W1 \cup W2 \cup W3) + Size(W4)
  BY <1>0, <1>4, <1>7, SizesAdd
<1>12. Size(D) = Size(W3) + Size(W4)
  BY <1>4, <1>6, <1>7, SizesAdd
<1>13. Size(CameIn) = Size(Cards!Came) + Size(E)
  BY <1>4, <1>8, SizesAdd
<1>14. Size(W1) + Size(W2) + Size(W3) + Size(W4) = Size(Cards!Came)
  BY <1>6, <1>9, <1>10, <1>11
<1> QED
  BY <1>1, <1>12, <1>13, <1>14 DEF DaySizes, W1, W2, W3, W4, D, E

-----------------------------------------------------------------------------
(* The steps *)

\* What the next query of the answer r gives.
Replies(r) == [f \in Cards!Queries(r.kind)[r.asked + 1] |-> Cards!Answer(r, f)]

LEMMA FiguresAreAsked ==
  ASSUME Cards!RunQuery
  PROVE /\ request # None /\ request.asked < Len(Cards!Queries(request.kind))
        /\ UNCHANGED <<now, slot, status, entry, left, unloading, cached, shown>>
        /\ request' = WithFigures(request, Replies(request))
<1> DEFINE figures == Cards!Queries(request.kind)[request.asked + 1]
           v == [f \in figures |-> Cards!Answer(request, f)]
           got == [f \in DOMAIN request.got \cup figures |->
                     IF f \in figures THEN Cards!Answer(request, f) ELSE request.got[f]]
<1>1. /\ request # None /\ request.asked < Len(Cards!Queries(request.kind))
      /\ UNCHANGED <<now, slot, status, entry, left, unloading, cached, shown>>
      /\ request' = [request EXCEPT !.asked = @ + 1, !.got = got]
  BY DEF Cards!RunQuery, Cards!trips
<1> HIDE DEF figures
<1>2. DOMAIN v = figures /\ \A f \in figures : v[f] = Cards!Answer(request, f)
  OBVIOUS
<1> HIDE DEF v
<1>3. got = [f \in DOMAIN request.got \cup DOMAIN v |->
               IF f \in DOMAIN v THEN v[f] ELSE request.got[f]]
  BY <1>2
<1>4. request' = WithFigures(request, v)
  BY <1>1, <1>3 DEF WithFigures
<1> QED
  BY <1>1, <1>4 DEF v, figures, Replies

\* What each query answers.
LEMMA AnswersCount ==
  ASSUME Cards!DashboardAssumption, NEW r, RequestOK(r), NEW q
  PROVE /\ r.kind = "cards" => Cards!Answer(r, q) = Size(Cards!Card(q, Cards!Cutoff))
        /\ r.kind = "summary" => Cards!Answer(r, q) = Size(Cards!Summary(q, r.cutoff))
        /\ r.kind = "gate" =>
             Cards!Answer(r, q) = IF q = "upcoming"
                                    THEN Cards!Min({PageSize, Size(InTransit)})
                                    ELSE Size(Cards!In(q))
        /\ r.kind = "waits" => Cards!Answer(r, q) = Size(Cards!WaitClass(q))
        /\ r.kind = "list" =>
             Cards!Answer(r, q) =
               LET n == Size(Cards!StatusFilter(r.filter, Cards!Cutoff)) IN
               IF q = "count" THEN n
               ELSE Cards!Min({PageSize, Cards!Max({0, n - r.skip})})
  BY CardsCount DEF Cards!Answer, Cards!PageOf, Size, InTransit

\* Whatever a query counts is some of the appointments.
LEMMA QueriesCount ==
  /\ \A c : \A i \in 1 .. 7 : Cards!Card(Cards!CardQueries[i], c) \in SUBSET Appointments
  /\ \A c : \A i \in 1 .. 11 : Cards!Summary(Cards!SummaryQueries[i], c) \in SUBSET Appointments
  /\ \A q \in Cards!WaitQueries[1] \cup Cards!WaitQueries[2] :
       Cards!WaitClass(q) \in SUBSET Appointments
<1>1. \A c : \A i \in 1 .. 7 : Cards!Card(Cards!CardQueries[i], c) \in SUBSET Appointments
  BY FiguresCount DEF Cards!Card, Cards!CardQueries, Cards!Delayed, Cards!Unloading,
                      Cards!CardInProcess
<1>2. \A c : \A i \in 1 .. 11 :
        Cards!Summary(Cards!SummaryQueries[i], c) \in SUBSET Appointments
  BY FiguresCount DEF Cards!Summary, Cards!SummaryQueries, Cards!Unloading, Cards!Arrived
<1>3. \A q \in Cards!WaitQueries[1] \cup Cards!WaitQueries[2] :
        Cards!WaitClass(q) \in SUBSET Appointments
  BY DEF Cards!WaitClass, Cards!WaitQueries, Cards!Came, Cards!Scheduled
<1> QED
  BY <1>1, <1>2, <1>3

LEMMA DaySizesAreSizes ==
  ASSUME Cards!DashboardAssumption
  PROVE DaySizes \in FigureSizes
<1>1. \A S \in SUBSET Appointments : Size(S) \in Nat
  BY SizesAreNumbers
<1>2. Cards!Came \in SUBSET Appointments
  BY DEF Cards!Came, Cards!Scheduled
<1>3. /\ Size(Cards!Scheduled) \in Nat /\ Size(InTransit) \in Nat /\ Size(InProcess) \in Nat
      /\ Size(CameIn) \in Nat /\ Size(Cards!Came) \in Nat /\ Size(CameLate) \in Nat
      /\ Size(CameOnTime) \in Nat /\ \A n : Size(CardsLeft(n)) \in Nat
      /\ \A s, c : Size(Cards!StatusFilter(s, c)) \in Nat
  BY <1>1, <1>2, FiguresCount DEF InTransit, InProcess
<1> QED
  BY <1>3 DEF DaySizes, FigureSizes

LEMMA CardAnswered ==
  ASSUME Cards!DashboardAssumption, DayTypes, NEW r, RequestOK(r), Progress(r, DaySizes),
         r.kind = "cards", r.asked < 7
  PROVE RequestOK(WithFigures(r, Replies(r))) /\ Progress(WithFigures(r, Replies(r)), DaySizes)
<1> DEFINE i == r.asked + 1
           v == Replies(r)
<1>1. i \in 1 .. 7 /\ i - 1 = r.asked
  BY FiguresGiven
<1>2. Cards!Queries("cards")[i] = {Cards!CardQueries[i]}
  BY <1>1, QueriesOfKinds
<1>3. Cards!Answer(r, Cards!CardQueries[i])
        = Size(Cards!Card(Cards!CardQueries[i], Cards!Cutoff))
  BY AnswersCount
<1>4. Size(Cards!Card(Cards!CardQueries[i], Cards!Cutoff)) \in Nat
  BY <1>1, QueriesCount, SizesAreNumbers
<1>5. /\ v \in [Cards!Queries("cards")[i] -> Nat]
      /\ v[Cards!CardQueries[i]] = Size(Cards!Card(Cards!CardQueries[i], Cards!Cutoff))
  BY <1>2, <1>3, <1>4 DEF Replies
<1>6. Size(Cards!Card(Cards!CardQueries[i], Cards!Cutoff)) + DaySizes.left[i]
        = DaySizes.left[i - 1]
  BY <1>1, CardsShareTheDay
<1> HIDE DEF v
<1>7. v[Cards!CardQueries[i]] + DaySizes.left[i] = DaySizes.left[r.asked]
  BY <1>1, <1>5, <1>6
<1> QED
  BY <1>5, <1>7, DaySizesAreSizes, CardIsAdded DEF v

LEMMA SummaryAnswered ==
  ASSUME Cards!DashboardAssumption, DayTypes, NEW r, RequestOK(r), Progress(r, DaySizes),
         r.kind = "summary", r.asked < 11
  PROVE RequestOK(WithFigures(r, Replies(r))) /\ Progress(WithFigures(r, Replies(r)), DaySizes)
<1> DEFINE i == r.asked + 1
           v == Replies(r)
           rowsOf == Cards!Summary(Cards!SummaryQueries[i], r.cutoff)
<1>1. i \in 1 .. 11
  BY FiguresGiven
<1>2. Cards!Queries("summary")[i] = {Cards!SummaryQueries[i]}
  BY <1>1, QueriesOfKinds
<1>3. Cards!Answer(r, Cards!SummaryQueries[i]) = Size(rowsOf)
  BY AnswersCount
<1>4. Size(rowsOf) \in Nat
  BY <1>1, QueriesCount, SizesAreNumbers
<1>5. /\ v \in [Cards!Queries("summary")[i] -> Nat]
      /\ v[Cards!SummaryQueries[i]] = Size(rowsOf)
  BY <1>2, <1>3, <1>4 DEF Replies
<1>6. SummaryFigure(i, Size(rowsOf), DaySizes)
  BY <1>1, SummaryCounts
<1> HIDE DEF v
<1>7. SummaryFigure(r.asked + 1, v[Cards!SummaryQueries[r.asked + 1]], DaySizes)
  BY <1>5, <1>6
<1> QED
  BY <1>5, <1>7, DaySizesAreSizes, SummaryIsAdded DEF v

LEMMA GateAnswered ==
  ASSUME Cards!DashboardAssumption, DayTypes, NEW r, RequestOK(r), Progress(r, DaySizes),
         r.kind = "gate", r.asked < 2
  PROVE RequestOK(WithFigures(r, Replies(r))) /\ Progress(WithFigures(r, Replies(r)), DaySizes)
<1> DEFINE v == Replies(r)
<1>1. /\ Cards!Queries("gate")[1] = {"upcoming"}
      /\ Cards!Queries("gate")[2] =
           {"scheduled", "in_transit", "in_process", "completed", "canceled"}
  BY QueriesOfKinds, FiveStatuses DEF Cards!GateQueries
<1>2. r.asked \in {0, 1}
  <2>1. r.asked \in 0 .. 2
    BY FiguresGiven
  <2> QED
    BY <2>1
<1>3. PageSize \in Nat /\ PageSize \in Int
  BY DEF Cards!DashboardAssumption
<1>4. \A s : Size(Cards!In(s)) \in Nat /\ Size(Cards!In(s)) \in Int
  BY FiguresCount, SizesAreNumbers
<1>5. Size(InTransit) = DaySizes.inTransit /\ Size(InTransit) \in Nat /\ Size(InTransit) \in Int
  BY <1>4 DEF DaySizes, InTransit
<1>6. Cards!Min({PageSize, Size(InTransit)}) \in Nat
  BY <1>3, <1>5, LesserOfTwo
<1>7. CASE r.asked = 0
  <2>0. Cards!Answer(r, "upcoming") = Cards!Min({PageSize, Size(InTransit)})
    BY AnswersCount
  <2>1. /\ v \in [Cards!Queries("gate")[1] -> Nat]
        /\ v["upcoming"] = Cards!Min({PageSize, Size(InTransit)})
    BY <1>1, <1>6, <1>7, <2>0 DEF Replies
  <2> HIDE DEF v
  <2>2. v \in [Cards!Queries("gate")[r.asked + 1] -> Nat]
    BY <1>7, <2>1
  <2>3. r.asked = 0 => v["upcoming"] = Cards!Min({PageSize, DaySizes.inTransit})
    BY <1>5, <2>1
  <2>4. r.asked # 1
    BY <1>7
  <2> QED
    BY <2>2, <2>3, <2>4, DaySizesAreSizes, GateIsAdded DEF v
<1>8. CASE r.asked = 1
  <2>1. \A s \in Cards!Queries("gate")[2] : Cards!Answer(r, s) = Size(Cards!In(s))
    BY <1>1, AnswersCount
  <2>2. v \in [Cards!Queries("gate")[2] -> Nat]
    BY <1>4, <1>8, <2>1 DEF Replies
  <2>3. \A s \in Cards!Queries("gate")[2] : v[s] = Size(Cards!In(s))
    BY <1>8, <2>1 DEF Replies
  <2> HIDE DEF v
  <2>4. v \in [Cards!Queries("gate")[r.asked + 1] -> Nat]
    BY <1>8, <2>2
  <2>5. /\ v["scheduled"] = Size(Cards!In("scheduled"))
        /\ v["in_transit"] = Size(Cards!In("in_transit"))
        /\ v["in_process"] = Size(Cards!In("in_process"))
        /\ v["completed"] = Size(Cards!In("completed"))
        /\ v["canceled"] = Size(Cards!In("canceled"))
    BY <1>1, <2>3
  <2>6. /\ v["in_transit"] = DaySizes.inTransit
        /\ v["scheduled"] + v["in_transit"] + v["in_process"] + v["completed"]
             + v["canceled"] = DaySizes.scheduled
    BY <2>5, StatusesShareTheDay
  <2>7. r.asked # 0
    BY <1>8
  <2> QED
    BY <2>4, <2>6, <2>7, DaySizesAreSizes, GateIsAdded DEF v
<1> QED
  BY <1>2, <1>7, <1>8

LEMMA WaitsAnswered ==
  ASSUME Cards!DashboardAssumption, DayTypes, NEW r, RequestOK(r), Progress(r, DaySizes),
         r.kind = "waits", r.asked < 2
  PROVE RequestOK(WithFigures(r, Replies(r))) /\ Progress(WithFigures(r, Replies(r)), DaySizes)
<1> DEFINE v == Replies(r)
<1>1. /\ Cards!Queries("waits") = Cards!WaitQueries
      /\ Cards!WaitQueries[1] = {"processed", "delayed", "0_5", "5_15", "15_30", "over_30"}
      /\ Cards!WaitQueries[2] = {"excluded"}
  BY QueriesOfKinds DEF Cards!WaitQueries
<1>2. r.asked \in {0, 1}
  <2>1. r.asked \in 0 .. 2
    BY FiguresGiven
  <2> QED
    BY <2>1
<1>3. \A q \in Cards!WaitQueries[1] \cup Cards!WaitQueries[2] : Size(Cards!WaitClass(q)) \in Nat
  BY QueriesCount, SizesAreNumbers
<1>4. \A q : Cards!Answer(r, q) = Size(Cards!WaitClass(q))
  BY AnswersCount
<1>5. CASE r.asked = 0
  <2>1. v \in [Cards!Queries("waits")[1] -> Nat]
    BY <1>1, <1>3, <1>4, <1>5 DEF Replies
  <2>2. \A q \in Cards!WaitQueries[1] : v[q] = Size(Cards!WaitClass(q))
    BY <1>1, <1>4, <1>5 DEF Replies
  <2> HIDE DEF v
  <2>3. v \in [Cards!Queries("waits")[r.asked + 1] -> Nat]
    BY <1>5, <2>1
  <2>4. /\ v["processed"] = Size(Cards!WaitClass("processed"))
        /\ v["delayed"] = Size(Cards!WaitClass("delayed"))
        /\ v["0_5"] = Size(Cards!WaitClass("0_5"))
        /\ v["5_15"] = Size(Cards!WaitClass("5_15"))
        /\ v["15_30"] = Size(Cards!WaitClass("15_30"))
        /\ v["over_30"] = Size(Cards!WaitClass("over_30"))
    BY <1>1, <2>2
  <2>5. /\ v["processed"] = DaySizes.expected
        /\ v["0_5"] + v["5_15"] + v["15_30"] + v["over_30"] = v["processed"]
        /\ v["delayed"] = v["15_30"] + v["over_30"]
    BY <2>4, ClassesShareTheTrucks
  <2>6. r.asked # 1
    BY <1>5
  <2> QED
    BY <2>3, <2>5, <2>6, DaySizesAreSizes, WaitsAreAdded DEF v
<1>6. CASE r.asked = 1
  <2>1. v \in [Cards!Queries("waits")[2] -> Nat]
    BY <1>1, <1>3, <1>4, <1>6 DEF Replies
  <2>2. v["excluded"] = Size(Cards!WaitClass("excluded"))
    BY <1>1, <1>4, <1>6 DEF Replies
  <2> HIDE DEF v
  <2>3. v \in [Cards!Queries("waits")[r.asked + 1] -> Nat]
    BY <1>6, <2>1
  <2>4. DaySizes.expected + v["excluded"] = DaySizes.came
    BY <2>2, ClassesShareTheTrucks
  <2>5. r.asked # 0
    BY <1>6
  <2> QED
    BY <2>3, <2>4, <2>5, DaySizesAreSizes, WaitsAreAdded DEF v
<1> QED
  BY <1>2, <1>5, <1>6

LEMMA ListAnswered ==
  ASSUME Cards!DashboardAssumption, DayTypes, NEW r, RequestOK(r), Progress(r, DaySizes),
         r.kind = "list", r.asked < 2
  PROVE RequestOK(WithFigures(r, Replies(r))) /\ Progress(WithFigures(r, Replies(r)), DaySizes)
<1> DEFINE v == Replies(r)
           n == Size(Cards!StatusFilter(r.filter, Cards!Cutoff))
           page == Cards!Min({PageSize, Cards!Max({0, n - r.skip})})
<1>1. Cards!Queries("list")[1] = {"count"} /\ Cards!Queries("list")[2] = {"page"}
  BY QueriesOfKinds
<1>2. r.asked \in {0, 1}
  <2>1. r.asked \in 0 .. 2
    BY FiguresGiven
  <2> QED
    BY <2>1
<1>3. r.skip \in Nat /\ r.filter \in ListFilters /\ PageSize \in Nat /\ PageSize \in Int
  BY DEF RequestOK, Cards!DashboardAssumption
<1>4. n \in Nat /\ DaySizes.rows[r.filter] = n
  BY <1>3, FiguresCount, SizesAreNumbers DEF DaySizes
<1>5. Cards!Answer(r, "count") = n /\ Cards!Answer(r, "page") = page
  BY AnswersCount
<1> HIDE DEF n
<1>6. page \in Nat
  <2>1. n - r.skip \in Int /\ 0 \in Int
    BY <1>3, <1>4
  <2>2. Cards!Max({0, n - r.skip}) \in Nat
    BY ONLY <2>1, GreaterOfTwo
  <2>3. Cards!Max({0, n - r.skip}) \in Int
    BY <2>2
  <2> QED
    BY ONLY <1>3, <2>2, <2>3, LesserOfTwo
<1> HIDE DEF page
<1>7. CASE r.asked = 0
  <2>1. v \in [Cards!Queries("list")[1] -> Nat] /\ v["count"] = n
    BY <1>1, <1>4, <1>5, <1>7 DEF Replies
  <2> HIDE DEF v
  <2>2. v \in [Cards!Queries("list")[r.asked + 1] -> Nat]
    BY <1>7, <2>1
  <2>3. v["count"] = DaySizes.rows[r.filter] /\ r.asked # 1
    BY <1>4, <1>7, <2>1
  <2> QED
    BY <2>2, <2>3, DaySizesAreSizes, ListIsAdded DEF v
<1>8. CASE r.asked = 1
  <2>1. v \in [Cards!Queries("list")[2] -> Nat] /\ v["page"] = page
    BY <1>1, <1>5, <1>6, <1>8 DEF Replies
  <2> HIDE DEF v
  <2>2. v \in [Cards!Queries("list")[r.asked + 1] -> Nat]
    BY <1>8, <2>1
  <2>3. /\ v["page"] = Cards!Min({PageSize, Cards!Max({0, DaySizes.rows[r.filter] - r.skip})})
        /\ r.asked # 0
    BY <1>4, <1>8, <2>1 DEF page
  <2> QED
    BY <2>2, <2>3, DaySizesAreSizes, ListIsAdded DEF v
<1> QED
  BY <1>2, <1>7, <1>8

\* Figures are of the rows and the hour alone.
LEMMA SizesOfTheSameDay ==
  ASSUME DayTypes, UNCHANGED <<now, slot, status, entry, left, unloading>>
  PROVE DayTypes' /\ DaySizes' = DaySizes
<1>1. Cards!Scheduled' = Cards!Scheduled /\ Cards!Cutoff' = Cards!Cutoff
  BY DEF Cards!Scheduled, Cards!Cutoff
<1>2. \A s : Cards!In(s)' = Cards!In(s)
  BY <1>1 DEF Cards!In
<1>3. /\ InTransit' = InTransit /\ InProcess' = InProcess /\ CameIn' = CameIn
      /\ Cards!Came' = Cards!Came
  BY <1>1, <1>2 DEF InTransit, InProcess, CameIn, Cards!Came
<1>4. CameLate' = CameLate /\ CameOnTime' = CameOnTime
  BY <1>2 DEF CameLate, CameOnTime, Cards!Arrived, Cards!OnTime
<1>5. \A a : CardOf(a)' = CardOf(a)
  BY <1>1 DEF CardOf
<1>6. \A n : CardsLeft(n)' = CardsLeft(n)
  BY <1>1, <1>5 DEF CardsLeft
<1>7. \A s : Cards!StatusFilter(s, Cards!Cutoff)' = Cards!StatusFilter(s, Cards!Cutoff)
  BY <1>1, <1>2 DEF Cards!StatusFilter, Cards!Delayed, Cards!Unloading
<1>8. DaySizes' = DaySizes
  BY <1>1, <1>3, <1>4, <1>6, <1>7 DEF DaySizes, Size
<1>9. DayTypes'
  BY DEF DayTypes
<1> QED
  BY <1>8, <1>9

LEMMA QueryKeeps ==
  ASSUME Cards!DashboardAssumption, DayInv, Cards!RunQuery
  PROVE DayInv'
<1> DEFINE q == WithFigures(request, Replies(request))
<1>1. /\ request # None /\ request.asked < Len(Cards!Queries(request.kind))
      /\ UNCHANGED <<now, slot, status, entry, left, unloading, cached, shown>>
      /\ request' = q
  BY FiguresAreAsked
<1>2. DayTypes /\ RequestOK(request) /\ Progress(request, DaySizes)
  BY <1>1 DEF DayInv
<1>3. DayTypes' /\ DaySizes' = DaySizes
  BY <1>1, <1>2, SizesOfTheSameDay
<1>4. RequestOK(q) /\ Progress(q, DaySizes)
  <2> HIDE DEF q
  <2>1. CASE request.kind = "cards"
    BY <1>1, <1>2, <2>1, QueriesCounted, CardAnswered DEF q
  <2>2. CASE request.kind = "summary"
    BY <1>1, <1>2, <2>2, QueriesCounted, SummaryAnswered DEF q
  <2>3. CASE request.kind = "gate"
    BY <1>1, <1>2, <2>3, QueriesCounted, GateAnswered DEF q
  <2>4. CASE request.kind = "waits"
    BY <1>1, <1>2, <2>4, QueriesCounted, WaitsAnswered DEF q
  <2>5. CASE request.kind = "list"
    BY <1>1, <1>2, <2>5, QueriesCounted, ListAnswered DEF q
  <2>6. request.kind \in AnswerKinds
    BY <1>2 DEF RequestOK
  <2> QED
    BY <2>1, <2>2, <2>3, <2>4, <2>5, <2>6 DEF AnswerKinds
<1> HIDE DEF q
<1>5. \A r \in {cached', shown'} :
        r # None => RequestOK(r) /\ Progress(r, DaySizes) /\ Answered(r)
  BY <1>1 DEF DayInv
<1>6. RequestOK(request') /\ Progress(request', DaySizes')
  BY <1>1, <1>3, <1>4
<1>7. \A r \in {cached', shown'} :
        r # None => RequestOK(r) /\ Progress(r, DaySizes') /\ Answered(r)
  BY <1>3, <1>5
<1> QED
  BY <1>3, <1>6, <1>7 DEF DayInv

\* A new answer has nothing yet, and every appointment to count.
LEMMA AskKeeps ==
  ASSUME Cards!DashboardAssumption, DayInv, NEW kind \in AnswerKinds,
         NEW skip \in {0, PageSize}, NEW filter,
         kind = "list" => filter \in ListFilters, Cards!Ask(kind, skip, filter)
  PROVE DayInv'
<1> DEFINE q == Cards!NewRequest(kind, skip, filter)
<1>1. /\ UNCHANGED <<now, slot, status, entry, left, unloading, cached>>
      /\ \/ request' = q /\ shown' = shown
         \/ request' = request /\ shown' = cached
  BY DEF Cards!Ask, Cards!trips
<1>2. DayTypes' /\ DaySizes' = DaySizes
  BY <1>1, SizesOfTheSameDay DEF DayInv
<1>3. /\ DOMAIN q = RequestFields /\ q.kind = kind /\ q.skip = skip /\ q.filter = filter
      /\ q.asked = 0 /\ q.got = <<>> /\ q.moved = 0
  BY DEF Cards!NewRequest, RequestFields
<1>4. RequestOK(q)
  <2>1. skip \in Nat
    BY DEF Cards!DashboardAssumption
  <2>2. 0 \in 0 .. Len(Cards!Queries(kind))
    <3>1. Len(Cards!Queries(kind)) \in {2, 7, 11}
      BY QueriesCounted DEF AnswerKinds
    <3> QED
      BY <3>1
  <2>3. DOMAIN q.got = {} /\ UNION {Cards!Queries(kind)[i] : i \in 1 .. 0} = {}
    BY <1>3
  <2> HIDE DEF q
  <2> QED
    BY <1>3, <2>1, <2>2, <2>3 DEF RequestOK
<1>5. Progress(q, DaySizes)
  <2> HIDE DEF q
  <2>1. DaySizes \in FigureSizes /\ DaySizes.left[0] = DaySizes.scheduled
    BY DaySizesAreSizes, CardsShareTheDay DEF DayInv
  <2>2. DaySizes.scheduled \in Nat
    BY <2>1 DEF FigureSizes
  <2>3. CardsProgress(q, DaySizes)
    <3>1. \A i \in 1 .. 7 : GotCard(q, i) = 0
      BY <1>3 DEF GotCard
    <3>2. /\ GotCard(q, 1) = 0 /\ GotCard(q, 2) = 0 /\ GotCard(q, 3) = 0 /\ GotCard(q, 4) = 0
          /\ GotCard(q, 5) = 0 /\ GotCard(q, 6) = 0 /\ GotCard(q, 7) = 0
      BY <3>1
    <3> QED
      BY <1>3, <2>1, <2>2, <3>2 DEF CardsProgress, Cards!Within
  <2>4. SummaryProgress(q, DaySizes)
    BY <1>3 DEF SummaryProgress, PartProgress, LateProgress, OnTimeProgress
  <2>5. GateProgress(q, DaySizes) /\ WaitsProgress(q, DaySizes) /\ ListProgress(q, DaySizes)
    BY <1>3 DEF GateProgress, WaitsProgress, ListProgress
  <2> QED
    BY <2>3, <2>4, <2>5 DEF Progress
<1> HIDE DEF q
<1>6. request' # None => RequestOK(request') /\ Progress(request', DaySizes')
  BY <1>1, <1>2, <1>4, <1>5 DEF DayInv
<1>7. \A r \in {cached', shown'} :
        r # None => RequestOK(r) /\ Progress(r, DaySizes) /\ Answered(r)
  BY <1>1 DEF DayInv
<1>8. \A r \in {cached', shown'} :
        r # None => RequestOK(r) /\ Progress(r, DaySizes') /\ Answered(r)
  BY <1>2, <1>7
<1> QED
  BY <1>2, <1>6, <1>8 DEF DayInv

LEMMA ReplyKeeps ==
  ASSUME DayInv, Cards!Reply
  PROVE DayInv'
<1>1. /\ request # None /\ Answered(request) /\ request' = None
      /\ UNCHANGED <<now, slot, status, entry, left, unloading>>
      /\ shown' = request /\ cached' \in {request, cached}
  BY DEF Cards!Reply, Cards!trips, Answered
<1>2. DayTypes' /\ DaySizes' = DaySizes
  BY <1>1, SizesOfTheSameDay DEF DayInv
<1>3. \A r \in {cached', shown'} :
        r # None => RequestOK(r) /\ Progress(r, DaySizes) /\ Answered(r)
  BY <1>1 DEF DayInv
<1>4. \A r \in {cached', shown'} :
        r # None => RequestOK(r) /\ Progress(r, DaySizes') /\ Answered(r)
  BY <1>2, <1>3
<1> QED
  BY <1>1, <1>2, <1>4 DEF DayInv

LEMMA ExpireKeeps ==
  ASSUME DayInv, Cards!Expire \/ UNCHANGED Cards!vars
  PROVE DayInv'
<1>1. /\ cached' \in {None, cached} /\ UNCHANGED <<request, shown>>
      /\ UNCHANGED <<now, slot, status, entry, left, unloading>>
  BY DEF Cards!Expire, Cards!trips, Cards!vars
<1>2. DayTypes' /\ DaySizes' = DaySizes
  BY <1>1, SizesOfTheSameDay DEF DayInv
<1>3. /\ request' # None => RequestOK(request') /\ Progress(request', DaySizes)
      /\ \A r \in {cached', shown'} :
           r # None => RequestOK(r) /\ Progress(r, DaySizes) /\ Answered(r)
  BY <1>1 DEF DayInv
<1>4. /\ request' # None => RequestOK(request') /\ Progress(request', DaySizes')
      /\ \A r \in {cached', shown'} :
           r # None => RequestOK(r) /\ Progress(r, DaySizes') /\ Answered(r)
  BY <1>2, <1>3
<1> QED
  BY <1>2, <1>4 DEF DayInv

\* The rows that move are told to the open answer; the answers given stay right.
LEMMA TrafficKeeps ==
  ASSUME Cards!DashboardAssumption, DayInv, Traffic
  PROVE DayInv'
<1>1. DayTypes
  BY DEF DayInv
<1>2. /\ DayTypes' /\ UNCHANGED <<slot, cached, shown>> /\ CameIn \subseteq CameIn'
      /\ \E R \in SUBSET Appointments :
           /\ RowsKept(R)
           /\ request' = IF request = None THEN None
                         ELSE [request EXCEPT !.moved = @ + Cardinality(R)]
  BY <1>1, TrafficMoves
<1>3. PICK R \in SUBSET Appointments :
           /\ RowsKept(R)
           /\ request' = IF request = None THEN None
                         ELSE [request EXCEPT !.moved = @ + Size(R)]
  BY <1>2 DEF Size
<1>4. /\ DaySizes \in FigureSizes /\ DaySizes' \in FigureSizes /\ Size(R) \in Nat
      /\ Apart(DaySizes', DaySizes, Size(R))
  BY <1>1, <1>2, <1>3, SizesMove
<1>5. DaySizes.left[7] = 0 /\ DaySizes'.left[7] = 0
  <2>1. DaySizes.left[7] = 0
    BY <1>1, CardsShareTheDay
  <2>2. Cards!DashboardAssumption /\ DayTypes => DaySizes.left[7] = 0
    BY CardsShareTheDay
  <2>3. (Cards!DashboardAssumption /\ DayTypes => DaySizes.left[7] = 0)'
    BY CardsShareTheDay, PTL
  <2>4. DaySizes'.left[7] = 0
    BY <1>2, <2>3 DEF Cards!DashboardAssumption
  <2> QED
    BY <2>1, <2>4
<1> DEFINE y == DaySizes'
           z == DaySizes
<1>6. /\ y \in FigureSizes /\ z \in FigureSizes /\ y.scheduled = z.scheduled /\ z.came <= y.came
      /\ y.left[7] = z.left[7] /\ Size(R) \in Nat /\ Apart(y, z, Size(R))
  BY <1>4, <1>5 DEF Apart
<1>7. /\ request # None => RequestOK(request) /\ Progress(request, z)
      /\ \A r \in {cached, shown} :
           r # None => RequestOK(r) /\ Progress(r, z) /\ Answered(r)
  BY DEF DayInv
<1> HIDE DEF y, z
<1>8. request' # None => RequestOK(request') /\ Progress(request', y)
  <2> SUFFICES ASSUME request # None PROVE RequestOK(request') /\ Progress(request', y)
    BY <1>3
  <2>1. request' = [request EXCEPT !.moved = @ + Size(R)]
    BY <1>3
  <2>2. RequestOK(request) /\ Progress(request, z)
    BY <1>7
  <2> QED
    BY <1>6, <2>1, <2>2, ProgressMoves
<1>9. \A r \in {cached, shown} : r # None => RequestOK(r) /\ Progress(r, y) /\ Answered(r)
  <2> SUFFICES ASSUME NEW r \in {cached, shown}, r # None
               PROVE RequestOK(r) /\ Progress(r, y) /\ Answered(r)
    OBVIOUS
  <2>1. RequestOK(r) /\ Progress(r, z) /\ Answered(r)
    BY <1>7
  <2> QED
    BY <1>6, <2>1, AnswersStay
<1>10. \A r \in {cached', shown'} : r # None => RequestOK(r) /\ Progress(r, y) /\ Answered(r)
  BY <1>2, <1>9
<1> QED
  BY <1>2, <1>8, <1>10 DEF DayInv, y

-----------------------------------------------------------------------------
(* The answers given *)

\* What is kept of every answer, whatever moves while its queries run.
THEOREM DayInvariant ==
  ASSUME Cards!DashboardAssumption
  PROVE Cards!Spec => []DayInv
<1>1. Cards!Init => DayInv
  <2> SUFFICES ASSUME Cards!Init PROVE DayInv
    OBVIOUS
  <2>1. DelayTolerance \in Nat
    BY DEF Cards!DashboardAssumption
  <2>2. /\ now = DelayTolerance + 1 /\ slot \in [Appointments -> {None, 0, 1}]
        /\ status \in [Appointments -> Cards!Lifecycle!Statuses]
        /\ entry \in [Appointments -> {None, 0, now}]
        /\ left = [a \in Appointments |-> None]
        /\ request = None /\ cached = None /\ shown = None
    BY DEF Cards!Init
  <2>3. now \in Nat
    BY <2>1, <2>2
  <2>4. DayTypes
    BY <2>2, <2>3 DEF DayTypes
  <2> QED
    BY <2>2, <2>4 DEF DayInv
<1>2. DayInv /\ [Cards!Next]_(Cards!vars) => DayInv'
  <2> SUFFICES ASSUME DayInv, [Cards!Next]_(Cards!vars) PROVE DayInv'
    OBVIOUS
  <2>1. CASE Traffic
    BY <2>1, TrafficKeeps
  <2>2. CASE Cards!RunQuery
    BY <2>2, QueryKeeps
  <2>3. CASE Cards!Reply
    BY <2>3, ReplyKeeps
  <2>4. CASE Cards!Expire \/ UNCHANGED Cards!vars
    BY <2>4, ExpireKeeps
  <2>5. ASSUME NEW kind \in {"cards", "summary", "gate", "waits"}, Cards!Ask(kind, 0, None)
        PROVE DayInv'
    <3>1. kind \in AnswerKinds /\ kind # "list" /\ 0 \in {0, PageSize}
      BY DEF AnswerKinds
    <3> QED
      BY <2>5, <3>1, AskKeeps
  <2>6. ASSUME NEW skip \in {0, PageSize}, NEW s \in {"in_transit", "delayed"},
               Cards!Ask("list", skip, s)
        PROVE DayInv'
    <3>1. "list" \in AnswerKinds /\ s \in ListFilters
      BY DEF AnswerKinds, ListFilters
    <3> QED
      BY <2>6, <3>1, AskKeeps
  <2> QED
    BY <2>1, <2>2, <2>3, <2>4, <2>5, <2>6 DEF Cards!Next, Traffic
<1> QED
  BY <1>1, <1>2, PTL DEF Cards!Spec

\* The sum over the statuses, each taken once.
LEMMA FiguresOfStatusesAdd ==
  ASSUME NEW f, \A s \in Cards!Lifecycle!Statuses : f[s] \in Nat
  PROVE Cards!MapThenSumSet(LAMBDA q : f[q], Cards!Lifecycle!Statuses)
          = f["scheduled"] + f["in_transit"] + f["in_process"] + f["completed"] + f["canceled"]
<1> DEFINE S == Cards!Lifecycle!Statuses
           g == [x \in S |-> f[x]]
           F == CHOOSE F : AreSums(F, f, S)
<1>0. /\ S = {"scheduled", "in_transit", "in_process", "completed", "canceled"}
      /\ g \in [S -> Nat]
  BY FiveStatuses
<1>1. IsFiniteSet(S)
  <2>1. IsFiniteSet({"scheduled"} \cup {"in_transit"} \cup {"in_process"}
                        \cup {"completed"} \cup {"canceled"})
    BY FS_Singleton, FS_Union
  <2>2. S = {"scheduled"} \cup {"in_transit"} \cup {"in_process"}
              \cup {"completed"} \cup {"canceled"}
    BY <1>0
  <2> QED
    BY <2>1, <2>2
<1>2. Cards!MapThenSumSet(LAMBDA q : f[q], S) = F[S]
  BY DEF Cards!MapThenSumSet, Cards!MapThenFoldSet, AnyOf, AreSums
<1>3. \A x \in S : g[x] = f[x]
  OBVIOUS
<1> HIDE DEF g, S
<1>4. AreSums(F, g, S)
  <2>1. \A G : AreSums(G, f, S) <=> AreSums(G, g, S)
    <3>1. \A s \in SUBSET S : s # {} => f[AnyOf(s)] = g[AnyOf(s)]
      BY <1>3, AnyOfIsMember
    <3> QED
      BY <3>1 DEF AreSums
  <2>2. \E G : AreSums(G, g, S)
    BY <1>0, <1>1, SumsExist
  <2> QED
    BY <2>1, <2>2
<1> HIDE DEF F
<1>5. \A s \in SUBSET S : \A x \in s : F[s] = g[x] + F[s \ {x}]
  <2>1. g \in [S -> Nat]
    BY <1>0
  <2> SUFFICES ASSUME NEW s \in SUBSET S, NEW x \in s PROVE F[s] = g[x] + F[s \ {x}]
    OBVIOUS
  <2> QED
    BY <1>1, <1>4, <2>1, AnyMemberFirst
<1>6. F[{}] = 0
  BY <1>4 DEF AreSums
<1> DEFINE s4 == {"in_transit", "in_process", "completed", "canceled"}
           s3 == {"in_process", "completed", "canceled"}
           s2 == {"completed", "canceled"}
           s1 == {"canceled"}
<1>7. /\ S \ {"scheduled"} = s4 /\ s4 \ {"in_transit"} = s3 /\ s3 \ {"in_process"} = s2
      /\ s2 \ {"completed"} = s1 /\ s1 \ {"canceled"} = {}
  BY <1>0
<1>8. /\ s4 \in SUBSET S /\ s3 \in SUBSET S /\ s2 \in SUBSET S /\ s1 \in SUBSET S
      /\ S \in SUBSET S /\ "scheduled" \in S /\ "in_transit" \in s4 /\ "in_process" \in s3
      /\ "completed" \in s2 /\ "canceled" \in s1
  BY <1>0
<1>9. \A x \in {"scheduled", "in_transit", "in_process", "completed", "canceled"} :
        g[x] = f[x] /\ f[x] \in Nat
  BY <1>0, <1>3
<1> HIDE DEF s4, s3, s2, s1
<1>10. /\ F[S] = g["scheduled"] + F[s4] /\ F[s4] = g["in_transit"] + F[s3]
       /\ F[s3] = g["in_process"] + F[s2] /\ F[s2] = g["completed"] + F[s1]
       /\ F[s1] = g["canceled"] + F[{}]
  BY ONLY <1>5, <1>7, <1>8
<1>11. F[S] = f["scheduled"] + f["in_transit"] + f["in_process"] + f["completed"]
                + f["canceled"]
  BY ONLY <1>6, <1>9, <1>10
<1> QED
  BY <1>2, <1>11 DEF S

LEMMA GivenAnswersAddUp ==
  ASSUME Cards!DashboardAssumption, DayInv
  PROVE Cards!CardsAddUp
<1> SUFFICES ASSUME shown # None PROVE Cards!AddsUp(shown)
  BY DEF Cards!CardsAddUp
<1> DEFINE r == shown
<1>1. RequestOK(r) /\ Progress(r, DaySizes) /\ Answered(r) /\ DayTypes
  BY DEF DayInv
<1>2. /\ Cards!Cardinality(Cards!Scheduled) = DaySizes.scheduled
      /\ Cards!Cardinality({a \in Appointments : entry[a] # None}) = DaySizes.came
      /\ DaySizes.left[7] = 0 /\ DaySizes \in FigureSizes
  BY <1>1, CardsCount, CardsShareTheDay, DaySizesAreSizes DEF DaySizes, Size, CameIn
<1> HIDE DEF r
<1>3. r.moved \in Nat /\ DaySizes.scheduled \in Nat /\ DaySizes.came \in Nat
  BY <1>1, <1>2 DEF RequestOK, FigureSizes
<1>4. CASE r.kind = "cards"
  <2>1. r.asked = 7
    BY <1>1, <1>4, QueriesCounted DEF Answered
  <2>2. /\ GotCard(r, 1) = r.got["scheduled"] /\ GotCard(r, 2) = r.got["in_transit"]
        /\ GotCard(r, 3) = r.got["delayed"] /\ GotCard(r, 4) = r.got["unloading"]
        /\ GotCard(r, 5) = r.got["in_process"] /\ GotCard(r, 6) = r.got["completed"]
        /\ GotCard(r, 7) = r.got["canceled"]
    BY <2>1 DEF GotCard, Cards!CardQueries
  <2>3. \A i \in 1 .. 7 : GotCard(r, i) \in Nat
    BY <1>1, <1>4, <2>1, FiguresGiven DEF GotCard
  <2>4. CardsProgress(r, DaySizes)
    BY <1>1, <1>4 DEF Progress
  <2> DEFINE t == GotCard(r, 1) + GotCard(r, 2) + GotCard(r, 3) + GotCard(r, 4)
                    + GotCard(r, 5) + GotCard(r, 6) + GotCard(r, 7)
  <2>5. t \in Nat
    BY <2>3
  <2>6. Cards!Within(t + 0, DaySizes.scheduled, r.moved)
    BY <1>2, <2>1, <2>4 DEF CardsProgress
  <2>7. t = r.got["scheduled"] + r.got["in_transit"] + r.got["delayed"] + r.got["unloading"]
              + r.got["in_process"] + r.got["completed"] + r.got["canceled"]
    BY <2>2
  <2> HIDE DEF t
  <2>8. Cards!Within(t, DaySizes.scheduled, r.moved)
    BY <2>5, <2>6
  <2> QED
    BY <1>2, <1>4, <2>7, <2>8 DEF Cards!AddsUp, r
<1>5. CASE r.kind = "summary"
  <2>1. r.asked = 11
    BY <1>1, <1>5, QueriesCounted DEF Answered
  <2>2. SummaryGiven(r) /\ SummaryProgress(r, DaySizes)
    BY <1>1, <1>5, SummaryFigures DEF Progress
  <2>3. /\ r.got["unloading"] <= r.got["in_process"] + r.moved
        /\ r.got["late_in_transit"] <= r.got["in_transit"] + r.moved
        /\ r.got["exits"] <= r.got["entries"] + r.moved
        /\ r.got["overdue"] + r.got["came_late"] <= r.got["total"] + r.moved
        /\ Cards!Within(r.got["on_time"] + r.got["came_late"], r.got["arrived"], r.moved)
    BY <2>1, <2>2 DEF SummaryProgress, PartProgress, LateProgress, OnTimeProgress
  <2> QED
    BY <1>5, <2>3 DEF Cards!AddsUp, r
<1>6. CASE r.kind = "gate"
  <2>1. r.asked = 2
    BY <1>1, <1>6, QueriesCounted DEF Answered
  <2>2. \A s \in Cards!Lifecycle!Statuses : r.got[s] \in Nat
    BY <1>1, <1>6, <2>1, FiguresGiven
  <2>3. GateProgress(r, DaySizes)
    BY <1>1, <1>6 DEF Progress
  <2>4. Cards!MapThenSumSet(LAMBDA q : r.got[q], Cards!Lifecycle!Statuses)
          = r.got["scheduled"] + r.got["in_transit"] + r.got["in_process"]
              + r.got["completed"] + r.got["canceled"]
    BY <2>2, FiguresOfStatusesAdd
  <2>5. /\ Cards!MapThenSumSet(LAMBDA q : r.got[q], Cards!Lifecycle!Statuses)
             = Cards!Cardinality(Cards!Scheduled)
        /\ Cards!Within(r.got["upcoming"], Cards!Min({PageSize, r.got["in_transit"]}), r.moved)
    BY <1>2, <2>1, <2>3, <2>4 DEF GateProgress
  <2> QED
    BY <1>6, <2>5 DEF Cards!AddsUp, r
<1>7. CASE r.kind = "waits"
  <2>1. r.asked = 2
    BY <1>1, <1>7, QueriesCounted DEF Answered
  <2>2. WaitsProgress(r, DaySizes)
    BY <1>1, <1>7 DEF Progress
  <2>3. /\ r.got["0_5"] + r.got["5_15"] + r.got["15_30"] + r.got["over_30"]
             = r.got["processed"]
        /\ r.got["delayed"] = r.got["15_30"] + r.got["over_30"]
        /\ r.got["processed"] + r.got["excluded"] <= DaySizes.came
    BY <2>1, <2>2 DEF WaitsProgress
  <2> QED
    BY <1>2, <1>7, <2>3 DEF Cards!AddsUp, r
<1>8. CASE r.kind = "list"
  <2>1. r.asked = 2
    BY <1>1, <1>8, QueriesCounted DEF Answered
  <2>2. ListProgress(r, DaySizes)
    BY <1>1, <1>8 DEF Progress
  <2>3. Cards!Within(r.got["page"],
                     Cards!Min({PageSize, Cards!Max({0, r.got["count"] - r.skip})}), r.moved)
    BY <2>1, <2>2 DEF ListProgress
  <2> QED
    BY <1>8, <2>3 DEF Cards!AddsUp, r
<1>9. r.kind \in AnswerKinds
  BY <1>1 DEF RequestOK
<1> QED
  BY <1>4, <1>5, <1>6, <1>7, <1>8, <1>9 DEF AnswerKinds

\* The figures of an answer add up when nothing moved while its queries ran, and are else
\* off by no more than the rows that moved.
THEOREM FiguresAddUp ==
  ASSUME Cards!DashboardAssumption
  PROVE Cards!Spec => []Cards!CardsAddUp
<1>1. DayInv => Cards!CardsAddUp
  BY GivenAnswersAddUp
<1> QED
  BY <1>1, DayInvariant, PTL

-----------------------------------------------------------------------------
(* The import of trips *)

\* The row that waits to be flushed is one, and came after all that were flushed.
Waiting(i) ==
  /\ \A p, q \in pending[i] : p = q
  /\ \A f \in flushed[i], p \in pending[i] : f.by[2] < p.by[2]

\* What an open import has added bears the numbers of the rows it has read.
Numbered(i) ==
  IF rows[i] = Closed THEN Import!Imported(i) = {}
  ELSE /\ rows[i] \in 0 .. MaxRows
       /\ \A v \in Import!Imported(i) :
            v.by[2] \in 1 .. rows[i] /\ v.time \in Import!Times \cup {NoTime}

NeighboursOnly(i) ==
  \A t, u \in Import!Imported(i) :
    (t.truck = u.truck /\ Import!Near(t.time, u.time) /\ t.by[2] < u.by[2])
      => \A v \in Import!Imported(i) : v.by[2] \notin t.by[2] + 1 .. u.by[2] - 1

ImportInv ==
  /\ rows \in [Importers -> 0 .. MaxRows \cup {Closed}]
  /\ DOMAIN flushed = Importers /\ DOMAIN pending = Importers
  /\ \A i \in Importers : Waiting(i) /\ Numbered(i) /\ NeighboursOnly(i)

\* Nothing is read to begin with.
LEMMA ImportInit ==
  ASSUME Import!ImportAssumption
  PROVE Import!Init => ImportInv
  BY DEF Import!ImportAssumption, Import!Init, ImportInv, Waiting, Numbered, NeighboursOnly,
     Import!Imported

\* A conflict is one from either side.
LEMMA NearIsSymmetric ==
  ASSUME Import!ImportAssumption, NEW t \in Import!Times \cup {NoTime},
         NEW u \in Import!Times \cup {NoTime}, Import!Near(t, u)
  PROVE Import!Near(u, t) /\ t # NoTime /\ u # NoTime
<1>1. t \in Nat /\ u \in Nat /\ Window \in Nat /\ t # NoTime /\ u # NoTime
      /\ t - u \in (0 - Window) .. Window
  BY DEF Import!ImportAssumption, Import!Near, Import!Times
<1> QED
  BY <1>1 DEF Import!Near

\* What another importer does leaves this one alone.
LEMMA OtherImporters ==
  ASSUME ImportInv, NEW i \in Importers,
         UNCHANGED <<rows[i], flushed[i], pending[i]>>
  PROVE Waiting(i)' /\ Numbered(i)' /\ NeighboursOnly(i)'
  BY DEF ImportInv, Waiting, Numbered, NeighboursOnly, Import!Imported

\* A row that is refused only counts.
LEMMA RejectKeeps ==
  ASSUME Import!ImportAssumption, ImportInv, NEW i \in Importers, NEW row \in Import!Row,
         Import!Reject(i, row)
  PROVE ImportInv'
<1>1. /\ rows[i] # Closed /\ rows[i] \in 0 .. MaxRows /\ rows[i] < MaxRows
      /\ rows' = [rows EXCEPT ![i] = @ + 1]
      /\ UNCHANGED <<flushed, pending>>
  BY DEF Import!Reject, ImportInv
<1>2. /\ rows'[i] = rows[i] + 1 /\ rows'[i] \in 0 .. MaxRows /\ rows'[i] # Closed
      /\ rows' \in [Importers -> 0 .. MaxRows \cup {Closed}]
      /\ \A j \in Importers : j # i => rows'[j] = rows[j]
  BY <1>1 DEF ImportInv, Import!ImportAssumption
<1>3. ASSUME NEW j \in Importers PROVE Waiting(j)' /\ Numbered(j)' /\ NeighboursOnly(j)'
  <2>1. CASE j # i
    BY <1>1, <1>2, <2>1, OtherImporters
  <2>2. CASE j = i
    <3>1. Waiting(i)' /\ NeighboursOnly(i)'
      BY <1>1 DEF ImportInv, Waiting, NeighboursOnly, Import!Imported
    <3>2. \A v \in Import!Imported(i) :
            v.by[2] \in 1 .. rows[i] /\ v.time \in Import!Times \cup {NoTime}
      BY <1>1 DEF ImportInv, Numbered
    <3>3. Import!Imported(i)' = Import!Imported(i)
      BY <1>1 DEF Import!Imported
    <3>4. 1 .. rows[i] \subseteq 1 .. rows'[i]
      BY <1>1, <1>2
    <3> QED
      BY <1>2, <2>2, <3>1, <3>2, <3>3, <3>4 DEF Numbered
  <2> QED
    BY <2>1, <2>2
<1> QED
  BY <1>1, <1>2, <1>3 DEF ImportInv

\* A row that is taken conflicts with none that is flushed: only with the one before it.
LEMMA AcceptKeeps ==
  ASSUME Import!ImportAssumption, ImportInv, NEW i \in Importers, NEW row \in Import!Row,
         Import!Accept(i, row)
  PROVE ImportInv'
<1> DEFINE n == Import!Trip(i, row)
           old == Import!Imported(i)
<1>1. /\ rows[i] # Closed /\ rows[i] \in 0 .. MaxRows /\ rows[i] < MaxRows
      /\ rows' = [rows EXCEPT ![i] = @ + 1]
      /\ flushed' = [flushed EXCEPT ![i] = @ \cup pending[i]]
      /\ pending' = [pending EXCEPT ![i] = {n}]
      /\ Import!Conflicts(i, row) = {}
      /\ DOMAIN flushed = Importers /\ DOMAIN pending = Importers
  BY DEF Import!Accept, ImportInv
<1>2. /\ rows'[i] = rows[i] + 1 /\ rows'[i] \in 0 .. MaxRows /\ rows'[i] # Closed
      /\ rows' \in [Importers -> 0 .. MaxRows \cup {Closed}]
      /\ \A j \in Importers : j # i => rows'[j] = rows[j]
  BY <1>1 DEF ImportInv, Import!ImportAssumption
<1>3. /\ flushed'[i] = old /\ pending'[i] = {n} /\ Import!Imported(i)' = old \cup {n}
      /\ DOMAIN flushed' = Importers /\ DOMAIN pending' = Importers
      /\ \A j \in Importers : j # i => flushed'[j] = flushed[j] /\ pending'[j] = pending[j]
  BY <1>1 DEF Import!Imported
<1>4. /\ n.by[2] = rows[i] + 1 /\ n.truck = row.truck /\ n.time = row.time
      /\ n.time \in Import!Times \cup {NoTime}
  BY DEF Import!Trip, Import!Row
<1>5. \A v \in old : v.by[2] \in 1 .. rows[i] /\ v.time \in Import!Times \cup {NoTime}
  BY <1>1 DEF ImportInv, Numbered
<1>6. \A v \in old : v.by[2] \in Nat /\ v.by[2] < n.by[2]
  BY <1>1, <1>4, <1>5
<1>7. \A f \in flushed[i] : f.truck = n.truck => ~Import!Near(f.time, n.time)
  <2> SUFFICES ASSUME NEW f \in flushed[i], f.truck = n.truck, Import!Near(f.time, n.time)
               PROVE FALSE
    OBVIOUS
  <2>1. f \in old
    BY DEF Import!Imported
  <2>2. Import!Near(n.time, f.time) /\ f.time # NoTime
    BY <1>4, <1>5, <2>1, NearIsSymmetric
  <2>3. f \in Import!Conflicts(i, row)
    BY <1>4, <2>2 DEF Import!Conflicts, Import!Visible
  <2> QED
    BY <1>1, <2>3
<1> HIDE DEF n, old
<1>8. Waiting(i)'
  BY <1>3, <1>6 DEF Waiting
<1>9. Numbered(i)'
  <2>1. ASSUME NEW v \in old \cup {n}
        PROVE v.by[2] \in 1 .. rows'[i] /\ v.time \in Import!Times \cup {NoTime}
    <3>1. CASE v \in old
      BY <1>1, <1>2, <1>5, <3>1
    <3>2. CASE v = n
      BY <1>1, <1>2, <1>4, <3>2
    <3> QED
      BY <3>1, <3>2
  <2> QED
    BY <1>2, <1>3, <2>1 DEF Numbered
<1>10. NeighboursOnly(i)'
  <2> SUFFICES ASSUME NEW t \in old \cup {n}, NEW u \in old \cup {n}, NEW v \in old \cup {n},
                      t.truck = u.truck, Import!Near(t.time, u.time), t.by[2] < u.by[2],
                      v.by[2] \in t.by[2] + 1 .. u.by[2] - 1
               PROVE FALSE
    BY <1>3 DEF NeighboursOnly, Import!Near
  <2>1. /\ t.by[2] \in Nat /\ u.by[2] \in Nat /\ v.by[2] \in Nat /\ n.by[2] \in Nat
        /\ t.by[2] < v.by[2] /\ v.by[2] < u.by[2]
    <3>1. n.by[2] \in Nat
      BY <1>1, <1>4
    <3>2. t.by[2] \in Nat /\ u.by[2] \in Nat /\ v.by[2] \in Nat
      BY <1>6, <3>1
    <3> QED
      BY <3>1, <3>2
  <2>2. u.by[2] <= n.by[2]
    BY <1>6, <2>1
  <2>3. t \in old /\ v \in old
    BY <2>1, <2>2
  <2>4. CASE u \in old
    BY <2>3, <2>4 DEF ImportInv, NeighboursOnly, old
  <2>5. CASE u = n
    <3>1. t \in pending[i]
      BY <1>7, <2>3, <2>5 DEF old, Import!Imported
    <3>2. v \in pending[i] \/ v.by[2] < t.by[2]
      BY <2>3, <3>1 DEF ImportInv, Waiting, old, Import!Imported
    <3>3. v = t \/ v.by[2] < t.by[2]
      BY <3>1, <3>2 DEF ImportInv, Waiting
    <3> QED
      BY <2>1, <3>3
  <2> QED
    BY <2>4, <2>5
<1>11. ASSUME NEW j \in Importers PROVE Waiting(j)' /\ Numbered(j)' /\ NeighboursOnly(j)'
  <2>1. CASE j # i
    BY <1>2, <1>3, <2>1, OtherImporters
  <2> QED
    BY <1>8, <1>9, <1>10, <2>1
<1> QED
  BY <1>2, <1>3, <1>11 DEF ImportInv

\* An import that is committed or fails has nothing left.
LEMMA CloseKeeps ==
  ASSUME Import!ImportAssumption, ImportInv, NEW i \in Importers,
         Import!Commit(i) \/ Import!Abort(i)
  PROVE ImportInv'
<1>1. /\ flushed' = [flushed EXCEPT ![i] = {}] /\ pending' = [pending EXCEPT ![i] = {}]
      /\ rows' = [rows EXCEPT ![i] = Closed]
      /\ DOMAIN flushed = Importers /\ DOMAIN pending = Importers
      /\ rows \in [Importers -> 0 .. MaxRows \cup {Closed}]
  BY DEF Import!Commit, Import!Abort, ImportInv
<1>2. /\ rows' \in [Importers -> 0 .. MaxRows \cup {Closed}]
      /\ DOMAIN flushed' = Importers /\ DOMAIN pending' = Importers
      /\ rows'[i] = Closed /\ flushed'[i] = {} /\ pending'[i] = {}
      /\ \A j \in Importers : j # i => UNCHANGED <<rows[j], flushed[j], pending[j]>>
  BY <1>1
<1>3. Waiting(i)' /\ Numbered(i)' /\ NeighboursOnly(i)'
  BY <1>2 DEF Waiting, Numbered, NeighboursOnly, Import!Imported
<1>4. \A j \in Importers : j # i => Waiting(j)' /\ Numbered(j)' /\ NeighboursOnly(j)'
  BY <1>2, OtherImporters
<1> QED
  BY <1>2, <1>3, <1>4 DEF ImportInv

\* The invariant holds however many imports run at once and whichever fail.
THEOREM ImportInvariant ==
  ASSUME Import!ImportAssumption
  PROVE Import!Spec => []ImportInv
<1>1. ImportInv /\ [Import!Next]_(Import!vars) => ImportInv'
  <2> SUFFICES ASSUME ImportInv, [Import!Next]_(Import!vars) PROVE ImportInv'
    OBVIOUS
  <2>1. CASE UNCHANGED <<rows, flushed, pending>>
    BY <2>1 DEF ImportInv, Waiting, Numbered, NeighboursOnly, Import!Imported
  <2>2. CASE UNCHANGED Import!vars
    BY <2>1, <2>2 DEF Import!vars
  <2>3. ASSUME NEW t \in table, Import!Ends(t) PROVE ImportInv'
    BY <2>1, <2>3 DEF Import!Ends
  <2> QED
    BY <2>2, <2>3, RejectKeeps, AcceptKeeps, CloseKeeps DEF Import!Next
<1> QED
  BY ImportInit, <1>1, PTL DEF Import!Spec

\* Rows of one file that are too near each other are both taken only when they follow one
\* another: the session has not flushed the first when the second is checked
\* (routes/arrivals.py, bulk import).
THEOREM ImportedRowsCollideOnlyNext ==
  ASSUME Import!ImportAssumption
  PROVE Import!Spec => []Import!OnlyNeighboursCollide
<1>1. ImportInv => Import!OnlyNeighboursCollide
  BY DEF ImportInv, NeighboursOnly, Import!OnlyNeighboursCollide
<1> QED
  BY ImportInvariant, <1>1, PTL

-----------------------------------------------------------------------------
(* The sum *)

\* Whichever part takes the steps, each of these does what it does by itself.
THEOREM BackOfficeImplementsItsParts ==
  SumSpec => Spec /\ Real!Spec /\ Cards!Spec /\ Rolls!Spec /\ Import!Spec
<1>1. SumInit => Init /\ Real!Init /\ Cards!Init /\ Rolls!Init /\ Import!Init
  BY DEF SumInit
<1>2. [SumNext]_allVars
      => /\ [Next]_vars /\ [Real!Next]_(Real!vars) /\ [Cards!Next]_(Cards!vars)
         /\ [Rolls!Next]_(Rolls!vars) /\ [Import!Next]_(Import!vars)
  BY DEF SumNext, allVars, RealVars, CardVars, RollVars, ImportVars, Real!vars, Cards!vars,
         Cards!trips, Rolls!vars, Import!vars
<1> QED
  BY <1>1, <1>2, PTL DEF SumSpec, Spec, Real!Spec, Cards!Spec, Rolls!Spec, Import!Spec

\* The gateway selects the trip that the Data Module flags: the property of the run.
THEOREM FlaggedTripIsSelected ==
  ASSUME Real!RealtimeAssumption
  PROVE SumSpec => []SelectsTheFlaggedTrip
<1>1. Real!SelectsTheFlaggedTrip => SelectsTheFlaggedTrip
  BY DEF SelectsTheFlaggedTrip
<1> QED
  BY BackOfficeImplementsItsParts, SameTripIsSelected, <1>1, PTL

\* The figures of an answer add up, or are off by the rows that moved: the property of
\* the run.
THEOREM CardsOfTheBackOffice ==
  ASSUME Cards!DashboardAssumption
  PROVE SumSpec => []CardsAddUp
<1>1. Cards!CardsAddUp => CardsAddUp
  BY DEF CardsAddUp
<1> QED
  BY BackOfficeImplementsItsParts, FiguresAddUp, <1>1, PTL

\* A rollup counts no row twice and misses late visits only: the property of the run.
THEOREM RollupsOfTheBackOffice ==
  ASSUME Rolls!StatisticsAssumption
  PROVE SumSpec => []RollupsMissOnlyLateVisits
<1>1. Rolls!RollupsMissOnlyLateVisits => RollupsMissOnlyLateVisits
  BY DEF RollupsMissOnlyLateVisits
<1> QED
  BY BackOfficeImplementsItsParts, RollupsAreRight, <1>1, PTL

\* Imported rows that collide are neighbours in the file: the property of the run.
THEOREM OnlyNeighboursOfTheFileCollide ==
  ASSUME Import!ImportAssumption
  PROVE SumSpec => []OnlyNeighboursCollide
<1>1. Import!OnlyNeighboursCollide => OnlyNeighboursCollide
  BY DEF OnlyNeighboursCollide
<1> QED
  BY BackOfficeImplementsItsParts, ImportedRowsCollideOnlyNext, <1>1, PTL
=============================================================================
