----------------------- MODULE DecisionConsumerProofs -----------------------
(***************************************************************************)
(* Proofs about DecisionConsumer, for every set of appointments and plates *)
(* and every number of messages, errors and crashes: the types, that a     *)
(* driver is told to enter at most once per appointment, that consumer and *)
(* REST clients together implement AppointmentLifecycle, that an           *)
(* infraction delivered again takes effect once and is on record before    *)
(* anybody is told, and that no committed offset passes a decision that    *)
(* was not dealt with.                                                     *)
(***************************************************************************)
EXTENDS DecisionConsumer, TLAPS

\* What the topics hold.
LogInv ==
  /\ Len(log["agent"]) + Len(log["operator"]) + Len(log["infraction"]) <= MaxMessages
  /\ \A t \in Topics : \A i \in 1..Len(log[t]) : log[t][i].kind \in Kinds[t]

\* The steps in which an infraction is in hand, after the inbox check.
InfractionSteps == {"find", "flag", "alert", "gate", "driver", "mark", "markFailed"}

\* What the consumer holds at each step.
StepInv ==
  /\ pc \notin {"down", "idle"} => cur \in Ids
  /\ pc \in {"handle", "flag"} => target \in Appointments
  /\ pc \in InfractionSteps \cup {"inbox"} => cur[1] = "infraction"

\* An appointment that has not been let in was never announced as let in: the
\* transitions of the trigger lead back to neither of these statuses.
AdmissionInv ==
  /\ \A a \in Appointments : status[a] \in {"scheduled", "in_transit"} => accepted[a] = 0
  /\ AdmittedOnce

\* How far the infraction at offset o has got.
Effect(o) ==
  /\ alerts[o] <= 1 /\ gateNotices[o] <= 1 /\ driverNotices[o] <= 1
  /\ inbox[o] = "none" => alerts[o] = 0 /\ gateNotices[o] = 0 /\ driverNotices[o] = 0
  /\ cur = <<"infraction", o>> =>
       /\ pc \in InfractionSteps => inbox[o] # "none"
       /\ pc \in {"find", "flag", "alert"} => alerts[o] = 0
       /\ pc \in {"find", "flag", "alert", "gate"} => gateNotices[o] = 0
       /\ pc \in {"find", "flag", "alert", "gate", "driver"} => driverNotices[o] = 0

EffectInv == \A o \in Offsets : <<"infraction", o>> \notin lost => Effect(o)

Inv == TypeOK /\ LogInv /\ StepInv /\ AdmissionInv /\ EffectInv

\* The initial states.
LEMMA InitInv == Init => Inv
<1> SUFFICES ASSUME Init PROVE Inv
  OBVIOUS
<1>1. TypeOK
  <2>1. log \in [Topics -> Seq(Messages)]
    BY DEF Init
  <2>2. committed \in [Topics -> (0..MaxMessages) \cup {None}]
    BY DEF Init
  <2>3. /\ status \in [Appointments -> Lifecycle!Statuses]
        /\ accepted \in [Appointments -> Nat]
        /\ inbox \in [Offsets -> InboxStates]
    BY DEF Init, Lifecycle!Statuses, InboxStates
  <2>4. /\ alerts \in [Offsets -> Nat] /\ gateNotices \in [Offsets -> Nat]
        /\ driverNotices \in [Offsets -> Nat] /\ reviews \in [Offsets -> Nat]
    BY DEF Init
  <2>5. /\ pc \in Steps /\ position \in [Topics -> 0..MaxMessages]
        /\ errors \in 0..MaxErrors /\ crashes \in 0..MaxCrashes
    BY ConsumerAssumption DEF Init, Steps
  <2> QED
    BY <2>1, <2>2, <2>3, <2>4, <2>5 DEF Init, TypeOK
<1>2. LogInv /\ StepInv
  BY ConsumerAssumption DEF Init, LogInv, StepInv, Topics, InfractionSteps
<1>3. AdmissionInv
  BY DEF Init, AdmissionInv, AdmittedOnce
<1>4. EffectInv
  <2>1. /\ \A o \in Offsets : alerts[o] = 0 /\ gateNotices[o] = 0 /\ driverNotices[o] = 0
        /\ pc = "down"
    BY DEF Init
  <2> QED
    BY <2>1 DEF EffectInv, Effect, InfractionSteps
<1> QED
  BY <1>1, <1>2, <1>3, <1>4 DEF Inv

-----------------------------------------------------------------------------
(* Types, logs and steps.                                                   *)

\* A part of a bounded sum is bounded.
LEMMA PartsOfSum ==
  ASSUME NEW a \in Nat, NEW b \in Nat, NEW c \in Nat, NEW m \in Nat, a + b + c <= m
  PROVE a <= m /\ b <= m /\ c <= m
OBVIOUS

\* Where a topic ends.
LEMMA LogLength ==
  ASSUME TypeOK, LogInv, NEW t \in Topics
  PROVE Len(log[t]) \in 0..MaxMessages
<1>1. /\ Len(log["agent"]) \in Nat
      /\ Len(log["operator"]) \in Nat
      /\ Len(log["infraction"]) \in Nat
  BY DEF TypeOK, Topics
<1>2. Len(log["agent"]) + Len(log["operator"]) + Len(log["infraction"]) <= MaxMessages
  BY DEF LogInv
<1>3. /\ Len(log["agent"]) <= MaxMessages
      /\ Len(log["operator"]) <= MaxMessages
      /\ Len(log["infraction"]) <= MaxMessages
  <2>1. MaxMessages \in Nat
    BY ConsumerAssumption
  <2> QED
    BY <1>1, <1>2, <2>1, PartsOfSum
<1>4. Len(log[t]) \in Nat /\ Len(log[t]) <= MaxMessages
  <2>1. CASE t = "agent"
    BY <1>1, <1>3, <2>1
  <2>2. CASE t = "operator"
    BY <1>1, <1>3, <2>2
  <2>3. CASE t = "infraction"
    BY <1>1, <1>3, <2>3
  <2> QED
    BY <2>1, <2>2, <2>3 DEF Topics
<1> QED
  BY <1>4, ConsumerAssumption

\* How a step may end, as far as types go.
LEMMA ErrorsTyped ==
  ASSUME TypeOK, cur \in Ids, NoError \/ Refused \/ Raises \/ LosesCommit
  PROVE failed' \in SUBSET Ids /\ lost' \in SUBSET Ids /\ errors' \in 0..MaxErrors
BY ConsumerAssumption DEF TypeOK, NoError, Refused, Raises, LosesCommit

\* Counting one more.
LEMMA CountTyped ==
  ASSUME NEW S, NEW f \in [S -> Nat], NEW x \in S
  PROVE [f EXCEPT ![x] = @ + 1] \in [S -> Nat]
OBVIOUS

\* A message in hand has an offset.
LEMMA IdParts ==
  ASSUME cur \in Ids
  PROVE /\ cur[1] \in Topics /\ offset \in Offsets /\ offset \in 0..MaxMessages
        /\ NextOffset \in 0..MaxMessages
        /\ cur = <<cur[1], offset>>
BY ConsumerAssumption DEF Ids, Offsets, offset, NextOffset

\* A publication.
LEMMA PublishTyped ==
  ASSUME TypeOK, LogInv, StepInv, NEW t \in Topics, NEW m \in Messages, Publish(t, m)
  PROVE TypeOK' /\ LogInv' /\ StepInv'
<1> USE DEF Publish, pgVars, apptVars, countVars, procVars, ghostVars
<1>1. /\ log' \in [Topics -> Seq(Messages)]
      /\ Len(log'[t]) = Len(log[t]) + 1
      /\ \A u \in Topics \ {t} : log'[u] = log[u]
      /\ \A i \in 1..Len(log'[t]) :
           log'[t][i] = IF i <= Len(log[t]) THEN log[t][i] ELSE m
  BY DEF TypeOK
<1>2. TypeOK'
  BY <1>1 DEF TypeOK
<1>3. LogInv'
  <2>0. \A u \in Topics : Len(log[u]) \in Nat
    BY DEF TypeOK
  <2>1. Len(log'["agent"]) + Len(log'["operator"]) + Len(log'["infraction"]) <= MaxMessages
    <3>0. /\ Len(log["agent"]) \in Nat
          /\ Len(log["operator"]) \in Nat
          /\ Len(log["infraction"]) \in Nat
      BY <2>0 DEF Topics
    <3>1. CASE t = "agent"
      BY <1>1, <3>0, <3>1, ConsumerAssumption DEF Topics
    <3>2. CASE t = "operator"
      BY <1>1, <3>0, <3>2, ConsumerAssumption DEF Topics
    <3>3. CASE t = "infraction"
      BY <1>1, <3>0, <3>3, ConsumerAssumption DEF Topics
    <3> QED
      BY <3>1, <3>2, <3>3 DEF Topics
  <2>2. ASSUME NEW u \in Topics, NEW i \in 1..Len(log'[u])
        PROVE log'[u][i].kind \in Kinds[u]
    <3>1. CASE u = t
      BY <1>1, <2>0, <3>1 DEF LogInv
    <3>2. CASE u # t
      BY <1>1, <3>2 DEF LogInv
    <3> QED
      BY <3>1, <3>2
  <2> QED
    BY <2>1, <2>2 DEF LogInv
<1>4. StepInv'
  BY DEF StepInv
<1> QED
  BY <1>2, <1>3, <1>4

\* The REST clients.
LEMMA ClientsTyped ==
  ASSUME TypeOK, LogInv, StepInv, Clients
  PROVE TypeOK' /\ LogInv' /\ StepInv'
<1> USE DEF kafkaVars, countVars, procVars, ghostVars
<1>1. PICK a \in Appointments :
        \/ \E s \in Lifecycle!Statuses : SetStatus(a, s)
        \/ CreateVisit(a)
        \/ FlagByRequest(a)
  BY DEF Clients
<1>2. TypeOK'
  <2>1. ASSUME NEW s \in Lifecycle!Statuses, SetStatus(a, s) PROVE TypeOK'
    BY <2>1 DEF SetStatus, TypeOK
  <2>2. CASE CreateVisit(a)
    BY <2>2 DEF CreateVisit, TypeOK
  <2>3. CASE FlagByRequest(a)
    BY <2>3 DEF FlagByRequest, TypeOK
  <2> QED
    BY <1>1, <2>1, <2>2, <2>3
<1>3. UNCHANGED <<log, procVars>>
  BY <1>1 DEF SetStatus, CreateVisit, FlagByRequest
<1>4. LogInv' /\ StepInv'
  BY <1>3 DEF LogInv, StepInv
<1> QED
  BY <1>2, <1>4

\* Start, the poll, the commit of an offset and a crash.
LEMMA LoopTyped ==
  ASSUME TypeOK, LogInv, StepInv,
         \/ Start
         \/ \E t \in Topics : Poll(t)
         \/ CommitOffset
         \/ Crash
  PROVE TypeOK' /\ LogInv' /\ StepInv'
<1> USE DEF kafkaVars, pgVars, apptVars, countVars, procVars, ghostVars
<1>1. CASE Start
  <2>1. \A t \in Topics : Resume(t) \in 0..MaxMessages
    BY LogLength DEF Resume, TypeOK
  <2>2. TypeOK'
    BY <1>1, <2>1 DEF Start, TypeOK, Steps
  <2>3. LogInv' /\ StepInv'
    BY <1>1 DEF Start, LogInv, StepInv, InfractionSteps
  <2> QED
    BY <2>2, <2>3
<1>2. ASSUME NEW t \in Topics, Poll(t) PROVE TypeOK' /\ LogInv' /\ StepInv'
  <2> DEFINE m == log[t][position[t] + 1]
  <2>1. /\ position[t] \in Nat /\ position[t] < Len(log[t])
        /\ Len(log[t]) \in 0..MaxMessages
    BY <1>2, LogLength DEF Poll, TypeOK
  <2>2. position[t] + 1 \in 1..Len(log[t])
    BY <2>1
  <2>3. <<t, position[t]>> \in Ids /\ position[t] + 1 \in 0..MaxMessages
    BY <2>1, ConsumerAssumption DEF Ids, Offsets
  <2>4. FirstStep(m) \in Steps
    BY DEF FirstStep, Steps
  <2>5. m.kind \in Kinds[t]
    BY <2>2 DEF LogInv
  <2>6. FirstStep(m) \in {"resolve", "review", "inbox"}
        /\ (FirstStep(m) = "inbox" /\ m.kind # "IGNORED" => t = "infraction")
    BY <2>5 DEF FirstStep, Topics, Kinds, Decisions
  <2>7. TypeOK'
    BY <1>2, <2>3, <2>4 DEF Poll, TypeOK
  <2>8. LogInv'
    BY <1>2 DEF Poll, LogInv
  <2>9. StepInv'
    <3>1. CASE m.kind = "IGNORED"
      BY <1>2, <3>1 DEF Poll, StepInv, InfractionSteps
    <3>2. CASE m.kind # "IGNORED"
      BY <1>2, <2>3, <2>6, <3>2 DEF Poll, StepInv, InfractionSteps
    <3> QED
      BY <3>1, <3>2
  <2> QED
    BY <2>7, <2>8, <2>9
<1>3. CASE CommitOffset
  <2>1. cur \in Ids
    BY <1>3 DEF CommitOffset, StepInv
  <2>2. committed' \in [Topics -> (0..MaxMessages) \cup {None}]
    BY <1>3, <2>1, IdParts DEF CommitOffset, TypeOK
  <2>3. TypeOK'
    BY <1>3, <2>2 DEF CommitOffset, Abandon, TypeOK, Steps
  <2>4. LogInv' /\ StepInv'
    BY <1>3 DEF CommitOffset, Abandon, LogInv, StepInv, InfractionSteps
  <2> QED
    BY <2>3, <2>4
<1>4. CASE Crash
  <2>1. crashes' \in 0..MaxCrashes
    BY <1>4, ConsumerAssumption DEF Crash, TypeOK
  <2>2. TypeOK'
    BY <1>4, <2>1 DEF Crash, TypeOK, Steps
  <2>3. LogInv' /\ StepInv'
    BY <1>4 DEF Crash, LogInv, StepInv, InfractionSteps
  <2> QED
    BY <2>2, <2>3
<1> QED
  BY <1>1, <1>2, <1>3, <1>4

\* The dispatch of a decision and of a pending review.
LEMMA DispatchTyped ==
  ASSUME TypeOK, LogInv, StepInv, StoreReview \/ ResolveAppointment \/ Handle
  PROVE TypeOK' /\ LogInv' /\ StepInv'
<1> USE DEF kafkaVars, pgVars, apptVars, countVars, procVars, ghostVars
<1>0. cur \in Ids
  BY DEF StepInv, StoreReview, ResolveAppointment, Handle
<1>1. CASE StoreReview
  <2>1. failed' \in SUBSET Ids /\ lost' \in SUBSET Ids /\ errors' \in 0..MaxErrors
    BY <1>0, <1>1, ErrorsTyped DEF StoreReview
  <2>2. reviews' \in [Offsets -> Nat]
    <3>1. reviews' = reviews \/ reviews' = [reviews EXCEPT ![offset] = @ + 1]
      BY <1>1 DEF StoreReview
    <3>2. offset \in Offsets
      BY <1>0, IdParts
    <3>3. reviews \in [Offsets -> Nat]
      BY DEF TypeOK
    <3> QED
      BY <3>1, <3>2, <3>3, CountTyped
  <2>3. TypeOK'
    BY <1>1, <2>1, <2>2 DEF StoreReview, Abandon, TypeOK, Steps
  <2>4. LogInv' /\ StepInv'
    BY <1>1 DEF StoreReview, Abandon, LogInv, StepInv, InfractionSteps
  <2> QED
    BY <2>3, <2>4
<1>2. CASE ResolveAppointment
  <2> DEFINE found == ActiveOf(MessageAt(cur).plate)
  <2>1. found \subseteq Appointments /\ LatestOf(found) \subseteq Appointments
    BY DEF ActiveOf, LatestOf
  <2>2. failed' \in SUBSET Ids /\ lost' \in SUBSET Ids /\ errors' \in 0..MaxErrors
    BY <1>0, <1>2, ErrorsTyped DEF ResolveAppointment
  <2>3. \/ /\ target' \in Appointments /\ pc' = "handle"
           /\ UNCHANGED <<position, cur, unmatched>>
        \/ Abandon /\ unmatched' \in {unmatched, unmatched \cup {cur}}
    BY <1>2, <2>1 DEF ResolveAppointment
  <2>4. /\ pc' \in Steps /\ cur' \in Ids \cup {None}
        /\ target' \in Appointments \cup {None}
        /\ position' = position /\ unmatched' \in SUBSET Ids
    BY <1>0, <2>3 DEF Abandon, TypeOK, Steps
  <2>5. TypeOK'
    BY <1>2, <2>2, <2>4 DEF ResolveAppointment, TypeOK
  <2>6. LogInv' /\ StepInv'
    BY <1>0, <1>2, <2>3 DEF ResolveAppointment, Abandon, LogInv, StepInv, InfractionSteps
  <2> QED
    BY <2>5, <2>6
<1>3. CASE Handle
  <2>0. target \in Appointments
    BY <1>3 DEF Handle, StepInv
  <2>1. failed' \in SUBSET Ids /\ lost' \in SUBSET Ids /\ errors' \in 0..MaxErrors
    BY <1>0, <1>3, ErrorsTyped DEF Handle
  <2>2. /\ status' \in [Appointments -> Lifecycle!Statuses]
        /\ visits' \in SUBSET Appointments
        /\ accepted' \in [Appointments -> Nat]
        /\ handled' \in SUBSET Ids
    <3>1. /\ status' \in {status, [status EXCEPT ![target] = "in_process"]}
          /\ visits' \in {visits, visits \cup {target}}
          /\ accepted' \in {accepted, [accepted EXCEPT ![target] = @ + 1]}
          /\ handled' \in {handled, handled \cup {cur}}
      BY <1>3 DEF Handle
    <3>2. status' \in [Appointments -> Lifecycle!Statuses]
      BY <3>1 DEF TypeOK, Lifecycle!Statuses
    <3>3. accepted' \in [Appointments -> Nat]
      BY <3>1 DEF TypeOK
    <3>4. visits' \in SUBSET Appointments /\ handled' \in SUBSET Ids
      BY <1>0, <2>0, <3>1 DEF TypeOK
    <3> QED
      BY <3>2, <3>3, <3>4
  <2>3. Goto("commit") \/ Abandon
    BY <1>3 DEF Handle
  <2>4. TypeOK'
    BY <1>0, <1>3, <2>1, <2>2, <2>3 DEF Handle, Goto, Abandon, TypeOK, Steps
  <2>5. LogInv' /\ StepInv'
    BY <1>0, <1>3, <2>3 DEF Handle, Goto, Abandon, LogInv, StepInv, InfractionSteps
  <2> QED
    BY <2>4, <2>5
<1> QED
  BY <1>1, <1>2, <1>3

\* The steps of an infraction.
Infraction == InboxCheck \/ FindInfringing \/ FlagInfraction \/ CreateAlert
              \/ NotifyGate \/ NotifyDriver \/ MarkProcessed \/ MarkFailed

LEMMA InfractionTyped ==
  ASSUME TypeOK, LogInv, StepInv, Infraction
  PROVE TypeOK' /\ LogInv' /\ StepInv'
<1> USE DEF kafkaVars, pgVars, apptVars, countVars, procVars, ghostVars
<1> DEFINE Parts == /\ failed' \in SUBSET Ids /\ lost' \in SUBSET Ids
                    /\ errors' \in 0..MaxErrors
                    /\ UNCHANGED <<log, committed, status, visits, accepted, reviews,
                                   handled, unmatched, skipped, crashes>>
           Moves == \/ /\ pc' \in InfractionSteps \cup {"commit"}
                       /\ target' \in Appointments \cup {None}
                       /\ pc' = "flag" => target' \in Appointments
                       /\ UNCHANGED <<position, cur>>
                    \/ Abandon
           Effects == /\ flagged' \in SUBSET Appointments
                      /\ inbox' \in [Offsets -> InboxStates]
                      /\ alerts' \in [Offsets -> Nat]
                      /\ gateNotices' \in [Offsets -> Nat]
                      /\ driverNotices' \in [Offsets -> Nat]
<1>0. cur \in Ids /\ offset \in Offsets /\ cur[1] = "infraction"
  BY IdParts DEF StepInv, Infraction, InfractionSteps, InboxCheck, FindInfringing,
     FlagInfraction, CreateAlert, NotifyGate, NotifyDriver, MarkProcessed, MarkFailed
<1>1. Parts
  BY <1>0, ErrorsTyped
     DEF Infraction, InboxCheck, FindInfringing, FlagInfraction, CreateAlert, NotifyGate,
         NotifyDriver, MarkProcessed, MarkFailed, Tells
<1>2. Moves /\ Effects
  <2>1. CASE InboxCheck
    BY <1>0, <2>1 DEF InboxCheck, Goto, InfractionSteps, TypeOK, InboxStates
  <2>2. CASE FindInfringing
    <3>1. LatestOf(ActiveOf(MessageAt(cur).plate)) \subseteq Appointments
      BY DEF LatestOf, ActiveOf
    <3> QED
      BY <2>2, <3>1 DEF FindInfringing, FlagStep, Goto, InfractionSteps, TypeOK
  <2>3. CASE FlagInfraction
    <3>1. target \in Appointments
      BY <2>3 DEF FlagInfraction, StepInv
    <3> QED
      BY <2>3, <3>1 DEF FlagInfraction, Goto, InfractionSteps, TypeOK
  <2>4. CASE CreateAlert
    <3>1. alerts' \in [Offsets -> Nat]
      <4>1. alerts' = alerts \/ alerts' = [alerts EXCEPT ![offset] = @ + 1]
        BY <2>4 DEF CreateAlert, Tells
      <4>2. alerts \in [Offsets -> Nat]
        BY DEF TypeOK
      <4> QED
        BY <1>0, <4>1, <4>2, CountTyped
    <3> QED
      BY <2>4, <3>1 DEF CreateAlert, Goto, InfractionSteps, TypeOK
  <2>5. CASE NotifyGate
    <3>1. gateNotices' \in [Offsets -> Nat]
      <4>1. gateNotices' = gateNotices \/ gateNotices' = [gateNotices EXCEPT ![offset] = @ + 1]
        BY <2>5 DEF NotifyGate, Tells
      <4>2. gateNotices \in [Offsets -> Nat]
        BY DEF TypeOK
      <4> QED
        BY <1>0, <4>1, <4>2, CountTyped
    <3> QED
      BY <2>5, <3>1 DEF NotifyGate, Goto, InfractionSteps, TypeOK
  <2>6. CASE NotifyDriver
    <3>1. driverNotices' \in [Offsets -> Nat]
      <4>1. driverNotices' = driverNotices \/ driverNotices' = [driverNotices EXCEPT ![offset] = @ + 1]
        BY <2>6 DEF NotifyDriver, Tells
      <4>2. driverNotices \in [Offsets -> Nat]
        BY DEF TypeOK
      <4> QED
        BY <1>0, <4>1, <4>2, CountTyped
    <3> QED
      BY <2>6, <3>1 DEF NotifyDriver, Goto, InfractionSteps, TypeOK
  <2>7. CASE MarkProcessed
    BY <1>0, <2>7 DEF MarkProcessed, Goto, InfractionSteps, TypeOK, InboxStates
  <2>8. CASE MarkFailed
    BY <1>0, <2>8 DEF MarkFailed, Goto, InfractionSteps, TypeOK, InboxStates
  <2> QED
    BY <2>1, <2>2, <2>3, <2>4, <2>5, <2>6, <2>7, <2>8 DEF Infraction
<1>3. TypeOK'
  BY <1>0, <1>1, <1>2 DEF TypeOK, Abandon, Steps, InfractionSteps
<1>4. LogInv' /\ StepInv'
  BY <1>0, <1>1, <1>2 DEF LogInv, StepInv, Abandon, InfractionSteps
<1> QED
  BY <1>3, <1>4

\* Every step keeps types, logs and steps.
LEMMA TypeStep == TypeOK /\ LogInv /\ StepInv /\ [Next]_vars => (TypeOK /\ LogInv /\ StepInv)'
<1> SUFFICES ASSUME TypeOK, LogInv, StepInv, [Next]_vars PROVE (TypeOK /\ LogInv /\ StepInv)'
  OBVIOUS
<1>1. CASE Producers
  BY <1>1, PublishTyped DEF Producers
<1>2. CASE Clients
  BY <1>2, ClientsTyped
<1>3. CASE Consumer
  BY <1>3, LoopTyped, DispatchTyped, InfractionTyped DEF Consumer, Infraction
<1>4. CASE Crash
  BY <1>4, LoopTyped
<1>5. CASE UNCHANGED vars
  BY <1>5 DEF vars, kafkaVars, pgVars, apptVars, countVars, procVars, ghostVars,
              TypeOK, LogInv, StepInv
<1> QED
  BY <1>1, <1>2, <1>3, <1>4, <1>5 DEF Next

-----------------------------------------------------------------------------
(* Admission: what the trigger and the row lock guarantee together.         *)

\* What the trigger leaves of the status before.
LEMMA LegalFrom ==
  ASSUME NEW old, NEW new, Lifecycle!Legal(old, new)
  PROVE /\ new \in {"scheduled", "in_transit"} => old \in {"scheduled", "in_transit"}
        /\ new = "in_process" => old \in {"in_transit", "in_process"}
BY DEF Lifecycle!Legal, Lifecycle!Transitions

\* Every step keeps AdmissionInv.
LEMMA AdmissionStep == TypeOK /\ StepInv /\ AdmissionInv /\ [Next]_vars => AdmissionInv'
<1> SUFFICES ASSUME TypeOK, StepInv, AdmissionInv, [Next]_vars PROVE AdmissionInv'
  OBVIOUS
<1> USE DEF kafkaVars, pgVars, apptVars, countVars, procVars, ghostVars
<1>0. ASSUME UNCHANGED <<status, accepted>> PROVE AdmissionInv'
  BY <1>0 DEF AdmissionInv, AdmittedOnce
<1>1. CASE Producers
  BY <1>0, <1>1 DEF Producers, Publish
<1>2. CASE Clients
  <2>1. ASSUME NEW a \in Appointments, NEW s \in Lifecycle!Statuses, SetStatus(a, s)
        PROVE AdmissionInv'
    <3>1. /\ s \in {"scheduled", "in_transit"} => status[a] \in {"scheduled", "in_transit"}
          /\ status' = [status EXCEPT ![a] = s] /\ accepted' = accepted
      BY <2>1, LegalFrom DEF SetStatus, Allowed
    <3> QED
      BY <3>1 DEF AdmissionInv, AdmittedOnce, TypeOK
  <2>2. ASSUME NEW a \in Appointments, CreateVisit(a) \/ FlagByRequest(a)
        PROVE AdmissionInv'
    BY <1>0, <2>2 DEF CreateVisit, FlagByRequest
  <2> QED
    BY <1>2, <2>1, <2>2 DEF Clients
<1>3. CASE Handle
  <2>1. target \in Appointments
    BY <1>3 DEF Handle, StepInv
  <2>2. CASE UNCHANGED <<status, accepted>>
    BY <1>0, <2>2
  <2>3. CASE ~UNCHANGED <<status, accepted>>
    <3>1. /\ Lifecycle!Legal(status[target], "in_process")
          /\ status' = [status EXCEPT ![target] = "in_process"]
          /\ accepted' = IF Enters(target) THEN [accepted EXCEPT ![target] = @ + 1]
                                           ELSE accepted
      BY <1>3, <2>3 DEF Handle, Allowed
    <3>2. status[target] \in {"in_transit", "in_process"}
      BY <3>1, LegalFrom
    <3>3. Enters(target) => accepted[target] = 0
      BY <2>1, <3>2 DEF Enters, AdmissionInv
    <3> QED
      BY <2>1, <3>1, <3>3 DEF AdmissionInv, AdmittedOnce, TypeOK
  <2> QED
    BY <2>2, <2>3
<1>4. CASE Consumer /\ ~Handle
  BY <1>0, <1>4
     DEF Consumer, Start, Poll, StoreReview, ResolveAppointment, InboxCheck, FindInfringing,
         FlagInfraction, CreateAlert, NotifyGate, NotifyDriver, MarkProcessed, MarkFailed,
         CommitOffset
<1>5. CASE Crash
  BY <1>0, <1>5 DEF Crash
<1>6. CASE UNCHANGED vars
  BY <1>0, <1>6 DEF vars
<1> QED
  BY <1>1, <1>2, <1>3, <1>4, <1>5, <1>6 DEF Next

-----------------------------------------------------------------------------
(* Infractions: what the inbox guarantees.                                  *)

\* A step that has no infraction in hand afterwards.
LEMMA EffectKept ==
  ASSUME EffectInv, UNCHANGED <<alerts, gateNotices, driverNotices, inbox>>,
         lost \subseteq lost', pc' \notin InfractionSteps
  PROVE EffectInv'
BY DEF EffectInv, Effect, InfractionSteps

\* A step that leaves all of it alone.
LEMMA EffectUnchanged ==
  ASSUME EffectInv,
         UNCHANGED <<alerts, gateNotices, driverNotices, inbox, lost, pc, cur>>
  PROVE EffectInv'
BY DEF EffectInv, Effect

\* A step that concerns the infraction in hand alone.
LEMMA EffectOfCur ==
  ASSUME EffectInv, NEW p \in Offsets, cur = <<"infraction", p>>,
         cur' = cur \/ pc' \notin InfractionSteps, lost \subseteq lost',
         cur \in lost' \/ Effect(p)',
         \A o \in Offsets \ {p} :
           UNCHANGED <<alerts[o], gateNotices[o], driverNotices[o], inbox[o]>>
  PROVE EffectInv'
<1> SUFFICES ASSUME NEW o \in Offsets, <<"infraction", o>> \notin lost'
             PROVE Effect(o)'
  BY DEF EffectInv
<1>1. CASE o = p
  BY <1>1
<1>2. CASE o # p
  <2>1. Effect(o) /\ UNCHANGED <<alerts[o], gateNotices[o], driverNotices[o], inbox[o]>>
    BY <1>2 DEF EffectInv
  <2>2. cur' = <<"infraction", o>> => pc' \notin InfractionSteps
    BY <1>2
  <2> QED
    BY <2>1, <2>2 DEF Effect, InfractionSteps
<1> QED
  BY <1>1, <1>2

\* The steps of an infraction.
LEMMA InfractionEffect ==
  ASSUME TypeOK, StepInv, EffectInv, Infraction
  PROVE EffectInv'
<1> USE DEF kafkaVars, pgVars, apptVars, countVars, procVars, ghostVars
<1>1. PICK p \in Offsets : p = offset /\ cur = <<"infraction", p>>
  BY IdParts DEF StepInv, Infraction, InfractionSteps, InboxCheck, FindInfringing,
     FlagInfraction, CreateAlert, NotifyGate, NotifyDriver, MarkProcessed, MarkFailed
<1>2. /\ alerts \in [Offsets -> Nat] /\ gateNotices \in [Offsets -> Nat]
      /\ driverNotices \in [Offsets -> Nat] /\ inbox \in [Offsets -> InboxStates]
  BY DEF TypeOK
<1>3. lost \subseteq lost'
  BY DEF Infraction, InboxCheck, FindInfringing, FlagInfraction, CreateAlert, NotifyGate,
         NotifyDriver, MarkProcessed, MarkFailed, Tells, NoError, Refused, Raises, LosesCommit
<1>4. cur' = cur \/ pc' \notin InfractionSteps
  BY DEF Infraction, InboxCheck, FindInfringing, FlagInfraction, CreateAlert, NotifyGate,
         NotifyDriver, MarkProcessed, MarkFailed, Goto, Abandon, InfractionSteps
<1>5. ASSUME NEW o \in Offsets \ {p}
      PROVE UNCHANGED <<alerts[o], gateNotices[o], driverNotices[o], inbox[o]>>
  BY <1>1, <1>2, <1>5
     DEF Infraction, InboxCheck, FindInfringing, FlagInfraction, CreateAlert, NotifyGate,
         NotifyDriver, MarkProcessed, MarkFailed, Tells
<1>6. cur \in lost' \/ Effect(p)'
  <2> SUFFICES ASSUME cur \notin lost' PROVE Effect(p)'
    OBVIOUS
  <2>0. Effect(p)
    BY <1>1, <1>3 DEF EffectInv
  <2>1. ~LosesCommit
    BY DEF LosesCommit
  <2>2. CASE InboxCheck
    BY <1>1, <1>2, <2>0, <2>1, <2>2
       DEF InboxCheck, IsNew, Effect, Goto, Abandon, InfractionSteps
  <2>3. CASE FindInfringing
    BY <2>0, <2>3 DEF FindInfringing, FlagStep, Effect, Goto, InfractionSteps
  <2>4. CASE FlagInfraction
    BY <2>0, <2>4 DEF FlagInfraction, Effect, Goto, InfractionSteps
  <2>5. CASE CreateAlert
    BY <1>1, <1>2, <2>0, <2>5 DEF CreateAlert, Tells, Effect, Goto, InfractionSteps
  <2>6. CASE NotifyGate
    BY <1>1, <1>2, <2>0, <2>6 DEF NotifyGate, Tells, Effect, Goto, InfractionSteps
  <2>7. CASE NotifyDriver
    BY <1>1, <1>2, <2>0, <2>7 DEF NotifyDriver, Tells, Effect, Goto, InfractionSteps
  <2>8. CASE MarkProcessed
    BY <1>1, <1>2, <2>0, <2>8 DEF MarkProcessed, Effect, Goto, InfractionSteps
  <2>9. CASE MarkFailed
    BY <1>1, <1>2, <2>0, <2>9 DEF MarkFailed, Effect, Goto, InfractionSteps
  <2> QED
    BY <2>2, <2>3, <2>4, <2>5, <2>6, <2>7, <2>8, <2>9 DEF Infraction
<1> QED
  BY <1>1, <1>3, <1>4, <1>5, <1>6, EffectOfCur

\* Every step keeps EffectInv.
LEMMA EffectStep == TypeOK /\ StepInv /\ EffectInv /\ [Next]_vars => EffectInv'
<1> SUFFICES ASSUME TypeOK, StepInv, EffectInv, [Next]_vars PROVE EffectInv'
  OBVIOUS
<1> USE DEF kafkaVars, pgVars, apptVars, countVars, procVars, ghostVars
<1>1. CASE Producers
  BY <1>1, EffectUnchanged DEF Producers, Publish
<1>2. CASE Clients
  BY <1>2, EffectUnchanged DEF Clients, SetStatus, CreateVisit, FlagByRequest
<1>3. CASE Start \/ CommitOffset \/ Crash
  BY <1>3, EffectKept DEF Start, CommitOffset, Abandon, Crash, InfractionSteps
<1>4. ASSUME NEW t \in Topics, Poll(t) PROVE EffectInv'
  <2>1. pc' \in {"idle", "resolve", "review", "inbox"}
    BY <1>4 DEF Poll, FirstStep
  <2> QED
    BY <1>4, <2>1, EffectKept DEF Poll, InfractionSteps
<1>5. CASE StoreReview \/ ResolveAppointment \/ Handle
  <2>1. pc' \in {"idle", "handle", "commit"}
    BY <1>5 DEF StoreReview, ResolveAppointment, Handle, Goto, Abandon
  <2>2. lost \subseteq lost'
    BY <1>5 DEF StoreReview, ResolveAppointment, Handle, NoError, Refused, Raises, LosesCommit
  <2>3. UNCHANGED <<alerts, gateNotices, driverNotices, inbox>>
    BY <1>5 DEF StoreReview, ResolveAppointment, Handle
  <2> QED
    BY <2>1, <2>2, <2>3, EffectKept DEF InfractionSteps
<1>6. CASE Infraction
  BY <1>6, InfractionEffect
<1>7. CASE UNCHANGED vars
  BY <1>7, EffectUnchanged DEF vars
<1> QED
  BY <1>1, <1>2, <1>3, <1>4, <1>5, <1>6, <1>7 DEF Next, Consumer, Infraction

-----------------------------------------------------------------------------
(* Alerts: the flag is on record before anybody is told.                    *)

\* The infraction at offset o is on record at an appointment of its truck, or
\* the unit of work lost a transaction of it.
OnRecord(o) ==
  \/ <<"infraction", o>> \in lost
  \/ \E a \in flagged : PlateOf[a] = MessageAt(<<"infraction", o>>).plate

Told(o) == alerts[o] > 0 \/ gateNotices[o] > 0 \/ driverNotices[o] > 0

\* The message in hand is in the log, the appointment to flag is of its truck,
\* and from the alert on the infraction is on record.
Recorded(o) ==
  /\ cur = <<"infraction", o>> =>
       /\ pc \in InfractionSteps \cup {"inbox"} => o < Len(log["infraction"])
       /\ pc = "flag" => PlateOf[target] = MessageAt(<<"infraction", o>>).plate
       /\ pc \in {"alert", "gate", "driver"} => OnRecord(o)
  /\ Told(o) => o < Len(log["infraction"]) /\ OnRecord(o)

RecordInv == \A o \in Offsets : Recorded(o)

\* The topics only grow.
LogGrows ==
  \A t \in Topics :
    /\ Len(log[t]) \in Nat /\ Len(log'[t]) \in Nat /\ Len(log[t]) <= Len(log'[t])
    /\ \A i \in 1..Len(log[t]) : log'[t][i] = log[t][i]

LEMMA LogStep ==
  ASSUME TypeOK, \/ UNCHANGED log
                 \/ \E t \in Topics, m \in Messages : Publish(t, m)
  PROVE LogGrows
<1>0. \A t \in Topics : log[t] \in Seq(Messages)
  BY DEF TypeOK
<1>1. CASE UNCHANGED log
  BY <1>0, <1>1 DEF LogGrows
<1>2. ASSUME NEW t \in Topics, NEW m \in Messages, Publish(t, m) PROVE LogGrows
  <2>1. log' = [log EXCEPT ![t] = Append(@, m)] /\ log \in [Topics -> Seq(Messages)]
    BY <1>2 DEF Publish, TypeOK
  <2> SUFFICES ASSUME NEW u \in Topics
               PROVE /\ Len(log[u]) \in Nat /\ Len(log'[u]) \in Nat
                     /\ Len(log[u]) <= Len(log'[u])
                     /\ \A i \in 1..Len(log[u]) : log'[u][i] = log[u][i]
    BY DEF LogGrows
  <2>2. CASE u = t
    <3>1. log'[u] = Append(log[u], m) /\ log[u] \in Seq(Messages)
      BY <2>1, <2>2
    <3> QED
      BY <3>1
  <2>3. CASE u # t
    BY <1>0, <2>1, <2>3
  <2> QED
    BY <2>2, <2>3
<1> QED
  BY <1>1, <1>2

\* A message that is there stays the same, and so does its record.
LEMMA MessageKept ==
  ASSUME LogGrows, NEW t \in Topics, NEW o \in Offsets, o < Len(log[t])
  PROVE MessageAt(<<t, o>>)' = MessageAt(<<t, o>>) /\ o < Len(log'[t])
<1>1. o \in Nat /\ o + 1 \in 1..Len(log[t])
  BY DEF Offsets, LogGrows
<1> QED
  BY <1>1 DEF LogGrows, MessageAt

LEMMA OnRecordKept ==
  ASSUME LogGrows, NEW o \in Offsets, o < Len(log["infraction"]), OnRecord(o),
         flagged \subseteq flagged', lost \subseteq lost'
  PROVE OnRecord(o)'
<1>1. MessageAt(<<"infraction", o>>)' = MessageAt(<<"infraction", o>>)
  BY MessageKept DEF Topics
<1> QED
  BY <1>1 DEF OnRecord

\* A step that tells nobody and takes up no infraction.
LEMMA RecordKept ==
  ASSUME RecordInv, LogGrows, UNCHANGED <<alerts, gateNotices, driverNotices>>,
         flagged \subseteq flagged', lost \subseteq lost',
         \/ pc' \notin InfractionSteps \cup {"inbox"}
         \/ UNCHANGED <<pc, cur, target>>
  PROVE RecordInv'
<1> SUFFICES ASSUME NEW o \in Offsets PROVE Recorded(o)'
  BY DEF RecordInv
<1>0. Recorded(o)
  BY DEF RecordInv
<1>1. o < Len(log["infraction"]) => /\ o < Len(log'["infraction"])
                                    /\ MessageAt(<<"infraction", o>>)'
                                         = MessageAt(<<"infraction", o>>)
                                    /\ OnRecord(o) => OnRecord(o)'
  BY MessageKept, OnRecordKept DEF Topics
<1>2. Told(o)' = Told(o)
  BY DEF Told
<1>3. CASE pc' \notin InfractionSteps \cup {"inbox"}
  BY <1>0, <1>1, <1>2, <1>3 DEF Recorded, InfractionSteps
<1>4. CASE UNCHANGED <<pc, cur, target>>
  BY <1>0, <1>1, <1>2, <1>4 DEF Recorded, InfractionSteps
<1> QED
  BY <1>3, <1>4

\* A step that concerns the infraction in hand alone.
LEMMA RecordOfCur ==
  ASSUME RecordInv, UNCHANGED log, LogGrows, NEW p \in Offsets, cur = <<"infraction", p>>,
         cur' = cur \/ pc' \notin InfractionSteps \cup {"inbox"},
         flagged \subseteq flagged', lost \subseteq lost',
         Recorded(p)',
         \A o \in Offsets \ {p} :
           UNCHANGED <<alerts[o], gateNotices[o], driverNotices[o]>>
  PROVE RecordInv'
<1> SUFFICES ASSUME NEW o \in Offsets, o # p PROVE Recorded(o)'
  BY DEF RecordInv
<1>1. Recorded(o) /\ UNCHANGED <<alerts[o], gateNotices[o], driverNotices[o]>>
  BY DEF RecordInv
<1>2. cur' = <<"infraction", o>> => pc' \notin InfractionSteps \cup {"inbox"}
  OBVIOUS
<1>3. Told(o)' = Told(o)
  BY <1>1 DEF Told
<1>4. o < Len(log["infraction"]) /\ OnRecord(o) => OnRecord(o)'
  BY OnRecordKept
<1> QED
  BY <1>1, <1>2, <1>3, <1>4 DEF Recorded, InfractionSteps

\* The steps of an infraction.
LEMMA InfractionRecord ==
  ASSUME TypeOK, StepInv, RecordInv, Infraction
  PROVE RecordInv'
<1> USE DEF kafkaVars, pgVars, apptVars, countVars, procVars, ghostVars
<1>1. PICK p \in Offsets : p = offset /\ cur = <<"infraction", p>>
  BY IdParts DEF StepInv, Infraction, InfractionSteps, InboxCheck, FindInfringing,
     FlagInfraction, CreateAlert, NotifyGate, NotifyDriver, MarkProcessed, MarkFailed
<1>2. /\ alerts \in [Offsets -> Nat] /\ gateNotices \in [Offsets -> Nat]
      /\ driverNotices \in [Offsets -> Nat]
  BY DEF TypeOK
<1>3. UNCHANGED log /\ flagged \subseteq flagged' /\ lost \subseteq lost'
  BY DEF Infraction, InboxCheck, FindInfringing, FlagInfraction, CreateAlert, NotifyGate,
         NotifyDriver, MarkProcessed, MarkFailed, Tells, NoError, Refused, Raises, LosesCommit
<1>4. LogGrows
  BY <1>3, LogStep
<1>5. cur' = cur \/ pc' \notin InfractionSteps \cup {"inbox"}
  BY DEF Infraction, InboxCheck, FindInfringing, FlagInfraction, CreateAlert, NotifyGate,
         NotifyDriver, MarkProcessed, MarkFailed, Goto, Abandon, InfractionSteps
<1>6. ASSUME NEW o \in Offsets \ {p}
      PROVE UNCHANGED <<alerts[o], gateNotices[o], driverNotices[o]>>
  BY <1>1, <1>2, <1>6
     DEF Infraction, InboxCheck, FindInfringing, FlagInfraction, CreateAlert, NotifyGate,
         NotifyDriver, MarkProcessed, MarkFailed, Tells
<1>7. Recorded(p)'
  <2>0. Recorded(p) /\ p < Len(log["infraction"])
    BY <1>1 DEF RecordInv, Recorded, InfractionSteps, Infraction, InboxCheck,
       FindInfringing, FlagInfraction, CreateAlert, NotifyGate, NotifyDriver,
       MarkProcessed, MarkFailed
  <2>1. OnRecord(p) => OnRecord(p)'
    BY <1>3, <1>4, <2>0, OnRecordKept
  <2>2. /\ p < Len(log'["infraction"])
        /\ MessageAt(<<"infraction", p>>)' = MessageAt(<<"infraction", p>>)
    BY <1>3, <2>0 DEF MessageAt
  <2>3. LosesCommit => OnRecord(p)'
    BY <1>1 DEF LosesCommit, OnRecord
  <2>4. CASE InboxCheck \/ MarkProcessed \/ MarkFailed
    <3>1. pc' \notin {"flag", "alert", "gate", "driver"} /\ Told(p)' = Told(p)
      BY <2>4 DEF InboxCheck, MarkProcessed, MarkFailed, Goto, Abandon, Told
    <3> QED
      BY <2>0, <2>1, <2>2, <3>1 DEF Recorded
  <2>5. CASE FindInfringing
    <3>1. /\ pc' \in {"flag", "alert"} => /\ target' \in ActiveOf(MessageAt(cur).plate)
                                          /\ pc' = FlagStep(target')
          /\ pc' \notin {"gate", "driver"} /\ Told(p)' = Told(p) /\ UNCHANGED flagged
      <4> DEFINE found == ActiveOf(MessageAt(cur).plate)
      <4>1. \/ target' \in LatestOf(found) /\ pc' = FlagStep(target')
            \/ pc' \in {"mark", "markFailed"}
        BY <2>5 DEF FindInfringing, Goto
      <4>2. FlagStep(target') \in {"flag", "alert"}
        BY DEF FlagStep
      <4>3. LatestOf(found) \subseteq found
        BY DEF LatestOf
      <4>4. Told(p)' = Told(p) /\ UNCHANGED flagged
        BY <2>5 DEF FindInfringing, Told
      <4> QED
        BY <4>1, <4>2, <4>3, <4>4
    <3>2. pc' \in {"flag", "alert"} => PlateOf[target'] = MessageAt(<<"infraction", p>>).plate
      BY <1>1, <3>1 DEF ActiveOf
    <3>3. pc' = "alert" => OnRecord(p)'
      BY <2>2, <3>1, <3>2 DEF FlagStep, OnRecord
    <3> QED
      BY <2>0, <2>1, <2>2, <3>1, <3>2, <3>3 DEF Recorded
  <2>6. CASE FlagInfraction
    <3>1. PlateOf[target] = MessageAt(<<"infraction", p>>).plate
      BY <1>1, <2>0, <2>6 DEF FlagInfraction, Recorded
    <3>2. pc' \notin {"flag", "gate", "driver"} /\ Told(p)' = Told(p)
      BY <2>6 DEF FlagInfraction, Goto, Told
    <3>3. pc' = "alert" => LosesCommit \/ target \in flagged'
      BY <2>6 DEF FlagInfraction, Goto
    <3>4. pc' = "alert" => OnRecord(p)'
      BY <2>2, <2>3, <3>1, <3>3 DEF OnRecord
    <3> QED
      BY <2>0, <2>1, <2>2, <3>2, <3>4 DEF Recorded
  <2>7. CASE CreateAlert \/ NotifyGate \/ NotifyDriver
    <3>1. OnRecord(p)
      BY <1>1, <2>0, <2>7 DEF CreateAlert, NotifyGate, NotifyDriver, Recorded
    <3>2. pc' # "flag"
      BY <2>7 DEF CreateAlert, NotifyGate, NotifyDriver, Goto
    <3> QED
      BY <2>1, <2>2, <3>1, <3>2 DEF Recorded
  <2> QED
    BY <2>4, <2>5, <2>6, <2>7 DEF Infraction
<1> QED
  BY <1>1, <1>3, <1>4, <1>5, <1>6, <1>7, RecordOfCur

\* Every step keeps RecordInv.
LEMMA RecordStep == TypeOK /\ LogInv /\ StepInv /\ RecordInv /\ [Next]_vars => RecordInv'
<1> SUFFICES ASSUME TypeOK, LogInv, StepInv, RecordInv, [Next]_vars PROVE RecordInv'
  OBVIOUS
<1> USE DEF kafkaVars, pgVars, apptVars, countVars, procVars, ghostVars
<1>1. CASE Producers
  <2>1. LogGrows
    BY <1>1, LogStep DEF Producers
  <2> QED
    BY <1>1, <2>1, RecordKept DEF Producers, Publish
<1>2. CASE Clients
  <2>1. /\ UNCHANGED <<log, alerts, gateNotices, driverNotices, lost, pc, cur, target>>
        /\ flagged \subseteq flagged'
    BY <1>2 DEF Clients, SetStatus, CreateVisit, FlagByRequest
  <2> QED
    BY <2>1, LogStep, RecordKept
<1>3. CASE Start \/ CommitOffset \/ Crash
  <2>1. /\ UNCHANGED <<log, alerts, gateNotices, driverNotices, lost, flagged>>
        /\ pc' \in {"idle", "down"}
    BY <1>3 DEF Start, CommitOffset, Abandon, Crash
  <2> QED
    BY <2>1, LogStep, RecordKept DEF InfractionSteps
<1>4. ASSUME NEW t \in Topics, Poll(t) PROVE RecordInv'
  <2>1. /\ UNCHANGED <<log, alerts, gateNotices, driverNotices, lost, flagged>>
        /\ \/ UNCHANGED <<pc, cur, target>>
           \/ pc' \in {"resolve", "review"}
           \/ pc' = "inbox" /\ cur' = <<t, position[t]>>
    BY <1>4 DEF Poll, FirstStep
  <2>2. LogGrows
    BY <2>1, LogStep
  <2>3. CASE pc' = "inbox" /\ cur' = <<t, position[t]>>
    <3>1. position[t] < Len(log[t])
      BY <1>4 DEF Poll
    <3> SUFFICES ASSUME NEW o \in Offsets PROVE Recorded(o)'
      BY DEF RecordInv
    <3>2. Recorded(o) /\ Told(o)' = Told(o)
      BY <2>1 DEF RecordInv, Told
    <3>3. o < Len(log["infraction"]) /\ OnRecord(o) => OnRecord(o)'
      BY <2>1, <2>2, OnRecordKept
    <3>4. cur' = <<"infraction", o>> => o < Len(log["infraction"])
      BY <2>3, <3>1
    <3> QED
      BY <2>1, <2>3, <3>2, <3>3, <3>4 DEF Recorded
  <2> QED
    BY <2>1, <2>2, <2>3, RecordKept DEF InfractionSteps
<1>5. CASE StoreReview \/ ResolveAppointment \/ Handle
  <2>1. pc' \in {"idle", "handle", "commit"}
    BY <1>5 DEF StoreReview, ResolveAppointment, Handle, Goto, Abandon
  <2>2. lost \subseteq lost'
    BY <1>5 DEF StoreReview, ResolveAppointment, Handle, NoError, Refused, Raises, LosesCommit
  <2>3. UNCHANGED <<log, alerts, gateNotices, driverNotices, flagged>>
    BY <1>5 DEF StoreReview, ResolveAppointment, Handle
  <2> QED
    BY <2>1, <2>2, <2>3, LogStep, RecordKept DEF InfractionSteps
<1>6. CASE Infraction
  BY <1>6, InfractionRecord
<1>7. CASE UNCHANGED vars
  BY <1>7, LogStep, RecordKept DEF vars
<1> QED
  BY <1>1, <1>2, <1>3, <1>4, <1>5, <1>6, <1>7 DEF Next, Consumer, Infraction

-----------------------------------------------------------------------------
(* Acknowledgement: what the group's offset has passed.                     *)

\* The decision in hand may be unsettled only while it is dispatched.
Dispatching == pc \in {"resolve", "handle"}

\* The offset follows the position and the position the end of the topic.
OffsetInv ==
  /\ \A t \in Topics : /\ position[t] <= Len(log[t])
                       /\ committed[t] # None => committed[t] <= Len(log[t])
  /\ pc \notin {"down", "idle"} => offset < position[cur[1]]

\* Every decision that the position or the offset has passed is settled, the
\* one that is being dispatched excepted.
AckInv ==
  /\ pc # "down" =>
       \A id \in Ids : Decided(id) /\ id[2] < position[id[1]] =>
                         id \in Settled \/ (Dispatching /\ id = cur)
  /\ AcknowledgedDecisionTookEffect

\* Nothing is ever unsettled.
LEMMA SettledGrows == [Next]_vars => Settled \subseteq Settled'
<1> SUFFICES ASSUME [Next]_vars PROVE Settled \subseteq Settled'
  OBVIOUS
<1> USE DEF ghostVars, Settled, NoError, Refused, Raises, LosesCommit
<1>1. CASE Producers \/ Clients \/ Crash
  BY <1>1 DEF Producers, Publish, Clients, SetStatus, CreateVisit, FlagByRequest, Crash
<1>2. CASE Consumer
  BY <1>2 DEF Consumer, Start, Poll, StoreReview, ResolveAppointment, Handle, InboxCheck,
     FindInfringing, FlagInfraction, CreateAlert, NotifyGate, NotifyDriver, Tells,
     MarkProcessed, MarkFailed, CommitOffset
<1>3. CASE UNCHANGED vars
  BY <1>3 DEF vars
<1> QED
  BY <1>1, <1>2, <1>3 DEF Next

\* A decision that is in the log stays one, and no other appears below its end.
LEMMA DecidedKept ==
  ASSUME LogGrows, NEW id \in Ids, id[2] < Len(log[id[1]])
  PROVE Decided(id)' <=> Decided(id)
<1>1. PICK t \in Topics, o \in Offsets : id = <<t, o>>
  BY DEF Ids
<1>2. MessageAt(id)' = MessageAt(id) /\ o < Len(log'[t])
  BY <1>1, MessageKept
<1> QED
  BY <1>1, <1>2 DEF Decided

\* The consumer's and the group's offsets stay within the log.
LEMMA OffsetStep == TypeOK /\ LogInv /\ StepInv /\ OffsetInv /\ [Next]_vars => OffsetInv'
<1> SUFFICES ASSUME TypeOK, LogInv, StepInv, OffsetInv, [Next]_vars PROVE OffsetInv'
  OBVIOUS
<1> USE DEF kafkaVars, pgVars, apptVars, countVars, procVars, ghostVars
<1>0. /\ position \in [Topics -> 0..MaxMessages]
      /\ committed \in [Topics -> (0..MaxMessages) \cup {None}]
      /\ \A t \in Topics : Len(log[t]) \in 0..MaxMessages
      /\ MaxMessages \in Nat
  BY LogLength, ConsumerAssumption DEF TypeOK
<1>1. CASE Producers
  <2>1. LogGrows
    BY <1>1, LogStep DEF Producers
  <2>2. UNCHANGED <<position, committed, pc, cur>>
    BY <1>1 DEF Producers, Publish
  <2> QED
    BY <1>0, <2>1, <2>2 DEF OffsetInv, LogGrows, offset
<1>2. CASE Clients
  BY <1>2 DEF Clients, SetStatus, CreateVisit, FlagByRequest, OffsetInv, offset
<1>3. CASE Start
  <2>1. \A t \in Topics : Resume(t) <= Len(log[t])
    BY <1>0 DEF Resume, OffsetInv
  <2> QED
    BY <1>3, <2>1 DEF Start, OffsetInv
<1>4. ASSUME NEW t \in Topics, Poll(t) PROVE OffsetInv'
  <2>1. /\ position[t] < Len(log[t])
        /\ position' = [position EXCEPT ![t] = @ + 1]
        /\ UNCHANGED <<log, committed>>
        /\ \/ pc' = "idle"
           \/ cur' = <<t, position[t]>>
    BY <1>4 DEF Poll
  <2>2. \A u \in Topics : position'[u] <= Len(log[u])
    BY <1>0, <2>1 DEF OffsetInv
  <2>3. position'[t] = position[t] + 1 /\ position[t] \in Nat
    BY <1>0, <2>1
  <2> QED
    BY <2>1, <2>2, <2>3 DEF OffsetInv, offset
<1>5. CASE CommitOffset
  <2>1. /\ cur[1] \in Topics /\ offset \in Nat /\ offset < position[cur[1]]
        /\ position[cur[1]] <= Len(log[cur[1]])
    BY <1>5, IdParts DEF CommitOffset, StepInv, OffsetInv, Offsets
  <2>2. NextOffset <= Len(log[cur[1]])
    BY <1>0, <2>1 DEF NextOffset
  <2>3. /\ UNCHANGED <<log, position>> /\ pc' = "idle"
        /\ \A t \in Topics : committed'[t] = committed[t] \/ (t = cur[1] /\ committed'[t] = NextOffset)
    BY <1>0, <1>5 DEF CommitOffset, Abandon
  <2> QED
    BY <2>2, <2>3 DEF OffsetInv
<1>6. CASE Crash
  BY <1>6 DEF Crash, OffsetInv
<1>7. CASE StoreReview \/ ResolveAppointment \/ Handle \/ Infraction
  <2>1. UNCHANGED <<log, position, committed>>
    BY <1>7 DEF StoreReview, ResolveAppointment, Handle, Infraction, InboxCheck,
       FindInfringing, FlagInfraction, CreateAlert, NotifyGate, NotifyDriver,
       MarkProcessed, MarkFailed, Goto, Abandon
  <2>2. pc \notin {"down", "idle"}
    BY <1>7 DEF StoreReview, ResolveAppointment, Handle, Infraction, InboxCheck,
       FindInfringing, FlagInfraction, CreateAlert, NotifyGate, NotifyDriver,
       MarkProcessed, MarkFailed
  <2>3. UNCHANGED cur \/ pc' = "idle"
    BY <1>7 DEF StoreReview, ResolveAppointment, Handle, Infraction, InboxCheck,
       FindInfringing, FlagInfraction, CreateAlert, NotifyGate, NotifyDriver,
       MarkProcessed, MarkFailed, Goto, Abandon
  <2> QED
    BY <2>1, <2>2, <2>3 DEF OffsetInv, offset
<1>8. CASE UNCHANGED vars
  BY <1>8 DEF vars, OffsetInv, offset
<1> QED
  BY <1>1, <1>2, <1>3, <1>4, <1>5, <1>6, <1>7, <1>8 DEF Next, Consumer, Infraction

\* A step that settles what it lets go of.
LEMMA AckKept ==
  ASSUME AckInv, OffsetInv, LogGrows, TypeOK, LogInv,
         UNCHANGED <<position, committed>>, Settled \subseteq Settled',
         \/ pc' = "down"
         \/ pc # "down" /\ ~Dispatching
         \/ pc # "down" /\ Dispatching' /\ cur' = cur
         \/ pc # "down" /\ cur \in Settled'
  PROVE AckInv'
<1>0. /\ position \in [Topics -> 0..MaxMessages]
      /\ committed \in [Topics -> (0..MaxMessages) \cup {None}]
      /\ \A t \in Topics : Len(log[t]) \in 0..MaxMessages
      /\ MaxMessages \in Nat
  BY LogLength, ConsumerAssumption DEF TypeOK
<1>1. ASSUME NEW id \in Ids, id[2] < position[id[1]] PROVE Decided(id)' <=> Decided(id)
  <2>1. id[1] \in Topics /\ id[2] \in Nat
    BY DEF Ids, Offsets
  <2>2. id[2] < Len(log[id[1]])
    BY <1>0, <1>1, <2>1 DEF OffsetInv
  <2> QED
    BY <2>2, DecidedKept
<1>2. ASSUME NEW id \in Ids, committed[id[1]] # None, id[2] < committed[id[1]]
      PROVE Decided(id)' <=> Decided(id)
  <2>1. id[1] \in Topics /\ id[2] \in Nat
    BY DEF Ids, Offsets
  <2>2. id[2] < Len(log[id[1]])
    BY <1>0, <1>2, <2>1 DEF OffsetInv
  <2> QED
    BY <2>2, DecidedKept
<1>3. AcknowledgedDecisionTookEffect'
  BY <1>2 DEF AckInv, AcknowledgedDecisionTookEffect
<1>4. ASSUME pc' # "down", NEW id \in Ids, Decided(id)', id[2] < position[id[1]]
      PROVE id \in Settled' \/ (Dispatching' /\ id = cur')
  <2>1. Decided(id)
    BY <1>1, <1>4
  <2>2. pc # "down"
    BY <1>4
  <2>3. id \in Settled \/ (Dispatching /\ id = cur)
    BY <1>4, <2>1, <2>2 DEF AckInv
  <2> QED
    BY <1>4, <2>3
<1> QED
  BY <1>3, <1>4 DEF AckInv

\* Every step keeps AckInv.
LEMMA AckStep ==
  TypeOK /\ LogInv /\ StepInv /\ OffsetInv /\ AckInv /\ [Next]_vars => AckInv'
<1> SUFFICES ASSUME TypeOK, LogInv, StepInv, OffsetInv, AckInv, [Next]_vars PROVE AckInv'
  OBVIOUS
<1> USE DEF kafkaVars, pgVars, apptVars, countVars, procVars, ghostVars
<1>a. Settled \subseteq Settled'
  BY SettledGrows
<1>b. UNCHANGED log => LogGrows
  BY LogStep
<1>c. /\ position \in [Topics -> 0..MaxMessages]
      /\ committed \in [Topics -> (0..MaxMessages) \cup {None}]
      /\ \A t \in Topics : Len(log[t]) \in 0..MaxMessages
      /\ MaxMessages \in Nat
  BY LogLength, ConsumerAssumption DEF TypeOK
<1>d. UNCHANGED log => \A id \in Ids : Decided(id)' <=> Decided(id)
  BY DEF Decided, MessageAt
<1>1. CASE Producers
  <2>1. LogGrows /\ UNCHANGED <<position, committed, pc, cur>>
    BY <1>1, LogStep DEF Producers, Publish
  <2> QED
    BY <1>a, <2>1, AckKept DEF Dispatching
<1>2. CASE Clients
  <2>1. UNCHANGED <<log, position, committed, pc, cur>>
    BY <1>2 DEF Clients, SetStatus, CreateVisit, FlagByRequest
  <2> QED
    BY <1>a, <1>b, <2>1, AckKept DEF Dispatching
<1>3. CASE Start
  <2>0. pc' = "idle" /\ UNCHANGED <<log, committed>> /\ position' = [t \in Topics |-> Resume(t)]
        /\ skipped' = skipped \cup {id \in Ids : committed[id[1]] = None
                                                 /\ id[2] < Len(log[id[1]])}
    BY <1>3 DEF Start
  <2>1. AcknowledgedDecisionTookEffect'
    BY <1>a, <1>d, <2>0 DEF AckInv, AcknowledgedDecisionTookEffect
  <2>2. ASSUME NEW id \in Ids, Decided(id)', id[2] < position'[id[1]]
        PROVE id \in Settled'
    <3>1. id[1] \in Topics /\ Decided(id) /\ position'[id[1]] = Resume(id[1])
      BY <1>d, <2>0, <2>2 DEF Ids
    <3>2. CASE committed[id[1]] = None
      BY <2>0, <3>1, <3>2 DEF Decided, Settled
    <3>3. CASE committed[id[1]] # None
      <4>1. id[2] < committed[id[1]]
        BY <2>2, <3>1, <3>3 DEF Resume
      <4> QED
        BY <1>a, <3>1, <3>3, <4>1 DEF AckInv, AcknowledgedDecisionTookEffect
    <3> QED
      BY <3>2, <3>3
  <2> QED
    BY <2>1, <2>2 DEF AckInv
<1>4. ASSUME NEW t \in Topics, Poll(t) PROVE AckInv'
  <2> DEFINE m == log[t][position[t] + 1]
  <2>0. /\ position' = [position EXCEPT ![t] = @ + 1]
        /\ UNCHANGED <<log, committed>> /\ pc = "idle"
        /\ \/ m.kind = "IGNORED" /\ pc' = "idle"
           \/ pc' = FirstStep(m) /\ cur' = <<t, position[t]>>
    BY <1>4 DEF Poll
  <2>1. AcknowledgedDecisionTookEffect'
    BY <1>a, <1>d, <2>0 DEF AckInv, AcknowledgedDecisionTookEffect
  <2>2. ASSUME NEW id \in Ids, Decided(id)', id[2] < position'[id[1]]
        PROVE id \in Settled' \/ (Dispatching' /\ id = cur')
    <3>1. PICK u \in Topics, o \in Offsets : id = <<u, o>>
      BY DEF Ids
    <3>2. Decided(id) /\ o \in Nat /\ position[u] \in Nat
      BY <1>c, <1>d, <2>0, <2>2, <3>1 DEF Offsets
    <3>3. CASE o < position[u]
      BY <1>a, <2>0, <3>1, <3>2, <3>3 DEF AckInv, Dispatching
    <3>4. CASE ~(o < position[u])
      <4>1. u = t /\ o = position[t]
        BY <1>c, <2>0, <2>2, <3>1, <3>2, <3>4
      <4>2. m.kind \in Decisions
        BY <3>1, <3>2, <4>1 DEF Decided, MessageAt
      <4>3. pc' = "resolve" /\ cur' = id
        BY <2>0, <3>1, <4>1, <4>2 DEF FirstStep, Decisions
      <4> QED
        BY <4>3 DEF Dispatching
    <3> QED
      BY <3>3, <3>4
  <2> QED
    BY <2>1, <2>2 DEF AckInv
<1>5. CASE CommitOffset
  <2>0. /\ pc = "commit" /\ pc' = "idle" /\ UNCHANGED <<log, position>>
        /\ \A t \in Topics : \/ committed'[t] = committed[t]
                             \/ t = cur[1] /\ committed'[t] = NextOffset
    BY <1>5, <1>c DEF CommitOffset, Abandon
  <2>1. \A id \in Ids : Decided(id) /\ id[2] < position[id[1]] => id \in Settled'
    BY <1>a, <2>0 DEF AckInv, Dispatching
  <2>2. cur[1] \in Topics /\ offset \in Nat /\ offset < position[cur[1]]
    BY <2>0, IdParts DEF StepInv, OffsetInv, Offsets
  <2>3. ASSUME NEW id \in Ids, Decided(id), committed'[id[1]] # None,
               id[2] < committed'[id[1]]
        PROVE id \in Settled'
    <3>1. id[1] \in Topics /\ id[2] \in Nat
      BY DEF Ids, Offsets
    <3>2. CASE committed'[id[1]] = committed[id[1]]
      BY <1>a, <2>3, <3>2 DEF AckInv, AcknowledgedDecisionTookEffect
    <3>3. CASE id[1] = cur[1] /\ committed'[id[1]] = NextOffset
      <4>1. id[2] < position[id[1]]
        BY <1>c, <2>2, <2>3, <3>1, <3>3 DEF NextOffset
      <4> QED
        BY <2>1, <2>3, <4>1
    <3> QED
      BY <2>0, <3>1, <3>2, <3>3
  <2> QED
    BY <1>d, <2>0, <2>1, <2>3 DEF AckInv, AcknowledgedDecisionTookEffect
<1>6. CASE Crash
  <2>1. UNCHANGED <<log, position, committed>> /\ pc' = "down"
    BY <1>6 DEF Crash
  <2> QED
    BY <1>a, <1>b, <2>1, AckKept
<1>7. CASE ResolveAppointment \/ Handle
  <2>1. UNCHANGED <<log, position, committed>> /\ pc # "down"
    BY <1>7 DEF ResolveAppointment, Handle, Goto, Abandon
  <2>2. cur \in Settled' \/ (pc' = "handle" /\ cur' = cur)
    BY <1>7 DEF ResolveAppointment, Handle, Refused, Raises, LosesCommit, Settled
  <2> QED
    BY <1>a, <1>b, <2>1, <2>2, AckKept DEF Dispatching
<1>8. CASE StoreReview \/ Infraction
  <2>1. UNCHANGED <<log, position, committed>> /\ pc # "down" /\ ~Dispatching
    BY <1>8 DEF StoreReview, Infraction, InboxCheck,
       FindInfringing, FlagInfraction, CreateAlert, NotifyGate, NotifyDriver,
       MarkProcessed, MarkFailed, Goto, Abandon, Dispatching
  <2> QED
    BY <1>a, <1>b, <2>1, AckKept
<1>9. CASE UNCHANGED vars
  <2>1. UNCHANGED <<log, position, committed, pc, cur>>
    BY <1>9 DEF vars
  <2> QED
    BY <1>a, <1>b, <2>1, AckKept DEF Dispatching
<1> QED
  BY <1>1, <1>2, <1>3, <1>4, <1>5, <1>6, <1>7, <1>8, <1>9 DEF Next, Consumer, Infraction

-----------------------------------------------------------------------------
(* The theorems.                                                            *)

\* Inv is inductive.
LEMMA NextInv == Inv /\ [Next]_vars => Inv'
BY TypeStep, AdmissionStep, EffectStep DEF Inv

\* Every reachable state satisfies the inductive invariant.
THEOREM Invariance == Spec => []Inv
<1>1. Init => Inv
  BY InitInv
<1>2. Inv /\ [Next]_vars => Inv'
  BY NextInv
<1> QED
  BY <1>1, <1>2, PTL DEF Spec

\* Every variable of the consumer, the topics and the tables keeps its type.
THEOREM TypeCorrect == Spec => []TypeOK
<1>1. Inv => TypeOK
  BY DEF Inv
<1> QED
  BY <1>1, Invariance, PTL

\* A driver is told to enter at most once per appointment, however many
\* decisions arrive, again or raced by a REST client.
THEOREM AdmittedAtMostOnce == Spec => []AdmittedOnce
<1>1. Inv => AdmittedOnce
  BY DEF Inv, AdmissionInv
<1> QED
  BY <1>1, Invariance, PTL

\* An infraction that is delivered any number of times alerts and notifies at
\* most once, unless the unit of work lost one of its transactions.
THEOREM InfractionOnce == Spec => []InfractionTakesEffectOnce
<1>1. Inv => InfractionTakesEffectOnce
  BY DEF Inv, EffectInv, Effect, InfractionTakesEffectOnce
<1> QED
  BY <1>1, Invariance, PTL

\* Nobody is alerted or notified of an infraction that is not on record at an
\* appointment of its truck, unless the unit of work lost one of its
\* transactions: the flag is committed before the first alert.
THEOREM AlertsAreOnRecord == Spec => []AlertedTruckIsFlagged
<1>1. Init => RecordInv
  BY DEF Init, RecordInv, Recorded, Told, InfractionSteps
<1>2. Inv /\ RecordInv /\ [Next]_vars => RecordInv'
  BY RecordStep DEF Inv
<1>3. Inv /\ RecordInv => AlertedTruckIsFlagged
  <2> SUFFICES ASSUME Inv, RecordInv, NEW o \in Offsets,
                      alerts[o] + gateNotices[o] + driverNotices[o] > 0
               PROVE OnRecord(o)
    BY DEF AlertedTruckIsFlagged, OnRecord
  <2>1. alerts[o] \in Nat /\ gateNotices[o] \in Nat /\ driverNotices[o] \in Nat
    BY DEF Inv, TypeOK
  <2>2. Told(o)
    BY <2>1 DEF Told
  <2> QED
    BY <2>2 DEF RecordInv, Recorded
<1> QED
  BY <1>1, <1>2, <1>3, Invariance, PTL DEF Spec

\* No offset that the consumer group commits passes a decision that was neither
\* applied nor set aside for one of the named reasons, whenever it crashes.
THEOREM OffsetsFollowDecisions == Spec => []AcknowledgedDecisionTookEffect
<1>1. Init => OffsetInv /\ AckInv
  <2> SUFFICES ASSUME Init PROVE OffsetInv /\ AckInv
    OBVIOUS
  <2>1. /\ pc = "down" /\ \A t \in Topics : position[t] = 0 /\ committed[t] = None
        /\ \A t \in Topics : Len(log[t]) = 0
    BY DEF Init
  <2>2. \A id \in Ids : committed[id[1]] = None
    BY <2>1 DEF Ids
  <2> QED
    BY <2>1, <2>2 DEF OffsetInv, AckInv, AcknowledgedDecisionTookEffect
<1>2. Inv /\ OffsetInv /\ AckInv /\ [Next]_vars => OffsetInv' /\ AckInv'
  BY OffsetStep, AckStep DEF Inv
<1>3. AckInv => AcknowledgedDecisionTookEffect
  BY DEF AckInv
<1> QED
  BY <1>1, <1>2, <1>3, Invariance, PTL DEF Spec

-----------------------------------------------------------------------------
(* Refinement: the consumer and the REST clients implement the lifecycle.   *)

\* The initial states are initial states of the lifecycle.
LEMMA LifecycleInit == Init => Lifecycle!Init
BY DEF Init, Lifecycle!Init

\* Every step is a step of the lifecycle or leaves it alone.
LEMMA LifecycleStep == Inv /\ [Next]_vars => [Lifecycle!Next]_Lifecycle!vars
<1> SUFFICES ASSUME Inv, [Next]_vars PROVE [Lifecycle!Next]_Lifecycle!vars
  OBVIOUS
<1> USE DEF kafkaVars, pgVars, apptVars, countVars, procVars, ghostVars, Lifecycle!vars
<1>1. CASE Producers
  BY <1>1 DEF Producers, Publish
<1>2. CASE Clients
  <2>1. ASSUME NEW a \in Appointments, NEW s \in Lifecycle!Statuses, SetStatus(a, s)
        PROVE Lifecycle!Next
    BY <2>1 DEF SetStatus, Allowed, Lifecycle!Move, Lifecycle!Next
  <2>2. ASSUME NEW a \in Appointments, CreateVisit(a) \/ FlagByRequest(a)
        PROVE UNCHANGED Lifecycle!vars
    BY <2>2 DEF CreateVisit, FlagByRequest
  <2> QED
    BY <1>2, <2>1, <2>2 DEF Clients
<1>3. CASE Handle
  <2>0. target \in Appointments /\ status \in [Appointments -> Lifecycle!Statuses]
        /\ accepted \in [Appointments -> Nat]
    BY <1>3 DEF Handle, Inv, StepInv, TypeOK
  <2> PICK a \in Appointments : a = target
    BY <2>0
  <2>1. CASE UNCHANGED <<status, accepted>>
    BY <2>1
  <2>2. CASE ~UNCHANGED <<status, accepted>>
    <3>1. /\ Lifecycle!Legal(status[target], "in_process")
          /\ status' = [status EXCEPT ![target] = "in_process"]
          /\ accepted' = IF Enters(target) THEN [accepted EXCEPT ![target] = @ + 1]
                                           ELSE accepted
      BY <1>3, <2>2 DEF Handle, Allowed
    <3>2. CASE Enters(target)
      <4>1. status[target] = "in_transit"
        BY <3>1, <3>2, LegalFrom DEF Enters
      <4>2. {b \in Appointments : accepted'[b] > 0}
              = {b \in Appointments : accepted[b] > 0} \cup {a}
        BY <2>0, <3>1, <3>2
      <4>3. Lifecycle!Admit(a)
        BY <3>1, <4>1, <4>2 DEF Lifecycle!Admit
      <4> QED
        BY <4>3 DEF Lifecycle!Next
    <3>3. CASE ~Enters(target)
      <4>1. Lifecycle!Move(a, "in_process")
        BY <3>1, <3>3 DEF Lifecycle!Move
      <4> QED
        BY <4>1 DEF Lifecycle!Next, Lifecycle!Statuses
    <3> QED
      BY <3>2, <3>3
  <2> QED
    BY <2>1, <2>2
<1>4. CASE Consumer /\ ~Handle
  BY <1>4
     DEF Consumer, Start, Poll, StoreReview, ResolveAppointment, InboxCheck, FindInfringing,
         FlagInfraction, CreateAlert, NotifyGate, NotifyDriver, MarkProcessed, MarkFailed,
         CommitOffset
<1>5. CASE Crash
  BY <1>5 DEF Crash
<1>6. CASE UNCHANGED vars
  BY <1>6 DEF vars
<1> QED
  BY <1>1, <1>2, <1>3, <1>4, <1>5, <1>6 DEF Next

\* The detailed specification implements AppointmentLifecycle, with an
\* appointment entered when its driver was told to enter.
THEOREM LifecycleRefinement == Spec => ImplementsLifecycle
<1>1. Init => Lifecycle!Init
  BY LifecycleInit
<1>2. Inv /\ [Next]_vars => [Lifecycle!Next]_Lifecycle!vars
  BY LifecycleStep
<1> QED
  BY <1>1, <1>2, Invariance, PTL DEF Spec, ImplementsLifecycle, Lifecycle!Spec

=============================================================================
