-------------------------- MODULE DecisionConsumer --------------------------
(***************************************************************************)
(* The Kafka consumer of the Data Module (kafka_decision_consumer.py): it  *)
(* takes agent, operator and infraction decisions from three topics, one   *)
(* message at a time, applies each in transactions on PostgreSQL, and      *)
(* commits offsets by itself.  REST clients change the same appointments.  *)
(*                                                                         *)
(* Each call that the event loop hands to an executor is one action, so    *)
(* the REST clients and a crash may come between any two of them.  A topic *)
(* has one partition.  Losing the group's offsets on the broker and        *)
(* rebalancing are left out: the group has one member.                     *)
(***************************************************************************)
EXTENDS Naturals, Sequences

CONSTANTS
  Appointments,   \* appointment ids, numbered by scheduled_start_time
  Plates,         \* license plates
  PlateOf,        \* PlateOf[a]: truck_license_plate of a
  Gated,          \* appointments with a gate_in_id
  None,           \* no value
  MaxMessages,    \* bound: messages published in all
  MaxErrors,      \* bound: database errors the consumer meets
  MaxCrashes      \* bound: restarts of the consumer

ASSUME ConsumerAssumption ==
  /\ Appointments \subseteq Nat
  /\ PlateOf \in [Appointments -> Plates]
  /\ Gated \subseteq Appointments
  /\ None \notin Nat
  /\ MaxMessages \in Nat /\ MaxErrors \in Nat /\ MaxCrashes \in Nat

VARIABLES
  \* Kafka
  log,          \* log[t]: the messages of topic t
  committed,    \* committed[t]: the group's offset, None before the first commit
  \* PostgreSQL
  status,       \* status[a]: column appointment.status
  flagged,      \* appointments with highway_infraction
  visits,       \* appointments with a visit
  accepted,     \* accepted[a]: times the acceptance notifications were appended
  inbox,        \* inbox[o]: inbox_events row of the infraction at offset o
  alerts,       \* alerts[o], gateNotices[o], driverNotices[o]: how many the
  gateNotices,  \*   infraction at offset o has caused
  driverNotices,
  reviews,      \* reviews[o]: pending_reviews rows of the agent message at o
  \* the consumer process
  pc,           \* the step it is at, see Steps
  position,     \* position[t]: next offset to fetch
  cur,          \* the message in hand
  target,       \* the appointment found for it
  \* bookkeeping
  handled,      \* decisions whose transaction took effect
  unmatched,    \* decisions for which no active appointment was found
  failed,       \* messages whose processing an exception cut short
  lost,         \* messages of which the unit of work lost a transaction
  skipped,      \* messages a start without a committed offset jumped over
  errors, crashes

kafkaVars == <<log, committed>>
countVars == <<alerts, gateNotices, driverNotices>>
apptVars  == <<status, flagged, visits, accepted>>
pgVars    == <<apptVars, inbox, countVars, reviews>>
procVars  == <<pc, position, cur, target>>
ghostVars == <<handled, unmatched, failed, lost, skipped>>
vars == <<kafkaVars, pgVars, procVars, ghostVars, errors, crashes>>

Topics == {"agent", "operator", "infraction"}

\* What a message asks for.  "IGNORED" stands for the messages the loop skips:
\* without a truckId header, unparseable, or with an unknown decision.
Kinds == [agent      |-> {"ACCEPTED", "MANUAL_REVIEW", "IGNORED"},
          operator   |-> {"approved", "rejected", "IGNORED"},
          infraction |-> {"INFRACTION", "CLEAN", "IGNORED"}]
Decisions == {"ACCEPTED", "approved", "rejected"}
Messages  == [kind: UNION {Kinds[t] : t \in Topics}, plate: Plates]

Offsets == 0..MaxMessages - 1
Ids     == Topics \X Offsets
MessageAt(id) == log[id[1]][id[2] + 1]

Lifecycle == INSTANCE AppointmentLifecycle WITH
  entered <- {a \in Appointments : accepted[a] > 0}

Active == {"in_transit", "in_process"}
Steps == {"down", "idle", "review", "resolve", "handle", "inbox", "find", "flag",
          "alert", "gate", "driver", "mark", "markFailed", "commit"}
InboxStates == {"none", "PROCESSING", "PROCESSED", "FAILED"}

TypeOK ==
  /\ log \in [Topics -> Seq(Messages)]
  /\ committed \in [Topics -> (0..MaxMessages) \cup {None}]
  /\ status \in [Appointments -> Lifecycle!Statuses]
  /\ flagged \in SUBSET Appointments
  /\ visits \in SUBSET Appointments
  /\ accepted \in [Appointments -> Nat]
  /\ inbox \in [Offsets -> InboxStates]
  /\ alerts \in [Offsets -> Nat]
  /\ gateNotices \in [Offsets -> Nat]
  /\ driverNotices \in [Offsets -> Nat]
  /\ reviews \in [Offsets -> Nat]
  /\ pc \in Steps
  /\ position \in [Topics -> 0..MaxMessages]
  /\ cur \in Ids \cup {None}
  /\ target \in Appointments \cup {None}
  /\ handled \in SUBSET Ids
  /\ unmatched \in SUBSET Ids
  /\ failed \in SUBSET Ids
  /\ lost \in SUBSET Ids
  /\ skipped \in SUBSET Ids
  /\ errors \in 0..MaxErrors
  /\ crashes \in 0..MaxCrashes

Init ==
  /\ log = [t \in Topics |-> <<>>]
  /\ committed = [t \in Topics |-> None]
  /\ status = [a \in Appointments |-> "scheduled"]
  /\ flagged = {}
  /\ visits = {}
  /\ accepted = [a \in Appointments |-> 0]
  /\ inbox = [o \in Offsets |-> "none"]
  /\ alerts = [o \in Offsets |-> 0]
  /\ gateNotices = alerts
  /\ driverNotices = alerts
  /\ reviews = alerts
  /\ pc = "down"
  /\ position = [t \in Topics |-> 0]
  /\ cur = None
  /\ target = None
  /\ handled = {} /\ unmatched = {} /\ failed = {} /\ lost = {} /\ skipped = {}
  /\ errors = 0
  /\ crashes = 0

-----------------------------------------------------------------------------
(* The producers and the REST clients.                                      *)

\* The decision engine, the API gateway or the infraction engine publishes.
Publish(t, m) ==
  /\ Len(log["agent"]) + Len(log["operator"]) + Len(log["infraction"]) < MaxMessages
  /\ m.kind \in Kinds[t]
  /\ log' = [log EXCEPT ![t] = Append(@, m)]
  /\ UNCHANGED <<committed, pgVars, procVars, ghostVars, errors, crashes>>

\* Mutant of Allowed: the trigger is not installed.
AllowedAlways(a, s) == TRUE

\* fn_validate_status_transition.
Allowed(a, s) == Lifecycle!Legal(status[a], s)

\* cmd_update_status and cmd_process_decision, as far as the trigger lets them.
SetStatus(a, s) ==
  /\ Allowed(a, s)
  /\ status' = [status EXCEPT ![a] = s]
  /\ UNCHANGED <<kafkaVars, flagged, visits, accepted, inbox, countVars, reviews,
                 procVars, ghostVars, errors, crashes>>

\* cmd_create_visit: the visit that exists is returned as it is.
CreateVisit(a) ==
  /\ visits' = visits \cup {a}
  /\ UNCHANGED <<kafkaVars, status, flagged, accepted, inbox, countVars, reviews,
                 procVars, ghostVars, errors, crashes>>

\* PATCH /arrivals/{id}/highway-infraction.
FlagByRequest(a) ==
  /\ status[a] = "in_transit"
  /\ flagged' = flagged \cup {a}
  /\ UNCHANGED <<kafkaVars, status, visits, accepted, inbox, countVars, reviews,
                 procVars, ghostVars, errors, crashes>>

-----------------------------------------------------------------------------
(* How a step of the consumer ends.                                         *)

\* SqlAlchemyUnitOfWork.commit rolls back on an OperationalError and then
\* commits the empty session: the writes are gone and the caller sees success.
NoError     == UNCHANGED <<errors, failed, lost>>
Refused     == failed' = failed \cup {cur} /\ UNCHANGED <<errors, lost>>
Raises      == errors < MaxErrors /\ errors' = errors + 1
               /\ failed' = failed \cup {cur} /\ UNCHANGED lost
LosesCommit == errors < MaxErrors /\ errors' = errors + 1
               /\ lost' = lost \cup {cur} /\ UNCHANGED failed

Goto(step) == pc' = step /\ UNCHANGED <<position, cur, target>>

\* The loop goes on to the next message; the offset stays uncommitted.
Abandon == pc' = "idle" /\ cur' = None /\ target' = None /\ UNCHANGED position

offset == cur[2]

-----------------------------------------------------------------------------
(* The consumer.                                                            *)

\* Mutant of Resume: auto.offset.reset applied although an offset is known.
ResumeLatest(t) == Len(log[t])

\* Where the consumer resumes topic t: auto.offset.reset is "latest".
Resume(t) == IF committed[t] = None THEN Len(log[t]) ELSE committed[t]

Start ==
  /\ pc = "down"
  /\ pc' = "idle"
  /\ position' = [t \in Topics |-> Resume(t)]
  /\ skipped' = skipped \cup {id \in Ids : committed[id[1]] = None
                                           /\ id[2] < Len(log[id[1]])}
  /\ UNCHANGED <<kafkaVars, pgVars, cur, target, handled, unmatched, failed, lost,
                 errors, crashes>>

FirstStep(m) ==
  IF m.kind \in Decisions THEN "resolve"
  ELSE IF m.kind = "MANUAL_REVIEW" THEN "review" ELSE "inbox"

\* _consume_loop takes a message.  process_operator_decision looks for a key
\* pending_review:{truck_id} that nobody writes, so the verdict of an operator
\* stands alone and is dispatched like an accepted one.
Poll(t) ==
  /\ pc = "idle"
  /\ position[t] < Len(log[t])
  /\ position' = [position EXCEPT ![t] = @ + 1]
  /\ LET m == log[t][position[t] + 1] IN
       IF m.kind = "IGNORED" THEN UNCHANGED <<pc, cur>>
       ELSE /\ pc' = FirstStep(m)
            /\ cur' = <<t, position[t]>>
  /\ UNCHANGED <<kafkaVars, pgVars, target, ghostVars, errors, crashes>>

\* cmd_store_pending_review under a fresh event_id; exceptions are swallowed.
StoreReview ==
  /\ pc = "review"
  /\ \/ /\ NoError
        /\ reviews' = [reviews EXCEPT ![offset] = @ + 1]
     \/ /\ Raises \/ LosesCommit
        /\ UNCHANGED reviews
  /\ Abandon
  /\ UNCHANGED <<kafkaVars, apptVars, inbox, countVars, handled, unmatched,
                 skipped, crashes>>

\* The active appointments of a plate, and of these the one scheduled last.
ActiveOf(plate) == {a \in Appointments : PlateOf[a] = plate /\ status[a] \in Active}
LatestOf(S) == {a \in S : \A b \in S : b <= a}

\* _resolve_appointment_id; without a match, or when the query fails, the
\* dispatch returns False.
ResolveAppointment ==
  /\ pc = "resolve"
  /\ LET found == ActiveOf(MessageAt(cur).plate) IN
     \/ /\ target' \in LatestOf(found)
        /\ pc' = "handle"
        /\ NoError
        /\ UNCHANGED <<position, cur, unmatched>>
     \/ /\ found = {}
        /\ unmatched' = unmatched \cup {cur}
        /\ NoError
        /\ Abandon
     \/ /\ Raises
        /\ Abandon
        /\ UNCHANGED unmatched
  /\ UNCHANGED <<kafkaVars, pgVars, handled, skipped, crashes>>

\* Mutant of Enters: the previous status is not looked at.
EntersAgain(a) == a \in Gated

\* The decision lets a in: a visit and the notifications, given a gate.
Enters(a) == status[a] # "in_process" /\ a \in Gated

\* ContainerMovedHandler.handle: one transaction under the row lock of the
\* appointment.  Its inbox row has a fresh event_id and never deduplicates.  A
\* transition that the trigger refuses is an error "to retry", which nobody does.
Handle ==
  /\ pc = "handle"
  /\ \/ /\ Allowed(target, "in_process")
        /\ NoError
        /\ status' = [status EXCEPT ![target] = "in_process"]
        /\ visits' = IF Enters(target) THEN visits \cup {target} ELSE visits
        /\ accepted' = IF Enters(target) THEN [accepted EXCEPT ![target] = @ + 1]
                                        ELSE accepted
        /\ handled' = handled \cup {cur}
        /\ Goto("commit")
     \/ /\ \/ LosesCommit /\ Goto("commit")
           \/ Raises /\ Abandon
           \/ /\ ~Allowed(target, "in_process")
              /\ Refused /\ Abandon
        /\ UNCHANGED <<status, visits, accepted, handled>>
  /\ UNCHANGED <<kafkaVars, flagged, inbox, countVars, reviews, unmatched, skipped,
                 crashes>>

\* Mutant of IsNew: every delivery under an event_id of its own.
IsNewAlways == TRUE

\* inbox.try_insert_received: no row with this event_id yet.
IsNew == inbox[offset] = "none"

\* _inbox_check: insert and mark PROCESSING in one transaction, under an
\* event_id derived from topic, partition and offset.
InboxCheck ==
  /\ pc = "inbox"
  /\ LET next == IF MessageAt(cur).kind = "INFRACTION" THEN "find" ELSE "mark" IN
     \/ /\ ~IsNew
        /\ NoError
        /\ Goto("commit")
        /\ UNCHANGED inbox
     \/ /\ IsNew
        /\ NoError
        /\ inbox' = [inbox EXCEPT ![offset] = "PROCESSING"]
        /\ Goto(next)
     \/ /\ IsNew
        /\ LosesCommit
        /\ Goto(next)
        /\ UNCHANGED inbox
     \/ /\ Raises
        /\ Abandon
        /\ UNCHANGED inbox
  /\ UNCHANGED <<kafkaVars, apptVars, countVars, reviews, handled, unmatched,
                 skipped, crashes>>

\* Mutant of FlagStep: the flags compared the wrong way round.
FlagStepInverted(a) == IF a \in flagged THEN "flag" ELSE "alert"

\* Only an appointment that is not flagged yet is written.
FlagStep(a) == IF a \in flagged THEN "alert" ELSE "flag"

\* update_appointment_after_infraction, its read.
FindInfringing ==
  /\ pc = "find"
  /\ LET found == ActiveOf(MessageAt(cur).plate) IN
     \/ /\ target' \in LatestOf(found)
        /\ pc' = FlagStep(target')
        /\ NoError
        /\ UNCHANGED <<position, cur>>
     \/ /\ found = {}
        /\ NoError
        /\ Goto("mark")
     \/ /\ Raises
        /\ Goto("markFailed")
  /\ UNCHANGED <<kafkaVars, pgVars, handled, unmatched, skipped, crashes>>

\* cmd_flag_highway_infraction: a ValueError unless the truck is in transit.
FlagInfraction ==
  /\ pc = "flag"
  /\ \/ /\ status[target] = "in_transit"
        /\ NoError
        /\ flagged' = flagged \cup {target}
        /\ Goto("alert")
     \/ /\ \/ status[target] # "in_transit" /\ Refused /\ Goto("markFailed")
           \/ Raises /\ Goto("markFailed")
           \/ status[target] = "in_transit" /\ LosesCommit /\ Goto("alert")
        /\ UNCHANGED flagged
  /\ UNCHANGED <<kafkaVars, status, visits, accepted, inbox, countVars, reviews,
                 handled, unmatched, skipped, crashes>>

\* A row for the infraction in hand: counted, or its error swallowed.
Tells(count) ==
  \/ NoError /\ count' = [count EXCEPT ![offset] = @ + 1]
  \/ (Raises \/ LosesCommit) /\ UNCHANGED count

\* create_alerts_for_appointment.
CreateAlert ==
  /\ pc = "alert"
  /\ Tells(alerts)
  /\ Goto("gate")
  /\ UNCHANGED <<kafkaVars, apptVars, inbox, gateNotices, driverNotices, reviews,
                 handled, unmatched, skipped, crashes>>

\* _emit_infraction_notifications: the gate first, then the driver.
NotifyGate ==
  /\ pc = "gate"
  /\ Tells(gateNotices)
  /\ Goto("driver")
  /\ UNCHANGED <<kafkaVars, apptVars, inbox, alerts, driverNotices, reviews,
                 handled, unmatched, skipped, crashes>>

NotifyDriver ==
  /\ pc = "driver"
  /\ Tells(driverNotices)
  /\ Goto("mark")
  /\ UNCHANGED <<kafkaVars, apptVars, inbox, alerts, gateNotices, reviews,
                 handled, unmatched, skipped, crashes>>

\* _mark_processed; inbox.mark_processed raises when the row is missing.
MarkProcessed ==
  /\ pc = "mark"
  /\ \/ /\ inbox[offset] # "none"
        /\ NoError
        /\ inbox' = [inbox EXCEPT ![offset] = "PROCESSED"]
        /\ Goto("commit")
     \/ /\ \/ inbox[offset] = "none" /\ Refused /\ Goto("markFailed")
           \/ inbox[offset] # "none" /\ LosesCommit /\ Goto("commit")
           \/ Raises /\ Goto("markFailed")
        /\ UNCHANGED inbox
  /\ UNCHANGED <<kafkaVars, apptVars, countVars, reviews, handled, unmatched,
                 skipped, crashes>>

\* _mark_failed, whose own exceptions are swallowed.
MarkFailed ==
  /\ pc = "markFailed"
  /\ \/ /\ inbox[offset] # "none"
        /\ NoError
        /\ inbox' = [inbox EXCEPT ![offset] = "FAILED"]
     \/ /\ \/ inbox[offset] = "none" /\ NoError
           \/ Raises
           \/ LosesCommit
        /\ UNCHANGED inbox
  /\ Goto("commit")
  /\ UNCHANGED <<kafkaVars, apptVars, countVars, reviews, handled, unmatched,
                 skipped, crashes>>

\* Mutant of NextOffset: one message too far.
NextOffsetPlusOne == offset + 2

\* The offset that commit(msg) asks for.
NextOffset == offset + 1

\* consumer.commit(msg) only queues the request: it may never reach the broker.
CommitOffset ==
  /\ pc = "commit"
  /\ \/ committed' = [committed EXCEPT ![cur[1]] = NextOffset]
     \/ UNCHANGED committed
  /\ Abandon
  /\ UNCHANGED <<log, pgVars, ghostVars, errors, crashes>>

\* The process dies: what it had fetched and not committed is fetched again.
Crash ==
  /\ pc # "down"
  /\ crashes < MaxCrashes
  /\ crashes' = crashes + 1
  /\ pc' = "down"
  /\ cur' = None
  /\ target' = None
  /\ UNCHANGED <<kafkaVars, pgVars, position, ghostVars, errors>>

-----------------------------------------------------------------------------
Producers == \E t \in Topics, m \in Messages : Publish(t, m)

Clients ==
  \E a \in Appointments :
    \/ \E s \in Lifecycle!Statuses : SetStatus(a, s)
    \/ CreateVisit(a)
    \/ FlagByRequest(a)

Consumer ==
  \/ Start
  \/ \E t \in Topics : Poll(t)
  \/ StoreReview \/ ResolveAppointment \/ Handle
  \/ InboxCheck \/ FindInfringing \/ FlagInfraction \/ CreateAlert
  \/ NotifyGate \/ NotifyDriver \/ MarkProcessed \/ MarkFailed
  \/ CommitOffset

Next == Producers \/ Clients \/ Consumer \/ Crash

Spec == Init /\ [][Next]_vars

\* The consumer's loop runs on, and the container is restarted after a crash.
FairSpec == Spec /\ WF_vars(Consumer)

-----------------------------------------------------------------------------
(* Properties *)

\* A driver is told to enter at most once for an appointment, however often a
\* decision is published, delivered again or raced by a REST client
\* (ContainerMovedHandler.handle looks at the status under the row lock).
AdmittedOnce == \A a \in Appointments : accepted[a] <= 1

\* Whoever writes them, appointments live as the trigger prescribes, and the
\* driver is told to enter in the very step that lets the truck in.
ImplementsLifecycle == Lifecycle!Spec

\* An infraction that is delivered again after a restart raises no second alert
\* or notification (DW-06), unless the unit of work lost its inbox row.
InfractionTakesEffectOnce ==
  \A o \in Offsets :
    <<"infraction", o>> \notin lost =>
      alerts[o] <= 1 /\ gateNotices[o] <= 1 /\ driverNotices[o] <= 1

\* Nobody is alerted of an infraction that is not on record at an appointment of
\* that truck: the flag comes before the alert.
AlertedTruckIsFlagged ==
  \A o \in Offsets :
    alerts[o] + gateNotices[o] + driverNotices[o] > 0 =>
      \/ <<"infraction", o>> \in lost
      \/ \E a \in flagged : PlateOf[a] = MessageAt(<<"infraction", o>>).plate

Decided(id) == id[2] < Len(log[id[1]]) /\ MessageAt(id).kind \in Decisions
Settled == handled \cup unmatched \cup failed \cup lost \cup skipped

\* The group's offset never passes a decision that took no effect, except where
\* there was no appointment, an exception, a lost transaction or a first start:
\* a crash at any point delivers the decision again.
AcknowledgedDecisionTookEffect ==
  \A id \in Ids :
    Decided(id) /\ committed[id[1]] # None /\ id[2] < committed[id[1]] => id \in Settled

\* Every published decision is dealt with in the end, in one of these ways.
DecisionsSettle == \A id \in Ids : Decided(id) ~> id \in Settled

\* "REJECTED decision does NOT change status; an alert is created instead".
RejectedDoesNotAdmit ==
  [][\A a \in Appointments :
       pc = "handle" /\ pc' = "commit" /\ status'[a] # status[a]
         => MessageAt(cur).kind # "rejected"]_vars

=============================================================================
