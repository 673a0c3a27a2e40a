------------------------------- MODULE VBrain -------------------------------
(***************************************************************************)
(* V-Brain: the orchestrator that scales the network slice up while a      *)
(* truck is being read and sends Agent A back to work afterwards.  Its     *)
(* main thread handles one Kafka message at a time; a second thread looks  *)
(* for trucks that take too long; each reset sleeps seven seconds in a     *)
(* thread of its own.  They share the dictionary of the ScaleCorrelator    *)
(* and the flag scale_status, without a lock.                              *)
(*                                                                         *)
(* An action is what one thread does between two points where the others   *)
(* matter.  The scale-up and scale-down messages for the front end change  *)
(* no state here and are left out, except that producing them may fail;    *)
(* gates are left out too: a reset goes to the gate of its truck.          *)
(***************************************************************************)
EXTENDS Naturals, FiniteSets

CONSTANTS
  Trucks,         \* truck ids; a bound: each is detected at most once
  None,           \* no truck
  MaxFailures,    \* bound: failing calls to Kafka or to the scaling API
  MaxCrashes      \* bound: times the process is killed

ASSUME VBrainAssumption ==
  /\ IsFiniteSet(Trucks)
  /\ None \notin Trucks
  /\ MaxFailures \in Nat /\ MaxCrashes \in Nat

VARIABLES
  \* shared by the threads
  tracked,       \* keys of the correlator's _state
  lp, hz,        \* trucks whose entry has lp, hz set
  expired,       \* trucks whose entry is older than the timeout
  scaleStatus,   \* the flag scale_status
  \* the threads
  pc,            \* pc[th]: where thread th is, see Steps
  cur,           \* cur[th]: the truck in hand
  visited,       \* visited[th]: trucks the iteration of _scale_down_try has seen
  keys,          \* keys[th]: the entries when that iteration began
  timedOut,      \* what check_timeouts returned and is still to be handled
  sleeping,      \* sleeping[t]: resets for t that still sleep
  \* outside
  slice,         \* the network slice is scaled up
  resets,        \* resets[t]: reset messages published on account of t
  detected,      \* trucks whose detection V-Brain has received
  \* bookkeeping
  overlooked,    \* trucks that a scale-down did not get to see
  raced,         \* trucks that timed out while their decision was handled
  died,          \* threads that ended by an exception or a kill
  failures, crashes

stateVars  == <<tracked, lp, hz, expired>>
localVars  == <<cur, visited, keys>>
threadVars == <<pc, localVars, timedOut, sleeping>>
worldVars  == <<slice, resets, detected>>
ghostVars  == <<overlooked, raced, died>>
vars == <<stateVars, scaleStatus, threadVars, worldVars, ghostVars, failures, crashes>>

Threads == {"main", "timer"}
\* "loop" is the head of the for statement of _scale_down_try, "check" its body;
\* "downCall" and "downFlag" are the API call and the assignment after it.
ScaleDownSteps == {"down", "loop", "check", "downCall", "downFlag"}
Steps == [main  |-> {"idle", "up", "upCall", "markLp", "markHz", "ready", "decide", "write",
                     "settle", "dead"} \cup ScaleDownSteps,
          timer |-> {"idle", "next", "dead"} \cup ScaleDownSteps]
\* Where a thread goes on after _scale_down_try.
Home(th) == IF th = "main" THEN "idle" ELSE "next"

TypeOK ==
  /\ tracked \in SUBSET Trucks
  /\ lp \in SUBSET tracked /\ hz \in SUBSET tracked /\ expired \in SUBSET tracked
  /\ scaleStatus \in BOOLEAN
  /\ pc \in [Threads -> Steps["main"] \cup Steps["timer"]]
  /\ \A th \in Threads : pc[th] \in Steps[th]
  /\ cur \in [Threads -> Trucks \cup {None}]
  /\ visited \in [Threads -> SUBSET Trucks]
  /\ keys \in [Threads -> SUBSET Trucks]
  /\ timedOut \in SUBSET Trucks
  /\ sleeping \in [Trucks -> Nat]
  /\ slice \in BOOLEAN
  /\ resets \in [Trucks -> Nat]
  /\ detected \in SUBSET Trucks
  /\ overlooked \in SUBSET Trucks
  /\ raced \in SUBSET Trucks
  /\ died \in SUBSET (Threads \cup {"reset"})
  /\ failures \in 0..MaxFailures
  /\ crashes \in 0..MaxCrashes

\* The state of a process that has just started.
Fresh ==
  /\ tracked' = {} /\ lp' = {} /\ hz' = {} /\ expired' = {}
  /\ scaleStatus' = FALSE
  /\ pc' = [th \in Threads |-> "idle"]
  /\ cur' = [th \in Threads |-> None]
  /\ visited' = [th \in Threads |-> {}]
  /\ keys' = [th \in Threads |-> {}]
  /\ timedOut' = {}
  /\ sleeping' = [t \in Trucks |-> 0]

Init ==
  /\ tracked = {} /\ lp = {} /\ hz = {} /\ expired = {}
  /\ scaleStatus = FALSE
  /\ pc = [th \in Threads |-> "idle"]
  /\ cur = [th \in Threads |-> None]
  /\ visited = [th \in Threads |-> {}]
  /\ keys = [th \in Threads |-> {}]
  /\ timedOut = {}
  /\ sleeping = [t \in Trucks |-> 0]
  /\ slice = FALSE
  /\ resets = [t \in Trucks |-> 0]
  /\ detected = {}
  /\ overlooked = {} /\ raced = {} /\ died = {}
  /\ failures = 0
  /\ crashes = 0

Complete(t) == t \in lp \cap hz

\* Thread th goes on to another step; with another truck in hand; or returns
\* from its handler, and its local variables are gone.
Goto(th, step) == pc' = [pc EXCEPT ![th] = step] /\ UNCHANGED localVars
Take(th, step, t) ==
  /\ pc' = [pc EXCEPT ![th] = step]
  /\ cur' = [cur EXCEPT ![th] = t]
Return(th, step) ==
  /\ pc' = [pc EXCEPT ![th] = step]
  /\ cur' = [cur EXCEPT ![th] = None]
  /\ visited' = [visited EXCEPT ![th] = {}]
  /\ keys' = [keys EXCEPT ![th] = {}]

\* An exception nobody catches: the timer's thread is gone; the main thread
\* leaves its loop and the process ends.
Dies(th) ==
  /\ Return(th, "dead")
  /\ died' = died \cup {th}

\* Mutant of Remove: the entry goes, its flags stay.
RemoveEntry(t) == tracked' = tracked \ {t} /\ UNCHANGED <<lp, hz, expired>>

\* correlator.remove.
Remove(t) ==
  /\ tracked' = tracked \ {t}
  /\ lp' = lp \ {t}
  /\ hz' = hz \ {t}
  /\ expired' = expired \ {t}

\* _reset_agent_a: a thread that publishes the reset seven seconds later.
ScheduleReset(t) == sleeping' = [sleeping EXCEPT ![t] = @ + 1]

-----------------------------------------------------------------------------
(* The main thread: one message at a time.                                  *)

\* _on_truck_detected: a new entry.
TruckDetected(t) ==
  /\ pc["main"] = "idle"
  /\ t \notin detected
  /\ detected' = detected \cup {t}
  /\ tracked' = tracked \cup {t}
  /\ Take("main", "up", t)
  /\ overlooked' = IF pc["timer"] \in {"downCall", "downFlag"} THEN overlooked \cup {t}
                                                            ELSE overlooked
  /\ UNCHANGED <<lp, hz, expired, scaleStatus, visited, keys, timedOut, sleeping,
                 slice, resets, raced, died, failures, crashes>>

\* _scale_up_try: test the flag and set it ...
ScaleUpTry ==
  /\ pc["main"] = "up"
  /\ scaleStatus' = TRUE
  /\ IF scaleStatus THEN Return("main", "idle") ELSE Goto("main", "upCall")
  /\ UNCHANGED <<stateVars, timedOut, sleeping, worldVars, ghostVars, failures, crashes>>

\* _call_scaling_api: the slice becomes up (or down), or the request fails,
\* before or after it took effect; the failure is only logged.
CallScalingApi(up) ==
  \/ slice' = up /\ UNCHANGED failures
  \/ /\ failures < MaxFailures
     /\ failures' = failures + 1
     /\ slice' \in {slice, up}

\* ... then call the API.
ScaleUpCall ==
  /\ pc["main"] = "upCall"
  /\ CallScalingApi(TRUE)
  /\ Return("main", "idle")
  /\ UNCHANGED <<stateVars, scaleStatus, timedOut, sleeping, resets, detected,
                 ghostVars, crashes>>

\* _on_lp_results and _on_hz_results: nothing for a truck that is not tracked.
ResultReceived(t, mark) ==
  /\ pc["main"] = "idle"
  /\ t \in tracked
  /\ Take("main", mark, t)
  /\ UNCHANGED <<stateVars, scaleStatus, visited, keys, timedOut, sleeping, worldVars,
                 ghostVars, failures, crashes>>

\* lp_received, hz_received: a KeyError if the timer has removed the entry since.
MarkResult ==
  LET t == cur["main"] IN
  /\ pc["main"] \in {"markLp", "markHz"}
  /\ \/ /\ t \notin tracked
        /\ Dies("main")
        /\ UNCHANGED <<lp, hz>>
     \/ /\ t \in tracked
        /\ lp' = IF pc["main"] = "markLp" THEN lp \cup {t} ELSE lp
        /\ hz' = IF pc["main"] = "markHz" THEN hz \cup {t} ELSE hz
        /\ Goto("main", "ready")
        /\ UNCHANGED died
  /\ UNCHANGED <<tracked, expired, scaleStatus, timedOut, sleeping, worldVars, overlooked,
                 raced, failures, crashes>>

\* ... and scale down when both results are in; the log line in between reads the
\* entry too, and an entry that is gone by then is a KeyError again.
ResultReady ==
  /\ pc["main"] = "ready"
  /\ \/ cur["main"] \notin tracked /\ Dies("main")
     \/ /\ IF Complete(cur["main"]) THEN Goto("main", "down") ELSE Return("main", "idle")
        /\ UNCHANGED died
  /\ UNCHANGED <<stateVars, scaleStatus, timedOut, sleeping, worldVars, overlooked, raced,
                 failures, crashes>>

\* _on_agent_decision and _on_infraction_decision: for a truck that is not
\* tracked only a log line, whatever it says.
DecisionReceived(t) ==
  /\ pc["main"] = "idle"
  /\ t \in tracked
  /\ Take("main", "decide", t)
  /\ UNCHANGED <<stateVars, scaleStatus, visited, keys, timedOut, sleeping, worldVars,
                 ghostVars, failures, crashes>>

\* decision_received looks for the entry once more, and returns without one ...
MarkDecided ==
  /\ pc["main"] = "decide"
  /\ Goto("main", IF cur["main"] \in tracked THEN "write" ELSE "settle")
  /\ UNCHANGED <<stateVars, scaleStatus, timedOut, sleeping, worldVars, ghostVars,
                 failures, crashes>>

\* ... and writes to it: again a KeyError without the entry.  Nothing reads
\* what it writes.
WriteDecided ==
  /\ pc["main"] = "write"
  /\ \/ cur["main"] \notin tracked /\ Dies("main")
     \/ cur["main"] \in tracked /\ Goto("main", "settle") /\ UNCHANGED died
  /\ UNCHANGED <<stateVars, scaleStatus, timedOut, sleeping, worldVars, overlooked, raced,
                 failures, crashes>>

\* Reset Agent A and forget the truck.
SettleDecision ==
  /\ pc["main"] = "settle"
  /\ ScheduleReset(cur["main"])
  /\ Remove(cur["main"])
  /\ Return("main", "idle")
  /\ UNCHANGED <<scaleStatus, timedOut, worldVars, ghostVars, failures, crashes>>

-----------------------------------------------------------------------------
(* The timer: every five seconds, the trucks that take too long.            *)

\* The entry of t gets older than timeout_seconds.
Expire(t) ==
  /\ t \in tracked \ expired
  /\ expired' = expired \cup {t}
  /\ UNCHANGED <<tracked, lp, hz, scaleStatus, threadVars, worldVars, ghostVars,
                 failures, crashes>>

\* Mutant of Overdue: trucks whose results are complete are forgotten.
OverdueIncomplete == {t \in expired : ~Complete(t)}

\* The test of check_timeouts.
Overdue == expired

CheckTimeouts ==
  /\ pc["timer"] = "idle"
  /\ Overdue # {}
  /\ timedOut' = Overdue
  /\ Goto("timer", "next")
  /\ UNCHANGED <<stateVars, scaleStatus, sleeping, worldVars, ghostVars, failures, crashes>>

\* The main thread has a decision on t in hand, for which it found t tracked.
BeingDecided(t) == cur["main"] = t /\ pc["main"] \in {"decide", "write", "settle"}

\* Mutant of HandleTimeout: the gate is not looked up, so neither is the truck.
HandleTimeoutBlindly(t) ==
  /\ pc["timer"] = "next"
  /\ t \in timedOut
  /\ timedOut' = timedOut \ {t}
  /\ ScheduleReset(t)
  /\ Remove(t)
  /\ raced' = IF BeingDecided(t) THEN raced \cup {t} ELSE raced
  /\ Goto("timer", "down")
  /\ UNCHANGED <<scaleStatus, worldVars, overlooked, died, failures, crashes>>

\* The body of the loop over the timed-out trucks; a truck that the main thread
\* has removed since has no gate and is only logged.
HandleTimeout(t) ==
  /\ pc["timer"] = "next"
  /\ t \in timedOut
  /\ timedOut' = timedOut \ {t}
  /\ \/ /\ t \in tracked
        /\ ScheduleReset(t)
        /\ Remove(t)
        /\ raced' = IF BeingDecided(t) THEN raced \cup {t} ELSE raced
        /\ Goto("timer", "down")
     \/ /\ t \notin tracked
        /\ UNCHANGED <<stateVars, sleeping, raced, pc, localVars>>
  /\ UNCHANGED <<scaleStatus, worldVars, overlooked, died, failures, crashes>>

TimeoutsHandled ==
  /\ pc["timer"] = "next"
  /\ timedOut = {}
  /\ Goto("timer", "idle")
  /\ UNCHANGED <<stateVars, scaleStatus, timedOut, sleeping, worldVars, ghostVars,
                 failures, crashes>>

-----------------------------------------------------------------------------
(* _scale_down_try, by either thread.                                       *)

ScaleDownTry(th) ==
  /\ pc[th] = "down"
  /\ pc' = [pc EXCEPT ![th] = "loop"]
  /\ visited' = [visited EXCEPT ![th] = {}]
  /\ keys' = [keys EXCEPT ![th] = tracked]
  /\ UNCHANGED <<stateVars, scaleStatus, cur, timedOut, sleeping, worldVars, ghostVars,
                 failures, crashes>>

\* Every truck enters the dictionary once, so an entry that came or went since the
\* iteration began shows in its keys.
SameSize(th) == Cardinality(tracked) = Cardinality(keys[th])
AllSeen(th) == Cardinality(visited[th]) = Cardinality(keys[th])

\* The next entry of the dictionary ...
VisitEntry(th, t) ==
  /\ pc[th] = "loop"
  /\ SameSize(th) /\ ~AllSeen(th)
  /\ t \in tracked \ visited[th]
  /\ visited' = [visited EXCEPT ![th] = @ \cup {t}]
  /\ Take(th, "check", t)
  /\ UNCHANGED <<stateVars, scaleStatus, keys, timedOut, sleeping, worldVars, ghostVars,
                 failures, crashes>>

\* ... or none left.  When one entry went and another came, the dictionary may have
\* been packed anew, and the iteration ends before it has seen every entry.
NoEntryLeft(th) ==
  /\ pc[th] = "loop"
  /\ SameSize(th)
  /\ tracked \subseteq visited[th] \/ tracked # keys[th]
  /\ overlooked' = overlooked \cup (tracked \ visited[th])
  /\ Goto(th, "downCall")
  /\ UNCHANGED <<stateVars, scaleStatus, timedOut, sleeping, worldVars, raced, died,
                 failures, crashes>>

\* "dictionary changed size", or "dictionary keys changed during iteration".
DictionaryChanged(th) ==
  /\ pc[th] = "loop"
  /\ ~SameSize(th) \/ (AllSeen(th) /\ ~(tracked \subseteq visited[th]))
  /\ Dies(th)
  /\ UNCHANGED <<stateVars, scaleStatus, timedOut, sleeping, worldVars, overlooked, raced,
                 failures, crashes>>

\* Mutant of StillNeeds: one of the two results is enough.
StillNeedsBoth(t) == t \notin lp \cup hz

\* not _is_results_complete: an entry that is gone counts as incomplete.
StillNeeds(t) == ~Complete(t)

\* A truck that still needs the slice ends the attempt.
CheckEntry(th) ==
  /\ pc[th] = "check"
  /\ IF StillNeeds(cur[th]) THEN Return(th, Home(th)) ELSE Goto(th, "loop")
  /\ UNCHANGED <<stateVars, scaleStatus, timedOut, sleeping, worldVars, ghostVars,
                 failures, crashes>>

ScaleDownCall(th) ==
  /\ pc[th] = "downCall"
  /\ CallScalingApi(FALSE)
  /\ Goto(th, "downFlag")
  /\ UNCHANGED <<stateVars, scaleStatus, timedOut, sleeping, resets, detected, ghostVars,
                 crashes>>

ScaleDownFlag(th) ==
  /\ pc[th] = "downFlag"
  /\ scaleStatus' = FALSE
  /\ Return(th, Home(th))
  /\ UNCHANGED <<stateVars, timedOut, sleeping, worldVars, ghostVars, failures, crashes>>

-----------------------------------------------------------------------------
(* Resets, failures and restarts.                                           *)

\* A reset has slept its seven seconds; produce may raise in its thread.
PublishReset(t) ==
  /\ sleeping[t] > 0
  /\ sleeping' = [sleeping EXCEPT ![t] = @ - 1]
  /\ \/ /\ resets' = [resets EXCEPT ![t] = @ + 1]
        /\ UNCHANGED <<failures, died>>
     \/ /\ failures < MaxFailures
        /\ failures' = failures + 1
        /\ died' = died \cup {"reset"}
        /\ UNCHANGED resets
  /\ UNCHANGED <<stateVars, scaleStatus, pc, localVars, timedOut, slice, detected,
                 overlooked, raced, crashes>>

\* Publishing scale-up or scale-down raises in thread th.
PublishFails(th) ==
  /\ pc[th] \in {"up", "down"}
  /\ failures < MaxFailures
  /\ failures' = failures + 1
  /\ Dies(th)
  /\ UNCHANGED <<stateVars, scaleStatus, timedOut, sleeping, worldVars, overlooked, raced,
                 crashes>>

\* The container is restarted once the main thread has left its loop, and its
\* consumer begins at the end of the topics; the slice stays as it was.
Restart ==
  /\ pc["main"] = "dead"
  /\ Fresh
  /\ UNCHANGED <<worldVars, ghostVars, failures, crashes>>

\* The process is killed and restarted.
Crash ==
  /\ crashes < MaxCrashes
  /\ crashes' = crashes + 1
  /\ Fresh
  /\ died' = died \cup Threads
  /\ UNCHANGED <<worldVars, overlooked, raced, failures>>

-----------------------------------------------------------------------------
Messages ==
  \E t \in Trucks :
    \/ TruckDetected(t) \/ DecisionReceived(t)
    \/ \E mark \in {"markLp", "markHz"} : ResultReceived(t, mark)

ScaleDown(th) ==
  \/ ScaleDownTry(th) \/ NoEntryLeft(th) \/ DictionaryChanged(th) \/ CheckEntry(th)
  \/ ScaleDownCall(th) \/ ScaleDownFlag(th)
  \/ \E t \in Trucks : VisitEntry(th, t)

Main ==
  \/ ScaleUpTry \/ ScaleUpCall \/ MarkResult \/ ResultReady
  \/ MarkDecided \/ WriteDecided \/ SettleDecision
  \/ ScaleDown("main")

Timer ==
  \/ CheckTimeouts \/ TimeoutsHandled
  \/ \E t \in Trucks : HandleTimeout(t)
  \/ ScaleDown("timer")

Next ==
  \/ Messages \/ Main \/ Timer
  \/ \E t \in Trucks : Expire(t) \/ PublishReset(t)
  \/ \E th \in Threads : PublishFails(th)
  \/ Restart \/ Crash

Spec == Init /\ [][Next]_vars

\* The threads run on, clocks advance, sleeping threads wake and the container
\* is restarted; no message needs to come.
Fairness ==
  /\ WF_vars(Main) /\ WF_vars(Timer) /\ WF_vars(Restart)
  /\ \A t \in Trucks : WF_vars(Expire(t)) /\ WF_vars(PublishReset(t))

FairSpec == Spec /\ Fairness

-----------------------------------------------------------------------------
(* Properties *)

\* A truck that still waits for a result has the slice, or the main thread is
\* scaling up for it right now.
Served(t) == slice \/ (cur["main"] = t /\ pc["main"] \in {"up", "upCall"})
Waiting(t) == t \in tracked /\ ~Complete(t)

\* While a truck waits for its results the slice is up, whatever the other trucks
\* and the two threads do, unless a call failed or the timer's scale-down did not
\* get to see the truck: it came after the check and before the flag was cleared,
\* or the iteration skipped it (_scale_down_try).
SliceUpWhileNeeded ==
  failures = 0 => \A t \in Trucks \ overlooked : Waiting(t) => Served(t)

\* The same for every truck: "Evita dar scale-down se ainda tiver algum truck a
\* precisar do slice dedicado" (v_brain.py).
NeverScaledDownWhileNeeded == \A t \in Trucks : Waiting(t) => Served(t)

\* One truck causes one reset of Agent A, two only if it timed out while its
\* decision was being handled: a second one would wake the agent too early.
OneResetUnlessRaced ==
  \A t \in Trucks : resets[t] + sleeping[t] <= IF t \in raced THEN 2 ELSE 1

\* Every detected truck ends with a reset that sends Agent A back to work, by its
\* decision or by the timeout, unless a thread died on the way.
DetectedTruckIsReset ==
  \A t \in Trucks : t \in detected ~> resets[t] > 0 \/ died # {}

=============================================================================
