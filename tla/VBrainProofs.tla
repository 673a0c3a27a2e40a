---------------------------- MODULE VBrainProofs ----------------------------
(***************************************************************************)
(* Proofs about VBrain, for every finite set of trucks and every number of *)
(* failures and crashes: the types, that a waiting truck keeps the slice   *)
(* unless the timer's scale-down overlooked it, and that a truck           *)
(* causes one reset unless its decision raced its timeout.                 *)
(*                                                                         *)
(* ServiceInv carries the argument for the slice: no thread is past the    *)
(* check of _scale_down_try while a truck waits that was there to be seen, *)
(* which IterInv justifies: whatever the iteration has visited is complete *)
(* or gone, and no truck it has visited comes back.                        *)
(***************************************************************************)
EXTENDS VBrain, TLAPS

\* What the threads hold at each step.
HandSteps == {"up", "upCall", "markLp", "markHz", "ready", "decide", "write", "settle",
              "check"}
LocalInv ==
  /\ \A th \in Threads : pc[th] \in HandSteps => cur[th] \in Trucks
  /\ tracked \subseteq detected
  /\ \A th \in Threads : cur[th] # None => cur[th] \in detected

\* What an iteration of _scale_down_try has left behind is complete or gone.
Passed(th) == IF pc[th] = "check" THEN visited[th] \ {cur[th]} ELSE visited[th]
IterInv ==
  \A th \in Threads :
    /\ visited[th] \subseteq detected
    /\ pc[th] \in {"loop", "check"} => \A t \in Passed(th) \cap tracked : Complete(t)

\* A truck that waits and was not overlooked: nobody is about to scale down, and
\* the slice is up or the main thread is on its way to scale up for it.
Serving(t) ==
  /\ \A th \in Threads : pc[th] \notin {"downCall", "downFlag"}
  /\ \/ cur["main"] = t /\ pc["main"] = "up"
     \/ scaleStatus /\ (slice \/ (cur["main"] = t /\ pc["main"] = "upCall"))

\* The flag tells the truth, but for a call that has not returned.
FlagTrue ==
  scaleStatus => \/ slice \/ pc["main"] = "upCall"
                 \/ \E th \in Threads : pc[th] = "downFlag"

ServiceInv ==
  failures = 0 => FlagTrue /\ \A t \in Trucks \ overlooked : Waiting(t) => Serving(t)

\* How many resets a truck has caused so far.
Total(t) == resets[t] + sleeping[t]
ResetInv ==
  \A t \in Trucks :
    /\ t \in tracked \/ t \notin detected => Total(t) = 0
    /\ BeingDecided(t) /\ t \notin tracked => t \in raced /\ Total(t) <= 1
    /\ Total(t) <= IF t \in raced THEN 2 ELSE 1

Inv == TypeOK /\ LocalInv /\ IterInv /\ ServiceInv /\ ResetInv

\* Frames.
USE DEF stateVars, localVars, threadVars, worldVars, ghostVars

\* The types of what the threads hold.
ThreadsTyped ==
  /\ pc \in [Threads -> Steps["main"] \cup Steps["timer"]]
  /\ \A th \in Threads : pc[th] \in Steps[th]
  /\ cur \in [Threads -> Trucks \cup {None}]
  /\ visited \in [Threads -> SUBSET Trucks]
  /\ keys \in [Threads -> SUBSET Trucks]

\* A thread that returns, or has just started.
LEMMA ReturnTyped ==
  ASSUME TypeOK, NEW th \in Threads, NEW step \in Steps[th], Return(th, step)
  PROVE ThreadsTyped'
<1>1. \A s \in Threads : pc'[s] \in Steps[s]
  BY DEF TypeOK, Return, Threads
<1> QED
  BY <1>1 DEF TypeOK, ThreadsTyped, Return, Threads, Steps, ScaleDownSteps

\* What a new process begins with.
LEMMA FreshTyped ==
  ASSUME Fresh
  PROVE /\ ThreadsTyped' /\ scaleStatus' \in BOOLEAN
        /\ tracked' \in SUBSET Trucks /\ lp' \in SUBSET tracked' /\ hz' \in SUBSET tracked'
        /\ expired' \in SUBSET tracked' /\ timedOut' \in SUBSET Trucks
        /\ sleeping' \in [Trucks -> Nat]
<1>1. ThreadsTyped'
  BY DEF Fresh, ThreadsTyped, Threads, Steps, ScaleDownSteps
<1> QED
  BY <1>1 DEF Fresh

\* A call to the scaling API.
LEMMA CallTyped ==
  ASSUME TypeOK, NEW up \in BOOLEAN, CallScalingApi(up)
  PROVE /\ slice' \in BOOLEAN
        /\ failures' \in 0..MaxFailures
        /\ failures' = 0 => failures = 0 /\ slice' = up
<1>1. slice' \in BOOLEAN
  BY DEF TypeOK, CallScalingApi
<1>2. CASE slice' = up /\ failures' = failures
  BY <1>1, <1>2 DEF TypeOK
<1>3. CASE failures < MaxFailures /\ failures' = failures + 1
  BY <1>1, <1>3, VBrainAssumption DEF TypeOK
<1> QED
  BY <1>2, <1>3 DEF CallScalingApi

\* The initial states.
LEMMA InitInv == Init => Inv
<1> SUFFICES ASSUME Init PROVE Inv
  OBVIOUS
<1> USE DEF Init, Threads
<1>1. TypeOK
  <2>1. pc \in [Threads -> Steps["main"] \cup Steps["timer"]]
    BY DEF Steps, ScaleDownSteps
  <2>2. \A th \in Threads : pc[th] \in Steps[th]
    BY DEF Steps
  <2>3. cur \in [Threads -> Trucks \cup {None}] /\ visited \in [Threads -> SUBSET Trucks]
        /\ keys \in [Threads -> SUBSET Trucks] /\ sleeping \in [Trucks -> Nat]
        /\ resets \in [Trucks -> Nat]
    OBVIOUS
  <2>4. failures \in 0..MaxFailures /\ crashes \in 0..MaxCrashes
    BY VBrainAssumption
  <2> QED
    BY <2>1, <2>2, <2>3, <2>4 DEF TypeOK
<1>2. LocalInv
  BY DEF LocalInv, HandSteps
<1>3. IterInv
  BY DEF IterInv, Passed
<1>4. ServiceInv
  BY DEF ServiceInv, FlagTrue, Waiting
<1>5. ResetInv
  BY DEF ResetInv, Total, BeingDecided
<1> QED
  BY <1>1, <1>2, <1>3, <1>4, <1>5 DEF Inv

-----------------------------------------------------------------------------
\* A step preserves the types.
LEMMA TypeStep == Inv /\ [Next]_vars => TypeOK'
<1> SUFFICES ASSUME Inv, [Next]_vars PROVE TypeOK'
  OBVIOUS
<1> USE DEF Inv, TypeOK, Threads, Steps, ScaleDownSteps, Home
<1>1. ASSUME NEW t \in Trucks, TruckDetected(t) PROVE TypeOK'
  BY <1>1, VBrainAssumption DEF TruckDetected, Take
<1>2. ASSUME ScaleUpTry PROVE TypeOK'
  BY <1>2, VBrainAssumption DEF ScaleUpTry, Goto, Return
<1>3. ASSUME ScaleUpCall PROVE TypeOK'
  <2>1. slice' \in BOOLEAN /\ failures' \in 0..MaxFailures
    BY <1>3, CallTyped DEF ScaleUpCall
  <2>2. ThreadsTyped'
    BY <1>3, ReturnTyped DEF ScaleUpCall
  <2> QED
    BY <1>3, <2>1, <2>2 DEF ScaleUpCall, ThreadsTyped
<1>4. ASSUME NEW t \in Trucks, NEW mark \in {"markLp", "markHz"}, ResultReceived(t, mark) PROVE TypeOK'
  BY <1>4, VBrainAssumption DEF ResultReceived, Take
<1>5. ASSUME MarkResult PROVE TypeOK'
  <2>1. CASE cur["main"] \notin tracked
    <3>1. Dies("main") /\ UNCHANGED <<lp, hz>>
      BY <1>5, <2>1 DEF MarkResult
    <3>2. ThreadsTyped'
      BY <3>1, ReturnTyped DEF Dies
    <3> QED
      BY <1>5, <3>1, <3>2 DEF MarkResult, Dies, ThreadsTyped
  <2>2. CASE cur["main"] \in tracked
    <3>1. Goto("main", "ready") /\ lp' \in SUBSET tracked /\ hz' \in SUBSET tracked /\ died' = died
      BY <1>5, <2>2 DEF MarkResult
    <3> QED
      BY <1>5, <3>1 DEF MarkResult, Goto
  <2> QED
    BY <2>1, <2>2
<1>6. ASSUME ResultReady PROVE TypeOK'
  <2>1. CASE Dies("main")
    <3>1. ThreadsTyped'
      BY <2>1, ReturnTyped DEF Dies
    <3> QED
      BY <1>6, <2>1, <3>1 DEF ResultReady, Dies, ThreadsTyped
  <2>2. CASE Goto("main", "down") /\ died' = died
    BY <1>6, <2>2 DEF ResultReady, Goto
  <2>3. CASE Return("main", "idle") /\ died' = died
    BY <1>6, <2>3 DEF ResultReady, Return
  <2> QED
    BY <1>6, <2>1, <2>2, <2>3 DEF ResultReady
<1>7. ASSUME NEW t \in Trucks, DecisionReceived(t) PROVE TypeOK'
  BY <1>7, VBrainAssumption DEF DecisionReceived, Take
<1>8. ASSUME MarkDecided PROVE TypeOK'
  BY <1>8, VBrainAssumption DEF MarkDecided, Goto
<1>9. ASSUME WriteDecided PROVE TypeOK'
  <2>1. CASE Dies("main")
    <3>1. ThreadsTyped'
      BY <2>1, ReturnTyped DEF Dies
    <3> QED
      BY <1>9, <2>1, <3>1 DEF WriteDecided, Dies, ThreadsTyped
  <2>2. CASE Goto("main", "settle") /\ died' = died
    BY <1>9, <2>2 DEF WriteDecided, Goto
  <2> QED
    BY <1>9, <2>1, <2>2 DEF WriteDecided
<1>10. ASSUME SettleDecision PROVE TypeOK'
  <2>1. ThreadsTyped'
    BY <1>10, ReturnTyped DEF SettleDecision
  <2>2. sleeping' \in [Trucks -> Nat]
    <3>1. cur["main"] \in Trucks
      BY <1>10 DEF SettleDecision, LocalInv, HandSteps
    <3> QED
      BY <1>10, <3>1 DEF SettleDecision, ScheduleReset
  <2> QED
    BY <1>10, <2>1, <2>2 DEF SettleDecision, Remove, ThreadsTyped
<1>11. ASSUME NEW t \in Trucks, Expire(t) PROVE TypeOK'
  BY <1>11, VBrainAssumption DEF Expire
<1>12. ASSUME CheckTimeouts PROVE TypeOK'
  BY <1>12, VBrainAssumption DEF CheckTimeouts, Overdue, Goto
<1>13. ASSUME NEW t \in Trucks, HandleTimeout(t) PROVE TypeOK'
  BY <1>13, VBrainAssumption DEF HandleTimeout, ScheduleReset, Remove, Goto
<1>14. ASSUME TimeoutsHandled PROVE TypeOK'
  BY <1>14, VBrainAssumption DEF TimeoutsHandled, Goto
<1>15. ASSUME NEW th \in Threads, ScaleDownTry(th) PROVE TypeOK'
  BY <1>15, VBrainAssumption DEF ScaleDownTry
<1>16. ASSUME NEW th \in Threads, NEW t \in Trucks, VisitEntry(th, t) PROVE TypeOK'
  BY <1>16, VBrainAssumption DEF VisitEntry, Take
<1>17. ASSUME NEW th \in Threads, NoEntryLeft(th) PROVE TypeOK'
  BY <1>17, VBrainAssumption DEF NoEntryLeft, Goto
<1>18. ASSUME NEW th \in Threads, DictionaryChanged(th) PROVE TypeOK'
  BY <1>18, VBrainAssumption DEF DictionaryChanged, Dies, Return
<1>19. ASSUME NEW th \in Threads, CheckEntry(th) PROVE TypeOK'
  BY <1>19, VBrainAssumption DEF CheckEntry, StillNeeds, Return, Goto
<1>20. ASSUME NEW th \in Threads, ScaleDownCall(th) PROVE TypeOK'
  <2>1. slice' \in BOOLEAN /\ failures' \in 0..MaxFailures
    BY <1>20, CallTyped DEF ScaleDownCall
  <2>2. ThreadsTyped'
    BY <1>20 DEF ScaleDownCall, Goto, ThreadsTyped
  <2> QED
    BY <1>20, <2>1, <2>2 DEF ScaleDownCall, ThreadsTyped
<1>21. ASSUME NEW th \in Threads, ScaleDownFlag(th) PROVE TypeOK'
  <2>1. ThreadsTyped'
    <3>1. Home(th) \in Steps[th]
      OBVIOUS
    <3> QED
      BY <1>21, <3>1, ReturnTyped DEF ScaleDownFlag
  <2> QED
    BY <1>21, <2>1 DEF ScaleDownFlag, ThreadsTyped
<1>22. ASSUME NEW t \in Trucks, PublishReset(t) PROVE TypeOK'
  <2>1. sleeping' \in [Trucks -> Nat] /\ resets' \in [Trucks -> Nat]
    BY <1>22 DEF PublishReset
  <2>2. died' \in SUBSET (Threads \cup {"reset"})
    BY <1>22 DEF PublishReset
  <2>3. failures' \in 0..MaxFailures
    <3>1. CASE failures' = failures
      BY <3>1
    <3>2. CASE failures < MaxFailures /\ failures' = failures + 1
      BY <3>2, VBrainAssumption
    <3> QED
      BY <1>22, <3>1, <3>2 DEF PublishReset
  <2> QED
    BY <1>22, <2>1, <2>2, <2>3 DEF PublishReset
<1>23. ASSUME NEW th \in Threads, PublishFails(th) PROVE TypeOK'
  BY <1>23, VBrainAssumption DEF PublishFails, Dies, Return
<1>24. ASSUME Restart PROVE TypeOK'
  <2>1. Fresh
    BY <1>24 DEF Restart
  <2> QED
    BY <1>24, <2>1, FreshTyped DEF Restart, ThreadsTyped
<1>25. ASSUME Crash PROVE TypeOK'
  <2>1. Fresh /\ died' \in SUBSET (Threads \cup {"reset"})
    BY <1>25 DEF Crash
  <2>2. crashes' \in 0..MaxCrashes
    BY <1>25, VBrainAssumption DEF Crash
  <2> QED
    BY <1>25, <2>1, <2>2, FreshTyped DEF Crash, ThreadsTyped
<1>26. CASE UNCHANGED vars
  BY <1>26 DEF vars
<1> QED
  BY <1>1, <1>2, <1>3, <1>4, <1>5, <1>6, <1>7, <1>8, <1>9, <1>10, <1>11, <1>12,
     <1>13, <1>14, <1>15, <1>16, <1>17, <1>18, <1>19, <1>20, <1>21, <1>22, <1>23,
     <1>24, <1>25, <1>26
  DEF Next, Messages, Main, Timer, ScaleDown

\* A step preserves what the threads hold.
LEMMA LocalStep == Inv /\ [Next]_vars => LocalInv'
<1> SUFFICES ASSUME Inv, [Next]_vars PROVE LocalInv'
  OBVIOUS
<1> USE DEF Inv, TypeOK, LocalInv, Threads, HandSteps, Home
<1>1. ASSUME NEW t \in Trucks, TruckDetected(t) PROVE LocalInv'
  BY <1>1, VBrainAssumption DEF TruckDetected, Take
<1>2. ASSUME ScaleUpTry PROVE LocalInv'
  BY <1>2, VBrainAssumption DEF ScaleUpTry, Goto, Return
<1>3. ASSUME ScaleUpCall PROVE LocalInv'
  BY <1>3, VBrainAssumption DEF ScaleUpCall, CallScalingApi, Return
<1>4. ASSUME NEW t \in Trucks, NEW mark \in {"markLp", "markHz"}, ResultReceived(t, mark) PROVE LocalInv'
  BY <1>4, VBrainAssumption DEF ResultReceived, Take
<1>5. ASSUME MarkResult PROVE LocalInv'
  BY <1>5, VBrainAssumption DEF MarkResult, Dies, Return, Goto
<1>6. ASSUME ResultReady PROVE LocalInv'
  BY <1>6, VBrainAssumption DEF ResultReady, Dies, Return, Goto
<1>7. ASSUME NEW t \in Trucks, DecisionReceived(t) PROVE LocalInv'
  BY <1>7, VBrainAssumption DEF DecisionReceived, Take
<1>8. ASSUME MarkDecided PROVE LocalInv'
  BY <1>8, VBrainAssumption DEF MarkDecided, Goto
<1>9. ASSUME WriteDecided PROVE LocalInv'
  BY <1>9, VBrainAssumption DEF WriteDecided, Dies, Return, Goto
<1>10. ASSUME SettleDecision PROVE LocalInv'
  BY <1>10, VBrainAssumption DEF SettleDecision, ScheduleReset, Remove, Return
<1>11. ASSUME NEW t \in Trucks, Expire(t) PROVE LocalInv'
  BY <1>11, VBrainAssumption DEF Expire
<1>12. ASSUME CheckTimeouts PROVE LocalInv'
  BY <1>12, VBrainAssumption DEF CheckTimeouts, Overdue, Goto
<1>13. ASSUME NEW t \in Trucks, HandleTimeout(t) PROVE LocalInv'
  BY <1>13, VBrainAssumption DEF HandleTimeout, ScheduleReset, Remove, Goto
<1>14. ASSUME TimeoutsHandled PROVE LocalInv'
  BY <1>14, VBrainAssumption DEF TimeoutsHandled, Goto
<1>15. ASSUME NEW th \in Threads, ScaleDownTry(th) PROVE LocalInv'
  BY <1>15, VBrainAssumption DEF ScaleDownTry
<1>16. ASSUME NEW th \in Threads, NEW t \in Trucks, VisitEntry(th, t) PROVE LocalInv'
  BY <1>16, VBrainAssumption DEF VisitEntry, Take
<1>17. ASSUME NEW th \in Threads, NoEntryLeft(th) PROVE LocalInv'
  BY <1>17, VBrainAssumption DEF NoEntryLeft, Goto
<1>18. ASSUME NEW th \in Threads, DictionaryChanged(th) PROVE LocalInv'
  BY <1>18, VBrainAssumption DEF DictionaryChanged, Dies, Return
<1>19. ASSUME NEW th \in Threads, CheckEntry(th) PROVE LocalInv'
  BY <1>19, VBrainAssumption DEF CheckEntry, StillNeeds, Return, Goto
<1>20. ASSUME NEW th \in Threads, ScaleDownCall(th) PROVE LocalInv'
  BY <1>20, VBrainAssumption DEF ScaleDownCall, CallScalingApi, Goto
<1>21. ASSUME NEW th \in Threads, ScaleDownFlag(th) PROVE LocalInv'
  BY <1>21, VBrainAssumption DEF ScaleDownFlag, Return
<1>22. ASSUME NEW t \in Trucks, PublishReset(t) PROVE LocalInv'
  BY <1>22, VBrainAssumption DEF PublishReset
<1>23. ASSUME NEW th \in Threads, PublishFails(th) PROVE LocalInv'
  BY <1>23, VBrainAssumption DEF PublishFails, Dies, Return
<1>24. ASSUME Restart PROVE LocalInv'
  BY <1>24, VBrainAssumption DEF Restart, Fresh
<1>25. ASSUME Crash PROVE LocalInv'
  BY <1>25, VBrainAssumption DEF Crash, Fresh
<1>26. CASE UNCHANGED vars
  BY <1>26 DEF vars
<1> QED
  BY <1>1, <1>2, <1>3, <1>4, <1>5, <1>6, <1>7, <1>8, <1>9, <1>10, <1>11, <1>12,
     <1>13, <1>14, <1>15, <1>16, <1>17, <1>18, <1>19, <1>20, <1>21, <1>22, <1>23,
     <1>24, <1>25, <1>26
  DEF Next, Messages, Main, Timer, ScaleDown

\* A step preserves what an iteration has left behind.
LEMMA IterStep == Inv /\ [Next]_vars => IterInv'
<1> SUFFICES ASSUME Inv, [Next]_vars PROVE IterInv'
  OBVIOUS
<1> USE DEF Inv, TypeOK, LocalInv, IterInv, Passed, Complete, Threads, HandSteps, Home
<1>1. ASSUME NEW t \in Trucks, TruckDetected(t) PROVE IterInv'
  BY <1>1 DEF TruckDetected, Take
<1>2. ASSUME ScaleUpTry PROVE IterInv'
  BY <1>2 DEF ScaleUpTry, Goto, Return
<1>3. ASSUME ScaleUpCall PROVE IterInv'
  BY <1>3 DEF ScaleUpCall, CallScalingApi, Return
<1>4. ASSUME NEW t \in Trucks, NEW mark \in {"markLp", "markHz"}, ResultReceived(t, mark) PROVE IterInv'
  BY <1>4 DEF ResultReceived, Take
<1>5. ASSUME MarkResult PROVE IterInv'
  BY <1>5 DEF MarkResult, Dies, Return, Goto
<1>6. ASSUME ResultReady PROVE IterInv'
  BY <1>6 DEF ResultReady, Dies, Return, Goto
<1>7. ASSUME NEW t \in Trucks, DecisionReceived(t) PROVE IterInv'
  BY <1>7 DEF DecisionReceived, Take
<1>8. ASSUME MarkDecided PROVE IterInv'
  BY <1>8 DEF MarkDecided, Goto
<1>9. ASSUME WriteDecided PROVE IterInv'
  BY <1>9 DEF WriteDecided, Dies, Return, Goto
<1>10. ASSUME SettleDecision PROVE IterInv'
  BY <1>10 DEF SettleDecision, ScheduleReset, Remove, Return
<1>11. ASSUME NEW t \in Trucks, Expire(t) PROVE IterInv'
  BY <1>11 DEF Expire
<1>12. ASSUME CheckTimeouts PROVE IterInv'
  BY <1>12 DEF CheckTimeouts, Overdue, Goto
<1>13. ASSUME NEW t \in Trucks, HandleTimeout(t) PROVE IterInv'
  BY <1>13 DEF HandleTimeout, ScheduleReset, Remove, Goto
<1>14. ASSUME TimeoutsHandled PROVE IterInv'
  BY <1>14 DEF TimeoutsHandled, Goto
<1>15. ASSUME NEW th \in Threads, ScaleDownTry(th) PROVE IterInv'
  BY <1>15 DEF ScaleDownTry
<1>16. ASSUME NEW th \in Threads, NEW t \in Trucks, VisitEntry(th, t) PROVE IterInv'
  BY <1>16 DEF VisitEntry, Take
<1>17. ASSUME NEW th \in Threads, NoEntryLeft(th) PROVE IterInv'
  BY <1>17 DEF NoEntryLeft, Goto
<1>18. ASSUME NEW th \in Threads, DictionaryChanged(th) PROVE IterInv'
  BY <1>18 DEF DictionaryChanged, Dies, Return
<1>19. ASSUME NEW th \in Threads, CheckEntry(th) PROVE IterInv'
  BY <1>19 DEF CheckEntry, StillNeeds, Return, Goto
<1>20. ASSUME NEW th \in Threads, ScaleDownCall(th) PROVE IterInv'
  BY <1>20 DEF ScaleDownCall, CallScalingApi, Goto
<1>21. ASSUME NEW th \in Threads, ScaleDownFlag(th) PROVE IterInv'
  BY <1>21 DEF ScaleDownFlag, Return
<1>22. ASSUME NEW t \in Trucks, PublishReset(t) PROVE IterInv'
  BY <1>22 DEF PublishReset
<1>23. ASSUME NEW th \in Threads, PublishFails(th) PROVE IterInv'
  BY <1>23 DEF PublishFails, Dies, Return
<1>24. ASSUME Restart PROVE IterInv'
  BY <1>24 DEF Restart, Fresh
<1>25. ASSUME Crash PROVE IterInv'
  BY <1>25 DEF Crash, Fresh
<1>26. CASE UNCHANGED vars
  BY <1>26 DEF vars
<1> QED
  BY <1>1, <1>2, <1>3, <1>4, <1>5, <1>6, <1>7, <1>8, <1>9, <1>10, <1>11, <1>12,
     <1>13, <1>14, <1>15, <1>16, <1>17, <1>18, <1>19, <1>20, <1>21, <1>22, <1>23,
     <1>24, <1>25, <1>26
  DEF Next, Messages, Main, Timer, ScaleDown

\* A step keeps the slice for the trucks that wait.
LEMMA ServiceStep == Inv /\ [Next]_vars => ServiceInv'
<1> SUFFICES ASSUME Inv, [Next]_vars PROVE ServiceInv'
  OBVIOUS
<1> USE DEF Inv, TypeOK, LocalInv, ServiceInv, FlagTrue, Serving, Waiting, Complete, Threads, Home
<1>1. ASSUME NEW t \in Trucks, TruckDetected(t) PROVE ServiceInv'
  BY <1>1 DEF TruckDetected, Take
<1>2. ASSUME ScaleUpTry PROVE ServiceInv'
  BY <1>2 DEF ScaleUpTry, Goto, Return
<1>3. ASSUME ScaleUpCall PROVE ServiceInv'
  <2>1. failures' = 0 => failures = 0 /\ slice' = TRUE
    BY <1>3, CallTyped DEF ScaleUpCall
  <2> QED
    BY <1>3, <2>1 DEF ScaleUpCall, Return
<1>4. ASSUME NEW t \in Trucks, NEW mark \in {"markLp", "markHz"}, ResultReceived(t, mark) PROVE ServiceInv'
  BY <1>4 DEF ResultReceived, Take
<1>5. ASSUME MarkResult PROVE ServiceInv'
  BY <1>5 DEF MarkResult, Dies, Return, Goto
<1>6. ASSUME ResultReady PROVE ServiceInv'
  BY <1>6 DEF ResultReady, Dies, Return, Goto
<1>7. ASSUME NEW t \in Trucks, DecisionReceived(t) PROVE ServiceInv'
  BY <1>7 DEF DecisionReceived, Take
<1>8. ASSUME MarkDecided PROVE ServiceInv'
  BY <1>8 DEF MarkDecided, Goto
<1>9. ASSUME WriteDecided PROVE ServiceInv'
  BY <1>9 DEF WriteDecided, Dies, Return, Goto
<1>10. ASSUME SettleDecision PROVE ServiceInv'
  BY <1>10 DEF SettleDecision, ScheduleReset, Remove, Return
<1>11. ASSUME NEW t \in Trucks, Expire(t) PROVE ServiceInv'
  BY <1>11 DEF Expire
<1>12. ASSUME CheckTimeouts PROVE ServiceInv'
  BY <1>12 DEF CheckTimeouts, Overdue, Goto
<1>13. ASSUME NEW t \in Trucks, HandleTimeout(t) PROVE ServiceInv'
  BY <1>13 DEF HandleTimeout, ScheduleReset, Remove, Goto
<1>14. ASSUME TimeoutsHandled PROVE ServiceInv'
  BY <1>14 DEF TimeoutsHandled, Goto
<1>15. ASSUME NEW th \in Threads, ScaleDownTry(th) PROVE ServiceInv'
  BY <1>15 DEF ScaleDownTry
<1>16. ASSUME NEW th \in Threads, NEW t \in Trucks, VisitEntry(th, t) PROVE ServiceInv'
  BY <1>16 DEF VisitEntry, Take
<1>17. ASSUME NEW th \in Threads, NoEntryLeft(th) PROVE ServiceInv'
  <2>1. \A t \in Trucks \ overlooked' : ~Waiting(t)
    BY <1>17 DEF NoEntryLeft, IterInv, Passed
  <2>2. failures = 0 => FlagTrue'
    BY <1>17 DEF NoEntryLeft, Goto
  <2> QED
    BY <1>17, <2>1, <2>2 DEF NoEntryLeft
<1>18. ASSUME NEW th \in Threads, DictionaryChanged(th) PROVE ServiceInv'
  BY <1>18 DEF DictionaryChanged, Dies, Return
<1>19. ASSUME NEW th \in Threads, CheckEntry(th) PROVE ServiceInv'
  BY <1>19 DEF CheckEntry, StillNeeds, Return, Goto
<1>20. ASSUME NEW th \in Threads, ScaleDownCall(th) PROVE ServiceInv'
  <2>1. failures' = 0 => failures = 0
    BY <1>20, CallTyped DEF ScaleDownCall
  <2>2. pc[th] = "downCall" /\ pc' = [pc EXCEPT ![th] = "downFlag"]
    BY <1>20 DEF ScaleDownCall, Goto
  <2>3. FlagTrue'
    BY <2>2
  <2>4. failures = 0 => \A t \in Trucks \ overlooked : ~Waiting(t)
    BY <2>2
  <2> QED
    BY <1>20, <2>1, <2>3, <2>4 DEF ScaleDownCall
<1>21. ASSUME NEW th \in Threads, ScaleDownFlag(th) PROVE ServiceInv'
  BY <1>21 DEF ScaleDownFlag, Return
<1>22. ASSUME NEW t \in Trucks, PublishReset(t) PROVE ServiceInv'
  BY <1>22 DEF PublishReset
<1>23. ASSUME NEW th \in Threads, PublishFails(th) PROVE ServiceInv'
  BY <1>23 DEF PublishFails, Dies, Return
<1>24. ASSUME Restart PROVE ServiceInv'
  BY <1>24 DEF Restart, Fresh
<1>25. ASSUME Crash PROVE ServiceInv'
  BY <1>25 DEF Crash, Fresh
<1>26. CASE UNCHANGED vars
  BY <1>26 DEF vars
<1> QED
  BY <1>1, <1>2, <1>3, <1>4, <1>5, <1>6, <1>7, <1>8, <1>9, <1>10, <1>11, <1>12,
     <1>13, <1>14, <1>15, <1>16, <1>17, <1>18, <1>19, <1>20, <1>21, <1>22, <1>23,
     <1>24, <1>25, <1>26
  DEF Next, Messages, Main, Timer, ScaleDown

\* A step preserves the number of resets.
LEMMA ResetStep == Inv /\ [Next]_vars => ResetInv'
<1> SUFFICES ASSUME Inv, [Next]_vars PROVE ResetInv'
  OBVIOUS
<1> USE DEF Inv, TypeOK, LocalInv, ResetInv, Total, BeingDecided, Threads, Home
<1>1. ASSUME NEW t \in Trucks, TruckDetected(t) PROVE ResetInv'
  BY <1>1 DEF TruckDetected, Take
<1>2. ASSUME ScaleUpTry PROVE ResetInv'
  BY <1>2 DEF ScaleUpTry, Goto, Return
<1>3. ASSUME ScaleUpCall PROVE ResetInv'
  BY <1>3 DEF ScaleUpCall, CallScalingApi, Return
<1>4. ASSUME NEW t \in Trucks, NEW mark \in {"markLp", "markHz"}, ResultReceived(t, mark) PROVE ResetInv'
  BY <1>4 DEF ResultReceived, Take
<1>5. ASSUME MarkResult PROVE ResetInv'
  BY <1>5 DEF MarkResult, Dies, Return, Goto
<1>6. ASSUME ResultReady PROVE ResetInv'
  BY <1>6 DEF ResultReady, Dies, Return, Goto
<1>7. ASSUME NEW t \in Trucks, DecisionReceived(t) PROVE ResetInv'
  BY <1>7 DEF DecisionReceived, Take
<1>8. ASSUME MarkDecided PROVE ResetInv'
  BY <1>8 DEF MarkDecided, Goto
<1>9. ASSUME WriteDecided PROVE ResetInv'
  BY <1>9 DEF WriteDecided, Dies, Return, Goto
<1>10. ASSUME SettleDecision PROVE ResetInv'
  <2>1. PICK u \in Trucks : u = cur["main"] /\ BeingDecided(u) /\ u \in detected
    BY <1>10, VBrainAssumption DEF SettleDecision, HandSteps
  <2>2. Total(u) <= 1 /\ (Total(u) = 1 => u \in raced)
    BY <2>1
  <2>3. sleeping' = [sleeping EXCEPT ![u] = @ + 1] /\ UNCHANGED <<resets, raced, detected>>
        /\ tracked' = tracked \ {u} /\ cur' = [cur EXCEPT !["main"] = None]
    BY <1>10, <2>1 DEF SettleDecision, ScheduleReset, Remove, Return
  <2>4. Total(u)' = Total(u) + 1
    BY <2>1, <2>3
  <2>5. \A t \in Trucks \ {u} : Total(t)' = Total(t)
    BY <2>3
  <2>6. \A t \in Trucks : ~BeingDecided(t)'
    BY <2>3, VBrainAssumption
  <2>7. \A t \in Trucks \ {u} :
          /\ t \in tracked' \/ t \notin detected' => Total(t)' = 0
          /\ Total(t)' <= IF t \in raced' THEN 2 ELSE 1
    BY <2>3, <2>5
  <2>8. u \notin tracked' /\ u \in detected' /\ Total(u)' <= IF u \in raced' THEN 2 ELSE 1
    BY <2>1, <2>2, <2>3, <2>4
  <2> QED
    BY <2>6, <2>7, <2>8
<1>11. ASSUME NEW t \in Trucks, Expire(t) PROVE ResetInv'
  BY <1>11 DEF Expire
<1>12. ASSUME CheckTimeouts PROVE ResetInv'
  BY <1>12 DEF CheckTimeouts, Overdue, Goto
<1>13. ASSUME NEW t \in Trucks, HandleTimeout(t) PROVE ResetInv'
  BY <1>13 DEF HandleTimeout, ScheduleReset, Remove, Goto
<1>14. ASSUME TimeoutsHandled PROVE ResetInv'
  BY <1>14 DEF TimeoutsHandled, Goto
<1>15. ASSUME NEW th \in Threads, ScaleDownTry(th) PROVE ResetInv'
  BY <1>15 DEF ScaleDownTry
<1>16. ASSUME NEW th \in Threads, NEW t \in Trucks, VisitEntry(th, t) PROVE ResetInv'
  BY <1>16 DEF VisitEntry, Take
<1>17. ASSUME NEW th \in Threads, NoEntryLeft(th) PROVE ResetInv'
  BY <1>17 DEF NoEntryLeft, Goto
<1>18. ASSUME NEW th \in Threads, DictionaryChanged(th) PROVE ResetInv'
  BY <1>18 DEF DictionaryChanged, Dies, Return
<1>19. ASSUME NEW th \in Threads, CheckEntry(th) PROVE ResetInv'
  BY <1>19 DEF CheckEntry, StillNeeds, Return, Goto
<1>20. ASSUME NEW th \in Threads, ScaleDownCall(th) PROVE ResetInv'
  BY <1>20 DEF ScaleDownCall, CallScalingApi, Goto
<1>21. ASSUME NEW th \in Threads, ScaleDownFlag(th) PROVE ResetInv'
  BY <1>21 DEF ScaleDownFlag, Return
<1>22. ASSUME NEW t \in Trucks, PublishReset(t) PROVE ResetInv'
  BY <1>22 DEF PublishReset
<1>23. ASSUME NEW th \in Threads, PublishFails(th) PROVE ResetInv'
  BY <1>23 DEF PublishFails, Dies, Return
<1>24. ASSUME Restart PROVE ResetInv'
  BY <1>24 DEF Restart, Fresh
<1>25. ASSUME Crash PROVE ResetInv'
  BY <1>25 DEF Crash, Fresh
<1>26. CASE UNCHANGED vars
  BY <1>26 DEF vars
<1> QED
  BY <1>1, <1>2, <1>3, <1>4, <1>5, <1>6, <1>7, <1>8, <1>9, <1>10, <1>11, <1>12,
     <1>13, <1>14, <1>15, <1>16, <1>17, <1>18, <1>19, <1>20, <1>21, <1>22, <1>23,
     <1>24, <1>25, <1>26
  DEF Next, Messages, Main, Timer, ScaleDown

-----------------------------------------------------------------------------
(* Theorems.                                                                *)

\* The inductive invariant of V-Brain.
THEOREM Invariance == Spec => []Inv
<1>1. Inv /\ [Next]_vars => Inv'
  BY TypeStep, LocalStep, IterStep, ServiceStep, ResetStep DEF Inv
<1> QED
  BY InitInv, <1>1, PTL DEF Spec

\* Correlator, flag, threads and slice keep their types.
THEOREM TypeCorrect == Spec => []TypeOK
<1>1. Inv => TypeOK
  BY DEF Inv
<1> QED
  BY Invariance, <1>1, PTL

\* A truck that waits for its results keeps the slice, unless a call failed or it
\* was overlooked by the timer's scale-down.
THEOREM WaitingTruckServed == Spec => []SliceUpWhileNeeded
<1>1. Inv => SliceUpWhileNeeded
  BY DEF Inv, ServiceInv, Serving, SliceUpWhileNeeded, Served
<1> QED
  BY Invariance, <1>1, PTL

\* Agent A is reset once per truck, unless decision and timeout raced.
THEOREM ResetOnce == Spec => []OneResetUnlessRaced
<1>1. Inv => OneResetUnlessRaced
  BY DEF Inv, ResetInv, Total, OneResetUnlessRaced
<1> QED
  BY Invariance, <1>1, PTL

=============================================================================
