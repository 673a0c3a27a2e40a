---------------------------- MODULE AgentsProofs ----------------------------
(***************************************************************************)
(* For any threads, alphabets, receivers and numbers of trucks, frames and *)
(* messages: an agent analyses frames of its own truck, a text has no gap, *)
(* more colour only confirms a plate, a gateway posts no message twice,    *)
(* and a truck's first reset finds Agent A waiting for it, or beyond it.   *)
(* The specification is the sum of the five modules that the run checks:   *)
(* it implements each of them.                                             *)
(***************************************************************************)
EXTENDS MCAgents, FiniteSetTheorems, WellFoundedInduction, TLAPS

-----------------------------------------------------------------------------
(* Agents B and C and their video *)

\* A message consumed is one of a truck detected, and while the agent detects there are
\* frames left to analyse.
StreamCounts ==
  /\ cycle + Len(topic) <= trucks
  /\ phase = "detect" => Len(analysed) < MaxFrames

\* What a thread holds, what is queued and what is analysed was read in this cycle; between
\* two trucks nothing is queued and no thread runs.
CleanStream ==
  IF phase \in {"detect", "stop"}
  THEN /\ analysed \in Seq({cycle}) /\ frames \in Seq({cycle})
       /\ \A t \in Threads : thread[t] = "put" => held[t] = cycle
  ELSE /\ ~running /\ frames = <<>>
       /\ \A t \in Threads : thread[t] = "none"

StreamInv ==
  /\ Stream!TypeOK /\ StreamCounts
  /\ ~leftOn /\ ~outlived => CleanStream

\* The bounds are positive numbers.
LEMMA StreamBounds ==
  ASSUME Stream!StreamAgentAssumption
  PROVE /\ MaxTrucks \in Nat \ {0} /\ MaxFrames \in Nat \ {0}
        /\ BufferSize \in Nat \ {0} /\ None \notin Threads
  BY DEF Stream!StreamAgentAssumption

\* An empty queue holds members of any set.
LEMMA NothingQueued == \A S : <<>> \in Seq(S) /\ Len(<<>>) = 0
  OBVIOUS

\* The stream is off to begin with.
LEMMA StreamInit ==
  ASSUME Stream!StreamAgentAssumption
  PROVE Stream!Init => StreamInv
<1> SUFFICES ASSUME Stream!Init PROVE StreamInv
  OBVIOUS
<1> USE StreamBounds, NothingQueued DEF Stream!Init, Stream!TypeOK, Stream!Cycles
<1>1. /\ topic \in Seq(1 .. MaxTrucks) /\ trucks \in 0 .. MaxTrucks
      /\ phase \in {"idle", "detect", "stop", "publish"}
      /\ cycle \in 0 .. MaxTrucks /\ truck \in 0 .. MaxTrucks
  OBVIOUS
<1>2. /\ analysed \in Seq(0 .. MaxTrucks) /\ Len(analysed) <= MaxFrames
      /\ results \subseteq 0 .. MaxTrucks /\ uploads \in 0 .. BufferSize
  OBVIOUS
<1>3. /\ latest \in Threads \cup {None} /\ frames \in Seq(0 .. MaxTrucks)
      /\ thread \in [Threads -> {"none", "connect", "read", "put"}]
      /\ held \in [Threads -> 0 .. MaxTrucks]
  OBVIOUS
<1>5. {running, leftOn, outlived} \subseteq BOOLEAN
  OBVIOUS
<1>4. StreamCounts /\ CleanStream
  BY DEF StreamCounts, CleanStream
<1> QED
  BY <1>1, <1>2, <1>3, <1>4, <1>5 DEF StreamInv

\* A background thread reads for the cycle it runs in, and runs only while there is one.
LEMMA ThreadsKeep ==
  ASSUME StreamInv, NEW t \in Threads,
         \/ Stream!Opens(t) \/ Stream!Reconnects(t) \/ Stream!ReadsFrame(t)
         \/ Stream!QueuesFrame(t) \/ Stream!Ends(t), Stream!StreamAgentAssumption
  PROVE StreamInv'
<1> USE DEF StreamInv, Stream!TypeOK, Stream!Cycles, Stream!agentVars, Stream!Step, StreamCounts
<1>1. CASE Stream!Opens(t)
  BY <1>1 DEF Stream!Opens, CleanStream
<1>2. CASE Stream!Reconnects(t)
  BY <1>2 DEF Stream!Reconnects, CleanStream
<1>3. CASE Stream!ReadsFrame(t)
  BY <1>3 DEF Stream!ReadsFrame, CleanStream
<1>4. CASE Stream!QueuesFrame(t)
  <2>1. /\ thread[t] = "put" /\ frames' = Append(frames, held[t])
        /\ held' = [held EXCEPT ![t] = 0] /\ thread' = [thread EXCEPT ![t] = "read"]
        /\ UNCHANGED <<Stream!agentVars, running, latest, leftOn, outlived>>
    BY <1>4 DEF Stream!QueuesFrame
  <2>2. frames' \in Seq(0 .. MaxTrucks)
    BY <2>1
  <2>3. /\ held' \in [Threads -> 0 .. MaxTrucks]
        /\ thread' \in [Threads -> {"none", "connect", "read", "put"}]
    BY <2>1, StreamBounds
  <2>4. CleanStream => CleanStream'
    BY <2>1 DEF CleanStream
  <2> QED
    BY <2>1, <2>2, <2>3, <2>4
<1>5. CASE Stream!Ends(t)
  BY <1>5 DEF Stream!Ends, CleanStream
<1> QED
  BY <1>1, <1>2, <1>3, <1>4, <1>5

\* The agent takes a truck, analyses its frames, and empties the queue when it releases the
\* stream; what it could not stop it has on record.
LEMMA AgentKeeps ==
  ASSUME Stream!StreamAgentAssumption, StreamInv,
         \/ Stream!Detected \/ Stream!Consume \/ Stream!Analyse \/ Stream!DetectionFails
         \/ Stream!BeginRelease \/ Stream!EndRelease \/ Stream!Publish \/ Stream!PublishFails
         \/ Stream!IdleUpload \/ Stream!Restart
  PROVE StreamInv'
<1> USE StreamBounds, NothingQueued
        DEF StreamInv, Stream!TypeOK, Stream!Cycles, Stream!agentVars, Stream!streamVars,
            StreamCounts
<1>1. CASE Stream!Detected
  <2>1. /\ trucks < MaxTrucks /\ trucks' = trucks + 1 /\ topic' = Append(topic, trucks')
        /\ UNCHANGED <<phase, cycle, truck, analysed, results, uploads, Stream!streamVars,
                       leftOn, outlived>>
    BY <1>1 DEF Stream!Detected
  <2>2. trucks' \in 1 .. MaxTrucks /\ topic' \in Seq(1 .. MaxTrucks)
        /\ Len(topic') = Len(topic) + 1
    BY <2>1
  <2> QED
    BY <2>1, <2>2 DEF CleanStream
<1>2. CASE Stream!Consume
  <2>1. /\ phase = "idle" /\ topic # <<>> /\ truck' = Head(topic) /\ topic' = Tail(topic)
        /\ cycle' = cycle + 1 /\ analysed' = <<>> /\ phase' = "detect"
        /\ UNCHANGED <<trucks, results, uploads, held, frames, leftOn, outlived>>
    BY <1>2 DEF Stream!Consume
  <2>2. /\ truck' \in 1 .. MaxTrucks /\ topic' \in Seq(1 .. MaxTrucks)
        /\ Len(topic') = Len(topic) - 1 /\ Len(topic) > 0
    BY <2>1
  <2>3. /\ running' \in BOOLEAN /\ latest' \in Threads \cup {None}
        /\ thread' \in [Threads -> {"none", "connect", "read", "put"}]
        /\ \A t \in Threads : thread'[t] = "put" => thread[t] = "put"
    BY <1>2 DEF Stream!Consume, Stream!Connect, Stream!Step
  <2>4. ~leftOn /\ ~outlived => CleanStream'
    BY <2>1, <2>3 DEF CleanStream
  <2>5. /\ cycle' \in 0 .. MaxTrucks /\ cycle' + Len(topic') <= trucks'
        /\ analysed' \in Seq(0 .. MaxTrucks) /\ Len(analysed') = 0
    <3>1. analysed' \in Seq(0 .. MaxTrucks) /\ Len(analysed') = 0
      BY <2>1
    <3>2. cycle' + Len(topic') <= trucks' /\ Len(topic') \in Nat
      BY <2>1, <2>2
    <3>3. cycle' \in Nat /\ trucks' \in 0 .. MaxTrucks /\ MaxTrucks \in Nat
      BY <2>1
    <3>4. cycle' \in 0 .. MaxTrucks
      BY ONLY <3>2, <3>3
    <3> QED
      BY <3>1, <3>2, <3>4
  <2>6. /\ phase' \in {"idle", "detect", "stop", "publish"} /\ truck' \in 0 .. MaxTrucks
        /\ trucks' \in 0 .. MaxTrucks /\ results' \subseteq 0 .. MaxTrucks
        /\ uploads' \in 0 .. BufferSize
    BY <2>1, <2>2
  <2>7. held' \in [Threads -> 0 .. MaxTrucks] /\ frames' \in Seq(0 .. MaxTrucks)
    BY <2>1
  <2>8. leftOn' \in BOOLEAN /\ outlived' \in BOOLEAN
    BY <2>1
  <2>9. Len(analysed') < MaxFrames /\ Len(analysed') <= MaxFrames
    BY <2>5
  <2> QED
    BY ONLY <2>1, <2>2, <2>3, <2>4, <2>5, <2>6, <2>7, <2>8, <2>9
       DEF StreamInv, Stream!TypeOK, Stream!Cycles, StreamCounts
<1>3. CASE Stream!Analyse
  <2>1. /\ phase = "detect" /\ frames # <<>>
        /\ frames' = Tail(frames) /\ analysed' = Append(analysed, Head(frames))
        /\ phase' \in {"detect", "stop"} /\ (phase' = "detect" => Len(analysed') < MaxFrames)
        /\ UNCHANGED <<topic, trucks, cycle, truck, results, running, latest, thread, held,
                       leftOn, outlived>>
    BY <1>3 DEF Stream!Analyse
  <2>2. uploads' \in 0 .. BufferSize
    BY <1>3 DEF Stream!Analyse, Stream!MayEnqueue
  <2>3. /\ frames' \in Seq(0 .. MaxTrucks) /\ analysed' \in Seq(0 .. MaxTrucks)
        /\ Len(analysed') = Len(analysed) + 1
    BY <2>1
  <2>4. CleanStream => CleanStream'
    <3>1. ASSUME analysed \in Seq({cycle}), frames \in Seq({cycle})
          PROVE analysed' \in Seq({cycle}) /\ frames' \in Seq({cycle})
      BY <2>1, <3>1
    <3> QED
      BY <2>1, <3>1 DEF CleanStream
  <2>5. Len(analysed') <= MaxFrames
    BY <2>1, <2>3
  <2>6. Stream!TypeOK'
    BY <2>1, <2>2, <2>3, <2>5
  <2> QED
    BY <2>1, <2>4, <2>6
<1>4. CASE Stream!DetectionFails
  BY <1>4 DEF Stream!DetectionFails, CleanStream
<1>5. CASE Stream!BeginRelease
  BY <1>5 DEF Stream!BeginRelease, CleanStream
<1>6. CASE Stream!EndRelease
  BY <1>6 DEF Stream!EndRelease, Stream!EmptyQueue, CleanStream
<1>7. CASE Stream!Publish
  BY <1>7 DEF Stream!Publish, CleanStream
<1>8. CASE Stream!PublishFails
  BY <1>8 DEF Stream!PublishFails, CleanStream
<1>9. CASE Stream!IdleUpload
  BY <1>9 DEF Stream!IdleUpload, CleanStream
<1>10. CASE Stream!Restart
  <2>1. /\ topic' = <<>> /\ phase' = "idle" /\ analysed' = <<>> /\ uploads' = 0
        /\ running' = FALSE /\ latest' = None /\ leftOn' = FALSE /\ outlived' = FALSE
        /\ thread' = [t \in Threads |-> "none"] /\ held' = [t \in Threads |-> 0]
        /\ frames' = <<>> /\ UNCHANGED <<trucks, cycle, truck, results>>
    BY <1>10 DEF Stream!Restart
  <2>2. /\ topic' \in Seq(1 .. MaxTrucks) /\ Len(topic') = 0
        /\ analysed' \in Seq(0 .. MaxTrucks) /\ Len(analysed') = 0
        /\ frames' \in Seq(0 .. MaxTrucks)
    BY <2>1
  <2>3. /\ thread' \in [Threads -> {"none", "connect", "read", "put"}]
        /\ held' \in [Threads -> 0 .. MaxTrucks]
    BY <2>1
  <2>4. {running', leftOn', outlived'} \subseteq BOOLEAN
    BY <2>1
  <2>5. CleanStream'
    BY <2>1 DEF CleanStream
  <2> QED
    BY <2>1, <2>2, <2>3, <2>4, <2>5
<1> QED
  BY <1>1, <1>2, <1>3, <1>4, <1>5, <1>6, <1>7, <1>8, <1>9, <1>10

\* The invariant holds however threads, failures and restarts interleave.
THEOREM StreamInvariant ==
  ASSUME Stream!StreamAgentAssumption
  PROVE Stream!Spec => []StreamInv
<1>1. StreamInv /\ [Stream!Next]_(Stream!vars) => StreamInv'
  <2>1. CASE UNCHANGED Stream!vars
    BY <2>1 DEF Stream!vars, Stream!agentVars, Stream!streamVars, StreamInv, Stream!TypeOK,
       StreamCounts, CleanStream
  <2> QED
    BY <2>1, ThreadsKeep, AgentKeeps DEF Stream!Next
<1> QED
  BY StreamInit, <1>1, PTL DEF Stream!Spec

\* What is read for a truck is read from frames taken for it, unless an exception has left
\* the stream on or a thread has outlived its release (StreamManager.release, BaseAgent).
THEOREM FramesFollowTrucks ==
  ASSUME Stream!StreamAgentAssumption
  PROVE Stream!Spec => []FramesAreOfThisTruck
<1>1. StreamInv => FramesAreOfThisTruck
  BY DEF StreamInv, CleanStream, FramesAreOfThisTruck, Stream!FramesAreOfThisTruck, Stream!ToSet
<1> QED
  BY StreamInvariant, <1>1, PTL

-----------------------------------------------------------------------------
(* Agent A and the way to V-Brain and back *)

\* What has arrived was detected, and what is reset has arrived.
OnlyDetected ==
  /\ \A i \in DOMAIN arrived : arrived[i] <= detected
  /\ \A k \in DOMAIN resets : resets[k] <= detected

\* Each truck is awaited, was gone on without, or has a reset among those consumed.
Settled ==
  \A t \in 1 .. detected :
    \/ t \in abandoned
    \/ t = detected /\ mode = "awaiting"
    \/ \E j \in 1 .. aPos : resets[back[j]] = t

LoopInv ==
  /\ Loop!TypeOK /\ OnlyDetected /\ Settled
  /\ mode = "awaiting" => detected > 0

\* Sequences and positions as the proofs use them.
LoopShape ==
  /\ MaxTrucks \in Nat /\ detected \in 0 .. MaxTrucks
  /\ arrived \in Seq(1 .. MaxTrucks) /\ resets \in Seq(1 .. MaxTrucks)
  /\ Len(resets) \in Nat /\ DOMAIN resets = 1 .. Len(resets)
  /\ \A k \in 1 .. Len(resets) : resets[k] \in 1 .. detected
  /\ back \in Seq(1 .. Len(resets)) /\ Len(back) \in Nat /\ DOMAIN back = 1 .. Len(back)
  /\ \A j \in 1 .. Len(back) : back[j] \in 1 .. Len(resets)
  /\ aPos \in 0 .. Len(back)
  /\ mode \in {"scanning", "awaiting"} /\ (mode = "awaiting" => detected > 0)
  /\ abandoned \subseteq 1 .. MaxTrucks

LEMMA LoopShaped ==
  ASSUME Loop!GateLoopAssumption, LoopInv
  PROVE LoopShape
<1>1. /\ MaxTrucks \in Nat /\ detected \in 0 .. MaxTrucks
      /\ arrived \in Seq(1 .. MaxTrucks) /\ resets \in Seq(1 .. MaxTrucks)
      /\ back \in Seq(1 .. Len(resets)) /\ aPos \in 0 .. Len(back)
      /\ mode \in {"scanning", "awaiting"} /\ (mode = "awaiting" => detected > 0)
      /\ abandoned \subseteq 1 .. MaxTrucks
  BY DEF Loop!GateLoopAssumption, LoopInv, Loop!TypeOK, Loop!Trucks
<1>2. /\ Len(resets) \in Nat /\ DOMAIN resets = 1 .. Len(resets)
      /\ Len(back) \in Nat /\ DOMAIN back = 1 .. Len(back)
  BY <1>1
<1>3. \A k \in 1 .. Len(resets) : resets[k] \in 1 .. detected
  <2> TAKE k \in 1 .. Len(resets)
  <2>1. resets[k] \in 1 .. MaxTrucks
    BY <1>1, <1>2
  <2>2. resets[k] <= detected
    BY <1>1, <1>2 DEF LoopInv, OnlyDetected
  <2> QED
    BY <1>1, <2>1, <2>2
<1>4. \A j \in 1 .. Len(back) : back[j] \in 1 .. Len(resets)
  BY <1>1
<1> QED
  BY <1>1, <1>2, <1>3, <1>4 DEF LoopShape

\* Nothing is detected to begin with.
LEMMA LoopInit ==
  ASSUME Loop!GateLoopAssumption
  PROVE Loop!Init => LoopInv
<1> SUFFICES ASSUME Loop!Init PROVE LoopInv
  OBVIOUS
<1> USE DEF Loop!GateLoopAssumption, Loop!Init
<1>1. /\ detected = 0 /\ aPos = 0 /\ mode = "scanning" /\ MaxTrucks \in Nat
      /\ arrived = <<>> /\ resets = <<>> /\ back = <<>> /\ abandoned = {}
  OBVIOUS
<1>2. Loop!TypeOK
  BY <1>1 DEF Loop!TypeOK, Loop!Trucks
<1> QED
  BY <1>1, <1>2 DEF LoopInv, OnlyDetected, Settled

\* The next truck is published and awaited.
LEMMA DetectKeeps ==
  ASSUME Loop!GateLoopAssumption, LoopInv, Loop!Detect
  PROVE LoopInv'
<1>0. LoopShape
  BY LoopShaped
<1>1. /\ mode = "scanning" /\ mode' = "awaiting"
      /\ detected < MaxTrucks /\ detected' = detected + 1
      /\ UNCHANGED <<arrived, resets, back, aPos, abandoned>>
  BY DEF Loop!Detect
<1>2. detected \in Nat /\ MaxTrucks \in Nat /\ detected' \in 0 .. MaxTrucks /\ detected' > 0
  BY <1>0, <1>1 DEF LoopShape
<1>3. Loop!TypeOK'
  BY <1>1, <1>2 DEF LoopInv, Loop!TypeOK, Loop!Trucks
<1>4. OnlyDetected'
  <2>1. \A i \in DOMAIN arrived : arrived[i] \in Nat /\ arrived[i] <= detected
    BY <1>0 DEF LoopInv, OnlyDetected, LoopShape
  <2>2. \A i \in DOMAIN resets : resets[i] \in Nat /\ resets[i] <= detected
    BY <1>0 DEF LoopInv, OnlyDetected, LoopShape
  <2> QED
    BY <1>1, <1>2, <2>1, <2>2 DEF OnlyDetected
<1>5. Settled'
  <2> SUFFICES ASSUME NEW t \in 1 .. detected', t # detected'
               PROVE t \in abandoned \/ \E j \in 1 .. aPos : resets[back[j]] = t
    BY <1>1 DEF Settled
  <2>1. t \in 1 .. detected
    BY <1>1, <1>2
  <2> QED
    BY <1>1, <2>1 DEF LoopInv, Settled
<1> QED
  BY <1>1, <1>2, <1>3, <1>4, <1>5 DEF LoopInv

\* Agent A consumes resets in order; one of another truck leaves the awaited one behind.
LEMMA ConsumeKeeps ==
  ASSUME Loop!GateLoopAssumption, LoopInv,
         Loop!ResetReceived \/ Loop!KeepAlive \/ Loop!DecisionTimeout \/ Loop!Restart
  PROVE LoopInv'
<1>0. LoopShape
  BY LoopShaped
<1>a. aPos \in Nat /\ Len(back) \in Nat /\ aPos <= Len(back)
  BY <1>0 DEF LoopShape
<1> DEFINE Went == abandoned' = abandoned \cup {detected}
<1>1. /\ mode' = "scanning"
      /\ UNCHANGED <<detected, arrived, resets, back>>
  BY DEF Loop!ResetReceived, Loop!KeepAlive, Loop!DecisionTimeout, Loop!Restart
<1>2. /\ aPos <= aPos' /\ aPos' \in 0 .. Len(back)
      /\ \/ abandoned' = abandoned
         \/ mode = "awaiting" /\ Went
      /\ mode = "awaiting" => \/ Went
                              \/ aPos' \in 1 .. Len(back) /\ resets[back[aPos']] = detected
  <2>1. CASE Loop!ResetReceived
    <3>1. aPos' = aPos + 1 /\ aPos < Len(back) /\ mode = "awaiting"
      BY <2>1 DEF Loop!ResetReceived, Loop!Received
    <3>2. CASE resets[back[aPos']] = detected
      BY <1>a, <2>1, <3>1, <3>2 DEF Loop!ResetReceived, Loop!ResetAt
    <3>3. CASE resets[back[aPos']] # detected
      BY <1>a, <2>1, <3>1, <3>3 DEF Loop!ResetReceived, Loop!ResetAt, Loop!LeftBehind
    <3> QED
      BY <3>2, <3>3
  <2>2. CASE Loop!KeepAlive
    BY <1>a, <2>2 DEF Loop!KeepAlive, Loop!Received
  <2>3. CASE Loop!DecisionTimeout
    BY <1>a, <2>3 DEF Loop!DecisionTimeout, Loop!GivesUp, Loop!LeftBehind
  <2>4. CASE Loop!Restart
    BY <1>a, <2>4 DEF Loop!Restart, Loop!StartPosition, Loop!LeftBehind
  <2> QED
    BY <2>1, <2>2, <2>3, <2>4
<1>3. Settled'
  <2> SUFFICES ASSUME NEW t \in 1 .. detected, t \notin abandoned'
               PROVE \E j \in 1 .. aPos' : resets[back[j]] = t
    BY <1>1 DEF Settled
  <2>1. CASE t = detected /\ mode = "awaiting"
    <3>1. aPos' \in 1 .. aPos' /\ resets[back[aPos']] = t
      BY <1>2, <2>1
    <3> QED
      BY <3>1
  <2>2. CASE ~(t = detected /\ mode = "awaiting")
    <3>1. t \notin abandoned
      BY <1>2
    <3>2. PICK j \in 1 .. aPos : resets[back[j]] = t
      BY <2>2, <3>1 DEF LoopInv, Settled
    <3>3. j \in 1 .. aPos'
      BY <1>a, <1>2
    <3> QED
      BY <3>2, <3>3
  <2> QED
    BY <2>1, <2>2
<1>4. abandoned' \subseteq 1 .. MaxTrucks
  <2>1. mode = "awaiting" => detected \in 1 .. MaxTrucks
    BY <1>0 DEF LoopShape
  <2>2. abandoned \subseteq 1 .. MaxTrucks
    BY <1>0 DEF LoopShape
  <2> QED
    BY <1>2, <2>1, <2>2
<1>5. Loop!TypeOK'
  BY <1>1, <1>2, <1>4 DEF LoopInv, Loop!TypeOK, Loop!Trucks
<1> QED
  BY <1>1, <1>3, <1>5 DEF LoopInv, OnlyDetected

\* What lands beyond a channel is one of the messages sent.
LEMMA ToVBrainKeeps ==
  ASSUME Loop!GateLoopAssumption, LoopInv, Loop!ToVBrain
  PROVE LoopInv'
<1>0. LoopShape
  BY LoopShaped
<1>1. PICK i \in 1 .. detected : arrived' = Append(arrived, i)
  BY DEF Loop!ToVBrain, Loop!There!Land, Loop!UpTo
<1>2. UNCHANGED <<mode, detected, resets, back, aPos, abandoned>>
  BY DEF Loop!ToVBrain, Loop!AgentVars
<1>3. arrived \in Seq(1 .. MaxTrucks) /\ i \in 1 .. MaxTrucks
  BY <1>0 DEF LoopShape
<1>4. /\ arrived' \in Seq(1 .. MaxTrucks)
      /\ \A k \in DOMAIN arrived' : \/ k \in DOMAIN arrived /\ arrived'[k] = arrived[k]
                                   \/ arrived'[k] = i
  BY <1>1, <1>3
<1>5. OnlyDetected'
  BY <1>2, <1>4 DEF LoopInv, OnlyDetected
<1>6. Loop!TypeOK'
  BY <1>2, <1>4 DEF LoopInv, Loop!TypeOK, Loop!Trucks
<1> QED
  BY <1>2, <1>5, <1>6 DEF LoopInv, Settled

\* V-Brain resets a truck that has arrived; what has come back keeps its meaning.
LEMMA ResetKeeps ==
  ASSUME Loop!GateLoopAssumption, LoopInv, NEW t \in Loop!Trucks, Loop!Reset(t)
  PROVE LoopInv'
<1>0. LoopShape
  BY LoopShaped
<1>1. /\ \E i \in DOMAIN arrived : arrived[i] = t
      /\ resets' = Append(resets, t)
      /\ UNCHANGED <<mode, detected, arrived, back, aPos, abandoned>>
  BY DEF Loop!Reset, Loop!AgentVars
<1>2. /\ resets \in Seq(1 .. MaxTrucks) /\ Len(resets) \in Nat
      /\ DOMAIN resets = 1 .. Len(resets) /\ t \in 1 .. MaxTrucks
  BY <1>0 DEF LoopShape, Loop!Trucks
<1>3. /\ resets' \in Seq(1 .. MaxTrucks) /\ Len(resets') = Len(resets) + 1
      /\ DOMAIN resets' = 1 .. Len(resets) + 1 /\ resets'[Len(resets) + 1] = t
      /\ \A k \in 1 .. Len(resets) : resets'[k] = resets[k]
  BY <1>1, <1>2
<1>4. back' \in Seq(1 .. Len(resets'))
  <2>1. back \in Seq(1 .. Len(resets)) /\ 1 .. Len(resets) \subseteq 1 .. Len(resets')
    BY <1>0, <1>2, <1>3 DEF LoopShape
  <2> QED
    BY <1>1, <2>1
<1>5. OnlyDetected'
  <2>1. t <= detected
    BY <1>1 DEF LoopInv, OnlyDetected
  <2>2. \A k \in DOMAIN resets' : k = Len(resets) + 1 \/ k \in DOMAIN resets
    BY <1>2, <1>3
  <2> QED
    BY <1>1, <1>2, <1>3, <2>1, <2>2 DEF LoopInv, OnlyDetected
<1>6. Settled'
  <2>1. \A j \in 1 .. aPos : resets'[back[j]] = resets[back[j]]
    <3> TAKE j \in 1 .. aPos
    <3>1. j \in 1 .. Len(back)
      BY <1>0 DEF LoopShape
    <3>2. back[j] \in 1 .. Len(resets)
      BY <1>0, <3>1 DEF LoopShape
    <3> QED
      BY <1>3, <3>2
  <2> SUFFICES ASSUME NEW u \in 1 .. detected, u \notin abandoned,
                      ~(u = detected /\ mode = "awaiting")
               PROVE \E j \in 1 .. aPos : resets'[back[j]] = u
    BY <1>1 DEF Settled
  <2>2. PICK j \in 1 .. aPos : resets[back[j]] = u
    BY DEF LoopInv, Settled
  <2> QED
    BY <2>1, <2>2
<1>7. Loop!TypeOK'
  BY <1>1, <1>3, <1>4 DEF LoopInv, Loop!TypeOK, Loop!Trucks
<1> QED
  BY <1>1, <1>5, <1>6, <1>7 DEF LoopInv

\* A reset lands behind all that Agent A has consumed.
LEMMA ToAgentAKeeps ==
  ASSUME Loop!GateLoopAssumption, LoopInv, Loop!ToAgentA
  PROVE LoopInv'
<1>0. LoopShape
  BY LoopShaped
<1>1. PICK i \in 1 .. Len(resets) : back' = Append(back, i)
  <2>1. Len(resets) \in Nat
    BY <1>0 DEF LoopShape
  <2> QED
    BY <2>1 DEF Loop!ToAgentA, Loop!Back!Land, Loop!UpTo
<1>2. UNCHANGED <<mode, detected, arrived, resets, aPos, abandoned>>
  BY DEF Loop!ToAgentA, Loop!AgentVars
<1>a. /\ back \in Seq(1 .. Len(resets)) /\ Len(back) \in Nat /\ aPos \in 0 .. Len(back)
      /\ DOMAIN back = 1 .. Len(back)
  BY <1>0 DEF LoopShape
<1>3. /\ back' \in Seq(1 .. Len(resets)) /\ Len(back') = Len(back) + 1
      /\ \A j \in 1 .. Len(back) : back'[j] = back[j]
  BY <1>1, <1>a
<1>4. Settled'
  <2>1. \A j \in 1 .. aPos : back'[j] = back[j]
    BY <1>a, <1>3
  <2> QED
    BY <1>2, <2>1 DEF LoopInv, Settled
<1>5. Loop!TypeOK'
  <2>1. aPos \in 0 .. Len(back')
    BY <1>a, <1>3
  <2> QED
    BY <1>2, <1>3, <2>1 DEF LoopInv, Loop!TypeOK, Loop!Trucks
<1> QED
  BY <1>2, <1>4, <1>5 DEF LoopInv, OnlyDetected

\* The invariant holds whatever is lost, copied or overtaken, and however late resets come.
THEOREM LoopInvariant ==
  ASSUME Loop!GateLoopAssumption
  PROVE Loop!Spec => []LoopInv
<1>1. LoopInv /\ [Loop!Next]_(Loop!vars) => LoopInv'
  <2>1. CASE UNCHANGED Loop!vars
    BY <2>1 DEF Loop!vars, LoopInv, Loop!TypeOK, Loop!Trucks, OnlyDetected, Settled
  <2> QED
    BY <2>1, DetectKeeps, ConsumeKeeps, ToVBrainKeeps, ResetKeeps, ToAgentAKeeps DEF Loop!Next
<1> QED
  BY LoopInit, <1>1, PTL DEF Loop!Spec

\* A truck's first reset in Agent A's topic wakes Agent A only while it waits for that truck
\* or after it has gone on without it (AgentA.start), whatever the way there and back loses,
\* copies and reorders: a truck that is neither has had a reset consumed.
THEOREM WokenForItsOwn ==
  ASSUME Loop!GateLoopAssumption
  PROVE Loop!Spec => WokenForItsTruck
<1>1. LoopInv /\ [Loop!Next]_(Loop!vars)
      => [mode = "awaiting" /\ aPos' = aPos + 1 =>
            \/ Loop!ResetAt(aPos') \in {detected} \cup abandoned
            \/ \E j \in 1 .. aPos : Loop!ResetAt(j) = Loop!ResetAt(aPos')]_(Loop!vars)
  <2> SUFFICES ASSUME LoopInv, Loop!Next, mode = "awaiting", aPos' = aPos + 1
               PROVE \/ Loop!ResetAt(aPos') \in {detected} \cup abandoned
                     \/ \E j \in 1 .. aPos : Loop!ResetAt(j) = Loop!ResetAt(aPos')
    OBVIOUS
  <2>0. LoopShape
    BY LoopShaped
  <2>a. aPos \in Nat /\ Len(back) \in Nat /\ aPos <= Len(back)
    BY <2>0 DEF LoopShape
  <2>1. aPos' \in 1 .. Len(back)
    <3>1. CASE Loop!ResetReceived \/ Loop!KeepAlive
      BY <2>a, <3>1 DEF Loop!ResetReceived, Loop!KeepAlive, Loop!Received
    <3>2. CASE Loop!Restart
      BY <2>a, <3>2 DEF Loop!Restart, Loop!StartPosition
    <3>3. CASE ~(Loop!ResetReceived \/ Loop!KeepAlive \/ Loop!Restart)
      <4>1. aPos' = aPos
        BY <3>3 DEF Loop!Next, Loop!Detect, Loop!DecisionTimeout, Loop!ToVBrain, Loop!Reset,
           Loop!ToAgentA, Loop!AgentVars
      <4> QED
        BY <2>a, <4>1
    <3> QED
      BY <3>1, <3>2, <3>3
  <2>2. resets[back[aPos']] \in 1 .. detected
    <3>1. back[aPos'] \in 1 .. Len(resets)
      BY <2>0, <2>1 DEF LoopShape
    <3> QED
      BY <2>0, <3>1 DEF LoopShape
  <2> QED
    BY <2>2 DEF LoopInv, Settled, Loop!ResetAt
<1> QED
  BY LoopInvariant, <1>1, PTL DEF Loop!Spec, WokenForItsTruck, Loop!WokenForItsTruck

-----------------------------------------------------------------------------
(* The consensus on a text *)

\* Every set of numbers has a least member.
LEMMA LeastOf ==
  ASSUME NEW T, T \subseteq Nat, T # {}
  PROVE \E x \in T : \A y \in T : x <= y
<1>1. PICK x \in T : \A y \in T : ~(<<y, x>> \in OpToRel(<, Nat))
  BY NatLessThanWellFounded, WFMin
<1>2. \A y \in T : ~(y < x)
  BY <1>1 DEF OpToRel
<1> QED
  BY <1>2

\* The positions of a text are those up to its length.
LEMMA PositionsOf ==
  ASSUME Reader!ConsensusAssumption, NEW n \in Reader!Positions, NEW p \in 1 .. n
  PROVE p \in Reader!Positions
<1>1. MaxLength \in Nat
  BY DEF Reader!ConsensusAssumption
<1> QED
  BY <1>1 DEF Reader!Positions

\* n is the most frequent of the lengths in l, the shorter one of two.
MostOf(l, n) == \A m \in Reader!Positions : l[m] < l[n] \/ (l[m] = l[n] /\ n <= m)

\* There is one such length, whatever was read, and MostCommon returns it.
LEMMA MostCommonIs ==
  ASSUME Reader!ConsensusAssumption, NEW l \in [Reader!Positions -> 0 .. MaxReadings]
  PROVE /\ Reader!MostCommon(l) \in Reader!Positions
        /\ MostOf(l, Reader!MostCommon(l))
        /\ \A n \in Reader!Positions : MostOf(l, n) => n = Reader!MostCommon(l)
<1>0. MaxReadings \in Nat /\ 1 \in Reader!Positions /\ Reader!Positions \subseteq Nat
  <2>1. MaxReadings \in Nat /\ MaxLength \in Nat \ {0}
    BY DEF Reader!ConsensusAssumption
  <2> QED
    BY <2>1 DEF Reader!Positions
<1> DEFINE Missing == {MaxReadings - l[n] : n \in Reader!Positions}
<1>1. \A n \in Reader!Positions : l[n] \in 0 .. MaxReadings
  OBVIOUS
<1>2. Missing \subseteq Nat /\ Missing # {}
  BY <1>0, <1>1
<1>3. PICK x \in Missing : \A y \in Missing : x <= y
  <2> HIDE DEF Missing
  <2> QED
    BY <1>2, LeastOf
<1>4. PICK k \in Reader!Positions : x = MaxReadings - l[k]
  BY <1>3
<1>5. \A m \in Reader!Positions : l[m] <= l[k]
  <2> TAKE m \in Reader!Positions
  <2>1. MaxReadings - l[m] \in Missing
    OBVIOUS
  <2>2. MaxReadings - l[k] <= MaxReadings - l[m]
    BY <1>3, <1>4, <2>1
  <2>3. l[m] \in Int /\ l[k] \in Int
    BY <1>1
  <2> QED
    BY <1>0, <2>2, <2>3
<1> DEFINE Best == {m \in Reader!Positions : l[m] = l[k]}
<1>6. PICK n \in Best : \A m \in Best : n <= m
  <2>1. Best \subseteq Nat /\ Best # {}
    BY <1>0
  <2> HIDE DEF Best
  <2> QED
    BY <2>1, LeastOf
<1>7. n \in Reader!Positions /\ MostOf(l, n)
  BY <1>1, <1>5, <1>6 DEF MostOf
<1>8. Reader!MostCommon(l) \in Reader!Positions /\ MostOf(l, Reader!MostCommon(l))
  BY <1>7 DEF MostOf, Reader!MostCommon
<1>9. ASSUME NEW i \in Reader!Positions, NEW j \in Reader!Positions, MostOf(l, i), MostOf(l, j)
      PROVE i = j
  BY <1>0, <1>1, <1>9 DEF MostOf
<1> QED
  BY <1>8, <1>9

\* One more reading of length k makes k the most common length, or leaves it as it was.
LEMMA OneMoreReading ==
  ASSUME Reader!ConsensusAssumption,
         NEW l \in [Reader!Positions -> 0 .. MaxReadings], NEW k \in Reader!Positions,
         NEW m \in [Reader!Positions -> 0 .. MaxReadings], m = [l EXCEPT ![k] = @ + 1]
  PROVE /\ Reader!MostCommon(m) \in {k, Reader!MostCommon(l)}
        /\ (\A n \in Reader!Positions : l[n] = 0) => Reader!MostCommon(m) = k
<1> DEFINE n == Reader!MostCommon(m)
<1>1. n \in Reader!Positions /\ MostOf(m, n)
  BY MostCommonIs
<1>2. /\ m[k] = l[k] + 1
      /\ \A i \in Reader!Positions : l[i] \in Nat /\ m[i] \in Nat /\ (i # k => m[i] = l[i])
  OBVIOUS
<1> HIDE DEF n
<1>3. n # k => MostOf(l, n)
  BY <1>1, <1>2 DEF MostOf
<1>4. (\A i \in Reader!Positions : l[i] = 0) => n = k
  BY <1>1, <1>2 DEF MostOf
<1>5. n # k => n = Reader!MostCommon(l)
  BY <1>1, <1>3, MostCommonIs
<1> QED
  BY <1>4, <1>5 DEF n

\* No position has more votes than two for each crop, no length more readings than crops.
ReaderCounts ==
  /\ \A p \in Reader!Positions, c \in Chars : counter[p][c] <= 2 * read
  /\ \A n \in Reader!Positions : lengths[n] <= read

\* Once a text was read, every position of the most common length has a vote.
SomeLength == \E n \in Reader!Positions : lengths[n] > 0
NoGap ==
  /\ Reader!SomeVote => SomeLength
  /\ SomeLength => \A p \in 1 .. Reader!MostCommon(lengths) : Reader!Voted(p)

ReaderInv == Reader!TypeOK /\ ReaderCounts /\ NoGap

\* Nothing is read to begin with.
LEMMA ReaderInit ==
  ASSUME Reader!ConsensusAssumption
  PROVE Reader!Init => ReaderInv
<1> SUFFICES ASSUME Reader!Init PROVE ReaderInv
  OBVIOUS
<1>0. MaxReadings \in Nat
  BY DEF Reader!ConsensusAssumption
<1>1. /\ counter = [p \in Reader!Positions |-> [c \in Chars |-> 0]]
      /\ decided = [p \in Reader!Positions |-> None]
      /\ lengths = [n \in Reader!Positions |-> 0]
      /\ read = 0 /\ reached = FALSE
  BY DEF Reader!Init
<1>2. Reader!TypeOK
  <2>1. 0 \in 0 .. MaxReadings /\ 0 \in 0 .. 2 * MaxReadings
    BY <1>0
  <2>2. [c \in Chars |-> 0] \in [Chars -> 0 .. 2 * MaxReadings]
    BY <2>1
  <2>3. counter \in [Reader!Positions -> [Chars -> 0 .. 2 * MaxReadings]]
    BY <1>1, <2>2
  <2>4. /\ decided \in [Reader!Positions -> Chars \cup {None}]
        /\ lengths \in [Reader!Positions -> 0 .. MaxReadings]
    BY <1>1, <2>1
  <2> QED
    BY <1>1, <2>1, <2>3, <2>4 DEF Reader!TypeOK
<1>3. ReaderCounts
  BY <1>1 DEF ReaderCounts
<1>4. ~Reader!SomeVote /\ ~SomeLength
  BY <1>1 DEF Reader!SomeVote, Reader!Voted, SomeLength
<1> QED
  BY <1>2, <1>3, <1>4 DEF ReaderInv, NoGap

\* A crop that counts for nothing only spends a frame.
LEMMA UselessKeeps ==
  ASSUME Reader!ConsensusAssumption, ReaderInv, Reader!Useless
  PROVE ReaderInv'
<1>1. /\ read' = read + 1 /\ read' \in 0 .. MaxReadings /\ read \in Nat
      /\ UNCHANGED <<counter, decided, lengths, reached>>
  <2>1. read \in 0 .. MaxReadings /\ MaxReadings \in Nat
    BY DEF ReaderInv, Reader!ConsensusAssumption, Reader!TypeOK
  <2> QED
    BY <2>1 DEF Reader!Useless
<1>2. Reader!TypeOK'
  BY <1>1 DEF ReaderInv, Reader!TypeOK
<1>3. ReaderCounts'
  <2>1. \A p \in Reader!Positions, c \in Chars : counter[p][c] \in Nat
    BY DEF ReaderInv, Reader!TypeOK
  <2>2. \A n \in Reader!Positions : lengths[n] \in Nat
    BY DEF ReaderInv, Reader!TypeOK
  <2> QED
    BY <1>1, <2>1, <2>2 DEF ReaderInv, ReaderCounts
<1>4. NoGap'
  BY <1>1 DEF ReaderInv, NoGap, SomeLength, Reader!SomeVote, Reader!Voted
<1> QED
  BY <1>2, <1>3, <1>4 DEF ReaderInv

\* What a vote for a text does to the counter: no vote is lost, none counts more than
\* two, and an accepted text has a vote at each of its positions.
LEMMA VotesOf ==
  ASSUME ReaderInv, NEW text \in Reader!Texts, NEW weight \in {1, 2},
         Reader!ConsensusAssumption
  PROVE LET v == Reader!Vote(text, weight) IN
        /\ v \in [Reader!Positions -> [Chars -> Nat]]
        /\ \A p \in Reader!Positions, c \in Chars :
             v[p][c] \in Nat /\ counter[p][c] <= v[p][c] /\ v[p][c] <= counter[p][c] + 2
        /\ \A p \in 1 .. Len(text) :
             p \in Reader!Positions /\ text[p] \in Chars /\ v[p][text[p]] > 0
<1> DEFINE v == Reader!Vote(text, weight)
<1>1. PICK n \in Reader!Positions : text \in [1 .. n -> Chars]
  BY DEF Reader!Texts
<1>2. /\ MaxLength \in Nat /\ Reader!Positions = 1 .. MaxLength
      /\ n \in Nat /\ text \in Seq(Chars) /\ Len(text) = n /\ DOMAIN text = 1 .. n
      /\ \A p \in 1 .. n : p \in Reader!Positions /\ text[p] \in Chars
  <2>1. MaxLength \in Nat /\ Reader!Positions = 1 .. MaxLength
    BY DEF Reader!ConsensusAssumption, Reader!Positions
  <2>2. n \in Nat /\ 1 .. n \subseteq 1 .. MaxLength
    BY <2>1
  <2> QED
    BY <1>1, <2>1, <2>2
<1>3. counter \in [Reader!Positions -> [Chars -> Nat]]
  <2>1. counter \in [Reader!Positions -> [Chars -> 0 .. 2 * MaxReadings]]
    BY DEF ReaderInv, Reader!TypeOK
  <2> QED
    BY <2>1
<1>4. \A p \in Reader!Positions : v[p] = IF p \in 1 .. n
                                         THEN [counter[p] EXCEPT ![text[p]] = @ + weight]
                                         ELSE counter[p]
  BY <1>2 DEF Reader!Vote
<1>5. ASSUME NEW p \in Reader!Positions
      PROVE /\ v[p] \in [Chars -> Nat]
            /\ \A c \in Chars : /\ counter[p][c] \in Nat /\ counter[p][c] <= v[p][c]
                                /\ v[p][c] <= counter[p][c] + 2
            /\ p \in 1 .. n => v[p][text[p]] > 0
  <2>1. counter[p] \in [Chars -> Nat] /\ weight \in {1, 2}
    BY <1>3
  <2>2. CASE p \in 1 .. n
    <3>1. v[p] = [counter[p] EXCEPT ![text[p]] = @ + weight] /\ text[p] \in Chars
      BY <1>2, <1>4, <2>2
    <3> HIDE DEF v
    <3>2. v[p] \in [Chars -> Nat]
      BY <2>1, <3>1
    <3>3. /\ v[p][text[p]] = counter[p][text[p]] + weight
          /\ \A c \in Chars : c # text[p] => v[p][c] = counter[p][c]
      BY <2>1, <3>1
    <3>4. \A c \in Chars : counter[p][c] \in Nat
      BY <2>1
    <3>5. ASSUME NEW c \in Chars
          PROVE counter[p][c] <= v[p][c] /\ v[p][c] <= counter[p][c] + 2
      <4>1. CASE c = text[p]
        BY <3>3, <3>4, <4>1
      <4>2. CASE c # text[p]
        BY <3>3, <3>4, <4>2
      <4> QED
        BY <4>1, <4>2
    <3>6. v[p][text[p]] > 0
      BY <3>1, <3>3, <3>4
    <3>7. \A c \in Chars : /\ counter[p][c] \in Nat /\ counter[p][c] <= v[p][c]
                          /\ v[p][c] <= counter[p][c] + 2
      BY <3>4, <3>5
    <3> QED
      BY <3>2, <3>6, <3>7
  <2>3. CASE p \notin 1 .. n
    <3>1. v[p] = counter[p]
      BY <1>4, <2>3
    <3>2. \A c \in Chars : counter[p][c] \in Nat
      BY <2>1
    <3> HIDE DEF v
    <3>3. \A c \in Chars : counter[p][c] <= v[p][c] /\ v[p][c] <= counter[p][c] + 2
      BY <3>1, <3>2
    <3> QED
      BY <2>1, <2>3, <3>1, <3>2, <3>3
  <2> QED
    BY <2>2, <2>3
<1>6. v \in [Reader!Positions -> [Chars -> Nat]]
  <2>1. v = [p \in Reader!Positions |-> v[p]]
    BY DEF Reader!Vote
  <2> HIDE DEF v
  <2> QED
    BY <1>5, <2>1
<1> HIDE DEF v
<1>7. \A p \in Reader!Positions, c \in Chars :
        v[p][c] \in Nat /\ counter[p][c] <= v[p][c] /\ v[p][c] <= counter[p][c] + 2
  BY <1>5
<1>8. \A p \in 1 .. Len(text) :
        p \in Reader!Positions /\ text[p] \in Chars /\ v[p][text[p]] > 0
  BY <1>2, <1>5
<1> QED
  BY <1>6, <1>7, <1>8 DEF v

\* A text of a new most common length is accepted, so that it votes at each of its positions.
LEMMA ReadingKeeps ==
  ASSUME Reader!ConsensusAssumption, ReaderInv,
         NEW text \in Reader!Texts, NEW weight \in {1, 2}, Reader!Reading(text, weight)
  PROVE ReaderInv'
<1> DEFINE k == Len(text)
           votes == Reader!Vote(text, weight)
<1>1. /\ k \in Reader!Positions /\ Reader!Positions \subseteq Nat
      /\ read \in 0 .. MaxReadings /\ MaxReadings \in Nat
      /\ lengths \in [Reader!Positions -> 0 .. MaxReadings]
      /\ decided \in [Reader!Positions -> Chars \cup {None}]
  <2>1. PICK n \in Reader!Positions : text \in [1 .. n -> Chars]
    BY DEF Reader!Texts
  <2>2. Reader!Positions \subseteq Nat
    BY DEF Reader!Positions
  <2>3. k = n
    BY <2>1, <2>2
  <2> QED
    BY <2>2, <2>3 DEF ReaderInv, Reader!TypeOK, Reader!ConsensusAssumption
<1>2. /\ read' = read + 1 /\ read' \in 0 .. MaxReadings
      /\ lengths' = [lengths EXCEPT ![k] = @ + 1]
      /\ reached' \in BOOLEAN
  <2>1. reached' \in BOOLEAN
    BY DEF Reader!Reading, Reader!FullConsensus
  <2> QED
    BY <1>1, <2>1 DEF Reader!Reading
<1>3. \/ /\ Reader!Accepted(k, lengths')
         /\ counter' = votes /\ decided' = Reader!Decide(text, votes)
      \/ ~Reader!Accepted(k, lengths') /\ UNCHANGED <<counter, decided>>
  BY DEF Reader!Reading
<1>v. /\ votes \in [Reader!Positions -> [Chars -> Nat]]
      /\ \A p \in Reader!Positions, c \in Chars :
           /\ votes[p][c] \in Nat /\ counter[p][c] <= votes[p][c]
           /\ votes[p][c] <= counter[p][c] + 2
      /\ \A p \in 1 .. k : p \in Reader!Positions /\ text[p] \in Chars /\ votes[p][text[p]] > 0
  BY VotesOf
<1> HIDE DEF votes
<1>c. /\ counter \in [Reader!Positions -> [Chars -> Nat]]
      /\ \A p \in Reader!Positions, c \in Chars : counter[p][c] \in Nat
  <2>1. counter \in [Reader!Positions -> [Chars -> 0 .. 2 * MaxReadings]]
    BY DEF ReaderInv, Reader!TypeOK
  <2> QED
    BY <2>1
<1>4. /\ \A n \in Reader!Positions : lengths[n] \in Nat /\ lengths[n] <= read
      /\ \A n \in Reader!Positions : lengths'[n] \in Nat /\ lengths'[n] <= read'
      /\ lengths' \in [Reader!Positions -> 0 .. MaxReadings]
      /\ lengths'[k] > 0
  <2>1. \A n \in Reader!Positions : lengths[n] \in Nat /\ lengths[n] <= read
    BY <1>1 DEF ReaderInv, ReaderCounts
  <2>2. /\ lengths' \in [Reader!Positions -> Nat]
        /\ lengths'[k] = lengths[k] + 1
        /\ \A n \in Reader!Positions : n # k => lengths'[n] = lengths[n]
    BY <1>1, <1>2, <2>1
  <2>3. \A n \in Reader!Positions : lengths'[n] \in Nat /\ lengths'[n] <= read'
    <3> TAKE n \in Reader!Positions
    <3>1. CASE n = k
      BY <1>1, <1>2, <2>1, <2>2, <3>1
    <3>2. CASE n # k
      BY <1>1, <1>2, <2>1, <2>2, <3>2
    <3> QED
      BY <3>1, <3>2
  <2>4. \A n \in Reader!Positions : lengths'[n] \in 0 .. MaxReadings
    BY <1>1, <1>2, <2>3
  <2>5. lengths' \in [Reader!Positions -> 0 .. MaxReadings]
    BY <2>2, <2>4
  <2>6. lengths'[k] > 0
    BY <1>1, <2>1, <2>2
  <2> QED
    BY <2>1, <2>3, <2>5, <2>6
<1>5. /\ counter' \in [Reader!Positions -> [Chars -> Nat]]
      /\ \A p \in Reader!Positions, c \in Chars :
           counter'[p][c] \in Nat /\ counter[p][c] <= counter'[p][c]
             /\ counter'[p][c] <= 2 * read'
  <2>1. \A p \in Reader!Positions, c \in Chars : counter[p][c] <= 2 * read
    BY DEF ReaderInv, ReaderCounts
  <2>2. CASE counter' = votes
    <3>1. ASSUME NEW p \in Reader!Positions, NEW c \in Chars
          PROVE votes[p][c] <= 2 * read'
      <4>1. counter[p][c] <= 2 * read /\ counter[p][c] \in Nat
        BY <1>c, <2>1
      <4>2. votes[p][c] \in Nat /\ votes[p][c] <= counter[p][c] + 2
        BY <1>v
      <4> QED
        BY <1>1, <1>2, <4>1, <4>2
    <3> QED
      BY <1>v, <2>2, <3>1
  <2>3. CASE counter' = counter
    <3>1. ASSUME NEW p \in Reader!Positions, NEW c \in Chars
          PROVE /\ counter[p][c] \in Nat /\ counter[p][c] <= counter[p][c]
                /\ counter[p][c] <= 2 * read'
      <4>1. counter[p][c] <= 2 * read /\ counter[p][c] \in Nat
        BY <1>c, <2>1
      <4> QED
        BY <1>1, <1>2, <4>1
    <3> QED
      BY <1>c, <2>3, <3>1
  <2> QED
    BY <1>3, <2>2, <2>3
<1>6. counter' \in [Reader!Positions -> [Chars -> 0 .. 2 * MaxReadings]]
  <2>1. ASSUME NEW p \in Reader!Positions, NEW c \in Chars
        PROVE counter'[p][c] \in 0 .. 2 * MaxReadings
    <3>1. counter'[p][c] \in Nat /\ counter'[p][c] <= 2 * read'
      BY <1>5
    <3> QED
      BY <1>1, <1>2, <3>1
  <2>2. \A p \in Reader!Positions : counter'[p] \in [Chars -> 0 .. 2 * MaxReadings]
    BY <1>5, <2>1
  <2> QED
    BY <1>5, <2>2
<1>7. decided' \in [Reader!Positions -> Chars \cup {None}]
  <2>1. CASE decided' = Reader!Decide(text, votes)
    <3>1. DOMAIN text = 1 .. k
      BY DEF Reader!Texts
    <3> QED
      BY <1>1, <1>v, <2>1, <3>1 DEF Reader!Decide
  <2> QED
    BY <1>1, <1>3, <2>1
<1>8. Reader!TypeOK'
  BY <1>2, <1>4, <1>6, <1>7 DEF Reader!TypeOK
<1>9. ReaderCounts'
  BY <1>4, <1>5 DEF ReaderCounts
<1>10. NoGap'
  <2>1. SomeLength'
    BY <1>1, <1>4 DEF SomeLength
  <2>2. ASSUME NEW p \in 1 .. Reader!MostCommon(lengths') PROVE Reader!Voted(p)'
    <3>1. CASE Reader!MostCommon(lengths') = k
      <4>1. counter' = votes
        BY <1>3, <3>1 DEF Reader!Accepted
      <4>2. text[p] \in Chars /\ votes[p][text[p]] > 0
        BY <1>v, <3>1
      <4> QED
        BY <4>1, <4>2 DEF Reader!Voted
    <3>2. CASE Reader!MostCommon(lengths') # k
      <4>1. /\ Reader!MostCommon(lengths') = Reader!MostCommon(lengths)
            /\ ~\A n \in Reader!Positions : lengths[n] = 0
        BY <1>1, <1>2, <1>4, <3>2, OneMoreReading
      <4>2. SomeLength
        BY <1>4, <4>1 DEF SomeLength
      <4>3. Reader!Voted(p)
        BY <4>1, <4>2 DEF ReaderInv, NoGap
      <4>4. p \in Reader!Positions
        <5>1. Reader!MostCommon(lengths) \in Reader!Positions
          BY <1>1, MostCommonIs
        <5> QED
          BY <4>1, <5>1, PositionsOf
      <4>5. PICK c \in Chars : counter[p][c] > 0
        BY <4>3 DEF Reader!Voted
      <4>6. counter'[p][c] > 0
        BY <1>5, <1>c, <4>4, <4>5
      <4> QED
        BY <4>6 DEF Reader!Voted
    <3> QED
      BY <3>1, <3>2
  <2> QED
    BY <2>1, <2>2 DEF NoGap
<1> QED
  BY <1>8, <1>9, <1>10 DEF ReaderInv

\* The invariant holds whatever texts are read, with whatever confidence.
THEOREM ReaderInvariant ==
  ASSUME Reader!ConsensusAssumption
  PROVE Reader!Spec => []ReaderInv
<1>1. ReaderInv /\ [Reader!Next]_(Reader!vars) => ReaderInv'
  <2>1. CASE UNCHANGED Reader!vars
    BY <2>1 DEF Reader!vars, ReaderInv, Reader!TypeOK, ReaderCounts, NoGap, SomeLength,
       Reader!SomeVote, Reader!Voted
  <2> QED
    BY <2>1, UselessKeeps, ReadingKeeps DEF Reader!Next
<1> QED
  BY ReaderInit, <1>1, PTL DEF Reader!Spec

\* The text get_best_partial_result shows has no gap (consensus_algorithm.py): a length
\* becomes the most common one only by a text of that length, which is then accepted.
THEOREM TextsHaveNoGap ==
  ASSUME Reader!ConsensusAssumption
  PROVE Reader!Spec => []EveryPositionVoted
<1>1. ReaderInv => EveryPositionVoted
  <2> SUFFICES ASSUME ReaderInv, Reader!SomeVote, NEW p \in 1 .. Reader!MostCommon(lengths)
               PROVE "_" \notin Reader!Shown(p)
    BY DEF EveryPositionVoted, Reader!EveryPositionVoted, Reader!Result
  <2>1. Reader!Voted(p)
    BY DEF ReaderInv, NoGap
  <2>2. "_" \notin Chars
    BY DEF Reader!ConsensusAssumption
  <2>3. decided[p] \in Chars \cup {None}
    <3>1. lengths \in [Reader!Positions -> 0 .. MaxReadings]
      BY DEF ReaderInv, Reader!TypeOK
    <3>2. Reader!MostCommon(lengths) \in Reader!Positions
      BY <3>1, MostCommonIs
    <3>3. p \in Reader!Positions
      BY <3>2, PositionsOf
    <3> QED
      BY <3>3 DEF ReaderInv, Reader!TypeOK
  <2> QED
    BY <2>1, <2>2, <2>3 DEF Reader!Shown
<1> QED
  BY ReaderInvariant, <1>1, PTL

-----------------------------------------------------------------------------
(* The classifier *)

\* The rules in the order they are tried.
Unclear(c) == ~Classifier!Wide(c) /\ Classifier!Colourless(c)
LEMMA ClassifyWhen ==
  ASSUME NEW c
  PROVE /\ Classifier!Classify(c) = "hazard_plate" <=>
             /\ ~Unclear(c) /\ ~Classifier!LicenseByShape(c)
             /\ \/ Classifier!HazardByColour(c)
                \/ ~Classifier!LicenseTie(c) /\ Classifier!HazardTie(c)
        /\ Classifier!Classify(c) = "license_plate" <=>
             /\ ~Unclear(c)
             /\ \/ Classifier!LicenseByShape(c)
                \/ /\ ~Classifier!HazardByColour(c)
                   /\ \/ Classifier!LicenseTie(c)
                      \/ ~Classifier!HazardTie(c) /\ Classifier!Wide(c)
<1>1. CASE Unclear(c)
  <2>1. Classifier!Classify(c) = "unknown"
    BY <1>1 DEF Classifier!Classify, Unclear
  <2> QED
    BY <1>1, <2>1
<1>2. CASE ~Unclear(c) /\ Classifier!LicenseByShape(c)
  <2>1. Classifier!Classify(c) = "license_plate"
    BY <1>2 DEF Classifier!Classify, Unclear
  <2> QED
    BY <1>2, <2>1
<1>3. CASE /\ ~Unclear(c) /\ ~Classifier!LicenseByShape(c)
           /\ Classifier!HazardByColour(c)
  <2>1. Classifier!Classify(c) = "hazard_plate"
    BY <1>3 DEF Classifier!Classify, Unclear
  <2> QED
    BY <1>3, <2>1
<1>4. CASE /\ ~Unclear(c) /\ ~Classifier!LicenseByShape(c)
           /\ ~Classifier!HazardByColour(c)
  <2>1. Classifier!Classify(c) = CASE Classifier!LicenseTie(c) -> "license_plate"
          [] ~Classifier!LicenseTie(c) /\ Classifier!HazardTie(c) -> "hazard_plate"
          [] ~Classifier!LicenseTie(c) /\ ~Classifier!HazardTie(c) ->
               IF Classifier!Wide(c) THEN "license_plate" ELSE "unknown"
    BY <1>4 DEF Classifier!Classify, Unclear
  <2>2. CASE Classifier!LicenseTie(c)
    BY <1>4, <2>1, <2>2
  <2>3. CASE ~Classifier!LicenseTie(c)
    BY <1>4, <2>1, <2>3
  <2> QED
    BY <2>2, <2>3
<1> QED
  BY <1>1, <1>2, <1>3, <1>4

\* d is c with other shares of colour.
SameCrop(c, d) ==
  /\ c \in Classifier!Crops /\ d \in Classifier!Crops /\ d.ratio = c.ratio

\* Numbers, as the rules compare them.
LEMMA CropNumbers ==
  ASSUME Classifier!ClassifierAssumption, NEW c \in Classifier!Crops
  PROVE c.ratio \in Nat /\ c.license \in Nat /\ c.hazard \in Nat
<1>1. c.ratio \in Ratios /\ c.license \in Shares /\ c.hazard \in Shares
  BY DEF Classifier!Crops
<1>2. Ratios \subseteq Nat /\ Shares \subseteq Nat
  BY DEF Classifier!ClassifierAssumption
<1> QED
  BY <1>1, <1>2

\* More orange is for the hazard plate in every rule.
LEMMA OrangeInRules ==
  ASSUME Classifier!ClassifierAssumption, NEW c, NEW d, SameCrop(c, d),
         d.license = c.license, d.hazard > c.hazard
  PROVE /\ Classifier!Wide(c) <=> Classifier!Wide(d)
        /\ Classifier!Colourless(d) => Classifier!Colourless(c)
        /\ Classifier!LicenseByShape(d) => Classifier!LicenseByShape(c)
        /\ Classifier!HazardByColour(c) => Classifier!HazardByColour(d)
        /\ Classifier!LicenseTie(d) => Classifier!LicenseTie(c)
        /\ Classifier!HazardTie(c) => Classifier!HazardTie(d)
<1>1. /\ c.ratio \in Nat /\ c.license \in Nat /\ c.hazard \in Nat
      /\ d.ratio = c.ratio /\ d.hazard \in Nat
  BY CropNumbers DEF SameCrop
<1> QED
  BY <1>1 DEF Classifier!Wide, Classifier!Colourless, Classifier!LicenseByShape,
     Classifier!HazardByColour, Classifier!HazardShape, Classifier!LicenseTie,
     Classifier!HazardTie

\* More white is for the licence plate in every rule.
LEMMA WhiteInRules ==
  ASSUME Classifier!ClassifierAssumption, NEW c, NEW d, SameCrop(c, d),
         d.hazard = c.hazard, d.license > c.license
  PROVE /\ Classifier!Wide(c) <=> Classifier!Wide(d)
        /\ Classifier!Colourless(d) => Classifier!Colourless(c)
        /\ Classifier!LicenseByShape(c) => Classifier!LicenseByShape(d)
        /\ Classifier!HazardByColour(d) => Classifier!HazardByColour(c)
        /\ Classifier!LicenseTie(c) => Classifier!LicenseTie(d)
        /\ Classifier!HazardTie(d) => Classifier!HazardTie(c)
<1>1. /\ c.ratio \in Nat /\ c.license \in Nat /\ c.hazard \in Nat
      /\ d.ratio = c.ratio /\ d.license \in Nat
  BY CropNumbers DEF SameCrop
<1> QED
  BY <1>1 DEF Classifier!Wide, Classifier!Colourless, Classifier!LicenseByShape,
     Classifier!HazardByColour, Classifier!HazardShape, Classifier!LicenseTie,
     Classifier!HazardTie

\* A crop in another light is a crop.
LEMMA LightKeeps == Classifier!TypeOK /\ [Classifier!Next]_crop => Classifier!TypeOK'
  BY DEF Classifier!TypeOK, Classifier!Next, Classifier!MoreOrange, Classifier!MoreWhite,
     Classifier!Crops

\* In any light.
THEOREM CropsAreCrops == Classifier!Spec => []Classifier!TypeOK
<1>1. Classifier!Init => Classifier!TypeOK
  BY DEF Classifier!Init, Classifier!TypeOK
<1> QED
  BY <1>1, LightKeeps, PTL DEF Classifier!Spec

\* Whatever the shapes and the shares of colour, more orange keeps a hazard plate a hazard
\* plate and more white keeps a licence plate a licence plate (plate_classifier.py), though
\* the rules overlap and the first that applies decides.
THEOREM MoreColourConfirms ==
  ASSUME Classifier!ClassifierAssumption
  PROVE Classifier!Spec => ColoursAreMonotone
<1>1. ASSUME Classifier!TypeOK, Classifier!MoreOrange,
             Classifier!Classify(crop) = "hazard_plate"
      PROVE Classifier!Classify(crop') = "hazard_plate"
  <2>1. SameCrop(crop, crop') /\ crop'.license = crop.license /\ crop'.hazard > crop.hazard
    BY <1>1 DEF SameCrop, Classifier!TypeOK, Classifier!MoreOrange, Classifier!Crops
  <2> QED
    BY <1>1, <2>1, OrangeInRules, ClassifyWhen DEF Unclear
<1>2. ASSUME Classifier!TypeOK, Classifier!MoreWhite,
             Classifier!Classify(crop) = "license_plate"
      PROVE Classifier!Classify(crop') = "license_plate"
  <2>1. SameCrop(crop, crop') /\ crop'.hazard = crop.hazard /\ crop'.license > crop.license
    BY <1>2 DEF SameCrop, Classifier!TypeOK, Classifier!MoreWhite, Classifier!Crops
  <2> QED
    BY <1>2, <2>1, WhiteInRules, ClassifyWhen DEF Unclear
<1>3. Classifier!TypeOK /\ [Classifier!Next]_crop
      => [/\ Classifier!MoreOrange /\ Classifier!Classify(crop) = "hazard_plate"
             => Classifier!Classify(crop') = "hazard_plate"
          /\ Classifier!MoreWhite /\ Classifier!Classify(crop) = "license_plate"
             => Classifier!Classify(crop') = "license_plate"]_crop
  BY <1>1, <1>2
<1> QED
  BY CropsAreCrops, <1>3, PTL DEF Classifier!Spec, ColoursAreMonotone,
     Classifier!ColoursAreMonotone

-----------------------------------------------------------------------------
(* The gateways *)

\* Nothing a receiver was given is newer than the message in hand, and a receiver that is
\* still to be tried was not given that one.
InHand(r) ==
  \A i \in DOMAIN posted[r] : /\ posted[r][i] <= pos
                              /\ r \in todo => posted[r][i] < pos

\* A receiver's producer sends nothing its handler was not given.
UnackedPosted(r) == \A m \in unacked[r] : \E i \in DOMAIN posted[r] : posted[r][i] = m

GatewayInv ==
  /\ TypeOK
  /\ \A r \in Receivers : InHand(r) /\ UnackedPosted(r)
  /\ todo # {} => pos > 0

\* Nothing is sent to begin with.
LEMMA GatewayInit == Init => GatewayInv
  BY DEF Init, GatewayInv, TypeOK, InHand, UnackedPosted

\* A message that is accepted comes after all before it.
LEMMA AcceptedKeeps ==
  ASSUME GatewayInv, NEW r \in Receivers, Forward(r), Accepted(r)
  PROVE GatewayInv'
<1> USE DEF GatewayInv, TypeOK
<1>1. /\ r \in todo /\ todo' = todo \ {r} /\ pos \in 1 .. sent
      /\ UNCHANGED <<sent, pos, alive, got>>
  BY DEF Forward, Tried
<1>2. /\ posted' = [posted EXCEPT ![r] = Append(@, pos)]
      /\ unacked' = [unacked EXCEPT ![r] = @ \cup {pos}]
  BY DEF Accepted
<1>3. /\ posted' \in [Receivers -> Seq(1 .. sent)]
      /\ unacked' \in [Receivers -> SUBSET (1 .. sent)]
  BY <1>1, <1>2
<1>4. ASSUME NEW s \in Receivers PROVE InHand(s)' /\ UnackedPosted(s)'
  <2>0. InHand(s) /\ UnackedPosted(s)
    OBVIOUS
  <2>1. CASE s = r
    <3>1. /\ posted'[s] = Append(posted[s], pos) /\ posted[s] \in Seq(1 .. sent)
          /\ unacked'[s] = unacked[s] \cup {pos}
      BY <1>2, <2>1
    <3>2. /\ \A i \in DOMAIN posted'[s] :
               \/ i \in DOMAIN posted[s] /\ posted'[s][i] = posted[s][i]
               \/ posted'[s][i] = pos
          /\ \A i \in DOMAIN posted[s] : /\ i \in DOMAIN posted'[s]
                                         /\ posted'[s][i] = posted[s][i]
          /\ \E i \in DOMAIN posted'[s] : posted'[s][i] = pos
      <4> HIDE DEF GatewayInv, TypeOK
      <4>1. /\ DOMAIN posted'[s] = 1 .. Len(posted[s]) + 1
            /\ DOMAIN posted[s] = 1 .. Len(posted[s]) /\ Len(posted[s]) \in Nat
            /\ \A i \in 1 .. Len(posted[s]) : posted'[s][i] = posted[s][i]
            /\ posted'[s][Len(posted[s]) + 1] = pos
        BY <3>1, <1>1
      <4> QED
        BY <4>1
    <3>3. InHand(s)'
      <4>1. s \notin todo' /\ pos' = pos /\ pos <= pos
        BY <1>1, <2>1
      <4>2. \A i \in DOMAIN posted[s] : posted[s][i] <= pos
        BY <2>0 DEF InHand
      <4>3. \A i \in DOMAIN posted'[s] : posted'[s][i] <= pos
        BY <3>2, <4>1, <4>2
      <4> QED
        BY <4>1, <4>3 DEF InHand
    <3>4. UnackedPosted(s)'
      BY <2>0, <3>1, <3>2 DEF UnackedPosted
    <3> QED
      BY <3>3, <3>4
  <2>2. CASE s # r
    <3>1. posted'[s] = posted[s] /\ unacked'[s] = unacked[s] /\ (s \in todo' <=> s \in todo)
      BY <1>1, <1>2, <2>2
    <3> QED
      BY <1>1, <2>0, <3>1 DEF InHand, UnackedPosted
  <2> QED
    BY <2>1, <2>2
<1> QED
  BY <1>1, <1>3, <1>4

\* What the producer of a receiver does takes messages off its queue and adds none to it.
LEMMA ProducerKeeps ==
  ASSUME GatewayInv, NEW r \in Receivers, Land(r) \/ GiveUp(r)
  PROVE GatewayInv'
<1> USE DEF GatewayInv, TypeOK
<1>1. /\ UNCHANGED <<sent, pos, todo, alive, posted>>
      /\ unacked' \in [Receivers -> SUBSET (1 .. sent)]
      /\ \A s \in Receivers : unacked'[s] \subseteq unacked[s]
  BY DEF Land, GiveUp
<1>2. got' \in [Receivers -> Seq(1 .. sent)]
  <2>1. CASE Land(r)
    <3>1. PICK m \in 1 .. sent : got' = [got EXCEPT ![r] = Append(@, m)]
      BY <2>1 DEF Land
    <3>2. got \in [Receivers -> Seq(1 .. sent)] /\ got[r] \in Seq(1 .. sent)
      OBVIOUS
    <3> QED
      BY <3>1, <3>2
  <2>2. CASE GiveUp(r)
    BY <2>2 DEF GiveUp
  <2> QED
    BY <2>1, <2>2
<1>3. ASSUME NEW s \in Receivers PROVE InHand(s)' /\ UnackedPosted(s)'
  BY <1>1 DEF InHand, UnackedPosted
<1> QED
  BY <1>1, <1>2, <1>3

\* A message that is consumed is newer than all before it; one that is forwarded is taken
\* off the receivers to try.
LEMMA GatewayStep ==
  ASSUME GatewayAssumption
  PROVE GatewayInv /\ [Next]_vars => GatewayInv'
<1> SUFFICES ASSUME GatewayInv, [Next]_vars PROVE GatewayInv'
  OBVIOUS
<1> USE DEF GatewayInv, TypeOK, InHand, UnackedPosted, ReceiverVars
<1>1. CASE Produced
  BY <1>1 DEF Produced
<1>2. CASE Consume
  BY <1>2 DEF Consume
<1>3. CASE ConsumerDies
  <2>1. pos' \in Nat /\ pos <= pos' /\ pos' <= sent
    BY <1>3 DEF ConsumerDies
  <2>2. UNCHANGED <<sent, todo, posted, unacked, got>> /\ todo = {} /\ alive' \in BOOLEAN
    BY <1>3 DEF ConsumerDies
  <2>3. ASSUME NEW r \in Receivers, NEW i \in DOMAIN posted[r] PROVE posted[r][i] \in Nat
    OBVIOUS
  <2> QED
    BY <2>1, <2>2, <2>3
<1>4. CASE Restart
  BY <1>4 DEF Restart
<1>5. ASSUME NEW r \in Receivers, Forward(r) PROVE GatewayInv'
  <2>1. CASE UNCHANGED <<posted, unacked>>
    BY <1>5, <2>1 DEF Forward, Tried
  <2> QED
    BY <1>5, <2>1, AcceptedKeeps DEF Forward
<1>6. ASSUME NEW r \in Receivers, Land(r) \/ GiveUp(r) PROVE GatewayInv'
  BY <1>6, ProducerKeeps
<1>7. CASE UNCHANGED vars
  BY <1>7 DEF vars
<1> QED
  BY <1>1, <1>2, <1>3, <1>4, <1>5, <1>6, <1>7 DEF Next

\* The invariant holds wherever posts fail, the consumer dies and the gateway starts again.
THEOREM GatewayInvariant ==
  ASSUME GatewayAssumption
  PROVE Spec => []GatewayInv
<1>1. GatewayInv /\ [Next]_vars => GatewayInv'
  BY GatewayStep
<1> QED
  BY GatewayInit, <1>1, PTL DEF Spec

\* Every step of the gateway is a step of each receiver's channel or leaves it alone.
LEMMA StepsOfChannels ==
  ASSUME GatewayInv, [Next]_vars, NEW r \in Receivers
  PROVE Channel(r)!Next \/ UNCHANGED <<sent, posted[r], got[r]>>
<1> USE DEF GatewayInv, TypeOK
<1>1. CASE Produced
  BY <1>1 DEF Produced, ReceiverVars, Channel!Next, Channel!Send
<1>2. CASE UNCHANGED <<sent, posted, got>>
  BY <1>2
<1>3. ASSUME NEW s \in Receivers, Forward(s)
      PROVE Channel(r)!Next \/ UNCHANGED <<sent, posted[r], got[r]>>
  <2>1. CASE s = r /\ Accepted(r)
    <3>1. /\ pos \in 1 .. sent /\ UNCHANGED <<sent, got[r]>>
          /\ \A j \in DOMAIN posted[r] : posted[r][j] < pos
          /\ posted'[r] = Append(posted[r], pos)
      BY <1>3, <2>1 DEF Forward, Accepted, InHand
    <3> QED
      BY <3>1 DEF Channel!Next, Channel!Post, Channel!After
  <2>2. CASE s # r \/ UNCHANGED posted
    BY <1>3, <2>2 DEF Forward, Accepted
  <2> QED
    BY <1>3, <2>1, <2>2 DEF Forward
<1>4. ASSUME NEW s \in Receivers, Land(s)
      PROVE Channel(r)!Next \/ UNCHANGED <<sent, posted[r], got[r]>>
  <2>1. CASE s = r
    <3>1. PICK m \in unacked[r] : got' = [got EXCEPT ![r] = Append(@, m)]
      BY <1>4, <2>1 DEF Land
    <3>2. PICK j \in DOMAIN posted[r] : posted[r][j] = m
      BY DEF UnackedPosted
    <3> QED
      BY <1>4, <2>1, <3>1, <3>2 DEF Land, Channel!Next, Channel!Land
  <2>2. CASE s # r
    BY <1>4, <2>2 DEF Land
  <2> QED
    BY <2>1, <2>2
<1>5. ASSUME NEW s \in Receivers, GiveUp(s) PROVE UNCHANGED <<sent, posted, got>>
  BY <1>5 DEF GiveUp
<1> QED
  BY <1>1, <1>2, <1>3, <1>4, <1>5 DEF Next, vars, Consume, ConsumerDies, Restart, ReceiverVars

\* To each receiver the gateway implements a channel that gives it every message once and in
\* order, or never; its topic may hold copies, of nothing else (LossyChannel).
THEOREM GatewayImplementsChannel ==
  ASSUME GatewayAssumption
  PROVE Spec => ImplementsChannel
<1>1. Init => \A r \in Receivers : Channel(r)!Init
  BY DEF Init, Channel!Init
<1>2. GatewayInv /\ [Next]_vars
      => [\A r \in Receivers : Channel(r)!Next \/ UNCHANGED <<sent, posted[r], got[r]>>]_vars
  BY StepsOfChannels
<1> QED
  BY GatewayInvariant, <1>1, <1>2, PTL DEF Spec, ImplementsChannel

-----------------------------------------------------------------------------
(* The sum *)

\* Whichever part takes the steps, each of the five does what it does by itself.
THEOREM AgentsImplementTheirParts ==
  SumSpec => Stream!Spec /\ Reader!Spec /\ Classifier!Spec /\ Spec /\ Loop!Spec
<1>1. SumInit => Stream!Init /\ Reader!Init /\ Classifier!Init /\ Init /\ Loop!Init
  <2>1. [ratio |-> 100, license |-> 0, hazard |-> 0] \in Classifier!Crops
    BY DEF Classifier!Crops, Ratios, Shares
  <2> QED
    BY <2>1 DEF SumInit, Classifier!Init
<1>2. [SumNext]_allVars
      => /\ [Stream!Next]_(Stream!vars)
         /\ [Reader!Next]_(Reader!vars)
         /\ [Classifier!Next]_crop
         /\ [Next]_vars
         /\ [Loop!Next]_(Loop!vars)
  BY DEF SumNext, allVars, StreamVars, ReaderVars, LoopVars, Stream!vars, Stream!agentVars,
     Stream!streamVars, Reader!vars, Loop!vars
<1> QED
  BY <1>1, <1>2, PTL DEF SumSpec, Stream!Spec, Reader!Spec, Classifier!Spec, Spec, Loop!Spec

\* All variables of the five keep their types, and their bounds hold: a queue of frames,
\* the offsets into a topic, the votes for a character.
THEOREM AgentsTypeCorrect ==
  ASSUME Stream!StreamAgentAssumption, Reader!ConsensusAssumption,
         Classifier!ClassifierAssumption, GatewayAssumption, Loop!GateLoopAssumption
  PROVE SumSpec => []TypesOK
<1>1. StreamInv /\ ReaderInv /\ Classifier!TypeOK /\ GatewayInv /\ LoopInv => TypesOK
  BY DEF StreamInv, ReaderInv, GatewayInv, LoopInv, TypesOK
<1> QED
  BY AgentsImplementTheirParts, StreamInvariant, ReaderInvariant, CropsAreCrops,
     GatewayInvariant, LoopInvariant, <1>1, PTL
=============================================================================
