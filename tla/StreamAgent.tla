----------------------------- MODULE StreamAgent -----------------------------
(***************************************************************************)
(* Agents B and C (BaseAgent) with their StreamManager.  For each detected *)
(* truck the agent connects to the video stream, reads frames until the    *)
(* consensus or the limit, releases the stream and publishes one result.   *)
(* Frames come from a background thread; release waits for it one second   *)
(* at most, and connect starts another one.                                *)
(*                                                                         *)
(* A frame is the cycle during which it was read from the camera.          *)
(***************************************************************************)
EXTENDS Naturals, Sequences, SequencesExt

CONSTANTS
  Threads,      \* background threads, as many as may be alive
  MaxTrucks,    \* bound on detected trucks
  MaxFrames,    \* max_frames
  MaxQueue,     \* bound on frame_queue, which has none
  BufferSize,   \* annotated_frames_buffer_size
  None

StreamAgentAssumption ==
  /\ {MaxTrucks, MaxFrames, MaxQueue, BufferSize} \subseteq Nat \ {0}
  /\ None \notin Threads

VARIABLES
  topic,      \* detected trucks not yet consumed
  trucks,     \* detected so far
  phase,      \* where the agent's main thread is
  cycle,      \* messages consumed so far
  truck,      \* self.truck_id
  analysed,   \* frames analysed in this cycle
  results,    \* trucks with a published result
  uploads,    \* annotated frames waiting for upload
  running,    \* StreamManager.running
  latest,     \* StreamManager.thread
  thread,     \* what each background thread does
  held,       \* held[t]: the frame thread t has read and not queued yet
  frames,     \* frame_queue
  leftOn,     \* history: an exception left the stream connected, since the last release
  outlived    \* history: a thread outlived the last release of the stream

agentVars == <<topic, trucks, phase, cycle, truck, analysed, results, uploads>>
streamVars == <<running, latest, thread, held, frames>>
vars == <<agentVars, streamVars, leftOn, outlived>>

Cycles == 0 .. MaxTrucks
TypeOK ==
  /\ topic \in Seq(1 .. MaxTrucks) /\ trucks \in Cycles
  /\ phase \in {"idle", "detect", "stop", "publish"}
  /\ cycle \in Cycles /\ truck \in Cycles
  /\ analysed \in Seq(Cycles) /\ Len(analysed) <= MaxFrames
  /\ results \subseteq Cycles
  /\ uploads \in 0 .. BufferSize
  /\ running \in BOOLEAN /\ latest \in Threads \cup {None}
  /\ thread \in [Threads -> {"none", "connect", "read", "put"}]
  /\ held \in [Threads -> Cycles]
  /\ frames \in Seq(Cycles)
  /\ leftOn \in BOOLEAN /\ outlived \in BOOLEAN

Init ==
  /\ topic = <<>> /\ trucks = 0
  /\ phase = "idle" /\ cycle = 0 /\ truck = 0 /\ analysed = <<>> /\ results = {}
  /\ uploads = 0
  /\ running = FALSE /\ latest = None
  /\ thread = [t \in Threads |-> "none"]
  /\ held = [t \in Threads |-> 0]
  /\ frames = <<>>
  /\ leftOn = FALSE /\ outlived = FALSE

-----------------------------------------------------------------------------
(* The background thread, StreamManager.update *)

Step(t, to) == thread' = [thread EXCEPT ![t] = to]

\* _connect_with_retry succeeds.
Opens(t) ==
  /\ thread[t] = "connect" /\ running
  /\ Step(t, "read")
  /\ UNCHANGED <<agentVars, running, latest, held, frames, leftOn, outlived>>

\* Reading fails for long, or the connection has ended: _reconnect empties the queue.
Reconnects(t) ==
  /\ thread[t] \in {"connect", "read"} /\ running
  /\ Step(t, "connect")
  /\ frames' = <<>>
  /\ UNCHANGED <<agentVars, running, latest, held, leftOn, outlived>>

ReadsFrame(t) ==
  /\ thread[t] = "read" /\ running
  /\ held' = [held EXCEPT ![t] = cycle]
  /\ Step(t, "put")
  /\ UNCHANGED <<agentVars, running, latest, frames, leftOn, outlived>>

\* _handle_read_success: the queue has no limit, full() is never true.
QueuesFrame(t) ==
  /\ thread[t] = "put" /\ Len(frames) < MaxQueue
  /\ frames' = Append(frames, held[t])
  /\ held' = [held EXCEPT ![t] = 0]
  /\ Step(t, "read")
  /\ UNCHANGED <<agentVars, running, latest, leftOn, outlived>>

\* The loop sees that running is no longer set.
Ends(t) ==
  /\ thread[t] \in {"connect", "read"} /\ ~running
  /\ Step(t, "none")
  /\ UNCHANGED <<agentVars, running, latest, held, frames, leftOn, outlived>>

-----------------------------------------------------------------------------
(* The agent *)

\* Agent A detects a truck.
Detected ==
  /\ trucks < MaxTrucks
  /\ trucks' = trucks + 1
  /\ topic' = Append(topic, trucks')
  /\ UNCHANGED <<phase, cycle, truck, analysed, results, uploads, streamVars, leftOn, outlived>>

\* connect() does nothing when the stream is running.
Connect ==
  IF running THEN UNCHANGED <<running, latest, thread>>
  ELSE \E t \in Threads :
         /\ thread[t] = "none"
         /\ running' = TRUE /\ latest' = t
         /\ Step(t, "connect")

Consume ==
  /\ phase = "idle" /\ topic # <<>>
  /\ truck' = Head(topic)
  /\ topic' = Tail(topic)
  /\ cycle' = cycle + 1
  /\ analysed' = <<>>
  /\ phase' = "detect"
  /\ Connect
  /\ UNCHANGED <<trucks, results, uploads, held, frames, leftOn, outlived>>

MayEnqueueAlways == uploads' \in {uploads, uploads + 1}   \* mutant: no maxsize
\* An annotated frame is dropped when the buffer is full.
MayEnqueue == uploads' \in {uploads} \cup {n \in {uploads + 1} : n <= BufferSize}

\* One frame: nothing yet, the consensus, or the last frame.
Analyse ==
  /\ phase = "detect" /\ frames # <<>>
  /\ frames' = Tail(frames)
  /\ analysed' = Append(analysed, Head(frames))
  /\ phase' \in IF Len(analysed') < MaxFrames THEN {"detect", "stop"} ELSE {"stop"}
  /\ MayEnqueue
  /\ UNCHANGED <<topic, trucks, cycle, truck, results, running, latest, thread, held,
                 leftOn, outlived>>

\* The detector throws: the message is gone and the stream stays connected.
DetectionFails ==
  /\ phase = "detect" /\ frames # <<>>
  /\ frames' = Tail(frames)
  /\ phase' = "idle"
  /\ leftOn' = TRUE
  /\ UNCHANGED <<topic, trucks, cycle, truck, analysed, results, uploads, running, latest,
                 thread, held, outlived>>

\* release() clears running, waits for the thread ...
BeginRelease ==
  /\ phase = "stop" /\ running
  /\ running' = FALSE
  /\ UNCHANGED <<agentVars, latest, thread, held, frames, leftOn, outlived>>

\* Mutant: the queue is left as it is.
KeepQueue == UNCHANGED frames
\* ... and empties the queue.
EmptyQueue == frames' = <<>>

\* The thread has ended or one second is over.
EndRelease ==
  /\ phase = "stop" /\ ~running
  /\ leftOn' = FALSE
  /\ outlived' = (\E t \in Threads : thread[t] # "none")
  /\ latest' = None
  /\ EmptyQueue
  /\ phase' = "publish"
  /\ UNCHANGED <<topic, trucks, cycle, truck, analysed, results, uploads, running, thread,
                 held>>

Publish ==
  /\ phase = "publish"
  /\ results' = results \cup {truck}
  /\ phase' = "idle"
  /\ UNCHANGED <<topic, trucks, cycle, truck, analysed, uploads, streamVars, leftOn, outlived>>

\* Kafka's queue is full: the exception ends the cycle.
PublishFails ==
  /\ phase = "publish"
  /\ phase' = "idle"
  /\ UNCHANGED <<topic, trucks, cycle, truck, analysed, results, uploads, streamVars,
                 leftOn, outlived>>

\* One upload whenever there is no message; a failing one is dropped.
IdleUpload ==
  /\ phase = "idle" /\ topic = <<>> /\ uploads > 0
  /\ uploads' = uploads - 1
  /\ UNCHANGED <<topic, trucks, phase, cycle, truck, analysed, results, streamVars,
                 leftOn, outlived>>

\* The container is restarted: nothing is committed, so what is in the topic is skipped.
Restart ==
  /\ topic' = <<>>
  /\ phase' = "idle" /\ analysed' = <<>> /\ uploads' = 0
  /\ running' = FALSE /\ latest' = None
  /\ thread' = [t \in Threads |-> "none"]
  /\ held' = [t \in Threads |-> 0]
  /\ frames' = <<>>
  /\ leftOn' = FALSE /\ outlived' = FALSE
  /\ UNCHANGED <<trucks, cycle, truck, results>>

Next ==
  \/ \E t \in Threads : Opens(t) \/ Reconnects(t) \/ ReadsFrame(t) \/ QueuesFrame(t) \/ Ends(t)
  \/ Detected \/ Consume \/ Analyse \/ DetectionFails
  \/ BeginRelease \/ EndRelease \/ Publish \/ PublishFails
  \/ IdleUpload \/ Restart

Spec == Init /\ [][Next]_vars

-----------------------------------------------------------------------------
(* Properties *)

\* What is read for a truck is read from frames taken for it, unless an exception has left
\* the stream on or a thread has outlived its release.
FramesAreOfThisTruck ==
  phase \in {"detect", "stop"} => ToSet(analysed) \subseteq {cycle} \/ leftOn \/ outlived

=============================================================================
