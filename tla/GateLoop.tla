------------------------------ MODULE GateLoop ------------------------------
(***************************************************************************)
(* Agent A and the way to V-Brain and back.  Agent A publishes a truck and *)
(* sleeps until a reset or its own timeout; AI gateway and V gateway are   *)
(* lossy channels between producers that may write a message again; to     *)
(* each copy of a truck it learns of V-Brain may answer with a reset, or   *)
(* with two when a timeout races the decision.  A reset names no truck.    *)
(***************************************************************************)
EXTENDS Naturals, Sequences, FiniteSets

CONSTANTS
  MaxTrucks,  \* bound on trucks
  MaxResets,  \* bound on resets published
  MaxLanded   \* bound on the length of either topic at the far end of a gateway
GateLoopAssumption == MaxTrucks \in Nat /\ MaxResets \in Nat /\ MaxLanded \in Nat

VARIABLES
  mode,       \* Agent A's awaiting_reset
  detected,   \* trucks published; the last one is the one awaited
  arrived,    \* trucks in the topic of V's broker
  resets,     \* resets V-Brain has published: the trucks they are for
  back,       \* resets in the topic of the AI broker: their positions in resets
  aPos,       \* how many of those Agent A has consumed
  abandoned   \* history: trucks Agent A went on without the reset of

vars == <<mode, detected, arrived, resets, back, aPos, abandoned>>

\* What is sent may be posted at once: the delay is that of landing.
UpTo(n) == [i \in 1 .. n |-> i]
There == INSTANCE LossyChannel
           WITH sent <- detected, posted <- UpTo(detected), received <- arrived
Back == INSTANCE LossyChannel
          WITH sent <- Len(resets), posted <- UpTo(Len(resets)), received <- back

Trucks == 1 .. MaxTrucks
TypeOK ==
  /\ mode \in {"scanning", "awaiting"}
  /\ detected \in 0 .. MaxTrucks
  /\ arrived \in Seq(Trucks) /\ resets \in Seq(Trucks)
  /\ back \in Seq(1 .. Len(resets))
  /\ aPos \in 0 .. Len(back)
  /\ abandoned \subseteq Trucks

Init ==
  /\ mode = "scanning"
  /\ detected = 0 /\ arrived = <<>>
  /\ resets = <<>> /\ back = <<>>
  /\ aPos = 0 /\ abandoned = {}

-----------------------------------------------------------------------------
(* Agent A *)

\* _detect_and_publish, and awaiting_reset is set.
Detect ==
  /\ mode = "scanning" /\ detected < MaxTrucks
  /\ detected' = detected + 1
  /\ mode' = "awaiting"
  /\ UNCHANGED <<arrived, resets, back, aPos, abandoned>>

Received == aPos < Len(back)
LeftBehind == abandoned \cup {detected}
\* The truck that position i of Agent A's topic is a reset for.
ResetAt(i) == resets[back[i]]

ResetReceived ==
  /\ mode = "awaiting" /\ Received
  /\ aPos' = aPos + 1
  /\ mode' = "scanning"
  /\ abandoned' = IF ResetAt(aPos') = detected THEN abandoned ELSE LeftBehind
  /\ UNCHANGED <<detected, arrived, resets, back>>

\* Once a minute while scanning a message is taken from Kafka and dropped.
KeepAlive ==
  /\ mode = "scanning" /\ Received
  /\ aPos' = aPos + 1
  /\ UNCHANGED <<mode, detected, arrived, resets, back, abandoned>>

GivesUpNever == FALSE   \* mutant: no decision_timeout
GivesUp == mode = "awaiting"
DecisionTimeout ==
  /\ GivesUp
  /\ mode' = "scanning"
  /\ abandoned' = LeftBehind
  /\ UNCHANGED <<detected, arrived, resets, back, aPos>>

StartEarliest == 0   \* mutant: auto.offset.reset is earliest
StartPosition == Len(back)
Restart ==
  /\ mode' = "scanning"
  /\ aPos' = StartPosition
  /\ abandoned' = IF mode = "awaiting" THEN LeftBehind ELSE abandoned
  /\ UNCHANGED <<detected, arrived, resets, back>>

-----------------------------------------------------------------------------
(* The gateways and V-Brain *)

AgentVars == <<mode, aPos, abandoned>>

ToVBrain ==
  /\ Len(arrived) < MaxLanded
  /\ UNCHANGED <<detected, resets, back, AgentVars>>
  /\ There!Land

Reset(t) ==
  /\ \E i \in DOMAIN arrived : arrived[i] = t
  /\ Len(resets) < MaxResets
  /\ resets' = Append(resets, t)
  /\ UNCHANGED <<detected, arrived, back, AgentVars>>

ToAgentA ==
  /\ Len(back) < MaxLanded
  /\ UNCHANGED <<detected, arrived, resets, AgentVars>>
  /\ Back!Land

Next ==
  \/ Detect \/ ResetReceived \/ KeepAlive \/ DecisionTimeout \/ Restart
  \/ ToVBrain \/ ToAgentA \/ \E t \in Trucks : Reset(t)

Spec == Init /\ [][Next]_vars
\* The clock of Agent A's loop goes on.
FairSpec == Spec /\ WF_vars(DecisionTimeout)

-----------------------------------------------------------------------------
(* Properties *)

\* The first reset of a truck that reaches Agent A's topic wakes Agent A only while it waits
\* for that truck, or after it has gone on without it.  Late resets, and every further one
\* of a truck (a copy, a copy of the truck, a decision that raced the timeout), may wake it
\* for another: it cannot tell them apart.
WokenForItsTruck ==
  [][mode = "awaiting" /\ aPos' = aPos + 1 =>
       \/ ResetAt(aPos') \in {detected} \cup abandoned
       \/ \E j \in 1 .. aPos : ResetAt(j) = ResetAt(aPos')]_vars

\* Whatever the gateways lose, Agent A goes back to scanning.
ScansAgain == []<>(mode = "scanning")

=============================================================================
