------------------------------ MODULE MCAgents ------------------------------
(***************************************************************************)
(* The AI side of a gate: the stream agent, the classifier and the         *)
(* consensus it uses, one gateway, and the loop of Agent A.  They share no *)
(* state their properties are about; the initial state chooses which of    *)
(* them takes all the steps.                                               *)
(***************************************************************************)
EXTENDS Gateway
CONSTANTS Threads, MaxTrucks, MaxResets, MaxFrames, MaxQueue, BufferSize, Chars, MaxLength,
          MinTextLength, DecisionThreshold, MaxReadings, None
VARIABLES part,
  topic, trucks, phase, cycle, truck, analysed, results, uploads, running, latest, thread, held,
  frames, leftOn, outlived,
  counter, decided, lengths, read, reached,
  crop,
  mode, detected, arrived, resets, back, aPos, abandoned

Ratios == {100, 105, 130, 190, 191}
Shares == {0, 2, 3, 5, 30, 31, 44, 45, 50, 70, 100}

Stream == INSTANCE StreamAgent
Reader == INSTANCE Consensus WITH frames <- read, MaxFrames <- MaxReadings
Classifier == INSTANCE PlateClassifier
Loop == INSTANCE GateLoop

ASSUME Assumptions ==
  /\ Stream!StreamAgentAssumption /\ Reader!ConsensusAssumption
  /\ Classifier!ClassifierAssumption /\ GatewayAssumption /\ Loop!GateLoopAssumption

StreamVars == <<topic, trucks, phase, cycle, truck, analysed, results, uploads, running, latest,
                thread, held, frames, leftOn, outlived>>
ReaderVars == <<counter, decided, lengths, read, reached>>
LoopVars == <<mode, detected, arrived, resets, back, aPos, abandoned>>
allVars == <<part, StreamVars, ReaderVars, crop, vars, LoopVars>>

SumInit ==
  /\ part \in {"stream", "reader", "classifier", "gate", "loop"}
  /\ Stream!Init /\ Reader!Init /\ Init /\ Loop!Init
  /\ IF part = "classifier" THEN Classifier!Init ELSE crop = [ratio |-> 100, license |-> 0, hazard |-> 0]

SumNext ==
  /\ UNCHANGED part
  /\ \/ part = "stream" /\ Stream!Next /\ UNCHANGED <<ReaderVars, crop, vars, LoopVars>>
     \/ part = "reader" /\ Reader!Next /\ UNCHANGED <<StreamVars, crop, vars, LoopVars>>
     \/ part = "classifier" /\ Classifier!Next
          /\ UNCHANGED <<StreamVars, ReaderVars, vars, LoopVars>>
     \/ part = "gate" /\ Next /\ UNCHANGED <<StreamVars, ReaderVars, crop, LoopVars>>
     \/ part = "loop" /\ Loop!Next /\ UNCHANGED <<StreamVars, ReaderVars, crop, vars>>

\* The clock of Agent A's loop goes on.
SumSpec == SumInit /\ [][SumNext]_allVars
  /\ WF_allVars(part = "loop" /\ Loop!DecisionTimeout
               /\ UNCHANGED <<part, StreamVars, ReaderVars, crop, vars>>)

TypesOK == Stream!TypeOK /\ Reader!TypeOK /\ Classifier!TypeOK /\ TypeOK /\ Loop!TypeOK
FramesAreOfThisTruck == Stream!FramesAreOfThisTruck
EveryPositionVoted == Reader!EveryPositionVoted
ColoursAreMonotone == Classifier!ColoursAreMonotone
WokenForItsTruck == Loop!WokenForItsTruck
ScansAgain == Loop!ScansAgain
=============================================================================
