------------------------------ MODULE Consensus ------------------------------
(***************************************************************************)
(* ConsensusAlgorithm: OCR readings of the frames of one truck vote for    *)
(* the character at each position of the plate.  A position is decided     *)
(* when a character has enough votes; the text is final when all positions *)
(* of the most common length are decided, or the frames run out.  A step   *)
(* is one crop: a frame that shows several plates makes several steps.     *)
(***************************************************************************)
EXTENDS Naturals, Sequences, FiniteSetsExt

CONSTANTS
  Chars,
  MaxLength,          \* bound on the length of a text
  MinTextLength,      \* MIN_TEXT_LENGTH
  DecisionThreshold,  \* DECISION_THRESHOLD
  MaxFrames,          \* max_frames, here the bound on crops
  None

ConsensusAssumption ==
  /\ {MaxLength, MinTextLength, DecisionThreshold} \subseteq Nat \ {0}
  /\ MaxFrames \in Nat
  /\ {None, "_"} \cap Chars = {}   \* the OCR's alphabets have no "_"

Positions == 1 .. MaxLength
Texts == UNION {[1 .. n -> Chars] : n \in Positions}

VARIABLES
  counter,   \* votes: counter[pos][char]
  decided,   \* decided_chars
  lengths,   \* length_counter
  frames,    \* crops processed
  reached    \* consensus_reached

vars == <<counter, decided, lengths, frames, reached>>

TypeOK ==
  /\ counter \in [Positions -> [Chars -> 0 .. 2 * MaxFrames]]
  /\ decided \in [Positions -> Chars \cup {None}]
  /\ lengths \in [Positions -> 0 .. MaxFrames]
  /\ frames \in 0 .. MaxFrames
  /\ reached \in BOOLEAN

\* reset()
Init ==
  /\ counter = [p \in Positions |-> [c \in Chars |-> 0]]
  /\ decided = [p \in Positions |-> None]
  /\ lengths = [n \in Positions |-> 0]
  /\ frames = 0
  /\ reached = FALSE

Readings(l) == MapThenSumSet(LAMBDA n : l[n], Positions)
\* The most frequent length, the shorter one of two.
MostCommon(l) ==
  CHOOSE n \in Positions :
    \A m \in Positions : l[m] < l[n] \/ (l[m] = l[n] /\ n <= m)

\* Mutant: the first readings of a length are judged by the lengths before them.
AcceptedBefore(n, l) ==
  Readings(l) < 3 \/ n = MostCommon([l EXCEPT ![n] = @ - 1])
Accepted(n, l) == Readings(l) < 3 \/ n = MostCommon(l)

\* add_to_consensus of a text with confidence 0.8 or more; weight 2 from 0.95 on.
Vote(text, weight) ==
  [p \in Positions |->
     IF p \in DOMAIN text THEN [counter[p] EXCEPT ![text[p]] = @ + weight] ELSE counter[p]]
Decide(text, votes) ==
  [p \in Positions |->
     IF p \in DOMAIN text /\ votes[p][text[p]] >= DecisionThreshold THEN text[p] ELSE decided[p]]
FullConsensus(d, l) == \A p \in 1 .. MostCommon(l) : d[p] # None

Reading(text, weight) ==
  /\ ~reached /\ frames < MaxFrames
  /\ Len(text) >= MinTextLength
  /\ frames' = frames + 1
  /\ lengths' = [lengths EXCEPT ![Len(text)] = @ + 1]
  /\ IF Accepted(Len(text), lengths')
     THEN /\ counter' = Vote(text, weight)
          /\ decided' = Decide(text, counter')
     ELSE UNCHANGED <<counter, decided>>
  /\ reached' = FullConsensus(decided', lengths')

\* Nothing found, nothing read, too short or not confident enough.
Useless ==
  /\ ~reached /\ frames < MaxFrames
  /\ frames' = frames + 1
  /\ UNCHANGED <<counter, decided, lengths, reached>>

Next == Useless \/ \E text \in Texts, weight \in {1, 2} : Reading(text, weight)

Spec == Init /\ [][Next]_vars

-----------------------------------------------------------------------------
(* get_best_partial_result *)

Voted(p) == \E c \in Chars : counter[p][c] > 0
\* The characters the text may have at position p: "_" when there is no vote.
Shown(p) ==
  CASE decided[p] # None -> {decided[p]}
    [] decided[p] = None /\ Voted(p) ->
         {c \in Chars : \A d \in Chars : counter[p][d] <= counter[p][c]}
    [] OTHER -> {"_"}
SomeVote == \E p \in Positions : Voted(p)
Result == [p \in 1 .. MostCommon(lengths) |-> Shown(p)]

-----------------------------------------------------------------------------
(* Properties *)

\* No text has a gap: lengths are counted of texts that are then rejected, but every
\* position of the most common length has a vote as soon as there is any.
EveryPositionVoted ==
  SomeVote => \A p \in DOMAIN Result : "_" \notin Result[p]

=============================================================================
