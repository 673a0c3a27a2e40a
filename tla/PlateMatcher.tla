---------------------------- MODULE PlateMatcher ----------------------------
(***************************************************************************)
(* PlateMatcher.match_plate in its HYBRID mode, as both engines use it: an *)
(* exact match, else the first expansion of the reading through the        *)
(* confusion matrix that is in the list, else the nearest plate by edit    *)
(* distance.  A plate is a sequence of characters, already normalised.     *)
(* The alternatives of a position are a Python set of strings, whose order *)
(* changes from one process to the next: any expansion may come first.     *)
(***************************************************************************)
EXTENDS Integers, Sequences, FiniteSets, FiniteSetsExt, Functions

CONSTANTS Characters,   \* the characters of the instance
          MaxLength,    \* length of the longest plate
          Confused,     \* character -> those an OCR engine may mean by it
          MaxDistance, MaxSubstitutions

MatcherAssumption ==
  /\ MaxLength \in Nat \ {0}
  /\ Confused \in [Characters -> SUBSET Characters]
  /\ MaxDistance \in Nat /\ MaxSubstitutions \in Nat

PlatesOf == UNION {[1 .. n -> Characters] : n \in 1 .. MaxLength}

(***************************************************************************)
(* utils.levenshtein_distance: the edit distances of all pairs of prefixes *)
(* row by row, a row for each character of the longer word.                *)
(***************************************************************************)
FirstRow(t) == [j \in 0 .. Len(t) |-> j]
NextRow(s, t, i, previous) ==
  LET row[j \in 0 .. Len(t)] ==
        IF j = 0 THEN i
        ELSE Min({previous[j] + 1, row[j - 1] + 1,
                  previous[j - 1] + (IF s[i] = t[j] THEN 0 ELSE 1)})
  IN row
LastRow(s, t) ==
  LET table[i \in 0 .. Len(s)] ==
        IF i = 0 THEN FirstRow(t) ELSE NextRow(s, t, i, table[i - 1])
  IN table[Len(s)]
Distance(s, t) ==
  IF Len(s) < Len(t) THEN LastRow(t, s)[Len(s)] ELSE LastRow(s, t)[Len(t)]

Differences(s, t) == Cardinality({i \in DOMAIN s : s[i] # t[i]})

\* _generate_plate_candidates: every position keeps its character or takes
\* one it may be confused with, in at most MaxSubstitutions positions (0
\* lifts the limit).
\* (mutant) the number of substitutions is not limited
NoLimit(word) == Len(word)
Limit(word) == IF MaxSubstitutions = 0 THEN Len(word) ELSE MaxSubstitutions
Expansions(word) ==
  {e \in [DOMAIN word -> Characters] :
     /\ \A i \in DOMAIN word : e[i] \in {word[i]} \cup Confused[word[i]]
     /\ Differences(e, word) <= Limit(word)}

(***************************************************************************)
(* The strategies.  Each returns the set of plates the code may return;    *)
(* an empty set is None.                                                   *)
(***************************************************************************)
Exact(word, list) == {p \in Range(list) : p = word}
ByConfusion(word, list) == Expansions(word) \cap Range(list)

\* The first of the nearest plates, if it is within MaxDistance.
ByDistance(word, list) ==
  LET near == {i \in DOMAIN list : Distance(word, list[i]) <= MaxDistance}
      best == {i \in near : \A j \in near :
                 Distance(word, list[i]) <= Distance(word, list[j])} IN
  IF near = {} THEN {} ELSE {list[Min(best)]}

Hybrid(word, list) ==
  IF ByConfusion(word, list) # {} THEN ByConfusion(word, list)
                                       ELSE ByDistance(word, list)

MatchPlate(word, list) ==
  IF Exact(word, list) # {} THEN Exact(word, list) ELSE Hybrid(word, list)
-----------------------------------------------------------------------------
(***************************************************************************)
(* One call of match_plate: any reading against any list of plates.        *)
(***************************************************************************)
CONSTANTS MaxListed, Pending, NoMatch
ListAssumption == MaxListed \in Nat

VARIABLES reading, plates, answer
vars == <<reading, plates, answer>>

Lists == UNION {[1 .. n -> PlatesOf] : n \in 0 .. MaxListed}

Init == reading \in PlatesOf /\ plates \in Lists /\ answer = Pending

Answer ==
  LET found == MatchPlate(reading, plates) IN
  /\ answer = Pending
  /\ answer' \in IF found = {} THEN {NoMatch} ELSE found
  /\ UNCHANGED <<reading, plates>>

Next == Answer
Spec == Init /\ [][Next]_vars

\* Whatever strategy answers, a match is at most MaxDistance edits from the
\* reading, and there is no match only when no listed plate is that near:
\* the expansions never reach farther than the edit distance accepts.
MatchedWhenNear ==
  answer # Pending =>
    LET near == {p \in Range(plates) : Distance(reading, p) <= MaxDistance} IN
    IF near = {} THEN answer = NoMatch ELSE answer \in near
=============================================================================
