--------------------------- MODULE MCShiftRoster ---------------------------
(* Two operators at one gate, from the evening of day 1 to the morning of day 2. *)
EXTENDS ShiftRoster, TLC
CONSTANTS g1, o1, o2, r1, r2
Night(d) == [gate |-> g1, type |-> "NIGHT", date |-> d]
Morning(d) == [gate |-> g1, type |-> "MORNING", date |-> d]
FirstRows == {<<Night(1), o1>>, <<Morning(2), None>>}
TwoTemplates ==
  {[gate |-> g1, type |-> "NIGHT", operator |-> o1, days |-> {1, 2}],
   [gate |-> g1, type |-> "MORNING", operator |-> o1, days |-> {2}]}
ThreadSymmetry == Permutations({r1, r2})
=============================================================================
