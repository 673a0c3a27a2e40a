------------------------- MODULE MCDecisionConsumer -------------------------
(* Small instances of DecisionConsumer for TLC. *)
EXTENDS DecisionConsumer

\* One truck with one appointment at a known gate.
One == {1}
PlateOfOne == [a \in One |-> CHOOSE p \in Plates : TRUE]

=============================================================================
