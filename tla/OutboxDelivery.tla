--------------------------- MODULE OutboxDelivery ---------------------------
(***************************************************************************)
(* What the transactional outbox of the Data Module promises, with nothing *)
(* of how: a row that a business transaction committed is first projected  *)
(* to the read models and only then settled as published; a row that can   *)
(* not be projected is parked.  Projection may be repeated (at least once) *)
(* but settling is final.  OutboxWorker is shown to implement this.        *)
(***************************************************************************)
CONSTANT RowIds

VARIABLES
  state,       \* state[i]: what has been promised about row i
  projected    \* the rows whose effects the read models have

vars == <<state, projected>>

States == {"absent", "waiting", "published", "dead"}

TypeOK ==
  /\ state \in [RowIds -> States]
  /\ projected \in SUBSET RowIds

Init ==
  /\ state = [i \in RowIds |-> "absent"]
  /\ projected = {}

\* A business transaction commits with row i.
Append(i) ==
  /\ state[i] = "absent"
  /\ state' = [state EXCEPT ![i] = "waiting"]
  /\ UNCHANGED projected

\* The effects of a waiting row reach the read models, perhaps once more.
Project(i) ==
  /\ state[i] = "waiting"
  /\ projected' = projected \cup {i}
  /\ UNCHANGED state

\* One commit settles a batch: P is published, D is given up.
Settle(P, D) ==
  /\ P \subseteq projected
  /\ P \cap D = {}
  /\ \A i \in P \cup D : state[i] = "waiting"
  /\ state' = [i \in RowIds |-> IF i \in P THEN "published"
                                ELSE IF i \in D THEN "dead" ELSE state[i]]
  /\ UNCHANGED projected

Next ==
  \/ \E i \in RowIds : Append(i) \/ Project(i)
  \/ \E P, D \in SUBSET RowIds : Settle(P, D)

Spec == Init /\ [][Next]_vars

=============================================================================
