------------------------ MODULE AppointmentLifecycle ------------------------
(***************************************************************************)
(* What PostgreSQL guarantees about the life of an appointment, whoever    *)
(* writes it: the transitions of fn_validate_status_transition, and that   *)
(* the driver is told to enter in the step that lets the truck in.         *)
(***************************************************************************)
CONSTANT Appointments

VARIABLES
  status,    \* status[a]: column appointment.status
  entered    \* appointments whose driver was told to enter

vars == <<status, entered>>

Statuses == {"scheduled", "in_transit", "in_process", "completed", "canceled"}

\* The transitions the trigger lets through; a write of the same status is one.
Transitions ==
  {<<"scheduled", "in_transit">>, <<"in_transit", "in_process">>,
   <<"in_process", "completed">>}
    \cup {"scheduled", "in_transit", "in_process"} \X {"canceled"}
Legal(old, new) == old = new \/ <<old, new>> \in Transitions

TypeOK ==
  /\ status \in [Appointments -> Statuses]
  /\ entered \in SUBSET Appointments

Init ==
  /\ status = [a \in Appointments |-> "scheduled"]
  /\ entered = {}

Move(a, s) ==
  /\ Legal(status[a], s)
  /\ status' = [status EXCEPT ![a] = s]
  /\ UNCHANGED entered

Admit(a) ==
  /\ status[a] = "in_transit"
  /\ status' = [status EXCEPT ![a] = "in_process"]
  /\ entered' = entered \cup {a}

Next == \E a \in Appointments : Admit(a) \/ \E s \in Statuses : Move(a, s)

Spec == Init /\ [][Next]_vars

=============================================================================
