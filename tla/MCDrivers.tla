----------------------------- MODULE MCDrivers -----------------------------
(***************************************************************************)
(* Deliveries, driver sessions and worker accounts share no state that     *)
(* any of their properties is about; one run checks each by itself: the    *)
(* initial state chooses which of the three takes all the steps.           *)
(***************************************************************************)
EXTENDS DriverDeliveries, TLC
CONSTANTS SyncedDrivers, DefaultPassword, Workers, Emails, Images
VARIABLES part,
  active, user, tokens, session, login, syncing, erasing, collected, images, records, excused,
  wEmail, wRoles, wActive, wSession, wUsername, wFlight

Sessions == INSTANCE DriverSessions WITH Drivers <- SyncedDrivers, Logins <- Requests
Accounts == INSTANCE WorkerAccounts WITH email <- wEmail, roles <- wRoles, active <- wActive,
              session <- wSession, username <- wUsername, flight <- wFlight

ASSUME Assumptions ==
  /\ DeliveriesAssumption /\ Sessions!SessionsAssumption
  /\ Accounts!AccountsAssumption

SessionVars == <<active, user, tokens, session, login, syncing, erasing, collected, images,
                 records, excused>>
AccountVars == <<wEmail, wRoles, wActive, wSession, wUsername, wFlight>>

SumInit ==
  /\ part \in {"deliveries", "sessions", "accounts"}
  /\ Init /\ Sessions!Init /\ Accounts!Init
  /\ part # "deliveries" => owner = [a \in Appointments |-> None]

SumNext ==
  /\ UNCHANGED part
  /\ \/ part = "deliveries" /\ Next /\ UNCHANGED <<SessionVars, AccountVars>>
     \/ part = "sessions" /\ Sessions!Next /\ UNCHANGED <<vars, AccountVars>>
     \/ part = "accounts" /\ Accounts!Next /\ UNCHANGED <<vars, SessionVars>>

SumSpec == SumInit /\ [][SumNext]_<<part, vars, SessionVars, AccountVars>>

TypesOK == TypeOK /\ Sessions!TypeOK /\ Accounts!TypeOK
ErasedDriverClaimsNothing == Sessions!ErasedDriverClaimsNothing
ProfileIsUnique == Accounts!ProfileIsUnique

Symmetry == Permutations(Requests) \cup Permutations(Drivers)
=============================================================================
