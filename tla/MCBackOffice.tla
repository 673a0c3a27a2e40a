---------------------------- MODULE MCBackOffice ----------------------------
(***************************************************************************)
(* The engines that decide, and what the port's offices see of it: the     *)
(* pairing of results, the matching of plates, the gateway's realtime half,*)
(* the cards, the rollups and the import of trips.  They share no state    *)
(* their properties are about; the initial state chooses which of them     *)
(* takes all the steps.                                                    *)
(***************************************************************************)
EXTENDS ResultPairing, TLC
CONSTANTS
  A, B, C, Characters, Confused, MaxLength, MaxDistance, MaxSubstitutions, MaxListed,
  Pending, NoMatch,
  LastTrip, SourceGate, OperationalGates, Sockets, Driver, MaxMessages, MaxTripMoves,
  Appointments, LastTime, DelayTolerance, WaitBounds, PageSize, MaxMoves, MaxAnswers,
  RolledGates, HoursPerDay, FirstHour, LastHour, DailyHorizon, HourlyHorizon,
  Companies, Period, MaxEvents, MaxStarts, MaxErrors,
  Importers, Hauliers, UnknownTruck, LastSlot, Window, NoTime, Closed, MaxRows
VARIABLES part,
  reading, plates, answer,
  tripStatus, flagged, today, messages, gatewayAt, dataModuleAt, flagging, tasks,
  open, registered, warned, skipped, chosen, tripMoves, spikes,
  now, slot, status, entry, left, unloading, request, cached, shown, moves, answers,
  clock, entered, detected, prompt, tripsOf, hourly, daily, snapshot, up, work, broken,
  lastCycle, starts, errors, events,
  table, flushed, pending, rows

PlateVars == <<reading, plates, answer>>
RealVars == <<tripStatus, flagged, today, messages, gatewayAt, dataModuleAt, flagging, tasks,
              open, registered, warned, skipped, chosen, tripMoves, spikes>>
CardVars == <<now, slot, status, entry, left, unloading, request, cached, shown, moves, answers>>
RollVars == <<clock, entered, detected, prompt, tripsOf, hourly, daily, snapshot, up, work,
              broken, lastCycle, starts, errors, events>>
ImportVars == <<table, flushed, pending, rows>>
allVars == <<part, vars, PlateVars, RealVars, CardVars, RollVars, ImportVars>>

\* One letter may be either of two, one of which may be it: as in the code
\* the matrix is not symmetric, and one character is never confused.
Letters == {A, B, C}
Confusions == (A :> {B, C}) @@ (B :> {A}) @@ (C :> {})

\* The bounds of the classes of waiting, in the clock's units.
ShortWaits == <<0, 1, 2>>

Plate == INSTANCE PlateMatcher
Real == INSTANCE RealtimeGateway WITH
  ChannelOf <- [s \in Sockets |-> Driver], topic <- messages, status <- tripStatus,
  moves <- tripMoves, MaxMoves <- MaxTripMoves
Cards == INSTANCE Dashboard
Rolls == INSTANCE Statistics WITH
  Gates <- RolledGates, now <- clock, restarts <- starts, MaxRestarts <- MaxStarts
Import == INSTANCE AppointmentImport WITH Trucks <- Hauliers, LastHour <- LastSlot

ASSUME Assumptions ==
  /\ PairingAssumption /\ Plate!MatcherAssumption /\ Plate!ListAssumption
  /\ Real!RealtimeAssumption /\ Cards!DashboardAssumption /\ Rolls!StatisticsAssumption
  /\ Import!ImportAssumption

SumInit ==
  /\ part \in {"pairs", "plate", "real", "cards", "rolls", "import"}
  /\ Init /\ (part # "pairs" => engine = "decision" /\ \A g \in Gates : expected[g] = {})
  /\ IF part = "plate" THEN Plate!Init ELSE reading = <<>> /\ plates = <<>> /\ answer = Pending
  /\ Real!Init /\ (part # "real" => today = {})
  /\ Cards!Init
  /\ part # "cards" => \A a \in Appointments : slot[a] = 0 /\ status[a] = "scheduled"
  /\ Rolls!Init /\ Import!Init

SumNext ==
  /\ UNCHANGED part
  /\ \/ part = "pairs" /\ Next
          /\ UNCHANGED <<PlateVars, RealVars, CardVars, RollVars, ImportVars>>
     \/ part = "plate" /\ Plate!Next
          /\ UNCHANGED <<vars, RealVars, CardVars, RollVars, ImportVars>>
     \/ part = "real" /\ Real!Next
          /\ UNCHANGED <<vars, PlateVars, CardVars, RollVars, ImportVars>>
     \/ part = "cards" /\ Cards!Next
          /\ UNCHANGED <<vars, PlateVars, RealVars, RollVars, ImportVars>>
     \/ part = "rolls" /\ Rolls!Next
          /\ UNCHANGED <<vars, PlateVars, RealVars, CardVars, ImportVars>>
     \/ part = "import" /\ Import!Next
          /\ UNCHANGED <<vars, PlateVars, RealVars, CardVars, RollVars>>

SumSpec == SumInit /\ [][SumNext]_allVars

\* The trucks of the engines, of the imports and the appointments are alike.
Symmetric == Permutations(Trucks) \cup Permutations(Appointments)

\* Types of the part that takes the steps; one that takes none stays in its initial state.
TypesOK ==
  CASE part = "pairs"  -> TypeOK
    [] part = "plate"  -> reading \in Plate!PlatesOf
    [] part = "real"   -> Real!TypeOK
    [] part = "cards"  -> Cards!TypeOK
    [] part = "rolls"  -> Rolls!TypeOK
    [] part = "import" -> Import!TypeOK
MatchedWhenNear == part = "plate" => Plate!MatchedWhenNear
SelectsTheFlaggedTrip == part = "real" => Real!SelectsTheFlaggedTrip
SkippedWasWarned == Real!SkippedWasWarned
CardsAddUp == part = "cards" => Cards!CardsAddUp
RollupsMissOnlyLateVisits == part = "rolls" => Rolls!RollupsMissOnlyLateVisits
OnlyNeighboursCollide == part = "import" => Import!OnlyNeighboursCollide
=============================================================================
