------------------------- MODULE ParkingController -------------------------
(***************************************************************************)
(* The parking decisions of the SUMO controller (sumo/controller/main.py,  *)
(* parking_group_manager.py, vehicle_tracker.py) beside the simulation it  *)
(* drives.  After every simulation step the controller visits the vehicles *)
(* one by one: a vehicle on an access edge of a parking lot tries for a    *)
(* space in one of the lot's physical areas, reserves it or searches on.   *)
(* Then it handles the stops that started and ended and the arrivals, and  *)
(* from time to time saves SUMO's state and its own, to restart from both  *)
(* when SUMO dies in a step.                                               *)
(*                                                                         *)
(* SUMO is external: vehicles move freely over edges, stop only where they *)
(* were told to and only if there is room.  Left to chance are the route   *)
(* costs, the utilities and the drivers' knowledge that rank the areas and *)
(* lots.  Every vehicle has a lot to go to, decisions are taken on access  *)
(* edges; events, times and the occupants of the vehicles are left out.    *)
(***************************************************************************)
EXTENDS Integers, FiniteSets, Sequences

CONSTANTS
  Vehicles,
  Lots,           \* logical parking areas
  Areas,          \* physical parking areas
  Edges,          \* roads and aisles
  LotOf,          \* the lot of each area
  AccessTo,       \* the lots each edge gives access to
  InsideOf,       \* the lots each edge lies in
  AisleOf,        \* the edge of each area
  Capacity,       \* spaces of each area
  Candidates,     \* the lots each vehicle may use, in the order of its plan
  InitialLot,     \* the one of them it sets out for
  None,
  Waiting, Gone,  \* not yet and no longer in the network
  MaxFailures,    \* bound: TraCI refuses an assignment
  MaxVanished,    \* bound: SUMO takes a vehicle away that had a stop to make
  MaxRecoveries   \* recovery_max_attempts

ASSUME ParkingAssumption ==
  /\ IsFiniteSet(Vehicles)
  /\ LotOf \in [Areas -> Lots]
  /\ AccessTo \in [Edges -> SUBSET Lots]
  /\ InsideOf \in [Edges -> SUBSET Lots]
  /\ AisleOf \in [Areas -> Edges]
  /\ Capacity \in [Areas -> Nat]
  /\ Candidates \in [Vehicles -> Seq(Lots)]
  /\ \A v \in Vehicles : \E i \in DOMAIN Candidates[v] : InitialLot[v] = Candidates[v][i]
  /\ InitialLot \in [Vehicles -> Lots]
  /\ Areas \cap (Edges \cup {None, Waiting, Gone}) = {}
  /\ Edges \cap {Waiting, Gone} = {}
  /\ Waiting # Gone
  /\ {MaxFailures, MaxVanished, MaxRecoveries} \subseteq Nat

VARIABLES
  place,        \* SUMO: where each vehicle is
  stop,         \* SUMO: the parking stop each vehicle has to make
  started,      \* SUMO: vehicles whose stop started in the last step
  ended,        \* SUMO: vehicles whose stop ended in the last step
  arrived,      \* SUMO: vehicles that arrived in the last step
  stage,        \* the controller is in a simulation step or decides
  todo,         \* vehicles the loop of this step has yet to visit
  target,       \* current_parking of each vehicle
  attempted,    \* attempted_parking_ids of each vehicle
  rejected,     \* rejected_parking_ids of each vehicle
  status,       \* the tracker's status of each vehicle
  assignment,   \* vehicle_assignment: the area given to a vehicle
  active,       \* active_reservations
  completed,    \* completed_parking
  reserved,     \* reservations of each area
  saved,        \* the last checkpoint: SUMO's state and the controller's
  recoveries,   \* recovery_attempts
  failures, vanished

sumoVars == <<place, stop, started, ended, arrived>>
trackerVars == <<target, attempted, rejected, status>>
bookVars == <<assignment, active, completed, reserved>>
vars == <<sumoVars, stage, todo, trackerVars, bookVars, saved, recoveries,
          failures, vanished>>

Places == Edges \cup Areas \cup {Waiting, Gone}
Statuses == {"not_inserted", "active", "assigned", "searching", "between",
             "parked", "completed", "unserved"}

Snapshot == [place : [Vehicles -> Places], stop : [Vehicles -> Areas \cup {None}],
             target : [Vehicles -> Lots], attempted : [Vehicles -> SUBSET Lots],
             rejected : [Vehicles -> SUBSET Lots], status : [Vehicles -> Statuses],
             assignment : [Vehicles -> Areas \cup {None}],
             active : SUBSET Vehicles, completed : SUBSET Vehicles,
             reserved : [Areas -> Nat]]

State == [place |-> place, stop |-> stop, target |-> target,
          attempted |-> attempted, rejected |-> rejected, status |-> status,
          assignment |-> assignment, active |-> active, completed |-> completed,
          reserved |-> reserved]

TypeOK ==
  /\ State \in Snapshot
  /\ {started, ended, arrived, todo} \subseteq SUBSET Vehicles
  /\ stage \in {"step", "decide"}
  /\ saved \in Snapshot \cup {None}
  /\ recoveries \in 0 .. MaxRecoveries
  /\ failures \in 0 .. MaxFailures
  /\ vanished \in 0 .. MaxVanished

Init ==
  /\ place = [v \in Vehicles |-> Waiting]
  /\ stop = [v \in Vehicles |-> None]
  /\ started = {} /\ ended = {} /\ arrived = {}
  /\ stage = "step"
  /\ todo = {}
  /\ target = InitialLot
  /\ attempted = [v \in Vehicles |-> {}]
  /\ rejected = [v \in Vehicles |-> {}]
  /\ status = [v \in Vehicles |-> "not_inserted"]
  /\ assignment = [v \in Vehicles |-> None]
  /\ active = {}
  /\ completed = {}
  /\ reserved = [a \in Areas |-> 0]
  /\ saved = IF MaxRecoveries > 0 THEN State ELSE None
  /\ recoveries = 0
  /\ failures = 0
  /\ vanished = 0

-----------------------------------------------------------------------------
(* One step of SUMO.                                                       *)

Occupied(a) == Cardinality({v \in Vehicles : place[v] = a})

MayMove(v, q) ==
  CASE place[v] = Waiting -> q \in {Waiting} \cup Edges
    [] place[v] = Gone -> q = Gone
    [] place[v] \in Areas -> q \in {place[v], AisleOf[place[v]]}
    [] OTHER -> q \in Edges \cup {Gone} \cup ({stop[v]} \ {None})

\* Every vehicle moves at once; no area takes more vehicles than it has spaces.
\* A vehicle with a stop to make is only taken away by a mishap.
SimulationStep ==
  /\ stage = "step"
  /\ \E v \in Vehicles : place[v] # Gone
  /\ place' \in [Vehicles -> Places]
  /\ \A v \in Vehicles : MayMove(v, place'[v])
  /\ \A a \in Areas : Cardinality({v \in Vehicles : place'[v] = a}) <= Capacity[a]
  /\ LET lost == {v \in Vehicles : stop[v] # None /\ place[v] \in Edges
                                   /\ place'[v] = Gone} IN
     /\ vanished + Cardinality(lost) <= MaxVanished
     /\ vanished' = vanished + Cardinality(lost)
  /\ started' = {v \in Vehicles : place'[v] \in Areas /\ place[v] # place'[v]}
  /\ ended' = {v \in Vehicles : place[v] \in Areas /\ place[v] # place'[v]}
  /\ arrived' = {v \in Vehicles : place'[v] = Gone /\ place[v] # Gone}
  /\ stop' = [v \in Vehicles |-> IF v \in ended' \cup arrived' THEN None ELSE stop[v]]
  /\ stage' = "decide"
  /\ todo' = {v \in Vehicles : place'[v] \in Edges \cup Areas}
  /\ UNCHANGED <<trackerVars, bookVars, saved, recoveries, failures>>

\* A slip: the reservations are not part of the checkpoint.
ReservedForgotten ==
  /\ assignment' = saved.assignment
  /\ active' = saved.active
  /\ completed' = saved.completed
  /\ UNCHANGED reserved

\* The books and the tracker go back to the checkpoint.
BooksRestored ==
  /\ assignment' = saved.assignment
  /\ active' = saved.active
  /\ completed' = saved.completed
  /\ reserved' = saved.reserved

\* A slip: the tracker is not part of the checkpoint.
TrackerForgotten == UNCHANGED trackerVars

TrackerRestored ==
  /\ target' = saved.target
  /\ attempted' = saved.attempted
  /\ rejected' = saved.rejected
  /\ status' = saved.status

\* SUMO dies in a step: both sides go back to the last checkpoint.
Recover ==
  /\ stage = "step"
  /\ saved # None
  /\ recoveries < MaxRecoveries
  /\ recoveries' = recoveries + 1
  /\ place' = saved.place
  /\ stop' = saved.stop
  /\ TrackerRestored
  /\ BooksRestored
  /\ UNCHANGED <<started, ended, arrived, stage, todo, saved, failures, vanished>>

-----------------------------------------------------------------------------
(* The visit of one vehicle.                                               *)

\* A slip: a space that is reserved counts as free.
FreeNow(a) == Capacity[a] - Occupied(a)

FreeSpaces(a) == Capacity[a] - Occupied(a) - reserved[a]

AvailableIn(l) == {a \in Areas : LotOf[a] = l /\ FreeSpaces(a) > 0}

PlannedLots(v) == {Candidates[v][i] : i \in DOMAIN Candidates[v]}

\* A slip: only a refused lot is left out, not one already tried.
NotRefused(v, tried, refused) == PlannedLots(v) \ refused

Unattempted(v, tried, refused) == PlannedLots(v) \ (tried \cup refused)

\* The lot a vehicle tries now: its target once it has reached it, or else the
\* first other lot of its plan that it passes.
PassedBy(v) ==
  {i \in DOMAIN Candidates[v] :
     /\ Candidates[v][i] \in Unattempted(v, attempted[v], rejected[v])
     /\ Candidates[v][i] # target[v]
     /\ Candidates[v][i] \in AccessTo[place[v]]}

Tries(v, l) ==
  /\ place[v] \in Edges
  /\ \/ l = target[v] /\ l \in AccessTo[place[v]]
     \/ /\ target[v] \notin AccessTo[place[v]]
        /\ \E i \in PassedBy(v) :
             l = Candidates[v][i] /\ \A j \in PassedBy(v) : i <= j

Road(v) == IF place[v] \in Areas THEN AisleOf[place[v]] ELSE place[v]

\* mark_active and mark_inside_parking, which every visited vehicle goes through.
Noticed(v) ==
  IF status[v] # "parked" /\ target[v] \in InsideOf[Road(v)]
    THEN "searching"
    ELSE IF status[v] = "not_inserted" THEN "active" ELSE status[v]

Visit(v) ==
  /\ stage = "decide"
  /\ v \in todo
  /\ todo' = todo \ {v}
  /\ UNCHANGED <<started, ended, arrived, stage, saved, recoveries, vanished>>

Decides(v) == v \notin completed /\ assignment[v] = None

\* Nothing to decide.
DriveOn(v) ==
  /\ Visit(v)
  /\ Decides(v) => \A l \in Lots : ~Tries(v, l)
  /\ status' = [status EXCEPT ![v] = Noticed(v)]
  /\ UNCHANGED <<place, stop, target, attempted, rejected, bookVars, failures>>

\* reroute_to_next_candidate after an attempt at lot l: some lots turn out to be
\* unreachable or are known to be full, and one that is neither becomes the
\* target; with none left the vehicle is unserved and taken out.
SearchOn(v, l) ==
  LET open == Unattempted(v, attempted[v] \cup {l}, rejected[v]) IN
  \/ \E next \in open, refused \in SUBSET open :
       /\ next \notin refused
       /\ rejected' = [rejected EXCEPT ![v] = @ \cup refused]
       /\ target' = [target EXCEPT ![v] = next]
       /\ status' = [status EXCEPT ![v] = "between"]
       /\ UNCHANGED <<place, stop, completed>>
  \/ /\ rejected' = [rejected EXCEPT ![v] = @ \cup open]
     /\ target' = [target EXCEPT ![v] = l]
     /\ status' = [status EXCEPT ![v] = "unserved"]
     /\ completed' = completed \cup {v}
     /\ place' = [place EXCEPT ![v] = Gone]
     /\ stop' = [stop EXCEPT ![v] = None]

\* The lot has no space, or none the vehicle can reach.  A lot that was only
\* passed costs nothing but the attempt.
AttemptFails(v) ==
  /\ Visit(v)
  /\ Decides(v)
  /\ \E l \in Lots :
       /\ Tries(v, l)
       /\ attempted' = [attempted EXCEPT ![v] = @ \cup {l}]
       /\ IF l = target[v]
            THEN SearchOn(v, l)
            ELSE /\ status' = [status EXCEPT ![v] = Noticed(v)]
                 /\ UNCHANGED <<place, stop, target, rejected, completed>>
  /\ UNCHANGED <<assignment, active, reserved, failures>>

\* A space is found: SUMO is told to stop there, and the space is reserved.
Assign(v) ==
  /\ Visit(v)
  /\ Decides(v)
  /\ \E l \in Lots : \E a \in AvailableIn(l) :
       /\ Tries(v, l)
       /\ attempted' = [attempted EXCEPT ![v] = @ \cup {l}]
       /\ target' = [target EXCEPT ![v] = l]
       /\ status' = [status EXCEPT ![v] = "assigned"]
       /\ stop' = [stop EXCEPT ![v] = a]
       /\ assignment' = [assignment EXCEPT ![v] = a]
       /\ reserved' = [reserved EXCEPT ![a] = @ + 1]
  /\ active' = active \cup {v}
  /\ UNCHANGED <<place, rejected, completed, failures>>

\* A slip: the release does not look whether there is anything to release.
ReleasedBlindly(a, n) == reserved[a] - n

Released(a, n) == IF reserved[a] > n THEN reserved[a] - n ELSE 0

\* TraCI refuses the route or the stop: the handler releases a reservation it
\* has not made yet and the search goes on.
AssignmentFails(v) ==
  /\ Visit(v)
  /\ Decides(v)
  /\ failures < MaxFailures
  /\ failures' = failures + 1
  /\ \E l \in Lots : \E a \in AvailableIn(l) :
       /\ Tries(v, l)
       /\ attempted' = [attempted EXCEPT ![v] = @ \cup {l}]
       /\ reserved' = [reserved EXCEPT ![a] = Released(a, 1)]
       /\ SearchOn(v, l)
  /\ UNCHANGED <<assignment, active>>

-----------------------------------------------------------------------------
(* The events of the step and the checkpoint.                              *)

\* A stop that starts turns the reservation into an occupied space, a stop that
\* ends completes the visit, a vehicle that arrives without one is unserved.
EndStep ==
  LET parking == {v \in started : assignment[v] # None}
      released == (parking \cup ended) \cap active
      unserved == {v \in arrived : v \notin completed /\ assignment[v] = None} IN
  /\ stage = "decide"
  /\ todo = {}
  /\ stage' = "step"
  /\ reserved' = [a \in Areas |->
       Released(a, Cardinality({v \in released : assignment[v] = a}))]
  /\ active' = active \ released
  /\ completed' = completed \cup ended
  /\ assignment' = [v \in Vehicles |-> IF v \in ended THEN None ELSE assignment[v]]
  /\ status' = [v \in Vehicles |->
       CASE v \in ended -> "completed"
         [] v \in unserved -> "unserved"
         [] v \in parking -> "parked"
         [] OTHER -> status[v]]
  /\ started' = {} /\ ended' = {} /\ arrived' = {}
  /\ UNCHANGED <<place, stop, todo, target, attempted, rejected, recoveries,
                 failures, vanished>>
  /\ \/ UNCHANGED saved
     \* (one that can no longer be used is dropped)
     \/ saved' = IF recoveries < MaxRecoveries THEN State' ELSE None

-----------------------------------------------------------------------------

Next ==
  \/ SimulationStep
  \/ Recover
  \/ \E v \in Vehicles :
       DriveOn(v) \/ AttemptFails(v) \/ Assign(v) \/ AssignmentFails(v)
  \/ EndStep

Spec == Init /\ [][Next]_vars

-----------------------------------------------------------------------------
(* Properties.                                                             *)

Heading(a) == {v \in Vehicles : stop[v] = a /\ place[v] \in Edges}

\* "Reservations represent cars already travelling toward the same aisle":
\* between two steps the reservations of an area are the vehicles that have a
\* stop to make there, no more and no less, recoveries included.
ReservationsAreInbound ==
  stage = "step" => \A a \in Areas : reserved[a] = Cardinality(Heading(a))

\* ... as long as no assignment is refused and no vehicle vanishes.
ReservationsAgree == failures = 0 /\ vanished = 0 => ReservationsAreInbound

\* No area is promised to more vehicles than it has spaces: whoever is sent to
\* an area finds one.
NeverOverbooked ==
  failures = 0 =>
    \A a \in Areas : Occupied(a) + Cardinality(Heading(a)) <= Capacity[a]

\* The search makes progress: a vehicle that still looks for a space is always
\* on its way to a lot it has neither tried nor ruled out.
SearchMakesProgress ==
  \A v \in Vehicles :
    Decides(v) /\ place[v] \in Edges =>
      target[v] \in PlannedLots(v) \ (attempted[v] \cup rejected[v])

\* The controller's books agree with SUMO between two steps: it holds a vehicle
\* to be parked exactly where SUMO has it stopped.
BooksAgree ==
  stage = "step" => \A v \in Vehicles, a \in Areas :
    place[v] = a <=> assignment[v] = a /\ status[v] = "parked"

=============================================================================
