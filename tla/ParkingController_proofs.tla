----------------------- MODULE ParkingController_proofs -----------------------
(***************************************************************************)
(* Proofs about ParkingController for any number of vehicles, lots, areas  *)
(* and edges: every state has its type, no area is promised to more        *)
(* vehicles than it has spaces, reservations are the vehicles on their way,*)
(* a search always has somewhere to go, and the controller's books agree   *)
(* with SUMO, through any number of recoveries.  About DetectorCounts, the *)
(* counter that the same loop drives: the charts have what happened.  And  *)
(* about ParkingLots: the areas have the lanes and spaces they should.     *)
(*                                                                         *)
(* Either inductive invariant speaks of a snapshot, so that one formula    *)
(* holds of the present state and of the checkpoint a recovery returns to. *)
(***************************************************************************)
EXTENDS ParkingController, DetectorCounts, ParkingLots, DataLemmas

-----------------------------------------------------------------------------
(* The inductive invariant.                                                *)

\* Where a vehicle is, where it was told to stop and which area it was given
\* agree, one by one; "began" and "over" are the stops the controller has yet to
\* hear about.
Settled(s, v, began, over) ==
  /\ s.place[v] \in Areas => s.stop[v] = s.place[v]
  /\ s.stop[v] # None => /\ s.assignment[v] = s.stop[v]
                         /\ s.place[v] \in Edges \cup Areas
  /\ s.stop[v] # None /\ s.place[v] \in Edges => v \in s.active
  /\ v \in began => s.place[v] \in Areas
  /\ v \in over => s.stop[v] = None /\ s.assignment[v] # None

\* The tracker has a vehicle as parked where SUMO has it stopped.
Tracked(s, v, began, over) ==
  /\ s.place[v] \in Areas => s.status[v] = "parked" \/ v \in began
  /\ s.status[v] = "parked" => s.place[v] \in Areas \/ v \in over

\* A vehicle that has not given up or found a space has a lot to go to.
Searching(s, v) ==
  v \notin s.completed /\ s.assignment[v] = None /\ s.place[v] # Gone =>
    s.target[v] \in PlannedLots(v) \ (s.attempted[v] \cup s.rejected[v])

\* An active reservation is that of a vehicle on its way, or of one whose stop
\* the controller has yet to hear about.
Kept(s, v, began, over) ==
  v \in s.active =>
    \/ s.stop[v] # None /\ s.place[v] \in Edges
    \/ v \in began \cup over

Sound(s, began, over) ==
  \A v \in Vehicles :
    Settled(s, v, began, over) /\ Tracked(s, v, began, over) /\ Searching(s, v)

AllKept(s, began, over) == \A v \in Vehicles : Kept(s, v, began, over)

SentTo(s, a) == {v \in Vehicles : s.stop[v] = a}
Holding(s, a) == {v \in Vehicles : v \in s.active /\ s.assignment[v] = a}

\* The reservations are counted right and nobody is sent to a full area.
Booked(s) ==
  \A a \in Areas :
    /\ s.reserved[a] = Cardinality(Holding(s, a))
    /\ Cardinality(SentTo(s, a)) <= Capacity[a]

Inv ==
  /\ TypeOK
  /\ stage = "step" => started = {} /\ ended = {}
  /\ Sound(State, started, ended)
  /\ saved # None => Sound(saved, {}, {})
  /\ failures = 0 => Booked(State) /\ (saved # None => Booked(saved))
  /\ vanished = 0 =>
       AllKept(State, started, ended) /\ (saved # None => AllKept(saved, {}, {}))

-----------------------------------------------------------------------------
(* Types.                                                                  *)

LEMMA FiniteVehicles ==
  ASSUME NEW S \in SUBSET Vehicles
  PROVE  IsFiniteSet(S) /\ Cardinality(S) \in Nat
BY ParkingAssumption, FS_Subset, FS_CardinalityType DEF ParkingAssumption

LEMMA ReleasedType ==
  ASSUME TypeOK, NEW a \in Areas, NEW n \in Nat
  PROVE  Released(a, n) \in Nat
BY DEF TypeOK, State, Snapshot, Released

LEMMA InitTypeOK == Init => TypeOK
BY ParkingAssumption
   DEF ParkingAssumption, Init, TypeOK, State, Snapshot, Places, Statuses

LEMMA SimulationStepTypeOK ==
  ASSUME TypeOK, SimulationStep
  PROVE  TypeOK'
<1> DEFINE lost == {v \in Vehicles : stop[v] # None /\ place[v] \in Edges
                                     /\ place'[v] = Gone}
<1>1. Cardinality(lost) \in Nat
  BY FiniteVehicles
<1>2. vanished' \in 0 .. MaxVanished
  BY <1>1, ParkingAssumption DEF SimulationStep, TypeOK, ParkingAssumption
<1>3. stop' \in [Vehicles -> Areas \cup {None}]
  BY DEF SimulationStep, TypeOK, State, Snapshot
<1>4. State' \in Snapshot
  BY <1>3 DEF SimulationStep, TypeOK, State, Snapshot, trackerVars, bookVars
<1> QED
  BY <1>2, <1>4 DEF SimulationStep, TypeOK

LEMMA RecoverTypeOK ==
  ASSUME TypeOK, Recover
  PROVE  TypeOK'
<1>1. saved \in Snapshot
  BY DEF Recover, TypeOK
<1>2. State' \in Snapshot
  BY <1>1 DEF Recover, State, Snapshot, TrackerRestored, BooksRestored
<1>3. recoveries' \in 0 .. MaxRecoveries
  BY ParkingAssumption DEF Recover, TypeOK, ParkingAssumption
<1> QED
  BY <1>2, <1>3 DEF Recover, TypeOK

LEMMA NoticedType ==
  ASSUME TypeOK, NEW v \in Vehicles
  PROVE  Noticed(v) \in Statuses
BY DEF TypeOK, State, Snapshot, Noticed, Statuses

LEMMA SearchOnType ==
  ASSUME TypeOK, NEW v \in Vehicles, NEW l \in Lots, SearchOn(v, l)
  PROVE  /\ place' \in [Vehicles -> Places]
         /\ stop' \in [Vehicles -> Areas \cup {None}]
         /\ target' \in [Vehicles -> Lots]
         /\ rejected' \in [Vehicles -> SUBSET Lots]
         /\ status' \in [Vehicles -> Statuses]
         /\ completed' \in SUBSET Vehicles
<1> DEFINE open == Unattempted(v, attempted[v] \cup {l}, rejected[v])
<1>1. open \subseteq Lots
  BY ParkingAssumption DEF ParkingAssumption, Unattempted, PlannedLots
<1>2. /\ place \in [Vehicles -> Places]
      /\ stop \in [Vehicles -> Areas \cup {None}]
      /\ target \in [Vehicles -> Lots]
      /\ rejected \in [Vehicles -> SUBSET Lots]
      /\ status \in [Vehicles -> Statuses]
      /\ completed \in SUBSET Vehicles
  BY DEF TypeOK, State, Snapshot
<1>3. ASSUME NEW next \in open, NEW refused \in SUBSET open,
             rejected' = [rejected EXCEPT ![v] = @ \cup refused],
             target' = [target EXCEPT ![v] = next],
             status' = [status EXCEPT ![v] = "between"],
             UNCHANGED <<place, stop, completed>>
      PROVE  /\ target' \in [Vehicles -> Lots]
             /\ rejected' \in [Vehicles -> SUBSET Lots]
             /\ status' \in [Vehicles -> Statuses]
  <2> HIDE DEF open
  <2> QED
    BY <1>1, <1>2, <1>3 DEF Statuses
<1>4. CASE /\ rejected' = [rejected EXCEPT ![v] = @ \cup open]
           /\ target' = [target EXCEPT ![v] = l]
           /\ status' = [status EXCEPT ![v] = "unserved"]
           /\ completed' = completed \cup {v}
           /\ place' = [place EXCEPT ![v] = Gone]
           /\ stop' = [stop EXCEPT ![v] = None]
  <2> HIDE DEF open
  <2> QED
    BY <1>1, <1>2, <1>4 DEF Statuses, Places
<1> QED
  BY <1>2, <1>3, <1>4 DEF SearchOn

LEMMA VisitTypeOK ==
  ASSUME TypeOK, NEW v \in Vehicles,
         DriveOn(v) \/ AttemptFails(v) \/ Assign(v) \/ AssignmentFails(v)
  PROVE  TypeOK'
<1>1. SUFFICES State' \in Snapshot /\ failures' \in 0 .. MaxFailures
  BY DEF DriveOn, AttemptFails, Assign, AssignmentFails, Visit, TypeOK
<1>2. failures' \in 0 .. MaxFailures
  BY ParkingAssumption DEF ParkingAssumption, TypeOK, DriveOn, AttemptFails,
                           Assign, AssignmentFails
<1>3. CASE DriveOn(v)
  BY <1>2, <1>3, NoticedType DEF DriveOn, TypeOK, State, Snapshot, bookVars
<1>4. CASE AttemptFails(v)
  <2>1. PICK l \in Lots :
          /\ attempted' = [attempted EXCEPT ![v] = @ \cup {l}]
          /\ IF l = target[v]
               THEN SearchOn(v, l)
               ELSE /\ status' = [status EXCEPT ![v] = Noticed(v)]
                    /\ UNCHANGED <<place, stop, target, rejected, completed>>
    BY <1>4 DEF AttemptFails
  <2>2. UNCHANGED <<assignment, active, reserved>>
    BY <1>4 DEF AttemptFails
  <2>3. attempted' \in [Vehicles -> SUBSET Lots]
    BY <2>1 DEF TypeOK, State, Snapshot
  <2>4. CASE l = target[v]
    <3>1. SearchOn(v, l)
      BY <2>1, <2>4
    <3> QED
      BY <1>2, <2>2, <2>3, <3>1, SearchOnType DEF TypeOK, State, Snapshot
  <2>5. CASE l # target[v]
    BY <1>2, <2>1, <2>2, <2>3, <2>5, NoticedType DEF TypeOK, State, Snapshot
  <2> QED
    BY <2>4, <2>5
<1>5. CASE Assign(v)
  BY <1>2, <1>5
     DEF Assign, TypeOK, State, Snapshot, Statuses, AvailableIn
<1>6. CASE AssignmentFails(v)
  <2>1. PICK l \in Lots, a \in Areas :
          /\ attempted' = [attempted EXCEPT ![v] = @ \cup {l}]
          /\ reserved' = [reserved EXCEPT ![a] = Released(a, 1)]
          /\ SearchOn(v, l)
    BY <1>6 DEF AssignmentFails, AvailableIn
  <2>3. UNCHANGED <<assignment, active>>
    BY <1>6 DEF AssignmentFails
  <2>4. /\ attempted' \in [Vehicles -> SUBSET Lots]
        /\ reserved' \in [Areas -> Nat]
    BY <2>1, ReleasedType DEF TypeOK, State, Snapshot
  <2> QED
    BY <1>2, <2>1, <2>3, <2>4, SearchOnType DEF TypeOK, State, Snapshot
<1> QED
  BY <1>3, <1>4, <1>5, <1>6

LEMMA EndStepTypeOK ==
  ASSUME TypeOK, EndStep
  PROVE  TypeOK'
<1> DEFINE parking == {v \in started : assignment[v] # None}
           released == (parking \cup ended) \cap active
           unserved == {v \in arrived : v \notin completed /\ assignment[v] = None}
<1>1. reserved' \in [Areas -> Nat]
  <2>1. \A a \in Areas : Cardinality({v \in released : assignment[v] = a}) \in Nat
    BY FiniteVehicles DEF TypeOK, State, Snapshot
  <2>2. \A a \in Areas :
          Released(a, Cardinality({v \in released : assignment[v] = a})) \in Nat
    BY <2>1, ReleasedType
  <2> QED
    BY <2>2 DEF EndStep
<1>2. status' \in [Vehicles -> Statuses]
  <2>1. status' = [v \in Vehicles |->
          CASE v \in ended -> "completed"
            [] v \in unserved -> "unserved"
            [] v \in parking -> "parked"
            [] OTHER -> status[v]]
    BY DEF EndStep
  <2>2. ASSUME NEW v \in Vehicles
        PROVE  (CASE v \in ended -> "completed"
                  [] v \in unserved -> "unserved"
                  [] v \in parking -> "parked"
                  [] OTHER -> status[v]) \in Statuses
    <3>1. status[v] \in Statuses
      BY DEF TypeOK, State, Snapshot
    <3> HIDE DEF parking, unserved
    <3> QED
      BY <3>1 DEF Statuses
  <2> QED
    BY <2>1, <2>2
<1>3. /\ active' \in SUBSET Vehicles
      /\ completed' \in SUBSET Vehicles
      /\ assignment' \in [Vehicles -> Areas \cup {None}]
  BY DEF EndStep, TypeOK, State, Snapshot
<1>4. State' \in Snapshot
  BY <1>1, <1>2, <1>3 DEF EndStep, TypeOK, State, Snapshot
<1>5. saved' \in Snapshot \cup {None}
  BY <1>4 DEF EndStep, TypeOK
<1> QED
  BY <1>4, <1>5 DEF EndStep, TypeOK

LEMMA NextTypeOK == TypeOK /\ [Next]_vars => TypeOK'
<1> SUFFICES ASSUME TypeOK, [Next]_vars PROVE TypeOK'
  OBVIOUS
<1>1. CASE UNCHANGED vars
  BY <1>1 DEF TypeOK, vars, sumoVars, trackerVars, bookVars, State
<1>2. CASE Next
  BY <1>2, SimulationStepTypeOK, RecoverTypeOK, VisitTypeOK, EndStepTypeOK DEF Next
<1> QED
  BY <1>1, <1>2

\* Every state of the controller and of SUMO has its type, checkpoints included.
THEOREM TypeCorrect == Spec => []TypeOK
BY InitTypeOK, NextTypeOK, PTL DEF Spec


-----------------------------------------------------------------------------
(* Vehicles and books agree.                                               *)

Steady == stage = "step" => started = {} /\ ended = {}

LEMMA SimulationStepSound ==
  ASSUME TypeOK, Steady, Sound(State, started, ended), SimulationStep
  PROVE  Sound(State, started, ended)'
<1> SUFFICES ASSUME NEW v \in Vehicles
             PROVE  /\ Settled(State, v, started, ended)'
                    /\ Tracked(State, v, started, ended)'
                    /\ Searching(State, v)'
  BY DEF Sound
<1>1. /\ Settled(State, v, {}, {})
      /\ Tracked(State, v, {}, {})
      /\ Searching(State, v)
  BY DEF Sound, Steady, SimulationStep
<1>2. /\ place[v] \in Places
      /\ MayMove(v, place'[v])
      /\ stop[v] \in Areas \cup {None}
      /\ v \in started' <=> place'[v] \in Areas /\ place[v] # place'[v]
      /\ v \in ended' <=> place[v] \in Areas /\ place[v] # place'[v]
      /\ v \in arrived' <=> place'[v] = Gone /\ place[v] # Gone
      /\ stop'[v] = IF v \in ended' \cup arrived' THEN None ELSE stop[v]
      /\ UNCHANGED <<assignment, active, completed, status, target, attempted, rejected>>
  BY DEF SimulationStep, TypeOK, State, Snapshot, trackerVars, bookVars
<1>3. /\ AisleOf \in [Areas -> Edges]
      /\ Areas \cap (Edges \cup {None, Waiting, Gone}) = {}
      /\ Edges \cap {Waiting, Gone} = {}
      /\ Waiting # Gone
  BY ParkingAssumption DEF ParkingAssumption
<1>4. CASE place[v] = Waiting
  BY <1>1, <1>2, <1>3, <1>4 DEF Settled, Tracked, Searching, State, MayMove, Places
<1>5. CASE place[v] = Gone
  BY <1>1, <1>2, <1>3, <1>5 DEF Settled, Tracked, Searching, State, MayMove, Places
<1>6. CASE place[v] \in Areas
  BY <1>1, <1>2, <1>3, <1>6 DEF Settled, Tracked, Searching, State, MayMove, Places
<1>7. CASE place[v] \in Edges
  BY <1>1, <1>2, <1>3, <1>7 DEF Settled, Tracked, Searching, State, MayMove, Places
<1> QED
  BY <1>2, <1>4, <1>5, <1>6, <1>7 DEF Places

LEMMA DriveOnSound ==
  ASSUME TypeOK, Sound(State, started, ended), NEW v \in Vehicles, DriveOn(v)
  PROVE  Sound(State, started, ended)'
<1> SUFFICES ASSUME NEW u \in Vehicles
             PROVE  /\ Settled(State, u, started, ended)'
                    /\ Tracked(State, u, started, ended)'
                    /\ Searching(State, u)'
  BY DEF Sound
<1>1. /\ Settled(State, u, started, ended)
      /\ Tracked(State, u, started, ended)
      /\ Searching(State, u)
  BY DEF Sound
<1>2. /\ UNCHANGED <<place, stop, started, ended, target, attempted, rejected,
                     assignment, active, completed>>
      /\ status'[u] = IF u = v THEN Noticed(v) ELSE status[u]
  BY DEF DriveOn, Visit, TypeOK, State, Snapshot, bookVars
<1>3. (status'[u] = "parked") <=> (status[u] = "parked")
  BY <1>2 DEF Noticed
<1> QED
  BY <1>1, <1>2, <1>3 DEF Settled, Tracked, Searching, State

\* What a search that goes on leaves of the vehicle's state.
LEMMA SearchOnEffect ==
  ASSUME TypeOK, NEW v \in Vehicles, NEW l \in Lots, SearchOn(v, l),
         attempted' = [attempted EXCEPT ![v] = @ \cup {l}]
  PROVE  /\ \A u \in Vehicles \ {v} :
              /\ place'[u] = place[u] /\ stop'[u] = stop[u]
              /\ target'[u] = target[u] /\ rejected'[u] = rejected[u]
              /\ attempted'[u] = attempted[u]
              /\ status'[u] = status[u]
              /\ u \in completed' <=> u \in completed
         /\ \/ /\ place'[v] = place[v] /\ stop'[v] = stop[v]
               /\ v \in completed' <=> v \in completed
               /\ status'[v] = "between"
               /\ target'[v] \in PlannedLots(v) \ (attempted'[v] \cup rejected'[v])
            \/ /\ place'[v] = Gone /\ stop'[v] = None
               /\ status'[v] = "unserved"
               /\ v \in completed'
<1> DEFINE open == Unattempted(v, attempted[v] \cup {l}, rejected[v])
<1>1. /\ place \in [Vehicles -> Places]
      /\ stop \in [Vehicles -> Areas \cup {None}]
      /\ target \in [Vehicles -> Lots]
      /\ attempted \in [Vehicles -> SUBSET Lots]
      /\ rejected \in [Vehicles -> SUBSET Lots]
      /\ status \in [Vehicles -> Statuses]
  BY DEF TypeOK, State, Snapshot
<1>2. ASSUME NEW next \in open, NEW refused \in SUBSET open,
             next \notin refused,
             rejected' = [rejected EXCEPT ![v] = @ \cup refused],
             target' = [target EXCEPT ![v] = next],
             status' = [status EXCEPT ![v] = "between"],
             UNCHANGED <<place, stop, completed>>
      PROVE  target'[v] \in PlannedLots(v) \ (attempted'[v] \cup rejected'[v])
  BY <1>1, <1>2 DEF Unattempted
<1>3. CASE /\ rejected' = [rejected EXCEPT ![v] = @ \cup open]
           /\ target' = [target EXCEPT ![v] = l]
           /\ status' = [status EXCEPT ![v] = "unserved"]
           /\ completed' = completed \cup {v}
           /\ place' = [place EXCEPT ![v] = Gone]
           /\ stop' = [stop EXCEPT ![v] = None]
  <2> HIDE DEF open
  <2> QED
    BY <1>1, <1>3
<1>4. CASE \E next \in open, refused \in SUBSET open :
             /\ next \notin refused
             /\ rejected' = [rejected EXCEPT ![v] = @ \cup refused]
             /\ target' = [target EXCEPT ![v] = next]
             /\ status' = [status EXCEPT ![v] = "between"]
             /\ UNCHANGED <<place, stop, completed>>
  <2> HIDE DEF open
  <2> QED
    BY <1>1, <1>2, <1>4
<1> QED
  BY <1>3, <1>4 DEF SearchOn

LEMMA SearchOnSound ==
  ASSUME TypeOK, Sound(State, started, ended), NEW v \in Vehicles, Decides(v),
         NEW l \in Lots, Tries(v, l), SearchOn(v, l),
         attempted' = [attempted EXCEPT ![v] = @ \cup {l}],
         UNCHANGED <<started, ended, assignment, active>>
  PROVE  Sound(State, started, ended)'
<1> SUFFICES ASSUME NEW u \in Vehicles
             PROVE  /\ Settled(State, u, started, ended)'
                    /\ Tracked(State, u, started, ended)'
                    /\ Searching(State, u)'
  BY DEF Sound
<1>1. /\ Settled(State, u, started, ended)
      /\ Tracked(State, u, started, ended)
      /\ Searching(State, u)
  BY DEF Sound
<1>2. CASE u # v
  <2>1. /\ place'[u] = place[u] /\ stop'[u] = stop[u]
        /\ target'[u] = target[u] /\ rejected'[u] = rejected[u]
        /\ attempted'[u] = attempted[u]
        /\ status'[u] = status[u]
        /\ u \in completed' <=> u \in completed
    BY <1>2, SearchOnEffect
  <2> QED
    BY <1>1, <2>1 DEF Settled, Tracked, Searching, State
<1>3. CASE u = v
  <2>1. /\ assignment[v] = None
        /\ place[v] \in Edges /\ place[v] \notin Areas
        /\ Gone \notin Areas
        /\ None \notin Areas
    BY ParkingAssumption DEF ParkingAssumption, Decides, Tries
  <2>2. stop[v] = None
    BY <1>1, <1>3, <2>1 DEF Settled, State
  <2> QED
    BY <1>1, <1>3, <2>1, <2>2, SearchOnEffect DEF Settled, Tracked, Searching, State
<1> QED
  BY <1>2, <1>3

LEMMA AttemptFailsSound ==
  ASSUME TypeOK, Sound(State, started, ended), NEW v \in Vehicles, AttemptFails(v)
  PROVE  Sound(State, started, ended)'
<1>1. PICK l \in Lots :
        /\ Tries(v, l)
        /\ attempted' = [attempted EXCEPT ![v] = @ \cup {l}]
        /\ IF l = target[v]
             THEN SearchOn(v, l)
             ELSE /\ status' = [status EXCEPT ![v] = Noticed(v)]
                  /\ UNCHANGED <<place, stop, target, rejected, completed>>
  BY DEF AttemptFails
<1>2. Decides(v) /\ UNCHANGED <<started, ended, assignment, active>>
  BY DEF AttemptFails, Visit
<1>3. CASE l = target[v]
  BY <1>1, <1>2, <1>3, SearchOnSound
<1>4. CASE l # target[v]
  <2> SUFFICES ASSUME NEW u \in Vehicles
               PROVE  /\ Settled(State, u, started, ended)'
                      /\ Tracked(State, u, started, ended)'
                      /\ Searching(State, u)'
    BY DEF Sound
  <2>1. /\ Settled(State, u, started, ended)
        /\ Tracked(State, u, started, ended)
        /\ Searching(State, u)
    BY DEF Sound
  <2>2. /\ status'[u] = IF u = v THEN Noticed(v) ELSE status[u]
        /\ attempted'[u] = IF u = v THEN attempted[u] \cup {l} ELSE attempted[u]
        /\ UNCHANGED <<place, stop, target, rejected, completed>>
    BY <1>1, <1>4 DEF TypeOK, State, Snapshot
  <2>3. (status'[u] = "parked") <=> (status[u] = "parked")
    BY <2>2 DEF Noticed
  <2> QED
    BY <1>2, <1>4, <2>1, <2>2, <2>3 DEF Settled, Tracked, Searching, State
<1> QED
  BY <1>3, <1>4

LEMMA AssignmentFailsSound ==
  ASSUME TypeOK, Sound(State, started, ended), NEW v \in Vehicles, AssignmentFails(v)
  PROVE  Sound(State, started, ended)'
<1>1. PICK l \in Lots :
        /\ Tries(v, l)
        /\ attempted' = [attempted EXCEPT ![v] = @ \cup {l}]
        /\ SearchOn(v, l)
  BY DEF AssignmentFails
<1>2. Decides(v) /\ UNCHANGED <<started, ended, assignment, active>>
  BY DEF AssignmentFails, Visit
<1> QED
  BY <1>1, <1>2, SearchOnSound

\* What an assignment does, for the area that was found.
LEMMA AssignEffect ==
  ASSUME TypeOK, NEW v \in Vehicles, Assign(v)
  PROVE  \E a \in Areas :
           /\ FreeSpaces(a) > 0
           /\ place[v] \in Edges
           /\ assignment[v] = None
           /\ stop' = [stop EXCEPT ![v] = a]
           /\ assignment' = [assignment EXCEPT ![v] = a]
           /\ reserved' = [reserved EXCEPT ![a] = @ + 1]
           /\ status' = [status EXCEPT ![v] = "assigned"]
           /\ active' = active \cup {v}
           /\ \A u \in Vehicles \ {v} :
                /\ target'[u] = target[u]
                /\ attempted'[u] = attempted[u]
           /\ UNCHANGED <<place, started, ended, rejected, completed>>
<1>1. /\ target \in [Vehicles -> Lots]
      /\ attempted \in [Vehicles -> SUBSET Lots]
  BY DEF TypeOK, State, Snapshot
<1> QED
  BY <1>1 DEF Assign, Visit, AvailableIn, Tries, Decides

LEMMA AssignSound ==
  ASSUME TypeOK, Sound(State, started, ended), NEW v \in Vehicles, Assign(v)
  PROVE  Sound(State, started, ended)'
<1>1. PICK a \in Areas :
        /\ place[v] \in Edges
        /\ assignment[v] = None
        /\ stop' = [stop EXCEPT ![v] = a]
        /\ assignment' = [assignment EXCEPT ![v] = a]
        /\ status' = [status EXCEPT ![v] = "assigned"]
        /\ active' = active \cup {v}
        /\ \A u \in Vehicles \ {v} :
             /\ target'[u] = target[u]
             /\ attempted'[u] = attempted[u]
        /\ UNCHANGED <<place, started, ended, rejected, completed>>
  BY AssignEffect
<1>2. /\ stop \in [Vehicles -> Areas \cup {None}]
      /\ assignment \in [Vehicles -> Areas \cup {None}]
      /\ status \in [Vehicles -> Statuses]
  BY DEF TypeOK, State, Snapshot
<1>3. Areas \cap (Edges \cup {None}) = {}
  BY ParkingAssumption DEF ParkingAssumption
<1> SUFFICES ASSUME NEW u \in Vehicles
             PROVE  /\ Settled(State, u, started, ended)'
                    /\ Tracked(State, u, started, ended)'
                    /\ Searching(State, u)'
  BY DEF Sound
<1>4. /\ Settled(State, u, started, ended)
      /\ Tracked(State, u, started, ended)
      /\ Searching(State, u)
  BY DEF Sound
<1>5. CASE u = v
  BY <1>1, <1>2, <1>3, <1>4, <1>5 DEF Settled, Tracked, Searching, State
<1>6. CASE u # v
  BY <1>1, <1>2, <1>4, <1>6 DEF Settled, Tracked, Searching, State
<1> QED
  BY <1>5, <1>6

LEMMA EndStepSound ==
  ASSUME TypeOK, Sound(State, started, ended), EndStep
  PROVE  Sound(State, started, ended)' /\ Sound(State', {}, {})
<1>1. started' = {} /\ ended' = {}
  BY DEF EndStep
<1> SUFFICES ASSUME NEW v \in Vehicles
             PROVE  /\ Settled(State', v, {}, {})
                    /\ Tracked(State', v, {}, {})
                    /\ Searching(State', v)
  BY <1>1 DEF Sound
<1>2. /\ Settled(State, v, started, ended)
      /\ Tracked(State, v, started, ended)
      /\ Searching(State, v)
  BY DEF Sound
<1> DEFINE parking == {u \in started : assignment[u] # None}
           released == (parking \cup ended) \cap active
           unserved == {u \in arrived : u \notin completed /\ assignment[u] = None}
<1>3. /\ active' = active \ released
      /\ completed' = completed \cup ended
      /\ assignment'[v] = IF v \in ended THEN None ELSE assignment[v]
      /\ UNCHANGED <<place, stop, target, attempted, rejected>>
  BY DEF EndStep
<1>4. /\ ~(v \in ended /\ v \in unserved)
      /\ ~(v \in ended /\ v \in parking)
      /\ ~(v \in unserved /\ v \in parking)
  <2>1. v \in ended => stop[v] = None /\ assignment[v] # None
    BY <1>2 DEF Settled, State
  <2>2. v \in started => stop[v] = place[v] /\ place[v] \in Areas
    BY <1>2 DEF Settled, State
  <2>3. None \notin Areas
    BY ParkingAssumption DEF ParkingAssumption
  <2> QED
    BY <2>1, <2>2, <2>3
<1>7. /\ v \in ended => status'[v] = "completed"
      /\ v \in unserved => status'[v] = "unserved"
      /\ v \in parking => status'[v] = "parked"
      /\ v \notin ended /\ v \notin unserved /\ v \notin parking
           => status'[v] = status[v]
  <2>1. status' = [u \in Vehicles |->
          CASE u \in ended -> "completed"
            [] u \in unserved -> "unserved"
            [] u \in parking -> "parked"
            [] OTHER -> status[u]]
    BY DEF EndStep
  <2> HIDE DEF parking, unserved
  <2>2. status'[v] = CASE v \in ended -> "completed"
                       [] v \in unserved -> "unserved"
                       [] v \in parking -> "parked"
                       [] OTHER -> status[v]
    BY <2>1
  <2> QED
    BY <1>4, <2>2
<1>5. Areas \cap (Edges \cup {None, Waiting, Gone}) = {}
  BY ParkingAssumption DEF ParkingAssumption
<1>6. stop[v] \in Areas \cup {None}
  BY DEF TypeOK, State, Snapshot
<1> QED
  BY <1>2, <1>3, <1>5, <1>6, <1>7 DEF Settled, Tracked, Searching, State


-----------------------------------------------------------------------------
(* Reservations are counted right.                                         *)

\* The vehicles sent to an area are those that stand there and those on their
\* way: both counts of NeverOverbooked in one.
LEMMA SentToIsPromised ==
  ASSUME TypeOK, Sound(State, started, ended), NEW a \in Areas
  PROVE  Cardinality(SentTo(State, a)) = Occupied(a) + Cardinality(Heading(a))
<1> DEFINE There == {v \in Vehicles : place[v] = a}
<1>1. \A v \in Vehicles : Settled(State, v, started, ended)
  BY DEF Sound
<1>2. None # a /\ a \notin Edges
  BY ParkingAssumption DEF ParkingAssumption
<1>3. /\ SentTo(State, a) = There \cup Heading(a)
      /\ There \cap Heading(a) = {}
  <2>1. \A v \in Vehicles : stop[v] = a <=> place[v] = a \/ v \in Heading(a)
    <3> TAKE v \in Vehicles
    <3>1. Settled(State, v, started, ended)
      BY <1>1
    <3>2. stop[v] = a /\ place[v] \in Areas => place[v] = a
      BY <3>1 DEF Settled, State
    <3> QED
      BY <1>2, <3>1, <3>2 DEF Settled, State, Heading
  <2>2. There \cap Heading(a) = {}
    BY <1>2 DEF Heading
  <2> QED
    BY <2>1, <2>2 DEF SentTo, State, Heading
<1>4. /\ IsFiniteSet(There) /\ Cardinality(There) \in Nat
      /\ IsFiniteSet(Heading(a)) /\ Cardinality(Heading(a)) \in Nat
  BY FiniteVehicles DEF Heading
<1>5. Cardinality(There \cup Heading(a)) =
        Cardinality(There) + Cardinality(Heading(a)) - Cardinality(There \cap Heading(a))
  BY <1>4, FS_Union
<1>6. Cardinality({}) = 0
  BY FS_EmptySet
<1>7. Occupied(a) = Cardinality(There)
  BY DEF Occupied
<1>8. Cardinality(SentTo(State, a)) =
        Cardinality(There) + Cardinality(Heading(a)) - Cardinality({})
  BY <1>3, <1>5
<1> HIDE DEF There
<1> QED
  BY <1>4, <1>6, <1>7, <1>8

\* Who is on the way to an area holds a reservation there.
LEMMA HeadingHolds ==
  ASSUME Sound(State, started, ended), NEW a \in Areas
  PROVE  Heading(a) \subseteq Holding(State, a)
<1> SUFFICES ASSUME NEW v \in Heading(a) PROVE v \in Holding(State, a)
  OBVIOUS
<1>1. v \in Vehicles /\ stop[v] = a /\ place[v] \in Edges
  BY DEF Heading
<1>2. Settled(State, v, started, ended)
  BY <1>1 DEF Sound
<1>3. None # a
  BY ParkingAssumption DEF ParkingAssumption
<1> QED
  BY <1>1, <1>2, <1>3 DEF Settled, State, Holding

LEMMA SmallerSet ==
  ASSUME NEW S \in SUBSET Vehicles, NEW T \in SUBSET S
  PROVE  Cardinality(T) <= Cardinality(S)
BY FiniteVehicles, FS_Subset

LEMMA SimulationStepBooked ==
  ASSUME TypeOK, Booked(State), SimulationStep
  PROVE  Booked(State)'
<1>1. UNCHANGED <<reserved, active, assignment>>
  BY DEF SimulationStep, bookVars
<1>2. ASSUME NEW a \in Areas
      PROVE  Cardinality(SentTo(State, a)') <= Cardinality(SentTo(State, a))
  <2>1. None # a
    BY ParkingAssumption DEF ParkingAssumption
  <2>2. SentTo(State, a)' \subseteq SentTo(State, a)
    BY <2>1 DEF SimulationStep, SentTo, State
  <2>3. SentTo(State, a) \subseteq Vehicles
    BY DEF SentTo
  <2> QED
    BY <2>2, <2>3, SmallerSet
<1>3. ASSUME NEW a \in Areas
      PROVE  /\ Cardinality(SentTo(State, a)) \in Nat
             /\ Cardinality(SentTo(State, a)') \in Nat
  BY FiniteVehicles DEF SentTo
<1>4. Capacity \in [Areas -> Nat]
  BY ParkingAssumption DEF ParkingAssumption
<1> SUFFICES ASSUME NEW a \in Areas
             PROVE  /\ reserved'[a] = Cardinality(Holding(State, a)')
                    /\ Cardinality(SentTo(State, a)') <= Capacity[a]
  BY DEF Booked, State
<1>5. /\ reserved[a] = Cardinality(Holding(State, a))
      /\ Cardinality(SentTo(State, a)) <= Capacity[a]
  BY DEF Booked, State
<1>6. Holding(State, a)' = Holding(State, a)
  BY <1>1 DEF Holding, State
<1>7. Cardinality(SentTo(State, a)') <= Capacity[a]
  BY <1>2, <1>3, <1>4, <1>5
<1> QED
  BY <1>1, <1>5, <1>6, <1>7

\* A step that sends nobody anywhere and leaves the reservations alone.
LEMMA NobodySentBooked ==
  ASSUME TypeOK, Booked(State),
         UNCHANGED <<assignment, active, reserved>>,
         \A v \in Vehicles : stop'[v] \in {stop[v], None}
  PROVE  Booked(State)'
<1> SUFFICES ASSUME NEW a \in Areas
             PROVE  /\ reserved'[a] = Cardinality(Holding(State, a)')
                    /\ Cardinality(SentTo(State, a)') <= Capacity[a]
  BY DEF Booked, State
<1>1. /\ reserved[a] = Cardinality(Holding(State, a))
      /\ Cardinality(SentTo(State, a)) <= Capacity[a]
  BY DEF Booked, State
<1>2. Holding(State, a)' = Holding(State, a)
  BY DEF Holding, State
<1>3. SentTo(State, a)' \subseteq SentTo(State, a)
  BY ParkingAssumption DEF ParkingAssumption, SentTo, State
<1>4. SentTo(State, a) \subseteq Vehicles
  BY DEF SentTo
<1>5. /\ Cardinality(SentTo(State, a)) \in Nat
      /\ Cardinality(SentTo(State, a)') \in Nat
      /\ Cardinality(SentTo(State, a)') <= Cardinality(SentTo(State, a))
  BY <1>3, <1>4, SmallerSet, FiniteVehicles
<1>6. Capacity[a] \in Nat
  BY ParkingAssumption DEF ParkingAssumption
<1> QED
  BY <1>1, <1>2, <1>5, <1>6

LEMMA AttemptBooked ==
  ASSUME TypeOK, Booked(State), NEW v \in Vehicles, DriveOn(v) \/ AttemptFails(v)
  PROVE  Booked(State)'
<1>1. UNCHANGED <<assignment, active, reserved>>
  BY DEF DriveOn, AttemptFails, bookVars
<1>2. CASE DriveOn(v)
  BY <1>1, <1>2, NobodySentBooked DEF DriveOn
<1>3. CASE AttemptFails(v)
  <2>1. stop' = stop \/ stop' = [stop EXCEPT ![v] = None]
    BY <1>3 DEF AttemptFails, SearchOn
  <2>2. \A u \in Vehicles : stop'[u] \in {stop[u], None}
    BY <2>1 DEF TypeOK, State, Snapshot
  <2> QED
    BY <1>1, <2>2, NobodySentBooked
<1> QED
  BY <1>2, <1>3

LEMMA AssignBooked ==
  ASSUME TypeOK, Sound(State, started, ended), Booked(State),
         NEW v \in Vehicles, Assign(v)
  PROVE  Booked(State)'
<1>1. PICK a \in Areas :
        /\ FreeSpaces(a) > 0
        /\ assignment[v] = None
        /\ stop' = [stop EXCEPT ![v] = a]
        /\ assignment' = [assignment EXCEPT ![v] = a]
        /\ reserved' = [reserved EXCEPT ![a] = @ + 1]
        /\ active' = active \cup {v}
  BY AssignEffect
<1>2. /\ stop \in [Vehicles -> Areas \cup {None}]
      /\ assignment \in [Vehicles -> Areas \cup {None}]
      /\ reserved \in [Areas -> Nat]
      /\ Capacity \in [Areas -> Nat]
      /\ None \notin Areas
  BY ParkingAssumption DEF ParkingAssumption, TypeOK, State, Snapshot
<1>3. stop[v] = None
  BY <1>1 DEF Sound, Settled, State
<1>4. ASSUME NEW b \in Areas
      PROVE  /\ IsFiniteSet(Holding(State, b)) /\ Cardinality(Holding(State, b)) \in Nat
             /\ IsFiniteSet(SentTo(State, b)) /\ Cardinality(SentTo(State, b)) \in Nat
             /\ reserved[b] = Cardinality(Holding(State, b))
             /\ Cardinality(SentTo(State, b)) <= Capacity[b]
  BY FiniteVehicles DEF Booked, Holding, SentTo, State
<1> SUFFICES ASSUME NEW b \in Areas
             PROVE  /\ reserved'[b] = Cardinality(Holding(State, b)')
                    /\ Cardinality(SentTo(State, b)') <= Capacity[b]
  BY DEF Booked, State
<1>5. CASE b # a
  <2>1. Holding(State, b)' = Holding(State, b)
    BY <1>1, <1>2, <1>5 DEF Holding, State
  <2>2. SentTo(State, b)' = SentTo(State, b)
    BY <1>1, <1>2, <1>3, <1>5 DEF SentTo, State
  <2> QED
    BY <1>1, <1>2, <1>4, <1>5, <2>1, <2>2
<1>6. CASE b = a
  <2>1. /\ Holding(State, a)' = Holding(State, a) \cup {v}
        /\ v \notin Holding(State, a)
    BY <1>1, <1>2 DEF Holding, State
  <2>2. /\ SentTo(State, a)' = SentTo(State, a) \cup {v}
        /\ v \notin SentTo(State, a)
    BY <1>1, <1>2, <1>3 DEF SentTo, State
  <2>3. /\ Cardinality(Holding(State, a)') = reserved[a] + 1
        /\ Cardinality(SentTo(State, a)') = Cardinality(SentTo(State, a)) + 1
    BY <1>4, <2>1, <2>2, FS_AddElement
  <2>4. Cardinality(SentTo(State, a)) < Capacity[a]
    <3>1. /\ Cardinality(SentTo(State, a)) = Occupied(a) + Cardinality(Heading(a))
          /\ Cardinality(Heading(a)) <= Cardinality(Holding(State, a))
      <4>1. Holding(State, a) \subseteq Vehicles
        BY DEF Holding
      <4> QED
        BY <4>1, SentToIsPromised, HeadingHolds, SmallerSet
    <3>2. /\ Occupied(a) \in Nat
          /\ Cardinality(Heading(a)) \in Nat
      BY FiniteVehicles DEF Occupied, Heading
    <3>3. Capacity[a] - Occupied(a) - reserved[a] > 0
      BY <1>1 DEF FreeSpaces
    <3> QED
      BY <1>2, <1>4, <3>1, <3>2, <3>3
  <2> QED
    BY <1>1, <1>2, <1>4, <1>6, <2>3, <2>4
<1> QED
  BY <1>5, <1>6

LEMMA EndStepBooked ==
  ASSUME TypeOK, Sound(State, started, ended), Booked(State), EndStep
  PROVE  Booked(State)'
<1> DEFINE released == ({v \in started : assignment[v] # None} \cup ended) \cap active
           Let(a) == {v \in released : assignment[v] = a}
<1>1. /\ reserved' = [a \in Areas |-> Released(a, Cardinality(Let(a)))]
      /\ active' = active \ released
      /\ assignment' = [v \in Vehicles |-> IF v \in ended THEN None ELSE assignment[v]]
      /\ UNCHANGED stop
  BY DEF EndStep
<1>2. active \subseteq Vehicles /\ reserved \in [Areas -> Nat]
  BY DEF TypeOK, State, Snapshot
<1> SUFFICES ASSUME NEW a \in Areas
             PROVE  /\ reserved'[a] = Cardinality(Holding(State, a)')
                    /\ Cardinality(SentTo(State, a)') <= Capacity[a]
  BY DEF Booked, State
<1>3. /\ reserved[a] = Cardinality(Holding(State, a))
      /\ Cardinality(SentTo(State, a)) <= Capacity[a]
  BY DEF Booked, State
<1>4. Let(a) \subseteq Holding(State, a)
  BY <1>2 DEF Holding, State
<1>5. Holding(State, a)' = Holding(State, a) \ Let(a)
  BY <1>1, <1>2 DEF Holding, State
<1>6. /\ IsFiniteSet(Holding(State, a))
      /\ Cardinality(Holding(State, a)) \in Nat
      /\ Cardinality(Let(a)) \in Nat
  BY <1>2, FiniteVehicles DEF Holding
<1>7. Holding(State, a) \cap Let(a) = Let(a)
  BY <1>4
<1>8. Cardinality(Holding(State, a)') = Cardinality(Holding(State, a)) - Cardinality(Let(a))
  <2> HIDE DEF Let
  <2> QED
    BY <1>5, <1>6, <1>7, FS_Difference
<1>9. Cardinality(Let(a)) <= Cardinality(Holding(State, a))
  <2>1. Holding(State, a) \subseteq Vehicles
    BY DEF Holding
  <2> HIDE DEF Let
  <2> QED
    BY <1>4, <2>1, SmallerSet
<1>10. reserved'[a] = Cardinality(Holding(State, a)) - Cardinality(Let(a))
  <2> HIDE DEF Let
  <2> QED
    BY <1>1, <1>3, <1>6, <1>9 DEF Released
<1>11. SentTo(State, a)' = SentTo(State, a)
  BY <1>1 DEF SentTo, State
<1> QED
  BY <1>3, <1>8, <1>10, <1>11


-----------------------------------------------------------------------------
(* No reservation is left behind.                                          *)

\* A vehicle that vanishes is counted.
LEMMA VanishedGrows ==
  ASSUME TypeOK, SimulationStep, vanished' = 0, NEW v \in Vehicles,
         stop[v] # None, place[v] \in Edges
  PROVE  place'[v] # Gone /\ vanished = 0
<1> DEFINE lost == {u \in Vehicles : stop[u] # None /\ place[u] \in Edges
                                     /\ place'[u] = Gone}
<1>1. vanished' = vanished + Cardinality(lost)
  BY DEF SimulationStep
<1>2. IsFiniteSet(lost) /\ Cardinality(lost) \in Nat
  BY FiniteVehicles
<1>3. vanished \in Nat
  BY ParkingAssumption DEF TypeOK, ParkingAssumption
<1>4. Cardinality(lost) = 0 /\ vanished = 0
  <2> HIDE DEF lost
  <2> QED
    BY <1>1, <1>2, <1>3
<1>5. lost = {}
  <2> HIDE DEF lost
  <2> QED
    BY <1>2, <1>4, FS_EmptySet
<1> QED
  BY <1>4, <1>5

LEMMA VanishedKept ==
  ASSUME TypeOK, SimulationStep, vanished' = 0
  PROVE  vanished = 0
<1> DEFINE lost == {u \in Vehicles : stop[u] # None /\ place[u] \in Edges
                                     /\ place'[u] = Gone}
<1>1. vanished' = vanished + Cardinality(lost)
  BY DEF SimulationStep
<1>2. Cardinality(lost) \in Nat
  BY FiniteVehicles
<1>3. vanished \in Nat
  BY ParkingAssumption DEF TypeOK, ParkingAssumption
<1> HIDE DEF lost
<1> QED
  BY <1>1, <1>2, <1>3

LEMMA SimulationStepKept ==
  ASSUME TypeOK, Steady, Sound(State, started, ended),
         AllKept(State, started, ended), SimulationStep, vanished' = 0
  PROVE  AllKept(State, started, ended)'
<1> SUFFICES ASSUME NEW v \in Vehicles, v \in active'
             PROVE  \/ stop'[v] # None /\ place'[v] \in Edges
                    \/ v \in started' \cup ended'
  BY DEF AllKept, Kept, State
<1>1. v \in active
  BY DEF SimulationStep, bookVars
<1>2. stop[v] # None /\ place[v] \in Edges
  BY <1>1 DEF AllKept, Kept, State, Steady, SimulationStep
<1>3. place'[v] # Gone
  BY <1>2, VanishedGrows
<1>4. place'[v] \in Edges \cup Areas /\ place[v] \notin Areas
      /\ place[v] \notin {Waiting, Gone}
  BY <1>2, <1>3, ParkingAssumption
     DEF ParkingAssumption, SimulationStep, MayMove, TypeOK, State, Snapshot
<1>5. CASE place'[v] \in Areas
  BY <1>4, <1>5 DEF SimulationStep
<1>6. CASE place'[v] \in Edges
  <2>1. v \notin ended' /\ v \notin arrived'
    BY <1>3, <1>4 DEF SimulationStep
  <2>2. stop'[v] = stop[v]
    BY <2>1 DEF SimulationStep
  <2> QED
    BY <1>2, <1>6, <2>2
<1> QED
  BY <1>4, <1>5, <1>6

LEMMA VisitKept ==
  ASSUME TypeOK, Sound(State, started, ended), AllKept(State, started, ended),
         NEW v \in Vehicles,
         DriveOn(v) \/ AttemptFails(v) \/ Assign(v) \/ AssignmentFails(v)
  PROVE  AllKept(State, started, ended)'
<1>1. UNCHANGED <<started, ended>>
  BY DEF DriveOn, AttemptFails, Assign, AssignmentFails, Visit
<1>2. CASE DriveOn(v)
  BY <1>1, <1>2 DEF DriveOn, bookVars, AllKept, Kept, State
<1>3. CASE Assign(v)
  <2>1. PICK a \in Areas :
          /\ place[v] \in Edges
          /\ stop' = [stop EXCEPT ![v] = a]
          /\ active' = active \cup {v}
          /\ UNCHANGED place
    BY <1>3, AssignEffect
  <2>2. /\ stop \in [Vehicles -> Areas \cup {None}]
        /\ None \notin Areas
    BY ParkingAssumption DEF ParkingAssumption, TypeOK, State, Snapshot
  <2> QED
    BY <1>1, <2>1, <2>2 DEF AllKept, Kept, State
<1>4. CASE AttemptFails(v) \/ AssignmentFails(v)
  <2>1. Decides(v) /\ UNCHANGED active
    BY <1>4 DEF AttemptFails, AssignmentFails
  <2>2. stop[v] = None
    BY <2>1 DEF Decides, Sound, Settled, State
  <2>3. /\ place' = place \/ place' = [place EXCEPT ![v] = Gone]
        /\ stop' = stop \/ stop' = [stop EXCEPT ![v] = None]
    BY <1>4 DEF AttemptFails, AssignmentFails, SearchOn
  <2>4. \A u \in Vehicles \ {v} : place'[u] = place[u] /\ stop'[u] = stop[u]
    BY <2>3 DEF TypeOK, State, Snapshot
  <2> QED
    BY <1>1, <2>1, <2>2, <2>4 DEF AllKept, Kept, State
<1> QED
  BY <1>2, <1>3, <1>4

LEMMA EndStepKept ==
  ASSUME TypeOK, Sound(State, started, ended), AllKept(State, started, ended), EndStep
  PROVE  AllKept(State', {}, {})
<1> SUFFICES ASSUME NEW v \in Vehicles, v \in active'
             PROVE  stop'[v] # None /\ place'[v] \in Edges
  BY DEF AllKept, Kept, State
<1>1. /\ v \in active
      /\ v \notin {u \in started : assignment[u] # None} \cup ended
      /\ UNCHANGED <<place, stop>>
  BY DEF EndStep
<1>2. v \in started => assignment[v] # None
  BY ParkingAssumption DEF ParkingAssumption, Sound, Settled, State
<1> QED
  BY <1>1, <1>2 DEF AllKept, Kept, State

-----------------------------------------------------------------------------
(* The invariant.                                                          *)

LEMMA InitInv == Init => Inv
<1> SUFFICES ASSUME Init PROVE Inv
  OBVIOUS
<1>1. TypeOK
  BY InitTypeOK
<1>2. State = saved \/ saved = None
  BY DEF Init
<1>3. started = {} /\ ended = {}
  BY DEF Init
<1>4. Areas \cap (Edges \cup {None, Waiting, Gone}) = {} /\ Waiting \notin Edges
  BY ParkingAssumption DEF ParkingAssumption
<1>5. Sound(State, {}, {})
  <2> SUFFICES ASSUME NEW v \in Vehicles
               PROVE  Settled(State, v, {}, {}) /\ Tracked(State, v, {}, {})
                      /\ Searching(State, v)
    BY DEF Sound
  <2>1. InitialLot[v] \in PlannedLots(v)
    BY ParkingAssumption DEF ParkingAssumption, PlannedLots
  <2> QED
    BY <1>4, <2>1 DEF Init, Settled, Tracked, Searching, State
<1>6. Booked(State)
  <2> SUFFICES ASSUME NEW a \in Areas
               PROVE  /\ reserved[a] = Cardinality(Holding(State, a))
                      /\ Cardinality(SentTo(State, a)) <= Capacity[a]
    BY DEF Booked, State
  <2>1. Holding(State, a) = {} /\ SentTo(State, a) = {}
    BY <1>4 DEF Init, Holding, SentTo, State
  <2>2. Capacity[a] \in Nat /\ reserved[a] = 0
    BY ParkingAssumption DEF ParkingAssumption, Init
  <2> QED
    BY <2>1, <2>2, FS_EmptySet
<1>7. AllKept(State, {}, {})
  BY DEF Init, AllKept, Kept, State
<1> QED
  BY <1>1, <1>2, <1>3, <1>5, <1>6, <1>7 DEF Inv

LEMMA RecoverInv ==
  ASSUME Inv, Recover
  PROVE  Inv'
<1>1. saved \in Snapshot /\ UNCHANGED <<started, ended, saved, failures, vanished, stage>>
  BY DEF Recover, Inv, TypeOK
<1>2. State' = saved
  BY <1>1 DEF Recover, State, Snapshot, TrackerRestored, BooksRestored
<1>3. started = {} /\ ended = {} /\ saved # None
  BY DEF Inv, Recover
<1>4. TypeOK'
  BY RecoverTypeOK DEF Inv
<1>5. Sound(State', started', ended') /\ Sound(saved', {}, {})
  BY <1>1, <1>2, <1>3 DEF Inv
<1>6. failures' = 0 => Booked(State') /\ Booked(saved')
  BY <1>1, <1>2, <1>3 DEF Inv
<1>7. vanished' = 0 => AllKept(State', started', ended') /\ AllKept(saved', {}, {})
  BY <1>1, <1>2, <1>3 DEF Inv
<1>8. started' = {} /\ ended' = {}
  BY <1>1, <1>3
<1> QED
  BY <1>4, <1>5, <1>6, <1>7, <1>8 DEF Inv

LEMMA SimulationStepInv ==
  ASSUME Inv, SimulationStep
  PROVE  Inv'
<1>1. stage' = "decide" /\ UNCHANGED <<saved, failures>>
  BY DEF SimulationStep
<1>2. TypeOK'
  BY SimulationStepTypeOK DEF Inv
<1>3. Sound(State, started, ended)'
  BY SimulationStepSound DEF Inv, Steady
<1>4. failures' = 0 => Booked(State)'
  BY <1>1, SimulationStepBooked DEF Inv
<1>5. vanished' = 0 => vanished = 0
  BY VanishedKept DEF Inv
<1>6. vanished' = 0 => AllKept(State, started, ended)'
  BY <1>5, SimulationStepKept DEF Inv, Steady
<1>7. saved' # None => Sound(saved', {}, {})
  BY <1>1 DEF Inv
<1>8. failures' = 0 /\ saved' # None => Booked(saved')
  BY <1>1 DEF Inv
<1>9. vanished' = 0 /\ saved' # None => AllKept(saved', {}, {})
  BY <1>1, <1>5 DEF Inv
<1> QED
  BY <1>1, <1>2, <1>3, <1>4, <1>6, <1>7, <1>8, <1>9 DEF Inv

LEMMA VisitInv ==
  ASSUME Inv, NEW v \in Vehicles,
         DriveOn(v) \/ AttemptFails(v) \/ Assign(v) \/ AssignmentFails(v)
  PROVE  Inv'
<1>1. stage' = "decide" /\ UNCHANGED <<saved, vanished>>
  BY DEF DriveOn, AttemptFails, Assign, AssignmentFails, Visit
<1>2. TypeOK'
  BY VisitTypeOK DEF Inv
<1>3. Sound(State, started, ended)'
  BY DriveOnSound, AttemptFailsSound, AssignSound, AssignmentFailsSound DEF Inv
<1>4. failures' = 0 => failures = 0 /\ ~AssignmentFails(v)
  BY ParkingAssumption
     DEF ParkingAssumption, Inv, TypeOK, DriveOn, AttemptFails, Assign, AssignmentFails
<1>5. failures' = 0 => Booked(State)'
  BY <1>4, AttemptBooked, AssignBooked DEF Inv
<1>6. vanished' = 0 => AllKept(State, started, ended)'
  BY <1>1, VisitKept DEF Inv
<1>7. saved' # None => Sound(saved', {}, {})
  BY <1>1 DEF Inv
<1>8. failures' = 0 /\ saved' # None => Booked(saved')
  BY <1>1, <1>4 DEF Inv
<1>9. vanished' = 0 /\ saved' # None => AllKept(saved', {}, {})
  BY <1>1 DEF Inv
<1> QED
  BY <1>1, <1>2, <1>3, <1>5, <1>6, <1>7, <1>8, <1>9 DEF Inv

LEMMA EndStepInv ==
  ASSUME Inv, EndStep
  PROVE  Inv'
<1>1. /\ started' = {} /\ ended' = {}
      /\ UNCHANGED <<failures, vanished>>
      /\ saved' \in {saved, None, State'}
  BY DEF EndStep
<1>2. TypeOK'
  BY EndStepTypeOK DEF Inv
<1>3. Sound(State', {}, {})
  BY EndStepSound DEF Inv
<1>4. failures' = 0 => Booked(State')
  BY <1>1, EndStepBooked DEF Inv
<1>5. vanished' = 0 => AllKept(State', {}, {})
  BY <1>1, EndStepKept DEF Inv
<1>6. saved' # None => Sound(saved', {}, {})
  BY <1>1, <1>3 DEF Inv
<1>7. failures' = 0 /\ saved' # None => Booked(saved')
  BY <1>1, <1>4 DEF Inv
<1>8. vanished' = 0 /\ saved' # None => AllKept(saved', {}, {})
  BY <1>1, <1>5 DEF Inv
<1> QED
  BY <1>1, <1>2, <1>3, <1>4, <1>5, <1>6, <1>7, <1>8 DEF Inv

LEMMA NextInv == Inv /\ [Next]_vars => Inv'
<1> SUFFICES ASSUME Inv, [Next]_vars PROVE Inv'
  OBVIOUS
<1>1. CASE UNCHANGED vars
  <2>1. UNCHANGED <<State, saved, stage, started, ended, failures, vanished>>
    BY <1>1 DEF vars, sumoVars, trackerVars, bookVars, State
  <2>2. TypeOK'
    BY <1>1, NextTypeOK DEF Inv
  <2>3. Sound(State', started', ended') /\ (saved' # None => Sound(saved', {}, {}))
    BY <2>1 DEF Inv
  <2>4. failures' = 0 => Booked(State') /\ (saved' # None => Booked(saved'))
    BY <2>1 DEF Inv
  <2>5. vanished' = 0 => AllKept(State', started', ended')
                         /\ (saved' # None => AllKept(saved', {}, {}))
    BY <2>1 DEF Inv
  <2> QED
    BY <2>1, <2>2, <2>3, <2>4, <2>5 DEF Inv
<1>2. CASE Next
  BY <1>2, SimulationStepInv, RecoverInv, VisitInv, EndStepInv DEF Next
<1> QED
  BY <1>1, <1>2

\* The inductive invariant: SUMO, the controller and its checkpoint each agree
\* with themselves, whatever step comes next and wherever SUMO dies.
THEOREM InvHolds == Spec => []Inv
BY InitInv, NextInv, PTL DEF Spec

-----------------------------------------------------------------------------
(* The properties.                                                         *)

LEMMA InvNeverOverbooked == Inv => NeverOverbooked
<1> SUFFICES ASSUME Inv, failures = 0, NEW a \in Areas
             PROVE  Occupied(a) + Cardinality(Heading(a)) <= Capacity[a]
  BY DEF NeverOverbooked
<1>1. Cardinality(SentTo(State, a)) = Occupied(a) + Cardinality(Heading(a))
  BY SentToIsPromised DEF Inv
<1> QED
  BY <1>1 DEF Inv, Booked

\* As long as no assignment was refused, no vehicle is sent to an area without
\* a space for it, however many vehicles and areas there are and whenever SUMO
\* dies: reserved spaces are off limits to everybody else
\* (parking_group_manager.py, main.py 955-985).
THEOREM NeverOverbookedHolds == Spec => []NeverOverbooked
BY InvHolds, InvNeverOverbooked, PTL

LEMMA InvReservationsAgree == Inv => ReservationsAgree
<1> SUFFICES ASSUME Inv, failures = 0, vanished = 0, stage = "step", NEW a \in Areas
             PROVE  reserved[a] = Cardinality(Heading(a))
  BY DEF ReservationsAgree, ReservationsAreInbound
<1>1. reserved[a] = Cardinality(Holding(State, a))
  BY DEF Inv, Booked, State
<1>2. Holding(State, a) \subseteq Heading(a)
  <2> SUFFICES ASSUME NEW v \in Holding(State, a) PROVE v \in Heading(a)
    OBVIOUS
  <2>1. v \in Vehicles /\ v \in active /\ assignment[v] = a
    BY DEF Holding, State
  <2>2. stop[v] # None /\ place[v] \in Edges
    BY <2>1 DEF Inv, AllKept, Kept, State
  <2>3. stop[v] = assignment[v]
    BY <2>1, <2>2 DEF Inv, Sound, Settled, State
  <2> QED
    BY <2>1, <2>2, <2>3 DEF Heading
<1>3. Heading(a) \subseteq Holding(State, a)
  BY HeadingHolds DEF Inv
<1>4. Heading(a) = Holding(State, a)
  BY <1>2, <1>3
<1> QED
  BY <1>1, <1>4

\* Between two steps the reservations of an area are the vehicles on their way
\* to it, as long as no assignment is refused and no vehicle vanishes.
THEOREM ReservationsAgreeHolds == Spec => []ReservationsAgree
BY InvHolds, InvReservationsAgree, PTL

LEMMA InvSearchMakesProgress == Inv => SearchMakesProgress
<1> SUFFICES ASSUME Inv, NEW v \in Vehicles, Decides(v), place[v] \in Edges
             PROVE  target[v] \in PlannedLots(v) \ (attempted[v] \cup rejected[v])
  BY DEF SearchMakesProgress
<1>1. Searching(State, v)
  BY DEF Inv, Sound
<1> QED
  BY <1>1, ParkingAssumption DEF ParkingAssumption, Searching, State, Decides

\* A vehicle that still looks for a space is on its way to a lot of its plan it
\* has neither tried nor ruled out (main.py 640-700, 1135-1300).
THEOREM SearchMakesProgressHolds == Spec => []SearchMakesProgress
BY InvHolds, InvSearchMakesProgress, PTL

LEMMA InvBooksAgree == Inv => BooksAgree
<1> SUFFICES ASSUME Inv, stage = "step", NEW v \in Vehicles, NEW a \in Areas
             PROVE  place[v] = a <=> assignment[v] = a /\ status[v] = "parked"
  BY DEF BooksAgree
<1>1. started = {} /\ ended = {}
  BY DEF Inv
<1>2. Settled(State, v, started, ended) /\ Tracked(State, v, started, ended)
  BY DEF Inv, Sound
<1>3. None \notin Areas
  BY ParkingAssumption DEF ParkingAssumption
<1> QED
  BY <1>1, <1>2, <1>3 DEF Settled, Tracked, State

\* Between two steps the controller has a vehicle parked in an area exactly when
\* SUMO has it stopped there, refused assignments and recoveries included.
THEOREM BooksAgreeHolds == Spec => []BooksAgree
BY InvHolds, InvBooksAgree, PTL

-----------------------------------------------------------------------------
(***************************************************************************)
(* The counter: its state is what the observed paths make it (CounterInv), *)
(* a count for each zone and period, and the charts add them up.           *)
(***************************************************************************)
Spots == Walking \cup {Nowhere}

\* Was and EntersAt, for given paths.
At(way, p, i) == IF i < 1 THEN Nowhere ELSE way[p][i]

EntersBy(z, from, to) == ~ Within(z, from) /\ (Within(z, to) \/ JumpsOver(z, from, to))

EnteredAt(way, p, z, i) == EntersBy(z, At(way, p, i - 1), At(way, p, i))

\* The entries of zone z in the k-th period of the first n steps.
InPeriod(way, n, z, k) ==
  {x \in People \X (1 .. n) : (x[2] - 1) \div Period = k /\ EnteredAt(way, x[1], z, x[2])}

Tallied(s) ==
  /\ s.clock \in 0 .. MaxClock
  /\ s.path \in [People -> Seq(Spots)]
  /\ \A p \in People : Len(s.path[p]) = s.clock
  /\ s.previous = [p \in People |-> At(s.path, p, s.clock)]
  /\ s.inside = [p \in People |-> {z.id : z \in {y \in Zones : Within(y, s.previous[p])}}]
  /\ s.buckets = [z \in Zones |-> [k \in 0 .. (MaxClock \div Period) |->
                                     Cardinality(InPeriod(s.path, s.clock, z, k))]]

Counter == [clock |-> clock, path |-> path, previous |-> previous,
            inside |-> inside, buckets |-> buckets]

CounterInv ==
  /\ Tallied(Counter) /\ Tallied(checkpoint)
  /\ counting = "written" => clock > 0 /\ written = E2Intervals

\* Zones are told apart by their names, and their ends are in order.
LEMMA ZonesApart ==
  /\ IsFiniteSet(Zones)
  /\ \A z, y \in Zones : z.id = y.id => z = y
  /\ \A z \in Zones : z.low \in Int /\ z.high \in Int /\ z.low <= z.high
<1> DEFINE Usable(i) == Physical[i].first # Physical[i].last
           Twin(i, j) == /\ Physical[i].measurement = Physical[j].measurement
                         /\ Physical[i].road = Physical[j].road
           chosen == {i \in DOMAIN Physical :
                        Usable(i) /\ ~\E j \in 1 .. (i - 1) : Usable(j) /\ Twin(i, j)}
           Zone(i) == [id |-> Physical[i].id, measurement |-> Physical[i].measurement,
                       road |-> Physical[i].road,
                       low |-> Min({Physical[i].first, Physical[i].last}),
                       high |-> Max({Physical[i].first, Physical[i].last})]
           f == [i \in DOMAIN Physical |-> Zone(i)]
<1>1. Zones = {Zone(i) : i \in chosen}
  BY DEF Zones
<1>2. chosen \subseteq DOMAIN Physical
  OBVIOUS
<1> HIDE DEF chosen
<1>3. IsFiniteSet(DOMAIN Physical)
  <2>1. PICK n \in Nat : DOMAIN Physical = 1 .. n
    BY CountingAssumption
  <2> QED
    BY <2>1, FS_Interval
<1>0. \A z \in Zones : \E i \in DOMAIN Physical : z = Zone(i)
  BY <1>1, <1>2
<1>4. \A z \in Zones : \E i \in DOMAIN Physical : z = f[i]
  BY <1>0
<1>5. IsFiniteSet(Zones)
  <2> HIDE DEF f
  <2> QED
    BY <1>3, <1>4, ImageFinite
<1>6. ASSUME NEW z \in Zones, NEW y \in Zones, z.id = y.id PROVE z = y
  <2>1. PICK i \in DOMAIN Physical : z = Zone(i)
    BY <1>0
  <2>2. PICK j \in DOMAIN Physical : y = Zone(j)
    BY <1>0
  <2>3. i = j
    <3>1. z.id = Physical[i].id /\ y.id = Physical[j].id
      BY <2>1, <2>2
    <3> QED
      BY <1>6, <3>1, CountingAssumption
  <2> QED
    BY <2>1, <2>2, <2>3
<1>7. ASSUME NEW z \in Zones PROVE z.low \in Int /\ z.high \in Int /\ z.low <= z.high
  <2>1. PICK i \in DOMAIN Physical : z = Zone(i)
    BY <1>0
  <2> DEFINE a == Physical[i].first
             b == Physical[i].last
  <2>2. z.low = Min({a, b}) /\ z.high = Max({a, b})
    BY <2>1
  <2>3. a \in Int /\ b \in Int
    BY CountingAssumption
  <2> HIDE DEF a, b
  <2>4. /\ Min({a, b}) \in {a, b} /\ Min({a, b}) <= a
        /\ Max({a, b}) \in {a, b} /\ a <= Max({a, b})
    BY <2>3, MinOfTwo, MaxOfTwo
  <2> QED
    BY <2>2, <2>3, <2>4
<1> QED
  BY <1>5, <1>6, <1>7

\* Who is known to be inside a zone is not counted, and who is not, is.
LEMMA EntersKnown ==
  ASSUME Tallied(Counter), NEW p \in People, NEW z \in Zones, NEW spot,
         NEW way, At(way, p, clock) = previous[p], At(way, p, clock + 1) = spot
  PROVE  Enters(p, z, spot) <=> EnteredAt(way, p, z, clock + 1)
<1>1. clock \in Nat
  BY CountingAssumption DEF Tallied, Counter
<1>2. inside[p] = {y.id : y \in {x \in Zones : Within(x, previous[p])}}
  BY DEF Tallied, Counter
<1>3. z.id \in inside[p] <=> Within(z, previous[p])
  BY <1>2, ZonesApart
<1>4. At(way, p, clock + 1 - 1) = previous[p]
  BY <1>1
<1>5. EnteredAt(way, p, z, clock + 1) <=> EntersBy(z, previous[p], spot)
  BY <1>1, <1>4 DEF EnteredAt
<1> QED
  BY <1>3, <1>5 DEF Enters, EntersBy

\* A period has finitely many entries.
LEMMA InPeriodFinite ==
  ASSUME NEW way, NEW n \in Nat, NEW z, NEW k
  PROVE  IsFiniteSet(InPeriod(way, n, z, k)) /\ Cardinality(InPeriod(way, n, z, k)) \in Nat
<1>1. IsFiniteSet(People) /\ IsFiniteSet(1 .. n)
  <2>1. IsFiniteSet(People)
    BY CountingAssumption
  <2>2. IsFiniteSet(1 .. n)
    BY FS_Interval
  <2> QED
    BY <2>1, <2>2
<1>2. IsFiniteSet(People \X (1 .. n))
  BY <1>1, FS_Product
<1>3. InPeriod(way, n, z, k) \subseteq People \X (1 .. n)
  BY DEF InPeriod
<1> QED
  BY <1>2, <1>3, FS_Subset, FS_CardinalityType

\* One more observation of everybody.
LEMMA WalkTallies ==
  ASSUME Tallied(Counter), clock < MaxClock,
         NEW at \in [People -> Walking \cup {Nowhere}], Observe(at),
         path' = [p \in People |-> Append(path[p], at[p])], clock' = clock + 1
  PROVE  Tallied(Counter)'
<1> DEFINE n == clock + 1
           way == path'
           now == clock \div Period
           most == MaxClock \div Period
<1>1. /\ clock \in Nat /\ MaxClock \in Nat /\ n \in Nat /\ n <= MaxClock /\ Period \in Nat \ {0}
      /\ path \in [People -> Seq(Spots)] /\ \A p \in People : Len(path[p]) = clock
      /\ previous = [p \in People |-> At(path, p, clock)]
      /\ buckets = [z \in Zones |-> [k \in 0 .. most |->
                                       Cardinality(InPeriod(path, clock, z, k))]]
  <2>1. clock \in 0 .. MaxClock /\ MaxClock \in Nat /\ Period \in Nat \ {0}
    BY CountingAssumption DEF Tallied, Counter
  <2>2. /\ path \in [People -> Seq(Spots)] /\ \A p \in People : Len(path[p]) = clock
        /\ previous = [p \in People |-> At(path, p, clock)]
        /\ buckets = [z \in Zones |-> [k \in 0 .. most |->
                                         Cardinality(InPeriod(path, clock, z, k))]]
    BY DEF Tallied, Counter
  <2> QED
    BY <2>1, <2>2
<1>2. now \in 0 .. most
  <2>1. clock \in Nat /\ MaxClock \in Nat /\ clock <= MaxClock /\ Period \in Nat \ {0}
    BY <1>1
  <2>2. now \in Nat /\ most \in Nat /\ now <= most
    BY <2>1, QuotientGrows
  <2> HIDE DEF now, most
  <2> QED
    BY <2>2
<1>3. way = [p \in People |-> Append(path[p], at[p])] /\ \A p \in People : at[p] \in Spots
  BY DEF Spots
<1>4. ASSUME NEW p \in People
      PROVE  /\ way[p] \in Seq(Spots) /\ Len(way[p]) = n
             /\ \A i \in 1 .. clock : way[p][i] = path[p][i]
             /\ way[p][n] = at[p]
  BY <1>1, <1>3
<1>5. way \in [People -> Seq(Spots)]
  <2>1. \A p \in People : Append(path[p], at[p]) \in Seq(Spots)
    BY <1>3, <1>4
  <2> QED
    BY <1>3, <2>1
<1> HIDE DEF way
<1>6. ASSUME NEW p \in People
      PROVE  /\ \A i \in 0 .. clock : At(way, p, i) = At(path, p, i)
             /\ At(way, p, n) = at[p]
  BY <1>1, <1>4 DEF At
<1>7. \A p \in People : \A z : \A i \in 1 .. clock :
        EnteredAt(way, p, z, i) <=> EnteredAt(path, p, z, i)
  <2> SUFFICES ASSUME NEW p \in People, NEW z, NEW i \in 1 .. clock
               PROVE  EnteredAt(way, p, z, i) <=> EnteredAt(path, p, z, i)
    OBVIOUS
  <2>1. i \in 0 .. clock /\ i - 1 \in 0 .. clock
    BY <1>1
  <2>2. At(way, p, i) = At(path, p, i) /\ At(way, p, i - 1) = At(path, p, i - 1)
    BY <1>6, <2>1
  <2> QED
    BY <2>2 DEF EnteredAt
<1>8. \A p \in People : \A z \in Zones : Enters(p, z, at[p]) <=> EnteredAt(way, p, z, n)
  <2> SUFFICES ASSUME NEW p \in People, NEW z \in Zones
               PROVE  Enters(p, z, at[p]) <=> EnteredAt(way, p, z, n)
    OBVIOUS
  <2>1. clock \in 0 .. clock
    BY <1>1
  <2>2. At(way, p, clock) = previous[p] /\ At(way, p, clock + 1) = at[p]
    BY <1>1, <1>6, <2>1
  <2> QED
    BY <2>2, EntersKnown
<1>9. ASSUME NEW z \in Zones, NEW k \in 0 .. most
      PROVE  Recorded(at)[z][k] = Cardinality(InPeriod(way, n, z, k))
  <2> DEFINE old == InPeriod(path, clock, z, k)
             new == {p \in People : Enters(p, z, at[p])}
             fresh == {<<p, n>> : p \in new}
  <2>1. IsFiniteSet(old) /\ Cardinality(old) \in Nat /\ buckets[z][k] = Cardinality(old)
    BY <1>1, InPeriodFinite
  <2>2. IsFiniteSet(new) /\ Cardinality(new) \in Nat
    <3>1. IsFiniteSet(People) /\ new \subseteq People
      BY CountingAssumption
    <3> QED
      BY <3>1, FS_Subset, FS_CardinalityType
  <2>3. IsFiniteSet(fresh) /\ Cardinality(fresh) = Cardinality(new)
    <3> HIDE DEF new
    <3>1. Copied(new, n, fresh)
      BY DEF Copied
    <3> HIDE DEF fresh, n
    <3> QED
      BY <2>2, <3>1, Copies
  <2>4. Recorded(at)[z] = [buckets[z] EXCEPT ![now] = @ + Cardinality(new)]
    BY DEF Recorded
  <2>5. \A x : x \in InPeriod(way, n, z, k) <=>
                 x \in old \/ (now = k /\ x \in fresh)
    <3> SUFFICES ASSUME NEW p \in People, NEW i \in 1 .. n
                 PROVE  <<p, i>> \in InPeriod(way, n, z, k) <=>
                          <<p, i>> \in old \/ (now = k /\ <<p, i>> \in fresh)
      <4>1. \A x \in old : \E q \in People, j \in 1 .. n : x = <<q, j>>
        BY <1>1 DEF InPeriod
      <4>2. \A x \in fresh : \E q \in People, j \in 1 .. n : x = <<q, j>>
        BY <1>1
      <4>3. \A x \in InPeriod(way, n, z, k) : \E q \in People, j \in 1 .. n : x = <<q, j>>
        BY DEF InPeriod
      <4> HIDE DEF old, fresh, now
      <4> QED
        BY <4>1, <4>2, <4>3
    <3>1. <<p, i>> \in InPeriod(way, n, z, k) <=>
            (i - 1) \div Period = k /\ EnteredAt(way, p, z, i)
      BY DEF InPeriod
    <3>2. CASE i = n
      <4>1. <<p, i>> \notin old
        BY <1>1, <3>2 DEF InPeriod
      <4>2. (i - 1) \div Period = now
        BY <1>1, <3>2
      <4>3. <<p, i>> \in fresh <=> Enters(p, z, at[p])
        BY <3>2
      <4>4. EnteredAt(way, p, z, i) <=> Enters(p, z, at[p])
        BY <1>8, <3>2
      <4> HIDE DEF old, fresh, now
      <4> QED
        BY <3>1, <4>1, <4>2, <4>3, <4>4
    <3>3. CASE i # n
      <4>1. i \in 1 .. clock
        BY <1>1, <3>3
      <4>2. <<p, i>> \in old <=> (i - 1) \div Period = k /\ EnteredAt(path, p, z, i)
        BY <4>1 DEF InPeriod
      <4>3. <<p, i>> \notin fresh
        BY <3>3
      <4> HIDE DEF old, fresh, now
      <4> QED
        BY <1>7, <3>1, <4>1, <4>2, <4>3
    <3> QED
      BY <3>2, <3>3
  <2>6. CASE now = k
    <3>1. InPeriod(way, n, z, k) = old \cup fresh
      BY <2>5, <2>6
    <3>2. old \cap fresh = {}
      BY <1>1 DEF InPeriod
    <3> HIDE DEF old, fresh, new
    <3>3. Cardinality(InPeriod(way, n, z, k)) = Cardinality(old) + Cardinality(new)
      BY <2>1, <2>3, <3>1, <3>2, TwoParts
    <3>4. Recorded(at)[z][k] = buckets[z][k] + Cardinality(new)
      BY <1>1, <1>2, <2>4, <2>6
    <3> QED
      BY <2>1, <3>3, <3>4
  <2>7. CASE now # k
    <3>1. InPeriod(way, n, z, k) = old
      BY <2>5, <2>7
    <3>2. Recorded(at)[z][k] = buckets[z][k]
      BY <1>1, <2>4, <2>7
    <3> QED
      BY <2>1, <3>1, <3>2
  <2> QED
    BY <2>6, <2>7
<1>10. Recorded(at) = [z \in Zones |-> [k \in 0 .. most |-> Cardinality(InPeriod(way, n, z, k))]]
  <2>1. ASSUME NEW z \in Zones
        PROVE  Recorded(at)[z] = [k \in 0 .. most |-> Cardinality(InPeriod(way, n, z, k))]
    <3> DEFINE row == Recorded(at)[z]
    <3>1. \E u : row = [buckets[z] EXCEPT ![now] = u]
      BY DEF Recorded
    <3>2. DOMAIN row = 0 .. most /\ row = [k \in DOMAIN row |-> row[k]]
      BY <1>1, <3>1
    <3>3. \A k \in 0 .. most : row[k] = Cardinality(InPeriod(way, n, z, k))
      BY <1>9
    <3> HIDE DEF row, most, now
    <3> QED
      BY <3>2, <3>3 DEF row
  <2>2. Recorded(at) = [z \in Zones |-> Recorded(at)[z]]
    BY DEF Recorded
  <2> QED
    BY <2>1, <2>2
<1>11. previous' = [p \in People |-> At(way, p, n)]
  <2>1. previous' = at
    BY DEF Observe
  <2> QED
    BY <1>6, <2>1
<1>12. inside' = [p \in People |-> {z.id : z \in {y \in Zones : Within(y, previous'[p])}}]
  BY DEF Observe
<1>13. buckets' = [z \in Zones |-> [k \in 0 .. most |-> Cardinality(InPeriod(way, n, z, k))]]
  BY <1>10 DEF Observe
<1>14. clock' = n /\ n \in 0 .. MaxClock
  BY <1>1
<1> HIDE DEF n, most
<1> QED
  BY <1>4, <1>5, <1>11, <1>12, <1>13, <1>14 DEF Tallied, Counter, way, most

\* Nothing is counted before the first step.
LEMMA CounterInitInv == CounterInit => CounterInv
<1> SUFFICES ASSUME CounterInit PROVE CounterInv
  OBVIOUS
<1>1. \A z, k : InPeriod(path, 0, z, k) = {}
  BY DEF InPeriod
<1>2. /\ clock = 0 /\ 0 \in 0 .. MaxClock
      /\ path = [p \in People |-> <<>>] /\ path \in [People -> Seq(Spots)]
      /\ \A p \in People : Len(path[p]) = 0
  BY CountingAssumption DEF CounterInit
<1>3. previous = [p \in People |-> At(path, p, 0)]
  BY DEF CounterInit, At
<1>4. inside = [p \in People |-> {z.id : z \in {y \in Zones : Within(y, previous[p])}}]
  BY DEF CounterInit, Within
<1>5. buckets = [z \in Zones |-> [k \in 0 .. (MaxClock \div Period) |->
                                    Cardinality(InPeriod(path, 0, z, k))]]
  BY <1>1, FS_EmptySet DEF CounterInit
<1>6. Tallied(Counter)
  BY <1>2, <1>3, <1>4, <1>5 DEF Tallied, Counter
<1>7. checkpoint = Counter
  BY <1>2 DEF CounterInit, Counter
<1> QED
  BY <1>6, <1>7 DEF CounterInv, CounterInit

\* A walk, a recovery and the writing of the file keep the counts.
LEMMA CounterNextInv ==
  CounterInv /\ [CounterNext]_counterVars => CounterInv'
<1> SUFFICES ASSUME CounterInv, [CounterNext]_counterVars
             PROVE  CounterInv'
  OBVIOUS
<1>1. ASSUME Walk PROVE CounterInv'
  <2>1. PICK at \in [People -> Walking \cup {Nowhere}] :
          Observe(at) /\ path' = [p \in People |-> Append(path[p], at[p])]
    BY <1>1 DEF Walk
  <2>2. Tallied(Counter)'
    BY <1>1, <2>1, WalkTallies DEF Walk, CounterInv
  <2>3. checkpoint' = checkpoint \/ checkpoint' = Counter'
    BY <1>1 DEF Walk, Counter
  <2>4. Tallied(checkpoint)'
    BY <2>2, <2>3 DEF CounterInv
  <2>5. counting' # "written"
    BY <1>1 DEF Walk
  <2> QED
    BY <2>2, <2>4, <2>5 DEF CounterInv
<1>2. ASSUME Restart PROVE CounterInv'
  <2>1. /\ clock' = checkpoint.clock /\ path' = checkpoint.path
        /\ previous' = checkpoint.previous /\ inside' = checkpoint.inside
        /\ buckets' = checkpoint.buckets /\ checkpoint' = checkpoint
        /\ counting' # "written"
    BY <1>2 DEF Restart
  <2>2. Tallied(checkpoint)
    BY DEF CounterInv
  <2>3. Tallied(Counter)'
    BY <2>1, <2>2 DEF Tallied, Counter
  <2> QED
    BY <2>1, <2>2, <2>3 DEF CounterInv
<1>3. ASSUME WriteCounts PROVE CounterInv'
  <2>1. /\ UNCHANGED <<clock, path, previous, inside, buckets, checkpoint>>
        /\ written' = E2Intervals /\ clock > 0
    BY <1>3 DEF WriteCounts
  <2>2. Tallied(Counter)' /\ Tallied(checkpoint)'
    BY <2>1 DEF CounterInv, Counter
  <2>3. E2Intervals' = E2Intervals
    BY <2>1 DEF E2Intervals
  <2> QED
    BY <2>1, <2>2, <2>3 DEF CounterInv
<1>4. ASSUME UNCHANGED counterVars PROVE CounterInv'
  <2>1. E2Intervals' = E2Intervals /\ Counter' = Counter
    BY <1>4 DEF E2Intervals, Counter, counterVars
  <2> QED
    BY <1>4, <2>1 DEF CounterInv, counterVars
<1> QED
  BY <1>1, <1>2, <1>3, <1>4 DEF CounterNext

(***************************************************************************)
(* The series of SUMO's own detectors: entries less exits are the change   *)
(* of the number within.                                                   *)
(***************************************************************************)

\* Entries and exits of zone z in the steps after the first and up to the n-th.
EntriesUpto(way, z, first, n) ==
  {x \in People \X ((first + 1) .. n) : EnteredAt(way, x[1], z, x[2])}

LeftAt(way, p, z, i) ==
  LET from == At(way, p, i - 1)
      to == At(way, p, i)
  IN  (Within(z, from) /\ ~ Within(z, to)) \/ JumpsOver(z, from, to)

ExitsUpto(way, z, first, n) ==
  {x \in People \X ((first + 1) .. n) : LeftAt(way, x[1], z, x[2])}

Came(way, z, n) == {p \in People : EnteredAt(way, p, z, n)}

Left(way, z, n) == {p \in People : LeftAt(way, p, z, n)}

WithinAt(way, z, n) == {p \in People : Within(z, At(way, p, n))}

\* Who jumps over a zone is on neither side of the jump in it.
LEMMA JumpsOutside ==
  ASSUME NEW z \in Zones, NEW from \in Spots, NEW to \in Spots,
         JumpsOver(z, from, to)
  PROVE  ~ Within(z, from) /\ ~ Within(z, to)
<1> DEFINE a == from.position
           b == to.position
<1>1. from \in Walking /\ to \in Walking
  BY DEF JumpsOver, Spots
<1>2. a \in Int /\ b \in Int
  BY <1>1, CountingAssumption DEF Walking
<1>3. Min({a, b}) < z.low /\ Max({a, b}) > z.high
  BY DEF JumpsOver
<1>4. Min({a, b}) \in {a, b} /\ Max({a, b}) \in {a, b}
  BY <1>2, MinOfTwo, MaxOfTwo
<1>5. z.low \in Int /\ z.high \in Int /\ z.low <= z.high
  BY ZonesApart
<1>6. ~ (z.low <= a /\ a <= z.high) /\ ~ (z.low <= b /\ b <= z.high)
  <2> HIDE DEF a, b
  <2> QED
    BY <1>2, <1>3, <1>4, <1>5
<1> QED
  BY <1>6 DEF Within

\* The step to n.
LEMMA StepBalances ==
  ASSUME NEW way \in [People -> Seq(Spots)], NEW z \in Zones,
         NEW n \in Nat, n >= 1, \A p \in People : Len(way[p]) >= n
  PROVE  Cardinality(Came(way, z, n)) + Cardinality(WithinAt(way, z, n - 1)) =
           Cardinality(Left(way, z, n)) + Cardinality(WithinAt(way, z, n))
<1> DEFINE came == {p \in People : EnteredAt(way, p, z, n)}
           left == {p \in People : LeftAt(way, p, z, n)}
           A == WithinAt(way, z, n - 1)
           B == WithinAt(way, z, n)
           jump == {p \in People : JumpsOver(z, At(way, p, n - 1), At(way, p, n))}
<1>1. \A p \in People : At(way, p, n - 1) \in Spots /\ At(way, p, n) \in Spots
  BY DEF At, Spots
<1>2. \A p \in jump : p \notin A /\ p \notin B
  BY <1>1, JumpsOutside DEF WithinAt
<1>3. A \subseteq People /\ B \subseteq People /\ jump \subseteq People
  BY DEF WithinAt
<1>4. came = (B \ A) \cup jump
  <2>1. \A p \in People : p \in came <=> (p \notin A /\ (p \in B \/ p \in jump))
    BY DEF EnteredAt, EntersBy, WithinAt
  <2> HIDE DEF A, B, jump
  <2> QED
    BY <1>2, <1>3, <2>1
<1>5. left = (A \ B) \cup jump
  <2>1. \A p \in People : p \in left <=> ((p \in A /\ p \notin B) \/ p \in jump)
    BY DEF LeftAt, WithinAt
  <2> HIDE DEF A, B, jump
  <2> QED
    BY <1>2, <1>3, <2>1
<1> HIDE DEF came, left, A, B, jump
<1>6. /\ IsFiniteSet(A) /\ IsFiniteSet(B) /\ IsFiniteSet(jump)
      /\ IsFiniteSet(B \ A) /\ IsFiniteSet(A \ B)
  BY <1>3, FS_Subset, CountingAssumption
<1>7. Cardinality(came) = Cardinality(B \ A) + Cardinality(jump)
  <2>1. (B \ A) \cap jump = {}
    BY <1>2
  <2> QED
    BY <1>4, <1>6, <2>1, TwoParts
<1>8. Cardinality(left) = Cardinality(A \ B) + Cardinality(jump)
  <2>1. (A \ B) \cap jump = {}
    BY <1>2
  <2> QED
    BY <1>5, <1>6, <2>1, TwoParts
<1>9. Cardinality(B \ A) + Cardinality(A) = Cardinality(A \ B) + Cardinality(B)
  BY <1>6, ComeAndGo
<1>10. /\ Cardinality(A) \in Nat /\ Cardinality(B) \in Nat /\ Cardinality(jump) \in Nat
       /\ Cardinality(B \ A) \in Nat /\ Cardinality(A \ B) \in Nat
  BY <1>6, FS_CardinalityType
<1> QED
  <2>1. Cardinality(came) + Cardinality(A) = Cardinality(left) + Cardinality(B)
    <3> DEFINE a == Cardinality(A)
               b == Cardinality(B)
               j == Cardinality(jump)
               in == Cardinality(B \ A)
               out == Cardinality(A \ B)
    <3>1. /\ Cardinality(came) = in + j /\ Cardinality(left) = out + j
          /\ in + a = out + b /\ a \in Nat /\ b \in Nat /\ j \in Nat
          /\ in \in Nat /\ out \in Nat
      BY <1>7, <1>8, <1>9, <1>10
    <3> HIDE DEF a, b, j, in, out
    <3>2. (in + j) + a = (out + j) + b
      BY <3>1
    <3> QED
      BY <3>1, <3>2 DEF a, b
  <2> QED
    BY <2>1 DEF came, left, A, B, Came, Left

\* The entries and exits of one more step.
LEMMA OneMoreEntry ==
  ASSUME NEW way, NEW z, NEW first \in Nat, NEW n \in Nat, first <= n, NEW m, m = n + 1
  PROVE  /\ Cardinality(EntriesUpto(way, z, first, n)) \in Nat
         /\ Cardinality(ExitsUpto(way, z, first, n)) \in Nat
         /\ Cardinality(Came(way, z, m)) \in Nat /\ Cardinality(Left(way, z, m)) \in Nat
         /\ Cardinality(EntriesUpto(way, z, first, m)) =
              Cardinality(EntriesUpto(way, z, first, n)) + Cardinality(Came(way, z, m))
         /\ Cardinality(ExitsUpto(way, z, first, m)) =
              Cardinality(ExitsUpto(way, z, first, n)) + Cardinality(Left(way, z, m))
<1> DEFINE e == [x \in People \X Nat |-> EnteredAt(way, x[1], z, x[2])]
           g == [x \in People \X Nat |-> LeftAt(way, x[1], z, x[2])]
<1>1. IsFiniteSet(People)
  BY CountingAssumption
<1>2. \A p \in People, i \in Nat :
        /\ e[<<p, i>>] = EnteredAt(way, p, z, i)
        /\ g[<<p, i>>] = LeftAt(way, p, z, i)
  OBVIOUS
<1>3. ASSUME NEW k \in Nat
      PROVE  /\ ChosenPairs(People, e, first, k) = EntriesUpto(way, z, first, k)
             /\ ChosenPairs(People, g, first, k) = ExitsUpto(way, z, first, k)
  <2>1. \A x \in People \X ((first + 1) .. k) :
          e[x] = EnteredAt(way, x[1], z, x[2]) /\ g[x] = LeftAt(way, x[1], z, x[2])
    OBVIOUS
  <2> HIDE DEF e, g
  <2> QED
    BY <2>1 DEF EntriesUpto, ExitsUpto, ChosenPairs
<1>5. m \in Nat
  OBVIOUS
<1>4. ChosenAt(People, e, m) = Came(way, z, m) /\ ChosenAt(People, g, m) = Left(way, z, m)
  <2> HIDE DEF e, g
  <2> QED
    BY <1>2, <1>5 DEF ChosenAt, Came, Left
<1> HIDE DEF e, g
<1>6. /\ Cardinality(ChosenPairs(People, e, first, n)) \in Nat /\ Cardinality(ChosenAt(People, e, m)) \in Nat
      /\ Cardinality(ChosenPairs(People, e, first, m)) =
           Cardinality(ChosenPairs(People, e, first, n)) + Cardinality(ChosenAt(People, e, m))
  BY <1>1, OneMoreStep
<1>7. /\ Cardinality(ChosenPairs(People, g, first, n)) \in Nat /\ Cardinality(ChosenAt(People, g, m)) \in Nat
      /\ Cardinality(ChosenPairs(People, g, first, m)) =
           Cardinality(ChosenPairs(People, g, first, n)) + Cardinality(ChosenAt(People, g, m))
  BY <1>1, OneMoreStep
<1> QED
  BY <1>3, <1>4, <1>5, <1>6, <1>7

\* Over any steps the entries less the exits are the change of the number within.
LEMMA Telescope ==
  ASSUME NEW way \in [People -> Seq(Spots)], NEW z \in Zones,
         NEW first \in Nat, NEW last \in Nat, first <= last,
         \A p \in People : Len(way[p]) >= last
  PROVE  Cardinality(EntriesUpto(way, z, first, last)) + Cardinality(WithinAt(way, z, first)) =
           Cardinality(ExitsUpto(way, z, first, last)) + Cardinality(WithinAt(way, z, last))
<1> DEFINE E(n) == Cardinality(EntriesUpto(way, z, first, n))
           X(n) == Cardinality(ExitsUpto(way, z, first, n))
           W(n) == Cardinality(WithinAt(way, z, n))
           Fit(n) == E(n) + W(first) = X(n) + W(n)
           S == {n \in Nat : first <= n /\ n <= last /\ ~ Fit(n)}
<1> SUFFICES ASSUME S # {} PROVE FALSE
  OBVIOUS
<1>1. PICK n \in S : \A m \in S : n <= m
  <2>1. S \subseteq Nat
    OBVIOUS
  <2> HIDE DEF S
  <2> QED
    BY <2>1, LeastNumber
<1>2. n \in Nat /\ first <= n /\ n <= last /\ ~ Fit(n)
  OBVIOUS
<1>3. \A k \in Nat : W(k) \in Nat
  <2> TAKE k \in Nat
  <2>1. WithinAt(way, z, k) \subseteq People /\ IsFiniteSet(People)
    BY CountingAssumption DEF WithinAt
  <2> QED
    BY <2>1, FS_Subset, FS_CardinalityType
<1>4. Fit(first)
  <2>1. (first + 1) .. first = {}
    OBVIOUS
  <2>2. EntriesUpto(way, z, first, first) = {} /\ ExitsUpto(way, z, first, first) = {}
    BY <2>1 DEF EntriesUpto, ExitsUpto
  <2> QED
    BY <2>2
<1> DEFINE m == n - 1
<1>5. m \in Nat /\ first <= m /\ m < n /\ m <= last /\ n = m + 1 /\ n >= 1
  <2>1. n # first
    BY <1>2, <1>4
  <2> QED
    BY <1>2, <2>1
<1>6. Fit(m)
  <2> HIDE DEF Fit, m
  <2> QED
    BY <1>1, <1>2, <1>5
<1> HIDE DEF m, S
<1> DEFINE c == Cardinality(Came(way, z, n))
           l == Cardinality(Left(way, z, n))
<1>7. c + W(m) = l + W(n)
  <2>1. \A p \in People : Len(way[p]) >= n
    <3>1. \A p \in People : Len(way[p]) \in Nat
      OBVIOUS
    <3> QED
      BY <1>2, <3>1
  <2>2. n - 1 = m
    BY <1>5
  <2> QED
    BY <1>2, <1>5, <2>1, <2>2, StepBalances
<1>8. /\ E(m) \in Nat /\ X(m) \in Nat /\ c \in Nat /\ l \in Nat
      /\ E(n) = E(m) + c /\ X(n) = X(m) + l
  BY <1>5, OneMoreEntry
<1>9. W(m) \in Nat /\ W(n) \in Nat /\ W(first) \in Nat /\ E(m) + W(first) = X(m) + W(m)
  BY <1>2, <1>3, <1>5, <1>6
<1>10. E(n) + W(first) = X(n) + W(n)
  <2> DEFINE e == E(m)
             x == X(m)
             wf == W(first)
             wm == W(m)
             wn == W(n)
  <2>1. /\ e \in Nat /\ x \in Nat /\ c \in Nat /\ l \in Nat
        /\ wf \in Nat /\ wm \in Nat /\ wn \in Nat
    BY <1>8, <1>9
  <2>2. c + wm = l + wn /\ e + wf = x + wm
    BY <1>7, <1>9
  <2>3. E(n) = e + c /\ X(n) = x + l
    BY <1>8
  <2> HIDE DEF E, X, W, c, l, e, x, wf, wm, wn
  <2>4. (e + c) + wf = (x + l) + wn
    BY ONLY <2>1, <2>2
  <2> QED
    BY <2>3, <2>4 DEF wf, wn
<1> QED
  BY <1>2, <1>10

\* The steps of a period are numbered from its start to its last observed one.
LEMMA StepsOfPeriod ==
  ASSUME clock \in Nat, NEW k \in Nat, NEW top \in Nat,
         k * Period < top, top <= clock, top <= k * Period + Period,
         top = clock \/ top = k * Period + Period
  PROVE  /\ Steps(k) = (k * Period + 1) .. top /\ Max(Steps(k)) = top
         /\ k \in Periods
<1> DEFINE lo == k * Period
           S == (lo + 1) .. top
<1>1. Period \in Nat \ {0} /\ lo \in Nat /\ lo < top /\ top <= lo + Period
  BY CountingAssumption
<1>2. \A i \in 1 .. clock : i \in Steps(k) <=> lo <= i - 1 /\ i - 1 < lo + Period
  <2> TAKE i \in 1 .. clock
  <2>1. i - 1 \in Int /\ k \in Int /\ i \in Int
    OBVIOUS
  <2>2. (i - 1) \div Period = k <=> lo <= i - 1 /\ i - 1 < lo + Period
    BY <1>1, <2>1, QuotientIs
  <2>3. i \in Steps(k) <=> (i - 1) \div Period = k
    BY DEF Steps
  <2> QED
    BY <2>2, <2>3
<1> HIDE DEF lo
<1>3. \A i \in Int : i \in S <=> i \in 1 .. clock /\ lo <= i - 1 /\ i - 1 < lo + Period
  <2>1. lo \in Nat /\ Period \in Nat /\ top \in Nat /\ clock \in Nat
    BY <1>1
  <2>2. lo < top /\ top <= clock /\ top <= lo + Period
    BY <1>1
  <2>3. top = clock \/ top = lo + Period
    BY DEF lo
  <2> TAKE i \in Int
  <2>4. i \in S <=> lo + 1 <= i /\ i <= top
    BY <2>1
  <2>5. lo + 1 <= i /\ i <= top <=> 1 <= i /\ i <= clock /\ lo <= i - 1 /\ i - 1 < lo + Period
    BY ONLY <2>1, <2>2, <2>3, i \in Int
  <2>6. i \in 1 .. clock <=> 1 <= i /\ i <= clock
    BY <2>1
  <2> QED
    BY <2>4, <2>5, <2>6
<1>4. Steps(k) \subseteq 1 .. clock
  BY DEF Steps
<1>5. Steps(k) = S
  <2>1. \A i \in Int : i \in Steps(k) <=> i \in S
    BY <1>2, <1>3, <1>4
  <2>2. Steps(k) \subseteq Int /\ S \subseteq Int
    BY <1>4
  <2> HIDE DEF S
  <2> QED
    BY <2>1, <2>2
<1>6. S \subseteq Int /\ top \in S /\ \A i \in S : i <= top
  <2>1. lo + 1 \in Int /\ lo + 1 <= top /\ top \in Int
    BY <1>1
  <2> QED
    BY ONLY <2>1
<1>7. IsFiniteSet(S)
  BY <1>1, FS_Interval
<1>8. Max(S) = top
  <2> HIDE DEF S
  <2>1. S # {}
    BY <1>6
  <2>2. Max(S) \in S /\ \A i \in S : i <= Max(S)
    BY <1>6, <1>7, <2>1, GreatestMember
  <2>3. Max(S) <= top /\ top <= Max(S) /\ Max(S) \in Int
    BY <1>6, <2>2
  <2> QED
    BY <2>3
<1>9. k \in Periods
  <2>1. top \in Steps(k)
    BY <1>5, <1>6
  <2>2. top \in 1 .. clock /\ (top - 1) \div Period = k
    BY <2>1 DEF Steps
  <2> QED
    BY <2>2 DEF Periods
<1> QED
  <2> HIDE DEF S
  <2>1. S = (k * Period + 1) .. top
    BY DEF S, lo
  <2> QED
    BY <1>5, <1>8, <1>9, <2>1

\* Every period with a step has a last one.
LEMMA LastStep ==
  ASSUME clock \in Nat, NEW k \in Periods
  PROVE  /\ k \in Nat /\ k * Period \in Nat
         /\ \E top \in Nat : /\ k * Period < top /\ top <= clock
                             /\ top <= k * Period + Period
                             /\ top = clock \/ top = k * Period + Period
<1>1. PICK i \in 1 .. clock : (i - 1) \div Period = k
  BY DEF Periods
<1>2. Period \in Nat \ {0} /\ i - 1 \in Nat /\ i \in Nat /\ i <= clock
  BY CountingAssumption
<1>3. k \in Nat
  <2>1. (i - 1) \div Period \in Nat
    BY <1>2, QuotientGrows
  <2> QED
    BY <1>1, <2>1
<1> DEFINE lo == k * Period
<1>4. lo \in Nat
  BY <1>2, <1>3
<1>5. lo <= i - 1
  BY <1>1, <1>2, <1>3, QuotientIs
<1> HIDE DEF lo
<1>6. \E top \in Nat : /\ lo < top /\ top <= clock /\ top <= lo + Period
                       /\ top = clock \/ top = lo + Period
  <2>1. CASE clock <= lo + Period
    <3>1. lo < clock
      BY <1>2, <1>4, <1>5
    <3> QED
      BY <2>1, <3>1
  <2>2. CASE ~ (clock <= lo + Period)
    <3>1. lo + Period \in Nat /\ lo < lo + Period /\ lo + Period <= clock
      BY <1>2, <1>4, <2>2
    <3> QED
      BY <3>1
  <2> QED
    BY <2>1, <2>2
<1> QED
  BY <1>3, <1>4, <1>6 DEF lo

\* The entries of a zone by step numbers are the entries of it alone.
LEMMA EntriesOfZone ==
  ASSUME clock \in Nat, NEW z, NEW from \in Nat, NEW to \in Nat, NEW top \in Nat,
         top <= clock, top <= to, top = clock \/ top = to
  PROVE  Entries({z}, from, to) = Cardinality(EntriesUpto(path, z, from, top))
<1> DEFINE A == EntriesUpto(path, z, from, top)
           T == {x \in People \X {z} \X (1 .. clock) :
                   /\ from <= x[3] - 1 /\ x[3] - 1 < to
                   /\ EntersAt(x[1], x[2], x[3])}
<1>1. A \subseteq People \X ((from + 1) .. top) /\ IsFiniteSet(A)
  <2>1. A \subseteq People \X ((from + 1) .. top)
    BY DEF EntriesUpto
  <2>2. IsFiniteSet(People) /\ IsFiniteSet((from + 1) .. top)
    BY CountingAssumption, FS_Interval
  <2>3. IsFiniteSet(People \X ((from + 1) .. top))
    BY <2>2, FS_Product
  <2> QED
    BY <2>1, <2>3, FS_Subset
<1>2. ASSUME NEW p, NEW i
      PROVE  EntersAt(p, z, i) <=> EnteredAt(path, p, z, i)
  BY DEF EntersAt, EnteredAt, EntersBy, Was, At
<1>3. \A i : i \in (from + 1) .. top <=> i \in 1 .. clock /\ from <= i - 1 /\ i - 1 < to
  OBVIOUS
<1>4. ASSUME NEW p \in People, NEW i \in 1 .. clock
      PROVE  <<p, z, i>> \in T <=> <<p, i>> \in A
  <2>1. <<p, z, i>> \in T <=> from <= i - 1 /\ i - 1 < to /\ EntersAt(p, z, i)
    <3>1. <<p, z, i>> \in People \X {z} \X (1 .. clock)
      OBVIOUS
    <3> QED
      BY <3>1
  <2>2. <<p, i>> \in A <=> i \in (from + 1) .. top /\ EnteredAt(path, p, z, i)
    BY DEF EntriesUpto
  <2> QED
    BY <1>2, <1>3, <2>1, <2>2
<1>5. \A y : y \in T <=> \E x \in A : y = <<x[1], z, x[2]>>
  <2>1. ASSUME NEW y \in T PROVE \E x \in A : y = <<x[1], z, x[2]>>
    <3>1. PICK p \in People, i \in 1 .. clock : y = <<p, z, i>>
      BY <2>1
    <3>2. <<p, i>> \in A
      BY <1>4, <2>1, <3>1
    <3>3. y = <<<<p, i>>[1], z, <<p, i>>[2]>>
      BY <3>1
    <3> QED
      BY <3>2, <3>3
  <2>2. ASSUME NEW x \in A PROVE <<x[1], z, x[2]>> \in T
    <3>1. x[1] \in People /\ x[2] \in (from + 1) .. top /\ x = <<x[1], x[2]>>
      BY <1>1, <2>2
    <3>2. x[2] \in 1 .. clock
      BY <1>3, <3>1
    <3> HIDE DEF A, T
    <3> QED
      BY <1>4, <2>2, <3>1, <3>2
  <2> HIDE DEF A, T
  <2> QED
    BY <2>1, <2>2
<1>6. Tripled(A, z, T)
  <2> HIDE DEF A, T
  <2> QED
    BY <1>5 DEF Tripled
<1>7. Cardinality(T) = Cardinality(A)
  <2> HIDE DEF A, T
  <2> QED
    BY <1>1, <1>6, TriplesCount
<1> QED
  BY <1>7 DEF Entries

\* The entries derived from the exits of a zone are its entries.
LEMMA DerivedEntries ==
  ASSUME Tallied(Counter), NEW z \in Zones, NEW r \in E3Series(z)
  PROVE  r.entered = Entries({z}, r.first, r.last)
<1>1. /\ clock \in Nat /\ path \in [People -> Seq(Spots)]
      /\ \A p \in People : Len(path[p]) = clock
  BY CountingAssumption DEF Tallied, Counter
<1> DEFINE W(n) == Cardinality(WithinAt(path, z, n))
           rows == E3Intervals(z)
           before(j) == IF j = 0 THEN 0 ELSE rows[j - 1].within
<1>2. PICK k \in Periods :
        r = [first |-> k * Period, last |-> (k + 1) * Period,
             entered |-> Max({rows[k].left + rows[k].within - before(k), 0})]
  BY DEF E3Series
<1>3. PICK top \in Nat : /\ k * Period < top /\ top <= clock /\ top <= k * Period + Period
                         /\ top = clock \/ top = k * Period + Period
  BY <1>1, LastStep
<1>4. k \in Nat /\ k * Period \in Nat /\ Period \in Nat \ {0}
  BY <1>1, LastStep, CountingAssumption
<1> DEFINE lo == k * Period
<1>5. ASSUME NEW j \in Periods, NEW t \in Nat, Max(Steps(j)) = t
      PROVE  rows[j].within = W(t)
  <2>1. rows[j].within = Cardinality({p \in People : Within(z, Was(p, t))})
    BY <1>5 DEF E3Intervals
  <2>2. {p \in People : Within(z, Was(p, t))} = WithinAt(path, z, t)
    BY DEF Was, At, WithinAt
  <2> QED
    BY <2>1, <2>2
<1>6. Steps(k) = (lo + 1) .. top /\ Max(Steps(k)) = top
  BY <1>1, <1>3, <1>4, StepsOfPeriod
<1>7. rows[k].within = W(top)
  BY <1>5, <1>6
<1>8. rows[k].left = Cardinality(ExitsUpto(path, z, lo, top))
  <2>1. rows[k].left = Cardinality({x \in People \X ((lo + 1) .. top) : LeavesAtStep(x[1], z, x[2])})
    BY <1>6 DEF E3Intervals
  <2>2. ASSUME NEW p, NEW i
        PROVE  LeavesAtStep(p, z, i) <=> LeftAt(path, p, z, i)
    BY DEF LeavesAtStep, LeftAt, Was, At
  <2>3. {x \in People \X ((lo + 1) .. top) : LeavesAtStep(x[1], z, x[2])} = ExitsUpto(path, z, lo, top)
    <3> HIDE DEF lo
    <3> QED
      BY <2>2 DEF ExitsUpto
  <2> QED
    BY <2>1, <2>3
<1>9. before(k) = W(lo)
  <2>1. CASE k = 0
    <3>1. lo = 0
      BY <1>4, <2>1
    <3>2. WithinAt(path, z, 0) = {}
      BY DEF WithinAt, At, Within
    <3>3. Cardinality({}) = 0
      BY FS_EmptySet
    <3>4. W(lo) = 0
      BY <3>1, <3>2, <3>3
    <3> QED
      BY <2>1, <3>4
  <2>2. CASE k # 0
    <3> DEFINE j == k - 1
               bo == j * Period
    <3>1. j \in Nat /\ bo \in Nat /\ lo = bo + Period
      BY <1>4, <2>2
    <3>2. bo < lo /\ lo <= clock /\ lo \in Nat
      BY <1>1, <1>3, <1>4, <3>1
    <3>3. j \in Periods /\ Max(Steps(j)) = lo
      <4> HIDE DEF j, lo
      <4> QED
        BY <1>1, <3>1, <3>2, StepsOfPeriod
    <3>4. rows[j].within = W(lo)
      <4> HIDE DEF j, lo, rows, W
      <4> QED
        BY <1>5, <3>2, <3>3
    <3> QED
      BY <2>2, <3>4
  <2> QED
    BY <2>1, <2>2
<1> DEFINE E == Cardinality(EntriesUpto(path, z, lo, top))
           X == Cardinality(ExitsUpto(path, z, lo, top))
<1>10. E + W(lo) = X + W(top)
  <2>1. \A p \in People : Len(path[p]) >= top
    BY <1>1, <1>3
  <2>2. lo <= top /\ lo \in Nat
    BY <1>3, <1>4
  <2> HIDE DEF lo
  <2> QED
    BY <1>1, <2>1, <2>2, Telescope
<1>11. E \in Nat /\ X \in Nat /\ W(lo) \in Nat /\ W(top) \in Nat
  <2>1. IsFiniteSet(People) /\ IsFiniteSet((lo + 1) .. top)
    BY <1>3, <1>4, CountingAssumption, FS_Interval
  <2> HIDE DEF lo
  <2>2. IsFiniteSet(People \X ((lo + 1) .. top))
    BY <2>1, FS_Product
  <2>3. /\ EntriesUpto(path, z, lo, top) \subseteq People \X ((lo + 1) .. top)
        /\ ExitsUpto(path, z, lo, top) \subseteq People \X ((lo + 1) .. top)
        /\ WithinAt(path, z, lo) \subseteq People /\ WithinAt(path, z, top) \subseteq People
    BY DEF EntriesUpto, ExitsUpto, WithinAt
  <2> QED
    BY <2>1, <2>2, <2>3, FS_Subset, FS_CardinalityType
<1>12. r.first = lo /\ r.last = lo + Period /\ r.entered = Max({X + W(top) - W(lo), 0})
  <2>1. (k + 1) * Period = lo + Period
    BY <1>4
  <2>2. r.entered = Max({rows[k].left + rows[k].within - before(k), 0})
    BY <1>2
  <2>3. r.first = lo /\ r.last = (k + 1) * Period
    BY <1>2
  <2> HIDE DEF lo, rows, before, W, X
  <2> QED
    BY <1>7, <1>8, <1>9, <2>1, <2>2, <2>3 DEF X
<1>13. r.entered = E
  <2> HIDE DEF lo, W, X, E
  <2>1. X + W(top) - W(lo) = E
    BY <1>10, <1>11
  <2>2. Max({E, 0}) = E
    <3>1. Max({E, 0}) \in {E, 0} /\ E <= Max({E, 0}) /\ 0 <= Max({E, 0})
      <4>1. E \in Int /\ 0 \in Int
        BY <1>11
      <4> QED
        BY ONLY <4>1, MaxOfTwo
    <3> QED
      BY <1>11, <3>1
  <2> QED
    BY <1>12, <2>1, <2>2
<1>14. Entries({z}, lo, lo + Period) = E
  <2>1. lo \in Nat /\ lo + Period \in Nat
    BY <1>4
  <2>2. top <= clock /\ top <= lo + Period /\ (top = clock \/ top = lo + Period)
    BY <1>3
  <2> HIDE DEF lo
  <2> QED
    BY <1>1, <2>1, <2>2, EntriesOfZone
<1> QED
  BY <1>12, <1>13, <1>14

(***************************************************************************)
(* The written intervals and the series of a measurement.                  *)
(***************************************************************************)

\* The end of the written intervals, the periods that begin before it, and
\* those that begin before the end of the run.
RunEnd == Max({Duration, clock})

Bins == 0 .. ((RunEnd - 1) \div Period)

LastOf(j) == Min({(j + 1) * Period, RunEnd})

ZonesOf(m) == {z \in Zones : z.measurement = m}

\* The interval of a zone, and the entries of some zones in a period.
RowOf(z, j) == [id |-> z.id, first |-> j * Period, last |-> LastOf(j),
                entered |-> Cardinality(InPeriod(path, clock, z, j))]

AllIn(Z, j) ==
  {x \in People \X Z \X (1 .. clock) : (x[3] - 1) \div Period = j /\ EntersAt(x[1], x[2], x[3])}

BinOf(Z, j) == [first |-> j * Period, last |-> LastOf(j),
                entered |-> Cardinality(AllIn(Z, j))]

\* The written file at the end of the run.
Finished == Tallied(Counter) /\ clock > 0 /\ written = E2Intervals

\* The end of the written intervals is that of the run or of what was observed.
LEMMA FinishedTypes ==
  ASSUME Finished
  PROVE  /\ clock \in Nat /\ clock >= 1 /\ clock <= MaxClock
         /\ MaxClock \in Nat /\ Duration \in Nat /\ Period \in Nat \ {0} /\ Interval \in Nat \ {0}
         /\ RunEnd \in Nat /\ RunEnd >= 1 /\ clock <= RunEnd /\ Duration <= RunEnd
         /\ RunEnd \in {Duration, clock}
         /\ (RunEnd - 1) \div Period \in Nat
<1>1. /\ clock \in Nat /\ clock >= 1 /\ clock <= MaxClock
      /\ MaxClock \in Nat /\ Duration \in Nat /\ Period \in Nat \ {0} /\ Interval \in Nat \ {0}
  <2>1. clock \in 0 .. MaxClock /\ clock > 0
    BY DEF Finished, Tallied, Counter
  <2> QED
    BY <2>1, CountingAssumption
<1>2. RunEnd \in {Duration, clock} /\ Duration <= RunEnd /\ clock <= RunEnd
  BY <1>1, MaxOfTwo DEF RunEnd
<1>3. RunEnd \in Nat /\ RunEnd >= 1 /\ RunEnd - 1 \in Nat
  BY <1>1, <1>2
<1>4. (RunEnd - 1) \div Period \in Nat
  BY <1>1, <1>3, QuotientGrows
<1> QED
  BY <1>1, <1>2, <1>3, <1>4

\* The period of a number before the end is one of Bins.
LEMMA BinsAre ==
  ASSUME Finished, NEW j \in Nat
  PROVE  j \in Bins <=> j * Period < RunEnd
<1>1. RunEnd \in Nat /\ RunEnd >= 1 /\ RunEnd - 1 \in Nat /\ Period \in Nat \ {0}
  BY FinishedTypes
<1> DEFINE q == (RunEnd - 1) \div Period
<1>2. q \in Int /\ q * Period <= RunEnd - 1 /\ RunEnd - 1 < q * Period + Period
  BY <1>1, QuotientBounds
<1>3. q \in Nat
  BY FinishedTypes
<1>4. j \in Bins <=> j <= q
  <2>1. j \in Bins <=> j \in 0 .. q
    BY DEF Bins
  <2> HIDE DEF q
  <2> QED
    BY <1>3, <2>1
<1> HIDE DEF q
<1>5. ASSUME j <= q PROVE j * Period < RunEnd
  <2>1. j * Period <= q * Period /\ j * Period \in Int /\ q * Period \in Int
    BY <1>1, <1>3, <1>5, ScaledGrow
  <2> QED
    BY <1>1, <1>2, <2>1
<1>6. ASSUME ~ (j <= q) PROVE ~ (j * Period < RunEnd)
  <2>1. q + 1 \in Int /\ j \in Int /\ q + 1 <= j
    BY <1>3, <1>6
  <2>2. (q + 1) * Period <= j * Period /\ j * Period \in Int
    BY <1>1, <2>1, ScaledGrow
  <2>3. (q + 1) * Period = q * Period + Period /\ q * Period \in Int
    BY <1>1, <1>3
  <2> QED
    BY <1>1, <1>2, <2>2, <2>3
<1> QED
  BY <1>4, <1>5, <1>6

\* What is written has the entries of each zone in each period.
LEMMA WrittenIs ==
  ASSUME Finished
  PROVE  written = {RowOf(z, j) : z \in Zones, j \in Bins}
<1> DEFINE most == MaxClock \div Period
<1>1. buckets = [z \in Zones |-> [k \in 0 .. most |-> Cardinality(InPeriod(path, clock, z, k))]]
  BY DEF Finished, Tallied, Counter
<1>2. ASSUME NEW z \in Zones, NEW j \in Bins
      PROVE  (IF j \in DOMAIN buckets[z] THEN buckets[z][j] ELSE 0)
               = Cardinality(InPeriod(path, clock, z, j))
  <2>1. DOMAIN buckets[z] = 0 .. most
    BY <1>1
  <2>2. CASE j \in 0 .. most
    <3>1. buckets[z][j] = Cardinality(InPeriod(path, clock, z, j))
      BY <1>1, <2>2
    <3> QED
      BY <2>1, <2>2, <3>1
  <2>3. CASE j \notin 0 .. most
    <3>1. InPeriod(path, clock, z, j) = {}
      <4> SUFFICES ASSUME NEW x \in InPeriod(path, clock, z, j) PROVE FALSE
        OBVIOUS
      <4> DEFINE i == x[2]
      <4>1. i \in 1 .. clock /\ (i - 1) \div Period = j
        BY DEF InPeriod
      <4>2. i - 1 \in Nat /\ MaxClock \in Nat /\ i - 1 <= MaxClock /\ Period \in Nat \ {0}
        BY <4>1, FinishedTypes
      <4> HIDE DEF i
      <4>3. (i - 1) \div Period \in Nat /\ most \in Nat /\ (i - 1) \div Period <= most
        BY <4>2, QuotientGrows
      <4> HIDE DEF most
      <4>4. j \in 0 .. most
        BY <4>1, <4>3
      <4> QED
        BY <2>3, <4>4
    <3>2. Cardinality({}) = 0
      BY FS_EmptySet
    <3> QED
      BY <2>1, <2>3, <3>1, <3>2
  <2> QED
    BY <2>2, <2>3
<1> DEFINE Written(z, k) == [id |-> z.id, first |-> k * Period,
                             last |-> Min({(k + 1) * Period, RunEnd}),
                             entered |-> IF k \in DOMAIN buckets[z] THEN buckets[z][k] ELSE 0]
<1>3. written = {Written(z, k) : z \in Zones, k \in Bins}
  BY DEF Finished, E2Intervals, Bins, RunEnd
<1>4. \A z \in Zones, j \in Bins : Written(z, j) = RowOf(z, j)
  BY <1>2 DEF RowOf, LastOf
<1> HIDE DEF Written
<1> QED
  BY <1>3, <1>4

\* The entries of one zone in a period, as part of those of some zones.
LEMMA PartOfZone ==
  ASSUME Finished, NEW Z, NEW z \in Z, NEW j, NEW T,
         \A x : x \in T <=> x \in AllIn(Z, j) /\ x[2] = z
  PROVE  IsFiniteSet(T) /\ Cardinality(T) = Cardinality(InPeriod(path, clock, z, j))
<1> DEFINE A == InPeriod(path, clock, z, j)
<1>1. A \subseteq People \X (1 .. clock) /\ IsFiniteSet(A)
  <2>1. clock \in Nat
    BY FinishedTypes
  <2>2. A \subseteq People \X (1 .. clock)
    BY DEF InPeriod
  <2>3. IsFiniteSet(A)
    <3> HIDE DEF A
    <3> QED
      BY <2>1, InPeriodFinite DEF A
  <2> QED
    BY <2>2, <2>3
<1>2. ASSUME NEW p \in People, NEW i \in 1 .. clock
      PROVE  <<p, z, i>> \in T <=> <<p, i>> \in A
  <2>1. <<p, z, i>> \in AllIn(Z, j) <=> (i - 1) \div Period = j /\ EntersAt(p, z, i)
    <3>1. <<p, z, i>> \in People \X Z \X (1 .. clock)
      OBVIOUS
    <3> QED
      BY <3>1 DEF AllIn
  <2>2. <<p, i>> \in A <=> (i - 1) \div Period = j /\ EnteredAt(path, p, z, i)
    <3>1. <<p, i>> \in People \X (1 .. clock)
      OBVIOUS
    <3> QED
      BY <3>1 DEF InPeriod
  <2>3. EntersAt(p, z, i) <=> EnteredAt(path, p, z, i)
    BY DEF EntersAt, EnteredAt, EntersBy, Was, At
  <2>4. <<p, z, i>> \in T <=> <<p, z, i>> \in AllIn(Z, j)
    <3>1. <<p, z, i>>[2] = z
      OBVIOUS
    <3> QED
      BY <3>1
  <2> QED
    BY <2>1, <2>2, <2>3, <2>4
<1>3. \A y : y \in T <=> \E x \in A : y = <<x[1], z, x[2]>>
  <2>1. ASSUME NEW y \in T PROVE \E x \in A : y = <<x[1], z, x[2]>>
    <3>1. y \in People \X Z \X (1 .. clock) /\ y[2] = z
      BY <2>1 DEF AllIn
    <3>2. PICK p \in People, i \in 1 .. clock : y = <<p, z, i>>
      BY <3>1
    <3>3. <<p, i>> \in A
      BY <1>2, <2>1, <3>2
    <3>4. y = <<<<p, i>>[1], z, <<p, i>>[2]>>
      BY <3>2
    <3> HIDE DEF A
    <3> QED
      BY <3>3, <3>4
  <2>2. ASSUME NEW x \in A PROVE <<x[1], z, x[2]>> \in T
    <3>1. x[1] \in People /\ x[2] \in 1 .. clock /\ x = <<x[1], x[2]>>
      BY <1>1, <2>2
    <3> HIDE DEF A
    <3> QED
      BY <1>2, <2>2, <3>1
  <2> HIDE DEF A
  <2> QED
    BY <2>1, <2>2
<1>4. Tripled(A, z, T)
  <2> HIDE DEF A
  <2> QED
    BY <1>3 DEF Tripled
<1> QED
  <2> HIDE DEF A
  <2>1. IsFiniteSet(T) /\ Cardinality(T) = Cardinality(A)
    BY <1>1, <1>4, TriplesCount
  <2> QED
    BY <2>1 DEF A

\* Zones have finitely many entries in a period.
LEMMA AllInFinite ==
  ASSUME Finished, NEW Z, IsFiniteSet(Z), NEW j
  PROVE  IsFiniteSet(AllIn(Z, j)) /\ Cardinality(AllIn(Z, j)) \in Nat
<1>1. IsFiniteSet(People) /\ IsFiniteSet(1 .. clock)
  BY CountingAssumption, FinishedTypes, FS_Interval
<1>2. IsFiniteSet(People \X Z \X (1 .. clock))
  <2>1. IsFiniteSet(People \X Z)
    BY <1>1, FS_Product
  <2>2. IsFiniteSet((People \X Z) \X (1 .. clock))
    BY <1>1, <2>1, FS_Product
  <2> DEFINE P == (People \X Z) \X (1 .. clock)
             T == People \X Z \X (1 .. clock)
             f == [x \in P |-> <<x[1][1], x[1][2], x[2]>>]
  <2>3. \A y \in T : \E x \in P : y = f[x]
    <3> TAKE y \in T
    <3>1. PICK p \in People, z \in Z, i \in 1 .. clock : y = <<p, z, i>>
      OBVIOUS
    <3>2. <<<<p, z>>, i>> \in P /\ f[<<<<p, z>>, i>>] = y
      BY <3>1
    <3> QED
      BY <3>2
  <2> HIDE DEF f, P, T
  <2>4. IsFiniteSet(T)
    BY <2>2, <2>3, ImageFinite DEF P
  <2> QED
    BY <2>4 DEF T
<1>3. AllIn(Z, j) \subseteq People \X Z \X (1 .. clock)
  BY DEF AllIn
<1> QED
  BY <1>2, <1>3, FS_Subset, FS_CardinalityType

\* The series of a measurement adds up its zones.
LEMMA SeriesIs ==
  ASSUME Finished, NEW m \in Measurements
  PROVE  E2Series(m) = {BinOf(ZonesOf(m), j) : j \in Bins}
<1> DEFINE Z == ZonesOf(m)
           rows == {r \in written : \E z \in Zones : z.id = r.id /\ z.measurement = m}
           RowsAt(s) == {q \in rows : <<q.first, q.last>> = s}
           spans == {<<r.first, r.last>> : r \in rows}
           Added(s) == SumFunction([r \in RowsAt(s) |-> r.entered])
           Item(s) == [first |-> s[1], last |-> s[2], entered |-> Added(s)]
           span(j) == <<j * Period, LastOf(j)>>
<1>1. E2Series(m) = {Item(s) : s \in spans}
  BY DEF E2Series
<1>2. Z \subseteq Zones /\ Z # {} /\ IsFiniteSet(Z)
  <2>1. Z # {} /\ Z \subseteq Zones
    BY DEF Measurements, ZonesOf
  <2> QED
    BY <2>1, ZonesApart, FS_Subset
<1>3. /\ \A z \in Z, j \in Bins : RowOf(z, j) \in rows
      /\ \A r \in rows : \E z \in Z, j \in Bins : r = RowOf(z, j)
  <2>1. \A z, j : RowOf(z, j).id = z.id
    BY DEF RowOf
  <2>2. ASSUME NEW z \in Z, NEW j \in Bins PROVE RowOf(z, j) \in rows
    <3>1. RowOf(z, j) \in written /\ z \in Zones /\ z.measurement = m
      BY <1>2, WrittenIs DEF ZonesOf
    <3> QED
      BY <2>1, <3>1
  <2>3. ASSUME NEW r \in rows PROVE \E z \in Z, j \in Bins : r = RowOf(z, j)
    <3>1. PICK z \in Zones, j \in Bins : r = RowOf(z, j)
      BY <2>3, WrittenIs
    <3>2. PICK y \in Zones : y.id = r.id /\ y.measurement = m
      BY <2>3
    <3>3. y = z
      BY <2>1, <3>1, <3>2, ZonesApart
    <3>4. z \in Z
      BY <3>2, <3>3 DEF ZonesOf
    <3> QED
      BY <3>1, <3>4
  <2> QED
    BY <2>2, <2>3
<1>4. \A z, j : <<RowOf(z, j).first, RowOf(z, j).last>> = span(j)
  BY DEF RowOf
<1>5. \A i, j \in Bins : span(i) = span(j) => i = j
  <2> SUFFICES ASSUME NEW i \in Bins, NEW j \in Bins, span(i) = span(j) PROVE i = j
    OBVIOUS
  <2>1. i * Period = j * Period
    OBVIOUS
  <2>2. i \in Int /\ j \in Int /\ Period \in Nat \ {0}
    BY FinishedTypes DEF Bins
  <2> QED
    BY <2>1, <2>2, OneMultiple
<1> HIDE DEF rows, Z, span
<1>6. spans = {span(j) : j \in Bins}
  <2>1. ASSUME NEW r \in rows PROVE \E j \in Bins : <<r.first, r.last>> = span(j)
    BY <1>3, <1>4, <2>1
  <2>2. ASSUME NEW j \in Bins PROVE \E r \in rows : <<r.first, r.last>> = span(j)
    BY <1>2, <1>3, <1>4
  <2> QED
    BY <2>1, <2>2
<1>7. ASSUME NEW j \in Bins
      PROVE  \A r : r \in RowsAt(span(j)) <=> \E z \in Z : r = RowOf(z, j)
  <2>1. ASSUME NEW r \in RowsAt(span(j)) PROVE \E z \in Z : r = RowOf(z, j)
    <3>1. r \in rows /\ <<r.first, r.last>> = span(j)
      BY <2>1
    <3>2. PICK z \in Z, i \in Bins : r = RowOf(z, i)
      BY <1>3, <3>1
    <3>3. span(i) = span(j)
      BY <1>4, <3>1, <3>2
    <3>4. i = j
      BY <1>5, <3>3
    <3> QED
      BY <3>2, <3>4
  <2>2. ASSUME NEW z \in Z PROVE RowOf(z, j) \in RowsAt(span(j))
    BY <1>3, <1>4
  <2> HIDE DEF RowsAt
  <2> QED
    BY <2>1, <2>2
<1> HIDE DEF spans
<1>8. ASSUME NEW j \in Bins PROVE Added(span(j)) = Cardinality(AllIn(Z, j))
  <2> DEFINE S == AllIn(Z, j)
             K == RowsAt(span(j))
             key == [x \in S |-> RowOf(x[2], j)]
             part == [r \in K |-> {x \in S : key[x] = r}]
             g == [r \in K |-> r.entered]
  <2>1. \A r : r \in K <=> \E z \in Z : r = RowOf(z, j)
    BY <1>7
  <2> HIDE DEF RowsAt
  <2>2. IsFiniteSet(K)
    <3> DEFINE h == [z \in Z |-> RowOf(z, j)]
    <3>1. \A y \in K : \E z \in Z : y = h[z]
      BY <2>1
    <3> HIDE DEF h, K
    <3> QED
      BY <1>2, <3>1, ImageFinite
  <2>3. IsFiniteSet(S)
    BY <1>2, AllInFinite
  <2>4. \A x \in S : x[2] \in Z
    BY DEF AllIn
  <2>5. \A x \in S : key[x] = RowOf(x[2], j)
    OBVIOUS
  <2>6. \A x \in S : key[x] \in K
    <3> HIDE DEF K, S, key
    <3> QED
      BY <2>1, <2>4, <2>5
  <2>7. \A r \in K : \A x : x \in part[r] <=> x \in S /\ key[x] = r
    <3> HIDE DEF K, S, key
    <3> QED
      OBVIOUS
  <2>8. ASSUME NEW r \in K PROVE r.entered = Cardinality(part[r])
    <3>1. PICK z \in Z : r = RowOf(z, j)
      BY <2>1
    <3>2. \A x \in S : key[x] = r <=> x[2] = z
      <4> TAKE x \in S
      <4>1. x[2] \in Zones /\ z \in Zones
        BY <1>2, <2>4
      <4>2. RowOf(x[2], j).id = x[2].id /\ RowOf(z, j).id = z.id
        BY DEF RowOf
      <4> HIDE DEF key, S
      <4>3. ASSUME RowOf(x[2], j) = RowOf(z, j) PROVE x[2] = z
        <5>1. x[2].id = z.id
          BY <4>2, <4>3
        <5> QED
          BY <4>1, <5>1, ZonesApart
      <4> QED
        BY <2>5, <3>1, <4>3
    <3>3. \A x : x \in part[r] <=> x \in AllIn(Z, j) /\ x[2] = z
      <4> HIDE DEF key, K, part
      <4> QED
        BY <2>7, <2>8, <3>2
    <3>4. Cardinality(part[r]) = Cardinality(InPeriod(path, clock, z, j))
      <4> HIDE DEF key, K, part
      <4> QED
        BY <3>3, PartOfZone
    <3>5. r.entered = Cardinality(InPeriod(path, clock, z, j))
      BY <3>1 DEF RowOf
    <3> QED
      BY <3>4, <3>5
  <2>9. g = [r \in K |-> Cardinality(part[r])]
    <3> HIDE DEF K, part
    <3> QED
      BY <2>8
  <2>10. Sorted(S, K, key, part, g)
    <3> HIDE DEF S, K, key, part, g
    <3> QED
      BY <2>2, <2>3, <2>6, <2>7, <2>9 DEF Sorted
  <2>11. SumFunction(g) = Cardinality(S)
    <3> HIDE DEF S, K, key, part, g
    <3> QED
      BY <2>10, CountByKey
  <2> QED
    BY <2>11
<1>9. ASSUME NEW j \in Bins PROVE Item(span(j)) = BinOf(Z, j)
  <2>1. span(j)[1] = j * Period /\ span(j)[2] = LastOf(j)
    BY DEF span
  <2> HIDE DEF Added
  <2> QED
    BY <1>8, <2>1 DEF BinOf
<1> HIDE DEF Item
<1>10. {Item(s) : s \in spans} = {BinOf(Z, j) : j \in Bins}
  BY <1>6, <1>9
<1> QED
  BY <1>1, <1>10 DEF Z

(***************************************************************************)
(* The chart of a measurement.                                             *)
(***************************************************************************)

\* The interval of a period: not empty, no longer than a period, and before
\* the end of the run when it begins before it.
LEMMA BinFits ==
  ASSUME Finished, NEW j \in Nat, j * Period < RunEnd
  PROVE  /\ j * Period \in Nat /\ LastOf(j) \in Nat
         /\ j * Period < LastOf(j) /\ LastOf(j) <= j * Period + Period
         /\ LastOf(j) = RunEnd \/ LastOf(j) = j * Period + Period
         /\ j * Period < Duration => LastOf(j) <= Duration
<1> DEFINE lo == j * Period
           hi == (j + 1) * Period
<1>1. /\ Period \in Nat \ {0} /\ RunEnd \in Nat /\ Duration \in Nat /\ clock \in Nat
      /\ clock <= MaxClock /\ MaxClock \in Nat
      /\ RunEnd \in {Duration, clock} /\ Duration <= RunEnd
  BY FinishedTypes
<1>2. lo \in Nat /\ hi = lo + Period /\ hi \in Int
  BY <1>1
<1>3. LastOf(j) \in {hi, RunEnd} /\ LastOf(j) <= hi /\ LastOf(j) <= RunEnd
  <2> HIDE DEF hi
  <2>1. hi \in Int /\ RunEnd \in Int
    BY <1>1, <1>2
  <2>2. Min({hi, RunEnd}) \in {hi, RunEnd} /\ Min({hi, RunEnd}) <= hi /\ Min({hi, RunEnd}) <= RunEnd
    BY ONLY <2>1, MinOfTwo
  <2>3. LastOf(j) = Min({hi, RunEnd})
    BY DEF LastOf, hi
  <2> QED
    BY <2>2, <2>3
<1>4. ASSUME lo < Duration PROVE LastOf(j) <= Duration
  <2>1. CASE RunEnd = Duration
    BY <1>3, <2>1
  <2>2. CASE RunEnd # Duration
    <3> DEFINE d == Duration \div Period
    <3>1. Duration % Period = 0
      <4>1. ~ (MaxClock <= Duration)
        BY <1>1, <2>2
      <4> QED
        BY <4>1, AlignedPeriods
    <3>2. d \in Nat /\ Duration = d * Period
      BY <1>1, <3>1, WholeQuotient
    <3> HIDE DEF d
    <3>3. lo + Period <= d * Period
      BY <1>1, <1>4, <3>2, ScaledLess
    <3> HIDE DEF lo, hi
    <3> QED
      BY <1>1, <1>2, <1>3, <3>2, <3>3
  <2> QED
    BY <2>1, <2>2
<1> HIDE DEF lo, hi
<1>5. /\ LastOf(j) \in Nat /\ lo < LastOf(j) /\ LastOf(j) <= lo + Period
      /\ LastOf(j) = RunEnd \/ LastOf(j) = lo + Period
  <2>1. lo < RunEnd
    BY DEF lo
  <2> QED
    BY <1>1, <1>2, <1>3, <2>1
<1> QED
  BY <1>2, <1>4, <1>5 DEF lo

\* The interval of the chart with the start of a period.
SlotOf(j) == (j * Period) \div Interval

\* A period lies in one interval of the chart.
LEMMA OneSlot ==
  ASSUME Finished, NEW j \in Nat
  PROVE  /\ SlotOf(j) \in Nat /\ SlotOf(j) * Interval \in Nat
         /\ SlotOf(j) * Interval <= j * Period
         /\ j * Period + Period <= SlotOf(j) * Interval + Interval
<1> DEFINE s == SlotOf(j)
           c == Interval \div Period
           lo == j * Period
<1>1. Period \in Nat \ {0} /\ Interval \in Nat \ {0} /\ lo \in Nat
  BY FinishedTypes
<1>2. c \in Nat /\ Interval = c * Period
  <2>1. Interval % Period = 0
    BY AlignedPeriods
  <2> QED
    BY <1>1, <2>1, WholeQuotient
<1>3. s \in Nat /\ s * Interval <= lo /\ lo < s * Interval + Interval /\ s * Interval \in Int
  <2>1. s \in Nat
    <3> HIDE DEF lo
    <3>1. lo \div Interval \in Nat
      BY <1>1, QuotientGrows
    <3> QED
      BY <3>1 DEF SlotOf, lo
  <2>2. s * Interval <= lo /\ lo < s * Interval + Interval
    <3> HIDE DEF lo
    <3>1. (lo \div Interval) * Interval <= lo /\ lo < (lo \div Interval) * Interval + Interval
      BY <1>1, QuotientBounds
    <3> QED
      BY <3>1 DEF SlotOf, lo
  <2> HIDE DEF s
  <2> QED
    BY <1>1, <2>1, <2>2
<1> HIDE DEF s, c
<1>4. s * Interval \in Nat
  BY <1>1, <1>3
<1>5. s * Interval + Interval = ((s + 1) * c) * Period
  <2>1. s * Interval + Interval = (s + 1) * Interval
    BY <1>1, <1>3
  <2>2. (s + 1) * (c * Period) = ((s + 1) * c) * Period
    BY <1>1, <1>2, <1>3
  <2> QED
    BY <1>2, <2>1, <2>2
<1>6. (s + 1) * c \in Int
  BY <1>2, <1>3
<1>7. lo + Period <= ((s + 1) * c) * Period
  <2> DEFINE n == (s + 1) * c
  <2>1. j * Period < n * Period /\ n \in Int /\ j \in Int /\ Period \in Nat
    BY <1>1, <1>3, <1>5, <1>6
  <2> HIDE DEF n
  <2>2. j * Period + Period <= n * Period
    BY ONLY <2>1, ScaledLess
  <2> QED
    BY <2>2 DEF n
<1>8. lo + Period <= s * Interval + Interval
  BY <1>5, <1>7
<1> QED
  BY <1>3, <1>4, <1>8 DEF s

CutOf(r) == Min({r.last, Duration})

OverlapOf(r, k) == Max({0, Min({CutOf(r), (k + 1) * Interval}) - Max({r.first, k * Interval})})

ShareOf(r, k) == (r.entered * OverlapOf(r, k) * Period) \div (r.last - r.first)

\* An interval of the series gives the chart all that it has, once.
LEMMA ShareIs ==
  ASSUME Finished, NEW Z, IsFiniteSet(Z), NEW j \in Nat, j * Period < Duration, NEW k \in Nat
  PROVE  LET r == BinOf(Z, j) IN
         /\ r.entered \in Nat /\ r.first = j * Period /\ r.last = LastOf(j)
         /\ OverlapOf(r, k) > 0 <=> SlotOf(j) = k
         /\ ShareOf(r, k) = Period * (IF SlotOf(j) = k THEN r.entered ELSE 0)
<1> DEFINE r == BinOf(Z, j)
           a == j * Period
           b == LastOf(j)
           s == SlotOf(j)
           lo == k * Interval
           hi == (k + 1) * Interval
           n == r.entered
           o == OverlapOf(r, k)
<1>1. r.first = a /\ r.last = b /\ n = Cardinality(AllIn(Z, j))
  BY DEF BinOf
<1>2. n \in Nat
  BY <1>1, AllInFinite
<1>3. /\ Period \in Nat \ {0} /\ Interval \in Nat \ {0} /\ Duration \in Nat
      /\ RunEnd \in Nat /\ Duration <= RunEnd
  BY FinishedTypes
<1>4. a \in Nat /\ b \in Nat /\ a < b /\ b <= a + Period /\ b <= Duration
  <2>1. a \in Nat
    BY <1>3
  <2>2. j * Period < RunEnd
    <3> HIDE DEF a
    <3> QED
      BY <1>3, <2>1 DEF a
  <2> QED
    BY <2>2, BinFits
<1>5. s \in Nat /\ s * Interval \in Nat /\ s * Interval <= a /\ a + Period <= s * Interval + Interval
  BY OneSlot
<1>6. CutOf(r) = b
  <2> HIDE DEF r, a, b
  <2>1. Min({b, Duration}) \in {b, Duration} /\ Min({b, Duration}) <= b /\ Min({b, Duration}) <= Duration
    <3>1. b \in Int /\ Duration \in Int
      BY <1>3, <1>4
    <3> QED
      BY ONLY <3>1, MinOfTwo
  <2>2. Min({b, Duration}) = b
    BY <1>3, <1>4, <2>1
  <2> QED
    BY <1>1, <2>2 DEF CutOf
<1>7. lo \in Nat /\ hi = lo + Interval /\ hi \in Nat
  BY <1>3
<1>8. o = Max({0, Min({b, hi}) - Max({a, lo})})
  <2> HIDE DEF r, a, b
  <2> QED
    BY <1>1, <1>6 DEF OverlapOf
<1> HIDE DEF r, a, b, s, lo, hi, n, o
<1>9. /\ lo <= a /\ b <= hi => o = b - a
      /\ hi <= a \/ b <= lo => o = 0
  <2>1. a \in Int /\ b \in Int /\ a < b /\ lo \in Int /\ hi \in Int /\ lo < hi
    BY <1>3, <1>4, <1>7
  <2> QED
    BY ONLY <1>8, <2>1, OverlapCases
<1>10. CASE s = k
  <2>1. lo <= a /\ b <= hi
    <3>1. lo = s * Interval
      BY <1>10 DEF lo
    <3> QED
      BY <1>3, <1>4, <1>5, <1>7, <3>1
  <2>2. o = b - a /\ o > 0
    BY <1>4, <1>9, <2>1
  <2>3. r.last - r.first = b - a
    BY <1>1
  <2>4. (n * o * Period) \div o = Period * n
    <3>1. o \in Nat \ {0}
      BY <1>4, <2>2
    <3>2. n * o * Period = (Period * n) * o
      BY <1>2, <1>3, <3>1
    <3> DEFINE t == Period * n
    <3>3. t \in Int
      BY <1>2, <1>3
    <3> HIDE DEF t
    <3>4. t * o \in Int
      BY <3>1, <3>3
    <3>5. (t * o) \div o = t
      BY <3>1, <3>3, <3>4, QuotientIs
    <3> QED
      BY <3>2, <3>5 DEF t
  <2>5. ShareOf(r, k) = Period * n
    BY <2>2, <2>3, <2>4 DEF ShareOf, o, n
  <2> QED
    BY <1>1, <1>2, <1>10, <2>2, <2>5 DEF r, a, b, s, n, o
<1>11. CASE s # k
  <2>1. hi <= a \/ b <= lo
    <3>1. CASE k < s
      <4>1. (k + 1) * Interval <= s * Interval
        BY <1>3, <1>5, <3>1, ScaledGrow
      <4> QED
        BY <1>4, <1>5, <1>7, <4>1 DEF hi
    <3>2. CASE s < k
      <4>1. (s + 1) * Interval <= k * Interval
        BY <1>3, <1>5, <3>2, ScaledGrow
      <4>2. (s + 1) * Interval = s * Interval + Interval
        BY <1>3, <1>5
      <4> QED
        BY <1>3, <1>4, <1>5, <1>7, <4>1, <4>2 DEF lo
    <3> QED
      BY <1>5, <1>11, <3>1, <3>2
  <2>2. o = 0
    BY <1>9, <2>1
  <2>3. r.last - r.first = b - a /\ b - a \in Nat \ {0}
    BY <1>1, <1>4
  <2>4. n * o * Period = 0
    BY <1>2, <1>3, <2>2
  <2>5. 0 \div (b - a) = 0
    <3> DEFINE e == b - a
    <3> HIDE DEF e
    <3>1. e \in Nat \ {0}
      BY <2>3 DEF e
    <3>2. 0 * e = 0
      BY <3>1
    <3>3. 0 \div e = 0
      BY <3>1, <3>2, QuotientIs
    <3> QED
      BY <3>3 DEF e
  <2>6. ShareOf(r, k) = 0
    BY <2>3, <2>4, <2>5 DEF ShareOf, o, n
  <2>7. Period * 0 = 0
    BY <1>3
  <2> QED
    BY <1>1, <1>2, <1>11, <2>2, <2>6, <2>7 DEF r, a, b, s, n, o
<1> QED
  BY <1>10, <1>11

\* The operators of Shared.
SlotsOf(series) == {r.first \div Interval : r \in series}
                     \cup {(r.last - 1) \div Interval : r \in series}

EarlyIn(series) == {q \in series : q.first < Duration}

ChartedIn(series) ==
  {k \in SlotsOf(series) : \E r \in series : r.first < Duration /\ OverlapOf(r, k) > 0}

\* The chart, by the operators above.
LEMMA SharedIs ==
  ASSUME NEW series
  PROVE  /\ DOMAIN Shared(series) = ChartedIn(series)
         /\ \A k \in ChartedIn(series) :
              Shared(series)[k] = SumFunction([r \in EarlyIn(series) |-> ShareOf(r, k)])
BY DEF Shared, ChartedIn, SlotsOf, EarlyIn, OverlapOf, CutOf, ShareOf

\* The periods whose counts one interval of the chart gets.
BinsOf(k) == {j \in Bins : j * Period < Duration /\ SlotOf(j) = k}

\* The entries between two times.
EntriesIn(Z, from, to) ==
  {x \in People \X Z \X (1 .. clock) : /\ from <= x[3] - 1 /\ x[3] - 1 < to
                                       /\ EntersAt(x[1], x[2], x[3])}

\* A step of an interval of the chart is one of its periods' steps.
LEMMA StepOfSlot ==
  ASSUME Finished, NEW k \in Nat, NEW i \in 1 .. clock
  PROVE  LET j == (i - 1) \div Period IN
         /\ j \in Nat /\ j \in Bins
         /\ k * Interval <= i - 1 /\ i - 1 < Min({(k + 1) * Interval, Duration})
              <=> j \in BinsOf(k)
<1> DEFINE n == i - 1
           j == n \div Period
           a == j * Period
           s == SlotOf(j)
           lo == k * Interval
           hi == (k + 1) * Interval
           to == Min({hi, Duration})
<1>1. /\ Period \in Nat \ {0} /\ Interval \in Nat \ {0} /\ Duration \in Nat
      /\ clock \in Nat /\ RunEnd \in Nat /\ clock <= RunEnd
  BY FinishedTypes
<1>2. n \in Nat /\ n < clock /\ n < RunEnd
  BY <1>1
<1> HIDE DEF n
<1>3. j \in Nat
  BY <1>1, <1>2, QuotientGrows
<1>4. a <= n /\ n < a + Period
  BY <1>1, <1>2, QuotientBounds
<1> HIDE DEF j
<1>5. a \in Nat /\ a < RunEnd
  BY <1>1, <1>2, <1>3, <1>4
<1>6. j \in Bins
  BY <1>3, <1>5, BinsAre
<1>7. s \in Nat /\ s * Interval \in Nat /\ s * Interval <= a /\ a + Period <= s * Interval + Interval
  BY <1>3, OneSlot
<1>8. /\ LastOf(j) \in Nat
      /\ LastOf(j) = RunEnd \/ LastOf(j) = a + Period
      /\ a < Duration => LastOf(j) <= Duration
  BY <1>3, <1>5, BinFits
<1>9. lo \in Nat /\ hi = lo + Interval /\ hi \in Nat
  BY <1>1
<1> HIDE DEF a, lo, hi, s
<1>10. to \in {hi, Duration} /\ to <= hi /\ to <= Duration
  <2>1. hi \in Int /\ Duration \in Int
    BY <1>1, <1>9
  <2> QED
    BY ONLY <2>1, MinOfTwo
<1> HIDE DEF to
<1>11. j \in BinsOf(k) <=> a < Duration /\ s = k
  BY <1>6 DEF BinsOf, a, s
<1>12. ASSUME lo <= n, n < to PROVE a < Duration /\ s = k
  <2>1. n < Duration /\ n < lo + Interval
    BY <1>1, <1>2, <1>9, <1>10, <1>12
  <2>2. a < Duration
    BY <1>1, <1>2, <1>4, <1>5, <2>1
  <2>3. n \div Interval = k
    BY <1>1, <1>2, <1>12, <2>1, QuotientIs DEF lo
  <2>4. s * Interval <= n /\ n < s * Interval + Interval
    BY <1>1, <1>2, <1>4, <1>5, <1>7
  <2>5. n \div Interval = s
    BY <1>1, <1>2, <1>7, <2>4, QuotientIs
  <2> QED
    BY <2>2, <2>3, <2>5
<1>13. ASSUME a < Duration, s = k PROVE lo <= n /\ n < to
  <2>1. s * Interval = lo
    BY <1>13 DEF lo
  <2>2. lo <= n
    BY <1>2, <1>4, <1>5, <1>7, <1>9, <2>1
  <2>3. n < hi
    BY <1>1, <1>2, <1>4, <1>5, <1>7, <1>9, <2>1
  <2>4. n < Duration
    BY <1>1, <1>2, <1>4, <1>5, <1>8, <1>13
  <2> QED
    BY <1>10, <2>2, <2>3, <2>4
<1>14. lo <= n /\ n < to <=> j \in BinsOf(k)
  BY <1>11, <1>12, <1>13
<1> QED
  BY <1>3, <1>6, <1>14 DEF j, n, lo, hi, to

\* Every interval of the chart has the entries of its steps.
LEMMA ChartCounts ==
  ASSUME Finished, NEW m \in Measurements, NEW k \in Nat
  PROVE  LET chart == Shared(E2Series(m)) IN
         (IF k \in DOMAIN chart THEN chart[k] ELSE 0) =
           Period * Entries(ZonesOf(m), k * Interval, Min({(k + 1) * Interval, Duration}))
<1> DEFINE Z == ZonesOf(m)
           series == E2Series(m)
           chart == Shared(series)
           E == EntriesIn(Z, k * Interval, Min({(k + 1) * Interval, Duration}))
           J == BinsOf(k)
           K == EarlyIn(series)
           bin(x) == (x[3] - 1) \div Period
<1>1. IsFiniteSet(Z)
  <2>1. Z \subseteq Zones
    BY DEF ZonesOf
  <2> QED
    BY <2>1, ZonesApart, FS_Subset
<1>2. series = {BinOf(Z, j) : j \in Bins}
  BY SeriesIs
<1>3. Entries(Z, k * Interval, Min({(k + 1) * Interval, Duration})) = Cardinality(E)
  BY DEF Entries, EntriesIn
<1>4. /\ Period \in Nat \ {0} /\ Interval \in Nat \ {0} /\ clock \in Nat
  BY FinishedTypes
<1>5. Bins \subseteq Nat /\ IsFiniteSet(Bins)
  <2>1. (RunEnd - 1) \div Period \in Nat
    BY FinishedTypes
  <2> DEFINE q == (RunEnd - 1) \div Period
  <2> HIDE DEF q
  <2>2. 0 .. q \subseteq Nat /\ IsFiniteSet(0 .. q)
    BY <2>1, FS_Interval DEF q
  <2> QED
    BY <2>2 DEF Bins, q
<1>6. \A x \in People \X Z \X (1 .. clock) :
        /\ bin(x) \in Bins
        /\ x \in E <=> EntersAt(x[1], x[2], x[3]) /\ bin(x) \in J
  <2> TAKE x \in People \X Z \X (1 .. clock)
  <2> DEFINE i == x[3]
  <2>1. i \in 1 .. clock
    OBVIOUS
  <2>2. /\ (i - 1) \div Period \in Bins
        /\ k * Interval <= i - 1 /\ i - 1 < Min({(k + 1) * Interval, Duration})
             <=> (i - 1) \div Period \in J
    <3> HIDE DEF i
    <3> QED
      BY <2>1, StepOfSlot
  <2>3. x \in E <=> /\ k * Interval <= i - 1 /\ i - 1 < Min({(k + 1) * Interval, Duration})
                    /\ EntersAt(x[1], x[2], x[3])
    BY DEF EntriesIn
  <2> QED
    BY <2>2, <2>3
<1>7. E \subseteq People \X Z \X (1 .. clock)
  BY DEF EntriesIn
<1>8. \A j : BinOf(Z, j).first = j * Period
  BY DEF BinOf
<1>9. \A i, j \in Bins : BinOf(Z, i) = BinOf(Z, j) => i = j
  <2> SUFFICES ASSUME NEW i \in Bins, NEW j \in Bins, BinOf(Z, i) = BinOf(Z, j) PROVE i = j
    OBVIOUS
  <2>1. i * Period = j * Period
    BY <1>8
  <2>2. i \in Int /\ j \in Int
    BY <1>5
  <2> QED
    BY <1>4, <2>1, <2>2, OneMultiple
<1>10. /\ \A j \in Bins : j * Period < Duration => BinOf(Z, j) \in K
       /\ \A r \in K : \E j \in Bins : j * Period < Duration /\ r = BinOf(Z, j)
  <2>1. \A r : r \in K <=> r \in series /\ r.first < Duration
    BY DEF EarlyIn
  <2> HIDE DEF K, series
  <2> QED
    BY <1>2, <1>8, <2>1
<1>11. IsFiniteSet(K)
  <2> DEFINE h == [j \in Bins |-> BinOf(Z, j)]
  <2>1. \A r \in K : \E j \in Bins : r = h[j]
    <3> HIDE DEF K
    <3> QED
      BY <1>10
  <2> HIDE DEF h, K
  <2> QED
    BY <1>5, <2>1, ImageFinite
<1>12. ASSUME NEW j \in Bins, j * Period < Duration
       PROVE  LET r == BinOf(Z, j) IN
              /\ r.entered \in Nat /\ r.last = LastOf(j)
              /\ OverlapOf(r, k) > 0 <=> j \in J
              /\ ShareOf(r, k) = Period * (IF j \in J THEN r.entered ELSE 0)
  <2>1. j \in Nat
    BY <1>5
  <2>2. j \in J <=> SlotOf(j) = k
    BY <1>12 DEF BinsOf
  <2> DEFINE r == BinOf(Z, j)
  <2>3. /\ r.entered \in Nat /\ r.last = LastOf(j)
        /\ OverlapOf(r, k) > 0 <=> SlotOf(j) = k
        /\ ShareOf(r, k) = Period * (IF SlotOf(j) = k THEN r.entered ELSE 0)
    <3> HIDE DEF Z
    <3> QED
      BY <1>1, <1>12, <2>1, ShareIs
  <2> HIDE DEF r, J
  <2>4. /\ r.entered \in Nat /\ r.last = LastOf(j)
        /\ OverlapOf(r, k) > 0 <=> j \in J
        /\ ShareOf(r, k) = Period * (IF j \in J THEN r.entered ELSE 0)
    BY <2>2, <2>3
  <2> QED
    BY <2>4 DEF r
<1>13. k \in DOMAIN chart <=> J # {}
  <2>1. DOMAIN chart = ChartedIn(series)
    BY SharedIs
  <2>2. ASSUME k \in ChartedIn(series) PROVE J # {}
    <3>1. PICK r \in series : r.first < Duration /\ OverlapOf(r, k) > 0
      BY <2>2 DEF ChartedIn
    <3>2. r \in K
      BY <3>1 DEF EarlyIn
    <3>3. PICK j \in Bins : j * Period < Duration /\ r = BinOf(Z, j)
      <4> HIDE DEF K
      <4> QED
        BY <1>10, <3>2
    <3>4. j \in J
      <4> HIDE DEF J, Z
      <4> QED
        BY <1>12, <3>1, <3>3
    <3> QED
      BY <3>4
  <2>3. ASSUME J # {} PROVE k \in ChartedIn(series)
    <3>1. PICK j \in J : TRUE
      BY <2>3
    <3>2. j \in Bins /\ j * Period < Duration /\ SlotOf(j) = k
      BY <3>1 DEF BinsOf
    <3> DEFINE r == BinOf(Z, j)
    <3>3. r \in series
      BY <1>2, <3>2
    <3>4. r.first = j * Period
      BY <1>8
    <3>5. r.first < Duration /\ OverlapOf(r, k) > 0
      <4> HIDE DEF J, Z
      <4> QED
        BY <1>12, <3>1, <3>2, <3>4
    <3>6. k \in SlotsOf(series)
      <4>1. r.first \div Interval = k
        BY <3>2, <3>4 DEF SlotOf
      <4> HIDE DEF r, series
      <4> QED
        BY <3>3, <4>1 DEF SlotsOf
    <3> HIDE DEF r, series
    <3> QED
      BY <3>3, <3>5, <3>6 DEF ChartedIn
  <2> QED
    BY <2>1, <2>2, <2>3
<1>14. IsFiniteSet(E)
  <2>1. E \subseteq UNION {AllIn(Z, j) : j \in Bins}
    <3> SUFFICES ASSUME NEW x \in E PROVE \E j \in Bins : x \in AllIn(Z, j)
      OBVIOUS
    <3>1. x \in People \X Z \X (1 .. clock)
      BY <1>7
    <3>2. bin(x) \in Bins /\ EntersAt(x[1], x[2], x[3])
      <4> HIDE DEF E, J, bin
      <4> QED
        BY <1>6, <3>1
    <3>3. x \in AllIn(Z, bin(x))
      BY <3>1, <3>2 DEF AllIn
    <3> QED
      BY <3>2, <3>3
  <2> DEFINE h == [j \in Bins |-> AllIn(Z, j)]
             U == {AllIn(Z, j) : j \in Bins}
  <2>2. IsFiniteSet(U)
    <3>1. \A y \in U : \E j \in Bins : y = h[j]
      OBVIOUS
    <3> HIDE DEF h, U
    <3> QED
      BY <1>5, <3>1, ImageFinite
  <2>3. \A y \in U : IsFiniteSet(y)
    BY <1>1, AllInFinite
  <2> HIDE DEF U
  <2>4. IsFiniteSet(UNION U)
    BY <2>2, <2>3, FS_UNION
  <2> HIDE DEF E
  <2> QED
    BY <2>1, <2>4, FS_Subset DEF U
<1>15. CASE J = {}
  <2>1. E = {}
    <3> HIDE DEF E, J, bin
    <3> QED
      BY <1>6, <1>7, <1>15
  <2>2. Cardinality(E) = 0
    BY <2>1, FS_EmptySet
  <2>3. Period * 0 = 0
    BY <1>4
  <2>4. k \notin DOMAIN chart
    BY <1>13, <1>15
  <2> HIDE DEF chart, series, E
  <2> QED
    BY <1>3, <2>2, <2>3, <2>4 DEF chart, series
<1>16. CASE J # {}
  <2> DEFINE w == [r \in K |-> ShareOf(r, k)]
             key == [x \in E |-> BinOf(Z, bin(x))]
             part == [r \in K |-> {x \in E : key[x] = r}]
             u == [r \in K |-> Cardinality(part[r])]
             v == [r \in K |-> 0]
  <2>1. k \in DOMAIN chart /\ chart[k] = SumFunction(w)
    <3>1. k \in ChartedIn(series)
      BY <1>13, <1>16, SharedIs
    <3> QED
      BY <3>1, SharedIs
  <2>2. \A x \in E : x \in People \X Z \X (1 .. clock) /\ bin(x) \in J /\ EntersAt(x[1], x[2], x[3])
    <3> HIDE DEF E, J, bin
    <3> QED
      BY <1>6, <1>7
  <2>3. \A j \in J : j \in Bins /\ j * Period < Duration
    BY DEF BinsOf
  <2>4. \A x \in E : key[x] \in K /\ key[x] = BinOf(Z, bin(x))
    <3>1. \A x \in E : key[x] = BinOf(Z, bin(x))
      OBVIOUS
    <3> HIDE DEF K, E, J, bin, key
    <3> QED
      BY <1>10, <2>2, <2>3, <3>1
  <2>5. \A r \in K : \A x : x \in part[r] <=> x \in E /\ key[x] = r
    <3> HIDE DEF K, E, key
    <3> QED
      OBVIOUS
  <2>6. ASSUME NEW r \in K
        PROVE  Cardinality(part[r]) \in Nat /\ ShareOf(r, k) = Period * Cardinality(part[r])
    <3>1. PICK j \in Bins : j * Period < Duration /\ r = BinOf(Z, j)
      <4> HIDE DEF K
      <4> QED
        BY <1>10
    <3>2. \A x \in E : key[x] = r <=> bin(x) = j
      <4>1. \A x \in E : bin(x) \in Bins
        <5> HIDE DEF E, J, bin
        <5> QED
          BY <2>2, <2>3
      <4> HIDE DEF E, key, bin
      <4> QED
        BY <1>9, <2>4, <3>1, <4>1
    <3>3. r.entered = Cardinality(AllIn(Z, j)) /\ r.entered \in Nat
      <4>1. r.entered = Cardinality(AllIn(Z, j))
        BY <3>1 DEF BinOf
      <4> QED
        BY <1>1, <4>1, AllInFinite
    <3>4. ShareOf(r, k) = Period * (IF j \in J THEN r.entered ELSE 0)
      <4> HIDE DEF J, Z
      <4> QED
        BY <1>12, <3>1
    <3>5. CASE j \in J
      <4>1. \A x : x \in AllIn(Z, j) <=> x \in E /\ bin(x) = j
        <5>1. \A x : x \in AllIn(Z, j) <=> /\ x \in People \X Z \X (1 .. clock)
                                           /\ bin(x) = j /\ EntersAt(x[1], x[2], x[3])
          BY DEF AllIn
        <5> HIDE DEF E, J, bin
        <5> QED
          BY <1>6, <1>7, <3>5, <5>1
      <4>2. part[r] = AllIn(Z, j)
        <5> HIDE DEF E, J, bin, part, key, K
        <5> QED
          BY <2>5, <2>6, <3>2, <4>1
      <4> HIDE DEF part, J
      <4> QED
        BY <3>3, <3>4, <3>5, <4>2
    <3>6. CASE j \notin J
      <4>1. part[r] = {}
        <5> HIDE DEF E, J, bin, part, key, K
        <5> QED
          BY <2>2, <2>5, <2>6, <3>2, <3>6
      <4>2. Cardinality(part[r]) = 0
        BY <4>1, FS_EmptySet
      <4> HIDE DEF part, J
      <4> QED
        BY <3>4, <3>6, <4>2
    <3> QED
      BY <3>5, <3>6
  <2> HIDE DEF K, E, key, part, series, chart
  <2>7. SumFunction(u) = Cardinality(E)
    <3>1. Sorted(E, K, key, part, u)
      BY <1>11, <1>14, <2>4, <2>5 DEF Sorted
    <3> HIDE DEF u
    <3> QED
      BY <3>1, CountByKey
  <2>8. Linear(w, Period, u, v)
    <3>1. DOMAIN u = K /\ DOMAIN v = K /\ DOMAIN w = K
      OBVIOUS
    <3>2. ASSUME NEW r \in K
          PROVE  u[r] \in Int /\ v[r] \in Int /\ w[r] = Period * u[r] + v[r]
      <4>1. u[r] = Cardinality(part[r]) /\ v[r] = 0 /\ w[r] = ShareOf(r, k)
        OBVIOUS
      <4>2. u[r] \in Nat /\ w[r] = Period * u[r] /\ v[r] = 0
        BY <2>6, <4>1
      <4> HIDE DEF u, v, w
      <4>3. Period * u[r] \in Int
        BY <1>4, <4>2
      <4> QED
        BY <4>2, <4>3
    <3> HIDE DEF u, v, w
    <3> QED
      BY <1>4, <1>11, <3>1, <3>2 DEF Linear
  <2>9. SumFunction(v) = 0
    <3>1. DOMAIN v = K /\ \A r \in DOMAIN v : v[r] = 0
      OBVIOUS
    <3> HIDE DEF v
    <3> QED
      BY <1>11, <3>1, SumOfNothing
  <2>10. SumFunction(w) = Period * Cardinality(E)
    <3>1. SumFunction(u) \in Int /\ SumFunction(w) = Period * SumFunction(u) + SumFunction(v)
      <4> HIDE DEF u, v, w
      <4> QED
        BY <2>8, SumIsLinear
    <3> HIDE DEF u, v, w
    <3> QED
      BY <1>4, <2>7, <2>9, <3>1
  <2> QED
    BY <1>3, <2>1, <2>10 DEF chart, series
<1> QED
  BY <1>15, <1>16

\* Every reachable state has the counts of the observed walks.
THEOREM CountsInvHolds == CounterSpec => []CounterInv
<1>1. CounterInit => CounterInv
  BY CounterInitInv
<1>2. CounterInv /\ [CounterNext]_counterVars => CounterInv'
  BY CounterNextInv
<1> QED
  BY <1>1, <1>2, PTL DEF CounterSpec

\* SUMO's derived entries are what happened, whatever the periods are: the
\* second half of CountsAreEntries, in every state.
THEOREM DerivedEntriesHold ==
  CounterSpec => [](\A z \in Zones : \A r \in E3Series(z) :
                      r.entered = Entries({z}, r.first, r.last))
<1>1. CounterInv => \A z \in Zones : \A r \in E3Series(z) :
                      r.entered = Entries({z}, r.first, r.last)
  BY DerivedEntries DEF CounterInv
<1> QED
  BY <1>1, CountsInvHolds, PTL

\* The chart counts what happened (CountsAreEntries): the entries of every
\* measurement in every interval, and SUMO's derived ones in every period.
THEOREM CountsAreEntriesHolds == CounterSpec => []CountsAreEntries
<1>1. CounterInv => CountsAreEntries
  <2> SUFFICES ASSUME CounterInv, counting = "written" PROVE
         /\ \A m \in Measurements :
              LET zones == {z \in Zones : z.measurement = m}
                  chart == Shared(E2Series(m))
              IN  \A k \in 0 .. (MaxClock \div Interval) :
                    (IF k \in DOMAIN chart THEN chart[k] ELSE 0)
                      = Period * Entries(zones, k * Interval, Min({(k + 1) * Interval, Duration}))
         /\ \A z \in Zones : \A r \in E3Series(z) : r.entered = Entries({z}, r.first, r.last)
    BY DEF CountsAreEntries
  <2>1. Finished
    BY DEF CounterInv, Finished
  <2>2. ASSUME NEW m \in Measurements, NEW k \in 0 .. (MaxClock \div Interval)
        PROVE  LET zones == {z \in Zones : z.measurement = m}
                   chart == Shared(E2Series(m))
               IN  (IF k \in DOMAIN chart THEN chart[k] ELSE 0)
                     = Period * Entries(zones, k * Interval, Min({(k + 1) * Interval, Duration}))
    <3>1. k \in Nat
      OBVIOUS
    <3>2. {z \in Zones : z.measurement = m} = ZonesOf(m)
      BY DEF ZonesOf
    <3> QED
      BY <2>1, <3>1, <3>2, ChartCounts
  <2>3. \A z \in Zones : \A r \in E3Series(z) : r.entered = Entries({z}, r.first, r.last)
    BY DerivedEntries DEF CounterInv
  <2> QED
    BY <2>2, <2>3
<1> QED
  BY <1>1, CountsInvHolds, PTL

-----------------------------------------------------------------------------
(* ParkingLots: the spaces.                                                *)

Lengths(S) == [l \in S |-> lanes[l].length]

\* The numbers that Distributed computes on its way.
Parts(S, total, whole, base, given, rest) ==
  /\ whole = SumFunction(Lengths(S)) /\ given = SumFunction(base)
  /\ base = [l \in S |-> Max({1, (total * lanes[l].length) \div whole})]
  /\ rest = [l \in S |-> total * lanes[l].length - base[l] * whole]

LEMMA PartsAreShares ==
  ASSUME NEW S, IsFiniteSet(S), S # {}, S \subseteq Nat,
         \A l \in S : lanes[l].length \in Nat \ {0},
         NEW total \in Nat, NEW whole, NEW base, NEW given, NEW rest,
         Parts(S, total, whole, base, given, rest)
  PROVE  /\ Sharing(S, Lengths(S), total, whole, base, given)
         /\ DOMAIN rest = S /\ \A l \in S : rest[l] = total * Lengths(S)[l] - base[l] * whole
         /\ \A l \in S : Lesser(S, total, base, l) = Lower(S, rest, l)
         /\ Sum(S, LAMBDA l : base[l]) = given
<1>1. DOMAIN Lengths(S) = S /\ \A l \in S : Lengths(S)[l] = lanes[l].length
  BY DEF Lengths
<1>2. /\ whole = SumFunction(Lengths(S)) /\ given = SumFunction(base)
      /\ base = [l \in S |-> Max({1, (total * lanes[l].length) \div whole})]
      /\ rest = [l \in S |-> total * lanes[l].length - base[l] * whole]
  BY DEF Parts
<1>3. DOMAIN base = S /\ \A l \in S : base[l] = Max({1, (total * lanes[l].length) \div whole})
  BY <1>2
<1>4. DOMAIN rest = S /\ \A l \in S : rest[l] = total * lanes[l].length - base[l] * whole
  BY <1>2
<1>5. Sharing(S, Lengths(S), total, whole, base, given)
  <2>1. \A l \in S : /\ Lengths(S)[l] \in Nat \ {0}
                     /\ base[l] = Max({1, (total * Lengths(S)[l]) \div whole})
    BY <1>1, <1>3
  <2> QED
    BY <1>1, <1>2, <1>3, <2>1 DEF Sharing
<1>6. Sum(S, LAMBDA l : base[l]) = given
  <2>1. [l \in S |-> base[l]] = base
    BY <1>2
  <2> QED
    BY <1>2, <2>1 DEF Sum
<1>7. Sum(S, LAMBDA l : lanes[l].length) = whole
  BY <1>2 DEF Sum, Lengths
<1>8. ASSUME NEW l \in S PROVE Lesser(S, total, base, l) = Lower(S, rest, l)
  <2>1. Lesser(S, total, base, l) =
          {k \in S : LET r(j) == total * lanes[j].length - base[j] * whole
                     IN  r(k) < r(l) \/ (r(k) = r(l) /\ k < l)}
    BY <1>7 DEF Lesser
  <2>2. \A k \in S : rest[k] = total * lanes[k].length - base[k] * whole
    BY <1>4
  <2> QED
    BY <2>1, <2>2 DEF Lower
<1> QED
  BY <1>1, <1>4, <1>5, <1>6, <1>8

\* What a lot of the lanes S is to have when total spaces are asked for.
SharedOut(S, total, shares) ==
  /\ shares = [l \in S |-> shares[l]] /\ \A l \in S : shares[l] \in Nat \ {0}
  /\ SumFunction(shares) = IF total <= Cardinality(S) THEN Cardinality(S) ELSE total
  /\ LET whole == SumFunction(Lengths(S))
     IN  Ample(S, Lengths(S), total, whole) =>
           \A l \in S : /\ shares[l] * whole > total * lanes[l].length - whole
                        /\ shares[l] * whole < total * lanes[l].length + whole

LEMMA SharesAreFair ==
  ASSUME NEW S, NEW total, NEW whole, NEW base, NEW given,
         Sharing(S, Lengths(S), total, whole, base, given),
         NEW shares,
         \A l \in S : \/ shares[l] = base[l]
                      \/ shares[l] = base[l] + 1 /\ base[l] * whole < total * Lengths(S)[l],
         Ample(S, Lengths(S), total, whole)
  PROVE  \A l \in S : /\ shares[l] * whole > total * lanes[l].length - whole
                      /\ shares[l] * whole < total * lanes[l].length + whole
<1> SUFFICES ASSUME NEW l \in S
             PROVE  /\ shares[l] * whole > total * lanes[l].length - whole
                    /\ shares[l] * whole < total * lanes[l].length + whole
  OBVIOUS
<1> DEFINE a == total * lanes[l].length
           b == base[l] * whole
           c == shares[l] * whole
<1>1. Lengths(S)[l] = lanes[l].length
  BY DEF Lengths
<1>2. /\ whole \in Nat \ {0} /\ base[l] \in Nat \ {0} /\ b \in Nat /\ a \in Nat
      /\ a < b + whole /\ b <= a
  BY <1>1, SharesAreClose
<1>3. (base[l] + 1) * whole = base[l] * whole + whole
  BY <1>2, SMT
<1>4. c = b \/ (c = b + whole /\ b < a)
  BY <1>1, <1>3
<1> HIDE DEF a, b, c
<1>5. c > a - whole /\ c < a + whole
  BY <1>2, <1>4
<1> QED
  BY <1>5 DEF a, c

LEMMA DistributedIsShared ==
  ASSUME NEW S, IsFiniteSet(S), S # {}, S \subseteq Nat,
         \A l \in S : lanes[l].length \in Nat \ {0}, NEW total \in Nat
  PROVE  SharedOut(S, total, Distributed(S, total))
<1> DEFINE len == Lengths(S)
           whole == SumFunction(Lengths(S))
           base == [l \in S |-> Max({1, (total * lanes[l].length) \div whole})]
           given == SumFunction(base)
           rest == [l \in S |-> total * lanes[l].length - base[l] * whole]
           shares == Distributed(S, total)
           n == Cardinality(S)
<1>1. Sum(S, LAMBDA l : lanes[l].length) = whole
  BY DEF Sum, Lengths
<1>2. Sum(S, LAMBDA l : base[l]) = given
  BY DEF Sum
<1>3. shares = IF given < total THEN TopUp(S, total, base) ELSE CutDown(S, total, base)
  BY DEF Distributed, Sum, Lengths
<1>4. Parts(S, total, whole, base, given, rest)
  BY DEF Parts
<1> HIDE DEF len, whole, base, given, rest, shares
<1>5. /\ Sharing(S, len, total, whole, base, given)
      /\ DOMAIN rest = S /\ \A l \in S : rest[l] = total * len[l] - base[l] * whole
      /\ \A l \in S : Lesser(S, total, base, l) = Lower(S, rest, l)
      /\ Sum(S, LAMBDA l : base[l]) = given
  BY <1>4, PartsAreShares DEF len
<1>6. /\ given \in Nat /\ n \in Nat \ {0} /\ n <= given
      /\ Ample(S, len, total, whole) => given <= total
  BY <1>5, SharesAreClose, LittleIsMissing
<1>7. CASE given < total
  <2> DEFINE ahead == [l \in S |-> {k \in S : l \in Lower(S, rest, k)}]
  <2>1. \A l \in S : {k \in S : l \in Lesser(S, total, base, k)} = ahead[l]
    BY <1>5
  <2>2. TopUp(S, total, base) =
          [l \in S |-> base[l] + (total - given + n - 1 - Cardinality(ahead[l])) \div n]
    <3>1. TopUp(S, total, base) =
            [l \in S |-> base[l] + (total - given + n - 1
                                      - Cardinality({k \in S : l \in Lesser(S, total, base, k)})) \div n]
      BY <1>5 DEF TopUp
    <3> HIDE DEF ahead
    <3> QED
      BY <2>1, <3>1
  <2>3. ahead \in [S -> SUBSET S] /\ \A l \in S : ahead[l] = {k \in S : l \in Lower(S, rest, k)}
    OBVIOUS
  <2> HIDE DEF ahead
  <2>4. /\ DOMAIN shares = S /\ shares = [l \in S |-> shares[l]]
        /\ \A l \in S : shares[l] = base[l] + (total - given + n - 1 - Cardinality(ahead[l])) \div n
    BY <1>3, <1>7, <2>2
  <2>5. /\ \A l \in S : /\ shares[l] \in Nat \ {0}
                        /\ \/ shares[l] = base[l]
                           \/ shares[l] = base[l] + 1 /\ base[l] * whole < total * len[l]
        /\ SumFunction(shares) = total
    BY <1>5, <1>7, <2>3, <2>4, ToppedUp DEF n
  <2>6. Ample(S, len, total, whole) =>
          \A l \in S : /\ shares[l] * whole > total * lanes[l].length - whole
                       /\ shares[l] * whole < total * lanes[l].length + whole
    BY <1>5, <2>5, SharesAreFair DEF len
  <2>7. ~ (total <= n)
    BY <1>6, <1>7
  <2> QED
    BY <2>4, <2>5, <2>6, <2>7 DEF SharedOut, shares, whole, len, n
<1>8. CASE ~ (given < total)
  <2> DEFINE behind == [l \in S |-> Lower(S, rest, l)]
             earlier == [l \in S |-> [k \in behind[l] |-> base[k] - 1]]
  <2>1. CutDown(S, total, base) =
          [l \in S |-> base[l] - Min({base[l] - 1,
                                      Max({0, given - total - SumFunction(earlier[l])})})]
    <3>1. CutDown(S, total, base) =
            [l \in S |-> base[l] - Min({base[l] - 1,
                                        Max({0, given - total
                                                  - Sum(Lesser(S, total, base, l), LAMBDA k : base[k] - 1)})})]
      BY <1>5 DEF CutDown
    <3>2. \A l \in S : Sum(Lesser(S, total, base, l), LAMBDA k : base[k] - 1) = SumFunction(earlier[l])
      <4> SUFFICES ASSUME NEW l \in S
                   PROVE  Sum(Lesser(S, total, base, l), LAMBDA k : base[k] - 1)
                            = SumFunction([k \in Lower(S, rest, l) |-> base[k] - 1])
        OBVIOUS
      <4>1. Lesser(S, total, base, l) = Lower(S, rest, l)
        BY <1>5
      <4> QED
        BY <4>1 DEF Sum
    <3> HIDE DEF earlier
    <3> QED
      BY <3>1, <3>2
  <2>2. behind \in [S -> SUBSET S] /\ \A l \in S : behind[l] = Lower(S, rest, l)
    BY DEF Lower
  <2>3. \A l \in S : earlier[l] = [k \in behind[l] |-> base[k] - 1]
    OBVIOUS
  <2> HIDE DEF behind, earlier
  <2>4. /\ DOMAIN shares = S /\ shares = [l \in S |-> shares[l]]
        /\ \A l \in S : shares[l] = base[l] - Min({base[l] - 1,
                                                   Max({0, given - total - SumFunction(earlier[l])})})
    BY <1>3, <1>8, <2>1
  <2>5. CutAs(S, rest, total, given, base, behind, earlier, shares)
    <3>1. \A k, l \in S : k \in behind[l] <=> k \in Lower(S, rest, l)
      BY <2>2
    <3>2. \A l \in S : DOMAIN earlier[l] = behind[l] /\ \A k \in behind[l] : earlier[l][k] = base[k] - 1
      BY <2>3
    <3> QED
      BY <2>2, <2>4, <3>1, <3>2 DEF CutAs
  <2>6. /\ \A l \in S : shares[l] \in Nat \ {0}
        /\ SumFunction(shares) = IF total <= n THEN n ELSE total
        /\ total = given => \A l \in S : shares[l] = base[l]
    <3>1. total <= given
      BY <1>6, <1>8
    <3> QED
      BY <1>5, <2>5, <3>1, CutBack DEF n
  <2>7. ASSUME Ample(S, len, total, whole)
        PROVE  \A l \in S : /\ shares[l] * whole > total * lanes[l].length - whole
                            /\ shares[l] * whole < total * lanes[l].length + whole
    <3>1. total = given
      BY <1>6, <1>8, <2>7
    <3>2. \A l \in S : shares[l] = base[l]
      BY <2>6, <3>1
    <3> QED
      BY <1>5, <2>7, <3>2, SharesAreFair DEF len
  <2> QED
    BY <2>4, <2>6, <2>7 DEF SharedOut, shares, whole, len, n
<1> QED
  BY <1>7, <1>8

-----------------------------------------------------------------------------
(* ParkingLots: the lanes.                                                 *)

LotsTyped ==
  /\ ways \in [Ways -> WayKinds] /\ lanes \in [Lanes -> LaneKinds]
  /\ wanted # Unset => wanted \in Nat
  /\ tagged # Unset => tagged \in Nat

InsideOfLot == {l \in Lanes : /\ ways[WayOf[l]].road /\ ways[WayOf[l]].half
                              /\ lanes[l].half /\ Drivable(l)}

LEMMA OnlyRoads == Connected \subseteq {w \in Ways : ways[w].road}
<1> DEFINE roads == {w \in Ways : ways[w].road}
<1>1. roads \in SUBSET Ways /\ Gates \subseteq roads
  BY DEF Gates
<1>2. ASSUME NEW u \in roads, NEW w \in Ways, ways[w].road PROVE w \in roads
  BY <1>2
<1> HIDE DEF roads
<1>3. \A w \in Connected : w \in roads
  BY <1>1, <1>2 DEF Connected
<1> QED
  BY <1>3 DEF roads

\* The ways of the lot are those that lie in it, connected or not.
LEMMA WaysOfTheLot ==
  ASSUME LotsTyped
  PROVE  ParkingWays = {w \in Ways : ways[w].road /\ ways[w].half} /\ InsideLanes = InsideOfLot
<1>1. ParkingWays = {w \in Ways : ways[w].road /\ ways[w].half}
  BY OnlyRoads DEF ParkingWays, Related, Spatial
<1>2. \A l \in Lanes : WayOf[l] \in Ways
  BY LotAssumption
<1> QED
  BY <1>1, <1>2 DEF InsideLanes, InsideOfLot

LEMMA KindsOfLanes ==
  ASSUME LotsTyped, NEW l \in Lanes
  PROVE  l \in Nat /\ lanes[l].length \in Nat /\ lanes[l].distance \in Nat
<1>1. lanes[l] \in LaneKinds
  BY DEF LotsTyped
<1> QED
  BY <1>1, LotAssumption

ServiceFirst(l) == IF ways[WayOf[l]].service THEN 0 ELSE 1

LEMMA BeforeCases ==
  ASSUME LotsTyped, NEW k \in Lanes, NEW l \in Lanes
  PROVE  Before(k, l) <=>
           \/ ServiceFirst(k) < ServiceFirst(l)
           \/ /\ ServiceFirst(k) = ServiceFirst(l)
              /\ \/ lanes[k].distance < lanes[l].distance
                 \/ /\ lanes[k].distance = lanes[l].distance
                    /\ \/ lanes[k].length > lanes[l].length
                       \/ lanes[k].length = lanes[l].length /\ k < l
<1> DEFINE key(x) == <<ServiceFirst(x), lanes[x].distance, -lanes[x].length, x>>
           a == key(k)
           b == key(l)
<1>1. Before(k, l) <=> \E i \in 1 .. 4 : /\ \A j \in 1 .. (i - 1) : a[j] = b[j]
                                        /\ a[i] < b[i]
  BY DEF Before, ServiceFirst
<1>2. /\ a[1] = ServiceFirst(k) /\ b[1] = ServiceFirst(l)
      /\ a[2] = lanes[k].distance /\ b[2] = lanes[l].distance
      /\ a[3] = -lanes[k].length /\ b[3] = -lanes[l].length
      /\ a[4] = k /\ b[4] = l
  OBVIOUS
<1>3. lanes[k].length \in Nat /\ lanes[l].length \in Nat
  BY KindsOfLanes
<1> HIDE DEF a, b
<1>4. (\E i \in 1 .. 4 : (\A j \in 1 .. (i - 1) : a[j] = b[j]) /\ a[i] < b[i])
        <=> \/ a[1] < b[1]
            \/ a[1] = b[1] /\ a[2] < b[2]
            \/ a[1] = b[1] /\ a[2] = b[2] /\ a[3] < b[3]
            \/ a[1] = b[1] /\ a[2] = b[2] /\ a[3] = b[3] /\ a[4] < b[4]
  <2>1. 1 .. 4 = {1, 2, 3, 4} /\ 1 .. (1 - 1) = {} /\ 1 .. (2 - 1) = {1}
        /\ 1 .. (3 - 1) = {1, 2} /\ 1 .. (4 - 1) = {1, 2, 3}
    OBVIOUS
  <2> QED
    BY <2>1
<1>5. (a[3] < b[3] <=> lanes[k].length > lanes[l].length)
      /\ (a[3] = b[3] <=> lanes[k].length = lanes[l].length)
  BY <1>2, <1>3
<1> QED
  BY <1>1, <1>2, <1>4, <1>5

\* Among any lanes one comes first.
LEMMA FirstComes ==
  ASSUME LotsTyped, NEW S, S \subseteq Lanes, S # {}
  PROVE  First(S) \in S /\ \A k \in S : ~ Before(k, First(S))
<1> DEFINE before == [l \in S |-> {k \in S : Before(k, l)}]
<1>1. IsFiniteSet(S)
  BY LotAssumption, FS_Subset
<1>2. \A l \in S : ~ Before(l, l)
  <2> SUFFICES ASSUME NEW l \in S PROVE ~ Before(l, l)
    OBVIOUS
  <2>1. l \in Lanes /\ l \in Nat /\ lanes[l].length \in Nat /\ lanes[l].distance \in Nat
        /\ ServiceFirst(l) \in Nat
    BY KindsOfLanes DEF ServiceFirst
  <2> QED
    BY <2>1, BeforeCases
<1>3. ASSUME NEW j \in S, NEW k \in S, NEW l \in S, Before(j, k), Before(k, l)
      PROVE  Before(j, l)
  <2>1. \A x \in {j, k, l} : /\ x \in Lanes /\ x \in Nat
                             /\ lanes[x].length \in Nat /\ lanes[x].distance \in Nat
                             /\ ServiceFirst(x) \in Nat
    <3>1. \A x \in {j, k, l} : x \in Lanes /\ ServiceFirst(x) \in Nat
      BY DEF ServiceFirst
    <3> QED
      BY <3>1, KindsOfLanes
  <2> DEFINE Ahead(x, y) ==
               \/ ServiceFirst(x) < ServiceFirst(y)
               \/ /\ ServiceFirst(x) = ServiceFirst(y)
                  /\ \/ lanes[x].distance < lanes[y].distance
                     \/ /\ lanes[x].distance = lanes[y].distance
                        /\ \/ lanes[x].length > lanes[y].length
                           \/ lanes[x].length = lanes[y].length /\ x < y
  <2>2. Ahead(j, k) /\ Ahead(k, l) /\ (Ahead(j, l) => Before(j, l))
    BY <1>3, <2>1, BeforeCases
  <2>3. Ahead(j, l)
    BY <2>1, <2>2
  <2> QED
    BY <2>2, <2>3
<1>4. before \in [S -> SUBSET S]
  OBVIOUS
<1>5. \A l \in S : l \notin before[l] /\ \A k \in before[l] : before[k] \subseteq before[l]
  BY <1>2, <1>3
<1>6. \A l \in S : before[l] = {} => \A k \in S : ~ Before(k, l)
  OBVIOUS
<1> HIDE DEF before
<1>7. \E l \in S : before[l] = {}
  BY <1>1, <1>4, <1>5, OneIsFirst
<1>8. \E l \in S : \A k \in S : ~ Before(k, l)
  BY <1>6, <1>7
<1> QED
  BY <1>8 DEF First

\* The lane near the lot.
LEMMA FallbackComes ==
  ASSUME LotsTyped, Nearby # {}
  PROVE  /\ Fallback \in Nearby
         /\ Reaching[Fallback] < EnoughReaching =>
              \A k \in Nearby : ~ Before(k, Fallback)
<1> DEFINE tried == {l \in Nearby : Cardinality({k \in Nearby : Before(k, l)}) < MostTried}
           good == {l \in tried : Reaching[l] >= EnoughReaching}
<1>1. Fallback = First(IF good = {} THEN Nearby ELSE good)
  BY DEF Fallback
<1>2. Nearby \subseteq Lanes /\ good \subseteq Nearby
  BY DEF Nearby
<1>3. \A l \in good : Reaching[l] \in Nat /\ Reaching[l] >= EnoughReaching
  BY <1>2, LotAssumption
<1> HIDE DEF good
<1>4. CASE good = {}
  BY <1>1, <1>2, <1>4, FirstComes
<1>5. CASE good # {}
  <2>1. Fallback \in good
    BY <1>1, <1>2, <1>5, FirstComes
  <2>2. ~ (Reaching[Fallback] < EnoughReaching)
    BY <1>3, <2>1, LotAssumption
  <2> QED
    BY <1>2, <2>1, <2>2
<1> QED
  BY <1>4, <1>5

LEMMA SpacesComeOut ==
  ASSUME LotsTyped, NEW S, S \subseteq Lanes, S # {}, \A l \in S : Drivable(l)
  PROVE  LET spaces == SpacesOf(S)
             number == IF wanted = Unset THEN tagged ELSE wanted
         IN  /\ spaces = [l \in S |-> spaces[l]] /\ \A l \in S : spaces[l] \in Nat \ {0}
             /\ number # Unset => number \in Nat /\ SharedOut(S, number, spaces)
<1>1. IsFiniteSet(S) /\ S \subseteq Nat
  BY LotAssumption, FS_Subset
<1>2. \A l \in S : lanes[l].length \in Nat \ {0}
  <2> SUFFICES ASSUME NEW l \in S PROVE lanes[l].length \in Nat \ {0}
    OBVIOUS
  <2>1. lanes[l].length \in Nat /\ lanes[l].length >= MinLength
    BY KindsOfLanes DEF Drivable
  <2> QED
    BY <2>1, LotAssumption
<1>3. ASSUME NEW n \in Nat PROVE SharedOut(S, n, Distributed(S, n))
  BY <1>1, <1>2, DistributedIsShared
<1>4. ASSUME NEW n, NEW spaces, SharedOut(S, n, spaces)
      PROVE  spaces = [l \in S |-> spaces[l]] /\ \A l \in S : spaces[l] \in Nat \ {0}
  BY <1>4 DEF SharedOut
<1>5. CASE wanted # Unset
  <2>1. wanted \in Nat /\ SpacesOf(S) = Distributed(S, wanted)
    BY <1>5 DEF LotsTyped, SpacesOf
  <2> QED
    BY <1>3, <1>4, <1>5, <2>1
<1>6. CASE wanted = Unset /\ tagged # Unset
  <2>1. tagged \in Nat /\ SpacesOf(S) = Distributed(S, tagged)
    BY <1>6 DEF LotsTyped, SpacesOf
  <2> QED
    BY <1>3, <1>4, <1>6, <2>1
<1>7. CASE wanted = Unset /\ tagged = Unset
  <2>1. SpacesOf(S) = Estimated(S)
    BY <1>7 DEF SpacesOf
  <2> DEFINE e == [l \in S |-> Max({1, lanes[l].length \div SpaceLength})]
  <2>2. Estimated(S) = e
    BY DEF Estimated
  <2>3. ASSUME NEW l \in S PROVE e[l] \in Nat \ {0}
    <3> DEFINE q == lanes[l].length \div SpaceLength
    <3>1. q \in Nat
      <4>1. lanes[l].length \in Nat /\ SpaceLength \in Nat \ {0}
        BY <1>2, LotAssumption
      <4> QED
        BY <4>1, QuotientGrows
    <3>2. e[l] = Max({1, q})
      OBVIOUS
    <3> HIDE DEF q, e
    <3>3. e[l] = IF 1 <= q THEN q ELSE 1
      BY <3>1, <3>2, GreaterOfTwo
    <3> QED
      BY <3>1, <3>3
  <2>4. e = [l \in S |-> e[l]]
    OBVIOUS
  <2> HIDE DEF e
  <2> QED
    BY <1>7, <2>1, <2>2, <2>3, <2>4
<1> QED
  BY <1>5, <1>6, <1>7

-----------------------------------------------------------------------------
(* ParkingLots: the lot.                                                   *)

BuiltLot ==
  IF InsideLanes = {} /\ Nearby = {} THEN [fallback |-> TRUE, spaces |-> <<>>]
  ELSE [fallback |-> Discovered.fallback, spaces |-> SpacesOf(Discovered.lanes),
        routing |-> Routing(Discovered)]

LEMMA LanesOfTheLot ==
  ASSUME LotsTyped, ~ (InsideLanes = {} /\ Nearby = {})
  PROVE  LET S == Discovered.lanes
             routing == Routing(Discovered)
         IN  /\ S \subseteq Lanes /\ S # {} /\ \A l \in S : Drivable(l)
             /\ IF InsideOfLot # {} THEN S = InsideOfLot /\ ~ Discovered.fallback
                ELSE /\ Cardinality(S) = 1 /\ Discovered.fallback
                     /\ \A l \in S : Reaching[l] < EnoughReaching =>
                                       \A k \in Nearby : ~ Before(k, l)
             /\ routing # {}
             /\ InsideOfLot # {} /\ AccessEdges # {} => routing \cap {EdgeOf[l] : l \in S} = {}
<1>1. InsideLanes = InsideOfLot /\ ParkingWays = {w \in Ways : ways[w].road /\ ways[w].half}
  BY WaysOfTheLot
<1>2. CASE InsideLanes # {}
  <2>1. /\ Discovered.lanes = InsideLanes /\ Discovered.fallback = FALSE
        /\ Discovered.access = IF AccessEdges # {} THEN AccessEdges
                               ELSE {EdgeOf[l] : l \in InsideLanes}
    BY <1>2 DEF Discovered
  <2>2. InsideLanes \subseteq Lanes /\ \A l \in InsideLanes : Drivable(l) /\ WayOf[l] \in ParkingWays
    BY DEF InsideLanes
  <2>3. Routing(Discovered) = IF AccessEdges # {} THEN AccessEdges
                              ELSE {EdgeOf[l] : l \in InsideLanes}
    BY <2>1 DEF Routing
  <2>4. Routing(Discovered) # {}
    BY <1>2, <2>3
  <2>5. AccessEdges # {} => Routing(Discovered) \cap {EdgeOf[l] : l \in InsideLanes} = {}
    <3> SUFFICES ASSUME NEW e \in AccessEdges, NEW l \in InsideLanes, e = EdgeOf[l] PROVE FALSE
      BY <2>3
    <3>1. PICK k \in Lanes : WayOf[k] \in Excluded /\ e = EdgeOf[k]
      BY DEF AccessEdges
    <3>2. l \in Lanes /\ WayOf[l] = WayOf[k]
      BY <2>2, <3>1, LotAssumption
    <3> QED
      BY <2>2, <3>1, <3>2 DEF Excluded
  <2> QED
    BY <1>1, <1>2, <2>1, <2>2, <2>4, <2>5
<1>3. CASE InsideLanes = {}
  <2>1. Nearby # {}
    BY <1>3
  <2>2. /\ Discovered.lanes = {Fallback} /\ Discovered.fallback = TRUE
    BY <1>3 DEF Discovered
  <2>3. Routing(Discovered) = {EdgeOf[l] : l \in {Fallback}}
    BY <2>2 DEF Routing
  <2>4. /\ Fallback \in Nearby
        /\ Reaching[Fallback] < EnoughReaching => \A k \in Nearby : ~ Before(k, Fallback)
    BY <2>1, FallbackComes
  <2>5. Fallback \in Lanes /\ Drivable(Fallback)
    BY <2>4 DEF Nearby
  <2>6. Cardinality({Fallback}) = 1
    BY FS_Singleton
  <2> QED
    BY <1>1, <1>3, <2>2, <2>3, <2>4, <2>5, <2>6
<1> QED
  BY <1>2, <1>3

\* LotsAreBuilt in its parts, for any lot of the map.
RightLanes(S, fallback) ==
  IF InsideOfLot # {} THEN S = InsideOfLot /\ ~ fallback
  ELSE /\ Cardinality(S) = 1 /\ fallback
       /\ \A l \in S : /\ Drivable(l)
                       /\ Reaching[l] < EnoughReaching =>
                            \A k \in Nearby : Before(k, l) => Reaching[k] < EnoughReaching

RightRouting(S, routing) ==
  /\ routing # {}
  /\ InsideOfLot # {} /\ AccessEdges # {} => routing \cap {EdgeOf[l] : l \in S} = {}

Number == IF wanted = Unset THEN tagged ELSE wanted

RightSpaces(S, spaces) ==
  /\ \A l \in S : spaces[l] >= 1
  /\ Number # Unset =>
       /\ SumFunction([l \in S |-> spaces[l]]) = Max({Number, Cardinality(S)})
       /\ (\A l \in S : Number * lanes[l].length >= SumFunction(Lengths(S))) =>
            \A l \in S :
              /\ spaces[l] * SumFunction(Lengths(S)) > Number * lanes[l].length - SumFunction(Lengths(S))
              /\ spaces[l] * SumFunction(Lengths(S)) < Number * lanes[l].length + SumFunction(Lengths(S))

RightLot(x) ==
  x # Unset /\ x.spaces # <<>> =>
    /\ RightLanes(DOMAIN x.spaces, x.fallback)
    /\ RightRouting(DOMAIN x.spaces, x.routing)
    /\ RightSpaces(DOMAIN x.spaces, x.spaces)

LEMMA LotIsRight ==
  ASSUME LotsTyped
  PROVE  RightLot(BuiltLot)
<1> DEFINE S == Discovered.lanes
           spaces == SpacesOf(S)
           whole == SumFunction(Lengths(S))
<1> SUFFICES ASSUME BuiltLot # Unset, BuiltLot.spaces # <<>>
             PROVE  /\ RightLanes(DOMAIN BuiltLot.spaces, BuiltLot.fallback)
                    /\ RightRouting(DOMAIN BuiltLot.spaces, BuiltLot.routing)
                    /\ RightSpaces(DOMAIN BuiltLot.spaces, BuiltLot.spaces)
  BY DEF RightLot
<1>1. ~ (InsideLanes = {} /\ Nearby = {})
  <2> SUFFICES ASSUME InsideLanes = {}, Nearby = {} PROVE FALSE
    OBVIOUS
  <2>1. BuiltLot.spaces = <<>>
    BY DEF BuiltLot
  <2> QED
    BY <2>1
<1>2. BuiltLot.fallback = Discovered.fallback /\ BuiltLot.spaces = spaces
      /\ BuiltLot.routing = Routing(Discovered)
  BY <1>1 DEF BuiltLot
<1>3. /\ S \subseteq Lanes /\ S # {} /\ \A l \in S : Drivable(l)
      /\ IF InsideOfLot # {} THEN S = InsideOfLot /\ ~ Discovered.fallback
         ELSE /\ Cardinality(S) = 1 /\ Discovered.fallback
              /\ \A l \in S : Reaching[l] < EnoughReaching => \A k \in Nearby : ~ Before(k, l)
      /\ Routing(Discovered) # {}
      /\ InsideOfLot # {} /\ AccessEdges # {} =>
           Routing(Discovered) \cap {EdgeOf[l] : l \in S} = {}
  BY <1>1, LanesOfTheLot
<1> HIDE DEF S
<1>4. /\ spaces = [l \in S |-> spaces[l]] /\ \A l \in S : spaces[l] \in Nat \ {0}
      /\ Number # Unset => Number \in Nat /\ SharedOut(S, Number, spaces)
  BY <1>3, SpacesComeOut DEF Number
<1> HIDE DEF spaces
<1>5. DOMAIN BuiltLot.spaces = S
  BY <1>2, <1>4
<1>6. RightLanes(S, BuiltLot.fallback)
  BY <1>2, <1>3 DEF RightLanes
<1>7. RightRouting(S, BuiltLot.routing)
  BY <1>2, <1>3 DEF RightRouting
<1>8. RightSpaces(S, spaces)
  <2>1. \A l \in S : spaces[l] >= 1
    BY <1>4
  <2>2. ASSUME Number # Unset
        PROVE  /\ SumFunction(spaces) = Max({Number, Cardinality(S)})
               /\ (\A l \in S : Number * lanes[l].length >= whole) =>
                    \A l \in S : /\ spaces[l] * whole > Number * lanes[l].length - whole
                                 /\ spaces[l] * whole < Number * lanes[l].length + whole
    <3>1. Number \in Nat /\ SharedOut(S, Number, spaces)
      BY <1>4, <2>2
    <3>2. Cardinality(S) \in Nat
      BY <1>3, LotAssumption, FS_Subset, FS_CardinalityType
    <3>3. Max({Number, Cardinality(S)}) = IF Number <= Cardinality(S) THEN Cardinality(S) ELSE Number
      <4> DEFINE c == Cardinality(S)
      <4>1. c \in Int /\ Number \in Int
        BY <3>1, <3>2
      <4> HIDE DEF c
      <4>2. Max({Number, c}) = IF Number <= c THEN c ELSE Number
        BY <4>1, GreaterOfTwo
      <4> QED
        BY <4>2 DEF c
    <3>4. \A l \in S : Lengths(S)[l] = lanes[l].length
      BY DEF Lengths
    <3>5. SumFunction(spaces) = Max({Number, Cardinality(S)})
      BY <3>1, <3>3 DEF SharedOut
    <3>6. (\A l \in S : Number * lanes[l].length >= whole) => Ample(S, Lengths(S), Number, whole)
      BY <3>4 DEF Ample
    <3> QED
      BY <3>1, <3>5, <3>6 DEF SharedOut
  <2>3. [l \in S |-> spaces[l]] = spaces
    BY <1>4
  <2> QED
    BY <2>1, <2>2, <2>3 DEF RightSpaces
<1> QED
  BY <1>2, <1>5, <1>6, <1>7, <1>8

\* The map stays as it is.
SameMap == ways' = ways /\ lanes' = lanes /\ wanted' = wanted /\ tagged' = tagged

LEMMA MapStays ==
  ASSUME SameMap
  PROVE  /\ InsideOfLot' = InsideOfLot /\ Nearby' = Nearby /\ AccessEdges' = AccessEdges
         /\ Number' = Number
         /\ \A l : Drivable(l)' <=> Drivable(l)
         /\ \A k, l : Before(k, l)' <=> Before(k, l)
         /\ \A S : Lengths(S)' = Lengths(S)
<1> USE DEF SameMap
<1>1. \A l : Drivable(l)' <=> Drivable(l)
  BY DEF Drivable
<1>2. InsideOfLot' = InsideOfLot
  BY <1>1 DEF InsideOfLot
<1>3. Nearby' = Nearby
  BY <1>1 DEF Nearby
<1>4. \A k, l : Before(k, l)' <=> Before(k, l)
  BY DEF Before
<1>5. \A S : Lengths(S)' = Lengths(S)
  BY DEF Lengths
<1>6. Gates' = Gates
  BY DEF Gates, Near
<1>7. Connected' = Connected
  BY <1>6 DEF Connected, Accepted
<1>8. Spatial' = Spatial
  BY DEF Spatial
<1>9. Related' = Related
  BY <1>7, <1>8 DEF Related
<1>10. ParkingWays' = ParkingWays
  BY <1>9 DEF ParkingWays
<1>11. Excluded' = Excluded
  BY <1>9, <1>10 DEF Excluded
<1>12. AccessEdges' = AccessEdges
  BY <1>11 DEF AccessEdges
<1>13. Number' = Number
  BY DEF Number
<1> QED
  BY <1>1, <1>2, <1>3, <1>4, <1>5, <1>12, <1>13

LEMMA RightInParts == LotsAreBuilt <=> RightLot(lot)
BY DEF LotsAreBuilt, RightLot, RightLanes, RightRouting, RightSpaces, Sum, Lengths, InsideOfLot,
       Number

\* Whether a lot is right depends on the map alone.
LEMMA RightStays ==
  ASSUME SameMap, RightLot(lot')
  PROVE  RightLot(lot)'
<1>1. /\ InsideOfLot' = InsideOfLot /\ Nearby' = Nearby /\ AccessEdges' = AccessEdges
      /\ Number' = Number /\ lanes' = lanes
      /\ \A l : Drivable(l)' <=> Drivable(l)
      /\ \A k, l : Before(k, l)' <=> Before(k, l)
      /\ \A S : Lengths(S)' = Lengths(S)
  BY MapStays DEF SameMap
<1> QED
  BY <1>1 DEF RightLot, RightLanes, RightRouting, RightSpaces

\* The inductive invariant: the map has its type, and the lot, once it is there,
\* is right.
LotInv == LotsTyped /\ RightLot(lot)

THEOREM LotInvHolds == LotSpec => []LotInv
<1>1. LotInit => LotInv
  BY LotAssumption DEF LotInit, LotInv, LotsTyped, RightLot
<1>2. ASSUME LotInv, [GenerateLot]_lotVars PROVE LotInv'
  <2>1. SameMap /\ (lot' = lot \/ lot' = BuiltLot)
    BY <1>2 DEF GenerateLot, BuiltLot, lotVars, SameMap
  <2>2. LotsTyped'
    BY <1>2, <2>1 DEF LotInv, LotsTyped, SameMap
  <2>3. RightLot(BuiltLot) /\ RightLot(lot)
    BY <1>2, LotIsRight DEF LotInv
  <2>4. RightLot(lot')
    BY <2>1, <2>3
  <2>5. RightLot(lot)'
    BY <2>1, <2>4, RightStays
  <2> QED
    BY <2>2, <2>5 DEF LotInv
<1> QED
  BY <1>1, <1>2, PTL DEF LotSpec

\* LotsAreBuilt, of every map and every number of spaces asked for.
THEOREM LotsAreBuiltHolds == LotSpec => []LotsAreBuilt
<1>1. LotInv => LotsAreBuilt
  BY RightInParts DEF LotInv
<1> QED
  BY <1>1, LotInvHolds, PTL

=============================================================================
