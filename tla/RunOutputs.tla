----------------------------- MODULE RunOutputs -----------------------------
(***************************************************************************)
(* What a run leaves behind: the tracker's record of every driver and its  *)
(* journey segments (backend/sumo/controller/vehicle_tracker.py), the      *)
(* parking events and the occupancy log (metrics_logger.py), written by    *)
(* the main loop of backend/sumo/controller/main.py while SUMO moves the   *)
(* vehicles, truncated and replayed when SUMO crashes, and closed by       *)
(* finalize.  Module ParkingController has the decisions that share the    *)
(* spaces; here one step moves one vehicle and the books are about time.   *)
(***************************************************************************)
EXTENDS Integers, Sequences, FiniteSets, SequencesExt

CONSTANTS
  Drivers, Lots, Areas,
  LotOf,            \* the lot of a physical area
  Spaces,           \* the capacity of a physical area
  FirstChoice,      \* initial_parking of a driver
  Candidates,       \* parking_candidates_json of a driver
  OccupancyEvery,   \* 60 s in the code
  CheckpointEvery,  \* recovery_checkpoint_interval
  MaxTime, MaxReplays,
  None

SegmentTypes == {"to_parking", "inside_parking", "between_parkings", "parked"}

Segment == [type : SegmentTypes, lot : Lots, area : Areas \cup {None}, from : Lots \cup {None},
            start : Nat]

ASSUME OutputsAssumption ==
  /\ IsFiniteSet(Drivers) /\ IsFiniteSet(Areas)
  /\ LotOf \in [Areas -> Lots] /\ Spaces \in [Areas -> Nat]
  /\ OccupancyEvery \in Nat \ {0}
  /\ FirstChoice \in [Drivers -> Lots]
  /\ Candidates \in [Drivers -> Seq(Lots)]
  /\ None \notin Lots /\ None \notin Areas /\ None \notin Int /\ None \notin Segment

VARIABLES
  now,         \* SUMO's clock
  stage,       \* of the run's outputs
  place,       \* SUMO: where a vehicle is
  stood,       \* SUMO: the area a vehicle's stop started in
  tracker,     \* VehicleTracker: data, open segment, closed segments
  assigned,    \* vehicle_assignment
  visited,     \* completed_parking
  events,      \* parking_events.csv: the rows that the reports read
  occupancy,   \* parking_occupancy.csv
  saved,       \* the last checkpoint
  replays      \* recovery_attempts

outputVars == <<now, stage, place, stood, tracker, assigned, visited, events,
                occupancy, saved, replays>>

-----------------------------------------------------------------------------
(* The tracker.  The code keeps the segments of all vehicles in one list   *)
(* and sorts the file by vehicle and index: a sequence for each vehicle.   *)

Fresh(v) ==
  [status |-> "not_inserted", target |-> FirstChoice[v], final |-> None,
   arrival |-> None, rerouted |-> None, parkedAt |-> None, search |-> None,
   changes |-> 0, attempted |-> {}, rejected |-> {},
   open |-> None, segments |-> <<>>]

Ended(segment, t, outcome) ==
  [segment |-> segment, outcome |-> outcome,
   finish |-> IF t > segment.start THEN t ELSE segment.start]

Close(r, t, outcome) ==
  IF r.open = None THEN r
  ELSE [r EXCEPT !.open = None, !.segments = Append(@, Ended(r.open, t, outcome))]

Transition(r, t, type, lot, area, from) ==
  LET next == [type |-> type, lot |-> lot, area |-> area, from |-> from, start |-> t]
      same == r.open # None /\ [next EXCEPT !.start = r.open.start] = r.open
  IN  IF same THEN r ELSE [Close(r, t, "completed") EXCEPT !.open = next]

ActiveStatuses == {"active", "assigned", "searching", "between"}

MarkActive(r, t) ==
  LET a == IF r.status = "not_inserted" THEN [r EXCEPT !.status = "active"] ELSE r
  IN  IF a.open = None /\ a.status \in ActiveStatuses
      THEN Transition(a, t, "to_parking", a.target, None, None)
      ELSE a

MarkInside(r, t) ==
  IF r.open # None /\ r.open.type = "parked" THEN r
  ELSE Transition([r EXCEPT !.arrival = IF @ = None THEN t ELSE @,
                            !.status = "searching"],
                  t, "inside_parking", r.target, None, None)

MarkAttempt(r, t, lot) ==
  [r EXCEPT !.arrival = IF @ = None THEN t ELSE @, !.attempted = @ \cup {lot}]

MarkTargetChanged(r, t, lot) ==
  IF r.target = lot THEN r
  ELSE Transition([r EXCEPT !.rerouted = IF @ = None THEN t ELSE @,
                            !.target = lot, !.changes = @ + 1,
                            !.status = "between"],
                  t, "between_parkings", lot, None, r.target)

MarkAssigned(r, area) == [r EXCEPT !.final = area, !.status = "assigned"]

SearchSegments == {"inside_parking", "between_parkings"}

Searched(segments) == {i \in DOMAIN segments : segments[i].segment.type \in SearchSegments}

Elapses(segment) == segment.finish - segment.segment.start

SearchDuration(r) ==
  SumFunction([i \in Searched(r.segments) |-> Elapses(r.segments[i])])

\* A slip: the search is measured before its last segment is closed.
MarkParkedEarly(r, t, area) ==
  Transition([r EXCEPT !.parkedAt = t, !.final = area, !.status = "parked",
                       !.search = SearchDuration(r)],
             t, "parked", r.target, area, None)

MarkParked(r, t, area) ==
  LET p == Transition([r EXCEPT !.parkedAt = t, !.final = area, !.status = "parked"],
                      t, "parked", r.target, area, None)
  IN  [p EXCEPT !.search = SearchDuration(p)]

MarkParkingEnded(r, t) == [Close(r, t, "completed") EXCEPT !.status = "completed"]

MarkUnserved(r, t) ==
  LET c == Close(r, t, "unserved")
  IN  [c EXCEPT !.search = SearchDuration(c), !.status = "unserved"]

Finalized(r, t) ==
  LET c == Close(r, t, "simulation_ended")
  IN  IF r.open # None /\ r.search = None
      THEN [c EXCEPT !.search = SearchDuration(c)] ELSE c

-----------------------------------------------------------------------------
(* The logs and the checkpoint.                                            *)

Row(t, v, event, lot, area) ==
  [time |-> t, driver |-> v, event |-> event, lot |-> lot, area |-> area]

Standing(at, in, a) == Cardinality({v \in Drivers : at[v] = "space" /\ in[v] = a})

OccupancyRows(t, at, in) ==
  IF t % OccupancyEvery # 0 THEN <<>>
  ELSE <<[time |-> t, occupied |-> [a \in Areas |-> Standing(at, in, a)]]>>

\* capture_controller_state: copies of the books, positions of the logs.
Capture(t, at, in, books, given, done, log, counts) ==
  [time |-> t, place |-> at, stood |-> in, tracker |-> books, assigned |-> given,
   visited |-> done, events |-> Len(log), occupancy |-> Len(counts)]

OutputsInit ==
  /\ now = 0
  /\ stage = "running"
  /\ place = [v \in Drivers |-> "waiting"]
  /\ stood = [v \in Drivers |-> None]
  /\ tracker = [v \in Drivers |-> Fresh(v)]
  /\ assigned = [v \in Drivers |-> None]
  /\ visited = {}
  /\ events = <<>>
  /\ occupancy = <<>>
  /\ saved = Capture(0, place, stood, tracker, assigned, visited, events, occupancy)
  /\ replays = 0

\* The visit of a vehicle that has not moved: one in the aisle is marked again,
\* also after its stop, as completed_parking is tested later.
Seen(u) == IF place[u] = "aisle" THEN MarkInside(tracker[u], now + 1) ELSE tracker[u]

\* One iteration of the main loop: SUMO has moved v to p, the handlers have
\* made its record r and written rows, and the checkpoint is taken when due.
Iteration(v, p, r, given, done, rows) ==
  /\ stage = "running"
  /\ now < MaxTime
  /\ now' = now + 1
  /\ place' = [place EXCEPT ![v] = p]
  /\ stood' = [stood EXCEPT ![v] = IF p = "space" THEN given ELSE @]
  /\ tracker' = [u \in Drivers |-> IF u = v THEN r ELSE Seen(u)]
  /\ assigned' = [assigned EXCEPT ![v] = given]
  /\ visited' = visited \cup done
  /\ events' = events \o rows
  /\ occupancy' = occupancy \o OccupancyRows(now', place', stood')
  /\ saved' = IF now' - saved.time < CheckpointEvery THEN saved
              ELSE Capture(now', place', stood', tracker', assigned', visited',
                           events', occupancy')
  /\ UNCHANGED <<stage, replays>>

-----------------------------------------------------------------------------
(* The handlers of a vehicle.                                              *)

Departs(v) ==
  /\ place[v] = "waiting"
  /\ Iteration(v, "road", MarkActive(tracker[v], now + 1), None, {}, <<>>)

Reserved(a) == Cardinality({v \in Drivers : assigned[v] = a /\ stood[v] = None})

FreeAreas(lot) ==
  {a \in Areas : LotOf[a] = lot
                 /\ Spaces[a] > Standing(place, stood, a) + Reserved(a)}

Left(r, v) == (ToSet(Candidates[v]) \cup {FirstChoice[v]}) \ (r.attempted \cup r.rejected)

\* A driver without a space meets the access edge of lot: its target, or an
\* untried candidate that it passes on its way.
Meets(v, lot) ==
  /\ place[v] \in {"road", "aisle"}
  /\ assigned[v] = None
  /\ v \notin visited
  /\ lot = tracker[v].target \/ lot \in Left(tracker[v], v)

Tried(v, lot) == MarkAttempt(tracker[v], now + 1, lot)

AttemptRow(v, lot) == <<Row(now + 1, v, "parking_attempt", lot, None)>>

\* A lot that is only passed and has no space is tried and left behind.
DrivesPast(v, lot) ==
  /\ Meets(v, lot)
  /\ lot # tracker[v].target
  /\ Iteration(v, "road", Tried(v, lot), None, {}, AttemptRow(v, lot))

TakesSpace(v, lot) ==
  /\ Meets(v, lot)
  /\ \E a \in FreeAreas(lot) :
       Iteration(v, "road",
                 MarkAssigned(MarkTargetChanged(Tried(v, lot), now + 1, lot), a),
                 a, {}, AttemptRow(v, lot))

\* What is on record when the lot turns the driver away: the target had no
\* reachable space, or the assignment of a space raised.
TurnedAway(v, lot) ==
  {r \in {Tried(v, lot), MarkTargetChanged(Tried(v, lot), now + 1, lot)} :
     \/ r.target = lot /\ lot = tracker[v].target
     \/ r.target = lot /\ FreeAreas(lot) # {}}

\* reroute_to_next_candidate: some of the others are refused on the way.
SearchesOn(v, lot) ==
  /\ Meets(v, lot)
  /\ \E r \in TurnedAway(v, lot) : \E next \in Left(r, v) :
       \E refused \in SUBSET (Left(r, v) \ {next}) :
         Iteration(v, "road",
                   MarkTargetChanged([r EXCEPT !.rejected = @ \cup refused],
                                     now + 1, next),
                   None, {}, AttemptRow(v, lot))

\* mark_vehicle_unserved: no candidate is left, or none of them can be reached.
GivesUp(v, lot) ==
  /\ Meets(v, lot)
  /\ \E r \in TurnedAway(v, lot) :
       Iteration(v, "gone",
                 MarkUnserved([r EXCEPT !.rejected = @ \cup Left(r, v)], now + 1),
                 None, {v}, AttemptRow(v, lot))

EntersLot(v) ==
  /\ place[v] = "road"
  /\ Iteration(v, "aisle", MarkInside(tracker[v], now + 1), assigned[v], {}, <<>>)

StopStarts(v) ==
  /\ place[v] = "aisle"
  /\ assigned[v] # None
  /\ LET a == assigned[v] IN
       Iteration(v, "space", MarkParked(MarkInside(tracker[v], now + 1), now + 1, a),
                 a, {}, <<Row(now + 1, v, "parking_started", tracker[v].target, a)>>)

StopEnds(v) ==
  /\ place[v] = "space"
  /\ Iteration(v, "aisle", MarkParkingEnded(tracker[v], now + 1), None, {v},
               <<Row(now + 1, v, "parking_ended", tracker[v].target, assigned[v])>>)

\* SUMO keeps a vehicle in the aisle, after its stop too.  Elsewhere a step
\* that moves nobody changes nothing but the clock, as do the steps of others.
Stays(v) ==
  /\ place[v] = "aisle"
  /\ Iteration(v, "aisle", Seen(v), assigned[v], {}, <<>>)

\* The end of the route: a driver that has neither parked nor a space to go
\* to is unserved; one with a space is skipped.
Arrives(v) ==
  /\ place[v] \in {"road", "aisle"}
  /\ Iteration(v, "gone",
               IF v \in visited \/ assigned[v] # None THEN tracker[v]
               ELSE MarkUnserved(tracker[v], now + 1),
               assigned[v], {}, <<>>)

Passes(v) == \E lot \in Lots :
  DrivesPast(v, lot) \/ TakesSpace(v, lot) \/ SearchesOn(v, lot) \/ GivesUp(v, lot)

-----------------------------------------------------------------------------
(* Recovery and the end of the run.                                        *)

\* A slip: the log goes on behind the rows that will be written again.
KeepAll(log, count) == log

\* CsvLogger.restore.
CutOff(log, count) == SubSeq(log, 1, count)

\* SUMO has died: its saved state is loaded, the books are copied back and
\* the rows written since the checkpoint are cut off.
Recover ==
  /\ stage = "running"
  /\ replays < MaxReplays
  /\ replays' = replays + 1
  /\ now' = saved.time
  /\ place' = saved.place
  /\ stood' = saved.stood
  /\ tracker' = saved.tracker
  /\ assigned' = saved.assigned
  /\ visited' = saved.visited
  /\ events' = CutOff(events, saved.events)
  /\ occupancy' = CutOff(occupancy, saved.occupancy)
  /\ UNCHANGED <<stage, saved>>

\* The loop ends, or an exception or a stop leaves it: the finally block.
WriteOutputs ==
  /\ stage = "running"
  /\ stage' = "written"
  /\ tracker' = [v \in Drivers |-> Finalized(tracker[v], now)]
  /\ UNCHANGED <<now, place, stood, assigned, visited, events, occupancy, saved,
                 replays>>

OutputsNext ==
  \/ \E v \in Drivers :
       \/ Departs(v) \/ Passes(v) \/ EntersLot(v) \/ StopStarts(v) \/ StopEnds(v)
       \/ Stays(v) \/ Arrives(v)
  \/ Recover
  \/ WriteOutputs

=============================================================================
