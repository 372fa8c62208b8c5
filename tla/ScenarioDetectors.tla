-------------------------- MODULE ScenarioDetectors --------------------------
(***************************************************************************)
(* The detectors of a run, made from the detectors that were saved with    *)
(* the model (backend/sumo/scenario/detectors/generate.py, lanes.py).  An  *)
(* id is a sequence of words: what the code appends is a word more.        *)
(* Places are measured in margins (0.1 m) along a street; on a lane of the *)
(* other direction from its other end.  A marker names a lane once.        *)
(***************************************************************************)
EXTENDS Integers, Sequences, FiniteSets, SequencesExt, TLC

CONSTANTS
  NetLanes,         \* the lanes of the network: model values
  LaneEdge, LaneIndex, Classes,   \* of a lane; the classes it admits
  Against,          \* the lanes of the other direction
  LaneOrder,        \* the lanes by id
  Length,           \* of every lane
  Points,           \* [mode, lanes, lane, edge, index, at]: what a marker can say
  SavedIds, MostSaved,
  NoLane

VARIABLES requested, generated

detectorVars == <<requested, generated>>

-----------------------------------------------------------------------------
(* _resolve_point.                                                         *)

Admits(l, class) == class \in Classes[l]
LanesOf(edge, class) ==
  SelectSeq(LaneOrder, LAMBDA l : LaneEdge[l] = edge /\ Admits(l, class))

\* The lane of the saved index if it is still there, else the first one.
LaneOnSelectedEdge(point, class) ==
  LET there == LanesOf(point.edge, class)
      same == SelectSeq(there, LAMBDA l : LaneIndex[l] = point.index)
  IN  CASE same # <<>> -> Head(same)
        [] same = <<>> /\ there # <<>> -> Head(there)
        [] OTHER -> NoLane

\* resolve_detector_lanes: the nearest lane; all are equally near here.
NearestLane(class) ==
  LET near == SelectSeq(LaneOrder, LAMBDA l : Admits(l, class))
  IN  IF near = <<>> THEN NoLane ELSE Head(near)

CandidateLane(point, class) ==
  LET onEdge == LaneOnSelectedEdge(point, class)
  IN  CASE point.lane \in NetLanes /\ Admits(point.lane, class) -> point.lane
        [] ~(point.lane \in NetLanes /\ Admits(point.lane, class)) /\ onEdge # NoLane -> onEdge
        [] OTHER -> NearestLane(class)

\* The lanes of a marker: those selected, all of its edge, or one; <<>> is the
\* error that no lane is left.
Resolved(point, class) ==
  LET lane == CandidateLane(point, class)
  IN  CASE point.mode = "lanes" ->
             SelectSeq(point.lanes, LAMBDA l : l \in NetLanes /\ Admits(l, class))
        [] point.mode # "lanes" /\ lane = NoLane -> <<>>
        [] point.mode = "edge_all" /\ lane # NoLane -> LanesOf(LaneEdge[lane], class)
        [] OTHER -> <<lane>>

\* _project_position: never closer than the margin to an end of the lane.
Position(lane, at) ==
  LET along == IF lane \in Against THEN Length - at ELSE at
  IN  Max({1, Min({along, Length - 1})})

CrossSections(point, class) ==
  LET found == Resolved(point, class)
  IN  [i \in DOMAIN found |-> [lane |-> found[i], position |-> Position(found[i], point.at)]]

-----------------------------------------------------------------------------
(* Pairs of boundaries.  Dictionaries by lane: the last one of a lane.     *)

ByLane(sections, lane) ==
  sections[Max({i \in DOMAIN sections : sections[i].lane = lane})]
LanesIn(sections) == {sections[i].lane : i \in DOMAIN sections}
Paired(first, second) ==
  SelectSeq(LaneOrder, LAMBDA l : l \in LanesIn(first) \cap LanesIn(second))

\* _pedestrian_zones: either marker may come first; a point is no zone.
PedestrianZones(entries, exits) ==
  LET zone(l) == LET a == ByLane(entries, l).position
                     b == ByLane(exits, l).position
                 IN  [lane |-> l, start |-> Min({a, b}), end |-> Max({a, b})]
      pairs == Paired(entries, exits)
  IN  SelectSeq([i \in DOMAIN pairs |-> zone(pairs[i])], LAMBDA z : z.start < z.end)

\* _directional_vehicle_cross_sections: turned into the direction of travel.
Directional(first, second) ==
  LET pairs == Paired(first, second)
      alone(sections) == SelectSeq(sections, LAMBDA s : s.lane \notin ToSet(pairs))
      Turned(l) == ByLane(first, l).position > ByLane(second, l).position
      side(here, there) ==
        [i \in DOMAIN pairs |-> IF Turned(pairs[i]) THEN ByLane(there, pairs[i])
                                ELSE ByLane(here, pairs[i])]
  IN  [entries |-> alone(first) \o side(first, second),
       exits |-> alone(second) \o side(second, first)]

-----------------------------------------------------------------------------
(* Ids.                                                                    *)

Word(n) == ToString(n)

\* while ...: the first id that is not taken, with ever more words.
Untaken(id, word, taken) ==
  LET longer(n) == id \o [i \in 1 .. n |-> word]
      n == CHOOSE k \in 0 .. Cardinality(taken) :
             longer(k) \notin taken /\ \A j \in 0 .. (k - 1) : longer(j) \in taken
  IN  longer(n)

\* A slip: two detectors that were saved with one id keep it.
AsSaved(id, taken) == id

\* The first number, from 2, that makes the id a new one.
Numbered(id, taken) ==
  IF id \notin taken THEN id
  ELSE LET n == CHOOSE k \in 2 .. (Cardinality(taken) + 2) :
                  /\ Append(id, Word(k)) \notin taken
                  /\ \A j \in 2 .. (k - 1) : Append(id, Word(j)) \in taken
       IN  Append(id, Word(n))

\* The loops of an E1 detector, one for each lane, with a second choice of id.
Loops(id, sections, taken) ==
  LET name(i, used) ==
        LET first == IF Len(sections) = 1 THEN id
                     ELSE id \o <<"lane", Word(LaneIndex[sections[i].lane])>>
        IN  IF first \in used THEN Append(id, Word(i)) ELSE first
  IN  FoldLeft(LAMBDA ids, i : Append(ids, name(i, taken \cup ToSet(ids))),
               <<>>, [i \in DOMAIN sections |-> i])

ZoneIds(id, zones, taken) ==
  LET first(i) == IF Len(zones) = 1 THEN id ELSE id \o <<"zone", Word(i)>>
  IN  FoldLeft(LAMBDA ids, i : Append(ids, Untaken(first(i), "e2", taken \cup ToSet(ids))),
               <<>>, [i \in DOMAIN zones |-> i])

-----------------------------------------------------------------------------
(* generate: the detectors in order, each with the ids taken before it.    *)

ClassOf(target) == IF target = "pedestrians" THEN "pedestrian" ELSE "passenger"

\* One subject of an E3 detector: a vehicle measurement or pedestrian zones.
Measure(made, id, detector, target) ==
  LET own == IF Len(detector.detects) = 1 THEN id ELSE Append(id, target)
      entries == CrossSections(detector.entry, ClassOf(target))
      exits == CrossSections(detector.exit, ClassOf(target))
      zones == PedestrianZones(entries, exits)
      ids == IF target = "pedestrians" THEN ZoneIds(own, zones, made.xml)
             ELSE <<Untaken(own, "e3", made.xml)>>
      new == IF target = "pedestrians"
             THEN [subject |-> target, ids |-> ids, zones |-> zones]
             ELSE [subject |-> target, ids |-> ids,
                   sections |-> Directional(entries, exits)]
  IN  [made EXCEPT !.xml = @ \cup ToSet(ids), !.names = @ \o ids, !.all = Append(@, new),
                   !.failed = @ \/ entries = <<>> \/ exits = <<>>
                                \/ (target = "pedestrians" /\ zones = <<>>)]

Make(made, detector) ==
  LET id == Numbered(detector.id, made.logical)
      next == [made EXCEPT !.logical = @ \cup {id}, !.order = Append(@, id)]
      sections == CrossSections(detector.entry, "passenger")
      ids == Loops(id, sections, made.xml)
  IN  IF detector.type = "e1"
      THEN [next EXCEPT !.xml = @ \cup ToSet(ids), !.names = @ \o ids,
                        !.all = Append(@, [subject |-> "loops", ids |-> ids]),
                        !.failed = @ \/ sections = <<>>]
      ELSE FoldLeft(LAMBDA acc, target : Measure(acc, id, detector, target),
                    next, detector.detects)

Subjects == {<<"vehicles">>, <<"pedestrians">>, <<"vehicles", "pedestrians">>}

Saved ==
  [type : {"e1"}, id : SavedIds, entry : Points]
    \cup [type : {"e3"}, id : SavedIds, entry : Points, exit : Points, detects : Subjects]

DetectorInit ==
  /\ requested = <<>>
  /\ generated = <<>>

\* The user saves one detector more.
SaveDetector ==
  /\ generated = <<>>
  /\ Len(requested) < MostSaved
  /\ \E d \in Saved : requested' = Append(requested, d)
  /\ UNCHANGED generated

GenerateDetectors ==
  /\ generated = <<>>
  /\ requested # <<>>
  /\ generated' = <<FoldLeft(Make, [logical |-> {}, order |-> <<>>, xml |-> {},
                                    names |-> <<>>, all |-> <<>>, failed |-> FALSE],
                             requested)>>
  /\ UNCHANGED requested

DetectorNext == SaveDetector \/ GenerateDetectors

-----------------------------------------------------------------------------

\* The detectors of a run can be told apart: no logical id is used twice and,
\* unless a saved id begins with another one and a number or ends where a number
\* is put, none in the file for SUMO, whatever lanes, subjects and zones they
\* have.  Every boundary of a vehicle
\* detector is used once and a vehicle meets its entry first on every lane that
\* has both; a pedestrian zone has a length and lies on the lane.
DetectorsSound ==
  generated # <<>> /\ ~generated[1].failed =>
    LET made == generated[1]
        Ids == {requested[i].id : i \in DOMAIN requested}
        Plain == \A id \in Ids :
                   /\ \A n \in 1 .. 9, other \in Ids : ~IsPrefix(Append(id, Word(n)), other)
                   /\ Last(id) \notin {"lane", "zone"}
        Boundaries(d, m) == Len(CrossSections(d.entry, ClassOf(m.subject)))
                              + Len(CrossSections(d.exit, ClassOf(m.subject)))
    IN
    /\ IsInjective(made.order)
    /\ Plain => IsInjective(made.names)
    /\ \A k \in DOMAIN made.all :
         LET m == made.all[k] IN
         /\ m.subject = "vehicles" =>
              /\ \A i \in DOMAIN m.sections.entries, j \in DOMAIN m.sections.exits :
                   m.sections.entries[i].lane = m.sections.exits[j].lane =>
                     m.sections.entries[i].position <= m.sections.exits[j].position
              /\ \E d \in ToSet(requested) : d.type = "e3" /\
                   Len(m.sections.entries) + Len(m.sections.exits) = Boundaries(d, m)
         /\ m.subject = "pedestrians" =>
              \A i \in DOMAIN m.zones :
                /\ 0 < m.zones[i].start /\ m.zones[i].start < m.zones[i].end
                /\ m.zones[i].end < Length

=============================================================================
