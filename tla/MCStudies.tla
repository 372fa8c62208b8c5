----------------------------- MODULE MCStudies -----------------------------
(***************************************************************************)
(* What surrounds a run: five modules that share no state, one of them     *)
(* drawn at the start of a behaviour.                                      *)
(***************************************************************************)
EXTENDS RunAnalytics, DetectorCounts, ParkingLots, ScenarioDetectors, StudyPlanning

CONSTANTS d1, d2, north, south, n1, s1, library, gym, walker   \* the run
CONSTANTS p1                                                   \* the counters
CONSTANTS gate, aisle, inner                                   \* the map
CONSTANTS fast, slow, foot, back, gone                         \* the lanes

VARIABLE turn

-----------------------------------------------------------------------------
(* Outputs and analytics: two drivers, two lots with a space each.         *)

MCDrivers == {d1, d2}
MCLots == {north, south}
MCAreas == {n1, s1}
MCLotOf == n1 :> north @@ s1 :> south
MCSpaces == n1 :> 1 @@ s1 :> 1
MCFirstChoice == d1 :> north @@ d2 :> north
MCCandidates == d1 :> <<north, south>> @@ d2 :> <<north>>
MCBuildings == {library, gym}
MCBuildingOf == d1 :> library @@ d2 :> gym
MCWalkers == walker :> gym
MCLeavesAt == d1 :> 0 @@ d2 :> 3 @@ walker :> 3
MCEligible == library :> {north, south} @@ gym :> {north}
MCWeight == library :> 1 @@ gym :> 1

-----------------------------------------------------------------------------
(* Counters: three detectors of one measurement on one road and another.   *)

E2(id, measurement, road, first, last) ==
  [id |-> id, measurement |-> measurement, road |-> road, first |-> first, last |-> last]
MCPhysical == <<E2(1, "m", "a", 2, 1), E2(2, "m", "a", 1, 2), E2(3, "m", "b", 1, 3)>>

-----------------------------------------------------------------------------
(* Parking lots: a gate, an aisle next to it and a way that nothing joins. *)

MCWays == {gate, aisle, inner}
MCNodesOf == gate :> {1, 2} @@ aisle :> {2, 3} @@ inner :> {4}
Kind(road, service, half, aisles, near) ==
  [road |-> road, service |-> service, half |-> half, aisle |-> aisles, near |-> near]
MCWayKinds == {Kind(TRUE, TRUE, FALSE, FALSE, 2), Kind(TRUE, TRUE, TRUE, FALSE, 6),
               Kind(TRUE, FALSE, TRUE, FALSE, 9), Kind(TRUE, TRUE, FALSE, TRUE, 8),
               Kind(FALSE, TRUE, TRUE, TRUE, 9)}
Lane(passenger, length, half, distance) ==
  [passenger |-> passenger, length |-> length, half |-> half, distance |-> distance]
MCLaneKinds == {Lane(TRUE, 7, TRUE, 0), Lane(TRUE, 20, TRUE, 0), Lane(TRUE, 9, FALSE, 3),
                Lane(TRUE, 12, FALSE, 9), Lane(FALSE, 12, TRUE, 0)}
MCEdgeOf == <<"e1", "e2", "e3">>
MCWayOf == <<gate, aisle, inner>>
MCReaching == <<1, 2, 2>>
MCCapacities == {Unset, 2, 9}
MCMapCapacities == {Unset, 5}

-----------------------------------------------------------------------------
(* Detectors: a street with two lanes and a walk, and the way back.        *)

MCNetLanes == {fast, slow, foot, back}
MCLaneEdge == fast :> "f" @@ slow :> "f" @@ foot :> "f" @@ back :> "-f"
MCLaneIndex == fast :> 1 @@ slow :> 2 @@ foot :> 0 @@ back :> 0
MCClasses == fast :> {"passenger"} @@ slow :> {"passenger"} @@ foot :> {"pedestrian"}
               @@ back :> {"passenger", "pedestrian"}
MCAgainst == {back}
MCLaneOrder == <<back, foot, fast, slow>>
Marker(mode, several, lane, edge, index, at) ==
  [mode |-> mode, lanes |-> several, lane |-> lane, edge |-> edge, index |-> index, at |-> at]
MCPoints == {Marker("lane", <<>>, fast, "f", 1, 2), Marker("edge_all", <<>>, gone, "f", 2, 4),
             Marker("lanes", <<gone, foot, back, slow>>, foot, "f", 0, 6),
             Marker("lanes", <<back, foot, fast>>, back, "-f", 0, 2)}
MCSavedIds == {<<"x">>, <<"x", "lane", "1">>, <<"x", "pedestrians">>}

-----------------------------------------------------------------------------
(* Plans.                                                                  *)

MCOrigins == <<"north", "south", "west">>
Span(first, last, step) == [first |-> first, last |-> last, step |-> step]
MCSpan == "peak" :> Span(0, 3, 2) @@ "residential" :> Span(0, 4, 3)
            @@ "vehicles" :> Span(0, 7, 3) @@ "entry" :> Span(10, 100, 45)
            @@ "choice" :> Span(2, 5, 3)
MCConfigs == [vehicles : {0, 5, 8}, pedestrians : {3, 4}, residential : {1, 3},
              peaks : {<<2, 2>>, <<1, 2>>}, choice : {4}, other : {2},
              enabled : SUBSET DOMAIN MCSpan, span : {MCSpan}]
MCTries == [count : {0, 4, 5, 10}, shares : {<<1, 1, 1>>, <<1, 0, 2>>, <<3, 5, 1>>},
            peaks : [1 .. 3 -> {0, 6, 12, 36, 42, 72}]]
             \cup [count : {5}, shares : {<<0, 1, 0>>},
                   peaks : [1 .. 2 -> {6 * i : i \in 0 .. 12}]]
MCComparisons == [old : 0 .. 6, real : 0 .. 5, simulated : 0 .. 4, step : 1 .. 3,
                  learnt : BOOLEAN]

-----------------------------------------------------------------------------

LotIdle == /\ ways = Unset /\ lanes = Unset /\ wanted = Unset /\ tagged = Unset
           /\ lot = Unset
PlanIdle == question = Pending /\ answer = Pending

MCInit ==
  /\ AnalyticsInit /\ CounterInit /\ DetectorInit
  /\ \/ turn \in {"run", "counters", "detectors"} /\ LotIdle /\ PlanIdle
     \/ turn = "lots" /\ LotInit /\ PlanIdle
     \/ turn = "plans" /\ LotIdle /\ PlanningInit

MCNext ==
  /\ UNCHANGED turn
  /\ \/ /\ turn = "run" /\ AnalyticsNext
        /\ UNCHANGED <<counterVars, lotVars, detectorVars, planningVars>>
     \/ /\ turn = "counters" /\ CounterNext
        /\ UNCHANGED <<analyticsVars, lotVars, detectorVars, planningVars>>
     \/ /\ turn = "lots" /\ GenerateLot
        /\ UNCHANGED <<analyticsVars, counterVars, detectorVars, planningVars>>
     \/ /\ turn = "detectors" /\ DetectorNext
        /\ UNCHANGED <<analyticsVars, counterVars, lotVars, planningVars>>
     \/ /\ turn = "plans" /\ PlanningNext
        /\ UNCHANGED <<analyticsVars, counterVars, lotVars, detectorVars>>

MCSpec ==
  MCInit /\ [][MCNext]_<<turn, analyticsVars, counterVars, lotVars, detectorVars, planningVars>>
=============================================================================
