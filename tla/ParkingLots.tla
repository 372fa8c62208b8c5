----------------------------- MODULE ParkingLots -----------------------------
(***************************************************************************)
(* The parking areas of a run: which lanes of the SUMO network belong to a *)
(* parking polygon of the map (backend/sumo/scenario/parking/              *)
(* osm_discovery.py and lane_discovery.py) and how many spaces each of     *)
(* them gets (area_generator.py, generate.py).  Polygons and lines are     *)
(* known by the shares and distances that the code computes from them.     *)
(***************************************************************************)
EXTENDS Integers, Sequences, FiniteSets, SequencesExt

CONSTANTS
  Ways,             \* OSM ways, without the polygon
  NodesOf,          \* the nodes of a way
  Boundary,         \* the nodes of the polygon
  WayKinds,         \* [road, service, half, aisle, near]: is_vehicle_service_way,
                    \* highway=service, a half inside, service=parking_aisle,
                    \* share near (in tenths)
  Lanes,            \* 1 .. n, in the order of edge and lane id
  EdgeOf, WayOf,    \* of a lane
  LaneKinds,        \* [passenger, length, half, distance]
  Capacities,       \* what the user may have saved, None included
  MapCapacities,    \* the capacity tag, None included
  SpaceLength,      \* capacity.space_length
  MinLength,        \* minimum_lane_length, 3 m
  Nearest,          \* nearest_access_lane_metres
  Reaching,         \* how many edges lead to the edge of a lane
  EnoughReaching,   \* 20 in the code
  MostTried,        \* 100 in the code
  Unset

\* An edge is of one way: its id begins with the id of the way.
ASSUME LotAssumption ==
  /\ IsFiniteSet(Lanes) /\ Lanes \subseteq Nat /\ WayOf \in [Lanes -> Ways]
  /\ \A k, l \in Lanes : EdgeOf[k] = EdgeOf[l] => WayOf[k] = WayOf[l]
  /\ \A kind \in LaneKinds : kind.length \in Nat /\ kind.distance \in Nat
  /\ \A l \in Lanes : Reaching[l] \in Nat
  /\ (Capacities \cup MapCapacities) \ {Unset} \subseteq Nat
  /\ SpaceLength \in Nat \ {0} /\ MinLength \in Nat \ {0}
  /\ EnoughReaching \in Nat

VARIABLES ways, lanes, wanted, tagged, lot

lotVars == <<ways, lanes, wanted, tagged, lot>>

-----------------------------------------------------------------------------
(* analyse_parking_way: the ways that belong to the polygon.               *)

\* geometry_metrics: a way near the polygon, and one accepted as part of it.
Near(w) == ways[w].near > 0
Accepted(w) == ways[w].half \/ (ways[w].aisle /\ ways[w].near >= 8)

Gates == {w \in Ways : ways[w].road /\ NodesOf[w] \cap Boundary # {} /\ Near(w)}

\* The walk from the gates, over shared nodes, through accepted ways only.
Connected ==
  LET Follows(u, w) == ways[w].road /\ Accepted(w) /\ NodesOf[u] \cap NodesOf[w] # {}
      Complete(S) == \A u \in S, w \in Ways : Follows(u, w) => w \in S
  IN  {w \in Ways : \A S \in SUBSET Ways : Gates \subseteq S /\ Complete(S) => w \in S}

\* add_spatial_internal_ways: ways inside that nothing connects.
Spatial == {w \in Ways : ways[w].road /\ ways[w].half}

\* A slip: only what the walk from the gates reaches.
Reached == Connected

Related == Connected \cup Spatial

ParkingWays == {w \in Related : ways[w].half}
Excluded == Related \ ParkingWays

-----------------------------------------------------------------------------
(* discover_parking_lanes.                                                 *)

Drivable(l) == lanes[l].passenger /\ lanes[l].length >= MinLength

InsideLanes ==
  LET within == ParkingWays
  IN  {l \in Lanes : WayOf[l] \in within /\ Drivable(l) /\ lanes[l].half}

AccessEdges ==
  LET leading == Excluded
  IN  {EdgeOf[l] : l \in {k \in Lanes : WayOf[k] \in leading /\ lanes[k].passenger}}

Nearby == {l \in Lanes : Drivable(l) /\ lanes[l].distance <= Nearest}

\* A service road first, then the nearest, the longest, the first edge.
Before(k, l) ==
  LET key(x) == <<IF ways[WayOf[x]].service THEN 0 ELSE 1, lanes[x].distance,
                  -lanes[x].length, x>>
  IN  \E i \in 1 .. 4 : /\ \A j \in 1 .. (i - 1) : key(k)[j] = key(l)[j]
                       /\ key(k)[i] < key(l)[i]

First(S) == CHOOSE l \in S : \A k \in S : ~Before(k, l)

\* The best of the first few that can be reached, or the best of all.
Fallback ==
  LET tried == {l \in Nearby : Cardinality({k \in Nearby : Before(k, l)}) < MostTried}
      good == {l \in tried : Reaching[l] >= EnoughReaching}
  IN  First(IF good = {} THEN Nearby ELSE good)

Discovered ==
  IF InsideLanes # {}
  THEN [lanes |-> InsideLanes, fallback |-> FALSE,
        access |-> IF AccessEdges # {} THEN AccessEdges
                   ELSE {EdgeOf[l] : l \in InsideLanes}]
  ELSE [lanes |-> {Fallback}, fallback |-> TRUE,
        access |-> AccessEdges \cup {EdgeOf[Fallback]}]

\* routing_edge_ids: where a driver without a space is sent.
Routing(found) ==
  IF found.fallback THEN {EdgeOf[l] : l \in found.lanes} ELSE found.access

-----------------------------------------------------------------------------
(* area_generator.py: the spaces.  Shares are compared as whole numbers,   *)
(* multiplied by the total length.                                         *)

Sum(S, f(_)) == SumFunction([x \in S |-> f(x)])

\* The lanes with less remainder than l, or the same and a lower id.
Lesser(S, total, base, l) ==
  LET whole == Sum(S, LAMBDA k : lanes[k].length)
      rest(k) == total * lanes[k].length - base[k] * whole
  IN  {k \in S : rest(k) < rest(l) \/ (rest(k) = rest(l) /\ k < l)}

\* What is missing is added one by one, the greatest remainder first.
TopUp(S, total, base) ==
  LET missing == total - Sum(S, LAMBDA l : base[l])
      ahead(l) == Cardinality({k \in S : l \in Lesser(S, total, base, k)})
  IN  [l \in S |-> base[l] + (missing + Cardinality(S) - 1 - ahead(l)) \div Cardinality(S)]

\* What is too much is taken away, the least remainder first, but never the
\* last space of a lane.
CutDown(S, total, base) ==
  LET surplus == Sum(S, LAMBDA l : base[l]) - total
      taken(l) == Sum(Lesser(S, total, base, l), LAMBDA k : base[k] - 1)
  IN  [l \in S |-> base[l] - Min({base[l] - 1, Max({0, surplus - taken(l)})})]

Distributed(S, total) ==
  LET whole == Sum(S, LAMBDA l : lanes[l].length)
      base == [l \in S |-> Max({1, (total * lanes[l].length) \div whole})]
      given == Sum(S, LAMBDA l : base[l])
  IN  IF given < total THEN TopUp(S, total, base) ELSE CutDown(S, total, base)

Estimated(S) == [l \in S |-> Max({1, lanes[l].length \div SpaceLength})]

\* The user's number, else the map's, else what fits.
SpacesOf(S) ==
  CASE wanted # Unset -> Distributed(S, wanted)
    [] wanted = Unset /\ tagged # Unset -> Distributed(S, tagged)
    [] OTHER -> Estimated(S)

-----------------------------------------------------------------------------

LotInit ==
  /\ ways \in [Ways -> WayKinds]
  /\ lanes \in [Lanes -> LaneKinds]
  /\ wanted \in Capacities
  /\ tagged \in MapCapacities
  /\ lot = Unset

\* generate: one lot of the model; no lane within reach ends the preparation.
GenerateLot ==
  /\ lot = Unset
  /\ lot' = IF InsideLanes = {} /\ Nearby = {} THEN [fallback |-> TRUE, spaces |-> <<>>]
            ELSE LET found == Discovered
                 IN  [fallback |-> found.fallback, spaces |-> SpacesOf(found.lanes),
                      routing |-> Routing(found)]
  /\ UNCHANGED <<ways, lanes, wanted, tagged>>

LotSpec == LotInit /\ [][GenerateLot]_lotVars

-----------------------------------------------------------------------------

\* The lanes of a lot are those inside it, whether or not the map connects
\* them to its entrance; without any it is one lane near it, of a road if a
\* service road is not to be had, that is not a dead end while one of the
\* others tried is not.  The lot has the spaces that were asked for, but one
\* on each lane at least, shared out by length: no lane is more than a space
\* away from its share when every share is a space.  Drivers without a space
\* are kept off the lanes of the lot when another road leads to it.
LotsAreBuilt ==
  lot # Unset /\ lot.spaces # <<>> =>
    LET S == DOMAIN lot.spaces
        inside == {l \in Lanes : /\ ways[WayOf[l]].road /\ ways[WayOf[l]].half
                                 /\ lanes[l].half /\ Drivable(l)}
        number == IF wanted = Unset THEN tagged ELSE wanted
        whole == Sum(S, LAMBDA l : lanes[l].length)
        total == Sum(S, LAMBDA l : lot.spaces[l])
    IN
    /\ IF inside # {} THEN S = inside /\ ~lot.fallback
       ELSE /\ Cardinality(S) = 1 /\ lot.fallback
            /\ \A l \in S : /\ Drivable(l)
                            /\ Reaching[l] < EnoughReaching =>
                                 \A k \in Nearby : Before(k, l) => Reaching[k] < EnoughReaching
    /\ lot.routing # {}
    /\ inside # {} /\ AccessEdges # {} => lot.routing \cap {EdgeOf[l] : l \in S} = {}
    /\ \A l \in S : lot.spaces[l] >= 1
    /\ number # Unset =>
         /\ total = Max({number, Cardinality(S)})
         /\ (\A l \in S : number * lanes[l].length >= whole) =>
              \A l \in S : /\ lot.spaces[l] * whole > number * lanes[l].length - whole
                           /\ lot.spaces[l] * whole < number * lanes[l].length + whole

=============================================================================
