--------------------------- MODULE RunPreparation ---------------------------
(***************************************************************************)
(* The preparation of one run, from the request to the parked occupants.   *)
(* Five programs look at the same model one after the other, and hand each *)
(* other files: the API creates the record and checks the request          *)
(* (domain/simulations/service.py), the scenario is configured with entry  *)
(* points (scenario/configuration/configure.py), places are snapped to     *)
(* walkable edges (scenario/demand/person_access.py), trips and walks are  *)
(* drawn (scenario/demand/generate.py), and the controller lets the driver *)
(* of each parked vehicle walk on (controller/person_manager.py).          *)
(*                                                                         *)
(* The map is data: a world says which paths lie near a place and at what  *)
(* distance, which paths connect, and which entry edges drive to the       *)
(* routing edges of a lot.  Random draws are choices.                      *)
(***************************************************************************)
EXTENDS Integers, Sequences, FiniteSets, SequencesExt, FiniteSetsExt, Functions

CONSTANTS
  Paths,        \* edges open to pedestrians, numbered in the order of their ids
  Buildings,    \* the selected buildings of the model
  Stops,        \* its saved public transport origins
  Areas,        \* the physical parking areas generated for all lots
  Lots,         \* the parking lots of the map, numbered in their order
  LotOf,        \* the lot of each physical area
  Entries,      \* network entry edges, numbered in their order of preference
  Worlds,       \* the maps and models considered
  Requests      \* the requests considered

Places == Buildings \cup Stops \cup Areas

\* A map knows how far each place is from the paths around it.
MapType(w) ==
  /\ DOMAIN w.near = Places
  /\ \A place \in Places : /\ DOMAIN w.near[place] \subseteq Paths
                            /\ w.near[place] \in [DOMAIN w.near[place] -> Nat]
  /\ w.links \subseteq SUBSET Paths
  /\ w.roads \in [Lots -> Seq(SUBSET Entries)]
  /\ w.residential \subseteq Buildings /\ w.weighted \subseteq Buildings
  /\ w.points \in Seq(Entries)
  /\ w.selected \subseteq Lots

\* The request body is validated: no count is negative.
RequestType(r) ==
  /\ r.vehicles \in Nat /\ r.residential \in Nat /\ r.transport \in Nat
  /\ r.given \in BOOLEAN
  /\ r.counts \in [DOMAIN r.counts -> Nat]

ASSUME PreparationAssumption ==
  /\ IsFiniteSet(Paths) /\ Paths \subseteq Nat
  /\ IsFiniteSet(Lots) /\ Lots \subseteq Nat
  /\ IsFiniteSet(Entries) /\ Entries \subseteq Nat
  /\ LotOf \in [Areas -> Lots]
  /\ \A w \in Worlds : MapType(w)
  /\ \A r \in Requests : RequestType(r)

VARIABLES
  world, request,   \* chosen once
  islands,          \* the component of each path of the world, a function of it
  stage,            \* how far the preparation got
  reason,           \* why it stopped
  allocation,       \* vehicles per saved point, as the record stores them
  points,           \* the entry points the scenario was configured with
  routing,          \* routing edges (by index) kept for each lot
  access,           \* what person_access.resolve wrote
  trips, walks,     \* the rows drawn so far
  occupants         \* what became of the driver of each parked vehicle

vars == <<world, request, islands, stage, reason, allocation, points, routing, access,
          trips, walks, occupants>>

Modes == {"residential", "public_transport"}

Stages == {"submitted", "created", "configured", "resolved", "written",
           "refused", "failed"}

(***************************************************************************)
(* The walkable network.  A walk between two edges is routable when they   *)
(* lie in one component: pedestrians use an edge in either direction.      *)
(***************************************************************************)
Component(p) ==
  LET Reached[n \in 0..Cardinality(Paths)] ==
        IF n = 0 THEN {p}
        ELSE {q \in Paths : \E r \in Reached[n - 1] : q = r \/ {q, r} \in world.links}
  IN  Reached[Cardinality(Paths)]

Walkable(p, q) == q \in islands[p]

\* The edges a place may be attached to: those within the access limit.
Candidates(place) == DOMAIN world.near[place]

\* A slip: the nearest edge wins.
Nearer(place, p, q) ==
  LET near == world.near[place] IN  near[p] < near[q] \/ (near[p] = near[q] /\ p < q)

\* The largest component wins, then the shortest distance, then the id.
Better(place, p, q) ==
  LET sizeP == Cardinality(islands[p])
      sizeQ == Cardinality(islands[q])
      near  == world.near[place]
  IN  \/ sizeP > sizeQ
      \/ sizeP = sizeQ /\ near[p] < near[q]
      \/ sizeP = sizeQ /\ near[p] = near[q] /\ p < q

Snap(place) ==
  CHOOSE p \in Candidates(place) :
    \A q \in Candidates(place) \ {p} : Better(place, p, q)

(***************************************************************************)
(* The request and the record.  A given allocation has one count for each  *)
(* point id it names; without one the vehicles are split evenly.           *)
(***************************************************************************)
\* A slip: the remainder is dropped.
EvenFloor(n, k) == [i \in 1..k |-> n \div k]

Even(n, k) == [i \in 1..k |-> (n \div k) + IF i <= n % k THEN 1 ELSE 0]

\* The elements of a finite set in order, each after those before it.
InOrder(S, before) ==
  [k \in 1..Cardinality(S) |-> CHOOSE x \in S : Cardinality(before[x]) = k - 1]

Smaller(S) == [x \in S |-> {y \in S : y < x}]

Total(counts) == SumFunction(counts)

When(condition, problem) == IF condition THEN {problem} ELSE {}

Pedestrians == request.residential + request.transport

Requested(mode) ==
  IF mode = "residential" THEN request.residential ELSE request.transport

Refusals ==
  UNION {
    When(request.transport > 0 /\ Stops = {}, "no stop saved"),
    When(request.residential > 0 /\ world.residential = {}, "no residential building"),
    When(request.given /\ DOMAIN request.counts # DOMAIN world.points, "other points"),
    When(/\ request.given
         /\ world.points # <<>>
         /\ Total(request.counts) # request.vehicles, "allocation total"),
    When(request.vehicles > 0 /\ world.selected = {}, "no parking selected")}

(***************************************************************************)
(* Entry points.  Saved points are used as they are; without any, every    *)
(* lot contributes its two preferred entries into its first routing edge   *)
(* that has one, and an entry found again is numbered again.               *)
(***************************************************************************)
Uncounted == -1

SavedPoints ==
  [i \in DOMAIN world.points |->
     [id |-> i, edge |-> world.points[i], count |-> allocation[i]]]

ReachedEdges(lot) == {k \in DOMAIN world.roads[lot] : world.roads[lot][k] # {}}

PreferredEntries(lot) ==
  LET reached == world.roads[lot][Min(ReachedEdges(lot))]
      entries == InOrder(reached, Smaller(reached))
  IN  SubSeq(entries, 1, IF Len(entries) < 2 THEN Len(entries) ELSE 2)

Enter(found, edge) ==
  LET point == [id |-> Len(found) + 1, edge |-> edge, count |-> Uncounted]
  IN  IF \E i \in DOMAIN found : found[i].edge = edge
      THEN [i \in DOMAIN found |-> IF found[i].edge = edge THEN point ELSE found[i]]
      ELSE Append(found, point)

FoundPoints ==
  LET lots == InOrder(world.selected, Smaller(world.selected))
  IN  FoldLeft(Enter, <<>>, FlattenSeq([i \in DOMAIN lots |-> PreferredEntries(lots[i])]))

ConfiguredPoints == IF world.points # <<>> THEN SavedPoints ELSE FoundPoints

ConfiguredRouting ==
  [lot \in world.selected |->
     IF world.points # <<>> THEN DOMAIN world.roads[lot] ELSE {Min(ReachedEdges(lot))}]

ConfigureProblems ==
  UNION {
    When(request.vehicles > 0 /\ world.selected = {}, "no parking configured"),
    When(\E i, j \in DOMAIN world.points : i # j /\ world.points[i] = world.points[j],
         "points share an edge"),
    When(\E lot \in world.selected : world.roads[lot] = <<>>, "lot without a routing edge"),
    When(allocation # <<>> /\ DOMAIN allocation # DOMAIN world.points, "allocation ids"),
    When(world.points = <<>> /\ \E lot \in world.selected : ReachedEdges(lot) = {},
         "lot without an entry")}

(***************************************************************************)
(* Access on foot.                                                         *)
(***************************************************************************)
Origins(mode) ==
  IF Requested(mode) = 0 THEN {}
  ELSE IF mode = "residential" THEN world.residential ELSE Stops

AttachProblems ==
  UNION {
    When(Buildings = {}, "no building"),
    When(\E b \in Buildings : Candidates(b) = {}, "building without a path"),
    When(\E s \in Origins("public_transport") : Candidates(s) = {}, "stop without a path")}

AttachedAreas ==
  {a \in Areas : LotOf[a] \in world.selected /\ Candidates(a) # {}}

\* A walk of an origin to a building on its own edge is never asked for.
RoutableDestinations(origin) ==
  {b \in Buildings : Snap(b) # Snap(origin) /\ Walkable(Snap(origin), Snap(b))}

\* A slip: areas are not asked for a walk.
AllParking(b) == {LotOf[a] : a \in AttachedAreas}

\* The lots one of whose areas a pedestrian can leave for the building.
ParkingCandidates(b) ==
  {LotOf[a] : a \in {a \in AttachedAreas : Walkable(Snap(a), Snap(b))}}

Resolved ==
  [origins    |-> [m \in Modes |-> {o \in Origins(m) : RoutableDestinations(o) # {}}],
   reachable  |-> [o \in UNION {Origins(m) : m \in Modes} |-> RoutableDestinations(o)],
   candidates |-> [b \in Buildings |-> ParkingCandidates(b)],
   areas      |-> AttachedAreas]

ResolveProblems ==
  IF AttachProblems # {} THEN AttachProblems
  ELSE UNION {
    When(Pedestrians > 0 /\ \A m \in Modes : Origins(m) = {}, "no origin"),
    When(\E m \in Modes : Requested(m) > 0 /\ Resolved.origins[m] = {},
         "no origin that reaches a building"),
    When(request.vehicles > 0 /\ \A b \in Buildings : Resolved.candidates[b] = {},
         "no building near parking")}

(***************************************************************************)
(* Demand.                                                                 *)
(***************************************************************************)
TargetLots == world.selected \cap {LotOf[a] : a \in access.areas}

Drives(edge, lot) == \E k \in routing[lot] : edge \in world.roads[lot][k]

\* A slip: counts are ignored.
OriginsInTurn == [n \in 1..request.vehicles |-> ((n - 1) % Len(points)) + 1]

\* Counted points appear in proportion over the departures; others in turn.
VehicleOrigins ==
  LET slots == {s \in (DOMAIN points) \X (1..request.vehicles) : s[2] <= points[s[1]].count}
      Earlier(s, t) ==
        LET left  == (2 * s[2] - 1) * points[t[1]].count
            right == (2 * t[2] - 1) * points[s[1]].count
        IN  left < right \/ (left = right /\ s[1] < t[1])
      order == InOrder(slots, [t \in slots |-> {s \in slots : Earlier(s, t)}])
  IN  IF world.points = <<>>
      THEN [n \in 1..request.vehicles |-> ((n - 1) % Len(points)) + 1]
      ELSE [n \in DOMAIN order |-> order[n][1]]

\* A slip: the drive is not checked.
WalkableLots(edge, b) == access.candidates[b] \cap TargetLots

ReachableLots(edge, b) == {lot \in access.candidates[b] \cap TargetLots : Drives(edge, lot)}

RoutableBuildings(edge) == {b \in Buildings : ReachableLots(edge, b) # {}}

NextPoint == points[VehicleOrigins[Len(trips) + 1]]

WalksOf(mode) == {n \in DOMAIN walks : walks[n].mode = mode}

\* The checks of the demand generator before it draws anything.
DemandProblems ==
  UNION {
    When(request.vehicles > 0 /\ TargetLots = {}, "no accessible parking"),
    When(request.vehicles > 0 /\ points = <<>>, "no entry point"),
    When(/\ world.points # <<>>
         /\ Total([i \in DOMAIN points |-> points[i].count]) # request.vehicles,
         "point counts"),
    When(\E m \in Modes : Requested(m) > 0 /\ access.origins[m] = {}, "mode without origin")}

\* A walk is still due from an origin of this mode.
Due(m, o) ==
  /\ Len(trips) = request.vehicles
  /\ o \in access.origins[m]
  /\ Cardinality(WalksOf(m)) < Requested(m)

DrawProblems ==
  LET vehicleDue == Len(trips) < request.vehicles
      byCar      == RoutableBuildings(NextPoint.edge)
  IN  UNION {
        When(vehicleDue /\ byCar = {}, "no building by car"),
        When(vehicleDue /\ byCar # {} /\ byCar \cap world.weighted = {}, "no capacity by car"),
        When(\E m \in Modes : \E o \in access.origins[m] :
               Due(m, o) /\ access.reachable[o] \cap world.weighted = {},
             "no capacity on foot")}

Problems ==
  CASE stage = "submitted"  -> Refusals
    [] stage = "created"    -> ConfigureProblems
    [] stage = "configured" -> ResolveProblems
    [] stage = "resolved"   -> IF DemandProblems # {} THEN DemandProblems ELSE DrawProblems
    [] OTHER                -> {}

(***************************************************************************)
(* The actions.                                                            *)
(***************************************************************************)
Init ==
  /\ world \in Worlds
  /\ request \in Requests
  /\ islands = [p \in Paths |-> Component(p)]
  /\ stage = "submitted"
  /\ reason = "none"
  /\ allocation = <<>>
  /\ points = <<>>
  /\ routing = <<>>
  /\ access = [origins |-> <<>>, reachable |-> <<>>, candidates |-> <<>>, areas |-> {}]
  /\ trips = <<>>
  /\ walks = <<>>
  /\ occupants = <<>>

\* A step that raises ends the preparation with its message; nothing drawn
\* so far is written.
Fail ==
  /\ reason' \in Problems
  /\ stage' = IF stage = "submitted" THEN "refused" ELSE "failed"
  /\ UNCHANGED <<world, request, islands, allocation, points, routing, access, trips, walks, occupants>>

\* create_simulation_run.
Create ==
  /\ stage = "submitted"
  /\ Refusals = {}
  /\ stage' = "created"
  /\ allocation' = IF world.points = <<>> THEN <<>>
                   ELSE IF request.given THEN request.counts
                   ELSE Even(request.vehicles, Len(world.points))
  /\ UNCHANGED <<world, request, islands, reason, points, routing, access, trips, walks, occupants>>

\* configure.py.
Configure ==
  /\ stage = "created"
  /\ ConfigureProblems = {}
  /\ stage' = "configured"
  /\ points' = ConfiguredPoints
  /\ routing' = ConfiguredRouting
  /\ UNCHANGED <<world, request, islands, reason, allocation, access, trips, walks, occupants>>

\* person_access.resolve.
Resolve ==
  /\ stage = "configured"
  /\ ResolveProblems = {}
  /\ stage' = "resolved"
  /\ access' = Resolved
  /\ UNCHANGED <<world, request, islands, reason, allocation, points, routing, trips, walks, occupants>>

\* generate: one trip per vehicle, then one walk per person, then the files.
AppendTrip ==
  /\ stage = "resolved"
  /\ DemandProblems = {}
  /\ Len(trips) < request.vehicles
  /\ \E b \in RoutableBuildings(NextPoint.edge) \cap world.weighted :
       \E lot \in ReachableLots(NextPoint.edge, b) :
         trips' = Append(trips,
                    [id       |-> <<NextPoint.id, Len(trips)>>,
                     from     |-> NextPoint.edge,
                     building |-> b,
                     lot      |-> lot,
                     lots     |-> ReachableLots(NextPoint.edge, b)])
  /\ UNCHANGED <<world, request, islands, stage, reason, allocation, points, routing, access, walks,
                 occupants>>

AppendWalk ==
  /\ stage = "resolved"
  /\ DemandProblems = {}
  /\ \E m \in Modes : \E o \in access.origins[m] :
       /\ Due(m, o)
       /\ \E b \in access.reachable[o] \cap world.weighted :
            walks' = Append(walks, [mode |-> m, origin |-> o, building |-> b])
  /\ UNCHANGED <<world, request, islands, stage, reason, allocation, points, routing, access, trips,
                 occupants>>

WriteDemand ==
  /\ stage = "resolved"
  /\ DemandProblems = {}
  /\ Len(trips) = request.vehicles
  /\ Len(walks) = Pedestrians
  /\ stage' = "written"
  /\ UNCHANGED <<world, request, islands, reason, allocation, points, routing, access, trips, walks,
                 occupants>>

\* The vehicle parks in an attached area of one of its lots, and its driver
\* walks on to the planned building or to another one that can be reached.
Park(n) ==
  /\ stage = "written"
  /\ n \notin DOMAIN occupants
  /\ \E a \in access.areas :
       /\ LotOf[a] \in trips[n].lots
       /\ LET reached == {b \in Buildings : Walkable(Snap(a), Snap(b))}
              chosen  == IF trips[n].building \in reached THEN {trips[n].building} ELSE reached
          IN  \E b \in IF chosen = {} THEN {"stranded"} ELSE chosen :
                occupants' = [m \in DOMAIN occupants \cup {n} |->
                                IF m = n THEN [area |-> a, building |-> b] ELSE occupants[m]]
  /\ UNCHANGED <<world, request, islands, stage, reason, allocation, points, routing, access, trips, walks>>

Next ==
  \/ Create
  \/ Configure
  \/ Resolve
  \/ AppendTrip
  \/ AppendWalk
  \/ WriteDemand
  \/ \E n \in DOMAIN trips : Park(n)
  \/ Fail

Spec == Init /\ [][Next]_vars

(***************************************************************************)
(* Properties.                                                             *)
(***************************************************************************)
\* The request is checked when the run is created, and the later programs
\* check counts and ids again (configure.py 158-171, generate.py 142-153,
\* 296-318 and 188-194): what creation accepted, none of them rejects.
ChecksAgree ==
  reason \notin {"no parking configured", "allocation ids", "no origin",
                 "no accessible parking", "no entry point", "point counts",
                 "mode without origin"}

\* Whatever lot of its candidates a vehicle ends up in, it can be driven to
\* from where the vehicle enters, and some area of it leads on foot to the
\* building drawn for the driver; every walk has a route and two ends.
TripsRealizable ==
  /\ \A n \in DOMAIN trips : \A lot \in trips[n].lots :
       /\ lot \in world.selected
       /\ \E k \in DOMAIN world.roads[lot] : trips[n].from \in world.roads[lot][k]
       /\ \E a \in Areas : /\ LotOf[a] = lot
                           /\ Candidates(a) # {}
                           /\ Walkable(Snap(a), Snap(trips[n].building))
  /\ \A n \in DOMAIN walks :
       LET from == Snap(walks[n].origin)
           to   == Snap(walks[n].building)
       IN  from # to /\ Walkable(from, to)

\* Every row asked for is written, each vehicle under an id of its own: as
\* many vehicles enter at a saved point as were allocated to it (an even
\* share when nothing was), and each source sends as many people as asked.
DemandExact ==
  stage = "written" =>
    /\ Len(trips) = request.vehicles
    /\ \A m, n \in DOMAIN trips : trips[m].id = trips[n].id => m = n
    /\ \A m \in Modes : Cardinality(WalksOf(m)) = Requested(m)
    /\ \A i \in DOMAIN world.points :
         LET entered == Cardinality({n \in DOMAIN trips : trips[n].from = world.points[i]})
             share   == request.vehicles \div Len(world.points)
         IN  IF request.given THEN entered = request.counts[i]
             ELSE entered \in {share, share + 1}

\* When all areas of a lot lead to the same walkable component, the driver
\* reaches the planned building from whichever of them the vehicle takes.
\* Without that premise a lot is a candidate because of one of its areas
\* while the vehicle may park in another.
OccupantsArrive ==
  (\A a, b \in access.areas : LotOf[a] = LotOf[b] => Walkable(Snap(a), Snap(b)))
    => \A n \in DOMAIN occupants : occupants[n].building = trips[n].building

\* Nearby isolated stubs do not spoil a sound map: when one component is the
\* largest and every place has an edge of it in reach, every building has
\* capacity and every entry drives to every lot, preparation succeeds.
SoundMap ==
  /\ Buildings # {}
  /\ \A lot \in Lots : lot \in Range(LotOf) /\ world.roads[lot] # <<>>
  /\ Entries # {}
  /\ \E main \in Range(islands) :
       /\ \A p \in Paths \ main : Cardinality(islands[p]) < Cardinality(main)
       /\ \A place \in Places : Candidates(place) \cap main # {}
       /\ \A o \in Buildings \cup Stops : \E b \in Buildings :
            Candidates(o) \cap Candidates(b) \cap main = {}
  /\ world.weighted = Buildings
  /\ \A lot \in Lots : \A k \in DOMAIN world.roads[lot] : world.roads[lot][k] = Entries
  /\ Cardinality(Range(world.points)) = Len(world.points)

SoundMapPrepares == stage = "failed" => ~SoundMap
=============================================================================
