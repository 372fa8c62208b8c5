---------------------------- MODULE RunAnalytics ----------------------------
(***************************************************************************)
(* What the analytics worker makes of the outputs of a run                 *)
(* (backend/domain/analytics/service.py): it joins the plans of the        *)
(* drivers with the records, events and counts of module RunOutputs.       *)
(* Averages are kept as sums and counts, wording as short names.           *)
(***************************************************************************)
EXTENDS RunOutputs

CONSTANTS
  Buildings,
  BuildingOf,       \* person_plan.csv: the destination of a driver
  Walkers,          \* person_plan.csv: the destinations of the pedestrians
  LeavesAt,         \* departure_time_seconds of a driver or a walker
  Eligible,         \* person_access.snapshot.json: the lots of a building
  Accessible,       \* accessible_logical_parking_ids
  Weight,           \* vehicle_weight of a building
  BinSpan, FewestBins, MostBins,   \* 300 s, 12 and 60 in the code
  SeriesSpan,                      \* 15 minutes in the code
  MostPoints                       \* MAX_OCCUPANCY_POINTS, 900 in the code

AllLots == "all"

ASSUME AnalyticsAssumption ==
  /\ IsFiniteSet(Lots) /\ IsFiniteSet(Buildings)
  /\ BuildingOf \in [Drivers -> Buildings]
  /\ AllLots \notin Lots
  /\ MostPoints \in Nat /\ MostPoints >= 4

VARIABLE report     \* analytics.snapshot.json

Count(S) == Cardinality(S)

-----------------------------------------------------------------------------
(* _parking_destination_results: plans, choices and outcomes.              *)

ParkingRows(v) ==
  {i \in DOMAIN events : events[i].driver = v
                         /\ events[i].event \in {"parking_started", "parking_ended"}}

FinalLot(v) == IF ParkingRows(v) = {} THEN None ELSE events[Max(ParkingRows(v))].lot

ChosenLots(v) == {FirstChoice[v]} \cup ToSet(Candidates[v])

Person(v) ==
  LET final == FinalLot(v) IN
  [initial |-> FirstChoice[v], final |-> final, building |-> BuildingOf[v],
   status |-> IF final # None THEN "parked" ELSE tracker[v].status,
   changes |-> tracker[v].changes, attempts |-> Count(tracker[v].attempted)]

UnusedReason(l, parked, candidates, initial) ==
  CASE parked > 0 -> None
    [] candidates = 0 /\ l \notin Accessible -> "no_pedestrian_access"
    [] candidates = 0 /\ l \in Accessible /\ \A b \in Buildings : l \notin Eligible[b]
         -> "no_route_to_a_building"
    [] candidates = 0 /\ l \in Accessible /\ \E b \in Buildings : l \in Eligible[b]
         -> "not_retained"
    [] candidates > 0 /\ initial = 0 -> "never_first_choice"
    [] OTHER -> "no_completed_start"

\* A slip: who stayed with the first choice is sent in too.
EverybodyIn(people, l) == Count({v \in Drivers : people[v].final = l})

\* received_redirected_drivers: sent there from another first choice.
SentIn(people, l) == Count({v \in Drivers : people[v].final = l /\ people[v].initial # l})

LotTotals(people, l) ==
  LET Those(P(_)) == Count({v \in Drivers : P(people[v])})
      candidates == Count({v \in Drivers : l \in ChosenLots(v)})
      initial == Those(LAMBDA p : p.initial = l)
      parked == Those(LAMBDA p : p.final = l)
  IN [candidates |-> candidates, initial |-> initial, parked |-> parked,
      in |-> SentIn(people, l),
      out |-> Those(LAMBDA p : p.initial = l /\ p.final \notin {l, None}),
      unserved |-> Those(LAMBDA p : p.initial = l /\ p.status = "unserved"),
      buildings |-> Count({p.building : p \in {people[v] : v \in Drivers}}
                          \cap {BuildingOf[v] : v \in {w \in Drivers : people[w].final = l}}),
      eligible |-> Count({b \in Buildings : l \in Eligible[b]}),
      unused |-> UnusedReason(l, parked, candidates, initial)]

ZeroDriverReason(b, planned) ==
  CASE planned > 0 -> None
    [] planned = 0 /\ Eligible[b] = {} -> "no_pedestrian_route"
    [] planned = 0 /\ Eligible[b] # {} /\ Weight[b] = 0 -> "no_weight"
    [] OTHER -> "not_drawn"

\* The departures to b in every interval that has one, by mode.
TimeSeries(b) ==
  LET Goers(S, to) == {x \in S : to[x] = b}
      Slot(x) == LeavesAt[x] \div SeriesSpan
      drivers == Goers(Drivers, BuildingOf)
      walkers == Goers(DOMAIN Walkers, Walkers)
  IN  {[slot |-> k, vehicles |-> Count({v \in drivers : Slot(v) = k}),
        pedestrians |-> Count({w \in walkers : Slot(w) = k})]
         : k \in {Slot(x) : x \in drivers \cup walkers}}

BuildingTotals(people, b) ==
  LET Those(P(_)) == Count({v \in Drivers : people[v].building = b /\ P(people[v])})
      planned == Those(LAMBDA p : TRUE)
  IN [planned |-> planned,
      pedestrians |-> Count({w \in DOMAIN Walkers : Walkers[w] = b}),
      parked |-> Those(LAMBDA p : p.final # None),
      unserved |-> Those(LAMBDA p : p.final = None /\ p.status = "unserved"),
      without |-> Those(LAMBDA p : p.final = None /\ p.status # "unserved"),
      lots |-> Count({people[v].final : v \in {w \in Drivers : people[w].building = b}}
                     \ {None}),
      series |-> TimeSeries(b),
      nobody |-> ZeroDriverReason(b, planned)]

Destinations ==
  LET people == [v \in Drivers |-> Person(v)]
      lots == [l \in Lots |-> LotTotals(people, l)]
      places == [b \in Buildings |-> BuildingTotals(people, b)]
      parked == Count({v \in Drivers : people[v].final # None})
      unserved == Count({v \in Drivers : people[v].status = "unserved"})
  IN [people |-> people, lots |-> lots, buildings |-> places,
      flows |-> [f \in Lots \X Buildings |->
                   Count({v \in Drivers : people[v].final = f[1] /\ people[v].building = f[2]})],
      parked |-> parked, unserved |-> unserved,
      without |-> Count(Drivers) - parked - unserved,
      unusedLots |-> Count({l \in Lots : lots[l].parked = 0}),
      receiving |-> Count({b \in Buildings : places[b].planned > 0})]

-----------------------------------------------------------------------------
(* _search_time_results and _trip_segment_results: charts over time.       *)

BinCount(end) ==
  LET bins == (end + BinSpan - 1) \div BinSpan
  IN  Min({MostBins, Max({FewestBins, bins})})

\* A bin is never shorter than a second.
Bin(start, end) ==
  LET n == BinCount(end)
      k == IF end >= n THEN (start * n) \div end ELSE start
  IN  IF k < n THEN k ELSE n - 1

ChartEnd(starts) == Max({MaxTime} \cup starts)

Percentile(values, percent) ==
  LET ordered == SortSeq(values, <)
      index == (Len(values) * percent + 99) \div 100
  IN  IF values = <<>> THEN 0 ELSE ordered[Max({1, Min({index, Len(values)})})]

SummaryOf(values) ==
  [count |-> Len(values), total |-> FoldLeft(+, 0, values),
   p95 |-> Percentile(values, 95), maximum |-> Percentile(values, 100)]

FirstAttempt(v) ==
  LET rows == SelectSeq(events, LAMBDA e : e.driver = v /\ e.event = "parking_attempt")
  IN  IF rows = <<>> THEN None ELSE Head(rows).time

SearchStart(r, v) ==
  CASE r.arrival # None -> r.arrival
    [] r.arrival = None /\ r.rerouted # None -> r.rerouted
    [] OTHER -> FirstAttempt(v)

Measured == {v \in Drivers : tracker[v].search # None /\ SearchStart(tracker[v], v) # None}

SearchTimes ==
  LET start == [v \in Measured |-> SearchStart(tracker[v], v)]
      end == ChartEnd(Range(start))
      In(k) == {v \in Measured : Bin(start[v], end) = k}
      times(S) == [i \in 1 .. Count(S) |-> tracker[SetToSeq(S)[i]].search]
  IN  [points |-> {[bin |-> k, search |-> SummaryOf(times(In(k))).total, drivers |-> Count(In(k))]
                     : k \in {Bin(start[v], end) : v \in Measured}},
       summary |-> SummaryOf(times(Measured))]

\* Every closed segment as it stands in the file, with its driver.
SegmentRows ==
  UNION {{[driver |-> v, index |-> i, type |-> tracker[v].segments[i].segment.type,
           lot |-> tracker[v].segments[i].segment.lot,
           start |-> tracker[v].segments[i].segment.start,
           length |-> tracker[v].segments[i].finish - tracker[v].segments[i].segment.start]
            : i \in DOMAIN tracker[v].segments} : v \in Drivers}

TripSegments ==
  LET end == ChartEnd({s.start : s \in SegmentRows})
      Keys(s) == {<<s.type, k, Bin(s.start, end)>> : k \in {AllLots, s.lot}}
      In(key) == {s \in SegmentRows : key \in Keys(s)}
  IN  [key \in UNION {Keys(s) : s \in SegmentRows} |->
         [segments |-> Count(In(key)), vehicles |-> Count({s.driver : s \in In(key)}),
          total |-> SumFunction([s \in In(key) |-> s.length])]]

-----------------------------------------------------------------------------
(* _parking_attempt_results.                                               *)

Attempts ==
  LET tries == [v \in {d \in Drivers : tracker[d].attempted # {}} |->
                  Count(tracker[v].attempted)]
      With(n) == Count({v \in DOMAIN tries : tries[v] = n})
  IN  [distribution |-> [n \in Range(tries) |-> With(n)],
       vehicles |-> Count(DOMAIN tries),
       fallback |-> Count({v \in DOMAIN tries : tries[v] > 1}),
       unserved |-> Count({v \in DOMAIN tries : tracker[v].status = "unserved"})]

-----------------------------------------------------------------------------
(* _occupancy_results and _downsample_occupancy.                           *)

AreasOf(l) == {a \in Areas : l \in {LotOf[a], AllLots}}

Capacity(l) == SumFunction([a \in AreasOf(l) |-> Spaces[a]])

\* No lot is shown fuller than it is; all lots together are their sum.
Held(batch, l) ==
  Min({SumFunction([a \in AreasOf(l) |-> batch.occupied[a]]), Capacity(l)})

Point(batch, l) ==
  [time |-> batch.time,
   occupied |-> IF l # AllLots THEN Held(batch, l)
                ELSE SumFunction([k \in Lots |-> Held(batch, k)])]

\* A chart that does not begin at 0 is given an empty lot there.
Series(l) ==
  LET points == [i \in DOMAIN occupancy |-> Point(occupancy[i], l)]
  IN  IF points # <<>> /\ Head(points).time > 0
      THEN <<[time |-> 0, occupied |-> 0]>> \o points ELSE points

\* The first least and the first greatest point of a bucket, by time.
Extremes(bucket) ==
  LET First(Better(_, _)) ==
        CHOOSE i \in DOMAIN bucket :
          /\ \A j \in DOMAIN bucket : ~Better(bucket[j].occupied, bucket[i].occupied)
          /\ \A j \in 1 .. (i - 1) : Better(bucket[i].occupied, bucket[j].occupied)
      least == First(<)
      most == First(>)
  IN  IF least = most THEN <<bucket[least]>>
      ELSE <<bucket[Min({least, most})], bucket[Max({least, most})]>>

\* A slip: the end of the chart is left out.
WithoutLast(points) ==
  IF Len(points) <= MostPoints THEN points ELSE SubSeq(points, 1, MostPoints)

Downsampled(points) ==
  LET interior == SubSeq(points, 2, Len(points) - 1)
      buckets == Max({(MostPoints - 2) \div 2, 1})
      size == Max({(Len(interior) + buckets - 1) \div buckets, 1})
      Bucket(k) == SubSeq(interior, (k - 1) * size + 1, Min({k * size, Len(interior)}))
      kept == FlattenSeq([k \in 1 .. ((Len(interior) + size - 1) \div size) |->
                            Extremes(Bucket(k))])
      sampled == <<Head(points)>> \o kept \o <<Last(points)>>
  IN  CASE Len(points) <= MostPoints -> points
        [] Len(points) > MostPoints /\ Len(sampled) <= MostPoints -> sampled
        [] OTHER -> SubSeq(sampled, 1, MostPoints - 1) \o <<Last(points)>>

OccupancyChart == [l \in Lots \cup {AllLots} |-> Downsampled(Series(l))]

-----------------------------------------------------------------------------

\* generate_analytics_snapshot: built once, from the files of a run that ended.
Analyse ==
  /\ stage = "written"
  /\ stage' = "analysed"
  /\ report' = [destinations |-> Destinations, search |-> SearchTimes,
                attempts |-> Attempts, segments |-> TripSegments,
                occupancy |-> OccupancyChart]
  /\ UNCHANGED <<now, place, stood, tracker, assigned, visited, events, occupancy,
                 saved, replays>>

AnalyticsInit == OutputsInit /\ report = None
AnalyticsNext == \/ OutputsNext /\ UNCHANGED report
                 \/ Analyse

analyticsVars == <<outputVars, report>>

AnalyticsSpec == AnalyticsInit /\ [][AnalyticsNext]_analyticsVars

-----------------------------------------------------------------------------
(* Properties of what is reported.                                         *)

\* The report says of every driver what SUMO did with it in the moves that
\* were not replayed: parked in a lot iff its stop started in an area of that
\* lot, unserved iff it is gone without a space, and otherwise neither.
OutcomesAreTrue ==
  stage = "analysed" =>
    LET d == report.destinations IN
    \A v \in Drivers :
      /\ d.people[v].final = IF stood[v] = None THEN None ELSE LotOf[stood[v]]
      /\ d.people[v].status = "unserved"
           <=> place[v] = "gone" /\ stood[v] = None /\ assigned[v] = None

\* The tables of the report agree: a lot holds who chose it, less who went
\* elsewhere or found nothing, plus who was sent there; who is sent in was
\* sent out; lots, buildings and flows have the same drivers; every segment
\* and every measured search is in exactly one bar of its chart; and who
\* tried and found nothing is among the unserved.
ReportBalances ==
  stage = "analysed" =>
    LET d == report.destinations
        Over(S, P(_)) == SumFunction([x \in S |-> P(x)])
        Lost(l) == Count({v \in Drivers : d.people[v].initial = l /\ d.people[v].final = None
                                          /\ d.people[v].status # "unserved"})
    IN
    /\ \A l \in Lots : LET t == d.lots[l] IN
         t.parked + t.out + t.unserved + Lost(l) = t.initial + t.in
    /\ Over(Lots, LAMBDA l : d.lots[l].in) = Over(Lots, LAMBDA l : d.lots[l].out)
    /\ d.parked = Over(Lots, LAMBDA l : d.lots[l].parked)
    /\ d.parked = Over(Buildings, LAMBDA b : d.buildings[b].parked)
    /\ d.without = Over(Buildings, LAMBDA b : d.buildings[b].without)
    /\ \A b \in Buildings : LET t == d.buildings[b] IN
         /\ t.planned = t.parked + t.unserved + t.without
         /\ t.parked = Over(Lots, LAMBDA l : d.flows[<<l, b>>])
    /\ report.attempts.unserved <= d.unserved
    /\ report.search.summary.count = SumFunction([p \in report.search.points |-> p.drivers])
    /\ Count(SegmentRows) =
         SumFunction([k \in {key \in DOMAIN report.segments : key[2] = AllLots} |->
                report.segments[k].segments])

\* The journey of a driver is a timeline without a gap from its departure to
\* its parking; its search time is the time from its first search segment to
\* its stop, and no search is longer than the time since it first reached a lot.
SearchTimesElapsed ==
  stage \in {"written", "analysed"} =>
    \A v \in Drivers :
      LET r == tracker[v]
          Part(i) == r.segments[i]
          parked == {i \in DOMAIN r.segments : Part(i).segment.type = "parked"}
          search == {i \in DOMAIN r.segments : Part(i).segment.type \in SearchSegments}
      IN
      /\ \A i \in DOMAIN r.segments : i > 1 /\ (\A p \in parked : i <= p) =>
           Part(i).segment.start = Part(i - 1).finish
      /\ stood[v] # None =>
           r.search = r.parkedAt - Part(Min(search)).segment.start
      /\ r.search # None /\ r.search > 0 =>
           r.search <= (IF stood[v] # None THEN r.parkedAt ELSE now) - r.arrival

\* The two logs tell the same story, also after a replay: the vehicles counted
\* in an area are those whose stop has started and not ended.  The chart has
\* those counts at its first and last point and its extremes, in order.
OccupancyMatchesEvents ==
  stage = "analysed" =>
    LET Stops(kind, a, t) ==
          Count({i \in DOMAIN events : events[i].event = kind /\ events[i].area = a
                                       /\ events[i].time <= t})
        In(a, t) == Stops("parking_started", a, t) - Stops("parking_ended", a, t)
    IN
    \A l \in Lots \cup {AllLots} :
      LET chart == report.occupancy[l]
          held == {SumFunction([a \in AreasOf(l) |-> In(a, occupancy[i].time)])
                     : i \in DOMAIN occupancy}
      IN
      /\ Len(chart) <= MostPoints
      /\ \A i \in DOMAIN chart :
           /\ chart[i].occupied = SumFunction([a \in AreasOf(l) |-> In(a, chart[i].time)])
           /\ i > 1 => chart[i - 1].time < chart[i].time
      /\ occupancy # <<>> =>
           /\ Last(chart).time = Last(occupancy).time
           /\ Max({chart[i].occupied : i \in DOMAIN chart}) = Max(held)

=============================================================================
