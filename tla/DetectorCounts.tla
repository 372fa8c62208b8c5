--------------------------- MODULE DetectorCounts ---------------------------
(***************************************************************************)
(* The counters of a run and the series made of them: the pedestrian zone  *)
(* counter (backend/sumo/controller/fast_pedestrian_detector.py), SUMO's   *)
(* own entry and exit detectors as far as their files go, and the          *)
(* detector series of backend/domain/analytics/service.py.                 *)
(***************************************************************************)
EXTENDS Integers, Sequences, FiniteSets, SequencesExt

CONSTANTS
  People,
  Roads, Positions,   \* where a person can be
  Physical,           \* the E2 detectors of detectors.snapshot.json, in order
  Period,             \* period_seconds
  Interval,           \* DETECTOR_COMPARISON_INTERVAL_SECONDS
  Duration,           \* simulation_end; the simulation begins at 0
  SaveEvery, MaxClock, MaxCrashes, Nowhere

VARIABLES
  clock, counting, path,        \* SUMO: the observed places of each person
  previous, inside, buckets,    \* FastPedestrianDetector
  checkpoint, crashes, written  \* the last saved state, e2_pedestrians.xml

counterVars == <<clock, counting, path, previous, inside, buckets, checkpoint,
                 crashes, written>>

Walking == [road : Roads, position : Positions]

\* Detectors have names of their own (detectors/generate.py 228-229).
ASSUME CountingAssumption ==
  /\ IsFiniteSet(People) /\ Positions \subseteq Int /\ Nowhere \notin Walking
  /\ Len(Physical) \in Nat /\ DOMAIN Physical = 1 .. Len(Physical)
  /\ \A i \in DOMAIN Physical : Physical[i].first \in Int /\ Physical[i].last \in Int
  /\ \A i, j \in DOMAIN Physical : Physical[i].id = Physical[j].id => i = j
  /\ Period \in Nat \ {0} /\ Interval \in Nat \ {0}
  /\ Duration \in Nat /\ MaxClock \in Nat

\* A run takes whole hours, the chart has quarters of an hour, and the interface
\* makes detectors with that period (App.tsx 1799).  With a period that does not
\* fit, the chart shares a count out by time, and is an estimate.
ASSUME AlignedPeriods ==
  /\ Interval % Period = 0
  /\ Duration % Period = 0 \/ MaxClock <= Duration

-----------------------------------------------------------------------------
(* Zones: one for each measurement on an edge, never a point, either way   *)
(* round.                                                                  *)

Zones ==
  LET Usable(i) == Physical[i].first # Physical[i].last
      Twin(i, j) == /\ Physical[i].measurement = Physical[j].measurement
                    /\ Physical[i].road = Physical[j].road
      chosen == {i \in DOMAIN Physical :
                   Usable(i) /\ ~\E j \in 1 .. (i - 1) : Usable(j) /\ Twin(i, j)}
  IN  {[id |-> Physical[i].id, measurement |-> Physical[i].measurement,
        road |-> Physical[i].road,
        low |-> Min({Physical[i].first, Physical[i].last}),
        high |-> Max({Physical[i].first, Physical[i].last})] : i \in chosen}

Within(z, at) ==
  at # Nowhere /\ at.road = z.road /\ z.low <= at.position /\ at.position <= z.high

\* A step from one side of the zone to the other, between two samples.
JumpsOver(z, from, to) ==
  /\ from # Nowhere /\ to # Nowhere
  /\ from.road = z.road /\ to.road = z.road
  /\ Min({from.position, to.position}) < z.low
  /\ Max({from.position, to.position}) > z.high

\* A slip: everybody in the zone is counted again.
EntersAnew(p, z, at) == Within(z, at) \/ JumpsOver(z, previous[p], at)

\* Who was in the zone at the last observation is not counted again.
Enters(p, z, at) ==
  /\ z.id \notin inside[p]
  /\ Within(z, at) \/ JumpsOver(z, previous[p], at)

\* The dictionary of buckets: the entries of each zone, by interval.
Recorded(at) ==
  [z \in Zones |->
     LET n == Cardinality({p \in People : Enters(p, z, at[p])})
     IN  [buckets[z] EXCEPT ![clock \div Period] = @ + n]]

\* Nobody who rides, stands still for a stage or is gone keeps a memory.
Observe(at) ==
  /\ buckets' = Recorded(at)
  /\ previous' = at
  /\ inside' = [p \in People |-> {z.id : z \in {y \in Zones : Within(y, at[p])}}]

-----------------------------------------------------------------------------

CounterInit ==
  /\ clock = 0
  /\ counting = "running"
  /\ path = [p \in People |-> <<>>]
  /\ previous = [p \in People |-> Nowhere]
  /\ inside = [p \in People |-> {}]
  /\ buckets = [z \in Zones |-> [k \in 0 .. (MaxClock \div Period) |-> 0]]
  /\ checkpoint = [clock |-> 0, path |-> path, previous |-> previous,
                   inside |-> inside, buckets |-> buckets]
  /\ crashes = 0
  /\ written = Nowhere

\* An iteration of the main loop: the persons are observed where they are,
\* then SUMO makes its step and the checkpoint is taken when due.
Walk ==
  /\ counting = "running"
  /\ clock < MaxClock
  /\ \E at \in [People -> Walking \cup {Nowhere}] :
       /\ Observe(at)
       /\ path' = [p \in People |-> Append(path[p], at[p])]
  /\ clock' = clock + 1
  /\ checkpoint' = IF clock' - checkpoint.clock < SaveEvery THEN checkpoint
                   ELSE [clock |-> clock', path |-> path', previous |-> previous',
                         inside |-> inside', buckets |-> buckets']
  /\ UNCHANGED <<counting, crashes, written>>

\* SUMO crashed: snapshot and restore of the counter.
Restart ==
  /\ counting = "running"
  /\ crashes < MaxCrashes
  /\ crashes' = crashes + 1
  /\ clock' = checkpoint.clock
  /\ path' = checkpoint.path
  /\ previous' = checkpoint.previous
  /\ inside' = checkpoint.inside
  /\ buckets' = checkpoint.buckets
  /\ UNCHANGED <<counting, checkpoint, written>>

\* write_e2_xml: an interval for every period that begins before the end,
\* the last one cut at the end.
E2Intervals ==
  LET end == Max({Duration, clock}) IN
  {[id |-> z.id, first |-> k * Period, last |-> Min({(k + 1) * Period, end}),
    entered |-> IF k \in DOMAIN buckets[z] THEN buckets[z][k] ELSE 0]
     : z \in Zones, k \in 0 .. ((end - 1) \div Period)}

WriteCounts ==
  /\ counting = "running"
  /\ clock > 0
  /\ counting' = "written"
  /\ written' = E2Intervals
  /\ UNCHANGED <<clock, path, previous, inside, buckets, checkpoint, crashes>>

CounterNext == Walk \/ Restart \/ WriteCounts

CounterSpec == CounterInit /\ [][CounterNext]_counterVars

-----------------------------------------------------------------------------
(* SUMO's E3 detectors, as their files are read: who left the zone in an   *)
(* interval after having entered it, and who is within at its end.         *)

Was(p, i) == IF i < 1 THEN Nowhere ELSE path[p][i]
EntersAt(p, z, i) == /\ ~Within(z, Was(p, i - 1))
                     /\ Within(z, Was(p, i)) \/ JumpsOver(z, Was(p, i - 1), Was(p, i))
LeavesAtStep(p, z, i) == \/ Within(z, Was(p, i - 1)) /\ ~Within(z, Was(p, i))
                         \/ JumpsOver(z, Was(p, i - 1), Was(p, i))

Steps(k) == {i \in 1 .. clock : (i - 1) \div Period = k}
Periods == {(i - 1) \div Period : i \in 1 .. clock}

E3Intervals(z) ==
  [k \in Periods |->
     [left |-> Cardinality({x \in People \X Steps(k) : LeavesAtStep(x[1], z, x[2])}),
      within |-> Cardinality({p \in People : Within(z, Was(p, Max(Steps(k))))})]]

-----------------------------------------------------------------------------
(* _detector_results.                                                      *)

\* SUMO counts vehicles when they leave: the entries follow from the change
\* of the number within.
E3Series(z) ==
  LET rows == E3Intervals(z)
      before(k) == IF k = 0 THEN 0 ELSE rows[k - 1].within
  IN  {[first |-> k * Period, last |-> (k + 1) * Period,
        entered |-> Max({rows[k].left + rows[k].within - before(k), 0})]
         : k \in Periods}

Measurements == {z.measurement : z \in Zones}

\* The zones of a measurement are added up, interval by interval.
E2Series(m) ==
  LET rows == {r \in written : \E z \in Zones : z.id = r.id /\ z.measurement = m}
      Spans == {<<r.first, r.last>> : r \in rows}
  IN  {[first |-> s[1], last |-> s[2],
        entered |-> SumFunction([r \in {q \in rows : <<q.first, q.last>> = s} |-> r.entered])]
         : s \in Spans}

\* _aggregate_detector_counts: the part of each interval before the end of the
\* run, shared out over the comparison intervals that it overlaps.  Counts are
\* in parts of Period, so that shares stay whole.
Shared(series) ==
  LET Slots == {r.first \div Interval : r \in series}
                 \cup {(r.last - 1) \div Interval : r \in series}
      Cut(r) == Min({r.last, Duration})
      Overlap(r, k) == Max({0, Min({Cut(r), (k + 1) * Interval}) - Max({r.first, k * Interval})})
      Share(r, k) == (r.entered * Overlap(r, k) * Period) \div (r.last - r.first)
  IN  [k \in {j \in Slots : \E r \in series : r.first < Duration /\ Overlap(r, j) > 0} |->
         SumFunction([r \in {q \in series : q.first < Duration} |-> Share(r, k)])]

-----------------------------------------------------------------------------
(* What is counted is what happened.                                       *)

Entries(Z, from, to) ==
  Cardinality({x \in People \X Z \X (1 .. clock) :
                 /\ from <= x[3] - 1 /\ x[3] - 1 < to
                 /\ EntersAt(x[1], x[2], x[3])})

\* In the comparison chart of a pedestrian measurement every interval of the
\* run has the entries of its zones in the walks that were not replayed, jumps
\* included, and nothing from after the end; the entries derived from SUMO's
\* exit counts are the same ones in every period.
CountsAreEntries ==
  counting = "written" =>
    /\ \A m \in Measurements :
         LET zones == {z \in Zones : z.measurement = m}
             chart == Shared(E2Series(m))
         IN  \A k \in 0 .. (MaxClock \div Interval) :
               (IF k \in DOMAIN chart THEN chart[k] ELSE 0)
                 = Period * Entries(zones, k * Interval, Min({(k + 1) * Interval, Duration}))
    /\ \A z \in Zones : \A r \in E3Series(z) :
         r.entered = Entries({z}, r.first, r.last)

=============================================================================
