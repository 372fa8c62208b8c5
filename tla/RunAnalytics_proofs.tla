------------------------ MODULE RunAnalytics_proofs ------------------------
(***************************************************************************)
(* Proofs about RunOutputs and RunAnalytics: what the report says of the   *)
(* drivers is what SUMO did with them, search times are elapsed times, the *)
(* tables of the report agree, and the charts tell what the events tell.   *)
(*                                                                         *)
(* A driver goes through a few modes (Life), each with what its record     *)
(* must look like then.  The handlers are described by what they do to the *)
(* segments of a record (Turned); that keeps a journey a journey.  The     *)
(* same is kept of the checkpoint, to which Recover returns.               *)
(*                                                                         *)
(* The counts of the occupancy log are about sets of rows and of drivers;  *)
(* one step changes either by one element (OneMoves), and a chart keeps    *)
(* points of its series, with one that is as high as any (Thinned).        *)
(***************************************************************************)
EXTENDS RunAnalytics, DataLemmas, SequenceTheorems

(***************************************************************************)
(* Types.                                                                  *)
(***************************************************************************)
Times == Nat \cup {None}

Statuses == {"not_inserted", "active", "assigned", "searching", "between", "parked",
             "completed", "unserved"}

EndedSegment ==
  [segment : Segment, outcome : {"completed", "unserved", "simulation_ended"}, finish : Nat]

Record ==
  [status : Statuses, target : Lots, final : Areas \cup {None}, arrival : Times,
   rerouted : Times, parkedAt : Times, search : Int \cup {None}, changes : Nat,
   attempted : SUBSET Lots, rejected : SUBSET Lots,
   open : Segment \cup {None}, segments : Seq(EndedSegment)]

EventRow ==
  [time : Nat, driver : Drivers, lot : Lots, area : Areas \cup {None},
   event : {"parking_attempt", "parking_started", "parking_ended"}]

Places == {"waiting", "road", "aisle", "space", "gone"}

(***************************************************************************)
(* A journey: its first segment leads to the first lot, the others are the *)
(* search; each starts where the one before ended.                         *)
(***************************************************************************)
Walked(segments, k, t) ==
  \A i \in 1 .. k :
    /\ segments[i].segment.start <= segments[i].finish
    /\ segments[i].finish <= t
    /\ i = 1 => segments[i].segment.type = "to_parking"
    /\ i > 1 => /\ segments[i].segment.type \in SearchSegments
                /\ segments[i].segment.start = segments[i - 1].finish

Continues(open, segments, t) ==
  /\ open.start <= t
  /\ segments = <<>> => open.type = "to_parking"
  /\ segments # <<>> => /\ open.type \in SearchSegments
                        /\ open.start = segments[Len(segments)].finish

\* The search begins when the first segment ends; by then a lot was reached.
LotReached(open, segments, arrival, t) ==
  /\ arrival # None => arrival <= t
  /\ Len(segments) > 1 \/ (Len(segments) = 1 /\ open # None) =>
       arrival # None /\ arrival <= segments[1].finish

Journey(open, segments, arrival, t) ==
  /\ Walked(segments, Len(segments), t)
  /\ open # None => Continues(open, segments, t)
  /\ LotReached(open, segments, arrival, t)

\* How long the search was, once its last segment has ended.
Elapsed(segments) ==
  IF segments = <<>> THEN 0 ELSE segments[Len(segments)].finish - segments[1].finish

(***************************************************************************)
(* A driver's record: on its way, after its stop, or without a space.      *)
(***************************************************************************)
Going(r, t) ==
  /\ r \in Record
  /\ r.open # None
  /\ r.search = None
  /\ r.status # "unserved"
  /\ Journey(r.open, r.segments, r.arrival, t)

Unserved(r, t) ==
  /\ r \in Record
  /\ r.open = None
  /\ r.search = Elapsed(r.segments)
  /\ r.status = "unserved"
  /\ Journey(r.open, r.segments, r.arrival, t)

\* The first k segments led to the stop.
StopAfter(r, k) ==
  /\ Walked(r.segments, k, r.parkedAt)
  /\ r.segments[k].finish = r.parkedAt
  /\ r.search = r.parkedAt - r.segments[1].finish
  /\ r.arrival # None /\ r.arrival <= r.segments[1].finish
  /\ Len(r.segments) = k => /\ r.open # None
                            /\ r.open.type = "parked" /\ r.open.start = r.parkedAt
  /\ Len(r.segments) > k => /\ r.segments[k + 1].segment.type = "parked"
                            /\ r.segments[k + 1].segment.start = r.parkedAt

Stopped(r) ==
  /\ r \in Record
  /\ r.parkedAt # None
  /\ r.status # "unserved"
  /\ \E k \in 2 .. Len(r.segments) : StopAfter(r, k)

Heads(r, area) == area # None => r.target = LotOf[area]

(***************************************************************************)
(* A driver: its place, the area it stopped in, its record, the space it   *)
(* was given and whether it is done with parking, at time t.               *)
(***************************************************************************)
Life(v, at, in, r, given, done, t) ==
  \/ at = "waiting" /\ in = None /\ given = None /\ ~done /\ r = Fresh(v)
  \/ at \in {"road", "aisle"} /\ in = None /\ ~done /\ Going(r, t) /\ Heads(r, given)
  \/ at = "space" /\ in # None /\ given = in /\ Stopped(r) /\ Heads(r, given)
  \/ at \in {"aisle", "gone"} /\ in # None /\ given = None /\ done /\ Stopped(r)
  \/ at = "gone" /\ in = None /\ given # None /\ Going(r, t)
  \/ at = "gone" /\ in = None /\ given = None /\ Unserved(r, t)

\* The log has the rows of a stop iff the stop has started, with its lot.
Parking(row, v) == row.driver = v /\ row.event \in {"parking_started", "parking_ended"}

Logged(log, v, in) ==
  /\ \A i \in DOMAIN log : Parking(log[i], v) => in # None /\ log[i].lot = LotOf[in]
  /\ in # None => \E i \in DOMAIN log : Parking(log[i], v)

World(t, at, in, books, given, done, log) ==
  /\ t \in Nat
  /\ at \in [Drivers -> Places]
  /\ in \in [Drivers -> Areas \cup {None}]
  /\ books \in [Drivers -> Record]
  /\ given \in [Drivers -> Areas \cup {None}]
  /\ log \in Seq(EventRow)
  /\ \A v \in Drivers : /\ Life(v, at[v], in[v], books[v], given[v], v \in done, t)
                        /\ Logged(log, v, in[v])

\* Recover returns to the checkpoint, with the log cut off.
Checkpointed ==
  /\ saved.events \in 0 .. Len(events)
  /\ World(saved.time, saved.place, saved.stood, saved.tracker, saved.assigned,
           saved.visited, SubSeq(events, 1, saved.events))

(***************************************************************************)
(* A driver's record once the outputs are written.                         *)
(***************************************************************************)
Accounted(at, in, r, given, t) ==
  /\ r \in Record
  /\ in # None => Stopped(r)
  /\ in = None =>
       /\ Journey(r.open, r.segments, r.arrival, t)
       /\ r.search # None => r.search = Elapsed(r.segments)
       /\ r.status = "unserved" <=> at = "gone" /\ given = None

Running ==
  /\ stage = "running"
  /\ World(now, place, stood, tracker, assigned, visited, events)
  /\ Checkpointed

Settled ==
  /\ stage \in {"written", "analysed"}
  /\ now \in Nat
  /\ stood \in [Drivers -> Areas \cup {None}]
  /\ events \in Seq(EventRow)
  /\ \A v \in Drivers :
       /\ Accounted(place[v], stood[v], tracker[v], assigned[v], now)
       /\ Logged(events, v, stood[v])

Inv ==
  /\ Running \/ Settled
  /\ OutcomesAreTrue
  /\ ReportBalances

(***************************************************************************)
(* What the tracker does to a record.                                      *)
(***************************************************************************)

\* Nothing happens to the timeline, a segment is opened, or one is closed and the
\* next one opened.
Turned(r, s, t, type) ==
  \/ /\ s.open = r.open /\ s.segments = r.segments
     /\ r.open # None /\ r.open.type = type
  \/ /\ r.open = None /\ s.segments = r.segments
     /\ s.open # None /\ s.open.type = type /\ s.open.start = t
  \/ /\ r.open # None /\ s.segments = Append(r.segments, Ended(r.open, t, "completed"))
     /\ s.open # None /\ s.open.type = type /\ s.open.start = t

\* What a transition leaves alone.
SameBooks(r, s) ==
  /\ s.target = r.target /\ s.search = r.search /\ s.parkedAt = r.parkedAt
  /\ s.status = r.status /\ s.arrival = r.arrival

LEMMA EndedType ==
  ASSUME NEW o \in Segment, NEW t \in Nat,
         NEW outcome \in {"completed", "unserved", "simulation_ended"}
  PROVE  Ended(o, t, outcome) \in EndedSegment
BY DEF Ended, EndedSegment, Segment

LEMMA CloseDoes ==
  ASSUME NEW r \in Record, NEW t \in Nat,
         NEW outcome \in {"completed", "unserved", "simulation_ended"}
  PROVE  /\ Close(r, t, outcome) \in Record
         /\ SameBooks(r, Close(r, t, outcome))
         /\ Close(r, t, outcome).open = None
         /\ Close(r, t, outcome).segments =
              IF r.open = None THEN r.segments
              ELSE Append(r.segments, Ended(r.open, t, outcome))
<1>1. CASE r.open = None
  BY <1>1 DEF Close, SameBooks
<1>2. CASE r.open # None
  <2>1. r.open \in Segment /\ r.segments \in Seq(EndedSegment)
    BY <1>2 DEF Record
  <2>2. Append(r.segments, Ended(r.open, t, outcome)) \in Seq(EndedSegment)
    BY <2>1, EndedType
  <2> DEFINE more == Append(r.segments, Ended(r.open, t, outcome))
  <2>3. Close(r, t, outcome) = [r EXCEPT !.open = None, !.segments = more]
    BY <1>2 DEF Close
  <2> HIDE DEF more
  <2>4. [r EXCEPT !.open = None, !.segments = more] \in Record
    BY <2>2 DEF Record, more
  <2> QED
    BY <1>2, <2>3, <2>4 DEF SameBooks, Record, more
<1> QED
  BY <1>1, <1>2

LEMMA TransitionDoes ==
  ASSUME OutputsAssumption,
         NEW r \in Record, NEW t \in Nat, NEW type \in SegmentTypes, NEW lot \in Lots,
         NEW area \in Areas \cup {None}, NEW from \in Lots \cup {None}
  PROVE  /\ Transition(r, t, type, lot, area, from) \in Record
         /\ SameBooks(r, Transition(r, t, type, lot, area, from))
         /\ Turned(r, Transition(r, t, type, lot, area, from), t, type)
<1> DEFINE next == [type |-> type, lot |-> lot, area |-> area, from |-> from, start |-> t]
           same == r.open # None /\ [next EXCEPT !.start = r.open.start] = r.open
           c == Close(r, t, "completed")
           s == Transition(r, t, type, lot, area, from)
<1>1. next \in Segment /\ next # None
  BY DEF Segment, OutputsAssumption
<1>2. CASE same
  <2>1. s = r
    BY <1>2 DEF Transition
  <2>2. r.open.type = type
    BY <1>2
  <2> QED
    BY <1>2, <2>1, <2>2 DEF SameBooks, Turned
<1>3. CASE ~ same
  <2>1. s = [c EXCEPT !.open = next]
    BY <1>3 DEF Transition
  <2>2. /\ c \in Record /\ SameBooks(r, c)
        /\ c.segments = IF r.open = None THEN r.segments
                        ELSE Append(r.segments, Ended(r.open, t, "completed"))
    BY CloseDoes
  <2>3. next.type = type /\ next.start = t
    OBVIOUS
  <2> HIDE DEF c, next, same
  <2>4. s \in Record /\ s.open = next /\ s.segments = c.segments /\ SameBooks(c, s)
    BY <1>1, <2>1, <2>2 DEF Record, SameBooks
  <2> HIDE DEF s
  <2> QED
    BY <1>1, <2>2, <2>3, <2>4 DEF Turned, SameBooks, s
<1> QED
  BY <1>2, <1>3

(***************************************************************************)
(* A journey goes on.                                                      *)
(***************************************************************************)
LEMMA SegmentFacts ==
  ASSUME NEW segments \in Seq(EndedSegment), NEW i \in 1 .. Len(segments)
  PROVE  segments[i].finish \in Nat /\ segments[i].segment.start \in Nat
<1>1. segments[i] \in EndedSegment
  OBVIOUS
<1> QED
  BY <1>1 DEF EndedSegment, Segment

LEMMA JourneyLater ==
  ASSUME OutputsAssumption,
         NEW open \in Segment \cup {None}, NEW segments \in Seq(EndedSegment), NEW arrival \in Times,
         NEW t \in Nat, NEW u \in Nat, t <= u, Journey(open, segments, arrival, t)
  PROVE  Journey(open, segments, arrival, u)
<1>1. Walked(segments, Len(segments), u)
  <2>1. \A i \in 1 .. Len(segments) : segments[i].finish \in Nat
    BY SegmentFacts
  <2> QED
    BY <2>1 DEF Journey, Walked
<1>2. open # None => Continues(open, segments, u)
  <2>1. open # None => open.start \in Nat
    BY DEF Segment
  <2> QED
    BY <2>1 DEF Journey, Continues
<1>3. LotReached(open, segments, arrival, u)
  <2>1. arrival # None => arrival \in Nat
    BY DEF Times
  <2> QED
    BY <2>1 DEF Journey, LotReached
<1> QED
  BY <1>1, <1>2, <1>3 DEF Journey

\* A lot is reached: the first time counts.
LEMMA JourneyArrives ==
  ASSUME OutputsAssumption,
         NEW open \in Segment \cup {None}, NEW segments \in Seq(EndedSegment), NEW arrival \in Times,
         NEW t \in Nat, Journey(open, segments, arrival, t)
  PROVE  LET first == IF arrival = None THEN t ELSE arrival IN
         first \in Nat /\ first <= t /\ Journey(open, segments, first, t)
<1>1. CASE arrival = None
  <2>1. ~ (Len(segments) > 1 \/ (Len(segments) = 1 /\ open # None))
    BY <1>1 DEF Journey, LotReached
  <2>2. LotReached(open, segments, t, t)
    BY <2>1 DEF LotReached
  <2> QED
    BY <1>1, <2>2 DEF Journey
<1>2. CASE arrival # None
  BY <1>2 DEF Journey, LotReached, Times
<1> QED
  BY <1>1, <1>2

\* The open segment ends now.
LEMMA JourneyCloses ==
  ASSUME OutputsAssumption,
         NEW open \in Segment, NEW segments \in Seq(EndedSegment), NEW arrival \in Times,
         NEW t \in Nat, Journey(open, segments, arrival, t),
         NEW outcome \in {"completed", "unserved", "simulation_ended"}
  PROVE  LET e == Ended(open, t, outcome)
             more == Append(segments, e)
         IN  /\ e \in EndedSegment /\ more \in Seq(EndedSegment)
             /\ e.segment = open /\ e.finish = t
             /\ Len(more) = Len(segments) + 1
             /\ \A i \in 1 .. Len(segments) : more[i] = segments[i]
             /\ more[Len(more)] = e
             /\ Journey(None, more, arrival, t)
<1> DEFINE e == Ended(open, t, outcome)
           more == Append(segments, e)
           n == Len(segments)
<1>1. open # None /\ open.start \in Nat /\ open.start <= t
  BY DEF Journey, Continues, OutputsAssumption, Segment
<1>2. e \in EndedSegment /\ e.segment = open /\ e.finish = t
  <2>1. e \in EndedSegment
    BY EndedType
  <2>2. e.segment = open /\ e.finish = t
    BY <1>1 DEF Ended
  <2> QED
    BY <2>1, <2>2
<1> HIDE DEF e
<1>3. /\ n \in Nat /\ more \in Seq(EndedSegment) /\ Len(more) = n + 1
      /\ \A i \in 1 .. n : more[i] = segments[i]
      /\ more[n + 1] = e
  BY <1>2
<1> HIDE DEF more, n
<1>4. Walked(segments, n, t) /\ Continues(open, segments, t) /\ LotReached(open, segments, arrival, t)
  BY <1>1 DEF Journey, n
<1>5. n = 0 <=> segments = <<>>
  BY DEF n
<1>6. Walked(more, n + 1, t)
  <2> SUFFICES ASSUME NEW i \in 1 .. (n + 1)
               PROVE  /\ more[i].segment.start <= more[i].finish
                      /\ more[i].finish <= t
                      /\ i = 1 => more[i].segment.type = "to_parking"
                      /\ i > 1 => /\ more[i].segment.type \in SearchSegments
                                  /\ more[i].segment.start = more[i - 1].finish
    BY DEF Walked
  <2>1. CASE i \in 1 .. n
    <3>1. i > 1 => i - 1 \in 1 .. n
      BY <1>3, <2>1
    <3> QED
      BY <1>3, <1>4, <2>1, <3>1 DEF Walked
  <2>2. CASE i = n + 1
    <3>1. more[i] = e
      BY <1>3, <2>2
    <3>2. i = 1 => open.type = "to_parking"
      BY <1>3, <1>4, <1>5, <2>2 DEF Continues
    <3>3. i > 1 => open.type \in SearchSegments /\ open.start = segments[n].finish
      BY <1>3, <1>4, <1>5, <2>2 DEF Continues, n
    <3>4. i > 1 => more[i - 1] = segments[n]
      BY <1>3, <2>2
    <3> QED
      BY <1>1, <1>2, <3>1, <3>2, <3>3, <3>4
  <2> QED
    BY <1>3, <2>1, <2>2
<1>7. LotReached(None, more, arrival, t)
  <2>1. arrival # None => arrival <= t
    BY <1>4 DEF LotReached
  <2>2. ASSUME n + 1 > 1 PROVE arrival # None /\ arrival <= more[1].finish
    <3>1. n > 1 \/ n = 1
      BY <1>3, <2>2
    <3>2. more[1] = segments[1]
      BY <1>3, <2>2
    <3> QED
      BY <1>1, <1>4, <3>1, <3>2 DEF LotReached, n
  <2> QED
    BY <1>3, <2>1, <2>2 DEF LotReached
<1>8. Journey(None, more, arrival, t)
  BY <1>3, <1>6, <1>7 DEF Journey
<1> QED
  BY <1>2, <1>3, <1>8 DEF more, n, e

\* ... and a search segment begins.
LEMMA JourneyTurns ==
  ASSUME OutputsAssumption, NEW r \in Record, NEW s \in Record, NEW t \in Nat,
         r.open # None, NEW arrival \in Nat, arrival <= t,
         Journey(r.open, r.segments, arrival, t),
         NEW type \in SearchSegments, Turned(r, s, t, type)
  PROVE  s.open # None /\ Journey(s.open, s.segments, arrival, t)
<1>0. r.open \in Segment /\ r.segments \in Seq(EndedSegment) /\ arrival \in Times /\ arrival # None
  BY DEF Record, Times, OutputsAssumption
<1>1. CASE s.open = r.open /\ s.segments = r.segments
  BY <1>1
<1>2. CASE /\ s.segments = Append(r.segments, Ended(r.open, t, "completed"))
           /\ s.open # None /\ s.open.type = type /\ s.open.start = t
  <2> DEFINE n == Len(r.segments)
             e == Ended(r.open, t, "completed")
             more == s.segments
  <2>1. /\ e.finish = t /\ Len(more) = n + 1 /\ n \in Nat
        /\ \A i \in 1 .. n : more[i] = r.segments[i]
        /\ more[n + 1] = e
        /\ Journey(None, more, arrival, t)
    BY <1>0, <1>2, JourneyCloses
  <2> HIDE DEF e, more, n
  <2>2. Continues(s.open, more, t)
    BY <1>2, <2>1 DEF Continues
  <2>3. LotReached(s.open, more, arrival, t)
    <3>1. CASE n = 0
      BY <1>0, <2>1, <3>1 DEF LotReached
    <3>2. CASE n # 0
      BY <2>1, <3>2 DEF LotReached, Journey
    <3> QED
      BY <3>1, <3>2
  <2> QED
    BY <1>2, <2>1, <2>2, <2>3 DEF Journey, more
<1> QED
  BY <1>1, <1>2 DEF Turned

\* The segments of the search add up to the time it took.
LEMMA SearchAddsUp ==
  ASSUME NEW r \in Record, NEW t \in Nat,
         Walked(r.segments, Len(r.segments), t)
  PROVE  SearchDuration(r) = Elapsed(r.segments) /\ Elapsed(r.segments) \in Int
<1> DEFINE seq == r.segments
           n == Len(seq)
           S == Searched(seq)
           g == [i \in S |-> Elapses(seq[i])]
<1>1. seq \in Seq(EndedSegment) /\ n \in Nat /\ DOMAIN seq = 1 .. n
  BY DEF Record
<1>2. \A i \in 1 .. n : seq[i].finish \in Nat /\ seq[i].segment.start \in Nat
  BY <1>1, SegmentFacts
<1>3. S = 2 .. n
  <2>1. \A i \in 1 .. n : i > 1 <=> seq[i].segment.type \in SearchSegments
    BY DEF Walked, SearchSegments
  <2> QED
    BY <1>1, <2>1 DEF Searched
<1>4. \A i \in 2 .. n : i \in 1 .. n /\ i - 1 \in 1 .. n
  BY <1>1
<1>5. \A i \in 2 .. n : g[i] = seq[i].finish - seq[i - 1].finish
  BY <1>3, <1>4 DEF Walked, Elapses
<1>6. DOMAIN g = 2 .. n /\ IsFiniteSet(DOMAIN g) /\ \A i \in DOMAIN g : g[i] \in Int
  <2>1. IsFiniteSet(2 .. n)
    BY <1>1, FS_Interval
  <2>2. DOMAIN g = 2 .. n
    BY <1>3
  <2> HIDE DEF g
  <2>3. ASSUME NEW i \in 2 .. n PROVE g[i] \in Int
    <3>1. seq[i].finish \in Nat /\ seq[i - 1].finish \in Nat
      BY <1>2, <1>4
    <3> HIDE DEF seq
    <3> QED
      BY <1>5, <3>1
  <2> QED
    BY <2>1, <2>2, <2>3
<1>7. SearchDuration(r) = SumFunction(g)
  BY DEF SearchDuration
<1> HIDE DEF g, S
<1>8. PICK f : Adding(g, f) /\ SumFunction(g) = f[DOMAIN g]
  BY <1>6, SumAdds
<1>a. \A u \in SUBSET (DOMAIN g) : \A x \in u : f[u] = g[x] + f[u \ {x}]
  <2> TAKE u \in SUBSET (DOMAIN g)
  <2>1. IsFiniteSet(DOMAIN g) /\ Adding(g, f) /\ \A x \in DOMAIN g : g[x] \in Int
    BY <1>6, <1>8
  <2> QED
    BY ONLY <2>1, u \in SUBSET (DOMAIN g), AnyOrder
<1>9. \A m \in 1 .. n : f[2 .. m] = seq[m].finish - seq[1].finish
  <2> DEFINE Bad == {m \in 1 .. n : f[2 .. m] # seq[m].finish - seq[1].finish}
  <2> SUFFICES ASSUME Bad # {} PROVE FALSE
    OBVIOUS
  <2>1. PICK m \in Bad : \A o \in Bad : m <= o
    <3>1. Bad \subseteq Nat
      BY <1>1
    <3> HIDE DEF Bad
    <3> QED
      BY <3>1, LeastNumber
  <2>2. m \in 1 .. n /\ f[2 .. m] # seq[m].finish - seq[1].finish
    OBVIOUS
  <2>3. CASE m = 1
    <3>1. 2 .. m = {}
      BY <2>3
    <3>2. f[{}] = 0
      BY <1>8 DEF Adding
    <3> QED
      BY <1>2, <2>2, <2>3, <3>1, <3>2
  <2>4. CASE m # 1
    <3>1. m \in 2 .. n /\ m - 1 \in 1 .. n /\ m - 1 \notin Bad
      BY <1>1, <2>1, <2>2, <2>4
    <3>2. f[2 .. (m - 1)] = seq[m - 1].finish - seq[1].finish
      BY <3>1
    <3>3. 2 .. m \in SUBSET (DOMAIN g) /\ m \in 2 .. m /\ (2 .. m) \ {m} = 2 .. (m - 1)
      BY <1>1, <1>6, <3>1
    <3>4. f[2 .. m] = g[m] + f[2 .. (m - 1)]
      <4> DEFINE u == 2 .. m
      <4>1. u \in SUBSET (DOMAIN g) /\ m \in u /\ u \ {m} = 2 .. (m - 1)
        BY <3>3
      <4> HIDE DEF u
      <4>2. \A x \in u : f[u] = g[x] + f[u \ {x}]
        BY <1>a, <4>1
      <4>3. f[u] = g[m] + f[2 .. (m - 1)]
        BY <4>1, <4>2
      <4> QED
        BY <4>3 DEF u
    <3>5. seq[m].finish \in Nat /\ seq[m - 1].finish \in Nat /\ seq[1].finish \in Nat
      BY <1>1, <1>2, <3>1
    <3>6. g[m] = seq[m].finish - seq[m - 1].finish
      BY <1>5, <3>1
    <3>7. f[2 .. m] = seq[m].finish - seq[1].finish
      <4> DEFINE x == seq[m].finish
                 y == seq[m - 1].finish
                 z == seq[1].finish
      <4>1. x \in Nat /\ y \in Nat /\ z \in Nat
        BY <3>5
      <4>2. f[2 .. m] = (x - y) + (y - z)
        BY <3>2, <3>4, <3>6
      <4> HIDE DEF x, y, z
      <4>3. (x - y) + (y - z) = x - z
        BY <4>1
      <4>4. f[2 .. m] = x - z
        BY <4>2, <4>3
      <4> QED
        BY <4>4 DEF x, z
    <3> QED
      BY <2>2, <3>7
  <2> QED
    BY <2>3, <2>4
<1>10. CASE n = 0
  <2>1. 2 .. n = {} /\ seq = <<>>
    BY <1>1, <1>10
  <2>2. f[{}] = 0
    BY <1>8 DEF Adding
  <2> QED
    BY <1>6, <1>7, <1>8, <2>1, <2>2 DEF Elapsed
<1>11. CASE n # 0
  <2>1. n \in 1 .. n /\ seq # <<>>
    BY <1>1, <1>11
  <2>2. f[2 .. n] = seq[n].finish - seq[1].finish
    BY <1>9, <2>1
  <2>3. seq[n].finish \in Nat /\ seq[1].finish \in Nat
    BY <1>1, <1>2, <2>1
  <2> QED
    BY <1>6, <1>7, <1>8, <2>1, <2>2, <2>3 DEF Elapsed
<1> QED
  BY <1>10, <1>11

(***************************************************************************)
(* What the handlers make of a driver on its way.                          *)
(***************************************************************************)
LEMMA GoingLater ==
  ASSUME OutputsAssumption, NEW t \in Nat, NEW u \in Nat, t <= u, NEW r, Going(r, t)
  PROVE  Going(r, u)
BY JourneyLater DEF Going, Record

LEMMA UnservedLater ==
  ASSUME OutputsAssumption, NEW t \in Nat, NEW u \in Nat, t <= u, NEW r, Unserved(r, t)
  PROVE  Unserved(r, u)
BY JourneyLater DEF Unserved, Record

LEMMA FreshRecord ==
  ASSUME OutputsAssumption, NEW v \in Drivers
  PROVE  Fresh(v) \in Record
<1>1. <<>> \in Seq(EndedSegment)
  OBVIOUS
<1> QED
  BY <1>1 DEF Fresh, Record, Statuses, Times, OutputsAssumption

LEMMA ActiveGoing ==
  ASSUME OutputsAssumption, NEW v \in Drivers, NEW t \in Nat
  PROVE  Going(MarkActive(Fresh(v), t), t)
<1> DEFINE a == [Fresh(v) EXCEPT !.status = "active"]
           s == Transition(a, t, "to_parking", a.target, None, None)
<1>1. MarkActive(Fresh(v), t) = s
  BY DEF MarkActive, Fresh, ActiveStatuses
<1>2. /\ a \in Record /\ a.open = None /\ a.segments = <<>> /\ a.arrival = None
      /\ a.search = None /\ a.status = "active" /\ a.target \in Lots
  BY FreshRecord DEF Fresh, Record, Statuses, OutputsAssumption
<1> HIDE DEF a
<1>3. s \in Record /\ SameBooks(a, s) /\ Turned(a, s, t, "to_parking")
  BY <1>2, TransitionDoes DEF SegmentTypes
<1> HIDE DEF s
<1>4. s.open # None /\ s.open.type = "to_parking" /\ s.open.start = t /\ s.segments = <<>>
  BY <1>2, <1>3 DEF Turned
<1>5. Journey(s.open, s.segments, s.arrival, t)
  <2>1. Walked(<<>>, Len(<<>>), t)
    BY DEF Walked
  <2>2. Continues(s.open, <<>>, t)
    BY <1>4 DEF Continues
  <2>3. LotReached(s.open, <<>>, None, t)
    BY DEF LotReached
  <2> QED
    BY <1>2, <1>3, <1>4, <2>1, <2>2, <2>3 DEF Journey, SameBooks
<1> QED
  BY <1>1, <1>2, <1>3, <1>4, <1>5 DEF Going, SameBooks

\* A driver on its way turns into a search segment.
LEMMA TurnGoing ==
  ASSUME OutputsAssumption, NEW t \in Nat, NEW r \in Record, Going(r, t),
         NEW s, NEW type \in SearchSegments,
         NEW b \in Record, b.open = r.open, b.segments = r.segments, b.search = r.search,
         b.arrival = (IF r.arrival = None THEN t ELSE r.arrival), b.status # "unserved",
         s \in Record, SameBooks(b, s), Turned(b, s, t, type)
  PROVE  Going(s, t)
<1>0. r.open \in Segment \cup {None} /\ r.segments \in Seq(EndedSegment) /\ r.arrival \in Times
  BY DEF Record
<1>1. /\ b.arrival \in Nat /\ b.arrival <= t
      /\ Journey(b.open, b.segments, b.arrival, t)
  BY <1>0, JourneyArrives DEF Going
<1>2. b.open # None
  BY DEF Going
<1>3. s.open # None /\ Journey(s.open, s.segments, b.arrival, t)
  BY <1>1, <1>2, JourneyTurns
<1> QED
  BY <1>3 DEF Going, SameBooks

LEMMA InsideGoing ==
  ASSUME OutputsAssumption, NEW t \in Nat, NEW r, Going(r, t)
  PROVE  /\ Going(MarkInside(r, t), t)
         /\ MarkInside(r, t).target = r.target
         /\ MarkInside(r, t).open.type = "inside_parking"
         /\ MarkInside(r, t).segments # <<>>
<1> DEFINE b == [r EXCEPT !.arrival = IF @ = None THEN t ELSE @, !.status = "searching"]
           s == Transition(b, t, "inside_parking", r.target, None, None)
<1>0. r \in Record
  BY DEF Going
<1>1. r.open # None /\ r.open.type # "parked"
  BY DEF Going, Journey, Continues, SearchSegments
<1>2. MarkInside(r, t) = s
  BY <1>1 DEF MarkInside
<1>3. /\ b \in Record /\ b.open = r.open /\ b.segments = r.segments /\ b.search = r.search
      /\ b.arrival = (IF r.arrival = None THEN t ELSE r.arrival)
      /\ b.status = "searching" /\ b.target = r.target
  <2> DEFINE came == IF r.arrival = None THEN t ELSE r.arrival
             r1 == [r EXCEPT !.arrival = came]
  <2>1. came \in Times
    BY <1>0 DEF Record, Times
  <2>2. r1 \in Record /\ r1.open = r.open /\ r1.segments = r.segments
        /\ r1.search = r.search /\ r1.arrival = came /\ r1.target = r.target
    <3> HIDE DEF came
    <3> QED
      BY <1>0, <2>1 DEF Record
  <2>3. b = [r1 EXCEPT !.status = "searching"] /\ "searching" \in Statuses
    BY <1>0 DEF Record, Statuses
  <2> HIDE DEF r1, b
  <2>4. b \in Record /\ b.open = r1.open /\ b.segments = r1.segments
        /\ b.search = r1.search /\ b.arrival = r1.arrival /\ b.status = "searching"
        /\ b.target = r1.target
    BY <2>2, <2>3 DEF Record
  <2> QED
    BY <2>2, <2>4
<1>4. r.target \in Lots
  BY <1>0 DEF Record
<1> HIDE DEF b
<1>5. s \in Record /\ SameBooks(b, s) /\ Turned(b, s, t, "inside_parking")
  BY <1>3, <1>4, TransitionDoes DEF SegmentTypes
<1> HIDE DEF s
<1>6. Going(s, t)
  BY <1>0, <1>3, <1>5, TurnGoing DEF SearchSegments
<1>7. s.target = r.target /\ s.open.type = "inside_parking"
  BY <1>3, <1>5 DEF SameBooks, Turned
<1>8. s.segments # <<>>
  BY <1>6, <1>7 DEF Going, Journey, Continues
<1> QED
  BY <1>2, <1>6, <1>7, <1>8

LEMMA AttemptGoing ==
  ASSUME OutputsAssumption, NEW t \in Nat, NEW r, Going(r, t), NEW lot \in Lots
  PROVE  /\ Going(MarkAttempt(r, t, lot), t)
         /\ MarkAttempt(r, t, lot).arrival # None
         /\ MarkAttempt(r, t, lot).target = r.target
<1> DEFINE s == MarkAttempt(r, t, lot)
<1>1. r \in Record /\ r.arrival \in Times
  BY DEF Going, Record
<1>2. /\ s \in Record /\ s.open = r.open /\ s.segments = r.segments /\ s.search = r.search
      /\ s.arrival = (IF r.arrival = None THEN t ELSE r.arrival)
      /\ s.status = r.status /\ s.target = r.target
  <2> DEFINE came == IF r.arrival = None THEN t ELSE r.arrival
             tried == r.attempted \cup {lot}
  <2>1. came \in Times /\ tried \in SUBSET Lots
    BY <1>1 DEF Record, Times
  <2>2. s = [r EXCEPT !.arrival = came, !.attempted = tried]
    BY <1>1 DEF MarkAttempt, Record
  <2>3. came = (IF r.arrival = None THEN t ELSE r.arrival)
    OBVIOUS
  <2> HIDE DEF came, tried, s
  <2> QED
    BY <1>1, <2>1, <2>2, <2>3 DEF Record
<1> HIDE DEF s
<1>3. s.arrival \in Nat /\ Journey(s.open, s.segments, s.arrival, t)
  BY <1>1, <1>2, JourneyArrives DEF Going, Record
<1>4. Going(s, t) /\ s.arrival # None
  BY <1>2, <1>3 DEF Going, OutputsAssumption
<1> QED
  BY <1>2, <1>4 DEF s

LEMMA TargetGoing ==
  ASSUME OutputsAssumption, NEW t \in Nat, NEW r, Going(r, t), r.arrival # None,
         NEW lot \in Lots
  PROVE  /\ Going(MarkTargetChanged(r, t, lot), t)
         /\ MarkTargetChanged(r, t, lot).target = lot
         /\ MarkTargetChanged(r, t, lot).arrival # None
<1> DEFINE b == [r EXCEPT !.rerouted = IF @ = None THEN t ELSE @,
                          !.target = lot, !.changes = @ + 1, !.status = "between"]
           s == Transition(b, t, "between_parkings", lot, None, r.target)
<1>0. r \in Record
  BY DEF Going
<1>1. CASE r.target = lot
  BY <1>1 DEF MarkTargetChanged
<1>2. CASE r.target # lot
  <2>1. MarkTargetChanged(r, t, lot) = s
    BY <1>2 DEF MarkTargetChanged
  <2>2. /\ b \in Record /\ b.open = r.open /\ b.segments = r.segments /\ b.search = r.search
        /\ b.arrival = r.arrival /\ b.status = "between" /\ b.target = lot
    <3> DEFINE first == IF r.rerouted = None THEN t ELSE r.rerouted
               more == r.changes + 1
    <3>1. first \in Times /\ more \in Nat
      BY <1>0 DEF Record, Times
    <3>2. b = [r EXCEPT !.rerouted = first, !.target = lot, !.changes = more,
                        !.status = "between"]
      BY <1>0 DEF Record
    <3> HIDE DEF first, more, b
    <3> QED
      BY <1>0, <3>1, <3>2 DEF Record, Statuses
  <2>3. r.target \in Lots
    BY <1>0 DEF Record
  <2> HIDE DEF b
  <2>4. s \in Record /\ SameBooks(b, s) /\ Turned(b, s, t, "between_parkings")
    BY <2>2, <2>3, TransitionDoes DEF SegmentTypes
  <2> HIDE DEF s
  <2>5. Going(s, t)
    BY <1>0, <2>2, <2>4, TurnGoing DEF SearchSegments
  <2> QED
    BY <2>1, <2>2, <2>4, <2>5 DEF SameBooks
<1> QED
  BY <1>1, <1>2

LEMMA AssignedGoing ==
  ASSUME OutputsAssumption, NEW t \in Nat, NEW r, Going(r, t), NEW a \in Areas
  PROVE  Going(MarkAssigned(r, a), t) /\ MarkAssigned(r, a).target = r.target
<1> DEFINE s == MarkAssigned(r, a)
<1>1. r \in Record
  BY DEF Going
<1>2. /\ s \in Record /\ s.open = r.open /\ s.segments = r.segments /\ s.search = r.search
      /\ s.arrival = r.arrival /\ s.status = "assigned" /\ s.target = r.target
  BY <1>1 DEF MarkAssigned, Record, Statuses
<1> QED
  BY <1>2 DEF Going

LEMMA RefusedGoing ==
  ASSUME NEW t \in Nat, NEW r, Going(r, t), NEW lots \in SUBSET Lots
  PROVE  LET s == [r EXCEPT !.rejected = @ \cup lots]
         IN  Going(s, t) /\ s.target = r.target /\ s.arrival = r.arrival
<1> DEFINE s == [r EXCEPT !.rejected = @ \cup lots]
<1>1. r \in Record
  BY DEF Going
<1>2. /\ s \in Record /\ s.open = r.open /\ s.segments = r.segments /\ s.search = r.search
      /\ s.arrival = r.arrival /\ s.status = r.status /\ s.target = r.target
  BY <1>1 DEF Record
<1> QED
  BY <1>2 DEF Going

\* The search of a driver that finds nothing ends with its last segment.
LEMMA UnservedEnds ==
  ASSUME OutputsAssumption, NEW t \in Nat, NEW r, Going(r, t)
  PROVE  Unserved(MarkUnserved(r, t), t)
<1> DEFINE c == Close(r, t, "unserved")
           s == MarkUnserved(r, t)
<1>1. r \in Record /\ r.open \in Segment /\ r.segments \in Seq(EndedSegment) /\ r.arrival \in Times
  BY DEF Going, Record
<1>2. /\ c \in Record /\ SameBooks(r, c) /\ c.open = None
      /\ c.segments = Append(r.segments, Ended(r.open, t, "unserved"))
  BY <1>1, CloseDoes DEF Going
<1>3. Journey(c.open, c.segments, c.arrival, t)
  <2>1. Journey(r.open, r.segments, r.arrival, t)
    BY DEF Going
  <2>2. Journey(None, Append(r.segments, Ended(r.open, t, "unserved")), r.arrival, t)
    BY <1>1, <2>1, JourneyCloses
  <2> QED
    BY <1>2, <2>2 DEF SameBooks
<1>4. SearchDuration(c) = Elapsed(c.segments) /\ Elapsed(c.segments) \in Int
  BY <1>2, <1>3, SearchAddsUp DEF Journey
<1>5. s = [c EXCEPT !.search = Elapsed(c.segments), !.status = "unserved"]
  BY <1>4 DEF MarkUnserved
<1> HIDE DEF c
<1>6. /\ s \in Record /\ s.open = c.open /\ s.segments = c.segments /\ s.arrival = c.arrival
      /\ s.search = Elapsed(c.segments) /\ s.status = "unserved"
  BY <1>2, <1>4, <1>5 DEF Record, Statuses
<1> QED
  BY <1>2, <1>3, <1>6 DEF Unserved

(***************************************************************************)
(* The stop, and what is recorded after it.                                *)
(***************************************************************************)
LEMMA ParkedStops ==
  ASSUME OutputsAssumption, NEW t \in Nat, NEW r, Going(r, t),
         r.open.type = "inside_parking", r.segments # <<>>, NEW a \in Areas
  PROVE  /\ Stopped(MarkParked(r, t, a))
         /\ MarkParked(r, t, a).target = r.target
<1> DEFINE b == [r EXCEPT !.parkedAt = t, !.final = a, !.status = "parked"]
           p == Transition(b, t, "parked", r.target, a, None)
           s == MarkParked(r, t, a)
           e == Ended(r.open, t, "completed")
<1>1. /\ r \in Record /\ r.open \in Segment /\ r.segments \in Seq(EndedSegment)
      /\ r.arrival \in Times /\ r.target \in Lots /\ r.open # None
  BY DEF Going, Record
<1>2. /\ b \in Record /\ b.open = r.open /\ b.segments = r.segments /\ b.target = r.target
      /\ b.parkedAt = t /\ b.status = "parked" /\ b.arrival = r.arrival
  BY <1>1 DEF Record, Times, Statuses
<1> HIDE DEF b
<1>3. p \in Record /\ SameBooks(b, p) /\ Turned(b, p, t, "parked")
  BY <1>1, <1>2, TransitionDoes DEF SegmentTypes
<1>4. s = [p EXCEPT !.search = SearchDuration(p)]
  BY DEF MarkParked, b
<1> HIDE DEF p, s
<1>5. /\ p.segments = Append(r.segments, e) /\ p.open # None
      /\ p.open.type = "parked" /\ p.open.start = t
  BY <1>1, <1>2, <1>3 DEF Turned
<1> DEFINE n == Len(r.segments)
<1>6. /\ e.finish = t /\ Len(p.segments) = n + 1
      /\ \A i \in 1 .. n : p.segments[i] = r.segments[i]
      /\ p.segments[n + 1] = e
      /\ Journey(None, p.segments, r.arrival, t)
  <2>1. Journey(r.open, r.segments, r.arrival, t)
    BY DEF Going
  <2> QED
    BY <1>1, <1>5, <2>1, JourneyCloses
<1>7. n \in Nat \ {0}
  BY <1>1
<1> HIDE DEF n, e
<1>8. Walked(p.segments, n + 1, t)
  BY <1>6 DEF Journey
<1>9. SearchDuration(p) = t - p.segments[1].finish /\ SearchDuration(p) \in Int
  <2>1. SearchDuration(p) = Elapsed(p.segments) /\ Elapsed(p.segments) \in Int
    BY <1>3, <1>6, <1>8, SearchAddsUp
  <2>2. p.segments # <<>>
    BY <1>6, <1>7
  <2> QED
    BY <1>6, <2>1, <2>2 DEF Elapsed
<1>10. /\ s \in Record /\ s.open = p.open /\ s.segments = p.segments
       /\ s.search = t - p.segments[1].finish
       /\ s.parkedAt = t /\ s.arrival = r.arrival /\ s.status = "parked" /\ s.target = r.target
  BY <1>2, <1>3, <1>4, <1>9 DEF Record, SameBooks
<1>11. r.arrival # None /\ r.arrival <= p.segments[1].finish
  BY <1>6, <1>7 DEF Journey, LotReached
<1>12. StopAfter(s, n + 1)
  BY <1>5, <1>6, <1>7, <1>8, <1>10, <1>11 DEF StopAfter
<1>13. n + 1 \in 2 .. Len(s.segments)
  BY <1>6, <1>7, <1>10
<1> QED
  BY <1>10, <1>12, <1>13 DEF Stopped, OutputsAssumption, s

\* What comes later leaves the journey to the stop alone.
LEMMA StoppedStays ==
  ASSUME OutputsAssumption, NEW r, Stopped(r), NEW s \in Record,
         s.parkedAt = r.parkedAt, s.search = r.search, s.arrival = r.arrival,
         s.status # "unserved", NEW e \in EndedSegment,
         \/ s.open = r.open /\ s.segments = r.segments
         \/ r.open = None /\ s.segments = r.segments
         \/ r.open # None /\ s.segments = Append(r.segments, e) /\ e.segment = r.open
  PROVE  Stopped(s)
<1>1. PICK k \in 2 .. Len(r.segments) : StopAfter(r, k)
  BY DEF Stopped
<1>2. r \in Record /\ r.segments \in Seq(EndedSegment)
  BY DEF Stopped, Record
<1>3. CASE s.segments = r.segments
  <2>1. Len(r.segments) = k => s.open = r.open
    BY <1>1, <1>3 DEF StopAfter
  <2>2. StopAfter(s, k)
    BY <1>1, <1>3, <2>1 DEF StopAfter
  <2> QED
    BY <1>1, <1>3, <2>2 DEF Stopped
<1>4. CASE r.open # None /\ s.segments = Append(r.segments, e) /\ e.segment = r.open
  <2> DEFINE n == Len(r.segments)
  <2>1. /\ n \in Nat /\ Len(s.segments) = n + 1
        /\ \A i \in 1 .. n : s.segments[i] = r.segments[i]
        /\ s.segments[n + 1] = e
    BY <1>2, <1>4
  <2>2. k \in 2 .. n
    BY <1>1
  <2> HIDE DEF n
  <2>3. Walked(s.segments, k, s.parkedAt)
    <3>1. Walked(r.segments, k, r.parkedAt)
      BY <1>1 DEF StopAfter
    <3>2. \A i \in 1 .. k : s.segments[i] = r.segments[i] /\ (i > 1 => s.segments[i - 1] = r.segments[i - 1])
      BY <2>1, <2>2
    <3> QED
      BY <3>1, <3>2 DEF Walked
  <2>4. s.segments[k] = r.segments[k] /\ s.segments[1] = r.segments[1]
    BY <2>1, <2>2
  <2>5. /\ s.segments[k + 1].segment.type = "parked"
        /\ s.segments[k + 1].segment.start = r.parkedAt
    <3>1. CASE k = n
      BY <1>1, <1>4, <2>1, <3>1 DEF StopAfter, n
    <3>2. CASE k # n
      <4>1. n > k /\ k + 1 \in 1 .. n
        BY <2>1, <2>2, <3>2
      <4> QED
        BY <1>1, <2>1, <4>1 DEF StopAfter, n
    <3> QED
      BY <3>1, <3>2
  <2>6. Len(s.segments) > k
    BY <2>1, <2>2
  <2>7. StopAfter(s, k)
    BY <1>1, <2>2, <2>3, <2>4, <2>5, <2>6 DEF StopAfter
  <2>8. k \in 2 .. Len(s.segments)
    BY <2>1, <2>2
  <2> QED
    BY <2>7, <2>8 DEF Stopped
<1> QED
  BY <1>3, <1>4

LEMMA StoppedSearch ==
  ASSUME OutputsAssumption, NEW r, Stopped(r)
  PROVE  r.search # None /\ r.arrival # None /\ r.parkedAt \in Nat
<1>1. PICK k \in 2 .. Len(r.segments) : StopAfter(r, k)
  BY DEF Stopped
<1>2. r.segments \in Seq(EndedSegment) /\ r.parkedAt \in Nat
  BY DEF Stopped, Record, Times
<1>3. 1 \in 1 .. Len(r.segments)
  BY <1>1
<1>4. r.segments[1].finish \in Nat
  BY <1>2, <1>3, SegmentFacts
<1>5. r.search \in Int
  BY <1>1, <1>2, <1>4 DEF StopAfter
<1> QED
  BY <1>1, <1>2, <1>5 DEF StopAfter, OutputsAssumption

LEMMA InsideStopped ==
  ASSUME OutputsAssumption, NEW t \in Nat, NEW r, Stopped(r)
  PROVE  Stopped(MarkInside(r, t)) /\ MarkInside(r, t).target = r.target
<1> DEFINE b == [r EXCEPT !.arrival = IF @ = None THEN t ELSE @, !.status = "searching"]
           s == Transition(b, t, "inside_parking", r.target, None, None)
<1>0. r \in Record
  BY DEF Stopped
<1>1. CASE r.open # None /\ r.open.type = "parked"
  BY <1>1 DEF MarkInside
<1>2. CASE ~ (r.open # None /\ r.open.type = "parked")
  <2>1. MarkInside(r, t) = s
    BY <1>2 DEF MarkInside
  <2>2. /\ b \in Record /\ b.open = r.open /\ b.segments = r.segments /\ b.search = r.search
        /\ b.arrival = r.arrival /\ b.parkedAt = r.parkedAt
        /\ b.status = "searching" /\ b.target = r.target
    BY <1>0, StoppedSearch DEF Record, Times, Statuses
  <2>3. r.target \in Lots /\ r.open \in Segment \cup {None}
    BY <1>0 DEF Record
  <2> HIDE DEF b
  <2>4. s \in Record /\ SameBooks(b, s) /\ Turned(b, s, t, "inside_parking")
    BY <2>2, <2>3, TransitionDoes DEF SegmentTypes
  <2> HIDE DEF s
  <2> DEFINE e == Ended(r.open, t, "completed")
  <2>5. r.open # None => e \in EndedSegment /\ e.segment = r.open
    <3>1. r.open # None => e \in EndedSegment
      BY <2>3, EndedType
    <3> QED
      BY <3>1 DEF Ended
  <2>6. PICK d \in EndedSegment : r.open # None => d = e
    <3>1. \E d : d \in EndedSegment
      <4>1. \E k : k \in 2 .. Len(r.segments)
        BY DEF Stopped
      <4>2. r.segments \in Seq(EndedSegment)
        BY <1>0 DEF Record
      <4>3. 1 \in 1 .. Len(r.segments)
        BY <4>1, <4>2
      <4>4. r.segments[1] \in EndedSegment
        BY <4>2, <4>3
      <4> QED
        BY <4>4
    <3> QED
      BY <2>5, <3>1
  <2> HIDE DEF e
  <2>7. \/ s.open = r.open /\ s.segments = r.segments
        \/ r.open = None /\ s.segments = r.segments
        \/ r.open # None /\ s.segments = Append(r.segments, d) /\ d.segment = r.open
    BY <2>2, <2>4, <2>5, <2>6 DEF Turned, e
  <2>8. Stopped(s)
    BY <2>2, <2>4, <2>7, StoppedStays DEF SameBooks
  <2> QED
    BY <2>1, <2>2, <2>4, <2>8 DEF SameBooks
<1> QED
  BY <1>1, <1>2

LEMMA CloseStopped ==
  ASSUME OutputsAssumption, NEW t \in Nat, NEW r, Stopped(r),
         NEW outcome \in {"completed", "unserved", "simulation_ended"}
  PROVE  Stopped(Close(r, t, outcome))
<1> DEFINE s == Close(r, t, outcome)
           e == Ended(r.open, t, outcome)
<1>1. r \in Record /\ r.open \in Segment \cup {None}
  BY DEF Stopped, Record
<1>2. /\ s \in Record /\ SameBooks(r, s)
      /\ s.segments = IF r.open = None THEN r.segments ELSE Append(r.segments, e)
  BY <1>1, CloseDoes
<1>3. CASE r.open = None
  BY <1>3 DEF Close
<1>4. CASE r.open # None
  <2>1. e \in EndedSegment
    BY <1>1, <1>4, EndedType
  <2>2. e.segment = r.open
    BY DEF Ended
  <2>3. s.status # "unserved"
    BY <1>2 DEF SameBooks, Stopped
  <2> HIDE DEF s, e
  <2>4. Stopped(s)
    BY <1>2, <1>4, <2>1, <2>2, <2>3, StoppedStays DEF SameBooks
  <2> QED
    BY <2>4 DEF s
<1> QED
  BY <1>3, <1>4

LEMMA EndedStopped ==
  ASSUME OutputsAssumption, NEW t \in Nat, NEW r, Stopped(r)
  PROVE  Stopped(MarkParkingEnded(r, t))
<1> DEFINE c == Close(r, t, "completed")
           s == MarkParkingEnded(r, t)
<1>1. Stopped(c) /\ c \in Record
  BY CloseStopped DEF Stopped
<1>2. s = [c EXCEPT !.status = "completed"]
  BY DEF MarkParkingEnded
<1> HIDE DEF c
<1>3. /\ s \in Record /\ s.open = c.open /\ s.segments = c.segments /\ s.search = c.search
      /\ s.arrival = c.arrival /\ s.parkedAt = c.parkedAt /\ s.status = "completed"
  BY <1>1, <1>2 DEF Record, Statuses
<1> QED
  BY <1>1, <1>3 DEF Stopped, StopAfter

(***************************************************************************)
(* A driver at the next second.                                            *)
(***************************************************************************)
LEMMA LifeTypes ==
  ASSUME OutputsAssumption, NEW v \in Drivers, NEW at, NEW in, NEW r, NEW given, NEW done,
         NEW t \in Nat, Life(v, at, in, r, given, done, t)
  PROVE  r \in Record /\ at \in Places
BY FreshRecord DEF Life, Going, Unserved, Stopped, Places

LEMMA LifeLater ==
  ASSUME OutputsAssumption, NEW v \in Drivers, NEW at, NEW in, NEW r, NEW given, NEW done,
         NEW t \in Nat, Life(v, at, in, r, given, done, t)
  PROVE  Life(v, at, in, r, given, done, t + 1)
<1>1. t + 1 \in Nat /\ t <= t + 1
  OBVIOUS
<1> QED
  BY <1>1, GoingLater, UnservedLater DEF Life

\* A vehicle that stays in the aisle is marked again.
LEMMA LifeSeen ==
  ASSUME OutputsAssumption, NEW v \in Drivers, NEW in, NEW r, NEW given, NEW done,
         NEW t \in Nat, Life(v, "aisle", in, r, given, done, t)
  PROVE  Life(v, "aisle", in, MarkInside(r, t + 1), given, done, t + 1)
<1>0. t + 1 \in Nat /\ t <= t + 1
  OBVIOUS
<1>1. CASE in = None /\ ~done /\ Going(r, t) /\ Heads(r, given)
  <2>1. Going(r, t + 1)
    BY <1>0, <1>1, GoingLater
  <2> QED
    BY <1>0, <1>1, <2>1, InsideGoing DEF Life, Heads
<1>2. CASE in # None /\ given = None /\ done /\ Stopped(r)
  BY <1>0, <1>2, InsideStopped DEF Life
<1> QED
  BY <1>1, <1>2 DEF Life

\* A vehicle that SUMO does not move.
LEMMA LifeWaits ==
  ASSUME OutputsAssumption, NEW v \in Drivers, NEW at, NEW in, NEW r, NEW given, NEW done,
         NEW t \in Nat, Life(v, at, in, r, given, done, t)
  PROVE  Life(v, at, in, IF at = "aisle" THEN MarkInside(r, t + 1) ELSE r, given, done, t + 1)
BY LifeLater, LifeSeen

\* Rows that are no stop of v change nothing that is logged of v.
LEMMA LoggedMore ==
  ASSUME NEW log \in Seq(EventRow), NEW rows \in Seq(EventRow), NEW v \in Drivers, NEW in,
         Logged(log, v, in), \A i \in DOMAIN rows : ~ Parking(rows[i], v)
  PROVE  Logged(log \o rows, v, in)
<1> DEFINE more == log \o rows
           m == Len(log)
           n == Len(rows)
<1>1. /\ m \in Nat /\ n \in Nat /\ DOMAIN log = 1 .. m /\ DOMAIN rows = 1 .. n
      /\ DOMAIN more = 1 .. (m + n)
      /\ \A i \in 1 .. (m + n) : more[i] = IF i <= m THEN log[i] ELSE rows[i - m]
  OBVIOUS
<1> HIDE DEF more, m, n
<1>2. \A i \in DOMAIN more : i \in DOMAIN log \/ i - m \in DOMAIN rows
  BY <1>1
<1>3. ASSUME NEW i \in DOMAIN more, Parking(more[i], v)
      PROVE  in # None /\ more[i].lot = LotOf[in]
  <2>1. CASE i <= m
    <3>1. i \in DOMAIN log /\ more[i] = log[i]
      BY <1>1, <2>1
    <3> QED
      BY <1>3, <3>1 DEF Logged
  <2>2. CASE ~ (i <= m)
    <3>1. i - m \in DOMAIN rows /\ more[i] = rows[i - m]
      BY <1>1, <2>2
    <3> QED
      BY <1>3, <3>1
  <2> QED
    BY <2>1, <2>2
<1>4. ASSUME NEW i \in DOMAIN log, Parking(log[i], v)
      PROVE  \E j \in DOMAIN more : Parking(more[j], v)
  <2>1. i \in DOMAIN more /\ more[i] = log[i]
    BY <1>1
  <2> QED
    BY <1>4, <2>1
<1>5. Logged(more, v, in)
  BY <1>3, <1>4 DEF Logged
<1> QED
  BY <1>5 DEF more

\* A row of a stop in area a.
LEMMA LoggedStop ==
  ASSUME OutputsAssumption, NEW log \in Seq(EventRow), NEW row \in EventRow, NEW v \in Drivers,
         NEW a \in Areas, NEW in, in \in {a, None}, Logged(log, v, in),
         Parking(row, v), row.lot = LotOf[a]
  PROVE  Logged(log \o <<row>>, v, a)
<1> DEFINE more == log \o <<row>>
           m == Len(log)
<1>1. /\ m \in Nat /\ DOMAIN log = 1 .. m /\ DOMAIN more = 1 .. (m + 1)
      /\ \A i \in 1 .. m : more[i] = log[i]
      /\ more[m + 1] = row
  OBVIOUS
<1> HIDE DEF more, m
<1>2. a # None
  BY DEF OutputsAssumption
<1>3. ASSUME NEW i \in DOMAIN more, Parking(more[i], v)
      PROVE  more[i].lot = LotOf[a]
  <2>1. CASE i \in 1 .. m
    <3>1. in # None /\ more[i].lot = LotOf[in]
      BY <1>1, <1>3, <2>1 DEF Logged
    <3> QED
      BY <3>1
  <2>2. CASE i = m + 1
    BY <1>1, <2>2
  <2> QED
    BY <1>1, <2>1, <2>2
<1>4. m + 1 \in DOMAIN more
  BY <1>1
<1>5. Logged(more, v, a)
  BY <1>1, <1>2, <1>3, <1>4 DEF Logged
<1> QED
  BY <1>5 DEF more

(***************************************************************************)
(* One iteration of the main loop, and the checkpoint.                     *)
(***************************************************************************)
LEMMA CutPrefix ==
  ASSUME NEW S, NEW log \in Seq(S), NEW rows \in Seq(S), NEW n \in 0 .. Len(log)
  PROVE  /\ n \in 0 .. Len(log \o rows)
         /\ SubSeq(log \o rows, 1, n) = SubSeq(log, 1, n)
<1> DEFINE more == log \o rows
<1>1. /\ more \in Seq(S) /\ Len(more) = Len(log) + Len(rows)
      /\ \A i \in 1 .. Len(log) : more[i] = log[i]
      /\ Len(log) \in Nat /\ Len(rows) \in Nat
  OBVIOUS
<1> HIDE DEF more
<1>2. SubSeq(more, 1, n) = [i \in 1 .. n |-> more[i]] /\ SubSeq(log, 1, n) = [i \in 1 .. n |-> log[i]]
  BY <1>1
<1>3. \A i \in 1 .. n : more[i] = log[i]
  BY <1>1
<1>4. SubSeq(more, 1, n) = SubSeq(log, 1, n)
  BY <1>2, <1>3
<1> QED
  BY <1>1, <1>4 DEF more

LEMMA CutNothing ==
  ASSUME NEW S, NEW log \in Seq(S)
  PROVE  Len(log) \in 0 .. Len(log) /\ SubSeq(log, 1, Len(log)) = log
OBVIOUS

LEMMA IterationRuns ==
  ASSUME OutputsAssumption, Running,
         NEW v \in Drivers, NEW p, NEW r, NEW given \in Areas \cup {None},
         NEW done, done \subseteq {v}, NEW rows \in Seq(EventRow),
         Iteration(v, p, r, given, done, rows),
         Life(v, p, IF p = "space" THEN given ELSE stood[v], r, given,
              v \in visited \cup done, now + 1),
         Logged(events \o rows, v, IF p = "space" THEN given ELSE stood[v]),
         \A i \in DOMAIN rows : rows[i].driver = v
  PROVE  Running'
<1> DEFINE in == IF p = "space" THEN given ELSE stood[v]
<1>0. World(now, place, stood, tracker, assigned, visited, events) /\ Checkpointed
  BY DEF Running
<1>1. /\ now \in Nat /\ now + 1 \in Nat
      /\ place \in [Drivers -> Places]
      /\ stood \in [Drivers -> Areas \cup {None}]
      /\ tracker \in [Drivers -> Record]
      /\ assigned \in [Drivers -> Areas \cup {None}]
      /\ events \in Seq(EventRow)
  BY <1>0 DEF World
<1>2. /\ now' = now + 1 /\ stage' = "running"
      /\ place' = [place EXCEPT ![v] = p]
      /\ stood' = [stood EXCEPT ![v] = in]
      /\ tracker' = [u \in Drivers |-> IF u = v THEN r ELSE Seen(u)]
      /\ assigned' = [assigned EXCEPT ![v] = given]
      /\ visited' = visited \cup done
      /\ events' = events \o rows
  BY DEF Iteration, Running
<1>3. Life(v, p, in, r, given, v \in visited', now') /\ Logged(events', v, in)
  BY <1>2
<1>4. in \in Areas \cup {None}
  BY <1>1
<1> HIDE DEF in
<1>5. r \in Record /\ p \in Places
  BY <1>1, <1>2, <1>3, LifeTypes
<1>6. ASSUME NEW u \in Drivers, u # v
      PROVE  /\ Seen(u) \in Record
             /\ Life(u, place[u], stood[u], Seen(u), assigned[u], u \in visited', now')
             /\ Logged(events', u, stood[u])
  <2>1. /\ Life(u, place[u], stood[u], tracker[u], assigned[u], u \in visited, now)
        /\ Logged(events, u, stood[u])
    BY <1>0 DEF World
  <2>2. Life(u, place[u], stood[u], Seen(u), assigned[u], u \in visited, now + 1)
    BY <1>1, <2>1, LifeWaits DEF Seen
  <2>3. Seen(u) \in Record
    BY <1>1, <2>2, LifeTypes
  <2>4. u \in visited <=> u \in visited'
    BY <1>2, <1>6
  <2>5. \A i \in DOMAIN rows : ~ Parking(rows[i], u)
    BY <1>6 DEF Parking
  <2>6. Logged(events', u, stood[u])
    BY <1>1, <1>2, <2>1, <2>5, LoggedMore
  <2>7. Life(u, place[u], stood[u], Seen(u), assigned[u], u \in visited', now')
    BY <1>2, <2>2, <2>4
  <2> QED
    BY <2>3, <2>6, <2>7
<1>7. World(now', place', stood', tracker', assigned', visited', events')
  <2>1. place' \in [Drivers -> Places] /\ place'[v] = p /\ \A u \in Drivers : u # v => place'[u] = place[u]
    BY <1>1, <1>2, <1>5
  <2>2. /\ stood' \in [Drivers -> Areas \cup {None}] /\ stood'[v] = in
        /\ \A u \in Drivers : u # v => stood'[u] = stood[u]
    BY <1>1, <1>2, <1>4
  <2>3. /\ assigned' \in [Drivers -> Areas \cup {None}] /\ assigned'[v] = given
        /\ \A u \in Drivers : u # v => assigned'[u] = assigned[u]
    BY <1>1, <1>2
  <2>4. /\ tracker' \in [Drivers -> Record] /\ tracker'[v] = r
        /\ \A u \in Drivers : u # v => tracker'[u] = Seen(u)
    BY <1>2, <1>5, <1>6
  <2>5. events' \in Seq(EventRow)
    BY <1>1, <1>2
  <2>6. ASSUME NEW u \in Drivers
        PROVE  /\ Life(u, place'[u], stood'[u], tracker'[u], assigned'[u], u \in visited', now')
               /\ Logged(events', u, stood'[u])
    <3>1. CASE u = v
      BY <1>3, <2>1, <2>2, <2>3, <2>4, <3>1
    <3>2. CASE u # v
      BY <1>6, <2>1, <2>2, <2>3, <2>4, <3>2
    <3> QED
      BY <3>1, <3>2
  <2> QED
    BY <1>1, <1>2, <2>1, <2>2, <2>3, <2>4, <2>5, <2>6 DEF World
<1>8. Checkpointed'
  <2>1. CASE saved' = saved
    <3>1. saved.events \in 0 .. Len(events)
      BY <1>0 DEF Checkpointed
    <3>2. /\ saved.events \in 0 .. Len(events')
          /\ SubSeq(events', 1, saved.events) = SubSeq(events, 1, saved.events)
      BY <1>1, <1>2, <3>1, CutPrefix
    <3> QED
      BY <1>0, <2>1, <3>2 DEF Checkpointed
  <2>2. CASE saved' = Capture(now', place', stood', tracker', assigned', visited',
                              events', occupancy')
    <3>1. /\ saved'.time = now' /\ saved'.place = place' /\ saved'.stood = stood'
          /\ saved'.tracker = tracker' /\ saved'.assigned = assigned'
          /\ saved'.visited = visited' /\ saved'.events = Len(events')
      BY <2>2 DEF Capture
    <3>2. events' \in Seq(EventRow)
      BY <1>7 DEF World
    <3>3. Len(events') \in 0 .. Len(events') /\ SubSeq(events', 1, Len(events')) = events'
      BY <3>2, CutNothing
    <3> QED
      BY <1>7, <3>1, <3>3 DEF Checkpointed
  <2> QED
    BY <2>1, <2>2 DEF Iteration
<1> QED
  BY <1>2, <1>7, <1>8 DEF Running

(***************************************************************************)
(* The handlers of a vehicle.                                              *)
(***************************************************************************)
LEMMA DriverKnown ==
  ASSUME Running, NEW v \in Drivers
  PROVE  /\ Life(v, place[v], stood[v], tracker[v], assigned[v], v \in visited, now)
         /\ Logged(events, v, stood[v])
         /\ now \in Nat /\ now + 1 \in Nat /\ now <= now + 1
         /\ stood[v] \in Areas \cup {None} /\ assigned[v] \in Areas \cup {None}
         /\ tracker[v] \in Record /\ events \in Seq(EventRow)
<1>1. World(now, place, stood, tracker, assigned, visited, events)
  BY DEF Running
<1> QED
  BY <1>1 DEF World

LEMMA RowFacts ==
  ASSUME NEW t \in Nat, NEW v \in Drivers, NEW lot \in Lots, NEW area \in Areas \cup {None},
         NEW event \in {"parking_attempt", "parking_started", "parking_ended"}
  PROVE  /\ Row(t, v, event, lot, area) \in EventRow
         /\ Row(t, v, event, lot, area).driver = v
         /\ Row(t, v, event, lot, area).lot = lot
         /\ Row(t, v, event, lot, area).event = event
BY DEF Row, EventRow

LEMMA OneRow ==
  ASSUME NEW row \in EventRow
  PROVE  <<row>> \in Seq(EventRow) /\ \A i \in DOMAIN <<row>> : <<row>>[i] = row
OBVIOUS

\* A step of v that writes no row.
LEMMA QuietRuns ==
  ASSUME OutputsAssumption, Running,
         NEW v \in Drivers, NEW p, p # "space", NEW r, NEW given \in Areas \cup {None},
         Iteration(v, p, r, given, {}, <<>>),
         Life(v, p, stood[v], r, given, v \in visited, now + 1)
  PROVE  Running'
<1> DEFINE rows == <<>>
<1>1. rows \in Seq(EventRow) /\ DOMAIN rows = {} /\ events \o rows = events
  BY DriverKnown
<1>2. Logged(events \o rows, v, stood[v])
  BY <1>1, DriverKnown
<1>3. Iteration(v, p, r, given, {}, rows)
  OBVIOUS
<1>4. Life(v, p, stood[v], r, given, v \in visited \cup {}, now + 1)
  OBVIOUS
<1> HIDE DEF rows
<1> QED
  BY <1>1, <1>2, <1>3, <1>4, IterationRuns

LEMMA DepartsRuns ==
  ASSUME OutputsAssumption, Running, NEW v \in Drivers, Departs(v)
  PROVE  Running'
<1>1. Life(v, "waiting", stood[v], tracker[v], assigned[v], v \in visited, now)
  BY DriverKnown DEF Departs
<1>2. stood[v] = None /\ v \notin visited /\ tracker[v] = Fresh(v)
  BY <1>1 DEF Life
<1>3. Going(MarkActive(tracker[v], now + 1), now + 1)
  BY <1>2, DriverKnown, ActiveGoing
<1>4. Life(v, "road", stood[v], MarkActive(tracker[v], now + 1), None, v \in visited, now + 1)
  BY <1>2, <1>3 DEF Life, Heads
<1> QED
  BY <1>4, QuietRuns DEF Departs

LEMMA EntersRuns ==
  ASSUME OutputsAssumption, Running, NEW v \in Drivers, EntersLot(v)
  PROVE  Running'
<1>1. Life(v, "road", stood[v], tracker[v], assigned[v], v \in visited, now)
  BY DriverKnown DEF EntersLot
<1>2. stood[v] = None /\ v \notin visited /\ Going(tracker[v], now) /\ Heads(tracker[v], assigned[v])
  BY <1>1 DEF Life
<1>3. Going(tracker[v], now + 1)
  BY <1>2, DriverKnown, GoingLater
<1>4. /\ Going(MarkInside(tracker[v], now + 1), now + 1)
      /\ MarkInside(tracker[v], now + 1).target = tracker[v].target
  BY <1>3, DriverKnown, InsideGoing
<1>5. Life(v, "aisle", stood[v], MarkInside(tracker[v], now + 1), assigned[v], v \in visited, now + 1)
  BY <1>2, <1>4 DEF Life, Heads
<1> QED
  BY <1>5, DriverKnown, QuietRuns DEF EntersLot

LEMMA StaysRuns ==
  ASSUME OutputsAssumption, Running, NEW v \in Drivers, Stays(v)
  PROVE  Running'
<1>1. Life(v, "aisle", stood[v], tracker[v], assigned[v], v \in visited, now)
  BY DriverKnown DEF Stays
<1>2. Life(v, "aisle", stood[v], Seen(v), assigned[v], v \in visited, now + 1)
  BY <1>1, DriverKnown, LifeSeen DEF Stays, Seen
<1> QED
  BY <1>2, DriverKnown, QuietRuns DEF Stays

LEMMA ArrivesRuns ==
  ASSUME OutputsAssumption, Running, NEW v \in Drivers, Arrives(v)
  PROVE  Running'
<1> DEFINE r == IF v \in visited \/ assigned[v] # None THEN tracker[v]
                ELSE MarkUnserved(tracker[v], now + 1)
<1>1. place[v] \in {"road", "aisle"}
  BY DEF Arrives
<1>2. Life(v, "gone", stood[v], r, assigned[v], v \in visited, now + 1)
  <2>1. CASE stood[v] = None /\ v \notin visited /\ Going(tracker[v], now) /\ Heads(tracker[v], assigned[v])
    <3>1. Going(tracker[v], now + 1)
      BY <2>1, DriverKnown, GoingLater
    <3>2. Unserved(MarkUnserved(tracker[v], now + 1), now + 1)
      BY <3>1, DriverKnown, UnservedEnds
    <3> QED
      BY <2>1, <3>1, <3>2 DEF Life
  <2>2. CASE stood[v] # None /\ assigned[v] = None /\ v \in visited /\ Stopped(tracker[v])
    BY <2>2 DEF Life
  <2> QED
    BY <1>1, <2>1, <2>2, DriverKnown DEF Life
<1>3. Iteration(v, "gone", r, assigned[v], {}, <<>>)
  BY DEF Arrives
<1> HIDE DEF r
<1> QED
  BY <1>2, <1>3, DriverKnown, QuietRuns

LEMMA MeetsGoing ==
  ASSUME OutputsAssumption, Running, NEW v \in Drivers, NEW lot \in Lots, Meets(v, lot)
  PROVE  /\ stood[v] = None
         /\ Going(Tried(v, lot), now + 1)
         /\ Tried(v, lot).arrival # None
         /\ Tried(v, lot).target = tracker[v].target
<1>1. stood[v] = None /\ Going(tracker[v], now)
  BY DriverKnown DEF Meets, Life
<1>2. Going(tracker[v], now + 1)
  BY <1>1, DriverKnown, GoingLater
<1> QED
  BY <1>1, <1>2, DriverKnown, AttemptGoing DEF Tried

\* A driver that meets a lot drives on with record r.
LEMMA MeetsRuns ==
  ASSUME OutputsAssumption, Running, NEW v \in Drivers, NEW lot \in Lots, Meets(v, lot),
         NEW p, p # "space", NEW r, NEW given \in Areas \cup {None}, NEW done, done \subseteq {v},
         Iteration(v, p, r, given, done, AttemptRow(v, lot)),
         Life(v, p, None, r, given, v \in visited \cup done, now + 1)
  PROVE  Running'
<1> DEFINE row == Row(now + 1, v, "parking_attempt", lot, None)
<1>1. row \in EventRow /\ row.driver = v /\ row.event = "parking_attempt"
  BY DriverKnown, RowFacts
<1>2. AttemptRow(v, lot) = <<row>>
  BY DEF AttemptRow
<1> HIDE DEF row
<1>r. <<row>> \in Seq(EventRow) /\ \A i \in DOMAIN <<row>> : <<row>>[i] = row
  BY <1>1, OneRow
<1>3. \A i \in DOMAIN <<row>> : <<row>>[i].driver = v /\ ~ Parking(<<row>>[i], v)
  BY <1>1, <1>r DEF Parking
<1>4. Logged(events \o <<row>>, v, stood[v])
  BY <1>r, <1>3, DriverKnown, LoggedMore
<1>5. stood[v] = None
  BY MeetsGoing
<1>6. (IF p = "space" THEN given ELSE stood[v]) = None
  BY <1>5
<1>7. Iteration(v, p, r, given, done, <<row>>)
  BY <1>2
<1> QED
  BY <1>r, <1>3, <1>4, <1>5, <1>6, <1>7, IterationRuns

LEMMA DrivesPastRuns ==
  ASSUME OutputsAssumption, Running, NEW v \in Drivers, NEW lot \in Lots, DrivesPast(v, lot)
  PROVE  Running'
<1>1. Meets(v, lot) /\ Iteration(v, "road", Tried(v, lot), None, {}, AttemptRow(v, lot))
  BY DEF DrivesPast
<1>2. Life(v, "road", None, Tried(v, lot), None, v \in visited \cup {}, now + 1)
  BY <1>1, MeetsGoing DEF Life, Heads, Meets
<1> DEFINE r == Tried(v, lot)
           done == {}
           p == "road"
<1>3. /\ Iteration(v, p, r, None, done, AttemptRow(v, lot))
      /\ Life(v, p, None, r, None, v \in visited \cup done, now + 1)
      /\ p # "space" /\ done \subseteq {v}
  BY <1>1, <1>2
<1> HIDE DEF r, done, p
<1> QED
  BY <1>1, <1>3, MeetsRuns

LEMMA TakesSpaceRuns ==
  ASSUME OutputsAssumption, Running, NEW v \in Drivers, NEW lot \in Lots, TakesSpace(v, lot)
  PROVE  Running'
<1> DEFINE c == MarkTargetChanged(Tried(v, lot), now + 1, lot)
<1>1. PICK a \in FreeAreas(lot) : Iteration(v, "road", MarkAssigned(c, a), a, {}, AttemptRow(v, lot))
  BY DEF TakesSpace
<1>2. Meets(v, lot) /\ a \in Areas /\ LotOf[a] = lot
  BY DEF TakesSpace, FreeAreas
<1>3. Going(c, now + 1) /\ c.target = lot
  BY <1>2, MeetsGoing, DriverKnown, TargetGoing
<1> HIDE DEF c
<1>4. Going(MarkAssigned(c, a), now + 1) /\ MarkAssigned(c, a).target = lot
  BY <1>2, <1>3, DriverKnown, AssignedGoing
<1>5. Life(v, "road", None, MarkAssigned(c, a), a, v \in visited \cup {}, now + 1)
  BY <1>2, <1>4 DEF Life, Heads, Meets
<1> QED
  BY <1>1, <1>2, <1>5, MeetsRuns

LEMMA TurnedAwayGoing ==
  ASSUME OutputsAssumption, Running, NEW v \in Drivers, NEW lot \in Lots, Meets(v, lot),
         NEW r \in TurnedAway(v, lot)
  PROVE  Going(r, now + 1) /\ r.arrival # None /\ Left(r, v) \subseteq Lots
<1>1. r = Tried(v, lot) \/ r = MarkTargetChanged(Tried(v, lot), now + 1, lot)
  BY DEF TurnedAway
<1>2. Going(r, now + 1) /\ r.arrival # None
  BY <1>1, MeetsGoing, DriverKnown, TargetGoing
<1>3. Left(r, v) \subseteq Lots
  <2>1. Candidates[v] \in Seq(Lots) /\ FirstChoice[v] \in Lots
    BY DEF OutputsAssumption
  <2>2. ToSet(Candidates[v]) \subseteq Lots
    BY <2>1 DEF ToSet
  <2> QED
    BY <2>1, <2>2 DEF Left
<1> QED
  BY <1>2, <1>3

LEMMA SearchesOnRuns ==
  ASSUME OutputsAssumption, Running, NEW v \in Drivers, NEW lot \in Lots, SearchesOn(v, lot)
  PROVE  Running'
<1>1. Meets(v, lot)
  BY DEF SearchesOn
<1>2. PICK r \in TurnedAway(v, lot) :
        \E next \in Left(r, v) : \E refused \in SUBSET (Left(r, v) \ {next}) :
          Iteration(v, "road",
                    MarkTargetChanged([r EXCEPT !.rejected = @ \cup refused], now + 1, next),
                    None, {}, AttemptRow(v, lot))
  BY DEF SearchesOn
<1>3. PICK next \in Left(r, v), refused \in SUBSET Left(r, v) :
        Iteration(v, "road",
                  MarkTargetChanged([r EXCEPT !.rejected = @ \cup refused], now + 1, next),
                  None, {}, AttemptRow(v, lot))
  BY <1>2
<1>4. Going(r, now + 1) /\ r.arrival # None /\ Left(r, v) \subseteq Lots
  BY <1>1, TurnedAwayGoing
<1>5. next \in Lots /\ refused \in SUBSET Lots
  BY <1>4
<1> DEFINE b == [r EXCEPT !.rejected = @ \cup refused]
           s == MarkTargetChanged(b, now + 1, next)
<1>6. Going(b, now + 1) /\ b.arrival # None
  <2> DEFINE t == now + 1
  <2>1. t \in Nat
    BY DriverKnown
  <2>2. Going(r, t)
    BY <1>4
  <2> HIDE DEF t
  <2>3. Going(b, t) /\ b.arrival = r.arrival
    BY <1>5, <2>1, <2>2, RefusedGoing
  <2> QED
    BY <1>4, <2>3 DEF t
<1> HIDE DEF b
<1>7. Going(s, now + 1)
  BY <1>5, <1>6, DriverKnown, TargetGoing
<1>8. Life(v, "road", None, s, None, v \in visited \cup {}, now + 1)
  BY <1>1, <1>7 DEF Life, Heads, Meets
<1>9. Iteration(v, "road", s, None, {}, AttemptRow(v, lot))
  BY <1>3 DEF b
<1> DEFINE done == {}
           p == "road"
<1> HIDE DEF s
<1>10. /\ Iteration(v, p, s, None, done, AttemptRow(v, lot))
       /\ Life(v, p, None, s, None, v \in visited \cup done, now + 1)
       /\ p # "space" /\ done \subseteq {v}
  BY <1>8, <1>9
<1> HIDE DEF done, p
<1> QED
  BY <1>1, <1>10, MeetsRuns

LEMMA GivesUpRuns ==
  ASSUME OutputsAssumption, Running, NEW v \in Drivers, NEW lot \in Lots, GivesUp(v, lot)
  PROVE  Running'
<1>1. Meets(v, lot)
  BY DEF GivesUp
<1>2. PICK r \in TurnedAway(v, lot) :
        Iteration(v, "gone", MarkUnserved([r EXCEPT !.rejected = @ \cup Left(r, v)], now + 1),
                  None, {v}, AttemptRow(v, lot))
  BY DEF GivesUp
<1>3. Going(r, now + 1) /\ Left(r, v) \subseteq Lots
  BY <1>1, TurnedAwayGoing
<1> DEFINE b == [r EXCEPT !.rejected = @ \cup Left(r, v)]
           s == MarkUnserved(b, now + 1)
<1>4. Going(b, now + 1)
  BY <1>3, DriverKnown, RefusedGoing
<1>5. Iteration(v, "gone", s, None, {v}, AttemptRow(v, lot))
  BY <1>2
<1> HIDE DEF b
<1>6. Unserved(s, now + 1)
  BY <1>4, DriverKnown, UnservedEnds
<1> HIDE DEF s
<1>7. Life(v, "gone", None, s, None, v \in visited \cup {v}, now + 1)
  BY <1>6 DEF Life
<1> QED
  BY <1>1, <1>5, <1>7, MeetsRuns

LEMMA StopStartsRuns ==
  ASSUME OutputsAssumption, Running, NEW v \in Drivers, StopStarts(v)
  PROVE  Running'
<1> DEFINE a == assigned[v]
           i == MarkInside(tracker[v], now + 1)
           r == MarkParked(i, now + 1, a)
           row == Row(now + 1, v, "parking_started", tracker[v].target, a)
<1>1. place[v] = "aisle" /\ a # None /\ Iteration(v, "space", r, a, {}, <<row>>)
  BY DEF StopStarts
<1>2. stood[v] = None /\ v \notin visited /\ Going(tracker[v], now) /\ tracker[v].target = LotOf[a]
  BY <1>1, DriverKnown DEF Life, Heads
<1>3. a \in Areas /\ tracker[v].target \in Lots
  BY <1>1, DriverKnown DEF Record
<1>4. /\ Going(i, now + 1) /\ i.target = LotOf[a]
      /\ i.open.type = "inside_parking" /\ i.segments # <<>>
  <2>1. Going(tracker[v], now + 1)
    BY <1>2, DriverKnown, GoingLater
  <2> QED
    BY <1>2, <2>1, DriverKnown, InsideGoing
<1> HIDE DEF i
<1>5. Stopped(r) /\ r.target = LotOf[a]
  BY <1>3, <1>4, DriverKnown, ParkedStops
<1>6. /\ row \in EventRow /\ row.driver = v
      /\ row.lot = tracker[v].target /\ row.event = "parking_started"
  BY <1>3, DriverKnown, RowFacts
<1> HIDE DEF row, r, a
<1>r. <<row>> \in Seq(EventRow) /\ \A k \in DOMAIN <<row>> : <<row>>[k] = row
  BY <1>6, OneRow
<1>7. Logged(events \o <<row>>, v, a)
  <2>1. Parking(row, v) /\ row.lot = LotOf[a]
    BY <1>2, <1>6 DEF Parking
  <2> QED
    BY <1>2, <1>3, <1>6, <2>1, DriverKnown, LoggedStop
<1>8. Life(v, "space", a, r, a, v \in visited \cup {}, now + 1)
  BY <1>1, <1>5 DEF Life, Heads
<1>9. \A k \in DOMAIN <<row>> : <<row>>[k].driver = v
  BY <1>6, <1>r
<1> QED
  BY <1>1, <1>3, <1>r, <1>7, <1>8, <1>9, IterationRuns

LEMMA StopEndsRuns ==
  ASSUME OutputsAssumption, Running, NEW v \in Drivers, StopEnds(v)
  PROVE  Running'
<1> DEFINE a == assigned[v]
           r == MarkParkingEnded(tracker[v], now + 1)
           row == Row(now + 1, v, "parking_ended", tracker[v].target, a)
<1>1. place[v] = "space" /\ Iteration(v, "aisle", r, None, {v}, <<row>>)
  BY DEF StopEnds
<1>2. stood[v] = a /\ a # None /\ Stopped(tracker[v]) /\ tracker[v].target = LotOf[a]
  BY <1>1, DriverKnown DEF Life, Heads
<1>3. a \in Areas /\ tracker[v].target \in Lots
  BY <1>2, DriverKnown DEF Record
<1>4. Stopped(r)
  BY <1>2, DriverKnown, EndedStopped
<1>5. /\ row \in EventRow /\ row.driver = v
      /\ row.lot = tracker[v].target /\ row.event = "parking_ended"
  BY <1>3, DriverKnown, RowFacts
<1> HIDE DEF row, r, a
<1>r. <<row>> \in Seq(EventRow) /\ \A k \in DOMAIN <<row>> : <<row>>[k] = row
  BY <1>5, OneRow
<1>6. Logged(events \o <<row>>, v, stood[v])
  <2>1. Parking(row, v) /\ row.lot = LotOf[a]
    BY <1>2, <1>5 DEF Parking
  <2> QED
    BY <1>2, <1>3, <1>5, <2>1, DriverKnown, LoggedStop
<1>7. Life(v, "aisle", stood[v], r, None, v \in visited \cup {v}, now + 1)
  BY <1>2, <1>4 DEF Life
<1>8. \A k \in DOMAIN <<row>> : <<row>>[k].driver = v
  BY <1>5, <1>r
<1> QED
  BY <1>1, <1>r, <1>6, <1>7, <1>8, IterationRuns

\* Whatever happens to a vehicle.
LEMMA VehicleRuns ==
  ASSUME OutputsAssumption, Running, NEW v \in Drivers,
         \/ Departs(v) \/ Passes(v) \/ EntersLot(v) \/ StopStarts(v) \/ StopEnds(v)
         \/ Stays(v) \/ Arrives(v)
  PROVE  Running'
<1>1. CASE Passes(v)
  BY <1>1, DrivesPastRuns, TakesSpaceRuns, SearchesOnRuns, GivesUpRuns DEF Passes
<1> QED
  BY <1>1, DepartsRuns, EntersRuns, StopStartsRuns, StopEndsRuns, StaysRuns, ArrivesRuns

(***************************************************************************)
(* The start, a replay, and the end.                                       *)
(***************************************************************************)
LEMMA StartRuns ==
  ASSUME OutputsAssumption, OutputsInit
  PROVE  Running
<1>1. events = <<>> /\ events \in Seq(EventRow) /\ DOMAIN events = {} /\ Len(events) = 0
  BY DEF OutputsInit
<1>2. tracker \in [Drivers -> Record]
  BY FreshRecord DEF OutputsInit
<1>3. \A v \in Drivers : Life(v, place[v], stood[v], tracker[v], assigned[v], v \in visited, now)
  BY DEF OutputsInit, Life
<1>4. \A v \in Drivers : Logged(events, v, stood[v])
  BY <1>1 DEF OutputsInit, Logged
<1>5. World(now, place, stood, tracker, assigned, visited, events)
  BY <1>1, <1>2, <1>3, <1>4 DEF OutputsInit, World, Places
<1>6. /\ saved.events = Len(events) /\ saved.time = now /\ saved.place = place
      /\ saved.stood = stood /\ saved.tracker = tracker /\ saved.assigned = assigned
      /\ saved.visited = visited
  BY DEF OutputsInit, Capture
<1>7. Len(events) \in 0 .. Len(events) /\ SubSeq(events, 1, Len(events)) = events
  BY <1>1, CutNothing
<1>8. Checkpointed
  BY <1>5, <1>6, <1>7 DEF Checkpointed
<1> QED
  BY <1>5, <1>8 DEF Running, OutputsInit

\* The cut is kept by a second cut.
LEMMA RecoverRuns ==
  ASSUME OutputsAssumption, Running, Recover
  PROVE  Running'
<1>1. events \in Seq(EventRow) /\ saved.events \in 0 .. Len(events)
  BY DEF Running, World, Checkpointed
<1>2. /\ events' = SubSeq(events, 1, saved.events)
      /\ saved' = saved /\ stage' = stage
      /\ now' = saved.time /\ place' = saved.place /\ stood' = saved.stood
      /\ tracker' = saved.tracker /\ assigned' = saved.assigned /\ visited' = saved.visited
  BY DEF Recover, CutOff
<1>3. World(saved.time, saved.place, saved.stood, saved.tracker, saved.assigned,
            saved.visited, SubSeq(events, 1, saved.events))
  BY DEF Running, Checkpointed
<1>4. World(now', place', stood', tracker', assigned', visited', events')
  BY <1>2, <1>3
<1>5. events' \in Seq(EventRow) /\ Len(events') = saved.events
  BY <1>1, <1>2
<1>6. saved.events \in 0 .. Len(events') /\ SubSeq(events', 1, saved.events) = events'
  BY <1>5, CutNothing
<1>7. Checkpointed'
  BY <1>2, <1>3, <1>6 DEF Checkpointed
<1>8. World(now, place, stood, tracker, assigned, visited, events)'
  BY <1>4
<1> QED
  BY <1>2, <1>7, <1>8 DEF Running

\* What finalize does to a record, in every mode of its driver.
LEMMA FinalizedAccounted ==
  ASSUME OutputsAssumption, NEW v \in Drivers, NEW at, NEW in, NEW r, NEW given, NEW done,
         NEW t \in Nat, Life(v, at, in, r, given, done, t)
  PROVE  Accounted(at, in, Finalized(r, t), given, t)
<1> DEFINE c == Close(r, t, "simulation_ended")
           f == Finalized(r, t)
<1>1. CASE in # None /\ Stopped(r)
  <2>1. r.search # None
    BY <1>1, StoppedSearch
  <2>2. f = c
    BY <2>1 DEF Finalized
  <2>3. Stopped(c)
    BY <1>1, CloseStopped
  <2> QED
    BY <1>1, <2>2, <2>3 DEF Accounted, Stopped
<1>2. CASE in = None /\ Going(r, t) /\ (at = "gone" => given # None)
  <2>0. r \in Record /\ r.open # None /\ r.search = None /\ r.status # "unserved"
        /\ Journey(r.open, r.segments, r.arrival, t)
    BY <1>2 DEF Going
  <2>1. /\ c \in Record /\ SameBooks(r, c) /\ c.open = None
        /\ c.segments = Append(r.segments, Ended(r.open, t, "simulation_ended"))
    BY <2>0, CloseDoes
  <2>2. Journey(None, c.segments, c.arrival, t)
    <3>1. r.open \in Segment /\ r.segments \in Seq(EndedSegment) /\ r.arrival \in Times
      BY <2>0 DEF Record
    <3> DEFINE more == Append(r.segments, Ended(r.open, t, "simulation_ended"))
    <3>2. Journey(None, more, r.arrival, t)
      BY <2>0, <3>1, JourneyCloses
    <3> HIDE DEF more, c
    <3> QED
      BY <2>1, <3>2 DEF SameBooks, more
  <2>3. SearchDuration(c) = Elapsed(c.segments) /\ Elapsed(c.segments) \in Int
    BY <2>1, <2>2, SearchAddsUp DEF Journey
  <2>4. f = [c EXCEPT !.search = SearchDuration(c)]
    BY <2>0 DEF Finalized
  <2> HIDE DEF c
  <2>5. /\ f \in Record /\ f.open = None /\ f.segments = c.segments /\ f.arrival = c.arrival
        /\ f.search = Elapsed(f.segments) /\ f.status = c.status
    <3> DEFINE lasted == SearchDuration(c)
    <3>1. lasted \in Int /\ lasted = Elapsed(c.segments)
      BY <2>3
    <3>2. f = [c EXCEPT !.search = lasted]
      BY <2>4
    <3> HIDE DEF lasted, f
    <3>3. /\ f \in Record /\ f.open = None /\ f.segments = c.segments
          /\ f.arrival = c.arrival /\ f.search = lasted /\ f.status = c.status
      BY <2>1, <3>1, <3>2 DEF Record
    <3> QED
      BY <3>1, <3>3
  <2> HIDE DEF f
  <2> QED
    BY <1>2, <2>0, <2>1, <2>2, <2>5 DEF Accounted, SameBooks, f
<1>3. CASE in = None /\ at = "gone" /\ given = None /\ Unserved(r, t)
  <2>1. c = r /\ f = r
    BY <1>3 DEF Unserved, Close, Finalized
  <2> QED
    BY <1>3, <2>1 DEF Accounted, Unserved
<1>4. CASE at = "waiting" /\ in = None /\ r = Fresh(v)
  <2>1. r \in Record
    BY <1>4, FreshRecord
  <2>2. r.open = None /\ r.segments = <<>> /\ r.arrival = None /\ r.search = None
        /\ r.status = "not_inserted"
    BY <1>4 DEF Fresh
  <2>3. f = r
    BY <2>2 DEF Finalized, Close
  <2>4. Journey(r.open, r.segments, r.arrival, t)
    BY <2>2 DEF Journey, Walked, LotReached
  <2> QED
    BY <1>4, <2>1, <2>2, <2>3, <2>4 DEF Accounted
<1> QED
  BY <1>1, <1>2, <1>3, <1>4 DEF Life

LEMMA WriteSettles ==
  ASSUME OutputsAssumption, Running, WriteOutputs
  PROVE  Settled'
<1>1. /\ now' = now /\ place' = place /\ stood' = stood /\ assigned' = assigned
      /\ events' = events /\ stage' = "written"
      /\ tracker' = [v \in Drivers |-> Finalized(tracker[v], now)]
  BY DEF WriteOutputs
<1>2. ASSUME NEW v \in Drivers
      PROVE  /\ Accounted(place[v], stood[v], tracker'[v], assigned[v], now)
             /\ Logged(events, v, stood[v])
  BY <1>1, DriverKnown, FinalizedAccounted
<1>3. now \in Nat /\ stood \in [Drivers -> Areas \cup {None}] /\ events \in Seq(EventRow)
  BY DEF Running, World
<1>4. \A v \in Drivers : /\ Accounted(place'[v], stood'[v], tracker'[v], assigned'[v], now')
                         /\ Logged(events', v, stood'[v])
  BY <1>1, <1>2
<1> QED
  BY <1>1, <1>3, <1>4 DEF Settled

(***************************************************************************)
(* What is reported of the drivers is what happened to them.               *)
(***************************************************************************)
LEMMA FinalLotTrue ==
  ASSUME OutputsAssumption, Settled, NEW v \in Drivers
  PROVE  FinalLot(v) = IF stood[v] = None THEN None ELSE LotOf[stood[v]]
<1> DEFINE S == ParkingRows(v)
<1>1. events \in Seq(EventRow) /\ Logged(events, v, stood[v])
  BY DEF Settled
<1>2. S = {i \in DOMAIN events : Parking(events[i], v)}
  BY DEF ParkingRows, Parking
<1>3. S \subseteq Nat /\ Len(events) \in Nat /\ \A n \in S : n <= Len(events)
  BY <1>1, <1>2
<1>4. FinalLot(v) = IF S = {} THEN None ELSE events[Max(S)].lot
  BY DEF FinalLot
<1>5. stood[v] = None => S = {}
  BY <1>1, <1>2 DEF Logged
<1>6. stood[v] # None => S # {}
  BY <1>1, <1>2 DEF Logged
<1> HIDE DEF S
<1>7. S # {} => Max(S) \in S
  BY <1>3, MaxMember
<1>8. \A i \in S : stood[v] # None /\ events[i].lot = LotOf[stood[v]]
  BY <1>1, <1>2 DEF Logged
<1> QED
  BY <1>4, <1>5, <1>6, <1>7, <1>8

LEMMA PersonTrue ==
  ASSUME OutputsAssumption, Settled, NEW v \in Drivers
  PROVE  /\ Person(v).final = IF stood[v] = None THEN None ELSE LotOf[stood[v]]
         /\ Person(v).final \in Lots \cup {None}
         /\ Person(v).initial = FirstChoice[v] /\ Person(v).building = BuildingOf[v]
         /\ Person(v).status = "unserved"
              <=> place[v] = "gone" /\ stood[v] = None /\ assigned[v] = None
         /\ tracker[v].status = "unserved" => Person(v).status = "unserved"
<1>1. /\ Person(v).final = FinalLot(v)
      /\ Person(v).status = IF FinalLot(v) # None THEN "parked" ELSE tracker[v].status
      /\ Person(v).initial = FirstChoice[v] /\ Person(v).building = BuildingOf[v]
  BY DEF Person
<1>2. stood[v] \in Areas \cup {None} /\ Accounted(place[v], stood[v], tracker[v], assigned[v], now)
  BY DEF Settled
<1>3. stood[v] # None => LotOf[stood[v]] \in Lots /\ LotOf[stood[v]] # None
  BY <1>2 DEF OutputsAssumption
<1>4. stood[v] # None => tracker[v].status # "unserved"
  BY <1>2 DEF Accounted, Stopped
<1>5. stood[v] = None =>
        (tracker[v].status = "unserved" <=> place[v] = "gone" /\ assigned[v] = None)
  BY <1>2 DEF Accounted
<1> QED
  BY <1>1, <1>3, <1>4, <1>5, FinalLotTrue

\* What the tables know of a driver.
KnownOf(p) ==
  /\ p.initial \in Lots /\ p.final \in Lots \cup {None} /\ p.building \in Buildings
  /\ p.status = "unserved" => p.final = None

(***************************************************************************)
(* The tables agree, whatever is known of the drivers.                     *)
(***************************************************************************)
LEMMA LotBalances ==
  ASSUME OutputsAssumption, NEW people, \A v \in Drivers : KnownOf(people[v]), NEW l \in Lots
  PROVE  LET t == LotTotals(people, l)
             lost == Cardinality({v \in Drivers : people[v].initial = l /\ people[v].final = None
                                                  /\ people[v].status # "unserved"})
         IN  t.parked + t.out + t.unserved + lost = t.initial + t.in
<1> DEFINE t == LotTotals(people, l)
           Parked == {v \in Drivers : people[v].final = l}
           Chose == {v \in Drivers : people[v].initial = l}
           Kept == {v \in Drivers : people[v].initial = l /\ people[v].final = l}
           In == {v \in Drivers : people[v].final = l /\ people[v].initial # l}
           Out == {v \in Drivers : people[v].initial = l /\ people[v].final \notin {l, None}}
           None0 == {v \in Drivers : people[v].initial = l /\ people[v].status = "unserved"}
           Lost == {v \in Drivers : people[v].initial = l /\ people[v].final = None
                                    /\ people[v].status # "unserved"}
           Nowhere == None0 \cup Lost
           Away == Out \cup Nowhere
<1>1. /\ t.parked = Cardinality(Parked) /\ t.initial = Cardinality(Chose)
      /\ t.in = Cardinality(In) /\ t.out = Cardinality(Out) /\ t.unserved = Cardinality(None0)
  BY DEF LotTotals, SentIn, Count
<1>2. /\ IsFiniteSet(Kept) /\ IsFiniteSet(In) /\ IsFiniteSet(Out)
      /\ IsFiniteSet(None0) /\ IsFiniteSet(Lost)
  <2>1. IsFiniteSet(Drivers)
    BY DEF OutputsAssumption
  <2>2. /\ Kept \subseteq Drivers /\ In \subseteq Drivers /\ Out \subseteq Drivers
        /\ None0 \subseteq Drivers /\ Lost \subseteq Drivers
    OBVIOUS
  <2> HIDE DEF Kept, In, Out, None0, Lost
  <2> QED
    BY <2>1, <2>2, FS_Subset
<1>3. l # None
  BY DEF OutputsAssumption
<1>4. Parked = Kept \cup In /\ Kept \cap In = {}
  OBVIOUS
<1>5. None0 \cap Lost = {} /\ Out \cap Nowhere = {} /\ Kept \cap Away = {}
  BY <1>3 DEF KnownOf
<1>6. Chose = Kept \cup Away
  <2>1. \A v \in Chose : v \in Kept \cup Away
    BY DEF KnownOf
  <2>2. \A v \in Kept \cup Away : v \in Chose
    OBVIOUS
  <2> HIDE DEF Chose, Kept, Away
  <2> QED
    BY <2>1, <2>2
<1> HIDE DEF t, Parked, Chose, Kept, In, Out, None0, Lost
<1>7. Cardinality(Parked) = Cardinality(Kept) + Cardinality(In)
  BY <1>2, <1>4, TwoParts
<1>8. IsFiniteSet(Nowhere) /\ Cardinality(Nowhere) = Cardinality(None0) + Cardinality(Lost)
  BY <1>2, <1>5, TwoParts
<1> HIDE DEF Nowhere
<1>9. IsFiniteSet(Away) /\ Cardinality(Away) = Cardinality(Out) + Cardinality(Nowhere)
  BY <1>2, <1>5, <1>8, TwoParts
<1> HIDE DEF Away
<1>10. Cardinality(Chose) = Cardinality(Kept) + Cardinality(Away)
  BY <1>2, <1>5, <1>6, <1>9, TwoParts
<1>11. /\ Cardinality(Kept) \in Nat /\ Cardinality(In) \in Nat /\ Cardinality(Out) \in Nat
       /\ Cardinality(None0) \in Nat /\ Cardinality(Lost) \in Nat
  BY <1>2, FS_CardinalityType
<1>12. t.parked + t.out + t.unserved + Cardinality(Lost) = t.initial + t.in
  BY <1>1, <1>7, <1>8, <1>9, <1>10, <1>11
<1> QED
  BY <1>12 DEF t, Lost

LEMMA SentBalances ==
  ASSUME OutputsAssumption, AnalyticsAssumption, NEW people,
         \A v \in Drivers : KnownOf(people[v])
  PROVE  SumFunction([l \in Lots |-> LotTotals(people, l).in])
           = SumFunction([l \in Lots |-> LotTotals(people, l).out])
<1> DEFINE S == {v \in Drivers : people[v].final # None /\ people[v].final # people[v].initial}
           to == [v \in Drivers |-> people[v].final]
           from == [v \in Drivers |-> people[v].initial]
           in == [l \in Lots |-> LotTotals(people, l).in]
           out == [l \in Lots |-> LotTotals(people, l).out]
           In == [l \in Lots |-> {v \in Drivers : people[v].final = l /\ people[v].initial # l}]
           Out == [l \in Lots |-> {v \in Drivers : people[v].initial = l
                                                   /\ people[v].final \notin {l, None}}]
<1>1. IsFiniteSet(S) /\ IsFiniteSet(Lots)
  <2>1. S \subseteq Drivers
    OBVIOUS
  <2> HIDE DEF S
  <2> QED
    BY <2>1, FS_Subset DEF OutputsAssumption, AnalyticsAssumption
<1>2. (\A v \in S : to[v] \in Lots) /\ \A v \in S : from[v] \in Lots
  BY DEF KnownOf
<1>3. \A l \in Lots : in[l] = Cardinality(In[l]) /\ out[l] = Cardinality(Out[l])
  BY DEF LotTotals, SentIn, Count
<1>4. \A l \in Lots : \A v : v \in In[l] <=> v \in S /\ to[v] = l
  BY DEF OutputsAssumption
<1>5. \A l \in Lots : \A v : v \in Out[l] <=> v \in S /\ from[v] = l
  OBVIOUS
<1>6. /\ in = [l \in Lots |-> Cardinality(In[l])]
      /\ out = [l \in Lots |-> Cardinality(Out[l])]
  BY <1>3
<1> HIDE DEF S, to, from, in, out, In, Out
<1>7. SumFunction(in) = Cardinality(S)
  <2>1. Sorted(S, Lots, to, In, in)
    BY <1>1, <1>2, <1>4, <1>6 DEF Sorted
  <2> QED
    BY ONLY <2>1, CountByKey
<1>8. SumFunction(out) = Cardinality(S)
  <2>1. Sorted(S, Lots, from, Out, out)
    BY <1>1, <1>2, <1>5, <1>6 DEF Sorted
  <2> QED
    BY ONLY <2>1, CountByKey
<1> QED
  BY <1>7, <1>8 DEF in, out

LEMMA BuildingBalances ==
  ASSUME OutputsAssumption, NEW people, NEW b \in Buildings
  PROVE  LET t == BuildingTotals(people, b)
         IN  t.planned = t.parked + t.unserved + t.without
<1> DEFINE t == BuildingTotals(people, b)
           Planned == {v \in Drivers : people[v].building = b}
           Parked == {v \in Drivers : people[v].building = b /\ people[v].final # None}
           Failed == {v \in Drivers : people[v].building = b /\ people[v].final = None
                                      /\ people[v].status = "unserved"}
           Without == {v \in Drivers : people[v].building = b /\ people[v].final = None
                                       /\ people[v].status # "unserved"}
           Nowhere == Failed \cup Without
<1>1. /\ t.planned = Cardinality(Planned) /\ t.parked = Cardinality(Parked)
      /\ t.unserved = Cardinality(Failed) /\ t.without = Cardinality(Without)
  BY DEF BuildingTotals, Count
<1>2. IsFiniteSet(Parked) /\ IsFiniteSet(Failed) /\ IsFiniteSet(Without)
  <2>1. Parked \subseteq Drivers /\ Failed \subseteq Drivers /\ Without \subseteq Drivers
    OBVIOUS
  <2> HIDE DEF Parked, Failed, Without
  <2> QED
    BY <2>1, FS_Subset DEF OutputsAssumption
<1>3. Failed \cap Without = {} /\ Parked \cap Nowhere = {}
  OBVIOUS
<1>4. Planned = Parked \cup Nowhere
  OBVIOUS
<1> HIDE DEF t, Planned, Parked, Failed, Without
<1>5. IsFiniteSet(Nowhere) /\ Cardinality(Nowhere) = Cardinality(Failed) + Cardinality(Without)
  BY <1>2, <1>3, TwoParts
<1> HIDE DEF Nowhere
<1>6. Cardinality(Planned) = Cardinality(Parked) + Cardinality(Nowhere)
  BY <1>2, <1>3, <1>4, <1>5, TwoParts
<1>7. Cardinality(Parked) \in Nat /\ Cardinality(Failed) \in Nat /\ Cardinality(Without) \in Nat
  BY <1>2, FS_CardinalityType
<1>8. t.planned = t.parked + t.unserved + t.without
  BY <1>1, <1>5, <1>6, <1>7
<1> QED
  BY <1>8 DEF t

Flows(people) ==
  [f \in Lots \X Buildings |->
     Count({v \in Drivers : people[v].final = f[1] /\ people[v].building = f[2]})]

FlowsTo(people, b) == [l \in Lots |-> Flows(people)[<<l, b>>]]

LEMMA FlowsBalance ==
  ASSUME OutputsAssumption, AnalyticsAssumption, NEW people,
         \A v \in Drivers : KnownOf(people[v]), NEW b \in Buildings
  PROVE  BuildingTotals(people, b).parked = SumFunction(FlowsTo(people, b))
<1> DEFINE S == {v \in Drivers : people[v].building = b /\ people[v].final # None}
           to == [v \in Drivers |-> people[v].final]
           g == FlowsTo(people, b)
           part == [l \in Lots |-> {v \in Drivers : people[v].final = l /\ people[v].building = b}]
<1>1. IsFiniteSet(S) /\ IsFiniteSet(Lots)
  <2>1. S \subseteq Drivers
    OBVIOUS
  <2> HIDE DEF S
  <2> QED
    BY <2>1, FS_Subset DEF OutputsAssumption, AnalyticsAssumption
<1>2. \A v \in S : to[v] \in Lots
  BY DEF KnownOf
<1>3. g = [l \in Lots |-> Cardinality(part[l])]
  BY DEF Count, Flows, FlowsTo
<1>4. \A l \in Lots : \A v : v \in part[l] <=> v \in S /\ to[v] = l
  BY DEF OutputsAssumption
<1>5. BuildingTotals(people, b).parked = Cardinality(S)
  BY DEF BuildingTotals, Count
<1> HIDE DEF S, to, g, part
<1>6. SumFunction(g) = Cardinality(S)
  <2>1. Sorted(S, Lots, to, part, g)
    BY <1>1, <1>2, <1>3, <1>4 DEF Sorted
  <2> QED
    BY ONLY <2>1, CountByKey
<1> QED
  BY <1>5, <1>6 DEF g

\* Who parked: lot by lot, and building by building.
LEMMA ParkedBalances ==
  ASSUME OutputsAssumption, AnalyticsAssumption, NEW people,
         \A v \in Drivers : KnownOf(people[v])
  PROVE  LET parked == Count({v \in Drivers : people[v].final # None}) IN
         /\ parked = SumFunction([l \in Lots |-> LotTotals(people, l).parked])
         /\ parked = SumFunction([b \in Buildings |-> BuildingTotals(people, b).parked])
<1> DEFINE S == {v \in Drivers : people[v].final # None}
           to == [v \in Drivers |-> people[v].final]
           for == [v \in Drivers |-> people[v].building]
           g == [l \in Lots |-> LotTotals(people, l).parked]
           h == [b \in Buildings |-> BuildingTotals(people, b).parked]
           Lot == [l \in Lots |-> {v \in Drivers : people[v].final = l}]
           Building == [b \in Buildings |-> {v \in Drivers : people[v].building = b
                                                             /\ people[v].final # None}]
<1>1. IsFiniteSet(S) /\ IsFiniteSet(Lots) /\ IsFiniteSet(Buildings)
  <2>1. S \subseteq Drivers
    OBVIOUS
  <2> HIDE DEF S
  <2> QED
    BY <2>1, FS_Subset DEF OutputsAssumption, AnalyticsAssumption
<1>2. (\A v \in S : to[v] \in Lots) /\ \A v \in S : for[v] \in Buildings
  BY DEF KnownOf
<1>3. g = [l \in Lots |-> Cardinality(Lot[l])]
  BY DEF LotTotals, Count
<1>4. h = [b \in Buildings |-> Cardinality(Building[b])]
  BY DEF BuildingTotals, Count
<1>5. \A l \in Lots : \A v : v \in Lot[l] <=> v \in S /\ to[v] = l
  BY DEF OutputsAssumption
<1>6. \A b \in Buildings : \A v : v \in Building[b] <=> v \in S /\ for[v] = b
  OBVIOUS
<1>7. Count({v \in Drivers : people[v].final # None}) = Cardinality(S)
  BY DEF Count
<1> HIDE DEF S, to, for, g, h, Lot, Building
<1>8. SumFunction(g) = Cardinality(S)
  <2>1. Sorted(S, Lots, to, Lot, g)
    BY <1>1, <1>2, <1>3, <1>5 DEF Sorted
  <2> QED
    BY ONLY <2>1, CountByKey
<1>9. SumFunction(h) = Cardinality(S)
  <2>1. Sorted(S, Buildings, for, Building, h)
    BY <1>1, <1>2, <1>4, <1>6 DEF Sorted
  <2> QED
    BY ONLY <2>1, CountByKey
<1> QED
  BY <1>7, <1>8, <1>9 DEF g, h

\* Who neither parked nor was turned away everywhere, building by building.
LEMMA WithoutBalances ==
  ASSUME OutputsAssumption, AnalyticsAssumption, NEW people,
         \A v \in Drivers : KnownOf(people[v])
  PROVE  Count(Drivers) - Count({v \in Drivers : people[v].final # None})
                        - Count({v \in Drivers : people[v].status = "unserved"})
           = SumFunction([b \in Buildings |-> BuildingTotals(people, b).without])
<1> DEFINE S == {v \in Drivers : people[v].final = None /\ people[v].status # "unserved"}
           Parked == {v \in Drivers : people[v].final # None}
           Failed == {v \in Drivers : people[v].status = "unserved"}
           Nowhere == Failed \cup S
           for == [v \in Drivers |-> people[v].building]
           h == [b \in Buildings |-> BuildingTotals(people, b).without]
           part == [b \in Buildings |-> {v \in Drivers : people[v].building = b
                                           /\ people[v].final = None
                                           /\ people[v].status # "unserved"}]
<1>1. IsFiniteSet(S) /\ IsFiniteSet(Parked) /\ IsFiniteSet(Failed) /\ IsFiniteSet(Buildings)
  <2>1. S \subseteq Drivers /\ Parked \subseteq Drivers /\ Failed \subseteq Drivers
    OBVIOUS
  <2> HIDE DEF S, Parked, Failed
  <2> QED
    BY <2>1, FS_Subset DEF OutputsAssumption, AnalyticsAssumption
<1>2. \A v \in S : for[v] \in Buildings
  BY DEF KnownOf
<1>3. h = [b \in Buildings |-> Cardinality(part[b])]
  BY DEF BuildingTotals, Count
<1>4. \A b \in Buildings : \A v : v \in part[b] <=> v \in S /\ for[v] = b
  OBVIOUS
<1>5. Failed \cap S = {} /\ Parked \cap Nowhere = {} /\ Drivers = Parked \cup Nowhere
  BY DEF KnownOf
<1> HIDE DEF S, Parked, Failed, for, h, part
<1>6. SumFunction(h) = Cardinality(S)
  <2>1. Sorted(S, Buildings, for, part, h)
    BY <1>1, <1>2, <1>3, <1>4 DEF Sorted
  <2> QED
    BY ONLY <2>1, CountByKey
<1>7. IsFiniteSet(Nowhere) /\ Cardinality(Nowhere) = Cardinality(Failed) + Cardinality(S)
  BY <1>1, <1>5, TwoParts
<1> HIDE DEF Nowhere
<1>8. Cardinality(Drivers) = Cardinality(Parked) + Cardinality(Nowhere)
  BY <1>1, <1>5, <1>7, TwoParts
<1>9. Cardinality(Parked) \in Nat /\ Cardinality(Failed) \in Nat /\ Cardinality(S) \in Nat
  BY <1>1, FS_CardinalityType
<1>10. Cardinality(Drivers) - Cardinality(Parked) - Cardinality(Failed) = Cardinality(S)
  BY <1>7, <1>8, <1>9
<1> QED
  BY <1>6, <1>10 DEF Count, Parked, Failed, h

\* Who tried lots and found no space is among the unserved.
LEMMA FailedAttempts ==
  ASSUME OutputsAssumption, Settled
  PROVE  Attempts.unserved <= Count({v \in Drivers : Person(v).status = "unserved"})
<1> DEFINE Tried0 == {v \in Drivers : tracker[v].attempted # {} /\ tracker[v].status = "unserved"}
           Failed == {v \in Drivers : Person(v).status = "unserved"}
<1>1. Attempts.unserved = Cardinality(Tried0)
  <2> DEFINE tries == [v \in {d \in Drivers : tracker[d].attempted # {}} |->
                         Count(tracker[v].attempted)]
             Those == {v \in DOMAIN tries : tracker[v].status = "unserved"}
  <2>1. Attempts.unserved = Count(Those)
    BY DEF Attempts
  <2>2. Those = Tried0
    OBVIOUS
  <2> QED
    BY <2>1, <2>2 DEF Count
<1>2. Tried0 \subseteq Failed
  BY PersonTrue
<1>3. Failed \subseteq Drivers /\ IsFiniteSet(Drivers)
  BY DEF OutputsAssumption
<1> HIDE DEF Tried0, Failed
<1>4. IsFiniteSet(Failed)
  BY <1>3, FS_Subset
<1>5. Cardinality(Tried0) <= Cardinality(Failed)
  BY <1>2, <1>4, FS_Subset
<1> QED
  BY <1>1, <1>5 DEF Count, Failed

\* Every measured search is in one point of the chart.
LEMMA SearchBalances ==
  ASSUME OutputsAssumption
  PROVE  SearchTimes.summary.count
           = SumFunction([p \in SearchTimes.points |-> p.drivers])
<1> DEFINE start == [v \in Measured |-> SearchStart(tracker[v], v)]
           end == ChartEnd(Range(start))
           bin == [v \in Measured |-> Bin(start[v], end)]
           In(k) == {v \in Measured : Bin(start[v], end) = k}
           times(S) == [i \in 1 .. Count(S) |-> tracker[SetToSeq(S)[i]].search]
           Drawn(k) == [bin |-> k, search |-> SummaryOf(times(In(k))).total,
                        drivers |-> Count(In(k))]
           Bins == {bin[v] : v \in Measured}
           Points == {Drawn(k) : k \in Bins}
           key == [v \in Measured |-> Drawn(bin[v])]
           part == [p \in Points |-> In(p.bin)]
           g == [p \in Points |-> p.drivers]
<1>1. IsFiniteSet(Measured)
  <2>1. Measured \subseteq Drivers
    BY DEF Measured
  <2> QED
    BY <2>1, FS_Subset DEF OutputsAssumption
<1>2. SearchTimes.points = Points
  <2>1. {Bin(start[v], end) : v \in Measured} = Bins
    OBVIOUS
  <2>2. SearchTimes.points = {Drawn(k) : k \in {Bin(start[v], end) : v \in Measured}}
    BY DEF SearchTimes
  <2> QED
    BY <2>1, <2>2
<1>3. SearchTimes.summary.count = Cardinality(Measured)
  <2>1. SearchTimes.summary.count = Len(times(Measured))
    BY DEF SearchTimes, SummaryOf
  <2>2. Cardinality(Measured) \in Nat
    BY <1>1, FS_CardinalityType
  <2> QED
    BY <2>1, <2>2 DEF Count
<1>4. \A k : Drawn(k).bin = k /\ Drawn(k).drivers = Cardinality(In(k))
  BY DEF Count
<1>5. \A k : \A v : v \in In(k) <=> v \in Measured /\ bin[v] = k
  OBVIOUS
<1> HIDE DEF start, end, bin, In, times, Drawn
<1>7. \A v \in Measured : key[v] \in Points
  OBVIOUS
<1>8. IsFiniteSet(Points)
  <2>1. \A p \in Points : \E v \in Measured : p = key[v]
    BY DEF bin
  <2> HIDE DEF Points, key
  <2> QED
    BY <1>1, <2>1, ImageFinite
<1>9. \A p \in Points : p = Drawn(p.bin)
  BY <1>4
<1>10. \A p \in Points : \A v : v \in part[p] <=> v \in Measured /\ key[v] = p
  BY <1>4, <1>5, <1>9
<1>11. g = [p \in Points |-> Cardinality(part[p])]
  BY <1>4, <1>9
<1> HIDE DEF Points, key, part, g
<1>12. SumFunction(g) = Cardinality(Measured)
  <2>1. Sorted(Measured, Points, key, part, g)
    BY <1>1, <1>7, <1>8, <1>10, <1>11 DEF Sorted
  <2> QED
    BY ONLY <2>1, CountByKey
<1> QED
  BY <1>2, <1>3, <1>12 DEF g

LEMMA RowsFinite ==
  ASSUME OutputsAssumption, \A v \in Drivers : tracker[v] \in Record
  PROVE  IsFiniteSet(SegmentRows)
<1> DEFINE R(v, i) == [driver |-> v, index |-> i, type |-> tracker[v].segments[i].segment.type,
                       lot |-> tracker[v].segments[i].segment.lot,
                       start |-> tracker[v].segments[i].segment.start,
                       length |-> tracker[v].segments[i].finish
                                    - tracker[v].segments[i].segment.start]
           Of(v) == {R(v, i) : i \in DOMAIN tracker[v].segments}
           All == {Of(v) : v \in Drivers}
<1>1. SegmentRows = UNION All
  BY DEF SegmentRows
<1> HIDE DEF R
<1>2. ASSUME NEW v \in Drivers PROVE IsFiniteSet(Of(v))
  <2>1. tracker[v].segments \in Seq(EndedSegment)
    BY DEF Record
  <2>2. DOMAIN tracker[v].segments = 1 .. Len(tracker[v].segments)
        /\ Len(tracker[v].segments) \in Nat
    BY <2>1
  <2> DEFINE D == DOMAIN tracker[v].segments
             f == [i \in D |-> R(v, i)]
             T == Of(v)
  <2>3. IsFiniteSet(D)
    BY <2>2, FS_Interval
  <2>4. \A y \in T : \E i \in D : y = f[i]
    OBVIOUS
  <2> HIDE DEF D, f, T
  <2>5. IsFiniteSet(T)
    BY <2>3, <2>4, ImageFinite
  <2> QED
    BY <2>5 DEF T
<1> HIDE DEF Of
<1>3. IsFiniteSet(All)
  <2> DEFINE f == [v \in Drivers |-> Of(v)]
  <2>1. \A S \in All : \E v \in Drivers : S = f[v]
    OBVIOUS
  <2> HIDE DEF All, f
  <2> QED
    BY <2>1, ImageFinite DEF OutputsAssumption
<1>4. \A S \in All : IsFiniteSet(S)
  BY <1>2
<1> HIDE DEF All
<1> QED
  BY <1>1, <1>3, <1>4, FS_UNION

\* Every segment is in one bar of the chart of all lots.
LEMMA SegmentsBalance ==
  ASSUME OutputsAssumption, \A v \in Drivers : tracker[v] \in Record
  PROVE  Count(SegmentRows)
           = SumFunction([k \in {key \in DOMAIN TripSegments : key[2] = AllLots} |->
                            TripSegments[k].segments])
<1> DEFINE end == ChartEnd({s.start : s \in SegmentRows})
           Keys(s) == {<<s.type, k, Bin(s.start, end)>> : k \in {AllLots, s.lot}}
           In(k) == {s \in SegmentRows : k \in Keys(s)}
           Bars == {k \in DOMAIN TripSegments : k[2] = AllLots}
           Bar(s) == <<s.type, AllLots, Bin(s.start, end)>>
           bar == [s \in SegmentRows |-> Bar(s)]
           All == {Bar(s) : s \in SegmentRows}
           part == [k \in Bars |-> In(k)]
           g == [k \in Bars |-> TripSegments[k].segments]
<1>1. /\ DOMAIN TripSegments = UNION {Keys(s) : s \in SegmentRows}
      /\ \A k \in DOMAIN TripSegments : TripSegments[k].segments = Cardinality(In(k))
  BY DEF TripSegments, Count
<1>2. \A s : \A k : k \in Keys(s) /\ k[2] = AllLots <=> k = Bar(s)
  OBVIOUS
<1>3. \A k : \A s : s \in In(k) <=> s \in SegmentRows /\ k \in Keys(s)
  OBVIOUS
<1>4. IsFiniteSet(SegmentRows)
  BY RowsFinite
<1> HIDE DEF end, Keys, In, Bar
<1>5. Bars = All
  <2>1. ASSUME NEW k \in Bars PROVE k \in All
    <3>1. k \in DOMAIN TripSegments /\ k[2] = AllLots
      OBVIOUS
    <3>2. PICK s \in SegmentRows : k \in Keys(s)
      BY <1>1, <3>1
    <3>3. k = Bar(s)
      BY <1>2, <3>1, <3>2
    <3> QED
      BY <3>3
  <2>2. ASSUME NEW s \in SegmentRows PROVE Bar(s) \in Bars
    <3>1. Bar(s) \in Keys(s) /\ Bar(s)[2] = AllLots
      BY <1>2
    <3>2. Bar(s) \in DOMAIN TripSegments
      BY <1>1, <3>1
    <3> QED
      BY <3>1, <3>2
  <2>3. All \subseteq Bars
    <3> HIDE DEF Bars
    <3> QED
      BY <2>2
  <2> HIDE DEF Bars, All
  <2> QED
    BY <2>1, <2>3
<1>6. IsFiniteSet(All)
  <2>1. \A k \in All : \E s \in SegmentRows : k = bar[s]
    OBVIOUS
  <2> HIDE DEF All, bar
  <2> QED
    BY <1>4, <2>1, ImageFinite
<1>7. \A s \in SegmentRows : bar[s] \in Bars
  BY <1>5
<1>8. \A k \in Bars : \A s : s \in part[k] <=> s \in SegmentRows /\ bar[s] = k
  BY <1>1, <1>2, <1>3
<1>9. g = [k \in Bars |-> Cardinality(part[k])]
  BY <1>1
<1> HIDE DEF Bars, All, bar, part, g
<1>10. SumFunction(g) = Cardinality(SegmentRows)
  <2>1. Sorted(SegmentRows, Bars, bar, part, g)
    BY <1>4, <1>5, <1>6, <1>7, <1>8, <1>9 DEF Sorted
  <2> QED
    BY ONLY <2>1, CountByKey
<1> QED
  BY <1>10 DEF g, Bars, Count

(***************************************************************************)
(* The report of a run.                                                    *)
(***************************************************************************)
LEMMA PeopleKnown ==
  ASSUME OutputsAssumption, AnalyticsAssumption, Settled, NEW v \in Drivers
  PROVE  KnownOf(Person(v))
<1>1. FirstChoice[v] \in Lots /\ BuildingOf[v] \in Buildings
  BY DEF OutputsAssumption, AnalyticsAssumption
<1> QED
  BY <1>1, PersonTrue DEF KnownOf

LEMMA AnalyseReports ==
  ASSUME Analyse
  PROVE  /\ report'.destinations = Destinations /\ report'.attempts = Attempts
         /\ report'.search = SearchTimes /\ report'.segments = TripSegments
         /\ stage = "written" /\ stage' = "analysed"
         /\ now' = now /\ place' = place /\ stood' = stood /\ tracker' = tracker
         /\ assigned' = assigned /\ visited' = visited /\ events' = events
BY DEF Analyse

LEMMA AnalyseSettles ==
  ASSUME Settled, Analyse
  PROVE  Settled'
<1>1. /\ stage' = "analysed" /\ now' = now /\ place' = place /\ stood' = stood
      /\ tracker' = tracker /\ assigned' = assigned /\ events' = events
  BY AnalyseReports
<1> QED
  BY <1>1 DEF Settled

LEMMA AnalyseTrue ==
  ASSUME OutputsAssumption, Settled, Analyse
  PROVE  OutcomesAreTrue'
<1> DEFINE people == [v \in Drivers |-> Person(v)]
<1>1. report'.destinations.people = people
  BY AnalyseReports DEF Destinations
<1>2. stage' = "analysed" /\ place' = place /\ stood' = stood /\ assigned' = assigned
  BY AnalyseReports
<1>3. ASSUME NEW v \in Drivers
      PROVE  /\ report'.destinations.people[v].final =
                  IF stood'[v] = None THEN None ELSE LotOf[stood'[v]]
             /\ report'.destinations.people[v].status = "unserved"
                  <=> place'[v] = "gone" /\ stood'[v] = None /\ assigned'[v] = None
  <2>1. report'.destinations.people[v] = Person(v)
    BY <1>1
  <2> QED
    BY <1>2, <2>1, PersonTrue
<1> QED
  BY <1>3 DEF OutcomesAreTrue

LEMMA AnalyseBalances ==
  ASSUME OutputsAssumption, AnalyticsAssumption, Settled, Analyse
  PROVE  ReportBalances'
<1> DEFINE d == report'.destinations
           people == [v \in Drivers |-> Person(v)]
           lots == [l \in Lots |-> LotTotals(people, l)]
           places == [b \in Buildings |-> BuildingTotals(people, b)]
           flows == Flows(people)
           Lost(l) == {v \in Drivers : d.people[v].initial = l /\ d.people[v].final = None
                                       /\ d.people[v].status # "unserved"}
<1>1. /\ d.people = people /\ d.lots = lots /\ d.buildings = places /\ d.flows = flows
      /\ d.parked = Count({v \in Drivers : people[v].final # None})
      /\ d.unserved = Count({v \in Drivers : people[v].status = "unserved"})
      /\ d.without = Count(Drivers) - Count({v \in Drivers : people[v].final # None})
                                    - Count({v \in Drivers : people[v].status = "unserved"})
  <2>1. d = Destinations
    BY AnalyseReports
  <2>2. d.people = people
    BY <2>1 DEF Destinations
  <2>3. d.lots = lots
    BY <2>1 DEF Destinations
  <2>4. d.buildings = places
    BY <2>1 DEF Destinations
  <2>5. d.flows = flows
    BY <2>1 DEF Destinations, Flows
  <2>6. /\ d.parked = Count({v \in Drivers : people[v].final # None})
        /\ d.unserved = Count({v \in Drivers : people[v].status = "unserved"})
    BY <2>1 DEF Destinations
  <2>7. d.without = Count(Drivers) - Count({v \in Drivers : people[v].final # None})
                      - Count({v \in Drivers : people[v].status = "unserved"})
    BY <2>1 DEF Destinations
  <2> QED
    BY <2>2, <2>3, <2>4, <2>5, <2>6, <2>7
<1>2. \A v \in Drivers : KnownOf(people[v])
  BY PeopleKnown
<1>3. ASSUME NEW l \in Lots
      PROVE  d.lots[l].parked + d.lots[l].out + d.lots[l].unserved + Count(Lost(l))
               = d.lots[l].initial + d.lots[l].in
  <2> DEFINE lost == {v \in Drivers : people[v].initial = l /\ people[v].final = None
                                      /\ people[v].status # "unserved"}
             t == LotTotals(people, l)
  <2>1. d.lots[l] = t
    BY <1>1
  <2>2. Lost(l) = lost
    BY <1>1
  <2> HIDE DEF d, people
  <2>3. t.parked + t.out + t.unserved + Cardinality(lost) = t.initial + t.in
    BY <1>2, LotBalances
  <2> HIDE DEF lost, t, Lost
  <2> QED
    BY <2>1, <2>2, <2>3 DEF Count
<1> HIDE DEF d, people, Lost
<1>4. SumFunction([l \in Lots |-> d.lots[l].in]) = SumFunction([l \in Lots |-> d.lots[l].out])
  <2>1. /\ [l \in Lots |-> d.lots[l].in] = [l \in Lots |-> LotTotals(people, l).in]
        /\ [l \in Lots |-> d.lots[l].out] = [l \in Lots |-> LotTotals(people, l).out]
    BY <1>1
  <2>2. SumFunction([l \in Lots |-> LotTotals(people, l).in])
          = SumFunction([l \in Lots |-> LotTotals(people, l).out])
    BY <1>2, SentBalances
  <2> QED
    BY <2>1, <2>2
<1>5. /\ d.parked = SumFunction([l \in Lots |-> d.lots[l].parked])
      /\ d.parked = SumFunction([b \in Buildings |-> d.buildings[b].parked])
  <2>1. /\ [l \in Lots |-> d.lots[l].parked] = [l \in Lots |-> LotTotals(people, l).parked]
        /\ [b \in Buildings |-> d.buildings[b].parked]
             = [b \in Buildings |-> BuildingTotals(people, b).parked]
    BY <1>1
  <2> DEFINE parked == Count({v \in Drivers : people[v].final # None})
  <2>2. /\ parked = SumFunction([l \in Lots |-> LotTotals(people, l).parked])
        /\ parked = SumFunction([b \in Buildings |-> BuildingTotals(people, b).parked])
    BY <1>2, ParkedBalances
  <2> QED
    BY <1>1, <2>1, <2>2
<1>6. d.without = SumFunction([b \in Buildings |-> d.buildings[b].without])
  <2>1. [b \in Buildings |-> d.buildings[b].without]
             = [b \in Buildings |-> BuildingTotals(people, b).without]
    BY <1>1
  <2>2. Count(Drivers) - Count({v \in Drivers : people[v].final # None})
                       - Count({v \in Drivers : people[v].status = "unserved"})
          = SumFunction([b \in Buildings |-> BuildingTotals(people, b).without])
    BY <1>2, WithoutBalances
  <2> QED
    BY <1>1, <2>1, <2>2
<1>7. ASSUME NEW b \in Buildings
      PROVE  /\ d.buildings[b].planned = d.buildings[b].parked + d.buildings[b].unserved
                                           + d.buildings[b].without
             /\ d.buildings[b].parked = SumFunction([l \in Lots |-> d.flows[<<l, b>>]])
  <2>1. d.buildings[b] = BuildingTotals(people, b)
    BY <1>1
  <2>2. d.buildings[b].planned = d.buildings[b].parked + d.buildings[b].unserved
                                   + d.buildings[b].without
    BY <2>1, BuildingBalances
  <2>3. BuildingTotals(people, b).parked = SumFunction(FlowsTo(people, b))
    BY <1>2, FlowsBalance
  <2> HIDE DEF flows
  <2>4. [l \in Lots |-> d.flows[<<l, b>>]] = FlowsTo(people, b)
    BY <1>1 DEF FlowsTo, flows
  <2> QED
    BY <2>1, <2>2, <2>3, <2>4
<1>8. report'.attempts.unserved <= d.unserved
  <2>1. {v \in Drivers : people[v].status = "unserved"}
          = {v \in Drivers : Person(v).status = "unserved"}
    BY DEF people
  <2>2. Attempts.unserved <= Count({v \in Drivers : Person(v).status = "unserved"})
    BY FailedAttempts
  <2>3. report'.attempts = Attempts
    BY AnalyseReports
  <2> QED
    BY <1>1, <2>1, <2>2, <2>3
<1>9. report'.search.summary.count = SumFunction([p \in report'.search.points |-> p.drivers])
  <2>1. report'.search = SearchTimes
    BY AnalyseReports
  <2> QED
    BY <2>1, SearchBalances
<1>10. Count(SegmentRows') =
         SumFunction([k \in {key \in DOMAIN report'.segments : key[2] = AllLots} |->
                        report'.segments[k].segments])
  <2>1. report'.segments = TripSegments /\ SegmentRows' = SegmentRows
    BY AnalyseReports DEF SegmentRows
  <2>2. \A v \in Drivers : tracker[v] \in Record
    BY DEF Settled, Accounted
  <2>3. Count(SegmentRows)
          = SumFunction([k \in {key \in DOMAIN TripSegments : key[2] = AllLots} |->
                           TripSegments[k].segments])
    BY <2>2, SegmentsBalance
  <2> QED
    BY <2>1, <2>3
<1> QED
  BY <1>3, <1>4, <1>5, <1>6, <1>7, <1>8, <1>9, <1>10 DEF ReportBalances, Count, Lost, d

(***************************************************************************)
(* Search times.                                                           *)
(***************************************************************************)
LEMMA StoppedTimes ==
  ASSUME OutputsAssumption, NEW r, Stopped(r)
  PROVE  LET parked == {i \in DOMAIN r.segments : r.segments[i].segment.type = "parked"}
             search == {i \in DOMAIN r.segments : r.segments[i].segment.type \in SearchSegments}
         IN  /\ \A i \in DOMAIN r.segments : i > 1 /\ (\A p \in parked : i <= p) =>
                  r.segments[i].segment.start = r.segments[i - 1].finish
             /\ r.search = r.parkedAt - r.segments[Min(search)].segment.start
             /\ r.search <= r.parkedAt - r.arrival
<1> DEFINE seq == r.segments
           parked == {i \in DOMAIN seq : seq[i].segment.type = "parked"}
           search == {i \in DOMAIN seq : seq[i].segment.type \in SearchSegments}
<1>1. r \in Record /\ r.parkedAt \in Nat /\ r.arrival \in Nat
  BY StoppedSearch DEF Stopped, Record, Times
<1>2. seq \in Seq(EndedSegment) /\ Len(seq) \in Nat /\ DOMAIN seq = 1 .. Len(seq)
  <2>1. seq \in Seq(EndedSegment)
    BY <1>1 DEF Record
  <2> QED
    BY <2>1
<1>3. PICK k \in 2 .. Len(seq) : StopAfter(r, k)
  BY DEF Stopped
<1>4. /\ Walked(seq, k, r.parkedAt) /\ seq[k].finish = r.parkedAt
      /\ r.search = r.parkedAt - seq[1].finish
      /\ r.arrival <= seq[1].finish
      /\ Len(seq) > k => seq[k + 1].segment.type = "parked"
                         /\ seq[k + 1].segment.start = r.parkedAt
  BY <1>3 DEF StopAfter
<1>5. seq[1].finish \in Nat
  <2>1. 1 \in 1 .. Len(seq)
    BY <1>2, <1>3
  <2> QED
    BY <1>2, <2>1, SegmentFacts
<1>6. ASSUME NEW i \in DOMAIN seq, i > 1, \A p \in parked : i <= p
      PROVE  seq[i].segment.start = seq[i - 1].finish
  <2>1. CASE i <= k
    BY <1>2, <1>3, <1>4, <1>6, <2>1 DEF Walked
  <2>2. CASE i > k
    <3>1. k + 1 \in DOMAIN seq /\ Len(seq) > k
      BY <1>2, <1>3, <2>2
    <3>2. i <= k + 1
      BY <1>4, <1>6, <3>1
    <3>3. i = k + 1 /\ i - 1 = k
      <4>1. i \in Nat /\ k \in Nat
        BY <1>2, <1>3
      <4> QED
        BY <2>2, <3>2, <4>1
    <3> QED
      BY <1>4, <3>1, <3>3
  <2> QED
    BY <1>2, <1>3, <2>1, <2>2
<1>7. Min(search) = 2
  <2>1. 2 \in DOMAIN seq /\ 2 \in 1 .. k /\ 1 \in 1 .. k
    BY <1>2, <1>3
  <2>2. 2 \in search
    BY <1>4, <2>1 DEF Walked
  <2>3. 1 \notin search
    BY <1>4, <2>1 DEF Walked, SearchSegments
  <2>4. search \subseteq Nat /\ search # {} /\ \A i \in search : i >= 1
    <3>1. search \subseteq 1 .. Len(seq)
      BY <1>2
    <3> HIDE DEF search, seq
    <3> QED
      BY <2>2, <3>1
  <2> HIDE DEF search
  <2>5. Min(search) \in search /\ \A n \in search : Min(search) <= n
    BY <2>4, MinMember
  <2> DEFINE m == Min(search)
  <2>6. m \in Nat /\ m >= 1 /\ m <= 2 /\ m # 1
    BY <2>2, <2>3, <2>4, <2>5
  <2> HIDE DEF m
  <2>7. m = 2
    BY <2>6
  <2> QED
    BY <2>7 DEF m
<1>8. seq[2].segment.start = seq[1].finish
  BY <1>3, <1>4 DEF Walked
<1>9. r.search = r.parkedAt - seq[Min(search)].segment.start
  BY <1>4, <1>7, <1>8
<1>10. r.search <= r.parkedAt - r.arrival
  BY <1>1, <1>4, <1>5
<1> QED
  BY <1>6, <1>9, <1>10

LEMMA TravelTimes ==
  ASSUME OutputsAssumption, NEW t \in Nat, NEW r \in Record,
         Journey(r.open, r.segments, r.arrival, t),
         r.search # None => r.search = Elapsed(r.segments)
  PROVE  /\ \A i \in DOMAIN r.segments : i > 1 =>
              r.segments[i].segment.start = r.segments[i - 1].finish
         /\ r.search # None /\ r.search > 0 => r.search <= t - r.arrival
<1> DEFINE seq == r.segments
           n == Len(seq)
<1>1. seq \in Seq(EndedSegment) /\ n \in Nat /\ DOMAIN seq = 1 .. n
  <2>1. seq \in Seq(EndedSegment)
    BY DEF Record
  <2> QED
    BY <2>1
<1>2. Walked(seq, n, t) /\ LotReached(r.open, seq, r.arrival, t)
  BY DEF Journey
<1>3. \A i \in DOMAIN seq : i > 1 => seq[i].segment.start = seq[i - 1].finish
  BY <1>1, <1>2 DEF Walked
<1>4. ASSUME r.search # None, r.search > 0 PROVE r.search <= t - r.arrival
  <2>1. r.search = Elapsed(seq)
    BY <1>4
  <2>2. seq # <<>> /\ n # 0
    BY <1>1, <1>4, <2>1 DEF Elapsed
  <2>3. n \in 1 .. n /\ 1 \in 1 .. n
    BY <1>1, <2>2
  <2>4. seq[n].finish \in Nat /\ seq[1].finish \in Nat
    BY <1>1, <2>3, SegmentFacts
  <2>5. r.search = seq[n].finish - seq[1].finish
    BY <2>1, <2>2 DEF Elapsed
  <2>6. n # 1
    BY <1>4, <2>4, <2>5
  <2>7. r.arrival # None /\ r.arrival <= seq[1].finish
    <3>1. n > 1
      <4> HIDE DEF n
      <4> QED
        BY <1>1, <2>2, <2>6
    <3> QED
      BY <1>2, <3>1 DEF LotReached
  <2>8. r.arrival \in Nat
    BY <2>7 DEF Record, Times
  <2>9. seq[n].finish <= t
    BY <1>2, <2>3 DEF Walked
  <2> DEFINE x == seq[n].finish
             y == seq[1].finish
             z == r.arrival
  <2>10. x \in Nat /\ y \in Nat /\ z \in Nat /\ x <= t /\ z <= y
    BY <2>4, <2>7, <2>8, <2>9
  <2>11. r.search = x - y
    BY <2>5
  <2> HIDE DEF x, y, z
  <2>12. x - y <= t - z
    BY <2>10
  <2>13. r.search <= t - z
    BY <2>11, <2>12
  <2> QED
    BY <2>13 DEF z
<1> QED
  BY <1>3, <1>4

LEMMA SettledTimes ==
  ASSUME OutputsAssumption, Settled
  PROVE  SearchTimesElapsed
<1> SUFFICES ASSUME NEW v \in Drivers
             PROVE  LET r == tracker[v]
                        Part(i) == r.segments[i]
                        parked == {i \in DOMAIN r.segments : Part(i).segment.type = "parked"}
                        search == {i \in DOMAIN r.segments :
                                     Part(i).segment.type \in SearchSegments}
                    IN
                    /\ \A i \in DOMAIN r.segments : i > 1 /\ (\A p \in parked : i <= p) =>
                         Part(i).segment.start = Part(i - 1).finish
                    /\ stood[v] # None =>
                         r.search = r.parkedAt - Part(Min(search)).segment.start
                    /\ r.search # None /\ r.search > 0 =>
                         r.search <= (IF stood[v] # None THEN r.parkedAt ELSE now) - r.arrival
  BY DEF SearchTimesElapsed
<1>1. Accounted(place[v], stood[v], tracker[v], assigned[v], now) /\ now \in Nat
  BY DEF Settled
<1>2. CASE stood[v] # None
  <2>1. Stopped(tracker[v])
    BY <1>1, <1>2 DEF Accounted
  <2> QED
    BY <1>2, <2>1, StoppedTimes
<1>3. CASE stood[v] = None
  <2>1. /\ tracker[v] \in Record
        /\ Journey(tracker[v].open, tracker[v].segments, tracker[v].arrival, now)
        /\ tracker[v].search # None => tracker[v].search = Elapsed(tracker[v].segments)
    BY <1>1, <1>3 DEF Accounted
  <2> QED
    BY <1>1, <1>3, <2>1, TravelTimes
<1> QED
  BY <1>2, <1>3

(***************************************************************************)
(* The invariant.                                                          *)
(***************************************************************************)
LEMMA InitInv ==
  ASSUME OutputsAssumption, AnalyticsInit
  PROVE  Inv
<1>1. Running /\ stage = "running"
  BY StartRuns DEF AnalyticsInit, OutputsInit
<1> QED
  BY <1>1 DEF Inv, OutcomesAreTrue, ReportBalances

LEMMA StepsWhileRunning ==
  ASSUME OutputsNext
  PROVE  stage = "running"
<1>1. CASE Recover \/ WriteOutputs
  BY <1>1 DEF Recover, WriteOutputs
<1>2. ASSUME NEW v \in Drivers,
             \/ Departs(v) \/ Passes(v) \/ EntersLot(v) \/ StopStarts(v) \/ StopEnds(v)
             \/ Stays(v) \/ Arrives(v)
      PROVE  stage = "running"
  <2>1. CASE Departs(v) \/ EntersLot(v) \/ StopStarts(v) \/ StopEnds(v) \/ Stays(v) \/ Arrives(v)
    BY <2>1 DEF Departs, EntersLot, StopStarts, StopEnds, Stays, Arrives, Iteration
  <2>2. CASE Passes(v)
    BY <2>2 DEF Passes, DrivesPast, TakesSpace, SearchesOn, GivesUp, Iteration
  <2> QED
    BY <1>2, <2>1, <2>2
<1> QED
  BY <1>1, <1>2 DEF OutputsNext

LEMMA NextInv ==
  ASSUME OutputsAssumption, AnalyticsAssumption, Inv, AnalyticsNext
  PROVE  Inv'
<1>1. CASE OutputsNext /\ UNCHANGED report
  <2>1. Running
    BY <1>1, StepsWhileRunning DEF Inv, Settled
  <2>2. CASE \E v \in Drivers :
               \/ Departs(v) \/ Passes(v) \/ EntersLot(v) \/ StopStarts(v) \/ StopEnds(v)
               \/ Stays(v) \/ Arrives(v)
    <3>1. Running'
      BY <2>1, <2>2, VehicleRuns
    <3> QED
      BY <3>1 DEF Running, Inv, OutcomesAreTrue, ReportBalances
  <2>3. CASE Recover
    <3>1. Running'
      BY <2>1, <2>3, RecoverRuns
    <3> QED
      BY <3>1 DEF Running, Inv, OutcomesAreTrue, ReportBalances
  <2>4. CASE WriteOutputs
    <3>1. Settled' /\ stage' = "written"
      BY <2>1, <2>4, WriteSettles DEF WriteOutputs
    <3> QED
      BY <3>1 DEF Inv, OutcomesAreTrue, ReportBalances
  <2> QED
    BY <1>1, <2>2, <2>3, <2>4 DEF OutputsNext
<1>2. CASE Analyse
  <2>1. Settled
    BY <1>2, AnalyseReports DEF Inv, Running
  <2>2. Settled' /\ OutcomesAreTrue' /\ ReportBalances'
    BY <1>2, <2>1, AnalyseSettles, AnalyseTrue, AnalyseBalances
  <2> QED
    BY <2>2 DEF Inv
<1> QED
  BY <1>1, <1>2 DEF AnalyticsNext

LEMMA StutterInv ==
  ASSUME Inv, UNCHANGED analyticsVars
  PROVE  Inv'
<1>1. /\ now' = now /\ stage' = stage /\ place' = place /\ stood' = stood
      /\ tracker' = tracker /\ assigned' = assigned /\ visited' = visited
      /\ events' = events /\ saved' = saved /\ report' = report
  BY DEF analyticsVars, outputVars
<1>2. Running => Running'
  BY <1>1 DEF Running, Checkpointed
<1>3. Settled => Settled'
  BY <1>1 DEF Settled
<1>4. OutcomesAreTrue'
  BY <1>1 DEF Inv, OutcomesAreTrue
<1>5. ReportBalances'
  <2>1. SegmentRows' = SegmentRows
    BY <1>1 DEF SegmentRows
  <2> QED
    BY <1>1, <2>1 DEF Inv, ReportBalances
<1> QED
  BY <1>2, <1>3, <1>4, <1>5 DEF Inv

\* Every driver's record and both copies of the books fit what SUMO did: the
\* inductive invariant of VehicleTracker, the main loop, its recovery and finalize.
THEOREM InvHolds == AnalyticsSpec => []Inv
<1>1. AnalyticsInit => Inv
  BY OutputsAssumption, InitInv
<1>2. Inv /\ [AnalyticsNext]_analyticsVars => Inv'
  BY OutputsAssumption, AnalyticsAssumption, NextInv, StutterInv
<1> QED
  BY <1>1, <1>2, PTL DEF AnalyticsSpec

\* _parking_destination_results reports of every driver the lot it stopped in, and
\* as unserved those that are gone without a space, also after replays.
THEOREM OutcomesAreTrueHolds == AnalyticsSpec => []OutcomesAreTrue
<1>1. Inv => OutcomesAreTrue
  BY DEF Inv
<1> QED
  BY <1>1, InvHolds, PTL

\* The tables and charts of one analytics.snapshot.json have the same drivers and
\* segments, for any number of drivers, lots and buildings.
THEOREM ReportBalancesHolds == AnalyticsSpec => []ReportBalances
<1>1. Inv => ReportBalances
  BY DEF Inv
<1> QED
  BY <1>1, InvHolds, PTL

\* A search time that finalize writes is the time that passed, although
\* VehicleTracker adds up the lengths of single segments.
THEOREM SearchTimesElapsedHolds == AnalyticsSpec => []SearchTimesElapsed
<1>1. Inv => SearchTimesElapsed
  <2> SUFFICES ASSUME Inv PROVE SearchTimesElapsed
    OBVIOUS
  <2>1. CASE Running
    BY <2>1 DEF Running, SearchTimesElapsed
  <2>2. CASE Settled
    BY <2>2, OutputsAssumption, SettledTimes
  <2> QED
    BY <2>1, <2>2 DEF Inv
<1> QED
  BY <1>1, InvHolds, PTL

(***************************************************************************)
(* Charts of fewer points.  A thinned chart has some of the points between *)
(* two of them, in order, and one that is as high as any.                  *)
(***************************************************************************)
ChartPoint == [time : Nat, occupied : Nat]

Rising(points) ==
  /\ points \in Seq(ChartPoint)
  /\ \A i \in DOMAIN points : \A j \in 1 .. (i - 1) : points[j].time < points[i].time

Thinned(out, points, from, to) ==
  /\ out \in Seq(ChartPoint) /\ Len(out) >= 1
  /\ \A i \in DOMAIN out : \E j \in from .. to : out[i] = points[j]
  /\ \A i \in DOMAIN out : i > 1 => out[i - 1].time < out[i].time
  /\ \A j \in from .. to : \E i \in DOMAIN out : points[j].occupied <= out[i].occupied

LEMMA RisingFacts ==
  ASSUME NEW points, Rising(points), NEW j \in 1 .. Len(points)
  PROVE  /\ points[j] \in ChartPoint /\ points[j].time \in Nat /\ points[j].occupied \in Nat
         /\ \A i \in 1 .. (j - 1) : points[i].time < points[j].time
<1>1. points \in Seq(ChartPoint) /\ DOMAIN points = 1 .. Len(points)
  BY DEF Rising
<1>2. points[j] \in ChartPoint
  BY <1>1
<1>3. \A i \in 1 .. (j - 1) : points[i].time < points[j].time
  BY <1>1 DEF Rising
<1> QED
  BY <1>2, <1>3 DEF ChartPoint

LEMMA ThinnedOne ==
  ASSUME NEW points, Rising(points), NEW j \in 1 .. Len(points)
  PROVE  Thinned(<<points[j]>>, points, j, j) /\ Len(<<points[j]>>) = 1
<1> DEFINE p == points[j]
<1>1. p \in ChartPoint /\ p.occupied \in Nat /\ j \in Nat
  BY RisingFacts DEF Rising
<1>2. /\ <<p>> \in Seq(ChartPoint) /\ Len(<<p>>) = 1 /\ <<p>>[1] = p /\ DOMAIN <<p>> = {1}
  BY <1>1
<1>3. j .. j = {j}
  BY <1>1
<1>4. p = points[j]
  OBVIOUS
<1> HIDE DEF p
<1>5. Thinned(<<p>>, points, j, j)
  BY <1>1, <1>2, <1>3, <1>4 DEF Thinned
<1> QED
  BY <1>2, <1>5 DEF p

LEMMA ThinnedAll ==
  ASSUME NEW points, Rising(points), points # <<>>
  PROVE  Thinned(points, points, 1, Len(points))
<1> DEFINE n == Len(points)
<1>1. points \in Seq(ChartPoint) /\ DOMAIN points = 1 .. n /\ n \in Nat /\ n >= 1
  BY DEF Rising
<1> HIDE DEF n
<1>2. \A i \in 1 .. n : i > 1 => points[i - 1].time < points[i].time
  <2> TAKE i \in 1 .. n
  <2>1. i > 1 => i - 1 \in 1 .. (i - 1)
    BY <1>1
  <2> QED
    BY <1>1, <2>1 DEF Rising
<1>3. \A j \in 1 .. n : points[j].occupied <= points[j].occupied
  <2> TAKE j \in 1 .. n
  <2>1. points[j].occupied \in Nat
    BY RisingFacts DEF n
  <2> QED
    BY <2>1
<1>4. Thinned(points, points, 1, n)
  BY <1>1, <1>2, <1>3 DEF Thinned, n
<1> QED
  BY <1>4 DEF n

LEMMA ThinnedJoins ==
  ASSUME NEW points, Rising(points), NEW a \in Nat, NEW b \in Nat, NEW c \in Nat,
         1 <= a, a <= b, b < c, c <= Len(points),
         NEW x, Thinned(x, points, a, b), NEW y, Thinned(y, points, b + 1, c)
  PROVE  Thinned(x \o y, points, a, c) /\ Len(x \o y) = Len(x) + Len(y)
<1> DEFINE z == x \o y
           m == Len(x)
           n == Len(y)
<1>1. /\ m \in Nat /\ n \in Nat /\ m >= 1 /\ n >= 1
      /\ DOMAIN x = 1 .. m /\ DOMAIN y = 1 .. n /\ DOMAIN z = 1 .. (m + n)
      /\ z \in Seq(ChartPoint) /\ Len(z) = m + n
      /\ \A i \in 1 .. m : z[i] = x[i]
      /\ \A i \in 1 .. n : z[m + i] = y[i]
  <2>1. x \in Seq(ChartPoint) /\ y \in Seq(ChartPoint) /\ m >= 1 /\ n >= 1
    BY DEF Thinned
  <2>2. m \in Nat /\ n \in Nat /\ DOMAIN x = 1 .. m /\ DOMAIN y = 1 .. n
    BY <2>1
  <2>3. z \in Seq(ChartPoint) /\ Len(z) = m + n /\ DOMAIN z = 1 .. (m + n)
    BY <2>1
  <2>4. \A i \in 1 .. m : z[i] = x[i]
    BY <2>1
  <2>5. \A i \in 1 .. n : z[m + i] = y[i]
    BY <2>1
  <2> QED
    BY <2>1, <2>2, <2>3, <2>4, <2>5
<1>2. /\ \A i \in 1 .. m : \E j \in a .. b : x[i] = points[j]
      /\ \A i \in 1 .. m : i > 1 => x[i - 1].time < x[i].time
      /\ \A j \in a .. b : \E i \in 1 .. m : points[j].occupied <= x[i].occupied
  BY <1>1 DEF Thinned
<1>3. /\ \A i \in 1 .. n : \E j \in (b + 1) .. c : y[i] = points[j]
      /\ \A i \in 1 .. n : i > 1 => y[i - 1].time < y[i].time
      /\ \A j \in (b + 1) .. c : \E i \in 1 .. n : points[j].occupied <= y[i].occupied
  BY <1>1 DEF Thinned
<1> HIDE DEF z, m, n
<1>4. \A i \in 1 .. (m + n) : i \in 1 .. m \/ (i - m \in 1 .. n /\ z[i] = y[i - m])
  <2> TAKE i \in 1 .. (m + n)
  <2> DEFINE k == i - m
  <2>1. i \in 1 .. m \/ (k \in 1 .. n /\ i = m + k)
    BY <1>1
  <2> HIDE DEF k
  <2>2. i \in 1 .. m \/ (k \in 1 .. n /\ z[i] = y[k])
    BY <1>1, <2>1
  <2> QED
    BY <2>2 DEF k
<1>5. a .. b \subseteq a .. c /\ (b + 1) .. c \subseteq a .. c
  OBVIOUS
<1>6. ASSUME NEW i \in 1 .. (m + n) PROVE \E j \in a .. c : z[i] = points[j]
  <2>1. CASE i \in 1 .. m
    BY <1>1, <1>2, <1>5, <2>1
  <2>2. CASE i - m \in 1 .. n /\ z[i] = y[i - m]
    <3> DEFINE k == i - m
    <3>1. k \in 1 .. n /\ z[i] = y[k]
      BY <2>2
    <3> HIDE DEF k
    <3> QED
      BY <1>3, <1>5, <3>1
  <2> QED
    BY <1>4, <2>1, <2>2
<1>7. ASSUME NEW i \in 1 .. (m + n), i > 1 PROVE z[i - 1].time < z[i].time
  <2>1. CASE i <= m
    <3>1. i \in 1 .. m /\ i - 1 \in 1 .. m
      BY <1>1, <1>7, <2>1
    <3> QED
      BY <1>1, <1>2, <1>7, <3>1
  <2>2. CASE i = m + 1
    <3>1. z[i - 1] = x[m] /\ z[i] = y[1]
      BY <1>1, <2>2
    <3>2. PICK j \in a .. b : x[m] = points[j]
      BY <1>1, <1>2
    <3>3. PICK k \in (b + 1) .. c : y[1] = points[k]
      BY <1>1, <1>3
    <3>4. k \in 1 .. Len(points) /\ j \in 1 .. (k - 1)
      BY DEF Rising
    <3>5. points[j].time < points[k].time
      BY <3>4, RisingFacts
    <3> QED
      BY <3>1, <3>2, <3>3, <3>5
  <2>3. CASE i > m + 1
    <3> DEFINE k == i - m
    <3>1. k \in 1 .. n /\ k > 1 /\ k - 1 \in 1 .. n /\ i = m + k /\ i - 1 = m + (k - 1)
      BY <1>1, <2>3
    <3> HIDE DEF k
    <3>2. z[i] = y[k] /\ z[i - 1] = y[k - 1]
      BY <1>1, <3>1
    <3> QED
      BY <1>3, <3>1, <3>2
  <2> QED
    BY <1>1, <2>1, <2>2, <2>3
<1>8. ASSUME NEW j \in a .. c PROVE \E i \in 1 .. (m + n) : points[j].occupied <= z[i].occupied
  <2>1. CASE j \in a .. b
    <3>1. PICK i \in 1 .. m : points[j].occupied <= x[i].occupied
      BY <1>2, <2>1
    <3>2. i \in 1 .. (m + n) /\ z[i] = x[i]
      BY <1>1
    <3> QED
      BY <3>1, <3>2
  <2>2. CASE j \in (b + 1) .. c
    <3>1. PICK i \in 1 .. n : points[j].occupied <= y[i].occupied
      BY <1>3, <2>2
    <3>2. m + i \in 1 .. (m + n) /\ z[m + i] = y[i]
      BY <1>1
    <3> QED
      BY <3>1, <3>2
  <2> QED
    BY <2>1, <2>2
<1>9. Thinned(z, points, a, c)
  <2>1. z \in Seq(ChartPoint) /\ Len(z) >= 1 /\ DOMAIN z = 1 .. (m + n)
    BY <1>1
  <2>2. \A i \in DOMAIN z : \E j \in a .. c : z[i] = points[j]
    BY <2>1, <1>6
  <2>3. \A i \in DOMAIN z : i > 1 => z[i - 1].time < z[i].time
    BY <2>1, <1>7
  <2>4. \A j \in a .. c : \E i \in DOMAIN z : points[j].occupied <= z[i].occupied
    BY <2>1, <1>8
  <2> QED
    BY <2>1, <2>2, <2>3, <2>4 DEF Thinned
<1> QED
  BY <1>1, <1>9 DEF z, m, n

(***************************************************************************)
(* The points of a bucket that _downsample_occupancy keeps.                *)
(***************************************************************************)
FirstLeast(bucket) ==
  CHOOSE i \in DOMAIN bucket :
    /\ \A j \in DOMAIN bucket : ~ (bucket[j].occupied < bucket[i].occupied)
    /\ \A j \in 1 .. (i - 1) : bucket[i].occupied < bucket[j].occupied

FirstMost(bucket) ==
  CHOOSE i \in DOMAIN bucket :
    /\ \A j \in DOMAIN bucket : ~ (bucket[j].occupied > bucket[i].occupied)
    /\ \A j \in 1 .. (i - 1) : bucket[i].occupied > bucket[j].occupied

LEMMA ExtremesAre ==
  ASSUME NEW bucket
  PROVE  Extremes(bucket) =
           IF FirstLeast(bucket) = FirstMost(bucket) THEN <<bucket[FirstLeast(bucket)]>>
           ELSE <<bucket[Min({FirstLeast(bucket), FirstMost(bucket)})],
                  bucket[Max({FirstLeast(bucket), FirstMost(bucket)})]>>
BY DEF Extremes, FirstLeast, FirstMost

LEMMA BucketFacts ==
  ASSUME NEW bucket \in Seq(ChartPoint), NEW i \in 1 .. Len(bucket)
  PROVE  bucket[i] \in ChartPoint /\ bucket[i].occupied \in Nat
<1>1. bucket[i] \in ChartPoint
  OBVIOUS
<1> QED
  BY <1>1 DEF ChartPoint

\* A set of indices with a property has a first one.
LEMMA FirstIndex ==
  ASSUME NEW n \in Nat, NEW S, S \subseteq 1 .. n, S # {}
  PROVE  \E i \in S : \A j \in 1 .. (i - 1) : j \notin S
<1>1. S \subseteq Nat
  OBVIOUS
<1>2. PICK i \in S : \A j \in S : i <= j
  BY <1>1, LeastNumber
<1>3. \A j \in 1 .. (i - 1) : ~ (i <= j)
  BY <1>1
<1> QED
  BY <1>2, <1>3

LEMMA FirstLeastIs ==
  ASSUME NEW bucket \in Seq(ChartPoint), Len(bucket) >= 1
  PROVE  FirstLeast(bucket) \in 1 .. Len(bucket)
<1> DEFINE n == Len(bucket)
           D == 1 .. n
           f == [i \in D |-> bucket[i].occupied]
           S == {i \in D : \A j \in D : f[i] <= f[j]}
<1>1. n \in Nat /\ n >= 1 /\ DOMAIN bucket = D
  OBVIOUS
<1>2. \A i \in D : f[i] \in Nat /\ f[i] = bucket[i].occupied
  BY BucketFacts
<1>3. \A i \in S : i \in D /\ \A j \in D : f[i] <= f[j]
  OBVIOUS
<1>4. \A i \in D : i \notin S => \E j \in D : ~ (f[i] <= f[j])
  OBVIOUS
<1>5. S \subseteq 1 .. n
  OBVIOUS
<1> HIDE DEF f
<1>6. PICK x \in D : \A y \in D : f[x] <= f[y]
  <2>1. D # {}
    BY <1>1
  <2> HIDE DEF D
  <2> QED
    BY <1>2, <2>1, LeastBy
<1>7. x \in S
  BY <1>6
<1> HIDE DEF S, n
<1>8. PICK i \in S : \A j \in 1 .. (i - 1) : j \notin S
  BY <1>1, <1>5, <1>7, FirstIndex
<1>9. i \in D /\ \A j \in D : f[i] <= f[j]
  BY <1>3
<1>10. ASSUME NEW j \in 1 .. (i - 1) PROVE f[i] < f[j]
  <2>1. j \in D /\ j \notin S
    BY <1>1, <1>8, <1>9
  <2>2. PICK k \in D : ~ (f[j] <= f[k])
    BY <1>4, <2>1
  <2>3. f[i] <= f[k] /\ f[k] < f[j]
    BY <1>2, <1>9, <2>1, <2>2
  <2> QED
    BY <1>2, <1>9, <2>1, <2>3
<1>11. /\ i \in DOMAIN bucket
       /\ \A j \in DOMAIN bucket : ~ (bucket[j].occupied < bucket[i].occupied)
       /\ \A j \in 1 .. (i - 1) : bucket[i].occupied < bucket[j].occupied
  <2>1. \A j \in D : ~ (f[j] < f[i])
    BY <1>2, <1>9
  <2>2. \A j \in 1 .. (i - 1) : j \in D
    BY <1>1, <1>9
  <2> QED
    BY <1>1, <1>2, <1>9, <1>10, <2>1, <2>2
<1>12. FirstLeast(bucket) \in DOMAIN bucket
  BY <1>11 DEF FirstLeast
<1> QED
  BY <1>1, <1>12 DEF n

LEMMA FirstMostIs ==
  ASSUME NEW bucket \in Seq(ChartPoint), Len(bucket) >= 1
  PROVE  /\ FirstMost(bucket) \in 1 .. Len(bucket)
         /\ \A j \in 1 .. Len(bucket) :
              bucket[j].occupied <= bucket[FirstMost(bucket)].occupied
<1> DEFINE n == Len(bucket)
           D == 1 .. n
           f == [i \in D |-> bucket[i].occupied]
           S == {i \in D : \A j \in D : f[j] <= f[i]}
<1>1. n \in Nat /\ n >= 1 /\ DOMAIN bucket = D
  OBVIOUS
<1>2. \A i \in D : f[i] \in Nat /\ f[i] = bucket[i].occupied
  BY BucketFacts
<1>3. \A i \in S : i \in D /\ \A j \in D : f[j] <= f[i]
  OBVIOUS
<1>4. \A i \in D : i \notin S => \E j \in D : ~ (f[j] <= f[i])
  OBVIOUS
<1>5. S \subseteq 1 .. n
  OBVIOUS
<1>6. \E x \in D : \A y \in D : f[y] <= f[x]
  <2> DEFINE V == {f[i] : i \in D}
  <2>1. IsFiniteSet(D)
    BY <1>1, FS_Interval
  <2> HIDE DEF f
  <2>2. IsFiniteSet(V)
    <3>1. \A y \in V : \E x \in D : y = f[x]
      OBVIOUS
    <3> HIDE DEF V, D
    <3> QED
      BY <2>1, <3>1, ImageFinite
  <2>3. V \subseteq Int /\ V # {}
    BY <1>1, <1>2
  <2>4. \E v \in V : \A w \in V : w <= v
    <3> HIDE DEF V
    <3> QED
      BY <2>2, <2>3, FiniteHasGreatest
  <2> QED
    BY <2>4
<1>x. PICK x \in D : \A y \in D : f[y] <= f[x]
  BY <1>6
<1> HIDE DEF f
<1>7. x \in S
  BY <1>x
<1> HIDE DEF S, n
<1>8. PICK i \in S : \A j \in 1 .. (i - 1) : j \notin S
  BY <1>1, <1>5, <1>7, FirstIndex
<1>9. i \in D /\ \A j \in D : f[j] <= f[i]
  BY <1>3
<1>10. ASSUME NEW j \in 1 .. (i - 1) PROVE f[i] > f[j]
  <2>1. j \in D /\ j \notin S
    BY <1>1, <1>8, <1>9
  <2>2. PICK k \in D : ~ (f[k] <= f[j])
    BY <1>4, <2>1
  <2>3. f[k] <= f[i] /\ f[k] > f[j]
    BY <1>2, <1>9, <2>1, <2>2
  <2> QED
    BY <1>2, <1>9, <2>1, <2>3
<1>11. /\ i \in DOMAIN bucket
       /\ \A j \in DOMAIN bucket : ~ (bucket[j].occupied > bucket[i].occupied)
       /\ \A j \in 1 .. (i - 1) : bucket[i].occupied > bucket[j].occupied
  <2>1. \A j \in D : ~ (f[j] > f[i])
    BY <1>2, <1>9
  <2>2. \A j \in 1 .. (i - 1) : j \in D
    BY <1>1, <1>9
  <2> QED
    BY <1>1, <1>2, <1>9, <1>10, <2>1, <2>2
<1> DEFINE m == FirstMost(bucket)
<1>12. /\ m \in DOMAIN bucket
       /\ \A j \in DOMAIN bucket : ~ (bucket[j].occupied > bucket[m].occupied)
  BY <1>11 DEF FirstMost
<1> HIDE DEF m
<1>13. m \in D /\ \A j \in D : f[j] <= f[m]
  BY <1>1, <1>2, <1>12
<1>14. \A j \in D : bucket[j].occupied <= bucket[m].occupied
  BY <1>2, <1>13
<1> QED
  BY <1>13, <1>14 DEF n, m

\* Rounding up: d * q is the first multiple of d that is not less than n.
LEMMA RoundedUp ==
  ASSUME NEW n \in Nat, n >= 1, NEW d \in Nat, d >= 1, NEW q, q = (n + d - 1) \div d
  PROVE  q \in Nat /\ q >= 1 /\ d * (q - 1) < n /\ n <= d * q
<1> DEFINE x == n + d - 1
           r == x % d
<1>1. x \in Nat /\ q = x \div d
  OBVIOUS
<1> HIDE DEF x
<1>2. q \in Int /\ r \in 0 .. (d - 1) /\ x = d * q + r
  BY <1>1
<1> HIDE DEF r
<1>3. d * (q - 1) < n /\ n <= d * q
  <2> DEFINE m == d * q
  <2>1. d * (q - 1) = m - d /\ m \in Int
    BY <1>2
  <2> HIDE DEF m
  <2>2. x = m + r /\ x = n + d - 1
    BY <1>2 DEF m, x
  <2> QED
    BY <1>2, <2>1, <2>2 DEF m
<1>4. q >= 1
  <2> SUFFICES ASSUME q <= 0 PROVE FALSE
    BY <1>2
  <2>1. d * q <= 0
    BY <1>2
  <2> QED
    BY <1>3, <2>1
<1> QED
  BY <1>2, <1>3, <1>4

\* So many buckets of equal size hold all points.
LEMMA FewBuckets ==
  ASSUME NEW n \in Nat, n >= 1, NEW b \in Nat, b >= 1,
         NEW size, size = (n + b - 1) \div b, NEW c, c = (n + size - 1) \div size
  PROVE  /\ size \in Nat /\ size >= 1 /\ c \in Nat /\ c >= 1 /\ c <= b
         /\ (c - 1) * size < n /\ n <= c * size
<1>1. size \in Nat /\ size >= 1 /\ n <= b * size
  BY RoundedUp
<1>2. c \in Nat /\ c >= 1 /\ size * (c - 1) < n /\ n <= size * c
  BY <1>1, RoundedUp
<1>3. size * (c - 1) < size * b
  BY <1>1, <1>2
<1>4. c - 1 < b
  BY <1>1, <1>2, <1>3
<1> QED
  BY <1>1, <1>2, <1>4

LEMMA LowAndHigh ==
  ASSUME NEW l \in Nat, NEW m \in Nat
  PROVE  /\ l < m => Min({l, m}) = l /\ Max({l, m}) = m
         /\ l > m => Min({l, m}) = m /\ Max({l, m}) = l
<1> DEFINE S == {l, m}
<1>1. S \subseteq Nat /\ S # {} /\ \A n \in S : n <= l + m
  OBVIOUS
<1>2. l \in S /\ m \in S /\ \A x \in S : x = l \/ x = m
  OBVIOUS
<1> HIDE DEF S
<1>3. Min(S) \in S /\ \A n \in S : Min(S) <= n
  BY <1>1, MinMember
<1>4. Max(S) \in S /\ \A n \in S : n <= Max(S)
  <2>1. l + m \in Nat
    OBVIOUS
  <2> QED
    BY <1>1, <2>1, MaxMember
<1> DEFINE x == Min(S)
           y == Max(S)
<1>a. (x = l \/ x = m) /\ (y = l \/ y = m) /\ x <= l /\ x <= m /\ l <= y /\ m <= y
  BY <1>2, <1>3, <1>4
<1> HIDE DEF x, y
<1>b. /\ l < m => x = l /\ y = m
      /\ l > m => x = m /\ y = l
  BY <1>a
<1>5. /\ l < m => Min(S) = l /\ Max(S) = m
      /\ l > m => Min(S) = m /\ Max(S) = l
  BY <1>b DEF x, y
<1> QED
  BY <1>5 DEF S

LEMMA ExtremesThin ==
  ASSUME NEW points, Rising(points), NEW a \in Nat, NEW b \in Nat,
         1 <= a, a <= b, b <= Len(points),
         NEW bucket \in Seq(ChartPoint), Len(bucket) = b - a + 1,
         \A i \in 1 .. Len(bucket) : bucket[i] = points[a + i - 1]
  PROVE  Thinned(Extremes(bucket), points, a, b) /\ Len(Extremes(bucket)) \in 1 .. 2
<1> DEFINE l == FirstLeast(bucket)
           m == FirstMost(bucket)
           n == Len(bucket)
           out == Extremes(bucket)
<1>1. n \in Nat /\ n >= 1 /\ n = b - a + 1 /\ l \in 1 .. n /\ m \in 1 .. n
  BY FirstLeastIs, FirstMostIs
<1>2. \A j \in 1 .. n : bucket[j].occupied <= bucket[m].occupied
  BY <1>1, FirstMostIs
<1>3. \A i \in 1 .. n : bucket[i] = points[a + i - 1] /\ bucket[i] \in ChartPoint
  BY BucketFacts
<1>4. out = IF l = m THEN <<bucket[l]>> ELSE <<bucket[Min({l, m})], bucket[Max({l, m})]>>
  BY ExtremesAre
<1> HIDE DEF l, m, n, out
<1>5. \A i \in 1 .. n : \E j \in a .. b : bucket[i] = points[j]
  <2> TAKE i \in 1 .. n
  <2>1. a + i - 1 \in a .. b
    BY <1>1
  <2> QED
    BY <1>3, <2>1
<1>6. \A j \in a .. b : points[j].occupied <= bucket[m].occupied
  <2> TAKE j \in a .. b
  <2> DEFINE i == j - a + 1
  <2>1. i \in 1 .. n /\ a + i - 1 = j
    BY <1>1
  <2> HIDE DEF i
  <2> QED
    BY <1>2, <1>3, <2>1
<1>7. CASE l = m
  <2> DEFINE p == bucket[m]
  <2>1. out = <<p>> /\ p \in ChartPoint /\ \E j \in a .. b : p = points[j]
    BY <1>1, <1>3, <1>4, <1>5, <1>7
  <2>2. \A j \in a .. b : points[j].occupied <= p.occupied
    BY <1>6
  <2> HIDE DEF p
  <2>3. out \in Seq(ChartPoint) /\ Len(out) = 1 /\ DOMAIN out = {1} /\ out[1] = p
    BY <2>1
  <2>4. Thinned(out, points, a, b)
    BY <2>1, <2>2, <2>3 DEF Thinned
  <2> QED
    BY <2>3, <2>4 DEF out
<1>8. CASE l # m
  <2> DEFINE x == Min({l, m})
             y == Max({l, m})
             p == bucket[x]
             q == bucket[y]
  <2>1. x \in 1 .. n /\ y \in 1 .. n /\ x < y /\ (m = x \/ m = y)
    <3>0. l \in Nat /\ m \in Nat
      BY <1>1
    <3>1. CASE l < m
      <4>1. x = l /\ y = m
        BY <3>0, <3>1, LowAndHigh
      <4> HIDE DEF x, y
      <4> QED
        BY <1>1, <3>1, <4>1
    <3>2. CASE l > m
      <4>1. x = m /\ y = l
        BY <3>0, <3>2, LowAndHigh
      <4> HIDE DEF x, y
      <4> QED
        BY <1>1, <3>2, <4>1
    <3> QED
      BY <1>8, <3>0, <3>1, <3>2
  <2>2. out = <<p, q>>
    BY <1>4, <1>8
  <2> HIDE DEF x, y
  <2>3. p \in ChartPoint /\ q \in ChartPoint
    BY <1>3, <2>1
  <2>4. (\E j \in a .. b : p = points[j]) /\ (\E j \in a .. b : q = points[j])
    BY <1>5, <2>1
  <2>5. p.time < q.time
    <3> DEFINE i == a + x - 1
               j == a + y - 1
    <3>0. Len(points) \in Nat
      BY DEF Rising
    <3>1. j \in 1 .. Len(points) /\ i \in 1 .. (j - 1)
      BY <1>1, <2>1, <3>0
    <3>2. p = points[i] /\ q = points[j]
      BY <1>3, <2>1
    <3> HIDE DEF i, j, p, q
    <3> QED
      BY <3>1, <3>2, RisingFacts
  <2>6. \A j \in a .. b : points[j].occupied <= p.occupied \/ points[j].occupied <= q.occupied
    BY <1>6, <2>1
  <2> HIDE DEF p, q
  <2>7. /\ out \in Seq(ChartPoint) /\ Len(out) = 2 /\ DOMAIN out = {1, 2}
        /\ out[1] = p /\ out[2] = q
    BY <2>2, <2>3
  <2>8. \A i \in DOMAIN out : \E j \in a .. b : out[i] = points[j]
    BY <2>4, <2>7
  <2>9. \A i \in DOMAIN out : i > 1 => out[i - 1].time < out[i].time
    BY <2>5, <2>7
  <2>10. \A j \in a .. b : \E i \in DOMAIN out : points[j].occupied <= out[i].occupied
    BY <2>6, <2>7
  <2>11. Thinned(out, points, a, b)
    BY <2>7, <2>8, <2>9, <2>10 DEF Thinned
  <2> QED
    BY <2>7, <2>11 DEF out
<1> QED
  BY <1>7, <1>8

\* The extremes of the first k buckets of the given size, k at a time.
LEMMA BucketsThin ==
  ASSUME NEW points, Rising(points), NEW size \in Nat, size >= 1, NEW c \in Nat, c >= 1,
         (c - 1) * size < Len(points) - 2,
         NEW seqs, Len(seqs) = c,
         \A k \in 1 .. c :
           /\ Thinned(seqs[k], points, (k - 1) * size + 2, Min({k * size, Len(points) - 2}) + 1)
           /\ Len(seqs[k]) \in 1 .. 2
  PROVE  /\ Thinned(FlattenSeq(seqs), points, 2, Min({c * size, Len(points) - 2}) + 1)
         /\ Len(FlattenSeq(seqs)) <= 2 * c
<1> DEFINE n == Len(points) - 2
           last(k) == Min({k * size, n}) + 1
<1>1. PICK f : /\ f[1] = seqs[1]
               /\ \A i \in 2 .. c : f[i] = f[i - 1] \o seqs[i]
               /\ FlattenSeq(seqs) = f[c]
  BY FlattenSteps
<1>2. n \in Nat /\ n >= 1 /\ Len(points) = n + 2 /\ Len(points) \in Nat
  <2>1. (c - 1) * size \in Nat
    OBVIOUS
  <2>2. Len(points) \in Nat
    BY DEF Rising
  <2> QED
    BY <2>1, <2>2
<1>3. \A k \in 1 .. c : (k - 1) * size < n
  <2> TAKE k \in 1 .. c
  <2>1. (k - 1) * size <= (c - 1) * size
    OBVIOUS
  <2>2. (k - 1) * size \in Nat /\ (c - 1) * size \in Nat
    OBVIOUS
  <2> DEFINE u == (k - 1) * size
             w == (c - 1) * size
  <2>3. u <= w /\ u \in Nat /\ w \in Nat /\ w < n
    BY <2>1, <2>2
  <2> HIDE DEF u, w, n
  <2>4. u < n
    BY <1>2, <2>3
  <2> QED
    BY <2>4 DEF u
<1>4. \A k \in 1 .. c : last(k) \in Nat /\ last(k) <= n + 1
                        /\ (k - 1) * size + 2 <= last(k)
                        /\ (k < c => last(k) = k * size + 1)
  <2> TAKE k \in 1 .. c
  <2> DEFINE u == k * size
  <2>1. u \in Nat /\ (k - 1) * size = u - size /\ u - size < n
    BY <1>3
  <2>2. k < c => u < n
    <3>1. k < c => k + 1 \in 1 .. c /\ (k + 1 - 1) * size = u
      OBVIOUS
    <3> QED
      BY <1>3, <3>1
  <2> HIDE DEF u, n
  <2>3. Min({u, n}) = IF u < n THEN u ELSE n
    <3>1. u = n => {u, n} = {n} /\ \A x \in {n} : x = n
      OBVIOUS
    <3>2. {n} \subseteq Nat /\ {n} # {}
      BY <1>2
    <3>3. u = n => Min({u, n}) = n
      BY <3>1, <3>2, MinMember
    <3> QED
      BY <1>2, <2>1, <3>3, LowAndHigh
  <2>4. /\ Min({u, n}) + 1 \in Nat /\ Min({u, n}) + 1 <= n + 1
        /\ u - size + 2 <= Min({u, n}) + 1 /\ (k < c => Min({u, n}) = u)
    BY <1>2, <2>1, <2>2, <2>3
  <2> QED
    BY <2>1, <2>4 DEF u
<1> DEFINE Good(k) == Thinned(f[k], points, 2, last(k)) /\ Len(f[k]) <= 2 * k
           S == {k \in 1 .. c : ~ Good(k)}
<1>5. S = {}
  <2> SUFFICES ASSUME S # {} PROVE FALSE
    OBVIOUS
  <2>1. PICK k \in S : \A j \in 1 .. (k - 1) : j \notin S
    <3>1. S \subseteq 1 .. c
      OBVIOUS
    <3> HIDE DEF S
    <3> QED
      BY <3>1, FirstIndex
  <2>2. k \in 1 .. c /\ ~ Good(k)
    OBVIOUS
  <2>3. Thinned(seqs[k], points, (k - 1) * size + 2, last(k)) /\ Len(seqs[k]) \in 1 .. 2
    BY <2>2
  <2>s. Len(seqs[k]) <= 2
    <3> DEFINE m == Len(seqs[k])
    <3>1. m \in 1 .. 2
      BY <2>3
    <3> HIDE DEF m
    <3>2. m <= 2
      BY <3>1
    <3> QED
      BY <3>2 DEF m
  <2>4. CASE k = 1
    <3>1. (k - 1) * size + 2 = 2
      BY <2>4
    <3>2. Thinned(f[k], points, 2, last(k)) /\ Len(f[k]) <= 2 * k
      <4> HIDE DEF last
      <4>1. f[k] = seqs[k]
        BY <1>1, <2>4
      <4>2. Thinned(seqs[k], points, 2, last(k))
        BY <2>3, <3>1
      <4>3. Len(seqs[k]) <= 2 * k
        BY <2>4, <2>s
      <4> QED
        BY <4>1, <4>2, <4>3
    <3> QED
      BY <2>2, <3>2
  <2>5. CASE k # 1
    <3> DEFINE j == k - 1
    <3>1. j \in 1 .. (k - 1) /\ j \in 1 .. c /\ j < c /\ k = j + 1 /\ k \in 2 .. c
      BY <2>2, <2>5
    <3>2. Good(j)
      BY <2>1, <3>1
    <3>3. f[k] = f[j] \o seqs[k]
      BY <1>1, <3>1
    <3>4. last(j) = j * size + 1 /\ last(j) \in Nat /\ last(j) <= n + 1 /\ last(j) >= 2
      <4>1. (j - 1) * size >= 0 /\ (j - 1) * size \in Int
        BY <3>1
      <4> HIDE DEF last, j
      <4>2. /\ last(j) = j * size + 1 /\ last(j) \in Nat /\ last(j) <= n + 1
            /\ (j - 1) * size + 2 <= last(j)
        BY <1>4, <3>1
      <4> QED
        BY <4>1, <4>2
    <3> DEFINE x == f[j]
               y == seqs[k]
               b == last(j)
               e == last(k)
    <3>5. Thinned(x, points, 2, b) /\ Len(x) <= 2 * j
      BY <3>2
    <3>6. Thinned(y, points, b + 1, e) /\ Len(y) <= 2
      <4>1. (k - 1) * size + 2 = b + 1
        BY <3>1, <3>4
      <4>a. Len(y) <= 2
        BY <2>s
      <4> HIDE DEF last
      <4>2. Thinned(y, points, (k - 1) * size + 2, e) /\ Len(y) <= 2
        BY <2>3, <4>a
      <4> HIDE DEF y, e, b
      <4> QED
        BY <4>1, <4>2
    <3>7. e \in Nat /\ e <= n + 1 /\ b < e
      <4>1. (k - 1) * size + 2 <= last(k)
        BY <1>4, <2>2
      <4>2. (k - 1) * size + 2 = b + 1
        BY <3>1, <3>4
      <4>3. e \in Nat /\ e <= n + 1
        BY <1>4, <2>2
      <4> HIDE DEF b, last
      <4> QED
        BY <3>4, <4>1, <4>2, <4>3 DEF b
    <3>8. b \in Nat /\ 2 <= b /\ e <= Len(points)
      BY <1>2, <3>4, <3>7
    <3>9. Len(x) \in Nat /\ Len(y) \in Nat
      BY <3>5, <3>6 DEF Thinned
    <3> HIDE DEF x, y, b, e, j
    <3>10. Thinned(x \o y, points, 2, e) /\ Len(x \o y) = Len(x) + Len(y)
      BY <3>5, <3>6, <3>7, <3>8, ThinnedJoins
    <3>11. Len(x \o y) <= 2 * k
      BY <3>1, <3>5, <3>6, <3>9, <3>10
    <3> QED
      BY <2>2, <3>3, <3>10, <3>11 DEF x, y, e
  <2> QED
    BY <2>4, <2>5
<1>6. Good(c)
  <2>1. c \in 1 .. c
    OBVIOUS
  <2> QED
    BY <1>5, <2>1
<1> QED
  BY <1>1, <1>6

\* _downsample_occupancy keeps the first and the last point and the extremes of
\* every bucket, and stays within MAX_OCCUPANCY_POINTS.
LEMMA DownsampledThin ==
  ASSUME AnalyticsAssumption, NEW points, Rising(points), points # <<>>
  PROVE  LET out == Downsampled(points) IN
         /\ Thinned(out, points, 1, Len(points))
         /\ Len(out) <= MostPoints
         /\ Last(out) = Last(points)
<1> DEFINE N == Len(points)
           n == N - 2
           interior == SubSeq(points, 2, N - 1)
           halves == (MostPoints - 2) \div 2
           b == Max({halves, 1})
           up == (Len(interior) + b - 1) \div b
           size == Max({up, 1})
           c == (Len(interior) + size - 1) \div size
           Bucket(k) == SubSeq(interior, (k - 1) * size + 1, Min({k * size, Len(interior)}))
           seqs == [k \in 1 .. c |-> Extremes(Bucket(k))]
           kept == FlattenSeq(seqs)
           sampled == <<Head(points)>> \o kept \o <<Last(points)>>
<1>1. points \in Seq(ChartPoint) /\ N \in Nat /\ N >= 1 /\ MostPoints \in Nat /\ MostPoints >= 4
  BY DEF Rising, AnalyticsAssumption
<1>2. CASE N <= MostPoints
  <2>1. Downsampled(points) = points
    BY <1>2 DEF Downsampled
  <2> QED
    BY <1>2, <2>1, ThinnedAll
<1>3. CASE N > MostPoints
  <2>1. n \in Nat /\ n >= 1 /\ interior \in Seq(ChartPoint) /\ Len(interior) = n
        /\ \A i \in 1 .. n : interior[i] = points[i + 1]
    BY <1>1, <1>3
  <2>2. b = halves /\ halves \in Nat /\ halves >= 1 /\ 2 * halves <= MostPoints - 2
    <3>1. halves \in Nat /\ halves >= 1 /\ 2 * halves <= MostPoints - 2
      BY <1>1
    <3> HIDE DEF halves
    <3>2. halves = 1 => Max({halves, 1}) = halves
      <4>1. halves = 1 => {halves, 1} = {1} /\ \A x \in {1} : x <= 1
        OBVIOUS
      <4>2. {1} \subseteq Nat /\ {1} # {} /\ 1 \in Nat
        OBVIOUS
      <4> QED
        BY <4>1, <4>2, MaxMember
    <3>3. halves > 1 => Max({halves, 1}) = halves
      BY <3>1, LowAndHigh
    <3> QED
      BY <3>1, <3>2, <3>3
  <2> HIDE DEF n, interior, halves, b
  <2>3. up \in Nat /\ up >= 1
    BY <2>1, <2>2, RoundedUp
  <2>4. size = up
    <3> HIDE DEF up
    <3>1. up = 1 => Max({up, 1}) = up
      <4>1. up = 1 => {up, 1} = {1} /\ \A x \in {1} : x <= 1
        OBVIOUS
      <4>2. {1} \subseteq Nat /\ {1} # {} /\ 1 \in Nat
        OBVIOUS
      <4> QED
        BY <4>1, <4>2, MaxMember
    <3>2. up > 1 => Max({up, 1}) = up
      BY <2>3, LowAndHigh
    <3> QED
      BY <2>3, <3>1, <3>2
  <2>5. size = (n + b - 1) \div b /\ c = (n + size - 1) \div size
    BY <2>1, <2>4
  <2> HIDE DEF up, size, c
  <2>6. /\ size \in Nat /\ size >= 1 /\ c \in Nat /\ c >= 1 /\ c <= b
        /\ (c - 1) * size < n /\ n <= c * size
    BY <2>1, <2>2, <2>5, FewBuckets
  <2>7. ASSUME NEW k \in 1 .. c
        PROVE  /\ Thinned(seqs[k], points, (k - 1) * size + 2, Min({k * size, n}) + 1)
               /\ Len(seqs[k]) \in 1 .. 2
    <3> DEFINE from == (k - 1) * size + 1
               to == Min({k * size, n})
               bucket == SubSeq(interior, from, to)
    <3>1. from \in Nat /\ from >= 1 /\ from <= n
      <4>1. (k - 1) * size <= (c - 1) * size /\ (k - 1) * size \in Nat /\ (c - 1) * size \in Nat
        BY <2>6
      <4> DEFINE u == (k - 1) * size
                 w == (c - 1) * size
      <4>2. u <= w /\ u \in Nat /\ w \in Nat /\ w < n /\ from = u + 1
        BY <2>6, <4>1
      <4> HIDE DEF u, w, from
      <4> QED
        BY <2>1, <4>2
    <3>2. to \in Nat /\ from <= to /\ to <= n
      <4> DEFINE u == k * size
      <4>1. u \in Nat /\ from <= u
        BY <2>6
      <4>2. to \in {u, n} /\ to <= n
        <5> DEFINE S == {u, n}
        <5>1. S \subseteq Nat /\ S # {} /\ n \in S
          BY <2>1, <4>1
        <5> HIDE DEF S, u
        <5>2. Min(S) \in S /\ \A x \in S : Min(S) <= x
          BY <5>1, MinMember
        <5> QED
          BY <5>1, <5>2 DEF S, u
      <4> HIDE DEF u, from, to
      <4> QED
        BY <2>1, <3>1, <4>1, <4>2
    <3>3. seqs[k] = Extremes(bucket)
      BY <2>1
    <3>4. from + 1 = (k - 1) * size + 2
      BY <2>6
    <3> HIDE DEF from, to
    <3>5. /\ bucket \in Seq(ChartPoint) /\ Len(bucket) = (to + 1) - (from + 1) + 1
          /\ \A i \in 1 .. Len(bucket) : bucket[i] = points[(from + 1) + i - 1]
      <4>1. /\ bucket \in Seq(ChartPoint) /\ Len(bucket) = to - from + 1
            /\ \A i \in 1 .. (to - from + 1) : bucket[i] = interior[from + i - 1]
        <5> DEFINE q == interior
        <5>1. q \in Seq(ChartPoint) /\ to <= Len(q) /\ from \in Nat /\ to \in Nat /\ from >= 1
              /\ from <= to
          BY <2>1, <3>1, <3>2
        <5> HIDE DEF q
        <5>2. SubSeq(q, from, to) \in Seq(ChartPoint) /\ Len(SubSeq(q, from, to)) = to - from + 1
          BY <5>1
        <5>3. \A i \in 1 .. (to - from + 1) : SubSeq(q, from, to)[i] = q[from + i - 1]
          BY <5>1
        <5> QED
          BY <5>2, <5>3 DEF q
      <4> HIDE DEF bucket
      <4>2. \A i \in 1 .. (to - from + 1) :
              from + i - 1 \in 1 .. n /\ from + i - 1 + 1 = (from + 1) + i - 1
        BY <2>1, <3>1, <3>2
      <4>3. \A i \in 1 .. (to - from + 1) : bucket[i] = points[(from + 1) + i - 1]
        BY <2>1, <4>1, <4>2
      <4> QED
        BY <3>1, <3>2, <4>1, <4>3
    <3> HIDE DEF bucket
    <3>6. from + 1 \in Nat /\ to + 1 \in Nat /\ 1 <= from + 1 /\ from + 1 <= to + 1 /\ to + 1 <= N
      BY <1>1, <2>1, <3>1, <3>2 DEF n
    <3>7. Thinned(Extremes(bucket), points, from + 1, to + 1) /\ Len(Extremes(bucket)) \in 1 .. 2
      BY <3>5, <3>6, ExtremesThin
    <3> QED
      BY <3>3, <3>4, <3>7 DEF to
  <2>8. Len(seqs) = c
    BY <2>6
  <2> HIDE DEF seqs
  <2>9. Thinned(kept, points, 2, Min({c * size, n}) + 1) /\ Len(kept) <= 2 * c
    BY <2>6, <2>7, <2>8, BucketsThin DEF n
  <2>10. Min({c * size, n}) + 1 = N - 1
    <3> DEFINE u == c * size
               S == {u, n}
    <3>1. u \in Nat /\ n <= u
      BY <2>6
    <3> HIDE DEF u
    <3>2. S \subseteq Nat /\ S # {} /\ n \in S /\ \A x \in S : n <= x
      BY <2>1, <3>1
    <3> HIDE DEF S
    <3>3. Min(S) \in S /\ Min(S) <= n
      BY <3>2, MinMember
    <3> DEFINE y == Min(S)
    <3>a. y \in Nat /\ y <= n /\ n <= y
      BY <3>2, <3>3
    <3> HIDE DEF y
    <3>4. y = n
      BY <2>1, <3>a
    <3> QED
      BY <1>1, <3>4 DEF S, u, n, y
  <2> HIDE DEF kept
  <2> DEFINE first == <<Head(points)>>
             end == <<Last(points)>>
             x == first \o kept
  <2>11. Thinned(first, points, 1, 1) /\ Len(first) = 1
    <3>1. Head(points) = points[1] /\ 1 \in 1 .. N
      BY <1>1
    <3> QED
      BY <3>1, ThinnedOne
  <2>12. Thinned(end, points, N, N) /\ Len(end) = 1
    <3>1. Last(points) = points[N] /\ N \in 1 .. N
      BY <1>1 DEF Last
    <3> QED
      BY <3>1, ThinnedOne
  <2>a. N > 4
    BY <1>1, <1>3
  <2> HIDE DEF first, end
  <2>13. Thinned(x, points, 1, N - 1) /\ Len(x) = 1 + Len(kept)
    <3>1. Thinned(kept, points, 1 + 1, N - 1)
      BY <2>9, <2>10
    <3> DEFINE m == N - 1
    <3>2. 1 \in Nat /\ m \in Nat /\ 1 <= 1 /\ 1 < m /\ m <= Len(points)
      BY <1>1, <2>a
    <3> HIDE DEF N, m
    <3>3. Thinned(first, points, 1, 1) /\ Thinned(kept, points, 1 + 1, m)
      BY <2>11, <3>1 DEF m
    <3>4. Thinned(first \o kept, points, 1, m) /\ Len(first \o kept) = Len(first) + Len(kept)
      BY <3>2, <3>3, ThinnedJoins
    <3> QED
      BY <2>11, <3>4 DEF m, x
  <2> HIDE DEF x
  <2>14. Thinned(x \o end, points, 1, N) /\ Len(x \o end) = Len(x) + 1
    <3> DEFINE m == N - 1
    <3>1. m + 1 = N /\ m \in Nat /\ N \in Nat /\ 1 <= m /\ m < N /\ N <= Len(points)
      BY <1>1, <2>a
    <3>2. Thinned(x, points, 1, m)
      BY <2>13
    <3> HIDE DEF N, m
    <3>3. Thinned(end, points, m + 1, N)
      BY <2>12, <3>1
    <3>4. 1 \in Nat /\ 1 <= 1
      OBVIOUS
    <3>5. Thinned(x \o end, points, 1, N) /\ Len(x \o end) = Len(x) + Len(end)
      BY <3>1, <3>2, <3>3, <3>4, ThinnedJoins
    <3> QED
      BY <2>12, <3>5
  <2>15. sampled = x \o end
    BY DEF x, first, end
  <2>16. Len(sampled) <= MostPoints
    <3>1. Len(kept) \in Nat /\ Len(kept) <= 2 * c /\ c <= b /\ 2 * b <= MostPoints - 2
      BY <2>2, <2>6, <2>9 DEF Thinned
    <3> DEFINE lk == Len(kept)
    <3>2. Len(sampled) = 1 + lk + 1
      BY <2>13, <2>14, <2>15
    <3> HIDE DEF lk
    <3>3. lk <= MostPoints - 2 /\ lk \in Nat
      BY <1>1, <2>2, <2>6, <3>1 DEF lk
    <3> QED
      BY <1>1, <3>2, <3>3
  <2>17. Downsampled(points) = sampled
    <3> DEFINE cut == SubSeq(sampled, 1, MostPoints - 1) \o <<Last(points)>>
    <3>1. Downsampled(points) =
            CASE Len(points) <= MostPoints -> points
              [] Len(points) > MostPoints /\ Len(sampled) <= MostPoints -> sampled
              [] OTHER -> cut
      BY DEF Downsampled, sampled, kept, seqs, c, size, up, b, halves, interior
    <3>2. Len(points) > MostPoints /\ ~(Len(points) <= MostPoints)
      BY <1>1, <1>3
    <3> HIDE DEF sampled, cut
    <3> QED
      BY <2>16, <3>1, <3>2
  <2>18. Last(x \o end) = Last(points)
    <3>1. x \in Seq(ChartPoint) /\ Last(points) \in ChartPoint /\ end = <<Last(points)>>
      <4>1. points[N] \in ChartPoint
        BY <1>1
      <4> QED
        BY <2>13, <4>1 DEF Thinned, Last, end
    <3> QED
      BY <3>1 DEF Last
  <2> QED
    BY <2>14, <2>15, <2>16, <2>17, <2>18
<1> QED
  BY <1>1, <1>2, <1>3

(***************************************************************************)
(* The occupancy log and the event log, at time t: what is counted in an   *)
(* area are the stops that have started and not ended.  An area is never   *)
(* fuller than it is, as spaces are promised to drivers on their way.      *)
(***************************************************************************)
StopRows(log, kind, a, t) ==
  {i \in DOMAIN log : log[i].event = kind /\ log[i].area = a /\ log[i].time <= t}

Inside(log, a, t) ==
  Cardinality(StopRows(log, "parking_started", a, t))
    - Cardinality(StopRows(log, "parking_ended", a, t))

Batch == [time : Nat, occupied : [Areas -> Nat]]

Counted(log, counts, t) ==
  /\ counts \in Seq(Batch)
  /\ \A i \in DOMAIN log : log[i].time \in 1 .. t
  /\ \A i \in DOMAIN counts :
       /\ counts[i].time \in 1 .. t
       /\ \A j \in 1 .. (i - 1) : counts[j].time < counts[i].time
       /\ \A a \in Areas : /\ counts[i].occupied[a] = Inside(log, a, counts[i].time)
                           /\ counts[i].occupied[a] <= Spaces[a]

Occupants(at, in, a) == {v \in Drivers : at[v] = "space" /\ in[v] = a}

Promised(given, in, a) == {v \in Drivers : given[v] = a /\ in[v] = None}

Fits(at, in, given, log, t) ==
  \A a \in Areas :
    /\ Standing(at, in, a) = Inside(log, a, t)
    /\ Standing(at, in, a) + Cardinality(Promised(given, in, a)) <= Spaces[a]

Counting ==
  /\ Fits(place, stood, assigned, events, now)
  /\ Counted(events, occupancy, now)

CountingSaved ==
  LET log == SubSeq(events, 1, saved.events) IN
  /\ saved.occupancy \in 0 .. Len(occupancy)
  /\ Fits(saved.place, saved.stood, saved.assigned, log, saved.time)
  /\ Counted(log, SubSeq(occupancy, 1, saved.occupancy), saved.time)

InvCharts ==
  /\ stage = "running" => Counting /\ CountingSaved
  /\ stage # "running" => Counted(events, occupancy, now)
  /\ OccupancyMatchesEvents

(***************************************************************************)
(* The chart of a lot, from the counts of its areas.                       *)
(***************************************************************************)
CountsIn(log, l, t) == [a \in AreasOf(l) |-> Inside(log, a, t)]

LEMMA CountedFacts ==
  ASSUME NEW log, NEW counts, NEW t, Counted(log, counts, t), NEW i \in 1 .. Len(counts)
  PROVE  /\ counts[i] \in Batch /\ counts[i].time \in Nat /\ counts[i].time >= 1
         /\ counts[i].occupied \in [Areas -> Nat]
         /\ \A j \in 1 .. (i - 1) : counts[j].time < counts[i].time
         /\ \A a \in Areas : /\ counts[i].occupied[a] = Inside(log, a, counts[i].time)
                             /\ counts[i].occupied[a] <= Spaces[a]
<1>1. counts \in Seq(Batch) /\ DOMAIN counts = 1 .. Len(counts)
  BY DEF Counted
<1>2. counts[i] \in Batch
  BY <1>1
<1>3. counts[i].time \in Nat /\ counts[i].occupied \in [Areas -> Nat]
  BY <1>2 DEF Batch
<1>4. /\ counts[i].time \in 1 .. t
      /\ \A j \in 1 .. (i - 1) : counts[j].time < counts[i].time
      /\ \A a \in Areas : /\ counts[i].occupied[a] = Inside(log, a, counts[i].time)
                          /\ counts[i].occupied[a] <= Spaces[a]
  BY <1>1 DEF Counted
<1> QED
  BY <1>2, <1>3, <1>4

LEMMA AreasKnown ==
  ASSUME OutputsAssumption, AnalyticsAssumption, NEW l \in Lots \cup {AllLots}
  PROVE  /\ AreasOf(l) \subseteq Areas /\ IsFiniteSet(AreasOf(l))
         /\ l = AllLots => AreasOf(l) = Areas
         /\ l # AllLots => AreasOf(l) = {a \in Areas : LotOf[a] = l}
<1>1. AreasOf(l) \subseteq Areas
  BY DEF AreasOf
<1>2. IsFiniteSet(AreasOf(l))
  BY <1>1, FS_Subset DEF OutputsAssumption
<1> QED
  BY <1>1, <1>2 DEF AreasOf

\* The counts of an area are as they stand in the row: no area is overfull.
LEMMA HeldIs ==
  ASSUME OutputsAssumption, AnalyticsAssumption, NEW log, NEW counts, NEW t,
         Counted(log, counts, t), NEW i \in 1 .. Len(counts), NEW k \in Lots \cup {AllLots}
  PROVE  /\ SumFunction(CountsIn(log, k, counts[i].time)) \in Nat
         /\ Held(counts[i], k) = SumFunction(CountsIn(log, k, counts[i].time))
<1> DEFINE g == [a \in AreasOf(k) |-> counts[i].occupied[a]]
           h == [a \in AreasOf(k) |-> Spaces[a]]
           x == SumFunction(g)
           y == SumFunction(h)
<1>1. DOMAIN g = AreasOf(k) /\ DOMAIN h = AreasOf(k) /\ IsFiniteSet(AreasOf(k))
  BY AreasKnown
<1>2. g = CountsIn(log, k, counts[i].time)
  <2>1. \A a \in AreasOf(k) : counts[i].occupied[a] = Inside(log, a, counts[i].time)
    BY AreasKnown, CountedFacts
  <2> QED
    BY <2>1 DEF CountsIn
<1>3. \A a \in AreasOf(k) : g[a] \in Nat /\ h[a] \in Nat /\ g[a] <= h[a]
  <2> TAKE a \in AreasOf(k)
  <2>1. a \in Areas
    BY AreasKnown
  <2>2. counts[i].occupied[a] \in Nat /\ counts[i].occupied[a] <= Spaces[a] /\ Spaces[a] \in Nat
    BY <2>1, CountedFacts DEF OutputsAssumption
  <2> QED
    BY <2>2
<1>4. Held(counts[i], k) = Min({x, y})
  BY DEF Held, Capacity
<1> HIDE DEF g, h
<1>5. x \in Nat /\ y \in Nat /\ x <= y
  <2>1. x \in Nat
    BY <1>1, <1>3, SumOfCounts
  <2>2. y \in Nat
    BY <1>1, <1>3, SumOfCounts
  <2>3. x <= y
    BY <1>1, <1>3, SumOfLess
  <2> QED
    BY <2>1, <2>2, <2>3
<1>6. Min({x, y}) = x
  <2> DEFINE S == {x, y}
  <2> HIDE DEF x, y
  <2>1. S \subseteq Nat /\ S # {} /\ x \in S /\ \A n \in S : x <= n
    BY <1>5
  <2> HIDE DEF S
  <2>2. Min(S) \in S /\ \A n \in S : Min(S) <= n
    BY <2>1, MinMember
  <2> DEFINE m == Min(S)
  <2>3. m \in Nat /\ m <= x /\ x <= m
    BY <2>1, <2>2
  <2> HIDE DEF m
  <2>4. m = x
    BY <1>5, <2>3
  <2> QED
    BY <2>4 DEF m, S
<1> QED
  BY <1>2, <1>4, <1>5, <1>6

\* All lots together hold what their areas hold.
LEMMA LotsHold ==
  ASSUME OutputsAssumption, AnalyticsAssumption, NEW log, NEW counts, NEW t,
         Counted(log, counts, t), NEW i \in 1 .. Len(counts)
  PROVE  SumFunction([k \in Lots |-> Held(counts[i], k)])
           = SumFunction(CountsIn(log, AllLots, counts[i].time))
<1> DEFINE s == counts[i].time
           g == CountsIn(log, AllLots, s)
           h == [k \in Lots |-> Held(counts[i], k)]
<1>1. DOMAIN g = Areas
  BY AreasKnown DEF CountsIn
<1>2. \A a \in Areas : g[a] = Inside(log, a, s) /\ g[a] \in Int /\ LotOf[a] \in Lots
  <2> TAKE a \in Areas
  <2>1. g[a] = Inside(log, a, s)
    BY <1>1 DEF CountsIn
  <2>2. counts[i].occupied[a] = Inside(log, a, s) /\ counts[i].occupied[a] \in Nat
    BY CountedFacts
  <2> QED
    BY <2>1, <2>2 DEF OutputsAssumption
<1> HIDE DEF g
<1>3. ASSUME NEW k \in Lots
      PROVE  h[k] = SumFunction([x \in {y \in DOMAIN g : LotOf[y] = k} |-> g[x]])
  <2>1. h[k] = SumFunction(CountsIn(log, k, s))
    BY HeldIs
  <2>2. AreasOf(k) = {y \in Areas : LotOf[y] = k}
    BY AreasKnown DEF AnalyticsAssumption
  <2>3. CountsIn(log, k, s) = [x \in {y \in Areas : LotOf[y] = k} |-> Inside(log, x, s)]
    BY <2>2 DEF CountsIn
  <2>4. [x \in {y \in Areas : LotOf[y] = k} |-> Inside(log, x, s)]
          = [x \in {y \in Areas : LotOf[y] = k} |-> g[x]]
    BY <1>2
  <2> HIDE DEF s, h
  <2> QED
    BY <1>1, <2>1, <2>3, <2>4
<1>4. DOMAIN h = Lots
  OBVIOUS
<1> HIDE DEF h
<1>5. Grouped(g, Lots, LotOf, h)
  BY <1>1, <1>2, <1>3, <1>4 DEF Grouped, OutputsAssumption, AnalyticsAssumption
<1>6. SumFunction(h) = SumFunction(g)
  BY ONLY <1>5, SumByKey
<1> QED
  BY <1>6 DEF g, h

LEMMA PointIs ==
  ASSUME OutputsAssumption, AnalyticsAssumption, NEW log, NEW counts, NEW t,
         Counted(log, counts, t), NEW i \in 1 .. Len(counts), NEW l \in Lots \cup {AllLots}
  PROVE  /\ Point(counts[i], l) \in ChartPoint
         /\ Point(counts[i], l).time = counts[i].time
         /\ Point(counts[i], l).occupied = SumFunction(CountsIn(log, l, counts[i].time))
<1> DEFINE n == SumFunction(CountsIn(log, l, counts[i].time))
<1>1. n \in Nat
  BY HeldIs
<1>2. Point(counts[i], l) = [time |-> counts[i].time, occupied |-> n]
  <2>1. CASE l = AllLots
    BY <2>1, LotsHold DEF Point
  <2>2. CASE l # AllLots
    BY <2>2, HeldIs DEF Point
  <2> QED
    BY <2>1, <2>2
<1>3. counts[i].time \in Nat
  BY CountedFacts
<1> HIDE DEF n
<1>4. Point(counts[i], l) \in ChartPoint
  BY <1>1, <1>2, <1>3 DEF ChartPoint
<1> QED
  BY <1>2, <1>4 DEF n

\* A point of the chart says what was held at its time.
Tells(log, point, l) == point.occupied = SumFunction(CountsIn(log, l, point.time))

LEMMA SeriesIs ==
  ASSUME OutputsAssumption, AnalyticsAssumption, NEW t, Counted(events, occupancy, t),
         NEW l \in Lots \cup {AllLots}, occupancy # <<>>
  PROVE  /\ Rising(Series(l)) /\ Len(Series(l)) = Len(occupancy) + 1
         /\ Series(l)[1] = [time |-> 0, occupied |-> 0]
         /\ \A i \in 1 .. Len(occupancy) : Series(l)[i + 1] = Point(occupancy[i], l)
<1> DEFINE n == Len(occupancy)
           points == [i \in DOMAIN occupancy |-> Point(occupancy[i], l)]
           zero == [time |-> 0, occupied |-> 0]
           all == <<zero>> \o points
<1>1. n \in Nat /\ n >= 1 /\ DOMAIN occupancy = 1 .. n
  BY DEF Counted
<1>2. \A i \in 1 .. n : Point(occupancy[i], l) \in ChartPoint
  BY PointIs
<1>3. /\ points \in Seq(ChartPoint) /\ Len(points) = n
      /\ \A i \in 1 .. n : points[i] = Point(occupancy[i], l)
  <2>1. DOMAIN points = 1 .. n /\ \A i \in 1 .. n : points[i] = Point(occupancy[i], l)
    BY <1>1
  <2>2. points = [i \in 1 .. n |-> Point(occupancy[i], l)]
    BY <1>1
  <2>3. points \in [1 .. n -> ChartPoint]
    BY <1>2, <2>2
  <2> HIDE DEF points, n
  <2>4. points \in Seq(ChartPoint)
    BY <1>1, <2>3, SeqDef
  <2>5. Len(points) = n
    BY <1>1, <2>1, <2>4, LenProperties
  <2> QED
    BY <2>1, <2>4, <2>5
<1>4. points # <<>> /\ Head(points) = points[1]
  <2> HIDE DEF points
  <2> QED
    BY <1>1, <1>3
<1>5. Head(points).time > 0
  <2>1. Point(occupancy[1], l).time = occupancy[1].time /\ occupancy[1].time \in Nat
        /\ occupancy[1].time >= 1
    BY <1>1, PointIs, CountedFacts
  <2>2. points[1] = Point(occupancy[1], l)
    BY <1>1, <1>3
  <2> HIDE DEF points
  <2> QED
    BY <1>4, <2>1, <2>2
<1>6. Series(l) = all
  BY <1>4, <1>5 DEF Series
<1>7. zero \in ChartPoint /\ zero.time = 0
  BY DEF ChartPoint
<1> HIDE DEF points, zero
<1>8. /\ all \in Seq(ChartPoint) /\ Len(all) = n + 1 /\ DOMAIN all = 1 .. (n + 1)
      /\ all[1] = zero /\ \A i \in 1 .. n : all[i + 1] = Point(occupancy[i], l)
  BY <1>1, <1>3, <1>7
<1> HIDE DEF all
<1>9. ASSUME NEW i \in 1 .. (n + 1), NEW j \in 1 .. (i - 1) PROVE all[j].time < all[i].time
  <2> DEFINE k == i - 1
  <2>1. k \in 1 .. n /\ i = k + 1 /\ j \in 1 .. k
    BY <1>1
  <2> HIDE DEF k
  <2>2. all[i].time = occupancy[k].time /\ occupancy[k].time \in Nat /\ occupancy[k].time >= 1
    BY <1>8, <2>1, PointIs, CountedFacts
  <2>3. CASE j = 1
    BY <1>7, <1>8, <2>2, <2>3
  <2>4. CASE j # 1
    <3> DEFINE m == j - 1
    <3>1. m \in 1 .. n /\ j = m + 1 /\ m \in 1 .. (k - 1)
      BY <1>1, <2>1, <2>4
    <3> HIDE DEF m
    <3>2. all[j].time = occupancy[m].time
      BY <1>8, <3>1, PointIs
    <3>3. occupancy[m].time < occupancy[k].time
      BY <2>1, <3>1, CountedFacts
    <3> QED
      BY <2>2, <3>2, <3>3
  <2> QED
    BY <2>3, <2>4
<1>10. Rising(all)
  BY <1>8, <1>9 DEF Rising
<1> QED
  BY <1>6, <1>8, <1>10 DEF n, zero

\* Before the first second nothing is held.
LEMMA NothingAtFirst ==
  ASSUME OutputsAssumption, AnalyticsAssumption, NEW t, Counted(events, occupancy, t),
         NEW l \in Lots \cup {AllLots}
  PROVE  SumFunction(CountsIn(events, l, 0)) = 0
<1> DEFINE g == CountsIn(events, l, 0)
<1>1. \A kind, a : StopRows(events, kind, a, 0) = {}
  <2>1. \A i \in DOMAIN events : events[i].time \in 1 .. t
    BY DEF Counted
  <2>2. \A i \in DOMAIN events : ~ (events[i].time <= 0)
    BY <2>1
  <2> QED
    BY <2>2 DEF StopRows
<1>2. ASSUME NEW a PROVE Inside(events, a, 0) = 0
  <2>1. /\ StopRows(events, "parking_started", a, 0) = {}
        /\ StopRows(events, "parking_ended", a, 0) = {}
    BY <1>1
  <2>2. Cardinality({}) = 0
    BY FS_EmptySet
  <2>3. Inside(events, a, 0) = Cardinality({}) - Cardinality({})
    BY <2>1 DEF Inside
  <2> QED
    BY <2>2, <2>3
<1>3. DOMAIN g = AreasOf(l) /\ \A a \in DOMAIN g : g[a] = 0
  BY <1>2 DEF CountsIn
<1>4. IsFiniteSet(DOMAIN g)
  BY <1>3, AreasKnown
<1> HIDE DEF g
<1>5. SumFunction(g) = 0
  BY <1>3, <1>4, SumOfNothing
<1> QED
  BY <1>5 DEF g

LEMMA SeriesTells ==
  ASSUME OutputsAssumption, AnalyticsAssumption, NEW t, Counted(events, occupancy, t),
         NEW l \in Lots \cup {AllLots}, occupancy # <<>>,
         NEW j \in 1 .. Len(Series(l))
  PROVE  /\ Tells(events, Series(l)[j], l)
         /\ \/ Series(l)[j].occupied = 0
            \/ \E i \in DOMAIN occupancy :
                 Series(l)[j].occupied = SumFunction(CountsIn(events, l, occupancy[i].time))
<1>1. Len(occupancy) \in Nat /\ DOMAIN occupancy = 1 .. Len(occupancy)
  BY DEF Counted
<1>2. CASE j = 1
  <2>1. Series(l)[1] = [time |-> 0, occupied |-> 0]
    BY SeriesIs
  <2>2. Series(l)[j].time = 0 /\ Series(l)[j].occupied = 0
    BY <1>2, <2>1
  <2> QED
    BY <2>2, NothingAtFirst DEF Tells
<1>3. CASE j # 1
  <2> DEFINE i == j - 1
  <2>1. i \in 1 .. Len(occupancy) /\ j = i + 1
    BY <1>1, <1>3, SeriesIs
  <2> HIDE DEF i
  <2>2. Series(l)[j] = Point(occupancy[i], l)
    BY <2>1, SeriesIs
  <2>3. /\ Series(l)[j].time = occupancy[i].time
        /\ Series(l)[j].occupied = SumFunction(CountsIn(events, l, occupancy[i].time))
    BY <2>1, <2>2, PointIs
  <2>4. Tells(events, Series(l)[j], l)
    BY <2>3 DEF Tells
  <2> QED
    BY <1>1, <2>1, <2>3, <2>4
<1> QED
  BY <1>2, <1>3

(***************************************************************************)
(* What the chart shows: OccupancyMatchesEvents of one lot.                *)
(***************************************************************************)
HeldOf(log, counts, l) == {SumFunction(CountsIn(log, l, counts[i].time)) : i \in DOMAIN counts}

Shown(chart) == {chart[i].occupied : i \in DOMAIN chart}

ChartTells(log, counts, chart, l) ==
  /\ Len(chart) <= MostPoints
  /\ \A i \in DOMAIN chart :
       /\ Tells(log, chart[i], l)
       /\ i > 1 => chart[i - 1].time < chart[i].time
  /\ counts # <<>> =>
       /\ Last(chart).time = Last(counts).time
       /\ Max(Shown(chart)) = Max(HeldOf(log, counts, l))

LEMMA ChartHolds ==
  ASSUME OutputsAssumption, AnalyticsAssumption, NEW t, Counted(events, occupancy, t),
         NEW l \in Lots \cup {AllLots}
  PROVE  ChartTells(events, occupancy, Downsampled(Series(l)), l)
<1> DEFINE points == Series(l)
           chart == Downsampled(points)
           n == Len(occupancy)
           held == HeldOf(events, occupancy, l)
<1>0. MostPoints \in Nat /\ MostPoints >= 4
  BY DEF AnalyticsAssumption
<1>1. CASE occupancy = <<>>
  <2>1. points = <<>>
    BY <1>1 DEF Series
  <2>2. chart = <<>>
    BY <1>0, <2>1 DEF Downsampled
  <2>3. Len(chart) = 0 /\ DOMAIN chart = {}
    BY <2>2
  <2> QED
    BY <1>0, <1>1, <2>3 DEF ChartTells
<1>2. CASE occupancy # <<>>
  <2>1. n \in Nat /\ n >= 1 /\ DOMAIN occupancy = 1 .. n
    BY <1>2 DEF Counted
  <2>2. Rising(points) /\ Len(points) = n + 1
    BY <1>2, SeriesIs
  <2>3. points # <<>> /\ DOMAIN points = 1 .. (n + 1)
    BY <2>1, <2>2 DEF Rising
  <2>4. \A j \in 1 .. (n + 1) : points[j].occupied \in Nat
    BY <2>2, RisingFacts
  <2>5. \A j \in 1 .. (n + 1) :
          /\ Tells(events, points[j], l)
          /\ points[j].occupied = 0 \/ points[j].occupied \in held
    BY <1>2, <2>2, SeriesTells DEF HeldOf
  <2>6. ASSUME NEW x \in held PROVE \E j \in 1 .. (n + 1) : points[j].occupied = x
    <3>1. PICK i \in DOMAIN occupancy : x = SumFunction(CountsIn(events, l, occupancy[i].time))
      BY DEF HeldOf
    <3>2. points[i + 1] = Point(occupancy[i], l) /\ i + 1 \in 1 .. (n + 1)
      BY <1>2, <2>1, SeriesIs
    <3>3. Point(occupancy[i], l).occupied = SumFunction(CountsIn(events, l, occupancy[i].time))
      <4>1. i \in 1 .. Len(occupancy)
        BY <2>1
      <4> QED
        BY <4>1, PointIs
    <3>4. points[i + 1].occupied = x
      BY ONLY <3>1, <3>2, <3>3
    <3> QED
      BY <3>2, <3>4
  <2>7. points[n + 1].time = occupancy[n].time
    <3>0. n \in 1 .. Len(occupancy)
      BY <2>1
    <3>1. \A i \in 1 .. Len(occupancy) : points[i + 1] = Point(occupancy[i], l)
      BY <1>2, SeriesIs
    <3> HIDE DEF points, n
    <3>2. points[n + 1] = Point(occupancy[n], l)
      BY <3>0, <3>1
    <3>3. Point(occupancy[n], l).time = occupancy[n].time
      BY <3>0, PointIs
    <3> QED
      BY <3>2, <3>3
  <2> HIDE DEF points
  <2>8. Thinned(chart, points, 1, n + 1) /\ Len(chart) <= MostPoints /\ Last(chart) = points[n + 1]
    <3>1. Last(points) = points[n + 1]
      BY <2>2 DEF Last
    <3> QED
      BY <2>2, <2>3, <3>1, DownsampledThin
  <2> HIDE DEF chart
  <2>9. /\ \A i \in DOMAIN chart : \E j \in 1 .. (n + 1) : chart[i] = points[j]
        /\ \A j \in 1 .. (n + 1) : \E i \in DOMAIN chart : points[j].occupied <= chart[i].occupied
        /\ \A i \in DOMAIN chart : i > 1 => chart[i - 1].time < chart[i].time
        /\ DOMAIN chart = 1 .. Len(chart) /\ Len(chart) \in Nat /\ Len(chart) >= 1
    BY <2>8 DEF Thinned
  <2>10. \A i \in DOMAIN chart : Tells(events, chart[i], l)
    BY <2>5, <2>9
  <2>11. Last(chart).time = Last(occupancy).time
    BY <2>7, <2>8 DEF Last
  <2>12. \A x \in Shown(chart) : x \in Nat /\ (x = 0 \/ x \in held)
    BY <2>4, <2>5, <2>9 DEF Shown
  <2>13. ASSUME NEW x \in held PROVE x \in Nat /\ \E y \in Shown(chart) : x <= y
    <3>1. PICK j \in 1 .. (n + 1) : points[j].occupied = x
      BY <2>6
    <3>2. PICK i \in DOMAIN chart : points[j].occupied <= chart[i].occupied
      BY <2>9
    <3>3. x \in Nat
      BY <2>4, <3>1
    <3>4. chart[i].occupied \in Shown(chart)
      BY DEF Shown
    <3> QED
      BY <3>1, <3>2, <3>3, <3>4
  <2>14. Max(Shown(chart)) \in Shown(chart) /\ \A x \in Shown(chart) : x <= Max(Shown(chart))
    <3> DEFINE f == [i \in DOMAIN chart |-> chart[i].occupied]
               S == Shown(chart)
    <3>1. S # {} /\ S \subseteq Int
      <4>1. 1 \in DOMAIN chart
        BY <2>9
      <4>2. chart[1].occupied \in S
        BY <4>1 DEF Shown
      <4>3. S \subseteq Nat
        BY <2>12
      <4> HIDE DEF S
      <4> QED
        BY <4>2, <4>3
    <3>2. IsFiniteSet(DOMAIN chart)
      BY <2>9, FS_Interval
    <3>3. \A y \in S : \E i \in DOMAIN chart : y = f[i]
      BY DEF Shown
    <3> HIDE DEF S, f
    <3>4. IsFiniteSet(S)
      BY <3>2, <3>3, ImageFinite
    <3>5. Max(S) \in S /\ \A x \in S : x <= Max(S)
      BY <3>1, <3>4, GreatestMember
    <3> QED
      BY <3>5 DEF S
  <2>15. Max(held) \in held /\ \A x \in held : x <= Max(held)
    <3> DEFINE f == [i \in DOMAIN occupancy |-> SumFunction(CountsIn(events, l, occupancy[i].time))]
               S == held
    <3>1. S # {} /\ S \subseteq Int
      <4>1. 1 \in DOMAIN occupancy
        BY <2>1
      <4> QED
        BY <2>13, <4>1 DEF HeldOf
    <3>2. IsFiniteSet(DOMAIN occupancy)
      BY <2>1, FS_Interval
    <3>3. \A y \in S : \E i \in DOMAIN occupancy : y = f[i]
      BY DEF HeldOf
    <3> HIDE DEF S, f
    <3>4. IsFiniteSet(S)
      BY <3>2, <3>3, ImageFinite
    <3>5. Max(S) \in S /\ \A x \in S : x <= Max(S)
      BY <3>1, <3>4, GreatestMember
    <3> QED
      BY <3>5 DEF S
  <2>16. Max(Shown(chart)) = Max(held)
    <3> DEFINE x == Max(Shown(chart))
               y == Max(held)
    <3> HIDE DEF x, y
    <3>1. x \in Nat /\ y \in Nat
      BY <2>12, <2>13, <2>14, <2>15 DEF x, y
    <3>2. y <= x
      <4>1. PICK z \in Shown(chart) : y <= z
        BY <2>13, <2>15 DEF y
      <4>2. z <= x /\ z \in Nat
        BY <2>12, <2>14, <4>1 DEF x
      <4> QED
        BY <3>1, <4>1, <4>2
    <3>3. x <= y
      <4>1. x = 0 \/ x \in held
        BY <2>12, <2>14 DEF x
      <4>2. x \in held => x <= y
        BY <2>15 DEF y
      <4> QED
        BY <3>1, <4>1, <4>2
    <3>4. x = y
      BY <3>1, <3>2, <3>3
    <3> QED
      BY <3>4 DEF x, y
  <2>17. /\ Len(chart) <= MostPoints
         /\ \A i \in DOMAIN chart : i > 1 => chart[i - 1].time < chart[i].time
    BY <2>8, <2>9
  <2>18. ChartTells(events, occupancy, chart, l)
    BY ONLY <1>2, <2>10, <2>11, <2>16, <2>17 DEF ChartTells
  <2> QED
    BY <2>18 DEF chart, points
<1> QED
  BY <1>1, <1>2

\* The counts make every chart of the report tell what happened.
LEMMA AnalyseCounts ==
  ASSUME OutputsAssumption, AnalyticsAssumption, NEW t, Counted(events, occupancy, t), Analyse
  PROVE  OccupancyMatchesEvents'
<1>1. events' = events /\ occupancy' = occupancy /\ report'.occupancy = OccupancyChart
  BY DEF Analyse
<1>2. \A l \in Lots \cup {AllLots} : ChartTells(events, occupancy, OccupancyChart[l], l)
  BY ChartHolds DEF OccupancyChart
<1> DEFINE chart == OccupancyChart
<1> HIDE DEF chart
<1>3. \A l \in Lots \cup {AllLots} : ChartTells(events, occupancy, chart[l], l)
  BY <1>2 DEF chart
<1>4. report'.occupancy = chart
  BY <1>1 DEF chart
<1>5. \A l \in Lots \cup {AllLots} :
        ChartTells(events', occupancy', report'.occupancy[l], l)
  BY <1>1, <1>3, <1>4
<1> QED
  BY ONLY <1>5
  DEF OccupancyMatchesEvents, ChartTells, Tells, Shown, HeldOf, CountsIn, Inside, StopRows, Count

(***************************************************************************)
(* What one step counts.                                                   *)
(***************************************************************************)
One(b) == IF b THEN 1 ELSE 0

Tallies(row, kind, a) == IF row.event = kind /\ row.area = a THEN 1 ELSE 0

\* Two sets that differ at v only.
LEMMA OneMoves ==
  ASSUME NEW S, NEW T, NEW v, IsFiniteSet(S), S \subseteq T \cup {v}, T \subseteq S \cup {v}
  PROVE  /\ IsFiniteSet(T) /\ Cardinality(S) \in Nat /\ Cardinality(T) \in Nat
         /\ Cardinality(T) = Cardinality(S) + One(v \in T) - One(v \in S)
<1> DEFINE R == S \ {v}
<1>1. /\ IsFiniteSet(R)
      /\ Cardinality(R) = IF v \in S THEN Cardinality(S) - 1 ELSE Cardinality(S)
  BY FS_RemoveElement
<1>2. Cardinality(S) \in Nat /\ Cardinality(R) \in Nat
  BY <1>1, FS_CardinalityType
<1>3. v \notin R
  OBVIOUS
<1>4. T = IF v \in T THEN R \cup {v} ELSE R
  OBVIOUS
<1> HIDE DEF R
<1>5. IsFiniteSet(R \cup {v}) /\ Cardinality(R \cup {v}) = Cardinality(R) + 1
  BY <1>1, <1>3, FS_AddElement
<1>6. Cardinality(R) = Cardinality(S) - One(v \in S)
  BY <1>1, <1>2 DEF One
<1>7. CASE v \in T
  <2>1. T = R \cup {v} /\ One(v \in T) = 1
    BY <1>4, <1>7 DEF One
  <2>2. IsFiniteSet(T) /\ Cardinality(T) = Cardinality(R) + 1
    BY <1>5, <2>1
  <2>3. One(v \in S) \in Int
    BY DEF One
  <2> QED
    BY <1>2, <1>6, <2>1, <2>2, <2>3
<1>8. CASE v \notin T
  <2>1. T = R /\ One(v \in T) = 0
    BY <1>4, <1>8 DEF One
  <2>2. One(v \in S) \in Int
    BY DEF One
  <2> QED
    BY <1>1, <1>2, <1>6, <2>1, <2>2
<1> QED
  BY <1>7, <1>8

WrittenAt(rows, t) == \A i \in DOMAIN rows : rows[i].time = t

\* Rows written later do not count at an earlier time.
LEMMA EarlierRows ==
  ASSUME NEW log \in Seq(EventRow), NEW rows \in Seq(EventRow), NEW t \in Nat,
         WrittenAt(rows, t + 1),
         NEW s \in 1 .. t, NEW kind, NEW a
  PROVE  StopRows(log \o rows, kind, a, s) = StopRows(log, kind, a, s)
<1> DEFINE more == log \o rows
<1>1. /\ DOMAIN more = 1 .. (Len(log) + Len(rows)) /\ DOMAIN log = 1 .. Len(log)
      /\ DOMAIN rows = 1 .. Len(rows) /\ Len(log) \in Nat /\ Len(rows) \in Nat
      /\ \A i \in 1 .. Len(log) : more[i] = log[i]
      /\ \A i \in 1 .. Len(rows) : more[Len(log) + i] = rows[i]
  OBVIOUS
<1> HIDE DEF more
<1>2. ASSUME NEW i \in DOMAIN more, i \notin DOMAIN log PROVE ~ (more[i].time <= s)
  <2> DEFINE k == i - Len(log)
  <2>1. k \in 1 .. Len(rows) /\ i = Len(log) + k
    BY <1>1, <1>2
  <2> HIDE DEF k
  <2>2. more[i].time = t + 1
    BY <1>1, <2>1 DEF WrittenAt
  <2> QED
    BY <2>2
<1>3. \A i \in DOMAIN log : i \in DOMAIN more /\ more[i] = log[i]
  BY <1>1
<1>4. StopRows(more, kind, a, s) = StopRows(log, kind, a, s)
  BY <1>2, <1>3 DEF StopRows
<1> QED
  BY <1>4 DEF more

LEMMA EarlierInside ==
  ASSUME NEW log \in Seq(EventRow), NEW rows \in Seq(EventRow), NEW t \in Nat,
         WrittenAt(rows, t + 1),
         NEW s \in 1 .. t, NEW a
  PROVE  Inside(log \o rows, a, s) = Inside(log, a, s)
BY EarlierRows DEF Inside

Dated(log, t) == \A i \in DOMAIN log : log[i].time \in 1 .. t

LEMMA RowsAreFinite ==
  ASSUME NEW log \in Seq(EventRow), NEW kind, NEW a, NEW t
  PROVE  IsFiniteSet(StopRows(log, kind, a, t)) /\ Cardinality(StopRows(log, kind, a, t)) \in Nat
<1>1. DOMAIN log = 1 .. Len(log) /\ Len(log) \in Nat
  OBVIOUS
<1>2. IsFiniteSet(DOMAIN log)
  BY <1>1, FS_Interval
<1>3. StopRows(log, kind, a, t) \subseteq DOMAIN log
  BY DEF StopRows
<1>4. IsFiniteSet(StopRows(log, kind, a, t))
  BY <1>2, <1>3, FS_Subset
<1> QED
  BY <1>4, FS_CardinalityType

\* A second in which no row is written.
LEMMA InsideLater ==
  ASSUME NEW log \in Seq(EventRow), NEW t \in Nat, Dated(log, t), NEW a
  PROVE  Inside(log, a, t + 1) = Inside(log, a, t)
<1>1. \A i \in DOMAIN log : log[i].time <= t + 1 /\ log[i].time <= t
  BY DEF Dated
<1>2. \A kind : StopRows(log, kind, a, t + 1) = StopRows(log, kind, a, t)
  BY <1>1 DEF StopRows
<1> QED
  BY <1>2 DEF Inside

\* A row counts from its time on, if it is of that kind and area.
LEMMA RowsMore ==
  ASSUME NEW log \in Seq(EventRow), NEW row \in EventRow, NEW t \in Nat, Dated(log, t),
         row.time = t + 1, NEW kind, NEW a
  PROVE  Cardinality(StopRows(Append(log, row), kind, a, t + 1))
           = Cardinality(StopRows(log, kind, a, t)) + Tallies(row, kind, a)
<1> DEFINE more == Append(log, row)
           n == Len(log) + 1
           S == StopRows(log, kind, a, t)
           T == StopRows(more, kind, a, t + 1)
<1>1. /\ DOMAIN more = 1 .. n /\ DOMAIN log = 1 .. Len(log) /\ Len(log) \in Nat
      /\ \A i \in 1 .. Len(log) : more[i] = log[i]
      /\ more[n] = row
  OBVIOUS
<1> HIDE DEF more
<1>2. n \notin DOMAIN log /\ n \in DOMAIN more
  BY <1>1
<1>3. \A i \in DOMAIN more : i # n => i \in DOMAIN log
  BY <1>1
<1>4. \A i \in DOMAIN log : /\ i \in DOMAIN more /\ more[i] = log[i]
                            /\ log[i].time <= t + 1 /\ log[i].time <= t
  BY <1>1 DEF Dated
<1>5. t + 1 <= t + 1
  OBVIOUS
<1> HIDE DEF n
<1>6. S \subseteq T \cup {n} /\ T \subseteq S \cup {n} /\ n \notin S
  BY <1>2, <1>3, <1>4 DEF StopRows
<1>7. n \in T <=> row.event = kind /\ row.area = a
  BY <1>1, <1>2, <1>5 DEF StopRows
<1>8. IsFiniteSet(S)
  BY RowsAreFinite
<1> HIDE DEF S, T
<1>9. Cardinality(S) \in Nat /\ Cardinality(T) = Cardinality(S) + One(n \in T) - One(n \in S)
  BY <1>6, <1>8, OneMoves
<1>10. One(n \in S) = 0 /\ One(n \in T) = Tallies(row, kind, a)
  BY <1>6, <1>7 DEF One, Tallies
<1>11. Tallies(row, kind, a) \in Int
  BY DEF One, Tallies
<1>12. Cardinality(T) = Cardinality(S) + Tallies(row, kind, a)
  BY <1>9, <1>10, <1>11
<1> QED
  BY <1>12 DEF S, T, more

LEMMA InsideMore ==
  ASSUME NEW log \in Seq(EventRow), NEW row \in EventRow, NEW t \in Nat, Dated(log, t),
         row.time = t + 1, NEW a
  PROVE  /\ Inside(log, a, t) \in Int
         /\ Inside(log \o <<row>>, a, t + 1)
              = Inside(log, a, t) + Tallies(row, "parking_started", a)
                  - Tallies(row, "parking_ended", a)
<1> DEFINE S == Cardinality(StopRows(log, "parking_started", a, t))
           E == Cardinality(StopRows(log, "parking_ended", a, t))
           x == Tallies(row, "parking_started", a)
           y == Tallies(row, "parking_ended", a)
<1>1. log \o <<row>> = Append(log, row)
  OBVIOUS
<1>2. S \in Nat /\ E \in Nat
  BY RowsAreFinite
<1>3. x \in Int /\ y \in Int
  BY DEF One, Tallies
<1>4. Inside(log, a, t) = S - E
  BY DEF Inside
<1>5. Inside(Append(log, row), a, t + 1) = (S + x) - (E + y)
  <2>1. Cardinality(StopRows(Append(log, row), "parking_started", a, t + 1)) = S + x
    BY RowsMore
  <2>2. Cardinality(StopRows(Append(log, row), "parking_ended", a, t + 1)) = E + y
    BY RowsMore
  <2> HIDE DEF S, E, x, y
  <2> QED
    BY <2>1, <2>2 DEF Inside
<1>6. Inside(log \o <<row>>, a, t + 1) = (S + x) - (E + y)
  BY <1>1, <1>5
<1> HIDE DEF S, E, x, y
<1>7. (S + x) - (E + y) = (S - E) + x - y
  BY <1>2, <1>3
<1>8. Inside(log \o <<row>>, a, t + 1) = (S - E) + x - y
  BY <1>6, <1>7
<1> QED
  BY <1>2, <1>4, <1>8 DEF x, y

StandsIn(at, in, a) == IF at = "space" /\ in = a THEN 1 ELSE 0

Awaits(given, in, a) == IF given = a /\ in = None THEN 1 ELSE 0

\* g is f but for the value x at v.
Changed(f, g, v, x) == v \in Drivers /\ g[v] = x /\ \A u \in Drivers : u # v => g[u] = f[u]

LEMMA StandingMoves ==
  ASSUME IsFiniteSet(Drivers), NEW v, NEW p, NEW x, NEW a,
         NEW at, NEW in, NEW at2, NEW in2, Changed(at, at2, v, p), Changed(in, in2, v, x)
  PROVE  /\ Standing(at, in, a) \in Nat
         /\ Standing(at2, in2, a) \in Nat
         /\ Standing(at2, in2, a)
              = Standing(at, in, a) + StandsIn(p, x, a)
                  - StandsIn(at[v], in[v], a)
<1> DEFINE S == Occupants(at, in, a)
           T == Occupants(at2, in2, a)
<1>1. /\ v \in Drivers /\ at2[v] = p /\ in2[v] = x
      /\ \A u \in Drivers : u # v => at2[u] = at[u] /\ in2[u] = in[u]
  BY DEF Changed
<1>2. Standing(at, in, a) = Cardinality(S) /\ Standing(at2, in2, a) = Cardinality(T)
  BY DEF Standing, Occupants
<1>3. S \subseteq T \cup {v} /\ T \subseteq S \cup {v}
  BY <1>1 DEF Occupants
<1>4. IsFiniteSet(S)
  BY FS_Subset DEF Occupants
<1>5. (v \in T <=> p = "space" /\ x = a) /\ (v \in S <=> at[v] = "space" /\ in[v] = a)
  BY <1>1 DEF Occupants
<1> HIDE DEF S, T
<1>6. /\ Cardinality(S) \in Nat /\ Cardinality(T) \in Nat
      /\ Cardinality(T) = Cardinality(S) + One(v \in T) - One(v \in S)
  BY <1>3, <1>4, OneMoves
<1>7. /\ One(v \in T) = StandsIn(p, x, a)
      /\ One(v \in S) = StandsIn(at[v], in[v], a)
  BY <1>5 DEF One, StandsIn, Awaits
<1> QED
  BY <1>2, <1>6, <1>7

LEMMA PromisedMoves ==
  ASSUME IsFiniteSet(Drivers), NEW v, NEW g, NEW x, NEW a,
         NEW given, NEW in, NEW given2, NEW in2,
         Changed(given, given2, v, g), Changed(in, in2, v, x)
  PROVE  /\ Cardinality(Promised(given, in, a)) \in Nat
         /\ Cardinality(Promised(given2, in2, a)) \in Nat
         /\ Cardinality(Promised(given2, in2, a))
              = Cardinality(Promised(given, in, a)) + Awaits(g, x, a)
                  - Awaits(given[v], in[v], a)
<1> DEFINE S == Promised(given, in, a)
           T == Promised(given2, in2, a)
<1>1. /\ v \in Drivers /\ given2[v] = g /\ in2[v] = x
      /\ \A u \in Drivers : u # v => given2[u] = given[u] /\ in2[u] = in[u]
  BY DEF Changed
<1>3. S \subseteq T \cup {v} /\ T \subseteq S \cup {v}
  BY <1>1 DEF Promised
<1>4. IsFiniteSet(S)
  BY FS_Subset DEF Promised
<1>5. (v \in T <=> g = a /\ x = None) /\ (v \in S <=> given[v] = a /\ in[v] = None)
  BY <1>1 DEF Promised
<1> HIDE DEF S, T
<1>6. /\ Cardinality(S) \in Nat /\ Cardinality(T) \in Nat
      /\ Cardinality(T) = Cardinality(S) + One(v \in T) - One(v \in S)
  BY <1>3, <1>4, OneMoves
<1>7. /\ One(v \in T) = Awaits(g, x, a)
      /\ One(v \in S) = Awaits(given[v], in[v], a)
  BY <1>5 DEF One, StandsIn, Awaits
<1> QED
  BY <1>6, <1>7 DEF S, T

\* How many more drivers stand in a, and how many more spaces of a are taken or
\* promised, after a step of v.
Arriving(v, p, x, a) ==
  StandsIn(p, x, a) - StandsIn(place[v], stood[v], a)

Taking(v, p, x, given, a) ==
  Arriving(v, p, x, a) + Awaits(given, x, a) - Awaits(assigned[v], stood[v], a)

Full(a) == Standing(place, stood, a) + Reserved(a) >= Spaces[a]

\* The rows of the step say what it does, and it takes no space that there is not.
Tallied(v, p, x, given, rows) ==
  \A a \in Areas :
    /\ Inside(events, a, now) \in Int
    /\ Inside(events \o rows, a, now + 1) = Inside(events, a, now) + Arriving(v, p, x, a)
    /\ \/ Taking(v, p, x, given, a) <= 0
       \/ Taking(v, p, x, given, a) = 1 /\ ~ Full(a)

LEMMA FitsMoves ==
  ASSUME OutputsAssumption, Running, Counting, NEW v \in Drivers, NEW p, NEW r,
         NEW given, NEW done, NEW rows, Iteration(v, p, r, given, done, rows),
         NEW x, x = (IF p = "space" THEN given ELSE stood[v]),
         Tallied(v, p, x, given, rows)
  PROVE  Fits(place', stood', assigned', events', now')
<1>1. /\ place \in [Drivers -> Places]
      /\ stood \in [Drivers -> Areas \cup {None}]
      /\ assigned \in [Drivers -> Areas \cup {None}]
  BY DEF Running, World
<1>2. /\ now' = now + 1 /\ events' = events \o rows
      /\ place' = [place EXCEPT ![v] = p]
      /\ stood' = [stood EXCEPT ![v] = x]
      /\ assigned' = [assigned EXCEPT ![v] = given]
  BY DEF Iteration
<1> SUFFICES ASSUME NEW a \in Areas
             PROVE  /\ Standing(place', stood', a) = Inside(events', a, now')
                    /\ Standing(place', stood', a)
                         + Cardinality(Promised(assigned', stood', a)) <= Spaces[a]
  BY DEF Fits
<1> DEFINE s == Standing(place, stood, a)
           s2 == Standing(place', stood', a)
           q == Cardinality(Promised(assigned, stood, a))
           q2 == Cardinality(Promised(assigned', stood', a))
           i == Inside(events, a, now)
           c == Arriving(v, p, x, a)
           g == Awaits(given, x, a)
           h == Awaits(assigned[v], stood[v], a)
           y == StandsIn(p, x, a)
           z == StandsIn(place[v], stood[v], a)
<1>0. /\ Changed(place, place', v, p) /\ Changed(stood, stood', v, x)
      /\ Changed(assigned, assigned', v, given)
  BY <1>1, <1>2 DEF Changed
<1>3. s \in Nat /\ s2 \in Nat /\ s2 = s + y - z
  <2>1. IsFiniteSet(Drivers)
    BY DEF OutputsAssumption
  <2> QED
    BY ONLY <1>0, <2>1, StandingMoves
<1>4. q \in Nat /\ q2 \in Nat /\ q2 = q + g - h
  <2>1. IsFiniteSet(Drivers)
    BY DEF OutputsAssumption
  <2> QED
    BY ONLY <1>0, <2>1, PromisedMoves
<1>5. g \in Int /\ h \in Int /\ y \in Int /\ z \in Int /\ c = y - z /\ Spaces[a] \in Nat
  BY DEF StandsIn, Awaits, Arriving, OutputsAssumption
<1>6. s = i /\ s + q <= Spaces[a]
  BY DEF Counting, Fits
<1>7. Inside(events', a, now') = i + c
  BY <1>2 DEF Tallied
<1>8. c + g - h <= 0 \/ (c + g - h = 1 /\ ~ (s + q >= Spaces[a]))
  <2>1. Taking(v, p, x, given, a) = c + g - h
    BY DEF Taking
  <2>0. \/ Taking(v, p, x, given, a) <= 0
        \/ Taking(v, p, x, given, a) = 1 /\ ~ Full(a)
    BY DEF Tallied
  <2>2. Full(a) <=> s + q >= Spaces[a]
    BY DEF Full, Reserved, Promised
  <2> HIDE DEF c, g, h, s, q
  <2> QED
    BY <2>0, <2>1, <2>2
<1> HIDE DEF s, s2, q, q2, i, c, g, h, y, z
<1>9. s2 = i + c
  BY <1>3, <1>5, <1>6
<1>10. s2 + q2 <= Spaces[a]
  <2>1. s2 + q2 = (s + q) + (c + g - h)
    BY <1>3, <1>4, <1>5
  <2> DEFINE m == s + q
             k == c + g - h
  <2>2. m \in Nat /\ k \in Int /\ m <= Spaces[a] /\ (k <= 0 \/ (k = 1 /\ ~ (m >= Spaces[a])))
    BY <1>3, <1>4, <1>5, <1>6, <1>8
  <2>3. s2 + q2 = m + k
    BY <2>1
  <2> HIDE DEF m, k
  <2> QED
    BY <1>5, <2>2, <2>3
<1> QED
  BY <1>7, <1>9, <1>10 DEF s2, q2

(***************************************************************************)
(* The occupancy log, written after the moves of a second.                 *)
(***************************************************************************)
LEMMA DatedMore ==
  ASSUME NEW log \in Seq(EventRow), NEW rows \in Seq(EventRow), NEW t \in Nat, Dated(log, t),
         WrittenAt(rows, t + 1)
  PROVE  Dated(log \o rows, t + 1)
<1> DEFINE more == log \o rows
<1>1. /\ DOMAIN more = 1 .. (Len(log) + Len(rows)) /\ DOMAIN log = 1 .. Len(log)
      /\ DOMAIN rows = 1 .. Len(rows) /\ Len(log) \in Nat /\ Len(rows) \in Nat
      /\ \A i \in 1 .. Len(log) : more[i] = log[i]
      /\ \A i \in 1 .. Len(rows) : more[Len(log) + i] = rows[i]
  OBVIOUS
<1> HIDE DEF more
<1>2. ASSUME NEW i \in DOMAIN more PROVE more[i].time \in 1 .. (t + 1)
  <2>1. CASE i \in DOMAIN log
    <3>1. more[i].time \in 1 .. t
      BY <1>1, <2>1 DEF Dated
    <3> QED
      BY <3>1
  <2>2. CASE i \notin DOMAIN log
    <3> DEFINE k == i - Len(log)
    <3>1. k \in 1 .. Len(rows) /\ i = Len(log) + k
      BY <1>1, <2>2
    <3> HIDE DEF k
    <3>2. more[i].time = t + 1
      BY <1>1, <3>1 DEF WrittenAt
    <3> QED
      BY <3>2
  <2> QED
    BY <2>1, <2>2
<1> QED
  BY <1>2 DEF Dated, more

\* One row of the occupancy log is right.
RightBatch(log, counts, i, t) ==
  /\ counts[i].time \in 1 .. t
  /\ \A j \in 1 .. (i - 1) : counts[j].time < counts[i].time
  /\ \A a \in Areas : /\ counts[i].occupied[a] = Inside(log, a, counts[i].time)
                      /\ counts[i].occupied[a] <= Spaces[a]

LEMMA CountedMeans ==
  ASSUME NEW log, NEW counts, NEW t
  PROVE  Counted(log, counts, t) <=>
           /\ counts \in Seq(Batch) /\ Dated(log, t)
           /\ \A i \in DOMAIN counts : RightBatch(log, counts, i, t)
BY DEF Counted, Dated, RightBatch

LEMMA CountedMore ==
  ASSUME OutputsAssumption, NEW log \in Seq(EventRow), NEW rows \in Seq(EventRow),
         NEW t \in Nat, NEW counts, Counted(log, counts, t),
         WrittenAt(rows, t + 1),
         NEW at, NEW in, NEW given, Fits(at, in, given, log \o rows, t + 1)
  PROVE  Counted(log \o rows, counts \o OccupancyRows(t + 1, at, in), t + 1)
<1> DEFINE more == log \o rows
<1>1. /\ counts \in Seq(Batch) /\ DOMAIN counts = 1 .. Len(counts) /\ Len(counts) \in Nat
      /\ Dated(log, t) /\ \A i \in DOMAIN counts : RightBatch(log, counts, i, t)
  BY CountedMeans
<1>2. Dated(more, t + 1)
  BY <1>1, DatedMore
<1>3. ASSUME NEW i \in DOMAIN counts PROVE RightBatch(more, counts, i, t + 1)
  <2>1. RightBatch(log, counts, i, t)
    BY <1>1
  <2>2. counts[i].time \in 1 .. t
    BY <2>1 DEF RightBatch
  <2>3. \A a \in Areas : Inside(more, a, counts[i].time) = Inside(log, a, counts[i].time)
    <3> DEFINE s == counts[i].time
    <3>1. s \in 1 .. t
      BY <2>2
    <3> HIDE DEF s
    <3>2. \A a : Inside(log \o rows, a, s) = Inside(log, a, s)
      BY <3>1, EarlierInside
    <3> QED
      BY <3>2 DEF s
  <2>4. counts[i].time \in 1 .. (t + 1)
    BY <2>2
  <2> HIDE DEF more
  <2> QED
    BY <2>1, <2>3, <2>4 DEF RightBatch
<1>4. CASE OccupancyRows(t + 1, at, in) = <<>>
  <2>1. counts \o OccupancyRows(t + 1, at, in) = counts
    <3>1. counts \o <<>> = counts
      BY <1>1
    <3> QED
      BY ONLY <1>4, <3>1
  <2> HIDE DEF more
  <2>2. Counted(more, counts, t + 1)
    BY <1>1, <1>2, <1>3, CountedMeans
  <2> QED
    BY <2>1, <2>2 DEF more
<1>5. CASE OccupancyRows(t + 1, at, in) # <<>>
  <2> DEFINE now1 == t + 1
             f == [a \in Areas |-> Standing(at, in, a)]
             batch == [time |-> now1, occupied |-> f]
             all == Append(counts, batch)
             n == Len(counts) + 1
  <2>1. OccupancyRows(t + 1, at, in) = <<batch>>
    BY <1>5 DEF OccupancyRows
  <2>2. ASSUME NEW a \in Areas
        PROVE  f[a] \in Nat /\ f[a] = Inside(more, a, now1) /\ f[a] <= Spaces[a]
    <3>1. /\ Standing(at, in, a) = Inside(more, a, t + 1)
          /\ Standing(at, in, a) + Cardinality(Promised(given, in, a)) <= Spaces[a]
      BY DEF Fits
    <3>2. IsFiniteSet(Drivers)
      BY DEF OutputsAssumption
    <3>3. Standing(at, in, a) \in Nat
      <4>1. IsFiniteSet(Occupants(at, in, a))
        BY <3>2, FS_Subset DEF Occupants
      <4>2. Standing(at, in, a) = Cardinality(Occupants(at, in, a))
        BY DEF Standing, Occupants
      <4> QED
        BY <4>1, <4>2, FS_CardinalityType
    <3>4. Cardinality(Promised(given, in, a)) \in Nat
      <4>1. IsFiniteSet(Promised(given, in, a))
        BY <3>2, FS_Subset DEF Promised
      <4> QED
        BY <4>1, FS_CardinalityType
    <3>5. Spaces[a] \in Nat
      BY DEF OutputsAssumption
    <3>6. f[a] = Standing(at, in, a)
      OBVIOUS
    <3> HIDE DEF f, more
    <3> QED
      BY <3>1, <3>3, <3>4, <3>5, <3>6
  <2>3. f \in [Areas -> Nat]
    BY <2>2
  <2> HIDE DEF f, more
  <2>4. batch \in Batch /\ batch.time = now1 /\ batch.occupied = f
    BY <2>3 DEF Batch
  <2> HIDE DEF batch
  <2>5. /\ all \in Seq(Batch) /\ DOMAIN all = 1 .. n /\ all[n] = batch
        /\ \A i \in DOMAIN counts : all[i] = counts[i]
        /\ counts \o <<batch>> = all
    BY <1>1, <2>4
  <2> HIDE DEF all
  <2>6. ASSUME NEW i \in DOMAIN all PROVE RightBatch(more, all, i, now1)
    <3>1. CASE i \in DOMAIN counts
      <4>1. RightBatch(more, counts, i, now1)
        BY <1>3, <3>1
      <4>2. \A j \in 1 .. (i - 1) : all[j] = counts[j]
        BY <1>1, <2>5, <3>1
      <4>3. all[i] = counts[i]
        BY <2>5, <3>1
      <4> QED
        BY <4>1, <4>2, <4>3 DEF RightBatch
    <3>2. CASE i \notin DOMAIN counts
      <4>1. i = n /\ all[i] = batch
        BY <1>1, <2>5, <3>2
      <4>2. ASSUME NEW j \in 1 .. (i - 1) PROVE all[j].time < all[i].time
        <5>1. j \in DOMAIN counts
          BY <1>1, <4>1
        <5>2. all[j].time \in 1 .. t
          BY <1>1, <2>5, <5>1 DEF RightBatch
        <5> QED
          BY <2>4, <4>1, <5>2
      <4>3. all[i].time \in 1 .. now1
        BY <2>4, <4>1
      <4>4. \A a \in Areas : /\ all[i].occupied[a] = Inside(more, a, all[i].time)
                             /\ all[i].occupied[a] <= Spaces[a]
        BY <2>2, <2>4, <4>1
      <4> QED
        BY <4>2, <4>3, <4>4 DEF RightBatch
    <3> QED
      BY <3>1, <3>2
  <2>7. Counted(more, all, now1)
    BY <1>2, <2>5, <2>6, CountedMeans
  <2> QED
    BY <2>1, <2>5, <2>7 DEF more
<1> QED
  BY <1>4, <1>5

LEMMA IterationCounts ==
  ASSUME OutputsAssumption, Running, Counting, CountingSaved, NEW v \in Drivers, NEW p, NEW r,
         NEW given, NEW done, NEW rows \in Seq(EventRow), Iteration(v, p, r, given, done, rows),
         WrittenAt(rows, now + 1),
         Fits(place', stood', assigned', events', now')
  PROVE  Counting' /\ CountingSaved'
<1>1. events \in Seq(EventRow) /\ now \in Nat
  BY DEF Running, World
<1>2. /\ now' = now + 1 /\ events' = events \o rows
      /\ occupancy' = occupancy \o OccupancyRows(now + 1, place', stood')
  BY DEF Iteration
<1>3. Counted(events, occupancy, now) /\ occupancy \in Seq(Batch)
  BY DEF Counting, Counted
<1>4. Fits(place', stood', assigned', events \o rows, now + 1)
  BY <1>2
<1>5. Counted(events', occupancy', now')
  <2>1. Counted(events \o rows, occupancy \o OccupancyRows(now + 1, place', stood'), now + 1)
    BY <1>1, <1>3, <1>4, CountedMore
  <2> QED
    BY <1>2, <2>1
<1>6. Counting'
  BY <1>5 DEF Counting
<1>7. CountingSaved'
  <2>1. CASE saved' = saved
    <3>1. saved.events \in 0 .. Len(events)
      BY DEF Running, Checkpointed
    <3>2. SubSeq(events', 1, saved.events) = SubSeq(events, 1, saved.events)
      BY <1>1, <1>2, <3>1, CutPrefix
    <3>3. saved.occupancy \in 0 .. Len(occupancy)
      BY DEF CountingSaved
    <3>4. OccupancyRows(now + 1, place', stood') \in Seq(Batch)
      <4>1. occupancy' \in Seq(Batch)
        BY <1>5 DEF Counted
      <4> DEFINE more == OccupancyRows(now + 1, place', stood')
      <4>2. more = <<>> \/ \E x : more = <<x>>
        BY DEF OccupancyRows
      <4>3. occupancy' = occupancy \o more
        BY <1>2
      <4> HIDE DEF more
      <4>4. more = <<>> => more \in Seq(Batch)
        OBVIOUS
      <4>5. ASSUME NEW x, more = <<x>> PROVE more \in Seq(Batch)
        <5>1. more = <<x>>
          BY <4>5
        <5>2. occupancy' = Append(occupancy, x)
          BY <1>3, <4>3, <5>1
        <5>3. x \in Batch
          BY <1>3, <4>1, <5>2
        <5> QED
          BY <5>1, <5>3
      <4> QED
        BY <4>2, <4>4, <4>5 DEF more
    <3>5. /\ saved.occupancy \in 0 .. Len(occupancy')
          /\ SubSeq(occupancy', 1, saved.occupancy) = SubSeq(occupancy, 1, saved.occupancy)
      BY <1>2, <1>3, <3>3, <3>4, CutPrefix
    <3> QED
      BY <2>1, <3>2, <3>5 DEF CountingSaved
  <2>2. CASE saved' = Capture(now', place', stood', tracker', assigned', visited',
                              events', occupancy')
    <3>1. /\ saved'.time = now' /\ saved'.place = place' /\ saved'.stood = stood'
          /\ saved'.assigned = assigned' /\ saved'.events = Len(events')
          /\ saved'.occupancy = Len(occupancy')
      BY <2>2 DEF Capture
    <3>2. events' \in Seq(EventRow) /\ occupancy' \in Seq(Batch)
      BY <1>1, <1>2, <1>5 DEF Counted
    <3>3. SubSeq(events', 1, Len(events')) = events'
      BY <3>2, CutNothing
    <3>4. /\ Len(occupancy') \in 0 .. Len(occupancy')
          /\ SubSeq(occupancy', 1, Len(occupancy')) = occupancy'
      BY <3>2, CutNothing
    <3> QED
      BY <1>5, <3>1, <3>3, <3>4 DEF CountingSaved
  <2> QED
    BY <2>1, <2>2 DEF Iteration
<1> QED
  BY <1>6, <1>7

(***************************************************************************)
(* The steps of a vehicle.                                                 *)
(***************************************************************************)
\* At most a row that no count is made of.
Uncounted(rows) ==
  \/ rows = <<>>
  \/ \E row \in EventRow : /\ rows = <<row>> /\ row.time = now + 1
                           /\ row.event = "parking_attempt"

\* The step of v that writes at most a row that no count is made of, and takes a
\* space only where there is one.
LEMMA MovesCount ==
  ASSUME OutputsAssumption, Running, Counting, CountingSaved, NEW v \in Drivers, NEW p, NEW r,
         NEW given, NEW done, NEW rows \in Seq(EventRow), Iteration(v, p, r, given, done, rows),
         Uncounted(rows),
         p # "space", place[v] # "space",
         \/ given \in {None, assigned[v]}
         \/ assigned[v] = None /\ ~ Full(given)
  PROVE  Counting' /\ CountingSaved'
<1> DEFINE x == stood[v]
<1>1. events \in Seq(EventRow) /\ now \in Nat /\ Dated(events, now)
  BY DEF Running, World, Counting, Counted, Dated
<1>2. WrittenAt(rows, now + 1)
  <2>1. CASE rows = <<>>
    BY <2>1 DEF WrittenAt
  <2>2. ASSUME NEW row \in EventRow, rows = <<row>>, row.time = now + 1
        PROVE  WrittenAt(rows, now + 1)
    BY <2>2 DEF WrittenAt
  <2> QED
    BY <2>1, <2>2 DEF Uncounted
<1>3. ASSUME NEW a \in Areas
      PROVE  /\ Inside(events, a, now) \in Int
             /\ Inside(events \o rows, a, now + 1) = Inside(events, a, now)
  <2>1. Inside(events, a, now) \in Int
    <3>1. /\ Cardinality(StopRows(events, "parking_started", a, now)) \in Nat
          /\ Cardinality(StopRows(events, "parking_ended", a, now)) \in Nat
      BY <1>1, RowsAreFinite
    <3> QED
      BY <3>1 DEF Inside
  <2>2. CASE rows = <<>>
    <3>1. events \o rows = events
      BY <1>1, <2>2
    <3> QED
      BY <1>1, <2>1, <3>1, InsideLater
  <2>3. ASSUME NEW row \in EventRow, rows = <<row>>, row.time = now + 1,
               row.event = "parking_attempt"
        PROVE  Inside(events \o rows, a, now + 1) = Inside(events, a, now)
    <3>1. Tallies(row, "parking_started", a) = 0 /\ Tallies(row, "parking_ended", a) = 0
      BY <2>3 DEF Tallies
    <3>2. Inside(events \o <<row>>, a, now + 1)
            = Inside(events, a, now) + Tallies(row, "parking_started", a)
                - Tallies(row, "parking_ended", a)
      <4>1. row \in EventRow /\ row.time = now + 1
        BY <2>3
      <4> QED
        BY ONLY <1>1, <4>1, InsideMore
    <3> QED
      BY <2>1, <2>3, <3>1, <3>2
  <2> QED
    BY <2>1, <2>2, <2>3 DEF Uncounted
<1>4. ASSUME NEW a \in Areas
      PROVE  /\ Arriving(v, p, x, a) = 0
             /\ \/ Taking(v, p, x, given, a) <= 0
                \/ Taking(v, p, x, given, a) = 1 /\ ~ Full(a)
  <2>1. Arriving(v, p, x, a) = 0
    BY DEF Arriving, StandsIn
  <2>2. None \notin Areas
    BY DEF OutputsAssumption
  <2>3. Taking(v, p, x, given, a) = Awaits(given, x, a) - Awaits(assigned[v], x, a)
    <3>1. Awaits(given, x, a) \in Int /\ Awaits(assigned[v], x, a) \in Int
      BY DEF Awaits
    <3> QED
      BY <2>1, <3>1 DEF Taking
  <2>4. CASE given = None
    BY <2>1, <2>2, <2>3, <2>4 DEF Awaits
  <2>5. CASE given = assigned[v]
    BY <2>1, <2>3, <2>5 DEF Awaits
  <2>6. CASE assigned[v] = None /\ ~ Full(given)
    BY <2>1, <2>2, <2>3, <2>6 DEF Awaits
  <2> QED
    BY <2>1, <2>4, <2>5, <2>6
<1>5. Tallied(v, p, x, given, rows)
  <2> HIDE DEF x
  <2> QED
    BY <1>3, <1>4 DEF Tallied
<1>6. x = (IF p = "space" THEN given ELSE stood[v])
  OBVIOUS
<1>7. Fits(place', stood', assigned', events', now')
  <2> HIDE DEF x
  <2> QED
    BY <1>5, <1>6, FitsMoves
<1> QED
  BY <1>2, <1>7, IterationCounts

LEMMA QuietCounts ==
  ASSUME OutputsAssumption, Running, Counting, CountingSaved, NEW v \in Drivers, NEW p, NEW r,
         NEW given, given \in {None, assigned[v]}, Iteration(v, p, r, given, {}, <<>>),
         p # "space", place[v] # "space"
  PROVE  Counting' /\ CountingSaved'
<1> DEFINE rows == <<>>
           done == {}
<1>1. rows \in Seq(EventRow) /\ Uncounted(rows) /\ Iteration(v, p, r, given, done, rows)
  BY DEF Uncounted
<1> HIDE DEF rows, done
<1> QED
  BY <1>1, MovesCount

LEMMA MeetsCount ==
  ASSUME OutputsAssumption, Running, Counting, CountingSaved, NEW v \in Drivers,
         NEW lot \in Lots, Meets(v, lot), NEW p, p # "space", NEW r, NEW given, NEW done,
         given = None \/ ~ Full(given), Iteration(v, p, r, given, done, AttemptRow(v, lot))
  PROVE  Counting' /\ CountingSaved'
<1> DEFINE row == Row(now + 1, v, "parking_attempt", lot, None)
           rows == AttemptRow(v, lot)
<1>1. row \in EventRow /\ row.time = now + 1 /\ row.event = "parking_attempt"
  <2>1. now + 1 \in Nat
    BY DriverKnown
  <2> QED
    BY <2>1 DEF Row, EventRow
<1>2. rows = <<row>>
  BY DEF AttemptRow
<1> HIDE DEF row, rows
<1>3. rows \in Seq(EventRow) /\ Uncounted(rows)
  BY <1>1, <1>2 DEF Uncounted
<1>4. assigned[v] = None /\ place[v] # "space"
  BY DEF Meets
<1>5. Iteration(v, p, r, given, done, rows)
  BY DEF rows
<1> QED
  BY <1>3, <1>4, <1>5, MovesCount

LEMMA PassesCounts ==
  ASSUME OutputsAssumption, Running, Counting, CountingSaved, NEW v \in Drivers,
         NEW lot \in Lots,
         DrivesPast(v, lot) \/ TakesSpace(v, lot) \/ SearchesOn(v, lot) \/ GivesUp(v, lot)
  PROVE  Counting' /\ CountingSaved'
<1>1. CASE DrivesPast(v, lot)
  BY <1>1, MeetsCount DEF DrivesPast
<1>2. CASE TakesSpace(v, lot)
  <2>1. PICK a \in FreeAreas(lot) :
          Iteration(v, "road",
                    MarkAssigned(MarkTargetChanged(Tried(v, lot), now + 1, lot), a),
                    a, {}, AttemptRow(v, lot))
    BY <1>2 DEF TakesSpace
  <2>2. ~ Full(a)
    <3> DEFINE s == Standing(place, stood, a)
               q == Reserved(a)
    <3>1. a \in Areas /\ Spaces[a] > s + q
      BY DEF FreeAreas
    <3>2. s \in Nat /\ q \in Nat /\ Spaces[a] \in Nat
      <4>1. Changed(place, place, v, place[v]) /\ Changed(stood, stood, v, stood[v])
            /\ Changed(assigned, assigned, v, assigned[v])
        BY DEF Changed
      <4>2. IsFiniteSet(Drivers) /\ Spaces[a] \in Nat
        BY <3>1 DEF OutputsAssumption
      <4>3. s \in Nat
        BY ONLY <4>1, <4>2, StandingMoves
      <4>4. Cardinality(Promised(assigned, stood, a)) \in Nat
        BY ONLY <4>1, <4>2, PromisedMoves
      <4> QED
        BY <4>2, <4>3, <4>4 DEF Reserved, Promised
    <3> HIDE DEF s, q
    <3>3. ~ (s + q >= Spaces[a])
      BY <3>1, <3>2
    <3> QED
      BY <3>3 DEF Full, s, q
  <2>3. Meets(v, lot)
    BY <1>2 DEF TakesSpace
  <2> QED
    BY <2>1, <2>2, <2>3, MeetsCount
<1>3. CASE SearchesOn(v, lot)
  <2>1. Meets(v, lot) /\ \E r : Iteration(v, "road", r, None, {}, AttemptRow(v, lot))
    BY <1>3 DEF SearchesOn
  <2> QED
    BY <2>1, MeetsCount
<1>4. CASE GivesUp(v, lot)
  <2>1. Meets(v, lot) /\ \E r : Iteration(v, "gone", r, None, {v}, AttemptRow(v, lot))
    BY <1>4 DEF GivesUp
  <2> QED
    BY <2>1, MeetsCount
<1> QED
  BY <1>1, <1>2, <1>3, <1>4

LEMMA StopStartsCounts ==
  ASSUME OutputsAssumption, Running, Counting, CountingSaved, NEW v \in Drivers, StopStarts(v)
  PROVE  Counting' /\ CountingSaved'
<1> DEFINE b == assigned[v]
           r == MarkParked(MarkInside(tracker[v], now + 1), now + 1, b)
           row == Row(now + 1, v, "parking_started", tracker[v].target, b)
           rows == <<row>>
           done == {}
           p == "space"
<1>1. place[v] = "aisle" /\ b # None /\ Iteration(v, p, r, b, done, rows)
  BY DEF StopStarts
<1>2. stood[v] = None
  BY <1>1, DriverKnown DEF Life
<1>3. /\ row \in EventRow /\ row.time = now + 1 /\ row.event = "parking_started"
      /\ row.area = b
  <2>1. now + 1 \in Nat /\ b \in Areas \cup {None} /\ tracker[v].target \in Lots
    BY DriverKnown DEF Record
  <2> QED
    BY <2>1 DEF Row, EventRow
<1>4. events \in Seq(EventRow) /\ now \in Nat /\ Dated(events, now)
  BY DEF Running, World, Counting, Counted, Dated
<1> HIDE DEF row, r, done, b
<1>5. rows \in Seq(EventRow) /\ WrittenAt(rows, now + 1)
  BY <1>3 DEF WrittenAt
<1>6. ASSUME NEW a \in Areas
      PROVE  /\ Inside(events, a, now) \in Int
             /\ Inside(events \o rows, a, now + 1) = Inside(events, a, now) + Arriving(v, p, b, a)
             /\ Taking(v, p, b, b, a) <= 0
  <2>1. Tallies(row, "parking_started", a) = StandsIn(p, b, a)
        /\ Tallies(row, "parking_ended", a) = 0
    BY <1>3 DEF Tallies, StandsIn
  <2>2. StandsIn(place[v], stood[v], a) = 0
    BY <1>1 DEF StandsIn
  <2>3. /\ Inside(events, a, now) \in Int
        /\ Inside(events \o <<row>>, a, now + 1)
             = Inside(events, a, now) + Tallies(row, "parking_started", a)
                 - Tallies(row, "parking_ended", a)
    BY <1>3, <1>4, InsideMore
  <2>4. Awaits(b, b, a) = 0 /\ Awaits(assigned[v], stood[v], a) = StandsIn(p, b, a)
    <3>1. a # None
      BY DEF OutputsAssumption
    <3> QED
      BY <1>2, <3>1 DEF Awaits, StandsIn, b
  <2>5. StandsIn(p, b, a) \in Int
    BY DEF StandsIn
  <2>6. Arriving(v, p, b, a) = StandsIn(p, b, a)
    BY <2>2, <2>5 DEF Arriving
  <2>7. Taking(v, p, b, b, a) = 0
    BY <2>4, <2>5, <2>6 DEF Taking
  <2> QED
    BY <2>1, <2>3, <2>5, <2>6, <2>7
<1> HIDE DEF rows
<1>7. Tallied(v, p, b, b, rows)
  BY <1>6 DEF Tallied
<1>8. b = (IF p = "space" THEN b ELSE stood[v])
  OBVIOUS
<1> HIDE DEF p
<1>9. Fits(place', stood', assigned', events', now')
  BY <1>1, <1>7, <1>8, FitsMoves
<1> QED
  BY <1>1, <1>5, <1>9, IterationCounts

LEMMA StopEndsCounts ==
  ASSUME OutputsAssumption, Running, Counting, CountingSaved, NEW v \in Drivers, StopEnds(v)
  PROVE  Counting' /\ CountingSaved'
<1> DEFINE b == assigned[v]
           r == MarkParkingEnded(tracker[v], now + 1)
           row == Row(now + 1, v, "parking_ended", tracker[v].target, b)
           rows == <<row>>
           done == {v}
           p == "aisle"
           given == None
<1>1. place[v] = "space" /\ Iteration(v, p, r, given, done, rows)
  BY DEF StopEnds
<1>2. stood[v] = b /\ b # None
  BY <1>1, DriverKnown DEF Life
<1>3. /\ row \in EventRow /\ row.time = now + 1 /\ row.event = "parking_ended"
      /\ row.area = b
  <2>1. now + 1 \in Nat /\ b \in Areas \cup {None} /\ tracker[v].target \in Lots
    BY DriverKnown DEF Record
  <2> QED
    BY <2>1 DEF Row, EventRow
<1>4. events \in Seq(EventRow) /\ now \in Nat /\ Dated(events, now)
  BY DEF Running, World, Counting, Counted, Dated
<1> HIDE DEF row, r, done, b
<1>5. rows \in Seq(EventRow) /\ WrittenAt(rows, now + 1)
  BY <1>3 DEF WrittenAt
<1>6. ASSUME NEW a \in Areas
      PROVE  /\ Inside(events, a, now) \in Int
             /\ Inside(events \o rows, a, now + 1) = Inside(events, a, now) + Arriving(v, p, b, a)
             /\ Taking(v, p, b, given, a) <= 0
  <2>1. Tallies(row, "parking_ended", a) = StandsIn(place[v], stood[v], a)
        /\ Tallies(row, "parking_started", a) = 0
    BY <1>1, <1>2, <1>3 DEF Tallies, StandsIn
  <2>2. StandsIn(p, b, a) = 0
    BY DEF StandsIn
  <2>3. /\ Inside(events, a, now) \in Int
        /\ Inside(events \o <<row>>, a, now + 1)
             = Inside(events, a, now) + Tallies(row, "parking_started", a)
                 - Tallies(row, "parking_ended", a)
    BY <1>3, <1>4, InsideMore
  <2>4. Awaits(given, b, a) = 0 /\ Awaits(assigned[v], stood[v], a) = 0
    BY <1>2 DEF Awaits
  <2>5. StandsIn(place[v], stood[v], a) \in Nat
    BY DEF StandsIn
  <2>6. Arriving(v, p, b, a) = 0 - StandsIn(place[v], stood[v], a)
    BY <2>2, <2>5 DEF Arriving
  <2>7. Taking(v, p, b, given, a) = 0 - StandsIn(place[v], stood[v], a)
    BY <2>4, <2>5, <2>6 DEF Taking
  <2> QED
    BY <2>1, <2>3, <2>5, <2>6, <2>7
<1> HIDE DEF rows, given
<1>7. Tallied(v, p, b, given, rows)
  BY <1>6 DEF Tallied
<1>8. b = (IF p = "space" THEN given ELSE stood[v])
  BY <1>2
<1> HIDE DEF p
<1>9. Fits(place', stood', assigned', events', now')
  BY <1>1, <1>7, <1>8, FitsMoves
<1> QED
  BY <1>1, <1>5, <1>9, IterationCounts

LEMMA VehicleCounts ==
  ASSUME OutputsAssumption, Running, Counting, CountingSaved, NEW v \in Drivers,
         \/ Departs(v) \/ Passes(v) \/ EntersLot(v) \/ StopStarts(v) \/ StopEnds(v)
         \/ Stays(v) \/ Arrives(v)
  PROVE  Counting' /\ CountingSaved'
<1>1. CASE Passes(v)
  BY <1>1, PassesCounts DEF Passes
<1>2. CASE Departs(v)
  BY <1>2, QuietCounts DEF Departs
<1>3. CASE EntersLot(v)
  BY <1>3, QuietCounts DEF EntersLot
<1>4. CASE Stays(v)
  BY <1>4, QuietCounts DEF Stays
<1>5. CASE Arrives(v)
  <2>1. place[v] # "space" /\ \E r : Iteration(v, "gone", r, assigned[v], {}, <<>>)
    BY <1>5 DEF Arrives
  <2> QED
    BY <2>1, QuietCounts
<1> QED
  BY <1>1, <1>2, <1>3, <1>4, <1>5, StopStartsCounts, StopEndsCounts

(***************************************************************************)
(* The start, a replay, the end, and the report.                           *)
(***************************************************************************)
LEMMA StartCounts ==
  ASSUME OutputsAssumption, OutputsInit
  PROVE  Counting /\ CountingSaved
<1>1. events = <<>> /\ occupancy = <<>> /\ now = 0
  BY DEF OutputsInit
<1>2. Fits(place, stood, assigned, events, now)
  <2> SUFFICES ASSUME NEW a \in Areas
               PROVE  /\ Standing(place, stood, a) = Inside(events, a, now)
                      /\ Standing(place, stood, a)
                           + Cardinality(Promised(assigned, stood, a)) <= Spaces[a]
    BY DEF Fits
  <2>1. Cardinality({}) = 0
    BY FS_EmptySet
  <2>2. Standing(place, stood, a) = 0
    <3>1. Occupants(place, stood, a) = {}
      BY DEF OutputsInit, Occupants
    <3> QED
      BY <2>1, <3>1 DEF Standing, Occupants
  <2>3. Cardinality(Promised(assigned, stood, a)) = 0
    <3>1. Promised(assigned, stood, a) = {}
      BY DEF OutputsInit, Promised, OutputsAssumption
    <3> QED
      BY <2>1, <3>1
  <2>4. Inside(events, a, now) = 0
    <3>1. \A kind : StopRows(events, kind, a, now) = {}
      BY <1>1 DEF StopRows
    <3>2. /\ Cardinality(StopRows(events, "parking_started", a, now)) = 0
          /\ Cardinality(StopRows(events, "parking_ended", a, now)) = 0
      BY <2>1, <3>1
    <3> QED
      BY <3>2 DEF Inside
  <2>5. Spaces[a] \in Nat
    BY DEF OutputsAssumption
  <2> QED
    BY <2>2, <2>3, <2>4, <2>5
<1>3. Counted(events, occupancy, now)
  BY <1>1 DEF Counted
<1>4. /\ saved.time = now /\ saved.place = place /\ saved.stood = stood
      /\ saved.assigned = assigned /\ saved.events = Len(events)
      /\ saved.occupancy = Len(occupancy)
  BY DEF OutputsInit, Capture
<1>5. events \in Seq(EventRow) /\ occupancy \in Seq(Batch)
  BY <1>1
<1>6. SubSeq(events, 1, Len(events)) = events
  BY <1>5, CutNothing
<1>7. Len(occupancy) \in 0 .. Len(occupancy) /\ SubSeq(occupancy, 1, Len(occupancy)) = occupancy
  BY <1>5, CutNothing
<1> QED
  BY <1>2, <1>3, <1>4, <1>6, <1>7 DEF Counting, CountingSaved

\* Both logs are cut at the checkpoint.
LEMMA RecoverCounts ==
  ASSUME Running, Counting, CountingSaved, Recover
  PROVE  Counting' /\ CountingSaved'
<1>1. /\ events' = SubSeq(events, 1, saved.events)
      /\ occupancy' = SubSeq(occupancy, 1, saved.occupancy)
      /\ saved' = saved
      /\ now' = saved.time /\ place' = saved.place /\ stood' = saved.stood
      /\ assigned' = saved.assigned
  BY DEF Recover, CutOff
<1>2. events \in Seq(EventRow) /\ saved.events \in 0 .. Len(events)
  BY DEF Running, World, Checkpointed
<1>3. occupancy \in Seq(Batch) /\ saved.occupancy \in 0 .. Len(occupancy)
  BY DEF Counting, Counted, CountingSaved
<1>4. /\ Fits(saved.place, saved.stood, saved.assigned, events', saved.time)
      /\ Counted(events', occupancy', saved.time)
  BY <1>1 DEF CountingSaved
<1>5. Counting'
  BY <1>1, <1>4 DEF Counting
<1>6. events' \in Seq(EventRow) /\ Len(events') = saved.events
  BY <1>1, <1>2
<1>7. occupancy' \in Seq(Batch) /\ Len(occupancy') = saved.occupancy
  BY <1>1, <1>3
<1>8. SubSeq(events', 1, saved.events) = events'
  BY <1>6, CutNothing
<1>9. /\ saved.occupancy \in 0 .. Len(occupancy')
      /\ SubSeq(occupancy', 1, saved.occupancy) = occupancy'
  BY <1>7, CutNothing
<1>10. CountingSaved'
  BY <1>1, <1>4, <1>8, <1>9 DEF CountingSaved
<1> QED
  BY <1>5, <1>10

LEMMA NextCharts ==
  ASSUME OutputsAssumption, AnalyticsAssumption, Inv, InvCharts, AnalyticsNext
  PROVE  InvCharts'
<1>1. CASE OutputsNext /\ UNCHANGED report
  <2>1. Running /\ stage = "running" /\ Counting /\ CountingSaved
    BY <1>1, StepsWhileRunning DEF Inv, Settled, InvCharts
  <2>2. CASE \E v \in Drivers :
               \/ Departs(v) \/ Passes(v) \/ EntersLot(v) \/ StopStarts(v) \/ StopEnds(v)
               \/ Stays(v) \/ Arrives(v)
    <3>1. stage' = "running"
      BY <2>1, <2>2, VehicleRuns DEF Running
    <3>2. Counting' /\ CountingSaved'
      BY <2>1, <2>2, VehicleCounts
    <3> QED
      BY <3>1, <3>2 DEF InvCharts, OccupancyMatchesEvents
  <2>3. CASE Recover
    <3>1. stage' = "running"
      BY <2>1, <2>3 DEF Recover
    <3>2. Counting' /\ CountingSaved'
      BY <2>1, <2>3, RecoverCounts
    <3> QED
      BY <3>1, <3>2 DEF InvCharts, OccupancyMatchesEvents
  <2>4. CASE WriteOutputs
    <3>1. stage' = "written" /\ now' = now /\ events' = events /\ occupancy' = occupancy
      BY <2>4 DEF WriteOutputs
    <3>2. Counted(events', occupancy', now')
      BY <2>1, <3>1 DEF Counting
    <3> QED
      BY <3>1, <3>2 DEF InvCharts, OccupancyMatchesEvents
  <2> QED
    BY <1>1, <2>2, <2>3, <2>4 DEF OutputsNext
<1>2. CASE Analyse
  <2>1. /\ stage = "written" /\ stage' = "analysed"
        /\ now' = now /\ events' = events /\ occupancy' = occupancy
    BY <1>2 DEF Analyse
  <2>2. Counted(events, occupancy, now)
    BY <2>1 DEF InvCharts
  <2>3. OccupancyMatchesEvents'
    BY <1>2, <2>2, AnalyseCounts
  <2>4. Counted(events', occupancy', now')
    BY <2>1, <2>2
  <2> QED
    BY <2>1, <2>3, <2>4 DEF InvCharts
<1> QED
  BY <1>1, <1>2 DEF AnalyticsNext

LEMMA StutterCharts ==
  ASSUME InvCharts, UNCHANGED analyticsVars
  PROVE  InvCharts'
<1>1. /\ now' = now /\ stage' = stage /\ place' = place /\ stood' = stood
      /\ assigned' = assigned /\ events' = events /\ occupancy' = occupancy
      /\ saved' = saved /\ report' = report
  BY DEF analyticsVars, outputVars
<1>2. OccupancyMatchesEvents'
  <2>1. CASE stage = "analysed"
    <3>1. \A l \in Lots \cup {AllLots} : ChartTells(events, occupancy, report.occupancy[l], l)
      BY <2>1 DEF InvCharts, OccupancyMatchesEvents,
                  ChartTells, Tells, Shown, HeldOf, CountsIn, Inside, StopRows, Count
    <3>2. \A l \in Lots \cup {AllLots} : ChartTells(events', occupancy', report'.occupancy[l], l)
      BY <1>1, <3>1
    <3> QED
      BY ONLY <3>2
      DEF OccupancyMatchesEvents,
          ChartTells, Tells, Shown, HeldOf, CountsIn, Inside, StopRows, Count
  <2>2. CASE stage # "analysed"
    BY <1>1, <2>2 DEF OccupancyMatchesEvents
  <2> QED
    BY <2>1, <2>2
<1>3. Counting => Counting'
  BY <1>1 DEF Counting
<1>4. CountingSaved => CountingSaved'
  BY <1>1 DEF CountingSaved
<1>5. Counted(events, occupancy, now) => Counted(events', occupancy', now')
  BY <1>1
<1> QED
  BY <1>1, <1>2, <1>3, <1>4, <1>5 DEF InvCharts

\* In both logs of metrics_logger.py, and in their parts up to the checkpoint, an
\* area holds whose stop has started there and not ended, and never more than it
\* has spaces: main.py promises a space to one driver at a time.
THEOREM CountsHold == AnalyticsSpec => []InvCharts
<1>1. AnalyticsInit => InvCharts
  <2> SUFFICES ASSUME AnalyticsInit PROVE InvCharts
    OBVIOUS
  <2>1. OutputsInit /\ stage = "running"
    BY DEF AnalyticsInit, OutputsInit
  <2>2. Counting /\ CountingSaved
    BY <2>1, OutputsAssumption, StartCounts
  <2> QED
    BY <2>1, <2>2 DEF InvCharts, OccupancyMatchesEvents
<1>2. Inv /\ InvCharts /\ [AnalyticsNext]_analyticsVars => InvCharts'
  BY OutputsAssumption, AnalyticsAssumption, NextCharts, StutterCharts
<1> QED
  BY <1>1, <1>2, InvHolds, PTL DEF AnalyticsSpec

\* _occupancy_results and _downsample_occupancy: a chart of any length tells of every
\* lot what the events tell, with the last point and the highest count of the log.
THEOREM OccupancyMatchesEventsHolds == AnalyticsSpec => []OccupancyMatchesEvents
<1>1. InvCharts => OccupancyMatchesEvents
  BY DEF InvCharts
<1> QED
  BY <1>1, CountsHold, PTL

=============================================================================
