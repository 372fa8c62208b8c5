---------------------------- MODULE StudyPlanning ----------------------------
(***************************************************************************)
(* What the studies ask of the simulator: the runs of a sensitivity study  *)
(* (sensitivity_analysis/sensitivity.py), the candidates of a vehicle      *)
(* calibration (vehicle_calibration/calibrate.py) and the profile of the   *)
(* next iteration of a flow calibration (domain/calibration/service.py).   *)
(* Real numbers are whole multiples of a unit; where a value lies halfway  *)
(* between two steps the float may be rounded either way.                  *)
(***************************************************************************)
EXTENDS Integers, Sequences, FiniteSets, SequencesExt

CONSTANTS
  Origins,          \* vehicle generation points: a sequence, by id
  Seed,             \* of the baseline
  Replicates,
  Configs,          \* the studies: [vehicles, pedestrians, residential, peaks,
                    \* choice, other, enabled, span]
  Tries,            \* raw candidates: [count, shares, peaks]
  Low, High, Grid,  \* bounds and step of peaks, so fine that shifts are whole
  MeanPeak,         \* normalized_mean_percent
  CountLow, CountHigh, CountStep,   \* of vehicle counts
  Comparisons,      \* finished iterations: [old, real, simulated, step, learnt]
  Tallest,          \* MAX_HEIGHT; MIN_HEIGHT is 0
  Pending

Parameters == {"peak", "residential", "vehicles", "entry", "choice"}

\* A model has places where vehicles begin and a profile has a peak; steps are
\* positive, and the heights of an iteration are within their bounds.
ASSUME PlanningAssumption ==
  /\ Len(Origins) \in Nat \ {0} /\ DOMAIN Origins = 1 .. Len(Origins)
  /\ Seed \in Int /\ Replicates \in Nat
  /\ \A c \in Configs :
       /\ c.vehicles \in Nat /\ c.pedestrians \in Int /\ c.residential \in Int
       /\ Len(c.peaks) \in Nat \ {0} /\ c.peaks \in [1 .. Len(c.peaks) -> Int]
       /\ c.other \in Int /\ c.choice \in Int /\ c.enabled \subseteq Parameters
       /\ \A p \in Parameters : /\ {c.span[p].first, c.span[p].last} \subseteq Int
                                /\ c.span[p].step \in Nat \ {0}
  /\ Tallest \in Nat
  /\ Comparisons \subseteq [old : 0 .. Tallest, real : Nat, simulated : Nat,
                            step : Nat \ {0}, learnt : BOOLEAN]

\* Bounds are whole numbers of steps, and so is the sum of the peaks of a try;
\* a mean that is not within the bounds is refused.
ASSUME CandidateAssumption ==
  /\ {Low, High, MeanPeak, CountLow, CountHigh} \subseteq Nat
  /\ Grid \in Nat \ {0} /\ Low % Grid = 0 /\ High % Grid = 0
  /\ Low <= MeanPeak /\ MeanPeak <= High
  /\ CountStep \in Nat \ {0} /\ CountLow % CountStep = 0 /\ CountHigh % CountStep = 0
  /\ 0 < CountLow /\ CountLow <= CountHigh
  /\ \A t \in Tries :
       /\ t.count \in Nat
       /\ t.shares \in Seq(Nat) /\ SumFunction(t.shares) > 0
       /\ t.peaks \in Seq(Int) /\ Len(t.peaks) > 0
       /\ (MeanPeak * Len(t.peaks)) % Grid = 0

VARIABLES question, answer

planningVars == <<question, answer>>

Total(s) == SumFunction(s)

-----------------------------------------------------------------------------
(* sensitivity.py.                                                         *)

\* allocate_counts: by weight, what is left to the greatest fractions.
AllocateCounts(weights, count) ==
  LET whole == Total(weights)
      rest(i) == (count * weights[i]) % whole
      before(i) == {j \in DOMAIN weights : rest(j) > rest(i) \/ (rest(j) = rest(i) /\ j < i)}
      floor == [i \in DOMAIN weights |-> (count * weights[i]) \div whole]
      left == count - Total(floor)
  IN  [i \in DOMAIN weights |-> floor[i] + IF Cardinality(before(i)) < left THEN 1 ELSE 0]

Equal == [i \in DOMAIN Origins |-> 1]

\* numeric_values and include_value: by steps, with the end and the baseline.
NumericValues(span, required) ==
  {v \in span.first .. span.last : (v - span.first) % span.step = 0}
    \cup {span.last, required}

BaselinePayload(c, replicate) ==
  [vehicles |-> c.vehicles, people |-> c.vehicles + c.pedestrians,
   residential |-> c.residential, transport |-> c.pedestrians - c.residential,
   peaks |-> c.peaks, choice |-> c.choice, seed |-> Seed + replicate,
   allocations |-> AllocateCounts(Equal, c.vehicles)]

\* A slip: the origins go on sending the vehicles of the baseline.
UpdateCountOnly(payload, c, count) ==
  [payload EXCEPT !.vehicles = count, !.people = c.pedestrians + count]

UpdateVehicleCount(payload, c, count) ==
  [payload EXCEPT !.vehicles = count, !.people = c.pedestrians + count,
                  !.allocations = AllocateCounts(Equal, count)]

Values(c, parameter, baseline) == NumericValues(c.span[parameter], baseline)

StudyPoint(parameter, value, baseline, replicate, payload) ==
  [parameter |-> parameter, value |-> value, baseline |-> baseline,
   replicate |-> replicate, payload |-> payload]

PeakPoints(c, r) ==
  UNION {{StudyPoint(<<"peak", i>>, v, c.peaks[i], r,
                [BaselinePayload(c, r) EXCEPT
                   !.peaks = [j \in DOMAIN @ |-> IF j = i THEN v ELSE c.other]])
            : v \in Values(c, "peak", c.peaks[i])} : i \in DOMAIN c.peaks}

ResidentialPoints(c, r) ==
  {StudyPoint(<<"residential">>, v, c.residential, r,
         [BaselinePayload(c, r) EXCEPT !.residential = v, !.transport = c.pedestrians - v])
     : v \in Values(c, "residential", c.residential)}

VehiclePoints(c, r) ==
  {StudyPoint(<<"vehicles">>, v, c.vehicles, r, UpdateVehicleCount(BaselinePayload(c, r), c, v))
     : v \in Values(c, "vehicles", c.vehicles)}

\* The tested origin has v of 100, the others equal parts of what remains.
Shares(i, v) ==
  [j \in DOMAIN Origins |-> IF j = i THEN v * (Len(Origins) - 1) ELSE 100 - v]

\* An equal share is added as the baseline's value: 0 stands for it here.
EntryPoints(c, r) ==
  UNION {{StudyPoint(<<"entry", i>>, v, 0, r,
                [BaselinePayload(c, r) EXCEPT !.allocations =
                   AllocateCounts(IF v = 0 THEN Equal ELSE Shares(i, v), c.vehicles)])
            : v \in Values(c, "entry", 0)} : i \in DOMAIN Origins}

ChoicePoints(c, r) ==
  {StudyPoint(<<"choice">>, v, c.choice, r, [BaselinePayload(c, r) EXCEPT !.choice = v])
     : v \in Values(c, "choice", c.choice)}

Refused(c) ==
  \/ ~(0 <= c.residential /\ c.residential <= c.pedestrians)
  \/ /\ "residential" \in c.enabled
     /\ \E v \in Values(c, "residential", c.residential) : v < 0 \/ v > c.pedestrians
  \/ "vehicles" \in c.enabled /\ \E v \in Values(c, "vehicles", c.vehicles) : v < 0
  \/ /\ "entry" \in c.enabled
     /\ Len(Origins) < 2 \/ \E v \in Values(c, "entry", 0) : v < 0 \/ v > 100

\* build_plan: the points, and a run for every payload among them.
Plan(c) ==
  LET points(r) ==
        {StudyPoint(<<"baseline">>, 0, 0, r, BaselinePayload(c, r))}
          \cup (IF "peak" \in c.enabled THEN PeakPoints(c, r) ELSE {})
          \cup (IF "residential" \in c.enabled THEN ResidentialPoints(c, r) ELSE {})
          \cup (IF "vehicles" \in c.enabled THEN VehiclePoints(c, r) ELSE {})
          \cup (IF "entry" \in c.enabled THEN EntryPoints(c, r) ELSE {})
          \cup (IF "choice" \in c.enabled THEN ChoicePoints(c, r) ELSE {})
      all == UNION {points(r) : r \in 0 .. (Replicates - 1)}
  IN  [points |-> all,
       runs |-> [p \in {x.payload : x \in all} |-> {x \in all : x.payload = p}]]

-----------------------------------------------------------------------------
(* calibrate.py.                                                           *)

Clamp(v, low, high) == Max({low, Min({v, high})})

\* The whole numbers nearest to a/b: two of them halfway.
NearestWhole(a, b) == {n \in {a \div b, a \div b + 1} : 2 * (n * b - a) \in (-b) .. b}

\* The values after the shift, found by halving, that gives them the sum.
Shifted(values, target) ==
  LET span == Low - Max(ToSet(values)) - target .. High - Min(ToSet(values)) + target
      at(s) == [i \in DOMAIN values |-> Clamp(values[i] + s, Low, High)]
  IN  at(CHOOSE s \in span : Total(at(s)) = target)

\* A slip: rounding is taken to keep the sum.
Unrepaired(start, values, target) == {start}

\* The steps that bring a rounded vector back to the sum, one peak at a time:
\* the one that then is nearest to what was asked for.
Repaired(start, values, target) ==
  LET units == (target - Total(start)) \div Grid
      way == IF units > 0 THEN Grid ELSE -Grid
      Movable(p) == {i \in DOMAIN p : Low <= p[i] + way /\ p[i] + way <= High}
      off(p, i) == IF p[i] + way > values[i] THEN p[i] + way - values[i]
                   ELSE values[i] - p[i] - way
      After(p) ==
        IF Movable(p) = {} THEN {p}
        ELSE {[p EXCEPT ![i] = @ + way] :
                i \in {k \in Movable(p) : \A j \in Movable(p) : off(p, k) <= off(p, j)}}
      steps == IF units > 0 THEN units ELSE -units
      outcomes[n \in 0 .. steps] ==
        IF n = 0 THEN {start} ELSE UNION {After(p) : p \in outcomes[n - 1]}
  IN  outcomes[steps]

\* project_sum_with_bounds: every outcome that rounding allows.
NormalizePeaks(values) ==
  LET target == MeanPeak * Len(values)
      exact == Shifted(values, target)
      Rounded == {p \in [DOMAIN values -> {Clamp(k * Grid, Low, High) : k \in 0 .. (High \div Grid)}] :
                    \A i \in DOMAIN values :
                      \E n \in NearestWhole(exact[i], Grid) : p[i] = Clamp(n * Grid, Low, High)}
  IN  UNION {Repaired(p, values, target) : p \in Rounded}

\* canonical_parameters: shares become those of the vehicles they stand for.
Canonical(try) ==
  {[count |-> count, shares |-> AllocateCounts(try.shares, count), peaks |-> peaks]
     : count \in {Clamp(n * CountStep, CountLow, CountHigh) : n \in NearestWhole(try.count, CountStep)},
       peaks \in NormalizePeaks(try.peaks)}

-----------------------------------------------------------------------------
(* compare_and_update_profile.  A percentage is a fraction <<a, b>>.       *)

\* _propose_peak_percentage: the old one times the ratio of the flows, unless
\* a response was learnt from earlier iterations; that may be any percentage.
Proposals(x) ==
  CASE x.simulated = 0 -> {<<x.old, 1>>}
    [] x.simulated > 0 /\ x.learnt -> {<<p, 1>> : p \in 0 .. Tallest}
    [] x.simulated > 0 /\ ~x.learnt /\ x.old = 0 /\ x.real > x.simulated -> {<<1, 1>>}
    [] OTHER -> {<<x.old * x.real, x.simulated>>}

\* A slip: the last step is not held back by the bounds.
QuantizedBeyond(old, p, step) ==
  LET a == Clamp(p[1], 0, Tallest * p[2])
      gap == a - old * p[2]
      size == IF gap > 0 THEN gap ELSE -gap
  IN  {old + n * (IF gap > 0 THEN step ELSE -step) : n \in NearestWhole(size, step * p[2])}

\* _quantize_percentage: at least one step, unless a bound is nearer.
Quantized(old, p, step) ==
  LET a == Clamp(p[1], 0, Tallest * p[2])
      gap == a - old * p[2]
      size == IF gap > 0 THEN gap ELSE -gap
      way == IF gap > 0 THEN step ELSE -step
      moved(n) == Clamp(old + Max({1, n}) * way, 0, Tallest)
      kept(c) == IF c - old < step /\ old - c < step THEN old ELSE c
  IN  IF gap = 0 THEN {old} ELSE {kept(moved(n)) : n \in NearestWhole(size, step * p[2])}

UpdatedProfile(x) ==
  UNION {{[proposed |-> p, height |-> q] : q \in Quantized(x.old, p, x.step)}
           : p \in Proposals(x)}

-----------------------------------------------------------------------------

PlanningInit ==
  /\ question \in [kind : {"study"}, of : Configs] \cup [kind : {"candidate"}, of : Tries]
                    \cup [kind : {"profile"}, of : Comparisons]
  /\ answer = Pending

BuildPlan ==
  /\ question.kind = "study"
  /\ answer = Pending
  /\ ~Refused(question.of)
  /\ answer' = Plan(question.of)
  /\ UNCHANGED question

ProposeCandidate ==
  /\ question.kind = "candidate"
  /\ answer = Pending
  /\ answer' \in Canonical(question.of)
  /\ UNCHANGED question

UpdateProfile ==
  /\ question.kind = "profile"
  /\ answer = Pending
  /\ answer' \in UpdatedProfile(question.of)
  /\ UNCHANGED question

PlanningNext == BuildPlan \/ ProposeCandidate \/ UpdateProfile

PlanningSpec == PlanningInit /\ [][PlanningNext]_planningVars

-----------------------------------------------------------------------------

\* Every point of a study changes one parameter and leaves the rest as in the
\* baseline of its replicate, every experiment tries the baseline's value, and
\* such a point costs no run of its own; no run is asked for people who do not
\* add up, or for vehicles that no origin sends.
PlansSound ==
  answer # Pending /\ question.kind = "study" =>
    LET c == question.of
        base(x) == BaselinePayload(c, x.replicate)
        Changed(x) == {f \in DOMAIN x.payload : x.payload[f] # base(x)[f]}
        May(x) == CASE x.parameter[1] = "peak" -> {"peaks"}
                    [] x.parameter[1] = "residential" -> {"residential", "transport"}
                    [] x.parameter[1] = "vehicles" -> {"vehicles", "people", "allocations"}
                    [] x.parameter[1] = "entry" -> {"allocations"}
                    [] x.parameter[1] = "choice" -> {"choice"}
                    [] OTHER -> {}
    IN
    /\ \A x \in answer.points :
         /\ Changed(x) \subseteq May(x)
         /\ x.payload.people = x.payload.vehicles + x.payload.residential + x.payload.transport
         /\ x.payload.residential >= 0 /\ x.payload.transport >= 0
         /\ Total(x.payload.allocations) = x.payload.vehicles
         /\ x.value = x.baseline /\ (\A i \in DOMAIN c.peaks : c.peaks[i] = c.other) =>
              Changed(x) = {}
    /\ \A parameter \in c.enabled : \A r \in 0 .. (Replicates - 1) :
         \E x \in answer.points : /\ x.parameter[1] = parameter /\ x.replicate = r
                                  /\ x.value = x.baseline
    /\ \A p \in DOMAIN answer.runs : Cardinality({x.replicate : x \in answer.runs[p]}) = 1
    /\ Cardinality(answer.points)
         = SumFunction([p \in DOMAIN answer.runs |-> Cardinality(answer.runs[p])])

\* A candidate keeps the mean of its peaks and all bounds, sends every vehicle
\* from an origin, and is its own canonical form: an equal one is recognised.
CandidatesCanonical ==
  answer # Pending /\ question.kind = "candidate" =>
    /\ Total(answer.peaks) = MeanPeak * Len(answer.peaks)
    /\ \A i \in DOMAIN answer.peaks :
         Low <= answer.peaks[i] /\ answer.peaks[i] <= High /\ answer.peaks[i] % Grid = 0
    /\ CountLow <= answer.count /\ answer.count <= CountHigh
    /\ Total(answer.shares) = answer.count
    /\ Canonical(answer) = {answer}

\* A peak is changed towards what was proposed by whole steps and within the
\* bounds: it comes nearer than it was or lies within a step; by the plain ratio
\* it grows only if the street had more traffic than the run.
PeaksApproach ==
  answer # Pending /\ question.kind = "profile" =>
    LET x == question.of
        a == Clamp(answer.proposed[1], 0, Tallest * answer.proposed[2])
        b == answer.proposed[2]
        Away(h) == IF a > h * b THEN a - h * b ELSE h * b - a
    IN
    /\ 0 <= answer.height /\ answer.height <= Tallest
    /\ answer.height = x.old \/ answer.height - x.old >= x.step \/ x.old - answer.height >= x.step
    /\ Away(answer.height) < x.step * b \/ Away(answer.height) < Away(x.old)
    /\ ~x.learnt /\ answer.height > x.old => x.real > x.simulated
    /\ ~x.learnt /\ answer.height < x.old => x.real < x.simulated

=============================================================================
