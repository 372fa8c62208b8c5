------------------------- MODULE ExperimentCampaign -------------------------
(***************************************************************************)
(* The two command-line drivers of long experiments: the one-at-a-time     *)
(* sensitivity study (sensitivity_analysis/sensitivity.py) and the vehicle *)
(* calibration (vehicle_calibration/calibrate.py), which borrows its HTTP  *)
(* client and its checkpoint from the first.  Both poll the server, collect*)
(* analytics, plan, submit a few runs and write the checkpoint, in a loop  *)
(* that may be killed or interrupted anywhere and resumed.                 *)
(*                                                                         *)
(* An experiment is a list of items: design points, or candidates.  The    *)
(* study has one phase with all its items planned at once; the calibration *)
(* plans the items of a phase in batches from the results so far.  What a  *)
(* candidate's parameters are, and how the next ones are chosen, is left   *)
(* out: module StudyPlanning has the arithmetic.                           *)
(***************************************************************************)
EXTENDS Naturals, Sequences, FiniteSets

CONSTANTS
  Points,       \* design points of the study after deduplication
  Budget,       \* runs of each calibration phase
  Design,       \* initial_design_runs of each calibration phase
  Finalists,    \* validation.candidate_count
  Seeds,        \* number of validation seeds
  Width,        \* four: runs in flight, and candidates in a batch
  RetryLimit,   \* max_failed_retries
  MaxTries,     \* polls before analytics that cannot be read are given up
  MaxBad,       \* bound: failed runs and bad or missing analytics
  MaxStops,     \* bound: kills, interrupts, raised API errors and analyses
  MaxRetries    \* bound: uses of --retry-failed

Searches == {"volume_routing", "shape", "joint"}
Phases == Searches \cup {"validation"}

ASSUME CampaignAssumption ==
  /\ Width \in Nat \ {0}
  /\ Points \in Nat
  /\ \A p \in Searches : Budget[p] \in Nat \ {0} /\ Design[p] \in 1 .. Budget[p]
  /\ {Finalists, Seeds, RetryLimit, MaxTries, MaxBad, MaxStops, MaxRetries} \subseteq Nat

VARIABLES
  tool,       \* "study" or "calibration"
  server,     \* the runs of the model on the server, by creation
  disk,       \* state.json
  mem,        \* the state the process works on; disk when there is none
  pc,         \* where the process is, "down" when there is none
  command,    \* "run" or "analyze"
  posted,     \* the item whose POST is on its way back, 0 when none
  used,       \* how often each bounded event happened
  orphans     \* history: runs whose POST never came back to the process

vars == <<tool, server, disk, mem, pc, command, posted, used, orphans>>

Active == {"queued", "running"}
Ended == {"valid", "invalid", "failed"}        \* TERMINAL_CANDIDATE_STATUSES
Statuses == {"planned", "completed"} \cup Active \cup Ended

Item == [phase : Phases \cup {"study"}, batch : Nat,
         parent : Nat, status : Statuses, run : Nat, attempt : Nat,
         tries : 0 .. MaxTries, result : {"none", "valid", "invalid", "failed"}]

State == [phase : Phases \cup {"completed", "study"}, items : Seq(Item)]

TypeOK ==
  /\ tool \in {"study", "calibration"}
  /\ server \in Seq([item : Nat \ {0}, status : {"queued", "completed", "failed"}])
  /\ disk \in State
  /\ mem \in State
  /\ pc \in {"down", "poll", "collect", "plan", "submit", "posted", "save"}
  /\ command \in {"run", "analyze"}
  /\ posted \in 0 .. Len(mem.items)
  /\ used \in [bad : 0 .. MaxBad, stop : 0 .. MaxStops, retry : 0 .. MaxRetries]
  /\ orphans \subseteq 1 .. Len(server)

New(phase, batch, parent) ==
  [phase |-> phase, batch |-> batch, parent |-> parent, status |-> "planned",
   run |-> 0, attempt |-> 0, tries |-> 0, result |-> "none"]

InitialState ==
  IF tool = "study"
    THEN [phase |-> "study", items |-> [i \in 1 .. Points |-> New("study", 1, 0)]]
    ELSE [phase |-> "volume_routing", items |-> <<>>]

Init ==
  /\ tool \in {"study", "calibration"}
  /\ server = <<>>
  /\ disk = InitialState
  /\ mem = InitialState
  /\ pc = "poll"
  /\ command = "run"
  /\ posted = 0
  /\ used = [bad |-> 0, stop |-> 0, retry |-> 0]
  /\ orphans = {}

Use(what) == used' = [used EXCEPT ![what] = @ + 1]

-----------------------------------------------------------------------------
(* Parts of the state.                                                     *)

Of(items, phase) == {i \in DOMAIN items : items[i].phase = phase}

\* A slip: a phase goes on from whatever has ended.
EndedIn(items, phases) ==
  {i \in DOMAIN items : items[i].phase \in phases /\ items[i].status \in Ended}

ValidIn(items, phases) ==
  {i \in DOMAIN items : items[i].phase \in phases /\ items[i].status = "valid"}

BudgetOf(phase) ==
  IF phase = "validation" THEN Finalists * Seeds ELSE Budget[phase]

PhaseFinished(items, phase) ==
  /\ Of(items, phase) # {}
  /\ \A i \in Of(items, phase) : items[i].status \in Ended

\* A slip: the attempts start again.
ResetAll(item) ==
  [item EXCEPT !.status = "planned", !.run = 0, !.tries = 0, !.result = "none",
               !.attempt = 0]

\* reset_for_retry, retry_failed: back to planned.  Attempts go on counting.
Reset(item) ==
  [item EXCEPT !.status = "planned", !.run = 0, !.tries = 0, !.result = "none"]

-----------------------------------------------------------------------------
(* The loop.                                                               *)

\* A slip: a failed run is not noticed.
PolledSuccess(item) ==
  IF item.run = 0 \/ item.status = "valid" \/ server[item.run].status = "failed"
    THEN item ELSE [item EXCEPT !.status = server[item.run].status]

\* Statuses are copied from the server for every run it knows; only a valid
\* candidate is left alone.
Polled(item) ==
  IF item.run = 0 \/ item.status = "valid" THEN item
    ELSE [item EXCEPT !.status = server[item.run].status]

Poll ==
  /\ pc = "poll"
  /\ mem' = [mem EXCEPT !.items = [i \in DOMAIN @ |-> Polled(@[i])]]
  /\ pc' = "collect"
  /\ UNCHANGED <<tool, server, disk, command, posted, used, orphans>>

\* An attempt came to nothing: another one while the automatic retries last.
GiveUpOrRetry(item, as) == IF item.attempt <= RetryLimit THEN Reset(item) ELSE as

Tried(item) == [item EXCEPT !.tries = IF @ < MaxTries THEN @ + 1 ELSE @]

\* collect_results of the calibration, for the analytics the server returned.
Scored(item, analytics) ==
  CASE item.status = "failed" -> GiveUpOrRetry(item, item)
    [] item.status = "completed" /\ analytics = "good" ->
         [item EXCEPT !.status = "valid", !.result = "valid"]
    [] item.status = "completed" /\ analytics = "bad" ->
         GiveUpOrRetry(item, [item EXCEPT !.status = "invalid", !.result = "invalid"])
    [] item.status = "completed" /\ analytics = "missing" ->
         IF Tried(item).tries < MaxTries THEN Tried(item)
           ELSE GiveUpOrRetry(Tried(item), [Tried(item) EXCEPT !.status = "invalid"])

\* collect_completed of the study: bad analytics are results like any other.
Extracted(item, analytics) ==
  CASE item.status = "failed" -> item
    [] item.status = "completed" /\ analytics \in {"good", "bad"} ->
         [item EXCEPT !.result = "valid"]
    [] item.status = "completed" /\ analytics = "missing" ->
         IF Tried(item).tries < MaxTries THEN Tried(item)
           ELSE [Tried(item) EXCEPT !.result = "failed"]

Collected(item, analytics) ==
  IF tool = "study" THEN Extracted(item, analytics) ELSE Scored(item, analytics)

\* The analytics of every run not yet read are asked for, one by one.
Collect ==
  LET Open == {i \in DOMAIN mem.items :
                 mem.items[i].status = "completed" /\ mem.items[i].result \in
                   IF tool = "study" THEN {"none", "failed"} ELSE {"none"}}
      Failed == {i \in DOMAIN mem.items : mem.items[i].status = "failed"}
  IN /\ pc = "collect"
     /\ \E bad \in SUBSET Open : \E missing \in SUBSET bad :
          LET Analytics(i) ==
                IF i \in missing THEN "missing" ELSE IF i \in bad THEN "bad" ELSE "good"
          IN /\ used.bad + Cardinality(bad) <= MaxBad
             /\ used' = [used EXCEPT !.bad = @ + Cardinality(bad)]
             /\ mem' = [mem EXCEPT !.items = [i \in DOMAIN @ |->
                          IF i \in Open \cup Failed
                            THEN Collected(@[i], Analytics(i)) ELSE @[i]]]
     /\ pc' = IF command = "analyze" THEN "save" ELSE "plan"
     /\ UNCHANGED <<tool, server, disk, command, posted, orphans>>

\* Candidates are numbered through a phase and batched by Width.
Grown(items, phase, total, parent) ==
  LET n == Cardinality(Of(items, phase)) IN
  items \o [k \in 1 .. total - n |->
              New(phase, (n + k - 1) \div Width + 1, parent[n + k])]

Smaller(a, b) == IF a <= b THEN a ELSE b

Parentless(phase) == [k \in 1 .. Budget[phase] |-> 0]

\* A slip: the next batch does not wait for the results of the one before.
SearchedAhead(items, phase) ==
  LET n == Cardinality(Of(items, phase)) IN
  Grown(items, phase, Smaller(n + Width, Budget[phase]), Parentless(phase))

\* The initial design is filled by whole batches, then one batch at a time
\* is added when the phase has no unfinished candidate.
Searched(items, phase) ==
  LET n == Cardinality(Of(items, phase))
      initial == ((Design[phase] + Width - 1) \div Width) * Width
      total == CASE n < Design[phase] -> Smaller(initial, Budget[phase])
                 [] n >= Design[phase] /\ PhaseFinished(items, phase) ->
                      Smaller(n + Width, Budget[phase])
                 [] OTHER -> n
  IN Grown(items, phase, total, Parentless(phase))

\* A phase starts from the best of the earlier ones, and cannot without one.
Basis(phase) ==
  CASE phase = "shape" -> {"volume_routing"}
    [] phase = "joint" -> {"volume_routing", "shape"}
    [] OTHER -> {"volume_routing", "shape", "joint"}

Startable(state) ==
  \/ state.phase \in {"study", "volume_routing", "completed"}
  \/ Of(state.items, state.phase) # {}
  \/ /\ state.phase \in {"shape", "joint"}
     /\ ValidIn(state.items, Basis(state.phase)) # {}
  \/ /\ state.phase = "validation"
     /\ Cardinality(ValidIn(state.items, Basis("validation"))) >= Finalists

Plan ==
  /\ pc = "plan"
  /\ Startable(mem)
  /\ \/ /\ \/ mem.phase = "study"
           \/ mem.phase = "validation" /\ Of(mem.items, "validation") # {}
        /\ UNCHANGED mem
     \/ /\ mem.phase \in Searches
        /\ mem' = [mem EXCEPT !.items = Searched(@, mem.phase)]
     \/ /\ mem.phase = "validation"
        /\ Of(mem.items, "validation") = {}
        /\ \E best \in [1 .. Finalists -> ValidIn(mem.items, Basis("validation"))] :
             /\ \A i, j \in 1 .. Finalists : best[i] = best[j] => i = j
             /\ mem' = [mem EXCEPT !.items =
                          Grown(@, "validation", Finalists * Seeds,
                                [k \in 1 .. Finalists * Seeds |->
                                   best[(k - 1) \div Seeds + 1]])]
  /\ pc' = "submit"
  /\ UNCHANGED <<tool, server, disk, command, posted, used, orphans>>

\* StudyError: the earlier phases left nothing to go on from; nothing is saved.
PlanFails ==
  /\ pc = "plan"
  /\ ~Startable(mem)
  /\ pc' = "down"
  /\ mem' = disk
  /\ UNCHANGED <<tool, server, disk, command, posted, used, orphans>>

\* A slip: a queued run does not count yet.
InFlightRunning(state) ==
  Cardinality({i \in DOMAIN state.items : state.items[i].status = "running"})

InFlight(state) ==
  Cardinality({i \in DOMAIN state.items : state.items[i].status \in Active})

Submittable(state) ==
  {i \in Of(state.items, state.phase) : state.items[i].status = "planned"}

\* Free slots are counted over all items, earlier batches go first; items are
\* numbered as the tools sort them.
Submit ==
  /\ pc = "submit"
  /\ InFlight(mem) < Width
  /\ \E i \in Submittable(mem) :
       /\ \A j \in Submittable(mem) : i <= j
       /\ server' = Append(server, [item |-> i, status |-> "queued"])
       /\ posted' = i
  /\ pc' = "posted"
  /\ UNCHANGED <<tool, disk, mem, command, used, orphans>>

Recorded(item) ==
  [item EXCEPT !.run = Len(server), !.status = "queued", !.attempt = @ + 1,
               !.result = "none", !.tries = 0]

\* A slip: the checkpoint is written at the end of the loop only.
RecordUnsaved ==
  /\ pc = "posted"
  /\ mem' = [mem EXCEPT !.items[posted] = Recorded(@)]
  /\ posted' = 0
  /\ pc' = "submit"
  /\ UNCHANGED <<tool, server, disk, command, used, orphans>>

\* The run id is recorded and the checkpoint written after every POST.
Record ==
  /\ pc = "posted"
  /\ mem' = [mem EXCEPT !.items[posted] = Recorded(@)]
  /\ disk' = mem'
  /\ posted' = 0
  /\ pc' = "submit"
  /\ UNCHANGED <<tool, server, command, used, orphans>>

Submitted ==
  /\ pc = "submit"
  /\ InFlight(mem) >= Width \/ Submittable(mem) = {}
  /\ pc' = "save"
  /\ UNCHANGED <<tool, server, disk, mem, command, posted, used, orphans>>

\* advance_if_ready: the phase is over when its whole budget has ended.
After == [volume_routing |-> "shape", shape |-> "joint", joint |-> "validation",
          validation |-> "completed"]

Advanced(state) ==
  IF /\ state.phase \in Phases
     /\ Cardinality(Of(state.items, state.phase)) >= BudgetOf(state.phase)
     /\ PhaseFinished(state.items, state.phase)
    THEN [state EXCEPT !.phase = After[@]] ELSE state

\* The study is over when nothing is planned, in flight or to be read.
StudyOver(state) ==
  \A i \in DOMAIN state.items :
    \/ state.items[i].status = "failed"
    \/ state.items[i].status = "completed" /\ state.items[i].result # "none"

Over(state) ==
  \/ state.phase = "study" /\ StudyOver(state)
  \/ state.phase = "completed"

Save ==
  /\ pc = "save"
  /\ mem' = IF command = "analyze" THEN mem ELSE Advanced(mem)
  /\ disk' = mem'
  /\ pc' = IF command = "analyze" \/ Over(mem') THEN "down" ELSE "poll"
  /\ UNCHANGED <<tool, server, command, posted, used, orphans>>

-----------------------------------------------------------------------------
(* The user, the server and faults.                                        *)

\* resume, with or without --retry-failed.  The study looks at the server
\* before it resets what failed and saves at once; the calibration does not.
Retryable(item) ==
  item.status \in IF tool = "study" THEN {"failed"} ELSE {"failed", "invalid"}

Resume ==
  LET seen == IF tool = "study"
                THEN [disk EXCEPT !.items = [i \in DOMAIN @ |-> Polled(@[i])]] ELSE disk
      retried == [seen EXCEPT !.items =
                    [i \in DOMAIN @ |-> IF Retryable(@[i]) THEN Reset(@[i]) ELSE @[i]]]
  IN /\ pc = "down"
     /\ disk.phase # "completed"
     /\ command' = "run"
     /\ pc' = "poll"
     /\ \/ mem' = seen /\ UNCHANGED used
        \/ mem' = retried /\ used.retry < MaxRetries /\ Use("retry")
     /\ disk' = IF tool = "study" THEN mem' ELSE disk
     /\ UNCHANGED <<tool, server, posted, orphans>>

Analyze ==
  /\ pc = "down"
  /\ used.stop < MaxStops
  /\ Use("stop")
  /\ mem' = disk
  /\ command' = "analyze"
  /\ pc' = "poll"
  /\ UNCHANGED <<tool, server, disk, posted, orphans>>

\* Ctrl+C saves, a kill or an API error that is raised does not.  A POST on
\* its way is lost to the process either way.
Stop ==
  /\ pc # "down"
  /\ used.stop < MaxStops
  /\ Use("stop")
  /\ disk' \in {disk} \cup IF command = "run" THEN {mem} ELSE {}
  /\ pc' = "down"
  /\ orphans' = IF pc = "posted" THEN orphans \cup {Len(server)} ELSE orphans
  /\ mem' = disk'
  /\ posted' = 0
  /\ UNCHANGED <<tool, server, command>>

RunEnds(r) ==
  /\ server[r].status = "queued"
  /\ \/ server' = [server EXCEPT ![r].status = "completed"] /\ UNCHANGED used
     \/ /\ used.bad < MaxBad
        /\ Use("bad")
        /\ server' = [server EXCEPT ![r].status = "failed"]
  /\ UNCHANGED <<tool, disk, mem, pc, command, posted, orphans>>

Loop ==
  \/ Poll \/ Collect \/ Plan \/ PlanFails
  \/ Submit \/ Record \/ Submitted \/ Save

Next ==
  \/ Loop
  \/ Resume \/ Analyze \/ Stop
  \/ \E r \in DOMAIN server : RunEnds(r)

Spec == Init /\ [][Next]_vars

\* The process runs and the server ends its runs; nobody has to resume.
FairSpec ==
  /\ Spec
  /\ WF_vars(Loop)
  /\ WF_vars(\E r \in DOMAIN server : RunEnds(r))

-----------------------------------------------------------------------------
(* Properties.                                                             *)

Orphaned(i) == Cardinality({r \in orphans : server[r].item = i})

\* "Closing the terminal never loses which server run belongs to which design
\* point": through kills anywhere, every run still going on the server is
\* the run the checkpoint names for its item, except one whose POST was cut off
\* (and one the process has yet to write down).
RunsAreKnown ==
  \A r \in DOMAIN server :
    \/ server[r].status # "queued"
    \/ r \in orphans
    \/ pc = "posted" /\ r = Len(server)
    \/ \E i \in DOMAIN disk.items : i = server[r].item /\ disk.items[i].run = r

\* "Up to four independent simulations active": what the process believes to
\* be in flight may lag behind the server, never the other way round.
NeverTooMany ==
  Cardinality({r \in DOMAIN server : server[r].status = "queued"} \ orphans) <= Width

\* No item is simulated more often than its automatic retries, the retries the
\* user asked for and cut-off POSTs account for: resuming repeats no work.
AttemptsBounded ==
  \A i \in DOMAIN mem.items :
    Cardinality({r \in DOMAIN server : server[r].item = i}) <=
      1 + (IF tool = "calibration" THEN RetryLimit ELSE 0) + used.retry + Orphaned(i)

\* The finalists of the validation were valid when chosen and still are,
\* each is validated under every seed, and all of it is on the same footing
\* in memory and in the checkpoint.
FinalistsStayValid ==
  \A state \in {mem, disk} :
    LET validated == Of(state.items, "validation") IN
    validated # {} =>
      /\ \A i \in validated : state.items[state.items[i].parent].status = "valid"
      /\ \A i \in validated :
           Cardinality({j \in validated : state.items[j].parent = state.items[i].parent})
             = Seeds

\* "Adaptive candidates are selected only after the preceding observations
\* are ready": beyond the initial design, a phase gets a batch when
\* everything before has ended.
BatchesWait ==
  [][\A p \in Searches :
       LET old == Of(mem.items, p) IN
       (/\ Cardinality(Of(mem'.items, p)) > Cardinality(old)
        /\ Cardinality(old) >= Design[p]
        /\ pc # "down")
         => \A i \in old : mem.items[i].status \in Ended]_vars

\* A candidate that has used up its retries with invalid analytics.
Exhausted ==
  \E i \in DOMAIN mem.items : mem.items[i].result = "invalid"

\* A running campaign gets to its end, unless it is stopped, cannot go on
\* for want of a valid candidate (it then exits), or has an exhausted one.
CampaignEnds ==
  (pc # "down") ~> (pc = "down" \/ Exhausted)

\* TERMINAL_CANDIDATE_STATUSES has "invalid": whatever becomes of a
\* candidate, the calibration comes to an end.
CalibrationEnds == (pc # "down") ~> (pc = "down")

=============================================================================
