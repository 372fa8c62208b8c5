# Verification of the campus SUMO mobility platform

TLA+ models of the parts of this repository where several processes, or several
programs, have to agree, and of the algorithms whose results other programs rely
on: the RabbitMQ worker runtime, the life of a queued run across the API, the
workers, PostgreSQL and MinIO, flow calibration, the drivers of long experiments,
the preparation of a run, the parking controller beside the simulation it drives,
and what the outputs of a run are made into.  TLC checks the models on small
instances; TLAPS proves the core of seven of them for all.  Paths below are relative to the
repository, line numbers are those of the commit beside which this directory is kept.

Run from this directory:

    tlc -workers 2 -config RunFaults.cfg MCRunLifecycle
    tlapm ParkingController_proofs.tla

## Inventory

| Component | State | Operations | Hard behaviour | Correct when |
|---|---|---|---|---|
| Worker runtime (`backend/shared/worker_runtime.py`) | one delivery to settle, its future, the executor's jobs, the shutdown flag | poll, submit, wait, ack, nack, reject, reconnect | connection loss while a handler runs, SIGTERM, kill | every message is settled, once, by its owner |
| Message broker (`backend/shared/message_broker.py`, RabbitMQ) | durable queue and dead queue | publish, get, requeue | redelivery, lost confirmations | a message is ready, held by one consumer, acknowledged or dead |
| Simulation worker (`backend/services/simulation_worker/main.py`) | workspace copy of a run | download, claim, execute, upload, announce, clean up | being killed between any two stages and delivered again | a settled run has ended, was announced, and its outputs are stored |
| Run records (`backend/domain/simulations/service.py`) | `run.json`, the row, the object | create, claim, write, progress, stop, delete | read-modify-write over stale copies in three stores | a stop is final; an ended run stays ended |
| PostgreSQL metadata (`backend/shared/database.py`) | rows | upsert with COALESCE on the cancellation, cancel, delete, start-up sync | concurrent writers | no writer erases a cancellation |
| Object storage (`backend/shared/object_storage.py`) | objects | upload and download trees, delete prefixes | calls that fail | authoritative for artifacts |
| API (`backend/services/api/main.py`) | none beyond the stores | start, stop, delete, calibrate, list | crash between creating and publishing | every accepted run is published or marked failed |
| Analytics worker (`backend/services/analytics_worker/main.py`) | cached snapshot | snapshot, advance a calibration, upload | redelivered announcements | an announcement handled twice advances once |
| Flow calibration (`backend/domain/calibration/service.py`) | session row, iteration runs | create, compare and update, next iteration, fail | crashes between run, session and publication | every session ends; one run per iteration |
| Experiment drivers (`sensitivity_analysis`, `vehicle_calibration`) | `state.json`, the state in memory | poll, collect, plan, submit, save, resume, retry, analyze | kills and interrupts anywhere, stale statuses | no run forgotten or repeated, batches wait, campaigns end |
| Scenario generators (`backend/sumo/scenario`) | files of one run | snap places, plan trips and walks, configure entries, lots, detectors | programs that check each other's files; rounding | what creation accepted is carried out, exactly |
| Parking controller (`backend/sumo/controller`) | reservations, assignments, searches, tracker, logs, checkpoint | visit each vehicle, reserve, reroute, stop events, recover, finalize | two programs with their own view; SUMO crashes | no space promised twice, every search goes on, books and logs agree with SUMO |
| Pedestrian counter (`fast_pedestrian_detector.py`) | zone occupancy, counts | observe, snapshot, restore, write | persons that jump, ride, vanish; recovery | counts are the entries of the walks |
| Parked occupants (`person_manager.py`) | vehicles with a spawned occupant | spawn | the area's own access differs from the lot's | the driver reaches the planned building |
| Analytics (`backend/domain/analytics/service.py`) | none | join plans, records, events, counts | the same driver in several tables | tables agree with each other and with the run |
| Reference data, model store, demand profiles, parking choice, frontend, deployment | see `PROJECT.json` | | | |

How they interact.  The API records a run (file, row, object), publishes a message
and answers.  A simulation worker takes the message from the durable queue, copies
the run from MinIO into its own workspace, claims it, prepares and executes it and
uploads the result; stop requests reach it through the row only.  It then publishes an
announcement that the analytics worker consumes, which may create and publish the
next run of a calibration.  SUMO is a subprocess of the worker, driven by the
controller over TraCI.  The experiment drivers are command-line clients of the API
that keep their own checkpoint.

`PROJECT.json` lists the hazards line by line, with the properties that watch over
each one.

## Modules

| Module | Models | Uses |
|---|---|---|
| `JobQueue` | abstract: what a durable queue promises a publisher | |
| `WorkerRuntime` | `worker_runtime.py`, `message_broker.py`, RabbitMQ as external code | refines `JobQueue` |
| `RunLifecycle` | the simulation worker's handler, run records, stop and delete calls | instance of `WorkerRuntime` |
| `CalibrationSession` | abstract: what a flow calibration promises its user | |
| `FlowCalibration` | the session in API and analytics workers, message by message | refines `CalibrationSession` |
| `ExperimentCampaign` | the loops of the sensitivity study and of the vehicle calibration | |
| `RunPreparation` | a run from the request to the parked occupants: five programs on one map | |
| `ParkingController` | the controller's decisions with SUMO as external code | |
| `RunOutputs` | the tracker's records, the event and occupancy logs, recovery, finalize | |
| `RunAnalytics` | the analysis of those outputs | extends `RunOutputs` |
| `DetectorCounts` | the pedestrian zone counter and the detector series | |
| `ParkingLots` | lanes and spaces of the parking areas of a map | |
| `ScenarioDetectors` | detectors of a run from the saved ones | |
| `StudyPlanning` | plans of a study, candidates of a calibration, the next profile of a flow calibration | |
| `WorkerRuntime_proofs`, `FlowCalibration_proofs`, `ParkingController_proofs`, `ExperimentCampaign_proofs` | theorems | extend their modules |
| `RunPreparation_proofs`, `RunAnalytics_proofs` | theorems | extend their modules and `DataLemmas`; so do `FlowCalibration_proofs` with `StudyPlanning` and `ParkingController_proofs` with `DetectorCounts` and `ParkingLots` |
| `DataLemmas` | theorems about finite sets, sums, sequences and quotients: least elements, recursion, counting, sharing out | |
| `RunLifecycle_proofs` | theorems | extends `RunLifecycle`, instance of `WorkerRuntime_proofs` |
| `MC...` | instances for TLC; `MCStudies` puts five modules side by side | |

Operators called "A slip" in a comment are plausible bugs.  No specification uses
them: put in the place of the definition after them they show that the property
named in `PROJECT.json` can fail.

### WorkerRuntime and JobQueue

`broker` is where the broker has each message, `held` the `method.delivery_tag` the
main thread has yet to settle, `result` the state of the `future` it waits for,
`tasks` the queue of the one-thread executor (the head is running), `phase` and `link`
the process and its connection, `redelivered` the broker's flag.  `Get` is `basic_get`
and `executor.submit`; `HandlerEnds` the end of the handler in the executor's thread;
`Ack`, `Nack` and `Reject` the three ways `run_worker` settles; `LoseConnection` the
`except` clause at line 108, which drops the future and not the handler;
`RequestShutdown` sets the flag; `Exit` leaves the loop and the executor's context.
Handlers are arbitrary here: they end normally or raise.

### RunLifecycle

One record per run and place: `db`, `store` and `local[p]`, reduced to the status and
the stop request.  `WriteRecord` is `_write_record`: file, row, and object unless the
run is running.  The row's upsert keeps a recorded cancellation (`Upserted`).
`ReadRun` is `read_simulation_run`, in its order of preference.  The handler's stages
are actions because a worker can be killed between any two of them, and because the
API works between them: `Download`, `ClaimRead`, `ClaimWrite`, `Start`, `Generate`
(the commands before SUMO), `Launch`, `Progress`, `SumoExits`, `End`, `Upload`,
`Announce`, `Cleanup`.  A stop is `StopRead`, `StopCancel` and, for a run read as
queued, `StopRemove`; a deletion `DeleteRead`, `DeleteObjects`, `DeleteRow`.  The API
is one event loop and these handlers never await, so calls do not interleave with
each other, but they do with the workers; only the publication runs in a thread.
`ApiRestart` is a crash and the start-up synchronisation.  Processes share no file
system (`src/README.md`, "Persistent application data", lines 249-252); a killed
worker may or may not find its workspace again.  A failure marking (`MarkFailed`)
reads and writes in one step: the only other writers that could come between are a
stop call, whose request the upsert keeps and whose own result is the same status,
and a handler ending the run.

### FlowCalibration and CalibrationSession

The session row, its runs and the announcements; the handler of the analytics worker
stage by stage, so that a kill or a failed call can fall between creating the next
run, persisting the session and publishing the message.  The analytics queue is used
as `JobQueue` allows; a comparison of flows is reduced to its outcome.
`CalibrationSession` says what is left when all of that is forgotten: iterations are
counted one by one, each is launched once and only after the one before, an ended
session stays as it is.  The refinement mapping is the session's status, its count
and the number of runs requested.

### ExperimentCampaign

Both drivers are one loop over items (design points, candidates): `Poll`, `Collect`,
`Plan` or `PlanFails`, `Submit` and `Record` once per free slot, `Submitted`, `Save`.
`mem` is the state the process works on, `disk` its `state.json`.  `Submit` is the
POST, `Record` what follows its answer, checkpoint included: a `Stop` between them
leaves a run the process never hears of (`orphans`).  `Resume` differs between the
tools: the study polls before it resets what failed and saves, the calibration does
not.  A candidate's parameters and scores are left to chance; `StudyPlanning` has the
arithmetic.  A run that is deleted on the server makes the drivers wait for it for
ever; the model's server keeps its runs.

### RunPreparation

The map is data (`Worlds`): which paths lie near a place, which paths connect
(`islands` are the connected components), which entries drive to which lots.  A request
is checked at creation, then `configure.py`, `person_access.py` and `generate.py` look
at the same data again, one action each, and each may give up with a `reason`; at the
end drivers leave their cars.  Random draws are choices.  Sorting is modelled by what
it gives: `InOrder` puts an element at the place that the number of smaller ones
leaves it.  `PreparationAssumption` says what a request and a map can be, no more.

### ParkingController

`place` and `stop` are SUMO's: vehicles move over edges as they like, stop only where
they were told to and only where there is room.  `assignment`, `active`, `completed`
and `reserved` are the controller's dictionaries, `target`, `attempted`, `rejected`
and `status` the tracker's record.  One action per outcome of a vehicle's visit:
`DriveOn`, `AttemptFails`, `Assign`, `AssignmentFails`; then `EndStep` does the stop
events, the arrivals and perhaps the checkpoint, and `Recover` is the restart after a
crash in `simulationStep`.  Which lot or area is preferred, which is reachable and what
a driver knows is left to chance, so the properties hold for every choice model,
policy and seed.

### RunOutputs, RunAnalytics, DetectorCounts

`RunOutputs` is about time where `ParkingController` is about space: each simulation
step moves one vehicle (the records of two vehicles meet only through the spaces and
the logs), the tracker opens and closes segments, the two logs grow, a crash truncates
them to the checkpoint and the steps are replayed with other outcomes.
`RunAnalytics` joins the files after `finalize`; averages are kept as sums and counts.
`DetectorCounts` has pedestrians that walk, jump over zones, ride and vanish beside
the zone counter, with snapshot and restore, and the series made of its file.  SUMO's
own detector files (E1, E3) start again when SUMO is restarted, as `main.py:62-76`
does not keep them: the E3 part is SUMO's file for an uninterrupted run.

### ParkingLots, ScenarioDetectors, StudyPlanning

Pure algorithms, each in one or two actions that draw the input and give the answer.
Geometry (which share of a lane lies in a polygon, how far a marker is) is data.
Detector ids are sequences of words, because what goes wrong with them is what gets
appended.  Real numbers are whole multiples of a unit; learnt responses and models
are replaced by any value in their range.

## Runs

| Run | Instance | Shows |
|---|---|---|
| `worker_runtime` | 2 workers, 3 messages (one malformed), 1 loss, 1 kill, 1 shutdown, fair | deliveries and workers agree; ownership while no connection is lost; refinement of `JobQueue`; every published job is settled |
| `run_faults` | 1 run, 2 workers, 1 loss, 1 kill, 1 failed call, 1 API crash | no run abandoned; announcements stay true; a stop is final; outputs archived unless a worker was killed or a call failed |
| `run_ends` | 1 run, 2 workers, 1 kill, fair | every published run ends for good |
| `run_deleted` (violation) | no faults | a stop that read "queued" lets a running simulation be deleted |
| `run_outputs_lost` (violation) | 1 kill | a completed run whose outputs never reach MinIO |
| `flow_calibration` | 2 workers, 2 iterations, 1 kill, 1 loss, 1 raised error, 1 buried announcement, fair | results are those of the session's own runs; refinement of `CalibrationSession`; a session ends unless one of the named gaps strands it |
| `campaign` | 3 points or 1+3+1 candidates and 1 validation, 2 slots, 1 automatic and 1 manual retry, 1 kill, 2 bad results, fair | no run forgotten, too many in flight or repeated; finalists stay valid; batches wait; a campaign ends or has an exhausted candidate |
| `campaign_stuck` (violation) | 2 bad results | an exhausted candidate is polled for ever |
| `preparation` | 4 paths, 2 buildings, 1 stop, 3 areas in 2 lots, 2 entries; every combination of `MCWorlds` and `MCRequests` | later programs reject nothing creation accepted; trips and counts; occupants arrive; stubs do not spoil a sound map |
| `parking` | 2 vehicles, 2 lots, 1 refusal, 1 vanished vehicle, 1 crash | reservations are the inbound vehicles; no overbooking; searches progress; books agree with SUMO |
| `parking_reservations` (violation) | 1 refusal | a refused assignment takes away another vehicle's reservation |
| `studies` | five modules, one drawn per behaviour (`turn`) | outputs and reports are true and balance; counters count entries; lots and detectors are sound; plans, candidates and profiles keep their promises |

The four violations are findings, quoted against the code in `PROJECT.json`.

Bounds.  Two workers are enough for one to hold what another, or the same one after
reconnecting, is still executing; a third adds no new pair.  Three messages give an
order to the queue around a malformed one.  Runs interact only through the order of
the queue and the API's single event loop, so the life cycle is checked for one run.
One fault of each kind reaches redelivery, and the second attempt is the last.  In
`run_faults` the constraint `MCLossesAlone` stops where a lost connection meets a
handler that is cut short, by a kill or by a failed call: then a handler orphaned by
the lost connection can start a run again after another worker ended and acknowledged
it, and go under; nothing is left to end the run.  That limit is part of what the
properties say (`NoAbandonedRun` excludes it by `HandlersEnd`;
`AnnouncedStaysFinished` is stated without lost connections).  A restart of the API is
not such a fault and is combined with each of the others.  In
`parking` one lot has two spaces, so that another vehicle's reservation can be there
to be lost, and the other one, so that two vehicles compete; with three vehicles and
no crash the same properties were checked and hold.  In `campaign` the budgets
1, 3, 1 let every phase start, wait and fail to start (`PlanFails` needs a phase
whose only candidate came to nothing), and three candidates past a design of one
need more than one batch of two.  `studies` checks 528,552 states, most of them
inputs; the inputs contain the boundaries of the code (no capacity, more areas than
spaces, saved ids that look like generated ones, halves between two steps).

Premises.  `NeverOverbooked` and `ReservationsAgree` exclude refused assignments (the
finding), `ReservationsAgree` also vehicles that vanish on their way, whose reservation
`main.py:1380` leaves in place.  `OccupantsArrive` has a premise on the map, that all
areas of a lot lead to one walkable component; without it the code lets a vehicle park
where its driver cannot walk on.  `SoundMapPrepares` says for which maps preparation
must succeed; that every lot can be driven to from a routing edge and that there is a
building were found missing among its premises by an attempt to prove it.  Intervals of the detector comparison and the duration are multiples of
the sampling period (`AlignedPeriods`: whole hours, 900 s and 900 s are what the code
starts from; a user may choose another period, and counts are then shared out by time).
`DetectorsSound` claims unique XML ids unless a saved id begins with another one and a
number, or ends in `lane` or `zone`, where the code puts a number.  Both are needed for
more than two detectors: `generate.py:228` takes its second choice of an id unseen, and of
detectors saved as `x`, `x_2_1`, `x_2__lane_1` and again `x` the last one, renamed `x_2`,
names its first loop `x_2_1`.  `CandidatesCanonical` takes bounds that are multiples
of their steps, as in the shipped configuration (3000/7000/100, 0/300/5).
`PlansSound` takes a baseline in which the other fields are the baseline's peaks
(`src/sensitivity_analysis/README.md`, line 50); percentages out of range are refused by
the code and not among `Configs`.  Shares of an entry that fall between two steps may
be rounded either way in floats; the units keep to cases where they agree.

Symmetry is used for workers in `run_faults` and for vehicles in the parking runs,
which check safety only.

Fairness.  `WorkerRuntime`, `RunLifecycle` and `FlowCalibration` assume weak fairness
of each worker's steps: the polling loop and the waiting loop are timed and never block
for good, every subprocess is assumed to end, and `restart: unless-stopped` in
`compose.yaml` brings a killed container back.  The API ends the calls it has begun,
and in `FlowCalibration` each run ends (`run_ends` is about that).  In
`ExperimentCampaign` the loop of the running process is fair and so are the ends of
runs; nobody has to resume a stopped one.  Nothing is assumed of users, of faults, or
of progress polls.

Deadlock checking is off where the system really stops: all requests served and no
user call left, SUMO without vehicles, a campaign at its end, an input answered.

## Proofs

Each theorem holds for every value of the constants that satisfies the module's
assumption.

`WorkerRuntime_proofs` (from `RuntimeAssumption`):

* `TypeCorrect`: `TypeOK` is an invariant.  `Requeue` and `Settle` have lemmas of their
  own, as several actions share them.
* `DeliveriesAlwaysAgree`: inductive together with `TypeOK` (`AgreeInv`); the
  uniqueness of the holder is what makes requeueing one worker's message leave every
  other worker's alone.
* `OwnershipKept`: `OwnedUnlessLinkLost`, inductive together with `AgreeInv`
  (`OwnInv`).  The step that needs an argument is the next `Get`: while no lost link
  has left work behind, a worker that holds nothing, or whose future has returned, has
  an empty executor (lemma `NothingPending`), so the job it submits is the only one.
* `ImplementsJobQueue`: `Spec => QueueSpec`, by step simulation under `RefInv`.  It adds
  that executors run only decoded, published jobs (`JobsKnown`) and that a held
  delivery is not malformed, was handled if its result is "ok", and is the last job of
  the executor while its result is pending (`HeldKnown`).

`RunLifecycle_proofs` (from `LifecycleAssumption` and `RecordAssumption`: a missing
record is no record):

* `RunsOnRuntime`: every step of the life cycle is a step of `WorkerRuntime` or leaves
  the queue alone.  So the module takes `WorkerRuntime_proofs` as an instance, and
  `QueueKeepsItsPromise` hands its theorems on to the simulation queue, `JobQueue`
  included.
* `TypeCorrect` and `CancelledNeverStartsHolds`, from `InvHolds`.  The inductive
  invariant `Inv` says of a barred run (a stop recorded while no worker could launch)
  that its row exists, carries the request, and no handler is past its last check.
  Every writer works from a copy it read earlier, so what keeps the request is the
  upsert (lemma `WriteFileAndRowType`: `RowsKeepStops`); the upsert does so only if a
  record is written, hence `Staged`: from the claim on a handler has a record, and the
  file it starts from is there.  The row goes with the run's deletion only, after
  `deleted` has the run (`Calls`); the start-up synchronisation inserts rows but
  replaces none.
* `NoAbandonedRunHolds`, `AnnouncedStaysFinishedHolds` and
  `OutputsArchivedHolds`, from `CompleteHolds`.  The inductive invariant `Complete` adds
  to `Inv`, and to what `WorkerRuntime_proofs` knows of the queue (`Base`), that a
  handler's stage fits the record it works on (`StageRecords`) and, of each run that
  nobody deleted: the row comes first (`RowFirst`); a delivery is acknowledged after its
  run was announced (`Told`); without lost connections an announced or buried run has
  ended and nobody is about to write its row again (`Final`); if every handler gets to
  its end (`HandlersEnd`), a run that goes on has a message in the queue or a handler
  that will end it (`Attended`), and the outputs of a completed one are in MinIO or on
  their way (`Saved`).
* The actions are many, and each touches several runs, workers and stores; a proof by
  action and conjunct would be unreadable.  So each action is first summed up by what
  it does: to the row of one run (`RowStep`), to one executor (`ExecutorStep`), to the
  delivery of a run (`DeliveryStep`), to what is kept of it (`KeepStep`).  The parts of
  `Complete` are then shown to survive these summaries, whatever action they sum up.
  Without lost connections a run has one handler (`OneHandler`); with them it may have
  several, none of which is cut short.

`FlowCalibration_proofs` (from `CalibrationAssumption` and `SessionAssumption`: a
missing row is no row):

* `TypeCorrect`, under `Sane`: before the user starts the session nothing happens
  (`Begun`), and a process has in hand what its stage works on (`Equipped`).
* `ResultsAreOwnRunsHolds` and `KeepsItsPromise` (`Spec => KeepsPromise`, by step
  simulation) from `InvHolds`.  Nothing in the code locks the session row, so `Inv`
  has to say why one process at a time advances it, as long as no connection is lost
  under a handler.  `Owned`: a delivery has one handler.  `Announced`: a run is
  announced only after its message was taken from the queue and the run ended.
  `Listed`: the row lists its runs by iteration, at most one of them is not counted,
  and exactly the listed runs were queued, that one perhaps not yet.  `Turns`: the
  copy a process is about to write is the row, advanced by the run it handles.
* From these, whoever handles the open run is alone (lemmas `OpenAlone`, `Alone`,
  `LastAlone`), but for one case: a publication that raised may have reached the
  broker, and the handler of that run then fails the session beside the process that
  gives it up.  Both write the same row.

`ParkingController_proofs` (from `ParkingAssumption`, finitely many vehicles):

* `TypeCorrect`; `InvHolds`: the inductive invariant `Inv`; and from it
  `NeverOverbookedHolds`, `ReservationsAgreeHolds`, `SearchMakesProgressHolds` and
  `BooksAgreeHolds`.
* `Inv` has to speak of two states at once, the present one and the checkpoint that
  `Recover` will return to, so its parts take a snapshot: `Sound` (each vehicle's place,
  stop, assignment, status and target fit together), `AllKept` (an active reservation
  is that of a vehicle on its way) and `Booked` (`reserved` counts the active
  reservations of an area, and the vehicles sent to it fit in).  Within a step the
  stop events the controller has yet to hear of (`started`, `ended`) excuse the
  difference.  `NeverOverbooked` follows because the vehicles sent to an area
  (`SentTo`) are exactly those that occupy it and those that head for it, and `Assign`
  only takes a space that is free by capacity, occupation and reservations.  `Booked`
  needs that no assignment was refused and `AllKept` that no vehicle vanished: these
  are the premises of the properties.

DetectorCounts (in `ParkingController_proofs`, the counter being driven by the same
loop; from `CountingAssumption`: finitely many people, a snapshot whose detectors have
names of their own):

* `CountsInvHolds`: `CounterInv` says of the present state and of the checkpoint, as
  the same formula of a snapshot (`Tallied`), that the last place and the zones
  remembered of a person are those of its observed path, and that every bucket has
  the number of entries of that path in its zone and period.
* `CountsAreEntriesHolds`, from it and `AlignedPeriods` (periods that fit into the
  chart's intervals, and a run that ends with a period or is not observed beyond its
  end).  The written rows are the entries by zone and period; a measurement's bins add
  up its zones and a chart's interval its bins, each a count by some key
  (`CountByKey`), so no entry is lost or counted twice on the way.  What is left is
  arithmetic: a bin lies in one interval (`OneSlot`), ends with the run at the latest
  (`BinFits`), and so gives all that it has to that interval and nothing to the others
  (`ShareIs`).
* `DerivedEntriesHold` needs no such assumption.  Over any stretch of steps the entries
  and those within before are the exits and those within after (`Telescope`), because
  that is so of one step, for those who jump over a zone too (`StepBalances`).

ParkingLots (in `ParkingController_proofs`, whose areas these are; from
`LotAssumption`: finitely many lanes, an edge whose lanes are of one way, since its id
begins with the way's, lanes that have a length, and numbers that are numbers):

* `LotsAreBuiltHolds`, from the invariant `LotInv`: the map has its type and the lot,
  once it is there, is right.  The lot is made in one step, so the proof is about
  operators, and a lemma says that whether a lot is right depends on the map, which
  stays (`RightStays`).
* The lanes: the walk from the gates meets roads only (`OnlyRoads`), so the ways of the
  lot are all those that lie in it.  `Before` orders the lanes (`BeforeCases`), hence
  one of them comes first (`OneIsFirst`), which is what sorting and taking the head do.
* The spaces: what fits into each share is less than one space short of it, so fewer
  spaces are missing than there are lanes (`LittleIsMissing`), and more lanes have a
  rest than spaces are missing: who gets one more is still within a space of its
  share (`ToppedUp`).  When a lane would have none the others have too much, and give
  it up in turn but for their last (`TakenInTurn`, `CutBack`).

`ExperimentCampaign_proofs` (from `CampaignAssumption`):

* `TypeCorrect`, `RunsAreKnownHolds`, `NeverTooManyHolds`, `BatchesWaitHolds`, and
  `InvHolds` they rest on.
* `Good(s, server, cut)` says what a state `s` knows: an item whose run goes on is
  active, a run that goes on is the one its item names unless its POST is cut off, and
  the active items fit into the width.  `Inv` says it of `mem` and of `disk`, whose
  statuses may lag behind the server, adds what is true while a POST is on its way,
  and that the checkpoint has no item the memory lacks (`Grows`).  Polls, results and
  retries change items in place (`Faithful`), which keeps `Good` (lemma
  `FaithfulGood`); `Plan` only adds planned items; `Record` adds one active item, for
  which `Submit` saw a free slot.
* `NeverTooMany` is then a counting argument: runs that go on map one to one to active
  items.  `BatchesWait` is an action property; the steps that could break it other
  than `Plan` are the returns to the checkpoint, and `Grows` rules those out.
* `AttemptsBoundedHolds`, from `BooksHold`: the runs of an item are the attempts its
  books record, the POSTs that were cut off and the one on its way.  The memory and
  the checkpoint agree on the attempts, because the checkpoint is written after every
  POST; a retry is granted only below the number allowed.
* `FinalistsStayValidHolds`, from the same invariant: validations are dealt out once, one
  for each seed and distinct valid finalist (`Rested`), and no result, retry or reset
  touches an item that is valid, in the memory or in the checkpoint.

`RunPreparation_proofs` (from `PreparationAssumption`):

* `ChecksAgreeHolds`, `TripsRealizableHolds`, `DemandExactHolds`,
  `OccupantsArriveHolds` and `SoundMapPreparesHolds`: all the properties of the run
  `preparation`, from `InvHolds`.  `Inv` has one part for what each program leaves
  behind (`Accepted`, `Configured`, `Accessible`, `Realizable`, `WalksCounted`,
  `Departed`, `Arrived`), stated of the stages from that program on.
* The programs meet in a few facts about data, and those are the lemmas:
  the components the walks are computed on are equivalence classes of "connected"
  (`ComponentsAreClasses`), so a trip between two places of one component can be
  routed; vehicles dealt out evenly over the entry points add up to the demand
  (`EvenTotal` and the lemmas on `Total`); the departures are a permutation of the
  trips in order of time (`DeparturesExact`).  `SoundMapPrepares` is proved by showing
  the set of problems each program looks for to be empty.

`RunAnalytics_proofs` (from `OutputsAssumption` and `AnalyticsAssumption`: finitely many
drivers, areas, lots and buildings, plans that name them, capacities that are numbers,
a logging interval that is not 0, and charts of at least four points, where the code
has 900):

* `OutcomesAreTrueHolds`, `ReportBalancesHolds` and `SearchTimesElapsedHolds`, from
  `InvHolds`.  While a run goes on (`Running`) every driver is in one of six modes
  (`Life`): waiting, on its way, standing in a space, done with it, or gone with or
  without a space.  Each mode says what its record looks like (`Going`, `Stopped`,
  `Unserved`), and the log has rows of a stop iff there was one, with its lot
  (`Logged`).  The same is said of the checkpoint and of the log cut off there
  (`Checkpointed`), which is the state `Recover` returns to.  `Settled` is what is left
  of this once `finalize` has closed the records.
* A record carries a `Journey`: its segments follow each other without a gap, the first
  leads to the first lot, the others are the search.  The handlers either leave the
  timeline alone, open a segment, or close one and open the next (`Turned`), so three
  lemmas about journeys serve all of them.  Because of the missing gaps the lengths of
  the search segments telescope (`SearchAddsUp`): the sum that `_search_duration` takes
  is the time that has passed.
* The balances of the report do not depend on what happened: they hold for all
  `people` of whom is known what `KnownOf` says, that an unserved driver has no lot
  in particular.  Each is a count by some key (`CountByKey`), or splits a set in parts
  (`TwoParts`).
* `OccupancyMatchesEventsHolds`, from `CountsHold`.  Its invariant says of an area that
  the vehicles standing in it are the stops that have started and not ended in the
  event log (`Fits`), and of each row of the occupancy log that it has the counts of its
  time (`Counted`); both also of the checkpoint and the logs cut off there.  That `Held`
  never cuts a count off at the capacity needs one more part: those who stand in an area
  and those it is promised to fit in it.  A step moves one vehicle and writes at most one
  row, so each of the sets counted changes by one element at most (`OneMoves`).
* `_downsample_occupancy` is treated apart from all that: a thinned chart has points of
  the series in their order, and for every point one at least as high (`Thinned`).  One
  point, a bucket's extremes and two thinned stretches put together are thinned
  (`ExtremesThin`, `ThinnedJoins`), so the chart is, and with buckets of the size the
  code computes it is never cut (`FewBuckets`).

StudyPlanning (in `FlowCalibration_proofs`, from `PlanningAssumption`: a model has an
origin and a profile has a peak, which the API validates; steps are positive; a height
is within the bounds of its schema; and for candidates from `CandidateAssumption`: bounds
are whole numbers of steps and so is the sum of the peaks, as in the shipped
configuration, the mean is within the bounds, which `project_sum_with_bounds` demands,
and a try gives some origin a share).  An answer stays what its question asks for
(`Answered`, `Planned`, `Proposed`), so the rest is about operators:

* `PeaksApproachHolds`.  The proof shows more than the property asks: a new height is
  always within one step of what was proposed (`StepUp`, `StepDown`), since rounding is
  off by half a step at most and a bound is only in the way of a height beyond it.
* `PlansSoundHolds`.  A point of each experiment changes what it may (`PointSound`), its
  seed gives its replicate away, so no run has points of two replicates, and the runs
  share out the points by their payloads (`CountByKey`).  No vehicle is lost because the
  whole parts of the shares leave less than one vehicle for each origin
  (`AllocationsAddUp`), and as many origins as that have the greatest remainders
  (`LowRanks`).
* `CandidatesCanonicalHolds`.  Whatever rounding makes of the shifted peaks, the repair
  reaches the sum in the steps it computes (`RepairReachesSum`): while the sum is too
  small some peak is a whole step below the bound, for if all were at the bound the sum
  would be too great (`SomePeakMoves`), and each step brings the sum nearer by one.  That
  a candidate is its own canonical form holds part by part: a shift that keeps the sum
  moves no peak, since it moves all of them one way (`ShiftedIsSame`), a whole number of
  steps is the only one nearest to itself (`RoundedAgain`), and numbers of vehicles taken
  as shares are given out as they are (`AllocationIsSame`).

`DataLemmas`.  Induction over data is out of the prover's reach as a theorem that takes
a predicate as parameter, but not as an argument: a set of counterexamples that is not
empty has a least one (`LeastNumber`, from the well-foundedness of strict subsets of a
finite set).  Folds are treated so: they choose, among all, some function that
satisfies their recursion, and its existence is such an induction (`SetRecursion`).
From it follow the equation of a sum (`SumAdds`), that the order of its terms does not
matter (`AnyOrder`), that sums are linear (`SumIsLinear`), what is used of counting, sums
key by key (`SumByKey`) and the concatenation of a sequence of sequences (`FlattenSteps`).
Sorting is opaque to the provers; a model that is proved about says which element is
first, or how many come before an element (`LowRanks`, `TakenInTurn`).

Model-checked only: liveness (`EventuallySettled`, `PublishedRunEnds`, `SessionEnds`,
`CampaignEnds`) and fairness, which need ENABLED and are out of the prover's reach; and
of the run `studies` the property `DetectorsSound`: its words are made of numbers
(`ToString`) and its lists by `SelectSeq`, both opaque to the provers.  An attempt to
prove it by hand showed that its premise on saved ids was enough for two detectors only;
it has been strengthened since.

## What is not modelled

* PostgreSQL is taken to be available: `persist_simulation_run` swallows its failures
  (`database.py:769`), and a row that misses a write hides a newer file from every
  reader.  The terminal failure handler is taken to succeed; its exceptions are
  swallowed too (`worker_runtime.py:97`).  A stop call whose marker file cannot be
  written after the cancellation was recorded is not distinguished.
* Bodies of messages, health files, logs, artifacts' metadata, listings, queue
  positions and the GUI mode.
* Reference data (parsing of workbooks over one table), the model store (file and HTTP
  traffic around a map that the models take as data), demand profiles and parking
  choice (floating-point curves and utilities; the controller module leaves the
  ranking to chance), the web frontend (a client whose polling changes no state).
* The network build and the map inspection tools, the Gaussian process, the
  regressions and the report generators of the experiments, the stand-alone
  postprocessing scripts, and of the analytics the listings, the run summary and the
  E1 series.
* Progress files, quarantined pedestrians and the person log of the controller, and the
  retry of an occupant after a failed TraCI call.

The map covers about a third of the implementation's lines; most of the rest is
the list above.

## Plan

Open, in this order:

1. Proofs about the pure algorithms of `studies` that are left (`ScenarioDetectors`),
   with `DataLemmas`.
2. PostgreSQL that fails: a record then lives in two stores that disagree, and the
   reads prefer the older one.
3. The ingestion of reference data and the deletion of a model with active runs.
