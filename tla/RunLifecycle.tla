---------------------------- MODULE RunLifecycle ----------------------------
(***************************************************************************)
(* The life of a queued headless simulation run: the API creates, stops    *)
(* and deletes it (services/api/main.py, domain/simulations/service.py),   *)
(* the handler of the simulation workers claims, executes, uploads and     *)
(* announces it (services/simulation_worker/main.py), and module           *)
(* WorkerRuntime delivers it.                                              *)
(*                                                                         *)
(* One record of a run exists in up to three kinds of places, and the      *)
(* races are between them: the PostgreSQL row, the MinIO object and the    *)
(* run.json of every process that handled the run.  Processes share no     *)
(* file system.  A record is reduced to its status and its stop request.   *)
(*                                                                         *)
(* The seven scenario commands that precede SUMO are one stage; PostgreSQL *)
(* is taken to be available; the graceful shutdown of a worker is left to  *)
(* WorkerRuntime; a run is published once, so a message is a run.          *)
(***************************************************************************)
EXTENDS Naturals, Sequences

CONSTANTS
  Workers,
  Runs,
  Api,              \* the API process
  None,
  NoRec,            \* no record: a missing row, object or file
  MaxLosses,        \* bound: connections lost by workers
  MaxKills,         \* bound: worker processes killed
  MaxErrors,        \* bound: MinIO or broker calls of a handler that raise
  MaxRestarts       \* bound: crashes of the API process

ASSUME LifecycleAssumption ==
  /\ Api \notin Workers
  /\ None \notin Runs
  /\ {MaxLosses, MaxKills, MaxErrors, MaxRestarts} \subseteq Nat

VARIABLES
  broker, sent, redelivered, phase, link, held, result, tasks, handled, faults,
  db,         \* simulation_runs rows
  store,      \* run.json objects in MinIO
  archived,   \* runs whose SUMO outputs are in MinIO
  local,      \* run.json files of each process
  outputs,    \* <<process, run>>: SUMO outputs in a process's workspace
  at,         \* where the handler running in each worker is
  mem,        \* the record that handler works on
  finished,   \* <<run, status>> announced to the analytics queue
  request,    \* what the API has yet to do for a run it created
  call,       \* the stop or delete call the API is serving
  errors,     \* failed MinIO or broker calls so far
  restarts,   \* API crashes so far
  deleted,    \* history: runs the API has begun to delete
  barred      \* history: runs cancelled while no worker could launch SUMO

RT == INSTANCE WorkerRuntime WITH
  Messages <- Runs, Malformed <- {}, MaxShutdowns <- 0

runtimeVars == <<broker, sent, redelivered, phase, link, held, result, tasks,
                 handled, faults>>
copies == <<db, store, archived, local, outputs>>
handlerVars == <<at, mem, finished>>
apiVars == <<request, call, restarts, deleted, barred>>
vars == <<runtimeVars, copies, handlerVars, apiVars, errors>>

Processes == Workers \cup {Api}

Statuses == {"queued", "running", "completed", "failed"}
Terminal == {"completed", "failed"}

Record == [status : Statuses, stop : BOOLEAN]

ASSUME RecordAssumption == NoRec \notin Record

Idle == [op |-> "idle", run |-> None, queued |-> FALSE, rec |-> NoRec]

TypeOK ==
  /\ RT!TypeOK
  /\ db \in [Runs -> Record \cup {NoRec}]
  /\ store \in [Runs -> Record \cup {NoRec}]
  /\ archived \subseteq Runs
  /\ local \in [Processes -> [Runs -> Record \cup {NoRec}]]
  /\ outputs \subseteq Processes \X Runs
  /\ at \in [Workers -> {"download", "read", "claim", "start", "generate",
                         "launch", "sumo", "end", "upload", "reraise",
                         "announce", "cleanup"}]
  /\ mem \in [Workers -> Record \cup {NoRec}]
  /\ finished \subseteq Runs \X Terminal
  /\ request \in [Runs -> {"none", "publish", "mark"}]
  /\ call \in [op : {"idle", "cancel", "remove", "purge", "drop"},
               run : Runs \cup {None}, queued : BOOLEAN,
               rec : Record \cup {NoRec}]
  /\ errors \in 0 .. MaxErrors
  /\ restarts \in 0 .. MaxRestarts
  /\ deleted \subseteq Runs
  /\ barred \subseteq Runs

Init ==
  /\ RT!Init
  /\ db = [r \in Runs |-> NoRec]
  /\ store = [r \in Runs |-> NoRec]
  /\ archived = {}
  /\ local = [p \in Processes |-> [r \in Runs |-> NoRec]]
  /\ outputs = {}
  /\ at = [w \in Workers |-> "download"]
  /\ mem = [w \in Workers |-> NoRec]
  /\ finished = {}
  /\ request = [r \in Runs |-> "none"]
  /\ call = Idle
  /\ errors = 0
  /\ restarts = 0
  /\ deleted = {}
  /\ barred = {}

-----------------------------------------------------------------------------
(* Records.                                                                *)

\* The row wins over the file, the file over the object.
ReadRun(p, r) ==
  CASE db[r] # NoRec -> db[r]
    [] db[r] = NoRec /\ local[p][r] # NoRec -> local[p][r]
    [] OTHER -> store[r]

IsTerminal(rec) == rec # NoRec /\ rec.status \in Terminal

\* Slips of the upsert: without its COALESCE it forgets a recorded
\* cancellation, with ON CONFLICT DO NOTHING it leaves the first record.
UpsertedBlindly(r, rec) == rec

InsertedOnce(r, rec) == IF db[r] = NoRec THEN rec ELSE db[r]

\* The upsert overwrites everything but a cancellation already recorded.
Upserted(r, rec) ==
  [rec EXCEPT !.stop = @ \/ (db[r] # NoRec /\ db[r].stop)]

\* A record reaches the file and the row; a running one is kept out of MinIO.
WriteFileAndRow(p, r, rec) ==
  /\ local' = [local EXCEPT ![p][r] = rec]
  /\ db' = [db EXCEPT ![r] = Upserted(r, rec)]

WriteRecord(p, r, rec) ==
  /\ WriteFileAndRow(p, r, rec)
  /\ store' = IF rec.status = "running" THEN store ELSE [store EXCEPT ![r] = rec]

\* A slip: the progress phase lands in the status.
MarkPhase(p, r) ==
  LET rec == ReadRun(p, r) IN
  IF rec = NoRec \/ IsTerminal(rec)
    THEN UNCHANGED <<db, local, store>>
    ELSE WriteRecord(p, r, [rec EXCEPT !.status = "queue_failed"])

\* A run that is still queued or running becomes failed.
MarkFailed(p, r) ==
  LET rec == ReadRun(p, r) IN
  IF rec = NoRec \/ IsTerminal(rec)
    THEN UNCHANGED <<db, local, store>>
    ELSE WriteRecord(p, r, [rec EXCEPT !.status = "failed"])

-----------------------------------------------------------------------------
(* The handler of a simulation worker, one action per stage.               *)

Handling(w, r, stage) ==
  /\ tasks[w] # <<>>
  /\ r = Head(tasks[w])
  /\ at[w] = stage

Goto(w, stage) ==
  /\ at' = [at EXCEPT ![w] = stage]
  /\ UNCHANGED runtimeVars

Leave(w, outcome) ==
  /\ RT!HandlerEnds(w, outcome)
  /\ at' = [at EXCEPT ![w] = "download"]
  /\ mem' = [mem EXCEPT ![w] = NoRec]

\* A MinIO or broker call raises and the handler ends with the exception.
Raise(w) ==
  /\ errors < MaxErrors
  /\ errors' = errors + 1
  /\ Leave(w, "error")

\* The run directory is fetched from MinIO over whatever an earlier attempt
\* left in this worker's workspace.
Download(w, r) ==
  /\ Handling(w, r, "download")
  /\ \/ /\ Goto(w, "read")
        /\ local' = IF store[r] = NoRec THEN local
                                        ELSE [local EXCEPT ![w][r] = store[r]]
        /\ outputs' = outputs \cup ({<<w, r>>} \cap (Workers \X archived))
        /\ UNCHANGED <<mem, errors>>
     \/ Raise(w) /\ UNCHANGED <<local, outputs>>
  /\ UNCHANGED <<db, store, archived, finished, apiVars>>

\* Slips of the claim: one executes whatever it is given, one takes a run that
\* is not queued for another worker's and reports success.
ClaimAlways(w, r) ==
  LET rec == ReadRun(w, r) IN
  /\ Handling(w, r, "read")
  /\ IF rec = NoRec
       THEN Leave(w, "error")
       ELSE Goto(w, "claim") /\ mem' = [mem EXCEPT ![w] = rec]
  /\ UNCHANGED <<copies, finished, apiVars, errors>>

ClaimQueuedOnly(w, r) ==
  LET rec == ReadRun(w, r) IN
  /\ Handling(w, r, "read")
  /\ IF rec = NoRec \/ rec.status # "queued"
       THEN Leave(w, IF rec = NoRec THEN "error" ELSE "ok")
       ELSE Goto(w, "claim") /\ mem' = [mem EXCEPT ![w] = rec]
  /\ UNCHANGED <<copies, finished, apiVars, errors>>

\* claim_simulation_run reads: an unknown run is an error, a terminal one is
\* only announced again.
ClaimRead(w, r) ==
  LET rec == ReadRun(w, r) IN
  /\ Handling(w, r, "read")
  /\ IF rec = NoRec
       THEN Leave(w, "error")
       ELSE /\ Goto(w, IF IsTerminal(rec) THEN "announce" ELSE "claim")
            /\ mem' = [mem EXCEPT ![w] = rec]
  /\ UNCHANGED <<copies, finished, apiVars, errors>>

\* ... and writes back what it read, whatever the row has become.
ClaimWrite(w, r) ==
  /\ Handling(w, r, "claim")
  /\ \/ /\ WriteRecord(w, r, mem[w])
        /\ Goto(w, "start")
        /\ UNCHANGED <<mem, errors>>
     \/ /\ mem[w].status # "running"
        /\ WriteFileAndRow(w, r, mem[w])
        /\ Raise(w)
        /\ UNCHANGED store
  /\ UNCHANGED <<archived, outputs, finished, apiVars>>

\* execute_simulation_run works from the file and reports the run as running.
Start(w, r) ==
  LET rec == [local[w][r] EXCEPT !.status = "running"] IN
  /\ Handling(w, r, "start")
  /\ Goto(w, "generate")
  /\ mem' = [mem EXCEPT ![w] = rec]
  /\ WriteRecord(w, r, rec)
  /\ UNCHANGED <<archived, outputs, finished, apiVars, errors>>

\* Only the row carries a stop request from the API to a worker.
StopRequested(r) == db[r] # NoRec /\ db[r].stop

EndAs(w, status) == mem' = [mem EXCEPT ![w].status = status]

\* The scenario commands: each is preceded and followed by a stop check, and
\* any of them may fail.
Generate(w, r) ==
  /\ Handling(w, r, "generate")
  /\ \/ StopRequested(r) /\ EndAs(w, "failed") /\ Goto(w, "end")
     \/ ~StopRequested(r) /\ Goto(w, "launch") /\ UNCHANGED mem
     \/ ~StopRequested(r) /\ EndAs(w, "failed") /\ Goto(w, "end")
  /\ UNCHANGED <<copies, finished, apiVars, errors>>

\* After the last stop check the record is written and SUMO is started.
Launch(w, r) ==
  /\ Handling(w, r, "launch")
  /\ WriteRecord(w, r, mem[w])
  /\ Goto(w, "sumo")
  /\ UNCHANGED <<archived, outputs, mem, finished, apiVars, errors>>

\* The progress poll rewrites the record, with the stop request if it sees one.
Progress(w, r) ==
  LET rec == [mem[w] EXCEPT !.stop = @ \/ StopRequested(r)] IN
  /\ Handling(w, r, "sumo")
  /\ mem' = [mem EXCEPT ![w] = rec]
  /\ WriteRecord(w, r, rec)
  /\ UNCHANGED <<runtimeVars, archived, outputs, at, finished, apiVars, errors>>

\* SUMO exits: on a stop request, with an error, or at the end of the run.
SumoExits(w, r) ==
  /\ Handling(w, r, "sumo")
  /\ Goto(w, "end")
  /\ outputs' = outputs \cup {<<w, r>>}
  /\ \/ EndAs(w, "failed")
     \/ ~StopRequested(r) /\ EndAs(w, "completed")
  /\ UNCHANGED <<db, store, archived, local, finished, apiVars, errors>>

\* The final record; if MinIO refuses it the exception waits for the upload.
End(w, r) ==
  /\ Handling(w, r, "end")
  /\ \/ /\ WriteRecord(w, r, mem[w])
        /\ Goto(w, "upload")
        /\ UNCHANGED errors
     \/ /\ errors < MaxErrors
        /\ errors' = errors + 1
        /\ WriteFileAndRow(w, r, mem[w])
        /\ Goto(w, "reraise")
        /\ UNCHANGED store
  /\ UNCHANGED <<archived, outputs, mem, finished, apiVars>>

\* A slip: only run.json is uploaded.
UploadRecord(w, r) ==
  /\ store' = [store EXCEPT ![r] = local[w][r]]
  /\ UNCHANGED archived

\* The whole run directory goes to MinIO, run.json included.
UploadTree(w, r) ==
  /\ store' = [store EXCEPT ![r] = local[w][r]]
  /\ archived' = IF <<w, r>> \in outputs THEN archived \cup {r} ELSE archived

Upload(w, r) ==
  /\ \/ /\ Handling(w, r, "upload")
        /\ UploadTree(w, r)
        /\ Goto(w, "announce")
        /\ UNCHANGED <<mem, errors>>
     \/ /\ Handling(w, r, "reraise")
        /\ UploadTree(w, r)
        /\ Leave(w, "error")
        /\ UNCHANGED errors
     \/ /\ Handling(w, r, "upload") \/ Handling(w, r, "reraise")
        /\ Raise(w)
        /\ UNCHANGED <<store, archived>>
  /\ UNCHANGED <<db, local, outputs, finished, apiVars>>

\* The record is read again; only a terminal one is announced.  A publication
\* that raises may have reached the queue all the same.
Announce(w, r) ==
  LET rec == ReadRun(w, r) IN
  /\ Handling(w, r, "announce")
  /\ IF IsTerminal(rec)
       THEN \/ /\ finished' = finished \cup {<<r, rec.status>>}
               /\ Goto(w, "cleanup")
               /\ UNCHANGED <<mem, errors>>
            \/ /\ finished' \in {finished, finished \cup {<<r, rec.status>>}}
               /\ Raise(w)
       ELSE /\ Leave(w, "error")
            /\ UNCHANGED <<finished, errors>>
  /\ UNCHANGED <<copies, apiVars>>

\* The workspace of the run is removed and the handler returns.
Cleanup(w, r) ==
  /\ Handling(w, r, "cleanup")
  /\ local' = [local EXCEPT ![w][r] = NoRec]
  /\ outputs' = outputs \ {<<w, r>>}
  /\ Leave(w, "ok")
  /\ UNCHANGED <<db, store, archived, finished, apiVars, errors>>

HandlerStep(w, r) ==
  \/ Download(w, r)
  \/ ClaimRead(w, r)
  \/ ClaimWrite(w, r)
  \/ Start(w, r)
  \/ Generate(w, r)
  \/ Launch(w, r)
  \/ SumoExits(w, r)
  \/ End(w, r)
  \/ Upload(w, r)
  \/ Announce(w, r)
  \/ Cleanup(w, r)

-----------------------------------------------------------------------------
(* The runtime around the handler.                                         *)

\* Steps of the runtime that touch no record.
RuntimeStep(w) ==
  /\ \/ RT!Connect(w)
     \/ \E r \in Runs : RT!Get(w, r)
     \/ RT!Ack(w)
     \/ RT!Nack(w)
     \/ RT!Restart(w)
  /\ UNCHANGED <<copies, handlerVars, apiVars, errors>>

\* A slip: the delivery is rejected without a word about the run.
SilentFailure(w) ==
  /\ RT!Reject(w)
  /\ UNCHANGED <<copies, handlerVars, apiVars, errors>>

\* The terminal failure handler marks the run before the delivery is rejected.
TerminalFailure(w) ==
  /\ RT!Reject(w)
  /\ MarkFailed(w, held[w])
  /\ UNCHANGED <<archived, outputs, handlerVars, apiVars, errors>>

LoseConnection(w) ==
  /\ RT!LoseConnection(w)
  /\ UNCHANGED <<copies, handlerVars, apiVars, errors>>

\* A killed worker comes back with its workspace or in a fresh container.
Kill(w) ==
  /\ RT!Kill(w)
  /\ at' = [at EXCEPT ![w] = "download"]
  /\ mem' = [mem EXCEPT ![w] = NoRec]
  /\ \/ UNCHANGED <<local, outputs>>
     \/ /\ local' = [local EXCEPT ![w] = [r \in Runs |-> NoRec]]
        /\ outputs' = outputs \ ({w} \X Runs)
  /\ UNCHANGED <<db, store, archived, finished, apiVars, errors>>

-----------------------------------------------------------------------------
(* The API.  One event loop: stop and delete calls run to their end before *)
(* the next call starts; the publication alone runs in a thread.           *)

Create(r) ==
  /\ call = Idle
  /\ broker[r] = "unsent" /\ request[r] = "none" /\ r \notin deleted
  /\ ReadRun(Api, r) = NoRec
  /\ request' = [request EXCEPT ![r] = "publish"]
  /\ WriteRecord(Api, r, [status |-> "queued", stop |-> FALSE])
  /\ UNCHANGED <<runtimeVars, archived, outputs, handlerVars, call, restarts,
                 deleted, barred, errors>>

\* The publication is confirmed or it raises: then the message may have reached
\* the queue all the same, its confirmation lost.
PublishRun(r) ==
  /\ request[r] = "publish"
  /\ \/ /\ RT!Publish(r)
        /\ request' = [request EXCEPT ![r] = "none"]
        /\ UNCHANGED errors
     \/ /\ errors < MaxErrors
        /\ errors' = errors + 1
        /\ request' = [request EXCEPT ![r] = "mark"]
        /\ RT!Publish(r) \/ UNCHANGED runtimeVars
  /\ UNCHANGED <<copies, handlerVars, call, restarts, deleted, barred>>

\* A run whose publication raised is marked failed, unless it has ended.
MarkQueueFailure(r) ==
  /\ request[r] = "mark"
  /\ request' = [request EXCEPT ![r] = "none"]
  /\ MarkFailed(Api, r)
  /\ UNCHANGED <<runtimeVars, archived, outputs, handlerVars, call, restarts,
                 deleted, barred, errors>>

\* A stop call reads the record: the run must be active and not yet stopped.
StopRead(r) ==
  LET rec == ReadRun(Api, r) IN
  /\ call = Idle
  /\ rec # NoRec /\ ~IsTerminal(rec) /\ ~rec.stop
  /\ call' = [op |-> "cancel", run |-> r, queued |-> rec.status = "queued",
              rec |-> rec]
  /\ UNCHANGED <<runtimeVars, copies, handlerVars, request, restarts, deleted,
                 barred, errors>>

CanLaunch(r) ==
  \E w \in Workers : tasks[w] # <<>> /\ Head(tasks[w]) = r
                     /\ at[w] \in {"launch", "sumo", "end"}

\* The cancellation is recorded in the row, or in the record read before if
\* there is no row.
StopCancel(r) ==
  LET rec == IF db[r] # NoRec THEN [db[r] EXCEPT !.stop = TRUE]
                              ELSE [call.rec EXCEPT !.stop = TRUE] IN
  /\ call.op = "cancel" /\ call.run = r
  /\ call' = IF call.queued THEN [call EXCEPT !.op = "remove", !.rec = rec] ELSE Idle
  /\ barred' = IF CanLaunch(r) THEN barred ELSE barred \cup {r}
  /\ IF db[r] # NoRec
       THEN db' = [db EXCEPT ![r] = rec] /\ UNCHANGED <<local, store>>
       ELSE WriteRecord(Api, r, rec)
  /\ UNCHANGED <<runtimeVars, archived, outputs, handlerVars, request,
                 restarts, deleted, errors>>

\* A run that was queued when the call began is removed from the queue: its
\* record becomes terminal, whatever the row says by now.
StopRemove(r) ==
  /\ call.op = "remove" /\ call.run = r
  /\ WriteRecord(Api, r, [call.rec EXCEPT !.status = "failed"])
  /\ call' = Idle
  /\ UNCHANGED <<runtimeVars, archived, outputs, handlerVars, request,
                 restarts, deleted, barred, errors>>

\* A delete call reads the record: queued and running runs are refused.
DeleteRead(r) ==
  /\ call = Idle
  /\ IsTerminal(ReadRun(Api, r))
  /\ call' = [Idle EXCEPT !.op = "purge", !.run = r]
  /\ UNCHANGED <<runtimeVars, copies, handlerVars, request, restarts, deleted,
                 barred, errors>>

\* The objects and the API's files go first ...
DeleteObjects(r) ==
  /\ call.op = "purge" /\ call.run = r
  /\ store' = [store EXCEPT ![r] = NoRec]
  /\ archived' = archived \ {r}
  /\ local' = [local EXCEPT ![Api][r] = NoRec]
  /\ call' = [call EXCEPT !.op = "drop"]
  /\ deleted' = deleted \cup {r}
  /\ UNCHANGED <<runtimeVars, db, outputs, handlerVars, request, restarts,
                 barred, errors>>

\* ... then the row, and with it the recorded cancellation.
DeleteRow(r) ==
  /\ call.op = "drop" /\ call.run = r
  /\ db' = [db EXCEPT ![r] = NoRec]
  /\ call' = Idle
  /\ UNCHANGED <<runtimeVars, store, archived, local, outputs, handlerVars,
                 request, restarts, deleted, barred, errors>>

\* The API process crashes and starts again: the calls it served are gone, the
\* records in MinIO are fetched and rows are inserted for those without one.
ApiRestart ==
  /\ restarts < MaxRestarts
  /\ restarts' = restarts + 1
  /\ request' = [r \in Runs |-> "none"]
  /\ call' = Idle
  /\ local' = [local EXCEPT ![Api] = [r \in Runs |->
                 IF store[r] = NoRec THEN local[Api][r] ELSE store[r]]]
  /\ db' = [r \in Runs |-> IF db[r] = NoRec THEN local'[Api][r] ELSE db[r]]
  /\ UNCHANGED <<runtimeVars, store, archived, outputs, handlerVars, deleted,
                 barred, errors>>

ApiStep(r) ==
  \/ PublishRun(r)
  \/ MarkQueueFailure(r)
  \/ StopCancel(r)
  \/ StopRemove(r)
  \/ DeleteObjects(r)
  \/ DeleteRow(r)

UserCall(r) == Create(r) \/ StopRead(r) \/ DeleteRead(r)

-----------------------------------------------------------------------------

WorkerStep(w) ==
  \/ \E r \in Runs : HandlerStep(w, r)
  \/ RuntimeStep(w)
  \/ TerminalFailure(w)

Next ==
  \/ \E w \in Workers : WorkerStep(w) \/ LoseConnection(w) \/ Kill(w)
  \/ \E w \in Workers, r \in Runs : Progress(w, r)
  \/ \E r \in Runs : ApiStep(r) \/ UserCall(r)
  \/ ApiRestart

Spec == Init /\ [][Next]_vars

\* Workers keep working (every command of a run ends, the restart policy brings
\* a killed worker back) and the API finishes the calls it serves.  Users and
\* faults owe nothing.
Fairness ==
  /\ \A w \in Workers : WF_vars(WorkerStep(w))
  /\ WF_vars(\E r \in Runs : ApiStep(r))

FairSpec == Spec /\ Fairness

-----------------------------------------------------------------------------
(* Properties.                                                             *)

\* Some executor still has to run, or is running, a handler of the run.
HandlerAlive(r) == \E w \in Workers : \E i \in DOMAIN tasks[w] : tasks[w][i] = r

HasEnded(r) == db[r] = NoRec \/ IsTerminal(db[r])

\* No worker is killed and no MinIO or broker call raises: every handler gets to
\* its end.
HandlersEnd == faults.kill = 0 /\ errors = 0

\* A delivery is settled only for a run that has ended: once RabbitMQ has
\* forgotten the request, or moved it to the dead queue, the record is terminal
\* or gone, or a handler that will end it is still at work.  No run is left
\* queued or running with nobody to finish it.  (A deleted run is out of the
\* API's promise: see DeletedRunIsIdle.)  It takes a lost connection and a handler
\* that is cut short to break it: the orphan handler of the first delivery may
\* overwrite a terminal record and then raise, or die.
NoAbandonedRun ==
  faults.loss = 0 \/ HandlersEnd =>
    \A r \in Runs \ deleted :
      broker[r] \in {"acked", "dead"} => HasEnded(r) \/ HandlerAlive(r)

\* What the analytics workers were told stays true: a run announced as finished
\* is never active again (as long as no lost connection gives it a second handler).
AnnouncedStaysFinished ==
  faults.loss = 0 =>
    \A r \in Runs \ deleted, s \in Terminal : <<r, s>> \in finished => HasEnded(r)

\* A stop request is final.  If it was recorded before any worker had passed
\* its last check, SUMO is never started for that run, although workers keep
\* overwriting the row with copies they read earlier (until the row is
\* deleted, which forgets the request).
CancelledNeverStarts ==
  \A r \in barred \ deleted, w \in Workers :
    ~(Handling(w, r, "launch") \/ Handling(w, r, "sumo"))

\* MinIO is the authoritative store of SUMO artifacts: when a completed run is
\* settled its outputs are there, unless a handler has yet to upload them (or its
\* deletion has begun).
OutputsArchived ==
  \A r \in Runs \ deleted :
    broker[r] = "acked" /\ db[r] # NoRec /\ db[r].status = "completed" =>
      r \in archived \/ HandlerAlive(r)

\* Lost connections alone, and the second handlers they lead to, lose no outputs.
OutputsArchivedUnlessKilled == HandlersEnd => OutputsArchived

\* Every published run ends for good, through kills, redeliveries, failed calls
\* and stops.
PublishedRunEnds ==
  \A r \in Runs : broker[r] = "ready" ~> (r \in deleted \/ []HasEnded(r))

\* "A queued or running simulation cannot be deleted": no worker is running SUMO
\* for a run when its objects and its row are removed.
DeletedRunIsIdle ==
  [][\A r \in Runs : r \in deleted' \ deleted =>
       ~\E w \in Workers : Handling(w, r, "sumo")]_vars

=============================================================================
