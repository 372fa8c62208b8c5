------------------------ MODULE RunLifecycle_proofs ------------------------
(***************************************************************************)
(* Proofs about RunLifecycle for any workers, runs and numbers of faults.  *)
(* A run of the system is a run of WorkerRuntime, so what is proved of the *)
(* runtime holds of it.  Every state has its type, and a stop recorded     *)
(* before a worker has passed its last check is final.                     *)
(*                                                                         *)
(* The invariant ties the stage of each handler to the record it works on, *)
(* and says that the row of a stopped run keeps the request, whoever       *)
(* writes it.                                                              *)
(***************************************************************************)
EXTENDS RunLifecycle, SequenceTheorems, TLAPS

-----------------------------------------------------------------------------
(* The invariant.                                                          *)

\* From the claim to the final record a handler works on a record it has read,
\* the started one on the file the claim has left.
StagedAt(w) ==
  /\ tasks[w] = <<>> => at[w] = "download"
  /\ at[w] \in {"claim", "start", "generate", "launch", "sumo", "end"} =>
       mem[w] \in Record
  /\ at[w] = "start" => local[w][Head(tasks[w])] \in Record

Staged == \A w \in Workers : StagedAt(w)

\* A stop call carries the record it has read; the row goes after the objects.
Calls ==
  /\ call.op # "idle" => call.run \in Runs
  /\ call.op \in {"cancel", "remove"} => call.rec \in Record
  /\ call.op = "drop" => call.run \in deleted

Launching(w, r) == Handling(w, r, "launch") \/ Handling(w, r, "sumo")

\* The row of a barred run stays, with the stop request, and nobody launches.
Barred ==
  \A r \in barred \ deleted :
    /\ db[r] \in Record
    /\ db[r].stop
    /\ \A w \in Workers : ~Launching(w, r)

Inv == TypeOK /\ Staged /\ Calls /\ Barred

-----------------------------------------------------------------------------
(* Every step of the system is one of the runtime, or none.                *)

RuntimeEnds(w) == \E outcome \in {"ok", "error"} : RT!HandlerEnds(w, outcome)

LEMMA HandlerRuntime ==
  ASSUME NEW w \in Workers, NEW r \in Runs, HandlerStep(w, r)
  PROVE  UNCHANGED runtimeVars \/ RuntimeEnds(w)
<1>1. \A stage : Goto(w, stage) => UNCHANGED runtimeVars
  BY DEF Goto
<1>2. \A outcome \in {"ok", "error"} : Leave(w, outcome) => RuntimeEnds(w)
  BY DEF Leave, RuntimeEnds
<1>3. Raise(w) => RuntimeEnds(w)
  BY <1>2 DEF Raise
<1>4. CASE Download(w, r)
  BY <1>4, <1>1, <1>3 DEF Download
<1>5. CASE ClaimRead(w, r)
  BY <1>5, <1>1, <1>2 DEF ClaimRead
<1>6. CASE ClaimWrite(w, r)
  BY <1>6, <1>1, <1>3 DEF ClaimWrite
<1>7. CASE Start(w, r)
  BY <1>7, <1>1 DEF Start
<1>8. CASE Generate(w, r)
  BY <1>8, <1>1 DEF Generate
<1>9. CASE Launch(w, r)
  BY <1>9, <1>1 DEF Launch
<1>10. CASE SumoExits(w, r)
  BY <1>10, <1>1 DEF SumoExits
<1>11. CASE End(w, r)
  BY <1>11, <1>1 DEF End
<1>12. CASE Upload(w, r)
  BY <1>12, <1>1, <1>2, <1>3 DEF Upload
<1>13. CASE Announce(w, r)
  BY <1>13, <1>1, <1>2, <1>3 DEF Announce
<1>14. CASE Cleanup(w, r)
  BY <1>14, <1>2 DEF Cleanup
<1> QED
  BY <1>4, <1>5, <1>6, <1>7, <1>8, <1>9, <1>10, <1>11, <1>12, <1>13, <1>14
     DEF HandlerStep

LEMMA WorkerRuntimeStep ==
  ASSUME NEW w \in Workers, WorkerStep(w)
  PROVE  UNCHANGED runtimeVars \/ RT!Step(w)
<1>1. ASSUME NEW r \in Runs, HandlerStep(w, r)
      PROVE  UNCHANGED runtimeVars \/ RT!Step(w)
  BY <1>1, HandlerRuntime DEF RuntimeEnds, RT!Step
<1>2. CASE RuntimeStep(w)
  BY <1>2 DEF RuntimeStep, RT!Step
<1>3. CASE TerminalFailure(w)
  BY <1>3 DEF TerminalFailure, RT!Step
<1> QED
  BY <1>1, <1>2, <1>3 DEF WorkerStep

LEMMA ApiRuntime ==
  ASSUME NEW r \in Runs, ApiStep(r) \/ UserCall(r)
  PROVE  UNCHANGED runtimeVars \/ RT!Publish(r)
<1>1. CASE PublishRun(r)
  BY <1>1 DEF PublishRun
<1>2. CASE MarkQueueFailure(r) \/ StopCancel(r) \/ StopRemove(r)
  BY <1>2 DEF MarkQueueFailure, StopCancel, StopRemove
<1>3. CASE DeleteObjects(r) \/ DeleteRow(r)
  BY <1>3 DEF DeleteObjects, DeleteRow
<1>4. CASE Create(r) \/ StopRead(r) \/ DeleteRead(r)
  BY <1>4 DEF Create, StopRead, DeleteRead
<1> QED
  BY <1>1, <1>2, <1>3, <1>4 DEF ApiStep, UserCall

LEMMA NextRuntime == [Next]_vars => [RT!Next]_(RT!runtimeVars)
<1> SUFFICES ASSUME [Next]_vars PROVE UNCHANGED runtimeVars \/ RT!Next
  BY DEF runtimeVars, RT!runtimeVars
<1>1. ASSUME NEW w \in Workers, WorkerStep(w) \/ LoseConnection(w) \/ Kill(w)
      PROVE  UNCHANGED runtimeVars \/ RT!Next
  BY <1>1, WorkerRuntimeStep DEF LoseConnection, Kill, RT!Next, RT!Fault
<1>2. ASSUME NEW w \in Workers, NEW r \in Runs, Progress(w, r)
      PROVE  UNCHANGED runtimeVars \/ RT!Next
  BY <1>2 DEF Progress
<1>3. ASSUME NEW r \in Runs, ApiStep(r) \/ UserCall(r)
      PROVE  UNCHANGED runtimeVars \/ RT!Next
  BY <1>3, ApiRuntime DEF RT!Next
<1>4. CASE ApiRestart
  BY <1>4 DEF ApiRestart
<1>5. CASE UNCHANGED vars
  BY <1>5 DEF vars
<1> QED
  BY <1>1, <1>2, <1>3, <1>4, <1>5 DEF Next

RP == INSTANCE WorkerRuntime_proofs WITH
  Messages <- Runs, Malformed <- {}, MaxShutdowns <- 0

LEMMA PremiseHolds == RP!RuntimeAssumption
BY LifecycleAssumption DEF LifecycleAssumption, RP!RuntimeAssumption

\* RT and RP are two names of one specification.
LEMMA SameTypeOK == RT!TypeOK <=> RP!TypeOK
BY DEF RT!TypeOK, RP!TypeOK, RT!FaultCounts, RP!FaultCounts

LEMMA SameNext == [RT!Next]_(RT!runtimeVars) <=> [RP!Next]_(RP!runtimeVars)
BY DEF
  RT!Next, RT!Step, RT!Fault, RT!Publish, RT!Connect, RT!Get, RT!Polling,
  RT!IsHead, RT!RejectInvalid, RT!HandlerEnds, RT!IsAwaited, RT!Ack, RT!Nack,
  RT!Reject, RT!Settle, RT!Requeue, RT!Exit, RT!Restart, RT!LoseConnection,
  RT!RequestShutdown, RT!Kill, RT!brokerVars, RT!workerVars, RT!runtimeVars,
  RP!Next, RP!Step, RP!Fault, RP!Publish, RP!Connect, RP!Get, RP!Polling,
  RP!IsHead, RP!RejectInvalid, RP!HandlerEnds, RP!IsAwaited, RP!Ack, RP!Nack,
  RP!Reject, RP!Settle, RP!Requeue, RP!Exit, RP!Restart, RP!LoseConnection,
  RP!RequestShutdown, RP!Kill, RP!brokerVars, RP!workerVars, RP!runtimeVars

LEMMA RuntimeTypeOK == RT!TypeOK /\ [Next]_vars => RT!TypeOK'
<1>1. RP!TypeOK /\ [RP!Next]_(RP!runtimeVars) => RP!TypeOK'
  BY PremiseHolds, RP!NextTypeOK
<1>2. RT!TypeOK' <=> RP!TypeOK'
  BY DEF RT!TypeOK, RP!TypeOK, RT!FaultCounts, RP!FaultCounts
<1> QED
  BY <1>1, <1>2, NextRuntime, SameNext, SameTypeOK

\* The workers of the system are workers of the runtime: whatever their handlers
\* and the API do, the queue sees only steps of WorkerRuntime.
THEOREM RunsOnRuntime == Spec => RP!Spec
<1>1. Init => RP!Init
  BY DEF Init, RT!Init, RP!Init
<1> QED
  BY <1>1, NextRuntime, SameNext, PTL DEF Spec, RP!Spec

\* What is proved of the runtime therefore holds of the simulation queue: broker
\* and workers agree on the deliveries, a run has one handler as long as no
\* connection is lost, and the queue keeps its promise to the API (JobQueue).
THEOREM QueueKeepsItsPromise ==
  Spec => []RP!DeliveriesAgree /\ []RP!OwnedUnlessLinkLost /\ RP!QueueSpec
<1>1. RP!Spec => []RP!DeliveriesAgree
  BY PremiseHolds, RP!DeliveriesAlwaysAgree
<1>2. RP!Spec => []RP!OwnedUnlessLinkLost
  BY PremiseHolds, RP!OwnershipKept
<1>3. RP!Spec => RP!QueueSpec
  BY PremiseHolds, RP!ImplementsJobQueue
<1> QED
  BY <1>1, <1>2, <1>3, RunsOnRuntime

-----------------------------------------------------------------------------
(* What the writes of a record do.                                         *)

Known == Record \cup {NoRec}

LEMMA ReadType ==
  ASSUME TypeOK, NEW p \in Processes, NEW r \in Runs
  PROVE  /\ ReadRun(p, r) \in Known
         /\ db[r] # NoRec => ReadRun(p, r) = db[r]
BY DEF TypeOK, ReadRun, Known

LEMMA RecordFields ==
  ASSUME NEW rec \in Record
  PROVE  /\ rec # NoRec
         /\ rec.status \in Statuses /\ rec.stop \in BOOLEAN
         /\ \A st \in Statuses : [rec EXCEPT !.status = st] \in Record
         /\ \A b \in BOOLEAN : [rec EXCEPT !.stop = b] \in Record
                               /\ [rec EXCEPT !.stop = b].stop = b
BY RecordAssumption DEF Record

LEMMA KnownRecord ==
  ASSUME NEW rec \in Known, rec # NoRec
  PROVE  rec \in Record
BY DEF Known

\* No write takes a recorded stop request out of a row.
RowsKeepStops ==
  \A r \in Runs :
    db[r] \in Record /\ db[r].stop => db'[r] \in Record /\ db'[r].stop

CopiesType ==
  /\ db \in [Runs -> Known]
  /\ store \in [Runs -> Known]
  /\ local \in [Processes -> [Runs -> Known]]

\* ... nor a record out of the files of process p.
FilesStay(p) ==
  \A r \in Runs : local[p][r] \in Record => local'[p][r] \in Record

LEMMA WriteFileAndRowType ==
  ASSUME CopiesType, NEW p \in Processes, NEW r \in Runs, NEW rec \in Record,
         WriteFileAndRow(p, r, rec)
  PROVE  /\ db' \in [Runs -> Known]
         /\ local' \in [Processes -> [Runs -> Known]]
         /\ RowsKeepStops
         /\ db'[r] \in Record
         /\ rec.stop => db'[r].stop
         /\ local'[p][r] = rec
         /\ FilesStay(p)
         /\ \A q \in Processes \ {p} : local'[q] = local[q]
<1> DEFINE up == Upserted(r, rec)
<1>1. up \in Record /\ (rec.stop => up.stop)
      /\ (db[r] # NoRec /\ db[r].stop => up.stop)
  <2> DEFINE stop == rec.stop \/ (db[r] # NoRec /\ db[r].stop)
  <2>1. stop \in BOOLEAN
    OBVIOUS
  <2>2. up = [rec EXCEPT !.stop = stop]
    BY DEF Upserted
  <2>3. (rec.stop => stop) /\ (db[r] # NoRec /\ db[r].stop => stop)
    OBVIOUS
  <2>4. up \in Record /\ up.stop = stop
    <3>1. \A b \in BOOLEAN : [rec EXCEPT !.stop = b] \in Record
                              /\ [rec EXCEPT !.stop = b].stop = b
      BY RecordFields
    <3> HIDE DEF stop
    <3> QED
      BY <2>1, <2>2, <3>1
  <2> QED
    BY <2>3, <2>4, Zenon
<1>2. db' = [db EXCEPT ![r] = up] /\ local' = [local EXCEPT ![p][r] = rec]
  BY DEF WriteFileAndRow
<1> HIDE DEF up
<1>3. up \in Known /\ rec \in Known
  BY <1>1 DEF Known
<1>4. db' \in [Runs -> Known] /\ db'[r] = up
      /\ \A q \in Runs \ {r} : db'[q] = db[q]
  BY <1>2, <1>3 DEF CopiesType
<1>5. RowsKeepStops
  BY <1>1, <1>4, RecordFields DEF RowsKeepStops
<1>6. /\ local' \in [Processes -> [Runs -> Known]]
      /\ local'[p][r] = rec
      /\ \A q \in Processes \ {p} : local'[q] = local[q]
      /\ FilesStay(p)
  BY <1>2, <1>3 DEF CopiesType, FilesStay
<1> QED
  BY <1>1, <1>4, <1>5, <1>6

LEMMA WriteRecordType ==
  ASSUME CopiesType, NEW p \in Processes, NEW r \in Runs, NEW rec \in Record,
         WriteRecord(p, r, rec)
  PROVE  /\ CopiesType'
         /\ RowsKeepStops
         /\ db'[r] \in Record
         /\ rec.stop => db'[r].stop
         /\ local'[p][r] = rec
         /\ FilesStay(p)
         /\ \A q \in Processes \ {p} : local'[q] = local[q]
<1>1. WriteFileAndRow(p, r, rec)
      /\ store' = IF rec.status = "running" THEN store ELSE [store EXCEPT ![r] = rec]
  BY DEF WriteRecord
<1>2. store' \in [Runs -> Known]
  BY <1>1 DEF CopiesType, Known
<1> QED
  BY <1>1, <1>2, WriteFileAndRowType DEF CopiesType

LEMMA MarkFailedType ==
  ASSUME TypeOK, CopiesType, NEW p \in Processes, NEW r \in Runs, MarkFailed(p, r)
  PROVE  /\ CopiesType'
         /\ RowsKeepStops
         /\ FilesStay(p)
         /\ \A q \in Processes \ {p} : local'[q] = local[q]
<1> DEFINE rec == ReadRun(p, r)
<1>1. CASE rec = NoRec \/ IsTerminal(rec)
  <2>1. UNCHANGED <<db, local, store>>
    BY <1>1 DEF MarkFailed
  <2> QED
    BY <2>1 DEF CopiesType, RowsKeepStops, FilesStay
<1>2. CASE ~(rec = NoRec \/ IsTerminal(rec))
  <2>1. WriteRecord(p, r, [rec EXCEPT !.status = "failed"])
    BY <1>2 DEF MarkFailed
  <2>2. rec \in Record
    BY <1>2, ReadType, KnownRecord
  <2>3. [rec EXCEPT !.status = "failed"] \in Record
    BY <2>2, RecordFields DEF Statuses
  <2> QED
    BY <2>1, <2>3, WriteRecordType
<1> QED
  BY <1>1, <1>2

LEMMA TypeOfCopies == TypeOK => CopiesType
BY DEF TypeOK, CopiesType, Known

-----------------------------------------------------------------------------
(* Types.                                                                  *)

\* Everything but the copies of the records and the variables of the runtime.
RestType ==
  /\ archived \subseteq Runs
  /\ outputs \subseteq Processes \X Runs
  /\ at \in [Workers -> {"download", "read", "claim", "start", "generate",
                         "launch", "sumo", "end", "upload", "reraise",
                         "announce", "cleanup"}]
  /\ mem \in [Workers -> Known]
  /\ finished \subseteq Runs \X Terminal
  /\ request \in [Runs -> {"none", "publish", "mark"}]
  /\ call \in [op : {"idle", "cancel", "remove", "purge", "drop"},
               run : Runs \cup {None}, queued : BOOLEAN, rec : Known]
  /\ errors \in 0 .. MaxErrors
  /\ restarts \in 0 .. MaxRestarts
  /\ deleted \subseteq Runs
  /\ barred \subseteq Runs

LEMMA TypeParts == TypeOK <=> RT!TypeOK /\ CopiesType /\ RestType
BY DEF TypeOK, CopiesType, RestType, Known

\* Only worker w moves, the API does not, no row loses a stop request, and the
\* handler of w does not get past its last check of a barred run.
MovesOnly(w) ==
  /\ UNCHANGED <<call, deleted, barred>>
  /\ RowsKeepStops
  /\ \A v \in Workers \ {w} :
       /\ tasks'[v] = tasks[v]
       /\ at'[v] = at[v]
       /\ mem'[v] = mem[v]
       /\ local'[v] = local[v]

LEMMA MoveInv ==
  ASSUME Inv, TypeOK', NEW w \in Workers, MovesOnly(w), StagedAt(w)',
         \A r \in barred \ deleted : ~Launching(w, r)'
  PROVE  Inv'
<1>1. Staged'
  <2> SUFFICES ASSUME NEW v \in Workers PROVE StagedAt(v)'
    BY DEF Staged
  <2>1. CASE v = w
    BY <2>1
  <2>2. CASE v # w
    BY <2>2 DEF MovesOnly, Inv, Staged, StagedAt
  <2> QED
    BY <2>1, <2>2
<1>2. Calls'
  BY DEF MovesOnly, Inv, Calls
<1>3. Barred'
  <2> SUFFICES ASSUME NEW r \in barred \ deleted
               PROVE  /\ db'[r] \in Record
                      /\ db'[r].stop
                      /\ \A v \in Workers : ~Launching(v, r)'
    BY DEF MovesOnly, Barred
  <2>1. db'[r] \in Record /\ db'[r].stop
    BY DEF Inv, TypeOK, Barred, MovesOnly, RowsKeepStops
  <2>2. ASSUME NEW v \in Workers \ {w} PROVE ~Launching(v, r)'
    BY <2>2 DEF MovesOnly, Inv, Barred, Launching, Handling
  <2> QED
    BY <2>1, <2>2
<1> QED
  BY <1>1, <1>2, <1>3 DEF Inv

LEMMA StageTypes ==
  ASSUME RestType, NEW w \in Workers,
         NEW stage \in {"download", "read", "claim", "start", "generate", "launch",
                        "sumo", "end", "upload", "reraise", "announce", "cleanup"},
         at' = [at EXCEPT ![w] = stage]
  PROVE  /\ at' \in [Workers -> {"download", "read", "claim", "start", "generate",
                         "launch", "sumo", "end", "upload", "reraise",
                         "announce", "cleanup"}]
         /\ at'[w] = stage
         /\ \A v \in Workers \ {w} : at'[v] = at[v]
BY DEF RestType

-----------------------------------------------------------------------------
(* The handler.                                                            *)

LEMMA Goes ==
  ASSUME Inv, NEW w \in Workers,
         NEW stage \in {"download", "read", "claim", "start", "generate", "launch",
                        "sumo", "end", "upload", "reraise", "announce", "cleanup"},
         Goto(w, stage)
  PROVE  /\ at'[w] = stage
         /\ UNCHANGED runtimeVars
         /\ tasks' = tasks
         /\ \A v \in Workers \ {w} : at'[v] = at[v] /\ tasks'[v] = tasks[v]
BY StageTypes DEF Goto, Inv, TypeOK, runtimeVars

LEMMA Leaves ==
  ASSUME Inv, NEW w \in Workers,
         Raise(w) \/ \E outcome \in {"ok", "error"} : Leave(w, outcome)
  PROVE  /\ at'[w] = "download"
         /\ mem' \in [Workers -> Known]
         /\ \A v \in Workers \ {w} :
              at'[v] = at[v] /\ tasks'[v] = tasks[v] /\ mem'[v] = mem[v]
         /\ StagedAt(w)'
         /\ \A r \in Runs : ~Launching(w, r)'
<1>1. PICK outcome \in {"ok", "error"} : Leave(w, outcome)
  BY DEF Raise
<1>2. tasks' = [tasks EXCEPT ![w] = Tail(@)]
  BY <1>1 DEF Leave, RT!HandlerEnds
<1>3. at' = [at EXCEPT ![w] = "download"] /\ mem' = [mem EXCEPT ![w] = NoRec]
  BY <1>1 DEF Leave
<1>4. /\ at'[w] = "download"
      /\ mem' \in [Workers -> Known]
      /\ \A v \in Workers \ {w} :
           at'[v] = at[v] /\ tasks'[v] = tasks[v] /\ mem'[v] = mem[v]
  BY <1>2, <1>3 DEF Inv, TypeOK, RT!TypeOK, Known
<1> QED
  BY <1>4 DEF StagedAt, Launching, Handling

LEMMA RaisedErrors ==
  ASSUME TypeOK, errors < MaxErrors, errors' = errors + 1
  PROVE  errors' \in 0 .. MaxErrors
BY LifecycleAssumption DEF TypeOK, LifecycleAssumption

LEMMA NoWrite ==
  ASSUME UNCHANGED db
  PROVE  RowsKeepStops
BY DEF RowsKeepStops

LEMMA WorkersAreProcesses == Workers \subseteq Processes /\ Api \in Processes
BY DEF Processes

LEMMA TypesNext ==
  ASSUME TypeOK, [Next]_vars, CopiesType', RestType'
  PROVE  TypeOK'
<1>1. RT!TypeOK'
  BY RuntimeTypeOK DEF TypeOK
<1> QED
  BY <1>1 DEF TypeOK, CopiesType, RestType, Known

\* What each stage has to leave behind.
Keeps(w) ==
  /\ CopiesType'
  /\ RestType'
  /\ MovesOnly(w)
  /\ StagedAt(w)'
  /\ \A r \in barred \ deleted : ~Launching(w, r)'

LEMMA InvParts ==
  ASSUME Inv, NEW w \in Workers, NEW r \in Runs
  PROVE  /\ CopiesType /\ RestType /\ TypeOK
         /\ w \in Processes
         /\ ReadRun(w, r) \in Known
         /\ at[w] \in {"claim", "start", "generate", "launch", "sumo", "end"} =>
              mem[w] \in Record
<1>1. CopiesType /\ RestType /\ TypeOK
  BY TypeParts DEF Inv
<1>2. w \in Processes
  BY DEF Processes
<1> QED
  BY <1>1, <1>2, ReadType DEF Inv, Staged, StagedAt

\* What a stage of w may do to the rest of the system.
Effects(w) ==
  /\ CopiesType'
  /\ RowsKeepStops
  /\ \A v \in Workers \ {w} : local'[v] = local[v]
  /\ archived' \subseteq Runs
  /\ outputs' \subseteq Processes \X Runs
  /\ finished' \subseteq Runs \X Terminal
  /\ errors' \in 0 .. MaxErrors
  /\ UNCHANGED apiVars

LEMMA GoKeeps ==
  ASSUME Inv, NEW w \in Workers, Effects(w), tasks[w] # <<>>,
         NEW stage \in {"download", "read", "claim", "start", "generate", "launch",
                        "sumo", "end", "upload", "reraise", "announce", "cleanup"},
         Goto(w, stage),
         mem' \in [Workers -> Known], \A v \in Workers \ {w} : mem'[v] = mem[v],
         stage \in {"claim", "start", "generate", "launch", "sumo", "end"} =>
           mem'[w] \in Record,
         stage = "start" => local'[w][Head(tasks[w])] \in Record,
         stage \in {"launch", "sumo"} => Head(tasks[w]) \notin barred \ deleted
  PROVE  Keeps(w)
<1>1. RestType
  BY TypeParts DEF Inv
<1>2. /\ at'[w] = stage /\ tasks' = tasks
      /\ \A v \in Workers \ {w} : at'[v] = at[v]
  BY Goes
<1>3. at' = [at EXCEPT ![w] = stage]
  BY DEF Goto
<1>4. RestType'
  BY <1>1, <1>3, StageTypes DEF RestType, Effects, apiVars
<1> QED
  BY <1>2, <1>4 DEF Keeps, Effects, MovesOnly, StagedAt, Launching, Handling, apiVars

LEMMA LeaveKeeps ==
  ASSUME Inv, NEW w \in Workers, Effects(w),
         Raise(w) \/ \E outcome \in {"ok", "error"} : Leave(w, outcome)
  PROVE  Keeps(w)
<1>1. RestType
  BY TypeParts DEF Inv
<1>2. at' = [at EXCEPT ![w] = "download"]
  BY DEF Raise, Leave
<1>3. RestType'
  BY <1>1, <1>2, StageTypes, Leaves DEF RestType, Effects, apiVars
<1> QED
  BY <1>1, <1>3, Leaves DEF Keeps, Effects, MovesOnly, apiVars, RestType

\* A raised error, or none.
LEMMA ErrorsType ==
  ASSUME TypeOK, NEW w \in Workers, Raise(w) \/ UNCHANGED errors
  PROVE  errors' \in 0 .. MaxErrors
<1>1. CASE UNCHANGED errors
  BY <1>1 DEF TypeOK
<1>2. CASE Raise(w)
  BY <1>2, RaisedErrors DEF Raise
<1> QED
  BY <1>1, <1>2

LEMMA DownloadKeeps ==
  ASSUME Inv, NEW w \in Workers, NEW r \in Runs, Download(w, r)
  PROVE  Keeps(w)
<1>1. CopiesType /\ RestType /\ TypeOK /\ w \in Processes
  BY InvParts
<1>2. RowsKeepStops
  BY NoWrite DEF Download
<1>3. errors' \in 0 .. MaxErrors
  BY <1>1, ErrorsType DEF Download
<1>4. /\ local' \in [Processes -> [Runs -> Known]]
      /\ \A v \in Workers \ {w} : local'[v] = local[v]
  BY <1>1, WorkersAreProcesses DEF CopiesType, Download
<1>5. outputs' \subseteq Processes \X Runs
  BY <1>1, WorkersAreProcesses DEF RestType, Download
<1>6. Effects(w)
  BY <1>1, <1>2, <1>3, <1>4, <1>5 DEF Effects, Download, CopiesType, RestType
<1>7. CASE Goto(w, "read") /\ UNCHANGED mem
  BY <1>1, <1>6, <1>7, GoKeeps DEF RestType, Download, Handling
<1>8. CASE Raise(w)
  BY <1>6, <1>8, LeaveKeeps
<1> QED
  BY <1>7, <1>8 DEF Download

LEMMA ClaimReadKeeps ==
  ASSUME Inv, NEW w \in Workers, NEW r \in Runs, ClaimRead(w, r)
  PROVE  Keeps(w)
<1> DEFINE rec == ReadRun(w, r)
<1>1. CopiesType /\ RestType /\ TypeOK /\ rec \in Known
  BY InvParts
<1>2. Effects(w)
  BY <1>1, NoWrite DEF Effects, ClaimRead, copies, CopiesType, RestType
<1>3. CASE rec = NoRec
  BY <1>2, <1>3, LeaveKeeps DEF ClaimRead
<1>4. CASE rec # NoRec
  <2>1. rec \in Record
    BY <1>1, <1>4, KnownRecord
  <2>2. mem' = [mem EXCEPT ![w] = rec]
    BY <1>4 DEF ClaimRead
  <2>3. /\ mem' \in [Workers -> Known] /\ mem'[w] \in Record
        /\ \A v \in Workers \ {w} : mem'[v] = mem[v]
    BY <1>1, <2>1, <2>2 DEF RestType
  <2>4. Goto(w, "announce") \/ Goto(w, "claim")
    BY <1>4 DEF ClaimRead
  <2>5. tasks[w] # <<>>
    BY DEF ClaimRead, Handling
  <2> QED
    BY <1>2, <2>3, <2>4, <2>5, GoKeeps
<1> QED
  BY <1>3, <1>4

LEMMA ClaimWriteKeeps ==
  ASSUME Inv, NEW w \in Workers, NEW r \in Runs, ClaimWrite(w, r)
  PROVE  Keeps(w)
<1>1. CopiesType /\ RestType /\ TypeOK /\ w \in Processes /\ mem[w] \in Record
  BY InvParts DEF ClaimWrite, Handling
<1>2. tasks[w] # <<>> /\ r = Head(tasks[w])
  BY DEF ClaimWrite, Handling
<1>3. errors' \in 0 .. MaxErrors
  BY <1>1, ErrorsType DEF ClaimWrite
<1>4. CASE WriteRecord(w, r, mem[w]) /\ Goto(w, "start") /\ UNCHANGED <<mem, errors>>
  <2>1. /\ CopiesType' /\ RowsKeepStops
        /\ local'[w][r] \in Record
        /\ \A q \in Processes \ {w} : local'[q] = local[q]
    BY <1>1, <1>4, WriteRecordType
  <2>2. Effects(w)
    BY <1>1, <1>3, <2>1, WorkersAreProcesses DEF Effects, ClaimWrite, RestType
  <2> QED
    BY <1>1, <1>2, <1>4, <2>1, <2>2, GoKeeps DEF RestType
<1>5. CASE WriteFileAndRow(w, r, mem[w]) /\ Raise(w) /\ UNCHANGED store
  <2>1. /\ CopiesType' /\ RowsKeepStops
        /\ \A q \in Processes \ {w} : local'[q] = local[q]
    BY <1>1, <1>5, WriteFileAndRowType DEF CopiesType
  <2>2. Effects(w)
    BY <1>1, <1>3, <2>1, WorkersAreProcesses DEF Effects, ClaimWrite, RestType
  <2> QED
    BY <1>5, <2>2, LeaveKeeps
<1> QED
  BY <1>4, <1>5 DEF ClaimWrite

\* A stage that goes on after a full write of the record it works on.
LEMMA WrittenEffects ==
  ASSUME Inv, NEW w \in Workers, NEW r \in Runs, NEW rec \in Record,
         WriteRecord(w, r, rec),
         UNCHANGED <<archived, outputs, finished, apiVars, errors>>
  PROVE  Effects(w)
<1>1. CopiesType /\ RestType /\ w \in Processes
  BY InvParts
<1>2. /\ CopiesType' /\ RowsKeepStops
      /\ \A q \in Processes \ {w} : local'[q] = local[q]
  BY <1>1, WriteRecordType
<1> QED
  BY <1>1, <1>2, WorkersAreProcesses DEF Effects, RestType

LEMMA NotBarred ==
  ASSUME Inv, NEW w \in Workers, NEW r \in Runs,
         ~StopRequested(r) \/ Launching(w, r)
  PROVE  r \notin barred \ deleted
BY RecordFields DEF Inv, Barred, StopRequested

LEMMA StartKeeps ==
  ASSUME Inv, NEW w \in Workers, NEW r \in Runs, Start(w, r)
  PROVE  Keeps(w)
<1> DEFINE rec == [local[w][r] EXCEPT !.status = "running"]
<1>1. tasks[w] # <<>> /\ r = Head(tasks[w]) /\ at[w] = "start"
  BY DEF Start, Handling
<1>2. local[w][r] \in Record
  BY <1>1 DEF Inv, Staged, StagedAt
<1>3. rec \in Record
  BY <1>2, RecordFields DEF Statuses
<1>4. mem' = [mem EXCEPT ![w] = rec] /\ WriteRecord(w, r, rec) /\ Goto(w, "generate")
  BY DEF Start
<1> HIDE DEF rec
<1>5. Effects(w)
  BY <1>3, <1>4, WrittenEffects DEF Start
<1>6. /\ mem' \in [Workers -> Known] /\ mem'[w] \in Record
      /\ \A v \in Workers \ {w} : mem'[v] = mem[v]
  BY <1>3, <1>4, InvParts DEF RestType, Known
<1> QED
  BY <1>1, <1>4, <1>5, <1>6, GoKeeps

\* The outcome of a run is written into the record at hand.
LEMMA EndAsType ==
  ASSUME Inv, NEW w \in Workers, mem[w] \in Record,
         NEW status \in Statuses, EndAs(w, status)
  PROVE  /\ mem' \in [Workers -> Known] /\ mem'[w] \in Record
         /\ \A v \in Workers \ {w} : mem'[v] = mem[v]
<1> DEFINE rec == [mem[w] EXCEPT !.status = status]
<1>1. rec \in Record
  BY RecordFields
<1>2. mem' = [mem EXCEPT ![w] = rec]
  BY DEF EndAs
<1> HIDE DEF rec
<1> QED
  BY <1>1, <1>2, TypeParts DEF Inv, RestType, Known

LEMMA GenerateKeeps ==
  ASSUME Inv, NEW w \in Workers, NEW r \in Runs, Generate(w, r)
  PROVE  Keeps(w)
<1>1. CopiesType /\ RestType /\ TypeOK /\ mem[w] \in Record
  BY InvParts DEF Generate, Handling
<1>2. tasks[w] # <<>> /\ r = Head(tasks[w])
  BY DEF Generate, Handling
<1>3. Effects(w)
  BY <1>1, NoWrite DEF Effects, Generate, copies, CopiesType, RestType
<1>4. CASE EndAs(w, "failed") /\ Goto(w, "end")
  BY <1>1, <1>2, <1>3, <1>4, EndAsType, GoKeeps DEF Statuses
<1>5. CASE ~StopRequested(r) /\ Goto(w, "launch") /\ UNCHANGED mem
  BY <1>1, <1>2, <1>3, <1>5, NotBarred, GoKeeps DEF RestType
<1> QED
  BY <1>4, <1>5 DEF Generate

LEMMA LaunchKeeps ==
  ASSUME Inv, NEW w \in Workers, NEW r \in Runs, Launch(w, r)
  PROVE  Keeps(w)
<1>1. RestType /\ mem[w] \in Record
  BY InvParts DEF Launch, Handling
<1>2. tasks[w] # <<>> /\ r = Head(tasks[w]) /\ Launching(w, r)
  BY DEF Launch, Handling, Launching
<1>3. Effects(w)
  BY <1>1, WrittenEffects DEF Launch
<1> QED
  BY <1>1, <1>2, <1>3, NotBarred, GoKeeps DEF Launch, RestType

LEMMA ProgressKeeps ==
  ASSUME Inv, NEW w \in Workers, NEW r \in Runs, Progress(w, r)
  PROVE  Keeps(w)
<1> DEFINE stop == mem[w].stop \/ StopRequested(r)
           rec == [mem[w] EXCEPT !.stop = stop]
<1>1. RestType /\ mem[w] \in Record
  BY InvParts DEF Progress, Handling
<1>2. tasks[w] # <<>> /\ r = Head(tasks[w]) /\ at[w] = "sumo" /\ Launching(w, r)
  BY DEF Progress, Handling, Launching
<1>3. rec \in Record
  <2>1. stop \in BOOLEAN
    OBVIOUS
  <2> HIDE DEF stop
  <2> QED
    BY <1>1, <2>1, RecordFields
<1>4. mem' = [mem EXCEPT ![w] = rec] /\ WriteRecord(w, r, rec)
  BY DEF Progress
<1> HIDE DEF rec
<1>5. Effects(w)
  BY <1>3, <1>4, WrittenEffects DEF Progress
<1>6. /\ mem' \in [Workers -> Known] /\ mem'[w] \in Record
      /\ \A v \in Workers \ {w} : mem'[v] = mem[v]
  BY <1>1, <1>3, <1>4 DEF RestType, Known
<1>7. UNCHANGED <<tasks, at, request, call, restarts, deleted, barred>>
  BY DEF Progress, runtimeVars, apiVars
<1>8. RestType'
  BY <1>1, <1>5, <1>6, <1>7 DEF RestType, Effects
<1> QED
  BY <1>2, <1>5, <1>6, <1>7, <1>8, NotBarred
     DEF Keeps, Effects, MovesOnly, StagedAt, Launching, Handling

LEMMA SumoExitsKeeps ==
  ASSUME Inv, NEW w \in Workers, NEW r \in Runs, SumoExits(w, r)
  PROVE  Keeps(w)
<1>1. CopiesType /\ RestType /\ TypeOK /\ w \in Processes /\ mem[w] \in Record
  BY InvParts DEF SumoExits, Handling
<1>2. tasks[w] # <<>>
  BY DEF SumoExits, Handling
<1>3. Effects(w)
  BY <1>1, NoWrite DEF Effects, SumoExits, CopiesType, RestType
<1>4. PICK status \in Statuses : EndAs(w, status)
  BY DEF SumoExits, Statuses
<1> QED
  BY <1>1, <1>2, <1>3, <1>4, EndAsType, GoKeeps DEF SumoExits

LEMMA EndKeeps ==
  ASSUME Inv, NEW w \in Workers, NEW r \in Runs, End(w, r)
  PROVE  Keeps(w)
<1>1. CopiesType /\ RestType /\ TypeOK /\ w \in Processes /\ mem[w] \in Record
  BY InvParts DEF End, Handling
<1>2. tasks[w] # <<>> /\ UNCHANGED mem
  BY DEF End, Handling
<1>3. CASE WriteRecord(w, r, mem[w]) /\ Goto(w, "upload") /\ UNCHANGED errors
  <2>1. Effects(w)
    BY <1>1, <1>3, WrittenEffects DEF End
  <2> QED
    BY <1>1, <1>2, <1>3, <2>1, GoKeeps DEF RestType
<1>4. CASE /\ errors < MaxErrors /\ errors' = errors + 1
           /\ WriteFileAndRow(w, r, mem[w])
           /\ Goto(w, "reraise")
           /\ UNCHANGED store
  <2>1. /\ CopiesType' /\ RowsKeepStops
        /\ \A q \in Processes \ {w} : local'[q] = local[q]
    BY <1>1, <1>4, WriteFileAndRowType DEF CopiesType
  <2>2. errors' \in 0 .. MaxErrors
    BY <1>1, <1>4, RaisedErrors
  <2>3. Effects(w)
    BY <1>1, <2>1, <2>2, WorkersAreProcesses DEF Effects, End, RestType
  <2> QED
    BY <1>1, <1>2, <1>4, <2>3, GoKeeps DEF RestType
<1> QED
  BY <1>3, <1>4 DEF End

LEMMA UploadKeeps ==
  ASSUME Inv, NEW w \in Workers, NEW r \in Runs, Upload(w, r)
  PROVE  Keeps(w)
<1>1. CopiesType /\ RestType /\ TypeOK /\ w \in Processes
  BY InvParts
<1>2. tasks[w] # <<>>
  BY DEF Upload, Handling
<1>3. CopiesType' /\ archived' \subseteq Runs
  BY <1>1 DEF Upload, UploadTree, CopiesType, RestType
<1>4. errors' \in 0 .. MaxErrors
  BY <1>1, ErrorsType DEF Upload
<1>5. Effects(w)
  BY <1>1, <1>3, <1>4, NoWrite DEF Effects, Upload, RestType
<1>6. CASE Goto(w, "announce") /\ UNCHANGED mem
  BY <1>1, <1>2, <1>5, <1>6, GoKeeps DEF RestType
<1>7. CASE Raise(w) \/ Leave(w, "error")
  BY <1>5, <1>7, LeaveKeeps
<1> QED
  BY <1>6, <1>7 DEF Upload

LEMMA AnnounceKeeps ==
  ASSUME Inv, NEW w \in Workers, NEW r \in Runs, Announce(w, r)
  PROVE  Keeps(w)
<1> DEFINE rec == ReadRun(w, r)
<1>1. CopiesType /\ RestType /\ TypeOK
  BY InvParts
<1>2. tasks[w] # <<>>
  BY DEF Announce, Handling
<1>3. finished' \subseteq Runs \X Terminal
  BY <1>1 DEF Announce, RestType, IsTerminal
<1>4. errors' \in 0 .. MaxErrors
  BY <1>1, ErrorsType DEF Announce
<1>5. Effects(w)
  BY <1>1, <1>3, <1>4, NoWrite DEF Effects, Announce, copies, RestType, CopiesType
<1>6. CASE Goto(w, "cleanup") /\ UNCHANGED mem
  BY <1>1, <1>2, <1>5, <1>6, GoKeeps DEF RestType
<1>7. CASE Raise(w) \/ Leave(w, "error")
  BY <1>5, <1>7, LeaveKeeps
<1> QED
  BY <1>6, <1>7 DEF Announce

LEMMA CleanupKeeps ==
  ASSUME Inv, NEW w \in Workers, NEW r \in Runs, Cleanup(w, r)
  PROVE  Keeps(w)
<1>1. CopiesType /\ RestType /\ TypeOK /\ w \in Processes
  BY InvParts
<1>2. /\ local' \in [Processes -> [Runs -> Known]]
      /\ \A v \in Workers \ {w} : local'[v] = local[v]
  BY <1>1, WorkersAreProcesses DEF CopiesType, Cleanup, Known
<1>3. Effects(w)
  BY <1>1, <1>2, NoWrite DEF Effects, Cleanup, RestType, CopiesType
<1> QED
  BY <1>3, LeaveKeeps DEF Cleanup

LEMMA HandlerKeeps ==
  ASSUME Inv, NEW w \in Workers, NEW r \in Runs, HandlerStep(w, r)
  PROVE  Keeps(w)
BY DownloadKeeps, ClaimReadKeeps, ClaimWriteKeeps, StartKeeps, GenerateKeeps,
   LaunchKeeps, SumoExitsKeeps, EndKeeps, UploadKeeps, AnnounceKeeps, CleanupKeeps
   DEF HandlerStep

-----------------------------------------------------------------------------
(* The runtime around the handler.                                         *)

LEMMA HeadStays ==
  ASSUME NEW S, NEW s \in Seq(S), s # <<>>, NEW e \in S
  PROVE  Append(s, e) # <<>> /\ Head(Append(s, e)) = Head(s)
OBVIOUS

\* A step of w that touches no record and gives its executor at most a new job.
LEMMA QuietKeeps ==
  ASSUME Inv, NEW w \in Workers,
         UNCHANGED <<copies, handlerVars, apiVars, errors>>,
         \/ tasks' = tasks
         \/ \E r \in Runs : tasks' = [tasks EXCEPT ![w] = Append(@, r)]
  PROVE  Keeps(w)
<1>1. CopiesType /\ RestType /\ TypeOK
  BY TypeParts DEF Inv
<1>2. CopiesType' /\ RestType' /\ RowsKeepStops
  BY <1>1, NoWrite DEF copies, handlerVars, apiVars, CopiesType, RestType
<1>3. tasks \in [Workers -> Seq(Runs)]
  BY <1>1 DEF TypeOK, RT!TypeOK
<1>4. /\ tasks'[w] = <<>> => tasks[w] = <<>>
      /\ tasks[w] # <<>> => tasks'[w] # <<>> /\ Head(tasks'[w]) = Head(tasks[w])
      /\ \A v \in Workers \ {w} : tasks'[v] = tasks[v]
  BY <1>3, HeadStays
<1>5. /\ at' = at /\ mem' = mem /\ local' = local
      /\ UNCHANGED <<call, deleted, barred>>
  BY DEF handlerVars, copies, apiVars
<1>6. MovesOnly(w)
  BY <1>2, <1>4, <1>5 DEF MovesOnly
<1>7. StagedAt(w)
  BY DEF Inv, Staged
<1>8. tasks[w] = <<>> => at[w] = "download"
  BY <1>7 DEF StagedAt
<1>9. StagedAt(w)'
  <2>1. tasks'[w] = <<>> => at'[w] = "download"
    BY <1>4, <1>5, <1>8
  <2>2. at'[w] = "start" => local'[w][Head(tasks'[w])] \in Record
    BY <1>4, <1>5, <1>7, <1>8 DEF StagedAt
  <2> QED
    BY <1>5, <1>7, <2>1, <2>2 DEF StagedAt
<1>10. \A r \in barred \ deleted : ~Launching(w, r)'
  BY <1>4, <1>5, <1>8 DEF Launching, Handling, Inv, Barred
<1> QED
  BY <1>2, <1>6, <1>9, <1>10 DEF Keeps

LEMMA RuntimeStepKeeps ==
  ASSUME Inv, NEW w \in Workers, RuntimeStep(w) \/ LoseConnection(w)
  PROVE  Keeps(w)
<1>1. \/ tasks' = tasks
      \/ \E r \in Runs : tasks' = [tasks EXCEPT ![w] = Append(@, r)]
  BY DEF RuntimeStep, LoseConnection, RT!Connect, RT!Get, RT!Ack, RT!Nack,
         RT!Settle, RT!Restart, RT!LoseConnection
<1>2. UNCHANGED <<copies, handlerVars, apiVars, errors>>
  BY DEF RuntimeStep, LoseConnection
<1> QED
  BY <1>1, <1>2, QuietKeeps

LEMMA TerminalFailureKeeps ==
  ASSUME Inv, NEW w \in Workers, TerminalFailure(w)
  PROVE  Keeps(w)
<1>1. CopiesType /\ RestType /\ TypeOK /\ w \in Processes
  BY TypeParts, WorkersAreProcesses DEF Inv
<1>2. held[w] \in Runs /\ tasks' = tasks
  BY <1>1 DEF TerminalFailure, RT!Reject, RT!Settle, TypeOK, RT!TypeOK
<1>3. /\ CopiesType' /\ RowsKeepStops /\ FilesStay(w)
      /\ \A q \in Processes \ {w} : local'[q] = local[q]
  BY <1>1, <1>2, MarkFailedType DEF TerminalFailure
<1>4. /\ UNCHANGED <<archived, outputs, at, mem, finished, request, call, restarts,
                     deleted, barred, errors>>
  BY DEF TerminalFailure, handlerVars, apiVars
<1>5. RestType'
  BY <1>1, <1>4 DEF RestType
<1>6. MovesOnly(w)
  BY <1>2, <1>3, <1>4, WorkersAreProcesses DEF MovesOnly
<1>7. StagedAt(w)'
  <2>1. StagedAt(w)
    BY DEF Inv, Staged
  <2>2. tasks[w] # <<>> => Head(tasks[w]) \in Runs
    BY <1>1 DEF TypeOK, RT!TypeOK
  <2>3. at[w] = "start" => tasks[w] # <<>>
    BY <2>1 DEF StagedAt
  <2> QED
    BY <1>2, <1>3, <1>4, <2>1, <2>2, <2>3 DEF StagedAt, FilesStay
<1>8. \A r \in barred \ deleted : ~Launching(w, r)'
  BY <1>2, <1>4 DEF Launching, Handling, Inv, Barred
<1> QED
  BY <1>3, <1>5, <1>6, <1>7, <1>8 DEF Keeps

LEMMA KillKeeps ==
  ASSUME Inv, NEW w \in Workers, Kill(w)
  PROVE  Keeps(w)
<1>1. CopiesType /\ RestType /\ TypeOK /\ w \in Processes
  BY TypeParts, WorkersAreProcesses DEF Inv
<1>2. /\ tasks' = [tasks EXCEPT ![w] = <<>>]
      /\ at' = [at EXCEPT ![w] = "download"]
      /\ mem' = [mem EXCEPT ![w] = NoRec]
  BY DEF Kill, RT!Kill
<1>3. /\ tasks'[w] = <<>> /\ at'[w] = "download"
      /\ mem' \in [Workers -> Known]
      /\ \A v \in Workers \ {w} :
           tasks'[v] = tasks[v] /\ at'[v] = at[v] /\ mem'[v] = mem[v]
  BY <1>1, <1>2 DEF TypeOK, RT!TypeOK, RestType, Known
<1>4. UNCHANGED <<db, store, archived, finished, errors>> /\ UNCHANGED apiVars
  BY DEF Kill
<1>5. /\ local' \in [Processes -> [Runs -> Known]]
      /\ \A v \in Workers \ {w} : local'[v] = local[v]
      /\ outputs' \subseteq outputs
  BY <1>1, WorkersAreProcesses DEF Kill, CopiesType, Known
<1>6. CopiesType' /\ RestType'
  BY <1>1, <1>2, <1>3, <1>4, <1>5, StageTypes DEF CopiesType, RestType, apiVars
<1> QED
  BY <1>3, <1>4, <1>5, <1>6, NoWrite
     DEF Keeps, MovesOnly, StagedAt, Launching, Handling, apiVars

-----------------------------------------------------------------------------
(* The API.                                                                *)

\* A step of the API leaves the handlers and the workers' files alone.
ApiOnly ==
  /\ UNCHANGED <<tasks, at, mem>>
  /\ \A v \in Workers : local'[v] = local[v]

\* What a call of the API has to leave behind.
Serves ==
  /\ CopiesType'
  /\ RestType'
  /\ ApiOnly
  /\ Calls'
  /\ Barred'

LEMMA ServesInv ==
  ASSUME Inv, TypeOK', Serves
  PROVE  Inv'
<1>1. Staged'
  BY DEF Inv, Staged, StagedAt, Serves, ApiOnly
<1> QED
  BY <1>1 DEF Inv, Serves

\* As long as nothing more is barred and no row of a barred run loses its stop.
LEMMA BarredStays ==
  ASSUME Inv, ApiOnly, RowsKeepStops, barred' \ deleted' \subseteq barred \ deleted
  PROVE  Barred'
BY DEF Inv, TypeOK, Barred, ApiOnly, RowsKeepStops, Launching, Handling

LEMMA ApiWrites ==
  ASSUME Inv, NEW r \in Runs, NEW rec \in Record, WriteRecord(Api, r, rec)
  PROVE  /\ CopiesType' /\ RowsKeepStops
         /\ db'[r] \in Record /\ (rec.stop => db'[r].stop)
         /\ \A v \in Workers : local'[v] = local[v]
<1>1. CopiesType /\ Api \in Processes /\ Workers \subseteq Processes \ {Api}
  BY TypeParts, LifecycleAssumption DEF Inv, Processes, LifecycleAssumption
<1> QED
  BY <1>1, WriteRecordType

LEMMA CreateServes ==
  ASSUME Inv, NEW r \in Runs, Create(r)
  PROVE  Serves
<1> DEFINE rec == [status |-> "queued", stop |-> FALSE]
<1>1. rec \in Record
  BY DEF Record, Statuses
<1>2. WriteRecord(Api, r, rec)
  BY DEF Create
<1> HIDE DEF rec
<1>3. /\ CopiesType' /\ RowsKeepStops
      /\ \A v \in Workers : local'[v] = local[v]
  BY <1>1, <1>2, ApiWrites
<1>4. /\ UNCHANGED <<tasks, at, mem, archived, outputs, finished, call, restarts, deleted,
                     barred, errors>>
      /\ request' = [request EXCEPT ![r] = "publish"]
  BY DEF Create, runtimeVars, handlerVars
<1>5. RestType'
  BY <1>4, TypeParts DEF Inv, RestType
<1>6. ApiOnly
  BY <1>3, <1>4 DEF ApiOnly
<1>7. Calls'
  BY <1>4 DEF Inv, Calls
<1>8. Barred'
  BY <1>3, <1>4, <1>6, BarredStays
<1> QED
  BY <1>3, <1>5, <1>6, <1>7, <1>8 DEF Serves

LEMMA PublishRunServes ==
  ASSUME Inv, NEW r \in Runs, PublishRun(r)
  PROVE  Serves
<1>1. tasks' = tasks
  BY DEF PublishRun, RT!Publish, RT!workerVars, runtimeVars
<1>2. /\ UNCHANGED <<db, store, archived, local, outputs, at, mem, finished, call,
                     restarts, deleted, barred>>
      /\ request' \in {[request EXCEPT ![r] = "none"], [request EXCEPT ![r] = "mark"]}
  BY DEF PublishRun, copies, handlerVars
<1>3. errors' \in 0 .. MaxErrors
  BY RaisedErrors DEF PublishRun, Inv, TypeOK
<1>4. CopiesType' /\ RestType'
  BY <1>2, <1>3, TypeParts DEF Inv, CopiesType, RestType
<1>5. ApiOnly
  BY <1>1, <1>2 DEF ApiOnly
<1>6. Calls'
  BY <1>2 DEF Inv, Calls
<1>7. Barred'
  BY <1>2, <1>5, BarredStays, NoWrite
<1> QED
  BY <1>4, <1>5, <1>6, <1>7 DEF Serves

LEMMA MarkQueueFailureServes ==
  ASSUME Inv, NEW r \in Runs, MarkQueueFailure(r)
  PROVE  Serves
<1>1. /\ CopiesType /\ TypeOK
      /\ Api \in Processes /\ Workers \subseteq Processes \ {Api}
  BY TypeParts, LifecycleAssumption DEF Inv, Processes, LifecycleAssumption
<1>2. /\ CopiesType' /\ RowsKeepStops
      /\ \A v \in Workers : local'[v] = local[v]
  BY <1>1, MarkFailedType DEF MarkQueueFailure
<1>3. /\ UNCHANGED <<tasks, at, mem, archived, outputs, finished, call, restarts, deleted,
                     barred, errors>>
      /\ request' = [request EXCEPT ![r] = "none"]
  BY DEF MarkQueueFailure, runtimeVars, handlerVars
<1>4. RestType'
  BY <1>3, TypeParts DEF Inv, RestType
<1>5. ApiOnly
  BY <1>2, <1>3 DEF ApiOnly
<1>6. Calls'
  BY <1>3 DEF Inv, Calls
<1>7. Barred'
  BY <1>2, <1>3, <1>5, BarredStays
<1> QED
  BY <1>2, <1>4, <1>5, <1>6, <1>7 DEF Serves

LEMMA StopReadServes ==
  ASSUME Inv, NEW r \in Runs, StopRead(r)
  PROVE  Serves
<1> DEFINE rec == ReadRun(Api, r)
<1>1. rec \in Record
  BY ReadType, KnownRecord, WorkersAreProcesses DEF StopRead, Inv
<1>2. call' = [op |-> "cancel", run |-> r, queued |-> rec.status = "queued", rec |-> rec]
  BY DEF StopRead
<1> HIDE DEF rec
<1>3. UNCHANGED <<tasks, at, mem, finished, db, store, archived, local, outputs, request,
                  restarts, deleted, barred, errors>>
  BY DEF StopRead, runtimeVars, copies, handlerVars
<1>4. CopiesType' /\ RestType'
  BY <1>1, <1>2, <1>3, TypeParts DEF Inv, CopiesType, RestType, Known
<1>5. ApiOnly
  BY <1>3 DEF ApiOnly
<1>6. Calls'
  BY <1>1, <1>2 DEF Calls
<1>7. Barred'
  BY <1>3, <1>5, BarredStays, NoWrite
<1> QED
  BY <1>4, <1>5, <1>6, <1>7 DEF Serves

\* The record of the cancellation, wherever it comes from.
LEMMA CancelledRecord ==
  ASSUME Inv, NEW r \in Runs, call.op = "cancel"
  PROVE  LET rec == IF db[r] # NoRec THEN [db[r] EXCEPT !.stop = TRUE]
                                     ELSE [call.rec EXCEPT !.stop = TRUE]
         IN  rec \in Record /\ rec.stop
<1>1. call.rec \in Record
  BY DEF Inv, Calls
<1>2. db[r] # NoRec => db[r] \in Record
  BY TypeParts, KnownRecord DEF Inv, CopiesType
<1> QED
  BY <1>1, <1>2, RecordFields

LEMMA StopCancelServes ==
  ASSUME Inv, NEW r \in Runs, StopCancel(r)
  PROVE  Serves
<1> DEFINE rec == IF db[r] # NoRec THEN [db[r] EXCEPT !.stop = TRUE]
                                   ELSE [call.rec EXCEPT !.stop = TRUE]
<1>1. rec \in Record /\ rec.stop
  BY CancelledRecord DEF StopCancel
<1>2. /\ call.op = "cancel" /\ call.run = r
      /\ call' = IF call.queued THEN [call EXCEPT !.op = "remove", !.rec = rec] ELSE Idle
      /\ barred' = IF CanLaunch(r) THEN barred ELSE barred \cup {r}
      /\ IF db[r] # NoRec
           THEN db' = [db EXCEPT ![r] = rec] /\ UNCHANGED <<local, store>>
           ELSE WriteRecord(Api, r, rec)
      /\ UNCHANGED <<tasks, at, mem, finished, archived, outputs, request, restarts,
                     deleted, errors>>
  BY DEF StopCancel, runtimeVars, handlerVars
<1> HIDE DEF rec
<1>3. CopiesType /\ RestType
  BY TypeParts DEF Inv
<1>4. /\ CopiesType' /\ RowsKeepStops
      /\ db'[r] \in Record /\ db'[r].stop
      /\ \A v \in Workers : local'[v] = local[v]
  <2>1. CASE db[r] # NoRec
    <3>1. db' = [db EXCEPT ![r] = rec] /\ UNCHANGED <<local, store>>
      BY <1>2, <2>1
    <3>2. db' \in [Runs -> Known] /\ db'[r] = rec
          /\ \A q \in Runs \ {r} : db'[q] = db[q]
      BY <1>1, <1>3, <3>1 DEF CopiesType, Known
    <3> QED
      BY <1>1, <1>3, <3>1, <3>2 DEF CopiesType, RowsKeepStops
  <2>2. CASE db[r] = NoRec
    BY <1>1, <1>2, <2>2, ApiWrites
  <2> QED
    BY <2>1, <2>2
<1>5. ApiOnly
  BY <1>2, <1>4 DEF ApiOnly
<1>6. RestType' /\ Calls'
  <2>1. CASE call.queued
    <3>1. call' = [call EXCEPT !.op = "remove", !.rec = rec]
      BY <1>2, <2>1
    <3>2. /\ call' \in [op : {"idle", "cancel", "remove", "purge", "drop"},
                        run : Runs \cup {None}, queued : BOOLEAN, rec : Known]
          /\ call'.op = "remove" /\ call'.run = r /\ call'.rec = rec
      BY <1>1, <1>2, <1>3, <3>1 DEF RestType, Known
    <3> QED
      BY <1>1, <1>2, <1>3, <3>2 DEF RestType, Calls
  <2>2. CASE ~call.queued
    <3>1. call' = Idle
      BY <1>2, <2>2
    <3>2. /\ call' \in [op : {"idle", "cancel", "remove", "purge", "drop"},
                        run : Runs \cup {None}, queued : BOOLEAN, rec : Known]
          /\ call'.op = "idle"
      BY <3>1 DEF Idle, Known
    <3> QED
      BY <1>2, <1>3, <3>2 DEF RestType, Calls
  <2> QED
    BY <2>1, <2>2
<1>7. Barred'
  <2> SUFFICES ASSUME NEW q \in barred' \ deleted'
               PROVE  /\ db'[q] \in Record
                      /\ db'[q].stop
                      /\ \A v \in Workers : ~Launching(v, q)'
    BY DEF Barred
  <2>1. CASE q \in barred
    <3>1. q \in barred \ deleted /\ q \in Runs
      BY <1>2, <1>3, <2>1 DEF RestType
    <3> QED
      BY <1>2, <1>4, <3>1 DEF Inv, Barred, RowsKeepStops, Launching, Handling
  <2>2. CASE q \notin barred
    <3>1. q = r /\ ~CanLaunch(r)
      BY <1>2, <2>2
    <3> QED
      BY <1>2, <1>4, <3>1 DEF CanLaunch, Launching, Handling
  <2> QED
    BY <2>1, <2>2
<1> QED
  BY <1>4, <1>5, <1>6, <1>7 DEF Serves

LEMMA StopRemoveServes ==
  ASSUME Inv, NEW r \in Runs, StopRemove(r)
  PROVE  Serves
<1> DEFINE rec == [call.rec EXCEPT !.status = "failed"]
<1>1. rec \in Record
  BY RecordFields DEF Inv, Calls, StopRemove, Statuses
<1>2. WriteRecord(Api, r, rec)
  BY DEF StopRemove
<1> HIDE DEF rec
<1>3. /\ CopiesType' /\ RowsKeepStops
      /\ \A v \in Workers : local'[v] = local[v]
  BY <1>1, <1>2, ApiWrites
<1>4. /\ UNCHANGED <<tasks, at, mem, archived, outputs, finished, request, restarts, deleted,
                     barred, errors>>
      /\ call' = Idle
  BY DEF StopRemove, runtimeVars, handlerVars
<1>5. RestType'
  BY <1>4, TypeParts DEF Inv, RestType, Idle, Known
<1>6. ApiOnly
  BY <1>3, <1>4 DEF ApiOnly
<1>7. Calls'
  BY <1>4 DEF Calls, Idle
<1>8. Barred'
  BY <1>3, <1>4, <1>6, BarredStays
<1> QED
  BY <1>3, <1>5, <1>6, <1>7, <1>8 DEF Serves

LEMMA DeleteReadServes ==
  ASSUME Inv, NEW r \in Runs, DeleteRead(r)
  PROVE  Serves
<1>1. /\ UNCHANGED <<tasks, at, mem, finished, db, store, archived, local, outputs, request,
                     restarts, deleted, barred, errors>>
      /\ call' = [op |-> "purge", run |-> r, queued |-> FALSE, rec |-> NoRec]
  BY DEF DeleteRead, runtimeVars, copies, handlerVars, Idle
<1>2. CopiesType' /\ RestType'
  BY <1>1, TypeParts DEF Inv, CopiesType, RestType, Known
<1>3. ApiOnly
  BY <1>1 DEF ApiOnly
<1>4. Calls'
  BY <1>1 DEF Calls
<1>5. Barred'
  BY <1>1, <1>3, BarredStays, NoWrite
<1> QED
  BY <1>2, <1>3, <1>4, <1>5 DEF Serves

LEMMA DeleteObjectsServes ==
  ASSUME Inv, NEW r \in Runs, DeleteObjects(r)
  PROVE  Serves
<1>1. /\ CopiesType /\ RestType
      /\ Api \in Processes /\ Workers \subseteq Processes \ {Api}
  BY TypeParts, LifecycleAssumption DEF Inv, Processes, LifecycleAssumption
<1>2. /\ UNCHANGED <<tasks, at, mem, finished, db, outputs, request, restarts, barred, errors>>
      /\ call.op = "purge" /\ call.run = r
      /\ store' = [store EXCEPT ![r] = NoRec]
      /\ archived' = archived \ {r}
      /\ local' = [local EXCEPT ![Api][r] = NoRec]
      /\ call' = [call EXCEPT !.op = "drop"]
      /\ deleted' = deleted \cup {r}
  BY DEF DeleteObjects, runtimeVars, handlerVars
<1>3. CopiesType' /\ \A v \in Workers : local'[v] = local[v]
  BY <1>1, <1>2 DEF CopiesType, Known
<1>4. /\ call' \in [op : {"idle", "cancel", "remove", "purge", "drop"},
                    run : Runs \cup {None}, queued : BOOLEAN, rec : Known]
      /\ call'.op = "drop" /\ call'.run = r
  BY <1>1, <1>2 DEF RestType
<1>5. RestType'
  BY <1>1, <1>2, <1>4 DEF RestType
<1>6. ApiOnly
  BY <1>2, <1>3 DEF ApiOnly
<1>7. Calls'
  BY <1>2, <1>4 DEF Calls
<1>8. Barred'
  BY <1>2, <1>6, BarredStays, NoWrite
<1> QED
  BY <1>3, <1>5, <1>6, <1>7, <1>8 DEF Serves

LEMMA DeleteRowServes ==
  ASSUME Inv, NEW r \in Runs, DeleteRow(r)
  PROVE  Serves
<1>1. CopiesType /\ RestType
  BY TypeParts DEF Inv
<1>2. /\ UNCHANGED <<tasks, at, mem, finished, store, archived, local, outputs, request,
                     restarts, deleted, barred, errors>>
      /\ call.op = "drop" /\ call.run = r
      /\ db' = [db EXCEPT ![r] = NoRec]
      /\ call' = Idle
  BY DEF DeleteRow, runtimeVars, handlerVars
<1>3. r \in deleted
  BY <1>2 DEF Inv, Calls
<1>4. CopiesType' /\ RestType' /\ Calls'
  BY <1>1, <1>2 DEF CopiesType, RestType, Calls, Idle, Known
<1>5. ApiOnly
  BY <1>2 DEF ApiOnly
<1>6. \A q \in Runs \ {r} : db'[q] = db[q]
  BY <1>1, <1>2 DEF CopiesType
<1>7. Barred'
  BY <1>1, <1>2, <1>3, <1>6 DEF Inv, Barred, RestType, Launching, Handling
<1> QED
  BY <1>4, <1>5, <1>7 DEF Serves

LEMMA ApiRestartServes ==
  ASSUME Inv, ApiRestart
  PROVE  Serves
<1>1. /\ CopiesType /\ RestType
      /\ Api \in Processes /\ Workers \subseteq Processes \ {Api}
  BY TypeParts, LifecycleAssumption DEF Inv, Processes, LifecycleAssumption
<1>2. /\ UNCHANGED <<tasks, at, mem, finished, store, archived, outputs, deleted, barred,
                     errors>>
      /\ request' = [r \in Runs |-> "none"]
      /\ call' = Idle
      /\ local' = [local EXCEPT ![Api] = [r \in Runs |->
                     IF store[r] = NoRec THEN local[Api][r] ELSE store[r]]]
      /\ db' = [r \in Runs |-> IF db[r] = NoRec THEN local'[Api][r] ELSE db[r]]
      /\ restarts < MaxRestarts /\ restarts' = restarts + 1
  BY DEF ApiRestart, runtimeVars, handlerVars
<1>3. /\ local' \in [Processes -> [Runs -> Known]]
      /\ \A v \in Workers : local'[v] = local[v]
  BY <1>1, <1>2 DEF CopiesType
<1>4. CopiesType'
  BY <1>1, <1>2, <1>3 DEF CopiesType
<1>5. RowsKeepStops
  BY <1>2, RecordAssumption DEF RowsKeepStops
<1>6. restarts' \in 0 .. MaxRestarts
  BY <1>1, <1>2, LifecycleAssumption DEF RestType, LifecycleAssumption
<1>7. RestType' /\ Calls'
  BY <1>1, <1>2, <1>6 DEF RestType, Calls, Idle, Known
<1>8. ApiOnly
  BY <1>2, <1>3 DEF ApiOnly
<1>9. Barred'
  BY <1>2, <1>5, <1>8, BarredStays
<1> QED
  BY <1>4, <1>7, <1>8, <1>9 DEF Serves

-----------------------------------------------------------------------------
(* The theorems.                                                           *)

LEMMA InitInv == Init => Inv
<1> SUFFICES ASSUME Init PROVE Inv
  OBVIOUS
<1>1. RT!TypeOK
  <2>1. RP!TypeOK
    BY PremiseHolds, RP!InitTypeOK DEF Init, RT!Init, RP!Init
  <2> QED
    BY <2>1, SameTypeOK
<1>2. TypeOK
  BY <1>1, LifecycleAssumption DEF TypeOK, Init, LifecycleAssumption, Processes, Idle
<1>3. Staged /\ Calls /\ Barred
  BY DEF Init, RT!Init, Staged, StagedAt, Calls, Barred, Idle
<1> QED
  BY <1>2, <1>3 DEF Inv

LEMMA NextInv == Inv /\ [Next]_vars => Inv'
<1> SUFFICES ASSUME Inv, [Next]_vars PROVE Inv'
  OBVIOUS
<1>1. ASSUME NEW w \in Workers, Keeps(w) PROVE Inv'
  <2>1. TypeOK'
    BY <1>1, TypesNext DEF Keeps, Inv
  <2> QED
    BY <1>1, <2>1, MoveInv DEF Keeps
<1>2. ASSUME Serves PROVE Inv'
  <2>1. TypeOK'
    BY <1>2, TypesNext DEF Serves, Inv
  <2> QED
    BY <1>2, <2>1, ServesInv
<1>3. ASSUME NEW w \in Workers, WorkerStep(w) \/ LoseConnection(w) \/ Kill(w)
      PROVE  Inv'
  BY <1>1, <1>3, HandlerKeeps, RuntimeStepKeeps, TerminalFailureKeeps, KillKeeps
     DEF WorkerStep
<1>4. ASSUME NEW w \in Workers, NEW r \in Runs, Progress(w, r)
      PROVE  Inv'
  BY <1>1, <1>4, ProgressKeeps
<1>5. ASSUME NEW r \in Runs, ApiStep(r) \/ UserCall(r)
      PROVE  Inv'
  BY <1>2, <1>5, CreateServes, PublishRunServes, MarkQueueFailureServes,
     StopReadServes, StopCancelServes, StopRemoveServes, DeleteReadServes,
     DeleteObjectsServes, DeleteRowServes
     DEF ApiStep, UserCall
<1>6. CASE ApiRestart
  BY <1>2, <1>6, ApiRestartServes
<1>7. CASE UNCHANGED vars
  BY <1>7 DEF vars, runtimeVars, copies, handlerVars, apiVars, Inv, TypeOK, RT!TypeOK,
     Staged, StagedAt, Calls, Barred, Launching, Handling
<1> QED
  BY <1>3, <1>4, <1>5, <1>6, <1>7 DEF Next

\* The invariant: records, stages and calls fit together in every state, whatever
\* workers, API and faults do.
THEOREM InvHolds == Spec => []Inv
BY InitInv, NextInv, PTL DEF Spec

\* Every variable keeps its type, those of the runtime included.
THEOREM TypeCorrect == Spec => []TypeOK
BY InvHolds, PTL DEF Inv

\* A stop request is final: if it was recorded before any worker had passed its
\* last check, no worker ever starts SUMO for the run, however many workers
\* overwrite its row with copies they read earlier, and whoever crashes.
THEOREM CancelledNeverStartsHolds == Spec => []CancelledNeverStarts
<1>1. Inv => CancelledNeverStarts
  BY DEF Inv, Barred, CancelledNeverStarts, Launching
<1> QED
  BY <1>1, InvHolds, PTL

-----------------------------------------------------------------------------
(***************************************************************************)
(* The end of a run: no run is abandoned, what was announced stays true,   *)
(* and a settled run has its outputs in MinIO.                             *)
(*                                                                         *)
(* Each step is summed up by what it does to one run: to its row, to its   *)
(* delivery, to the executors and to what is kept of it.  The invariant is *)
(* preserved by these summaries, whatever action they sum up.              *)
(***************************************************************************)

-----------------------------------------------------------------------------
(* The invariant.                                                          *)

Works(w, r) == tasks[w] # <<>> /\ Head(tasks[w]) = r

Done(r) == IsTerminal(db[r])

Announced(r) == \E s \in Terminal : <<r, s>> \in finished

\* A handler claims a run that has not ended and works on it as a running one;
\* the outputs of a completed one are in its workspace.
StageRecord(w) ==
  /\ at[w] = "claim" => mem[w].status \notin Terminal
  /\ at[w] \in {"generate", "launch", "sumo"} => mem[w].status = "running"
  /\ at[w] = "end" =>
       /\ mem[w].status \in Terminal
       /\ mem[w].status = "completed" => <<w, Head(tasks[w])>> \in outputs

\* No part of the system has heard of the run: nothing would put it in a row.
Unheard(r) ==
  /\ broker[r] = "unsent" /\ request[r] = "none"
  /\ store[r] = NoRec
  /\ \A p \in Processes : local[p][r] = NoRec
  /\ ~Announced(r)
  /\ call.op # "idle" => call.run # r

\* The row comes first.
RowFirst(r) == db[r] = NoRec => Unheard(r)

\* A delivery is acknowledged after its run was announced.
Told(r) ==
  /\ broker[r] = "acked" => Announced(r)
  /\ \A w \in Workers : held[w] = r /\ result[w] = "ok" => Announced(r)
  /\ \A w \in Workers : Handling(w, r, "cleanup") => Announced(r)

\* Stages at which a handler writes no record.
Reading == {"download", "read", "announce", "cleanup"}

\* As long as no connection is lost, an announced or buried run has ended and
\* nobody is about to write its row again.
Final(r) ==
  /\ Announced(r) => Done(r) /\ \A w \in Workers : Works(w, r) => at[w] \in Reading
  /\ broker[r] = "dead" => Done(r)

\* A handler of the run waits its turn or has yet to write the final record.
WillEnd(r) ==
  \E w \in Workers : \E i \in DOMAIN tasks[w] :
    /\ tasks[w][i] = r
    /\ i = 1 => at[w] \notin {"upload", "reraise", "announce", "cleanup"}

\* As long as no handler is cut short, somebody will end an active run.
Attended(r) ==
  db[r] # NoRec /\ ~Done(r) => broker[r] \in {"unsent", "ready"} \/ WillEnd(r)

Uploading(w, r) == Handling(w, r, "upload") /\ <<w, r>> \in outputs

\* ... and the outputs of a completed one are in MinIO or about to be.
Saved(r) ==
  db[r] # NoRec /\ db[r].status = "completed" =>
    r \in archived \/ \E w \in Workers : Uploading(w, r)

RunComplete(r) ==
  /\ RowFirst(r)
  /\ Told(r)
  /\ faults.loss = 0 => Final(r)
  /\ HandlersEnd => Attended(r) /\ Saved(r)

StageRecords == \A w \in Workers : StageRecord(w)

Complete == StageRecords /\ \A r \in Runs \ deleted : RunComplete(r)

-----------------------------------------------------------------------------
(* What is known already.                                                  *)

Base == Inv /\ RP!RefInv /\ RP!OwnInv

LEMMA InitBase == Init => Base
<1>1. Init => RP!Init
  BY DEF Init, RT!Init, RP!Init
<1>2. RP!Init => RP!RefInv /\ RP!OwnInv
  BY PremiseHolds, RP!InitRefInv, RP!InitOwnInv
<1> QED
  BY <1>1, <1>2, InitInv DEF Base

LEMMA NextBase == Base /\ [Next]_vars => Base'
<1> SUFFICES ASSUME Base, [Next]_vars PROVE Base'
  OBVIOUS
<1>1. [RP!Next]_(RP!runtimeVars)
  BY NextRuntime, SameNext
<1>2. RP!RefInv' /\ RP!OwnInv'
  BY <1>1, PremiseHolds, RP!NextRefInv, RP!NextOwnInv DEF Base
<1> QED
  BY <1>2, NextInv DEF Base

LEMMA BaseFacts ==
  ASSUME Base
  PROVE  /\ CopiesType /\ RestType /\ TypeOK
         /\ tasks \in [Workers -> Seq(Runs)]
         /\ broker \in [Runs -> {"unsent", "ready", "unacked", "acked", "dead"}]
         /\ held \in [Workers -> Runs \cup {None}]
         /\ result \in [Workers -> {"pending", "ok", "error"}]
         /\ \A w \in Workers : held[w] # None => broker[held[w]] = "unacked"
         /\ \A v, w \in Workers : held[v] # None /\ held[v] = held[w] => v = w
         /\ \A w \in Workers : \A i \in DOMAIN tasks[w] :
              tasks[w][i] \in Runs /\ broker[tasks[w][i]] # "unsent"
         /\ \A w \in Workers : held[w] # None /\ result[w] = "pending" =>
              tasks[w] # <<>> /\ tasks[w][Len(tasks[w])] = held[w]
         /\ faults.loss = 0 =>
              \A w \in Workers : tasks[w] # <<>> => tasks[w] = <<held[w]>>
<1>1. CopiesType /\ RestType /\ TypeOK
  BY TypeParts DEF Base, Inv
<1>2. RP!DeliveriesAgree /\ RP!JobsSound /\ RP!TypeOK /\ RP!OwnedUnlessLinkLost
  BY DEF Base, RP!RefInv, RP!AgreeInv, RP!OwnInv
<1>3. \A w \in Workers : \A i \in DOMAIN tasks[w] : tasks[w][i] \in Runs
  BY <1>2, PremiseHolds, RP!JobsAreMessages
<1>4. /\ tasks \in [Workers -> Seq(Runs)]
      /\ broker \in [Runs -> {"unsent", "ready", "unacked", "acked", "dead"}]
      /\ held \in [Workers -> Runs \cup {None}]
      /\ result \in [Workers -> {"pending", "ok", "error"}]
  BY <1>2 DEF RP!TypeOK
<1>5. /\ \A w \in Workers : held[w] # None => broker[held[w]] = "unacked"
      /\ \A v, w \in Workers : held[v] # None /\ held[v] = held[w] => v = w
  BY <1>2 DEF RP!DeliveriesAgree
<1>6. \A w \in Workers : \A i \in DOMAIN tasks[w] : broker[tasks[w][i]] # "unsent"
  BY <1>2 DEF RP!JobsSound, RP!JobsKnown
<1>7. \A w \in Workers : held[w] # None /\ result[w] = "pending" =>
        tasks[w] # <<>> /\ tasks[w][Len(tasks[w])] = held[w]
  BY <1>2 DEF RP!JobsSound, RP!HeldKnown
<1>8. faults.loss = 0 => \A w \in Workers : tasks[w] # <<>> => tasks[w] = <<held[w]>>
  BY <1>2 DEF RP!OwnedUnlessLinkLost, RP!OwnedWhileRunning
<1> QED
  BY <1>1, <1>3, <1>4, <1>5, <1>6, <1>7, <1>8

\* The run a handler works on was published.
LEMMA HeadKnown ==
  ASSUME Base, NEW w \in Workers, NEW r, Works(w, r)
  PROVE  /\ r \in Runs /\ broker[r] # "unsent"
         /\ 1 \in DOMAIN tasks[w] /\ tasks[w][1] = r
<1>1. tasks[w] \in Seq(Runs) /\ tasks[w] # <<>> /\ Head(tasks[w]) = r
  BY BaseFacts DEF Works
<1>2. 1 \in DOMAIN tasks[w] /\ tasks[w][1] = r
  BY <1>1
<1> QED
  BY <1>2, BaseFacts

\* Without lost connections a run has one handler, in the worker that holds it.
LEMMA OneHandler ==
  ASSUME Base, faults.loss = 0, NEW r \in Runs, NEW w \in Workers, Works(w, r)
  PROVE  /\ held[w] = r /\ broker[r] = "unacked"
         /\ \A v \in Workers : Works(v, r) => v = w
<1>1. \A v \in Workers : Works(v, r) => held[v] = r
  <2> SUFFICES ASSUME NEW v \in Workers, Works(v, r) PROVE held[v] = r
    OBVIOUS
  <2>1. tasks[v] = <<held[v]>>
    BY BaseFacts DEF Works
  <2> QED
    BY <2>1 DEF Works
<1>2. r # None
  BY LifecycleAssumption DEF LifecycleAssumption
<1> QED
  BY <1>1, <1>2, BaseFacts

-----------------------------------------------------------------------------
(* What a step does to the row of a run.                                   *)

LEMMA WriteStatus ==
  ASSUME CopiesType, NEW p \in Processes, NEW r \in Runs, NEW rec \in Record,
         WriteFileAndRow(p, r, rec)
  PROVE  /\ db'[r] # NoRec /\ db'[r].status = rec.status
         /\ \A q \in Runs \ {r} :
              db'[q] = db[q] /\ \A x \in Processes : local'[x][q] = local[x][q]
<1>1. db'[r] \in Record
  BY WriteFileAndRowType
<1>2. db' = [db EXCEPT ![r] = Upserted(r, rec)] /\ local' = [local EXCEPT ![p][r] = rec]
  BY DEF WriteFileAndRow
<1>3. Upserted(r, rec).status = rec.status
  BY DEF Upserted, Record
<1> QED
  BY <1>1, <1>2, <1>3, RecordFields DEF CopiesType

LEMMA MarkStatus ==
  ASSUME CopiesType, TypeOK, NEW p \in Processes, NEW r \in Runs, MarkFailed(p, r)
  PROVE  /\ \/ UNCHANGED <<db, local, store>>
               /\ (ReadRun(p, r) = NoRec \/ IsTerminal(ReadRun(p, r)))
            \/ db'[r] # NoRec /\ db'[r].status = "failed"
         /\ \A q \in Runs \ {r} :
              /\ db'[q] = db[q] /\ store'[q] = store[q]
              /\ \A x \in Processes : local'[x][q] = local[x][q]
<1> DEFINE rec == ReadRun(p, r)
<1>1. CASE rec = NoRec \/ IsTerminal(rec)
  BY <1>1 DEF MarkFailed
<1>2. CASE ~(rec = NoRec \/ IsTerminal(rec))
  <2> DEFINE new == [rec EXCEPT !.status = "failed"]
  <2>1. rec \in Record
    BY <1>2, ReadType, KnownRecord
  <2>2. new \in Record /\ new.status = "failed"
    BY <2>1, RecordFields DEF Statuses, Record
  <2>3. WriteRecord(p, r, new)
    BY <1>2 DEF MarkFailed
  <2> HIDE DEF new
  <2>4. \A q \in Runs \ {r} : store'[q] = store[q]
    BY <2>3 DEF WriteRecord, CopiesType
  <2> QED
    BY <2>2, <2>3, <2>4, WriteStatus DEF WriteRecord
<1> QED
  BY <1>1, <1>2

\* A row is left alone, keeps its status, fails or is created; only a handler
\* makes it active again, to go on with the run, and only a handler that has the
\* outputs completes it.
RowStep(r) ==
  \/ db'[r] = db[r]
  \/ db[r] # NoRec /\ db'[r] # NoRec /\ db'[r].status = db[r].status
  \/ db'[r] # NoRec /\ db'[r].status = "failed"
  \/ db[r] = NoRec /\ db'[r] # NoRec /\ db'[r].status = "queued" /\ broker'[r] = "unsent"
  \/ /\ db'[r] # NoRec /\ db'[r].status \notin Terminal
     /\ \E w \in Workers :
          /\ Works(w, r) /\ at[w] \notin Reading
          /\ errors' # 0 \/ (tasks' = tasks /\ at'[w] \in {"start", "generate", "sumo"})
  \/ /\ db'[r] # NoRec /\ db'[r].status = "completed"
     /\ \E w \in Workers :
          /\ Works(w, r) /\ at[w] \notin Reading
          /\ errors' # 0 \/ Uploading(w, r)'

\* The record a handler has at hand is written to the row of its run only.
LEMMA HandlerWrites ==
  ASSUME Base, NEW w \in Workers, NEW r \in Runs, NEW rec \in Record,
         WriteFileAndRow(w, r, rec)
  PROVE  /\ db'[r] # NoRec /\ db'[r].status = rec.status
         /\ \A q \in Runs \ {r} : db'[q] = db[q]
BY WriteStatus, BaseFacts, WorkersAreProcesses

LEMMA RaisedOnce ==
  ASSUME TypeOK, NEW w \in Workers, Raise(w)
  PROVE  errors' # 0
BY LifecycleAssumption DEF Raise, TypeOK, LifecycleAssumption

LEMMA HandlerRow ==
  ASSUME Base, StageRecords, NEW w \in Workers, NEW r \in Runs,
         HandlerStep(w, r) \/ Progress(w, r), NEW q \in Runs
  PROVE  RowStep(q)
<1>0. TypeOK /\ CopiesType
  BY BaseFacts
<1>1. CASE \/ Download(w, r) \/ ClaimRead(w, r) \/ Generate(w, r) \/ SumoExits(w, r)
           \/ Upload(w, r) \/ Announce(w, r) \/ Cleanup(w, r)
  BY <1>1 DEF RowStep, Download, ClaimRead, Generate, SumoExits, Upload, Announce,
              Cleanup, copies
<1>2. CASE ClaimWrite(w, r)
  <2>1. Works(w, r) /\ at[w] = "claim"
    BY <1>2 DEF ClaimWrite, Handling, Works
  <2>2. mem[w] \in Record /\ mem[w].status \notin Terminal
    BY <2>1, InvParts DEF StageRecords, StageRecord, Base
  <2>3. WriteFileAndRow(w, r, mem[w])
    BY <1>2 DEF ClaimWrite, WriteRecord
  <2>4. /\ db'[r] # NoRec /\ db'[r].status = mem[w].status
        /\ \A x \in Runs \ {r} : db'[x] = db[x]
    BY <2>2, <2>3, HandlerWrites
  <2>5. errors' # 0 \/ (tasks' = tasks /\ at'[w] = "start")
    BY <1>0, <1>2, RaisedOnce, Goes DEF ClaimWrite, Base
  <2> QED
    BY <2>1, <2>2, <2>4, <2>5 DEF RowStep, Reading
<1>3. CASE Start(w, r)
  <2> DEFINE rec == [local[w][r] EXCEPT !.status = "running"]
  <2>1. Works(w, r) /\ at[w] = "start"
    BY <1>3 DEF Start, Handling, Works
  <2>2. local[w][r] \in Record
    BY <2>1 DEF Base, Inv, Staged, StagedAt, Works
  <2>3. rec \in Record /\ rec.status = "running"
    BY <2>2, RecordFields DEF Statuses, Record
  <2>4. WriteFileAndRow(w, r, rec)
    BY <1>3 DEF Start, WriteRecord
  <2> HIDE DEF rec
  <2>5. /\ db'[r] # NoRec /\ db'[r].status = "running"
        /\ \A x \in Runs \ {r} : db'[x] = db[x]
    BY <2>3, <2>4, HandlerWrites
  <2>6. tasks' = tasks /\ at'[w] = "generate"
    BY <1>3, Goes DEF Start, Base
  <2> QED
    BY <2>1, <2>5, <2>6 DEF RowStep, Reading, Terminal
<1>4. CASE Launch(w, r)
  <2>1. Works(w, r) /\ at[w] = "launch"
    BY <1>4 DEF Launch, Handling, Works
  <2>2. mem[w] \in Record /\ mem[w].status = "running"
    BY <2>1, InvParts DEF StageRecords, StageRecord, Base
  <2>3. WriteFileAndRow(w, r, mem[w])
    BY <1>4 DEF Launch, WriteRecord
  <2>4. /\ db'[r] # NoRec /\ db'[r].status = "running"
        /\ \A x \in Runs \ {r} : db'[x] = db[x]
    BY <2>2, <2>3, HandlerWrites
  <2>5. tasks' = tasks /\ at'[w] = "sumo"
    BY <1>4, Goes DEF Launch, Base
  <2> QED
    BY <2>1, <2>4, <2>5 DEF RowStep, Reading, Terminal
<1>5. CASE Progress(w, r)
  <2> DEFINE stop == mem[w].stop \/ StopRequested(r)
             rec == [mem[w] EXCEPT !.stop = stop]
  <2>1. Works(w, r) /\ at[w] = "sumo"
    BY <1>5 DEF Progress, Handling, Works
  <2>2. mem[w] \in Record /\ mem[w].status = "running"
    BY <2>1, InvParts DEF StageRecords, StageRecord, Base
  <2>3. stop \in BOOLEAN
    OBVIOUS
  <2>4. WriteFileAndRow(w, r, rec)
    BY <1>5 DEF Progress, WriteRecord
  <2>5. rec \in Record /\ rec.status = "running"
    <3> HIDE DEF stop
    <3> QED
      BY <2>2, <2>3, RecordFields DEF Record
  <2> HIDE DEF rec
  <2>6. /\ db'[r] # NoRec /\ db'[r].status = "running"
        /\ \A x \in Runs \ {r} : db'[x] = db[x]
    BY <2>4, <2>5, HandlerWrites
  <2>7. tasks' = tasks /\ at'[w] = "sumo"
    BY <1>5, <2>1 DEF Progress, runtimeVars
  <2> QED
    BY <2>1, <2>6, <2>7 DEF RowStep, Reading, Terminal
<1>6. CASE End(w, r)
  <2>1. Works(w, r) /\ at[w] = "end"
    BY <1>6 DEF End, Handling, Works
  <2>2. mem[w] \in Record
    BY <2>1, InvParts DEF Base
  <2>3. /\ mem[w].status \in {"completed", "failed"}
        /\ mem[w].status = "completed" => <<w, r>> \in outputs
    BY <2>1 DEF StageRecords, StageRecord, Terminal, Works
  <2>4. WriteFileAndRow(w, r, mem[w]) /\ UNCHANGED outputs
    BY <1>6 DEF End, WriteRecord
  <2>5. /\ db'[r] # NoRec /\ db'[r].status = mem[w].status
        /\ \A x \in Runs \ {r} : db'[x] = db[x]
    BY <2>2, <2>4, HandlerWrites
  <2>6. errors' # 0 \/ (tasks' = tasks /\ at'[w] = "upload")
    <3>1. (errors < MaxErrors /\ errors' = errors + 1) \/ Goto(w, "upload")
      BY <1>6 DEF End
    <3> QED
      BY <1>0, <3>1, Goes, LifecycleAssumption DEF TypeOK, Base, LifecycleAssumption
  <2> QED
    BY <2>1, <2>3, <2>4, <2>5, <2>6 DEF RowStep, Reading, Uploading, Works, Handling
<1> QED
  BY <1>1, <1>2, <1>3, <1>4, <1>5, <1>6 DEF HandlerStep

LEMMA ApiRow ==
  ASSUME Base, NEW r \in Runs, ApiStep(r) \/ UserCall(r),
         NEW q \in Runs \ deleted', RowFirst(q)
  PROVE  RowStep(q)
<1>0. CopiesType /\ TypeOK /\ Api \in Processes
  BY BaseFacts, WorkersAreProcesses
<1>1. CASE PublishRun(r) \/ StopRead(r) \/ DeleteRead(r) \/ DeleteObjects(r)
  BY <1>1 DEF RowStep, PublishRun, StopRead, DeleteRead, DeleteObjects, copies
<1>2. CASE MarkQueueFailure(r)
  BY <1>0, <1>2, MarkStatus DEF MarkQueueFailure, RowStep
<1>3. CASE Create(r)
  <2> DEFINE rec == [status |-> "queued", stop |-> FALSE]
  <2>1. rec \in Record /\ rec.status = "queued"
    BY DEF Record, Statuses
  <2>2. WriteFileAndRow(Api, r, rec)
    BY <1>3 DEF Create, WriteRecord
  <2> HIDE DEF rec
  <2>3. /\ db'[r] # NoRec /\ db'[r].status = "queued"
        /\ \A x \in Runs \ {r} : db'[x] = db[x]
    BY <1>0, <2>1, <2>2, WriteStatus
  <2>4. db[r] = NoRec /\ broker'[r] = "unsent"
    BY <1>0, <1>3, ReadType DEF Create, runtimeVars
  <2> QED
    BY <2>3, <2>4 DEF RowStep
<1>4. CASE StopCancel(r)
  <2>1. q = r => db[q] # NoRec
    BY <1>4 DEF StopCancel, RowFirst, Unheard
  <2>2. CASE q = r
    <3>1. db[r] \in Record /\ db' = [db EXCEPT ![r] = [db[r] EXCEPT !.stop = TRUE]]
      BY <1>0, <1>4, <2>1, <2>2, KnownRecord DEF StopCancel, CopiesType
    <3>2. db'[r] = [db[r] EXCEPT !.stop = TRUE]
      BY <1>0, <3>1 DEF CopiesType
    <3>3. db'[r] \in Record
      <4>1. \A b \in BOOLEAN : [db[r] EXCEPT !.stop = b] \in Record
        BY <3>1, RecordFields
      <4> QED
        BY <3>2, <4>1
    <3>4. db'[r].status = db[r].status
      BY <3>1, <3>2 DEF Record
    <3> QED
      BY <2>1, <2>2, <3>3, <3>4, RecordFields DEF RowStep
  <2>3. CASE q # r
    <3>1. CASE db[r] # NoRec
      BY <1>0, <1>4, <2>3, <3>1 DEF StopCancel, CopiesType, RowStep
    <3>2. CASE db[r] = NoRec
      <4> DEFINE rec == [call.rec EXCEPT !.stop = TRUE]
      <4>1. rec \in Record
        BY <1>4, RecordFields DEF StopCancel, Base, Inv, Calls
      <4>2. WriteFileAndRow(Api, r, rec)
        BY <1>4, <3>2 DEF StopCancel, WriteRecord
      <4> HIDE DEF rec
      <4> QED
        BY <1>0, <2>3, <4>1, <4>2, WriteStatus DEF RowStep
    <3> QED
      BY <3>1, <3>2
  <2> QED
    BY <2>2, <2>3
<1>5. CASE StopRemove(r)
  <2> DEFINE rec == [call.rec EXCEPT !.status = "failed"]
  <2>1. rec \in Record /\ rec.status = "failed"
    BY <1>5, RecordFields DEF StopRemove, Base, Inv, Calls, Statuses, Record
  <2>2. WriteFileAndRow(Api, r, rec)
    BY <1>5 DEF StopRemove, WriteRecord
  <2> HIDE DEF rec
  <2> QED
    BY <1>0, <2>1, <2>2, WriteStatus DEF RowStep
<1>6. CASE DeleteRow(r)
  <2>1. r \in deleted /\ deleted' = deleted
    BY <1>6 DEF DeleteRow, Base, Inv, Calls
  <2> QED
    BY <1>0, <1>6, <2>1 DEF DeleteRow, CopiesType, RowStep
<1> QED
  BY <1>1, <1>2, <1>3, <1>4, <1>5, <1>6 DEF ApiStep, UserCall

LEMMA RestartRow ==
  ASSUME Base, ApiRestart, NEW q \in Runs, RowFirst(q)
  PROVE  db'[q] = db[q] /\ (db[q] = NoRec => local'[Api][q] = NoRec)
<1>1. CopiesType /\ Api \in Processes
  BY BaseFacts, WorkersAreProcesses
<1>2. /\ local' = [local EXCEPT ![Api] = [r \in Runs |->
                     IF store[r] = NoRec THEN local[Api][r] ELSE store[r]]]
      /\ db' = [r \in Runs |-> IF db[r] = NoRec THEN local'[Api][r] ELSE db[r]]
  BY DEF ApiRestart
<1>3. local'[Api][q] = IF store[q] = NoRec THEN local[Api][q] ELSE store[q]
  BY <1>1, <1>2 DEF CopiesType
<1>4. db[q] = NoRec => local'[Api][q] = NoRec
  BY <1>1, <1>3 DEF RowFirst, Unheard
<1> QED
  BY <1>2, <1>4

LEMMA NextRow ==
  ASSUME Base, StageRecords, [Next]_vars, NEW q \in Runs \ deleted', RowFirst(q)
  PROVE  RowStep(q)
<1>0. CopiesType /\ TypeOK
  BY BaseFacts
<1>1. ASSUME NEW w \in Workers, RuntimeStep(w) \/ LoseConnection(w) \/ Kill(w)
      PROVE  RowStep(q)
  BY <1>1 DEF RuntimeStep, LoseConnection, Kill, copies, RowStep
<1>2. ASSUME NEW w \in Workers, TerminalFailure(w) PROVE RowStep(q)
  <2>1. held[w] \in Runs /\ MarkFailed(w, held[w])
    BY <1>2, BaseFacts DEF TerminalFailure, RT!Reject
  <2> QED
    BY <1>0, <2>1, MarkStatus, WorkersAreProcesses DEF RowStep
<1>3. CASE ApiRestart
  BY <1>3, RestartRow DEF RowStep
<1>4. CASE UNCHANGED vars
  BY <1>4 DEF vars, copies, RowStep
<1> QED
  BY <1>1, <1>2, <1>3, <1>4, HandlerRow, ApiRow DEF Next, WorkerStep

-----------------------------------------------------------------------------
(* What a step does to the executors.                                      *)

\* The running handler goes on to the next stage ...
StageStep(w) ==
  /\ tasks[w] # <<>> /\ tasks'[w] = tasks[w]
  /\ LET r == Head(tasks[w]) IN
       \/ at[w] = "download" /\ at'[w] = "read"
       \/ at[w] = "read" /\ at'[w] = "announce" /\ IsTerminal(ReadRun(w, r))
       \/ at[w] = "read" /\ at'[w] = "claim" /\ ~IsTerminal(ReadRun(w, r))
       \/ /\ at[w] \in {"claim", "start", "generate", "launch", "sumo"}
          /\ at'[w] \in {"start", "generate", "launch", "sumo", "end"}
       \/ at[w] = "end" /\ at'[w] = "upload" /\ IsTerminal(db'[r])
       \/ at[w] = "end" /\ at'[w] = "reraise" /\ errors' # 0
       \/ /\ at[w] = "upload" /\ at'[w] = "announce"
          /\ <<w, r>> \in outputs => r \in archived'
       \/ at[w] = "announce" /\ at'[w] = "cleanup" /\ Announced(r)'

\* ... or ends, before its time only by an error ...
LeaveStep(w) ==
  /\ tasks[w] # <<>> /\ tasks'[w] = Tail(tasks[w]) /\ at'[w] = "download"
  /\ \/ errors' # 0
     \/ at[w] \in {"reraise", "announce", "cleanup"}
     \/ at[w] = "read" /\ ReadRun(w, Head(tasks[w])) = NoRec

\* ... or nothing happens to it: at most a job is added, or the process dies.
ExecutorStep(w) ==
  \/ tasks'[w] = tasks[w] /\ at'[w] = at[w]
  \/ \E r \in Runs : tasks'[w] = Append(tasks[w], r) /\ at'[w] = at[w]
  \/ tasks'[w] = <<>> /\ at'[w] = "download" /\ faults'.kill # 0
  \/ StageStep(w)
  \/ LeaveStep(w)

LEMMA LeaveEffect ==
  ASSUME Base, NEW w \in Workers,
         Raise(w) \/ \E outcome \in {"ok", "error"} : Leave(w, outcome)
  PROVE  /\ tasks[w] # <<>> /\ tasks'[w] = Tail(tasks[w]) /\ at'[w] = "download"
         /\ \A v \in Workers \ {w} : at'[v] = at[v] /\ tasks'[v] = tasks[v]
<1>1. tasks[w] # <<>> /\ tasks' = [tasks EXCEPT ![w] = Tail(@)]
  BY DEF Raise, Leave, RT!HandlerEnds
<1>2. tasks'[w] = Tail(tasks[w])
  BY <1>1, BaseFacts
<1> QED
  BY <1>1, <1>2, Leaves DEF Base

LEMMA HandlerExecutor ==
  ASSUME Base, StageRecords, NEW w \in Workers, NEW r \in Runs,
         HandlerStep(w, r), NEW v \in Workers
  PROVE  ExecutorStep(v)
<1> USE DEF Handling
<1>0. TypeOK /\ CopiesType
  BY BaseFacts
<1>1. ASSUME NEW stage \in {"download", "read", "claim", "start", "generate", "launch",
                            "sumo", "end", "upload", "reraise", "announce", "cleanup"},
             Goto(w, stage), StageStep(w)
      PROVE  ExecutorStep(v)
  BY <1>1, Goes DEF ExecutorStep, Base
<1>2. ASSUME Raise(w) PROVE ExecutorStep(v)
  BY <1>0, <1>2, LeaveEffect, RaisedOnce DEF ExecutorStep, LeaveStep
<1>3. ASSUME NEW outcome \in {"ok", "error"}, Leave(w, outcome),
             \/ at[w] \in {"reraise", "announce", "cleanup"}
             \/ at[w] = "read" /\ ReadRun(w, Head(tasks[w])) = NoRec
      PROVE  ExecutorStep(v)
  BY <1>3, LeaveEffect DEF ExecutorStep, LeaveStep
<1>4. \A stage \in {"download", "read", "claim", "start", "generate", "launch",
                    "sumo", "end", "upload", "reraise", "announce", "cleanup"} :
        Goto(w, stage) => tasks'[w] = tasks[w] /\ at'[w] = stage
  BY Goes DEF Base
<1>5. CASE Download(w, r)
  <2>1. CASE Goto(w, "read")
    BY <1>1, <1>4, <1>5, <2>1 DEF Download, StageStep
  <2> QED
    BY <1>2, <1>5, <2>1 DEF Download
<1>6. CASE ClaimRead(w, r)
  <2>1. CASE ReadRun(w, r) = NoRec
    BY <1>3, <1>6, <2>1 DEF ClaimRead
  <2>2. CASE ReadRun(w, r) # NoRec
    <3>1. CASE IsTerminal(ReadRun(w, r))
      <4>1. Goto(w, "announce")
        BY <1>6, <2>2, <3>1 DEF ClaimRead
      <4> QED
        BY <1>1, <1>4, <1>6, <3>1, <4>1 DEF ClaimRead, StageStep
    <3>2. CASE ~IsTerminal(ReadRun(w, r))
      <4>1. Goto(w, "claim")
        BY <1>6, <2>2, <3>2 DEF ClaimRead
      <4> QED
        BY <1>1, <1>4, <1>6, <3>2, <4>1 DEF ClaimRead, StageStep
    <3> QED
      BY <3>1, <3>2
  <2> QED
    BY <2>1, <2>2
<1>7. CASE ClaimWrite(w, r)
  <2>1. CASE Goto(w, "start")
    BY <1>1, <1>4, <1>7, <2>1 DEF ClaimWrite, StageStep
  <2> QED
    BY <1>2, <1>7, <2>1 DEF ClaimWrite
<1>8. CASE Start(w, r)
  BY <1>1, <1>4, <1>8 DEF Start, StageStep
<1>9. CASE Generate(w, r)
  <2>1. CASE Goto(w, "end")
    BY <1>1, <1>4, <1>9, <2>1 DEF Generate, StageStep
  <2>2. CASE Goto(w, "launch")
    BY <1>1, <1>4, <1>9, <2>2 DEF Generate, StageStep
  <2> QED
    BY <1>9, <2>1, <2>2 DEF Generate
<1>10. CASE Launch(w, r)
  BY <1>1, <1>4, <1>10 DEF Launch, StageStep
<1>11. CASE SumoExits(w, r)
  BY <1>1, <1>4, <1>11 DEF SumoExits, StageStep
<1>12. CASE End(w, r)
  <2>1. CASE Goto(w, "upload")
    <3>1. mem[w] \in Record /\ mem[w].status \in Terminal
      BY <1>12, InvParts DEF End, StageRecords, StageRecord, Base
    <3>2. WriteFileAndRow(w, r, mem[w])
      BY <1>12 DEF End, WriteRecord
    <3>3. IsTerminal(db'[r])
      BY <3>1, <3>2, HandlerWrites DEF IsTerminal
    <3> QED
      BY <1>1, <1>4, <1>12, <2>1, <3>3 DEF End, StageStep
  <2>2. CASE errors < MaxErrors /\ errors' = errors + 1 /\ Goto(w, "reraise")
    <3>1. errors' # 0
      BY <1>0, <2>2, LifecycleAssumption DEF TypeOK, LifecycleAssumption
    <3> QED
      BY <1>1, <1>4, <1>12, <2>2, <3>1 DEF End, StageStep
  <2> QED
    BY <1>12, <2>1, <2>2 DEF End
<1>13. CASE Upload(w, r)
  <2>1. CASE at[w] = "upload" /\ UploadTree(w, r) /\ Goto(w, "announce")
    <3>1. <<w, r>> \in outputs => r \in archived'
      BY <2>1 DEF UploadTree
    <3> QED
      BY <1>1, <1>4, <1>13, <2>1, <3>1 DEF Upload, StageStep
  <2>2. CASE at[w] = "reraise" /\ Leave(w, "error")
    BY <1>3, <2>2
  <2> QED
    BY <1>2, <1>13, <2>1, <2>2 DEF Upload
<1>14. CASE Announce(w, r)
  <2>1. CASE /\ IsTerminal(ReadRun(w, r))
             /\ finished' = finished \cup {<<r, ReadRun(w, r).status>>}
             /\ Goto(w, "cleanup")
    <3>1. Announced(r)'
      BY <2>1 DEF Announced, IsTerminal
    <3> QED
      BY <1>1, <1>4, <1>14, <2>1, <3>1 DEF Announce, StageStep
  <2>2. CASE Leave(w, "error")
    BY <1>3, <1>14, <2>2 DEF Announce
  <2> QED
    BY <1>2, <1>14, <2>1, <2>2 DEF Announce
<1>15. CASE Cleanup(w, r)
  BY <1>3, <1>15 DEF Cleanup
<1> QED
  BY <1>5, <1>6, <1>7, <1>8, <1>9, <1>10, <1>11, <1>12, <1>13, <1>14, <1>15
     DEF HandlerStep

LEMMA NextExecutor ==
  ASSUME Base, StageRecords, [Next]_vars, NEW v \in Workers
  PROVE  ExecutorStep(v)
<1>0. TypeOK /\ tasks \in [Workers -> Seq(Runs)]
  BY BaseFacts
<1>1. ASSUME NEW w \in Workers, RuntimeStep(w) \/ LoseConnection(w) \/ TerminalFailure(w)
      PROVE  ExecutorStep(v)
  <2>1. UNCHANGED handlerVars
    BY <1>1 DEF RuntimeStep, LoseConnection, TerminalFailure
  <2>2. \/ tasks' = tasks
        \/ \E r \in Runs : tasks' = [tasks EXCEPT ![w] = Append(@, r)]
    BY <1>1 DEF RuntimeStep, LoseConnection, TerminalFailure, RT!Connect, RT!Get, RT!Ack,
                RT!Nack, RT!Reject, RT!Settle, RT!Restart, RT!LoseConnection
  <2> QED
    BY <1>0, <2>1, <2>2 DEF handlerVars, ExecutorStep
<1>2. ASSUME NEW w \in Workers, Kill(w) PROVE ExecutorStep(v)
  <2>1. /\ tasks' = [tasks EXCEPT ![w] = <<>>]
        /\ at' = [at EXCEPT ![w] = "download"]
        /\ faults' = [faults EXCEPT !.kill = @ + 1]
    BY <1>2 DEF Kill, RT!Kill
  <2>2. faults'.kill # 0
    BY <1>0, <2>1 DEF TypeOK, RT!TypeOK, RT!FaultCounts
  <2> QED
    BY <1>0, <2>1, <2>2 DEF TypeOK, ExecutorStep
<1>3. ASSUME NEW w \in Workers, NEW r \in Runs, Progress(w, r) PROVE ExecutorStep(v)
  BY <1>3 DEF Progress, runtimeVars, ExecutorStep
<1>4. ASSUME NEW r \in Runs, ApiStep(r) \/ UserCall(r) PROVE ExecutorStep(v)
  <2>1. UNCHANGED handlerVars
    BY <1>4 DEF ApiStep, UserCall, PublishRun, MarkQueueFailure, StopCancel, StopRemove,
                DeleteObjects, DeleteRow, Create, StopRead, DeleteRead
  <2>2. tasks' = tasks
    BY <1>4, ApiRuntime DEF runtimeVars, RT!Publish, RT!workerVars
  <2> QED
    BY <2>1, <2>2 DEF handlerVars, ExecutorStep
<1>5. CASE ApiRestart
  BY <1>5 DEF ApiRestart, runtimeVars, handlerVars, ExecutorStep
<1>6. CASE UNCHANGED vars
  BY <1>6 DEF vars, runtimeVars, handlerVars, ExecutorStep
<1> QED
  BY <1>1, <1>2, <1>3, <1>4, <1>5, <1>6, HandlerExecutor DEF Next, WorkerStep

-----------------------------------------------------------------------------
(* What a step does to the delivery of a run.                              *)

\* A message is sent for a requested run, leaves the queue into an executor, is
\* acknowledged after a handler has cleaned up, and is buried once its run is
\* marked.
DeliveryStep(r) ==
  /\ broker[r] = "unsent" /\ request[r] = "none" => broker'[r] = "unsent"
  /\ broker[r] \in {"unsent", "ready"} =>
       \/ broker'[r] \in {"unsent", "ready"}
       \/ \E w \in Workers : tasks'[w] = Append(tasks[w], r) /\ at'[w] = at[w]
  /\ broker'[r] = "acked" =>
       broker[r] = "acked" \/ \E w \in Workers : held[w] = r /\ result[w] = "ok"
  /\ \A w \in Workers : held'[w] = r /\ result'[w] = "ok" =>
       (held[w] = r /\ result[w] = "ok") \/ Handling(w, r, "cleanup")
  /\ broker'[r] = "dead" =>
       broker[r] = "dead" \/ \E w \in Workers : held[w] = r /\ MarkFailed(w, r)

LEMMA QuietDelivery ==
  ASSUME UNCHANGED <<broker, held, result>>, NEW q \in Runs
  PROVE  DeliveryStep(q)
BY DEF DeliveryStep

LEMMA EndedDelivery ==
  ASSUME Base, NEW w \in Workers, NEW outcome \in {"ok", "error"},
         RT!HandlerEnds(w, outcome), outcome = "ok" => at[w] = "cleanup",
         NEW q \in Runs
  PROVE  DeliveryStep(q)
<1>1. /\ broker' = broker /\ held' = held /\ tasks[w] # <<>>
      /\ result' = IF RT!IsAwaited(w) THEN [result EXCEPT ![w] = outcome] ELSE result
  BY DEF RT!HandlerEnds, RT!brokerVars
<1>2. ASSUME NEW v \in Workers, held'[v] = q, result'[v] = "ok"
      PROVE  (held[v] = q /\ result[v] = "ok") \/ Handling(v, q, "cleanup")
  <2>1. CASE result[v] = "ok"
    BY <1>1, <1>2, <2>1
  <2>2. CASE result[v] # "ok"
    <3>1. v = w /\ outcome = "ok" /\ RT!IsAwaited(w)
      BY <1>1, <1>2, <2>2, BaseFacts
    <3>2. Len(tasks[w]) = 1 /\ tasks[w][Len(tasks[w])] = held[w]
      BY <3>1, BaseFacts DEF RT!IsAwaited
    <3>3. Head(tasks[w]) = held[w]
      BY <3>2, <1>1, BaseFacts
    <3> QED
      BY <1>1, <1>2, <3>1, <3>3 DEF Handling
  <2> QED
    BY <2>1, <2>2
<1> QED
  BY <1>1, <1>2 DEF DeliveryStep

LEMMA HandlerDelivery ==
  ASSUME Base, NEW w \in Workers, NEW r \in Runs, HandlerStep(w, r), NEW q \in Runs
  PROVE  DeliveryStep(q)
<1>1. ASSUME UNCHANGED runtimeVars PROVE DeliveryStep(q)
  BY <1>1, QuietDelivery DEF runtimeVars
<1>2. ASSUME Raise(w) \/ Leave(w, "error") PROVE DeliveryStep(q)
  BY <1>2, EndedDelivery DEF Raise, Leave
<1>3. CASE Cleanup(w, r)
  BY <1>3, EndedDelivery DEF Cleanup, Leave, Handling
<1>4. \A stage : Goto(w, stage) => UNCHANGED runtimeVars
  BY DEF Goto
<1>5. CASE Download(w, r) \/ ClaimRead(w, r) \/ ClaimWrite(w, r) \/ Start(w, r)
  BY <1>1, <1>2, <1>4, <1>5 DEF Download, ClaimRead, ClaimWrite, Start
<1>6. CASE Generate(w, r) \/ Launch(w, r) \/ SumoExits(w, r) \/ End(w, r)
  BY <1>1, <1>4, <1>6 DEF Generate, Launch, SumoExits, End
<1>7. CASE Upload(w, r) \/ Announce(w, r)
  BY <1>1, <1>2, <1>4, <1>7 DEF Upload, Announce
<1> QED
  BY <1>3, <1>5, <1>6, <1>7 DEF HandlerStep

LEMMA RequeuedDelivery ==
  ASSUME Base, NEW w \in Workers, RT!Requeue(w), NEW q \in Runs
  PROVE  DeliveryStep(q)
<1>1. /\ held' = [held EXCEPT ![w] = None]
      /\ result' = [result EXCEPT ![w] = "pending"]
      /\ broker' = broker \/ (held[w] # None /\ broker' = [broker EXCEPT ![held[w]] = "ready"])
  BY DEF RT!Requeue
<1>2. broker'[q] = broker[q] \/ (broker[q] = "unacked" /\ broker'[q] = "ready")
  BY <1>1, BaseFacts
<1>3. \A v \in Workers : held'[v] = q /\ result'[v] = "ok" =>
        held[v] = q /\ result[v] = "ok"
  BY <1>1, BaseFacts
<1> QED
  BY <1>2, <1>3 DEF DeliveryStep

LEMMA SettledDelivery ==
  ASSUME Base, NEW w \in Workers, held[w] # None,
         NEW verdict \in {"acked", "dead"}, RT!Settle(w, verdict),
         verdict = "acked" => result[w] = "ok",
         verdict = "dead" => MarkFailed(w, held[w]),
         NEW q \in Runs
  PROVE  DeliveryStep(q)
<1>1. /\ held' = [held EXCEPT ![w] = None]
      /\ result' = [result EXCEPT ![w] = "pending"]
      /\ broker' = [broker EXCEPT ![held[w]] = verdict]
  BY DEF RT!Settle
<1>2. \/ broker'[q] = broker[q]
      \/ broker[q] = "unacked" /\ broker'[q] = verdict /\ held[w] = q
  BY <1>1, BaseFacts
<1>3. \A v \in Workers : held'[v] = q /\ result'[v] = "ok" =>
        held[v] = q /\ result[v] = "ok"
  BY <1>1, BaseFacts
<1> QED
  BY <1>2, <1>3 DEF DeliveryStep

LEMMA FetchedDelivery ==
  ASSUME Base, NEW w \in Workers, NEW r \in Runs, RT!Get(w, r), UNCHANGED at,
         NEW q \in Runs
  PROVE  DeliveryStep(q)
<1>1. /\ broker' = [broker EXCEPT ![r] = "unacked"] /\ broker[r] = "ready"
      /\ held' = [held EXCEPT ![w] = r]
      /\ result' = [result EXCEPT ![w] = "pending"]
      /\ tasks' = [tasks EXCEPT ![w] = Append(@, r)]
  BY DEF RT!Get, RT!IsHead
<1>2. \/ broker'[q] = broker[q]
      \/ broker[q] = "ready" /\ broker'[q] = "unacked" /\ q = r
  BY <1>1, BaseFacts
<1>3. tasks'[w] = Append(tasks[w], r)
  BY <1>1, BaseFacts
<1>4. \A v \in Workers : held'[v] = q /\ result'[v] = "ok" =>
        held[v] = q /\ result[v] = "ok"
  BY <1>1, BaseFacts
<1> QED
  BY <1>2, <1>3, <1>4 DEF DeliveryStep

LEMMA NextDelivery ==
  ASSUME Base, [Next]_vars, NEW q \in Runs
  PROVE  DeliveryStep(q)
<1>1. ASSUME NEW w \in Workers, RuntimeStep(w) PROVE DeliveryStep(q)
  <2>1. CASE RT!Connect(w) \/ RT!Restart(w)
    BY <2>1, QuietDelivery DEF RT!Connect, RT!Restart, RT!brokerVars
  <2>2. ASSUME NEW r \in Runs, RT!Get(w, r) PROVE DeliveryStep(q)
    BY <1>1, <2>2, FetchedDelivery DEF RuntimeStep, handlerVars
  <2>3. CASE RT!Ack(w)
    BY <2>3, SettledDelivery DEF RT!Ack
  <2>4. CASE RT!Nack(w)
    BY <2>4, RequeuedDelivery DEF RT!Nack
  <2> QED
    BY <1>1, <2>1, <2>2, <2>3, <2>4 DEF RuntimeStep
<1>2. ASSUME NEW w \in Workers, TerminalFailure(w) PROVE DeliveryStep(q)
  BY <1>2, SettledDelivery DEF TerminalFailure, RT!Reject
<1>3. ASSUME NEW w \in Workers, LoseConnection(w) \/ Kill(w) PROVE DeliveryStep(q)
  BY <1>3, RequeuedDelivery DEF LoseConnection, Kill, RT!LoseConnection, RT!Kill
<1>4. ASSUME NEW r \in Runs, PublishRun(r) PROVE DeliveryStep(q)
  <2>1. CASE UNCHANGED runtimeVars
    BY <2>1, QuietDelivery DEF runtimeVars
  <2>2. CASE RT!Publish(r)
    <3>1. /\ broker' = [broker EXCEPT ![r] = "ready"] /\ broker[r] = "unsent"
          /\ UNCHANGED <<held, result>> /\ request[r] = "publish"
      BY <1>4, <2>2 DEF RT!Publish, RT!workerVars, PublishRun
    <3>2. \/ broker'[q] = broker[q]
          \/ broker[q] = "unsent" /\ broker'[q] = "ready" /\ q = r
      BY <3>1, BaseFacts
    <3> QED
      BY <3>1, <3>2 DEF DeliveryStep
  <2> QED
    BY <1>4, <2>1, <2>2 DEF PublishRun
<1>5. ASSUME NEW r \in Runs, ApiStep(r) \/ UserCall(r), ~PublishRun(r)
      PROVE  DeliveryStep(q)
  <2>1. UNCHANGED runtimeVars
    BY <1>5 DEF ApiStep, UserCall, MarkQueueFailure, StopCancel, StopRemove,
                DeleteObjects, DeleteRow, Create, StopRead, DeleteRead
  <2> QED
    BY <2>1, QuietDelivery DEF runtimeVars
<1>6. ASSUME NEW w \in Workers, NEW r \in Runs, Progress(w, r) PROVE DeliveryStep(q)
  BY <1>6, QuietDelivery DEF Progress, runtimeVars
<1>7. CASE ApiRestart
  BY <1>7, QuietDelivery DEF ApiRestart, runtimeVars
<1>8. CASE UNCHANGED vars
  BY <1>8, QuietDelivery DEF vars, runtimeVars
<1> QED
  BY <1>1, <1>2, <1>3, <1>4, <1>5, <1>6, <1>7, <1>8, HandlerDelivery DEF Next, WorkerStep

-----------------------------------------------------------------------------
(* What a step does to what is kept of a run.                              *)

\* Announcements and archived outputs stay; a workspace is emptied by a cleanup or
\* a kill; a run is announced by the handler that has read its final record.
KeepStep(r) ==
  /\ deleted \subseteq deleted'
  /\ Announced(r) => Announced(r)'
  /\ r \in archived => r \in archived'
  /\ \A w \in Workers : <<w, r>> \in outputs =>
       <<w, r>> \in outputs' \/ faults'.kill # 0 \/ Handling(w, r, "cleanup")
  /\ Announced(r)' =>
       \/ Announced(r)
       \/ \E w \in Workers : /\ Handling(w, r, "announce")
                             /\ IsTerminal(ReadRun(w, r))
                             /\ db' = db

LEMMA QuietKeep ==
  ASSUME NEW q, UNCHANGED <<finished, archived, outputs, deleted>>
  PROVE  KeepStep(q)
BY DEF KeepStep, Announced

LEMMA HandlerKeep ==
  ASSUME Base, NEW w \in Workers, NEW r \in Runs, HandlerStep(w, r), NEW q \in Runs
  PROVE  KeepStep(q)
<1>1. CASE \/ ClaimRead(w, r) \/ ClaimWrite(w, r) \/ Start(w, r) \/ Generate(w, r)
           \/ Launch(w, r) \/ End(w, r)
  BY <1>1, QuietKeep DEF ClaimRead, ClaimWrite, Start, Generate, Launch, End, copies,
                         apiVars
<1>2. CASE Download(w, r) \/ SumoExits(w, r) \/ Upload(w, r)
  <2>1. /\ UNCHANGED <<finished, deleted>>
        /\ outputs \subseteq outputs' /\ archived \subseteq archived'
    BY <1>2 DEF Download, SumoExits, Upload, UploadTree, apiVars
  <2> QED
    BY <2>1 DEF KeepStep, Announced
<1>3. CASE Cleanup(w, r)
  <2>1. /\ UNCHANGED <<finished, archived, deleted>>
        /\ outputs' = outputs \ {<<w, r>>} /\ Handling(w, r, "cleanup")
    BY <1>3 DEF Cleanup, apiVars
  <2> QED
    BY <2>1 DEF KeepStep, Announced
<1>4. CASE Announce(w, r)
  <2>1. /\ UNCHANGED <<db, outputs, archived, deleted>>
        /\ Handling(w, r, "announce")
        /\ \/ finished' = finished
           \/ /\ IsTerminal(ReadRun(w, r))
              /\ finished' = finished \cup {<<r, ReadRun(w, r).status>>}
    BY <1>4 DEF Announce, copies, apiVars
  <2>2. CASE finished' = finished
    BY <2>1, <2>2, QuietKeep
  <2>3. CASE /\ IsTerminal(ReadRun(w, r))
             /\ finished' = finished \cup {<<r, ReadRun(w, r).status>>}
    <3>1. Announced(q) => Announced(q)'
      BY <2>3 DEF Announced
    <3>2. Announced(q)' => Announced(q) \/ q = r
      BY <2>3 DEF Announced
    <3> QED
      BY <2>1, <2>3, <3>1, <3>2 DEF KeepStep
  <2> QED
    BY <2>1, <2>2, <2>3
<1> QED
  BY <1>1, <1>2, <1>3, <1>4 DEF HandlerStep

LEMMA NextKeep ==
  ASSUME Base, [Next]_vars, NEW q \in Runs \ deleted'
  PROVE  KeepStep(q)
<1>1. ASSUME NEW w \in Workers, RuntimeStep(w) \/ LoseConnection(w) \/ TerminalFailure(w)
      PROVE  KeepStep(q)
  BY <1>1, QuietKeep DEF RuntimeStep, LoseConnection, TerminalFailure, copies, handlerVars,
                         apiVars
<1>2. ASSUME NEW w \in Workers, Kill(w) PROVE KeepStep(q)
  <2>1. faults'.kill # 0
    BY <1>2, BaseFacts DEF Kill, RT!Kill, TypeOK, RT!TypeOK, RT!FaultCounts
  <2> QED
    BY <1>2, <2>1 DEF Kill, apiVars, KeepStep, Announced
<1>3. ASSUME NEW r \in Runs, DeleteObjects(r) PROVE KeepStep(q)
  <2>1. /\ UNCHANGED <<finished, outputs>> /\ q # r
        /\ archived' = archived \ {r} /\ deleted \subseteq deleted'
    BY <1>3 DEF DeleteObjects, handlerVars
  <2> QED
    BY <2>1 DEF KeepStep, Announced
<1>4. ASSUME NEW r \in Runs, ApiStep(r) \/ UserCall(r), ~DeleteObjects(r)
      PROVE  KeepStep(q)
  BY <1>4, QuietKeep DEF ApiStep, UserCall, PublishRun, MarkQueueFailure, StopCancel,
       StopRemove, DeleteRow, Create, StopRead, DeleteRead, copies, handlerVars
<1>5. ASSUME NEW w \in Workers, NEW r \in Runs, Progress(w, r) PROVE KeepStep(q)
  BY <1>5, QuietKeep DEF Progress, apiVars
<1>6. CASE ApiRestart
  BY <1>6, QuietKeep DEF ApiRestart, handlerVars
<1>7. CASE UNCHANGED vars
  BY <1>7, QuietKeep DEF vars, copies, handlerVars, apiVars
<1> QED
  BY <1>1, <1>2, <1>3, <1>4, <1>5, <1>6, <1>7, HandlerKeep DEF Next, WorkerStep

\* A fault that has happened has happened.
FaultsStay ==
  /\ faults'.loss = 0 => faults.loss = 0
  /\ faults'.kill = 0 => faults.kill = 0
  /\ errors' = 0 => errors = 0

LEMMA NextFaults ==
  ASSUME Base, [Next]_vars
  PROVE  FaultsStay
<1>0. TypeOK
  BY BaseFacts
<1>1. faults \in [loss : Nat, kill : Nat, shutdown : Nat] /\ errors \in Nat
  <2>1. faults \in RT!FaultCounts
    BY <1>0 DEF TypeOK, RT!TypeOK
  <2>2. /\ faults.loss \in 0 .. MaxLosses /\ faults.kill \in 0 .. MaxKills
        /\ faults.shutdown \in 0 .. 0
        /\ faults = [loss |-> faults.loss, kill |-> faults.kill,
                     shutdown |-> faults.shutdown]
    BY <2>1 DEF RT!FaultCounts
  <2>3. errors \in 0 .. MaxErrors
    BY <1>0 DEF TypeOK
  <2> QED
    BY <2>1, <2>2, <2>3, LifecycleAssumption DEF LifecycleAssumption, RT!FaultCounts
<1>2. \/ faults' = faults
      \/ faults' = [faults EXCEPT !.loss = @ + 1]
      \/ faults' = [faults EXCEPT !.kill = @ + 1]
      \/ faults' = [faults EXCEPT !.shutdown = @ + 1]
  BY NextRuntime
     DEF RT!Next, RT!Step, RT!Fault, RT!Publish, RT!Connect, RT!Get, RT!RejectInvalid,
         RT!HandlerEnds, RT!Ack, RT!Nack, RT!Reject, RT!Settle, RT!Exit, RT!Restart,
         RT!LoseConnection, RT!RequestShutdown, RT!Kill, RT!runtimeVars, RT!workerVars
<1>3. errors' = errors \/ errors' = errors + 1
  <2>1. ASSUME NEW w \in Workers, NEW r \in Runs, HandlerStep(w, r)
        PROVE  errors' = errors \/ errors' = errors + 1
    BY <2>1 DEF HandlerStep, Download, ClaimRead, ClaimWrite, Start, Generate, Launch,
         SumoExits, End, Upload, Announce, Cleanup, Raise
  <2>2. ASSUME NEW w \in Workers, RuntimeStep(w) \/ TerminalFailure(w)
                                  \/ LoseConnection(w) \/ Kill(w)
        PROVE  errors' = errors
    BY <2>2 DEF RuntimeStep, TerminalFailure, LoseConnection, Kill
  <2>3. ASSUME NEW w \in Workers, NEW r \in Runs, Progress(w, r) PROVE errors' = errors
    BY <2>3 DEF Progress
  <2>4. ASSUME NEW r \in Runs, ApiStep(r) \/ UserCall(r)
        PROVE  errors' = errors \/ errors' = errors + 1
    BY <2>4 DEF ApiStep, UserCall, PublishRun, MarkQueueFailure, StopCancel, StopRemove,
         DeleteObjects, DeleteRow, Create, StopRead, DeleteRead
  <2> QED
    BY <2>1, <2>2, <2>3, <2>4 DEF Next, WorkerStep, ApiRestart, vars
<1> QED
  BY <1>1, <1>2, <1>3 DEF FaultsStay

-----------------------------------------------------------------------------
(* The row comes first.                                                    *)

\* Nothing is written of run r outside its row.
Apart(r) ==
  /\ store'[r] = store[r]
  /\ \A p \in Processes : local'[p][r] \in {local[p][r], NoRec}
  /\ request'[r] \in {request[r], "none"}
  /\ call' = call \/ call'.op = "idle" \/ call'.run # r

LEMMA WriteApart ==
  ASSUME CopiesType, NEW p \in Processes, NEW r \in Runs, NEW rec \in Record,
         WriteRecord(p, r, rec)
  PROVE  /\ db'[r] # NoRec
         /\ \A q \in Runs \ {r} :
              store'[q] = store[q] /\ \A x \in Processes : local'[x][q] = local[x][q]
<1>1. \A q \in Runs \ {r} : store'[q] = store[q]
  BY DEF WriteRecord, CopiesType
<1> QED
  BY <1>1, WriteStatus DEF WriteRecord

LEMMA HandlerApart ==
  ASSUME Base, NEW w \in Workers, NEW r \in Runs,
         HandlerStep(w, r) \/ Progress(w, r), NEW q \in Runs, q # r
  PROVE  Apart(q)
<1>0. CopiesType /\ w \in Processes
  BY BaseFacts, WorkersAreProcesses
<1>1. UNCHANGED <<request, call>>
  BY DEF HandlerStep, Download, ClaimRead, ClaimWrite, Start, Generate, Launch,
         SumoExits, End, Upload, Announce, Cleanup, Progress, apiVars
<1>2. CASE \/ ClaimRead(w, r) \/ Generate(w, r) \/ SumoExits(w, r) \/ Announce(w, r)
  BY <1>1, <1>2 DEF ClaimRead, Generate, SumoExits, Announce, copies, Apart
<1>3. CASE Download(w, r) \/ Upload(w, r) \/ Cleanup(w, r)
  BY <1>0, <1>1, <1>3 DEF Download, Upload, UploadTree, Cleanup, CopiesType, Apart
<1>4. ASSUME NEW rec, WriteFileAndRow(w, r, rec),
             store' = store \/ store' = [store EXCEPT ![r] = rec]
      PROVE  Apart(q)
  BY <1>0, <1>1, <1>4 DEF WriteFileAndRow, CopiesType, Apart
<1>5. ASSUME NEW rec, WriteRecord(w, r, rec) PROVE Apart(q)
  BY <1>4, <1>5 DEF WriteRecord
<1>6. CASE ClaimWrite(w, r) \/ End(w, r)
  BY <1>4, <1>5, <1>6 DEF ClaimWrite, End
<1>7. CASE Start(w, r) \/ Launch(w, r) \/ Progress(w, r)
  BY <1>5, <1>7 DEF Start, Launch, Progress
<1> QED
  BY <1>2, <1>3, <1>6, <1>7 DEF HandlerStep

LEMMA ApiApart ==
  ASSUME Base, NEW r \in Runs, ApiStep(r) \/ UserCall(r),
         NEW q \in Runs, db[q] = NoRec, Unheard(q), db'[q] = NoRec
  PROVE  Apart(q)
<1>0. CopiesType /\ RestType /\ TypeOK /\ Api \in Processes
  BY BaseFacts, WorkersAreProcesses
<1>1. ReadRun(Api, q) = NoRec
  BY <1>0 DEF Unheard, ReadRun
<1>2. CASE Create(r)
  <2> DEFINE rec == [status |-> "queued", stop |-> FALSE]
  <2>1. rec \in Record /\ WriteRecord(Api, r, rec)
    BY <1>2 DEF Create, Record, Statuses
  <2> HIDE DEF rec
  <2>2. q # r
    BY <1>0, <2>1, WriteApart
  <2> QED
    BY <1>0, <1>2, <2>1, <2>2, WriteApart DEF Create, Apart, RestType
<1>3. CASE PublishRun(r)
  <2>1. q # r
    BY <1>3 DEF PublishRun, Unheard
  <2> QED
    BY <1>0, <1>3, <2>1 DEF PublishRun, copies, Apart, RestType
<1>4. CASE MarkQueueFailure(r)
  <2>1. q # r
    BY <1>4 DEF MarkQueueFailure, Unheard
  <2> QED
    BY <1>0, <1>4, <2>1, MarkStatus DEF MarkQueueFailure, Apart, RestType
<1>5. CASE StopRead(r) \/ DeleteRead(r)
  <2>1. q # r
    BY <1>1, <1>5 DEF StopRead, DeleteRead, IsTerminal
  <2>2. call'.run = r
    <3>1. CASE StopRead(r)
      BY <3>1 DEF StopRead
    <3>2. CASE DeleteRead(r)
      <4>1. call' = [op |-> "purge", run |-> r, queued |-> FALSE, rec |-> NoRec]
        BY <3>2 DEF DeleteRead, Idle
      <4> QED
        BY <4>1
    <3> QED
      BY <1>5, <3>1, <3>2
  <2>3. UNCHANGED <<store, local, request>>
    BY <1>5 DEF StopRead, DeleteRead, copies
  <2> QED
    BY <2>1, <2>2, <2>3 DEF Apart
<1>6. ASSUME call.op # "idle", call.run = r PROVE q # r
  BY <1>6 DEF Unheard
<1>7. CASE StopCancel(r)
  <2>1. q # r /\ call.run = r /\ UNCHANGED request
        /\ call' = IF call.queued THEN [call EXCEPT !.op = "remove", !.rec =
                     IF db[r] # NoRec THEN [db[r] EXCEPT !.stop = TRUE]
                                      ELSE [call.rec EXCEPT !.stop = TRUE]] ELSE Idle
    BY <1>6, <1>7 DEF StopCancel
  <2>2. call'.op = "idle" \/ call'.run # q
    BY <1>0, <2>1 DEF RestType, Idle
  <2>3. store'[q] = store[q] /\ \A p \in Processes : local'[p][q] = local[p][q]
    <3>1. CASE db[r] # NoRec
      BY <1>7, <3>1 DEF StopCancel
    <3>2. CASE db[r] = NoRec
      <4> DEFINE rec == [call.rec EXCEPT !.stop = TRUE]
      <4>1. rec \in Record
        BY <1>7, RecordFields DEF StopCancel, Base, Inv, Calls
      <4>2. WriteRecord(Api, r, rec)
        BY <1>7, <3>2 DEF StopCancel
      <4> HIDE DEF rec
      <4> QED
        BY <1>0, <2>1, <4>1, <4>2, WriteApart
    <3> QED
      BY <3>1, <3>2
  <2> QED
    BY <2>1, <2>2, <2>3 DEF Apart
<1>8. CASE StopRemove(r)
  <2> DEFINE rec == [call.rec EXCEPT !.status = "failed"]
  <2>1. rec \in Record
    BY <1>8, RecordFields DEF StopRemove, Base, Inv, Calls, Statuses
  <2>2. WriteRecord(Api, r, rec) /\ q # r
    BY <1>6, <1>8 DEF StopRemove
  <2> HIDE DEF rec
  <2> QED
    BY <1>0, <1>8, <2>1, <2>2, WriteApart DEF StopRemove, Idle, Apart
<1>9. CASE DeleteObjects(r)
  <2>1. q # r
    BY <1>6, <1>9 DEF DeleteObjects
  <2> QED
    BY <1>0, <1>9, <2>1 DEF DeleteObjects, CopiesType, RestType, Apart
<1>10. CASE DeleteRow(r)
  BY <1>10 DEF DeleteRow, Idle, Apart
<1> QED
  BY <1>2, <1>3, <1>4, <1>5, <1>7, <1>8, <1>9, <1>10 DEF ApiStep, UserCall

LEMMA NextApart ==
  ASSUME Base, [Next]_vars, NEW q \in Runs, db[q] = NoRec, Unheard(q), db'[q] = NoRec
  PROVE  Apart(q)
<1>0. CopiesType /\ TypeOK
  BY BaseFacts
<1>1. ASSUME NEW w \in Workers, RuntimeStep(w) \/ LoseConnection(w) PROVE Apart(q)
  BY <1>1 DEF RuntimeStep, LoseConnection, copies, apiVars, Apart
<1>2. ASSUME NEW w \in Workers, TerminalFailure(w) PROVE Apart(q)
  <2>1. held[w] \in Runs /\ broker[held[w]] = "unacked" /\ MarkFailed(w, held[w])
    BY <1>2, BaseFacts DEF TerminalFailure, RT!Reject
  <2>2. q # held[w]
    BY <2>1 DEF Unheard
  <2> QED
    BY <1>0, <1>2, <2>1, <2>2, MarkStatus, WorkersAreProcesses
       DEF TerminalFailure, apiVars, Apart
<1>3. ASSUME NEW w \in Workers, Kill(w) PROVE Apart(q)
  BY <1>0, <1>3, WorkersAreProcesses DEF Kill, apiVars, CopiesType, Apart
<1>4. ASSUME NEW w \in Workers, NEW r \in Runs, HandlerStep(w, r) \/ Progress(w, r)
      PROVE  Apart(q)
  <2>1. Works(w, r)
    BY <1>4 DEF Works, Handling, HandlerStep, Download, ClaimRead, ClaimWrite, Start,
         Generate, Launch, SumoExits, End, Upload, Announce, Cleanup, Progress
  <2>2. q # r
    BY <2>1, HeadKnown DEF Unheard
  <2> QED
    BY <1>4, <2>2, HandlerApart
<1>5. CASE ApiRestart
  <2>1. local'[Api][q] = NoRec
    BY <1>5, RestartRow DEF RowFirst
  <2>2. \A p \in Processes \ {Api} : local'[p] = local[p]
    BY <1>0, <1>5 DEF ApiRestart, CopiesType
  <2> QED
    BY <1>5, <2>1, <2>2 DEF ApiRestart, Idle, Apart
<1>6. CASE UNCHANGED vars
  BY <1>6 DEF vars, copies, apiVars, Apart
<1> QED
  BY <1>1, <1>2, <1>3, <1>4, <1>5, <1>6, ApiApart DEF Next, WorkerStep

LEMMA NextRowFirst ==
  ASSUME Base, StageRecords, [Next]_vars, NEW q \in Runs \ deleted', RowFirst(q)
  PROVE  RowFirst(q)'
<1> SUFFICES ASSUME db'[q] = NoRec PROVE Unheard(q)'
  BY DEF RowFirst
<1>1. db[q] = NoRec /\ Unheard(q)
  BY NextRow DEF RowStep, RowFirst
<1>2. Apart(q) /\ DeliveryStep(q) /\ KeepStep(q)
  BY <1>1, NextApart, NextDelivery, NextKeep
<1>3. \A w \in Workers : ~Works(w, q)
  BY <1>1, HeadKnown DEF Unheard
<1>4. ~Announced(q)'
  BY <1>1, <1>2, <1>3 DEF KeepStep, Unheard, Handling, Works
<1> QED
  BY <1>1, <1>2, <1>4 DEF Apart, DeliveryStep, Unheard

-----------------------------------------------------------------------------
(* The record at hand fits the stage.                                      *)

LEMMA SameStage ==
  ASSUME NEW v \in Workers, StageRecord(v), at'[v] = at[v], mem'[v] = mem[v],
         at[v] = "end" => /\ Head(tasks'[v]) = Head(tasks[v])
                          /\ \A r : <<v, r>> \in outputs => <<v, r>> \in outputs'
  PROVE  StageRecord(v)'
BY DEF StageRecord

LEMMA OtherStages ==
  ASSUME Base, NEW w \in Workers, NEW r \in Runs, HandlerStep(w, r),
         NEW v \in Workers \ {w}, StageRecord(v)
  PROVE  StageRecord(v)'
<1>1. at'[v] = at[v] /\ mem'[v] = mem[v] /\ tasks'[v] = tasks[v]
  BY HandlerKeeps DEF Base, Keeps, MovesOnly
<1>2. \A q : <<v, q>> \in outputs => <<v, q>> \in outputs'
  BY DEF HandlerStep, Download, ClaimRead, ClaimWrite, Start, Generate, Launch,
         SumoExits, End, Upload, Announce, Cleanup, copies
<1> QED
  BY <1>1, <1>2, SameStage

LEMMA EndAsStatus ==
  ASSUME Base, NEW w \in Workers, mem[w] \in Record, NEW status, EndAs(w, status)
  PROVE  mem'[w].status = status
<1>1. mem'[w] = [mem[w] EXCEPT !.status = status]
  BY BaseFacts DEF EndAs, RestType
<1> QED
  BY <1>1 DEF Record

LEMMA OwnStage ==
  ASSUME Base, NEW w \in Workers, StageRecord(w), NEW r \in Runs, HandlerStep(w, r)
  PROVE  StageRecord(w)'
<1> USE DEF Handling
<1>0. mem \in [Workers -> Known] /\ CopiesType /\ TypeOK
  BY BaseFacts DEF RestType
<1>1. \A stage \in {"download", "read", "claim", "start", "generate", "launch",
                    "sumo", "end", "upload", "reraise", "announce", "cleanup"} :
        Goto(w, stage) => tasks'[w] = tasks[w] /\ at'[w] = stage
  BY Goes DEF Base
<1>2. ASSUME at'[w] \notin {"claim", "generate", "launch", "sumo", "end"}
      PROVE  StageRecord(w)'
  BY <1>2 DEF StageRecord
<1>3. ASSUME Raise(w) \/ \E outcome \in {"ok", "error"} : Leave(w, outcome)
      PROVE  StageRecord(w)'
  BY <1>2, <1>3, LeaveEffect
<1>4. CASE Download(w, r)
  <2>1. CASE Goto(w, "read")
    BY <1>1, <1>2, <2>1
  <2> QED
    BY <1>3, <1>4, <2>1 DEF Download
<1>5. CASE ClaimRead(w, r)
  <2>1. CASE Leave(w, "error")
    BY <1>3, <2>1
  <2>2. CASE Goto(w, "announce")
    BY <1>1, <1>2, <2>2
  <2>3. CASE /\ ReadRun(w, r) # NoRec /\ ~IsTerminal(ReadRun(w, r)) /\ Goto(w, "claim")
             /\ mem' = [mem EXCEPT ![w] = ReadRun(w, r)]
    <3>1. at'[w] = "claim" /\ mem'[w] = ReadRun(w, r)
      BY <1>0, <1>1, <2>3
    <3> QED
      BY <2>3, <3>1 DEF StageRecord, IsTerminal
  <2> QED
    BY <1>5, <2>1, <2>2, <2>3 DEF ClaimRead
<1>6. CASE ClaimWrite(w, r)
  <2>1. CASE Goto(w, "start")
    BY <1>1, <1>2, <2>1
  <2> QED
    BY <1>3, <1>6, <2>1 DEF ClaimWrite
<1>7. CASE Start(w, r)
  <2> DEFINE rec == [local[w][r] EXCEPT !.status = "running"]
  <2>1. local[w][r] \in Record
    BY <1>7 DEF Start, Base, Inv, Staged, StagedAt
  <2>2. rec.status = "running"
    BY <2>1 DEF Record
  <2>3. mem' = [mem EXCEPT ![w] = rec] /\ Goto(w, "generate")
    BY <1>7 DEF Start
  <2> HIDE DEF rec
  <2>4. mem'[w] = rec /\ at'[w] = "generate"
    BY <1>0, <1>1, <2>3
  <2> QED
    BY <2>2, <2>4 DEF StageRecord
<1>8. CASE Generate(w, r)
  <2>1. mem[w] \in Record /\ at[w] = "generate" /\ UNCHANGED outputs
    BY <1>8, InvParts DEF Generate, Base, copies
  <2>2. CASE EndAs(w, "failed") /\ Goto(w, "end")
    <3>1. at'[w] = "end" /\ mem'[w].status = "failed"
      BY <1>1, <2>1, <2>2, EndAsStatus
    <3> QED
      BY <3>1 DEF StageRecord, Terminal
  <2>3. CASE Goto(w, "launch") /\ UNCHANGED mem
    <3>1. at'[w] = "launch" /\ mem'[w].status = "running"
      BY <1>1, <2>1, <2>3 DEF StageRecord
    <3> QED
      BY <3>1 DEF StageRecord
  <2> QED
    BY <1>8, <2>2, <2>3 DEF Generate
<1>9. CASE Launch(w, r)
  <2>1. at[w] = "launch" /\ at'[w] = "sumo" /\ mem' = mem
    BY <1>1, <1>9 DEF Launch
  <2> QED
    BY <2>1 DEF StageRecord
<1>10. CASE SumoExits(w, r)
  <2>1. mem[w] \in Record /\ at'[w] = "end" /\ tasks'[w] = tasks[w]
        /\ r = Head(tasks[w]) /\ <<w, r>> \in outputs'
    BY <1>1, <1>10, InvParts DEF SumoExits, Base
  <2>2. mem'[w].status \in Terminal
    BY <1>10, <2>1, EndAsStatus DEF SumoExits, Terminal
  <2> QED
    BY <2>1, <2>2 DEF StageRecord
<1>11. CASE End(w, r)
  BY <1>1, <1>2, <1>11 DEF End
<1>12. CASE Upload(w, r)
  <2>1. CASE Goto(w, "announce")
    BY <1>1, <1>2, <2>1
  <2> QED
    BY <1>3, <1>12, <2>1 DEF Upload
<1>13. CASE Announce(w, r)
  <2>1. CASE Goto(w, "cleanup")
    BY <1>1, <1>2, <2>1
  <2> QED
    BY <1>3, <1>13, <2>1 DEF Announce
<1>14. CASE Cleanup(w, r)
  BY <1>3, <1>14 DEF Cleanup
<1> QED
  BY <1>4, <1>5, <1>6, <1>7, <1>8, <1>9, <1>10, <1>11, <1>12, <1>13, <1>14
     DEF HandlerStep

LEMMA NextStages ==
  ASSUME Base, StageRecords, [Next]_vars
  PROVE  StageRecords'
<1> SUFFICES ASSUME NEW v \in Workers PROVE StageRecord(v)'
  BY DEF StageRecords
<1>0. /\ StageRecord(v)
      /\ mem \in [Workers -> Known] /\ tasks \in [Workers -> Seq(Runs)]
      /\ at[v] = "end" => tasks[v] # <<>>
  BY BaseFacts DEF StageRecords, RestType, Base, Inv, Staged, StagedAt
<1>1. ASSUME NEW w \in Workers, NEW r \in Runs, HandlerStep(w, r)
      PROVE  StageRecord(v)'
  BY <1>0, <1>1, OtherStages, OwnStage
<1>2. ASSUME NEW w \in Workers, RuntimeStep(w) \/ LoseConnection(w) \/ TerminalFailure(w)
      PROVE  StageRecord(v)'
  <2>1. UNCHANGED <<at, mem, outputs>>
    BY <1>2 DEF RuntimeStep, LoseConnection, TerminalFailure, handlerVars, copies
  <2>2. \/ tasks' = tasks
        \/ \E r \in Runs : tasks' = [tasks EXCEPT ![w] = Append(@, r)]
    BY <1>2 DEF RuntimeStep, LoseConnection, TerminalFailure, RT!Connect, RT!Get, RT!Ack,
                RT!Nack, RT!Reject, RT!Settle, RT!Restart, RT!LoseConnection
  <2>3. tasks[v] # <<>> => Head(tasks'[v]) = Head(tasks[v])
    BY <1>0, <2>2, HeadStays
  <2> QED
    BY <1>0, <2>1, <2>3, SameStage
<1>3. ASSUME NEW w \in Workers, Kill(w) PROVE StageRecord(v)'
  <2>1. CASE v = w
    <3>1. at'[v] = "download"
      BY <1>3, <2>1, BaseFacts DEF Kill, RestType
    <3> QED
      BY <3>1 DEF StageRecord
  <2>2. CASE v # w
    <3>1. at'[v] = at[v] /\ mem'[v] = mem[v] /\ tasks'[v] = tasks[v]
      BY <1>3, <2>2, KillKeeps DEF Base, Keeps, MovesOnly
    <3>2. \A q : <<v, q>> \in outputs => <<v, q>> \in outputs'
      BY <1>3, <2>2 DEF Kill
    <3> QED
      BY <1>0, <3>1, <3>2, SameStage
  <2> QED
    BY <2>1, <2>2
<1>4. ASSUME NEW w \in Workers, NEW r \in Runs, Progress(w, r) PROVE StageRecord(v)'
  <2>1. UNCHANGED <<at, tasks, outputs>> /\ at[w] = "sumo"
    BY <1>4 DEF Progress, runtimeVars, Handling
  <2>2. CASE v = w
    <3>1. mem[w] \in Record /\ mem[w].status = "running"
      BY <1>0, <2>1, <2>2, InvParts DEF Base, StageRecord
    <3>2. mem'[w] = [mem[w] EXCEPT !.stop = mem[w].stop \/ StopRequested(r)]
      BY <1>0, <1>4 DEF Progress
    <3>3. mem'[w].status = "running"
      BY <3>1, <3>2 DEF Record
    <3> QED
      BY <2>1, <2>2, <3>3 DEF StageRecord
  <2>3. CASE v # w
    <3>1. mem'[v] = mem[v]
      BY <1>0, <1>4, <2>3 DEF Progress
    <3> QED
      BY <1>0, <2>1, <3>1, SameStage
  <2> QED
    BY <2>2, <2>3
<1>5. ASSUME NEW r \in Runs, ApiStep(r) \/ UserCall(r) PROVE StageRecord(v)'
  <2>1. UNCHANGED <<at, mem, outputs>>
    BY <1>5 DEF ApiStep, UserCall, PublishRun, MarkQueueFailure, StopCancel, StopRemove,
                DeleteObjects, DeleteRow, Create, StopRead, DeleteRead, handlerVars, copies
  <2>2. tasks' = tasks
    BY <1>5, ApiRuntime DEF runtimeVars, RT!Publish, RT!workerVars
  <2> QED
    BY <1>0, <2>1, <2>2, SameStage
<1>6. CASE ApiRestart
  BY <1>0, <1>6, SameStage DEF ApiRestart, runtimeVars, handlerVars
<1>7. CASE UNCHANGED vars
  BY <1>0, <1>7, SameStage DEF vars, runtimeVars, handlerVars, copies
<1> QED
  BY <1>1, <1>2, <1>3, <1>4, <1>5, <1>6, <1>7 DEF Next, WorkerStep

-----------------------------------------------------------------------------
(* The invariant is preserved.                                             *)

\* A handler at work was at work before, or has just begun.
LEMMA WorkedBefore ==
  ASSUME Base, NEW w \in Workers, ExecutorStep(w), NEW q \in Runs, Works(w, q)'
  PROVE  at'[w] = "download" \/ (Works(w, q) /\ (at'[w] = at[w] \/ StageStep(w)))
<1>1. tasks[w] \in Seq(Runs) /\ (tasks[w] = <<>> => at[w] = "download")
  BY BaseFacts DEF Base, Inv, Staged, StagedAt
<1>2. ASSUME NEW r \in Runs, tasks'[w] = Append(tasks[w], r), tasks[w] # <<>>
      PROVE  Head(tasks'[w]) = Head(tasks[w])
  BY <1>1, <1>2, HeadStays
<1> QED
  BY <1>1, <1>2 DEF ExecutorStep, StageStep, LeaveStep, Works

\* A handler at work goes on, or ends.
LEMMA WorksAfter ==
  ASSUME Base, NEW w \in Workers, ExecutorStep(w), NEW q \in Runs, Works(w, q)
  PROVE  \/ Works(w, q)' /\ (at'[w] = at[w] \/ StageStep(w))
         \/ LeaveStep(w)
         \/ faults'.kill # 0
<1>1. tasks[w] \in Seq(Runs)
  BY BaseFacts
<1>2. ASSUME NEW r \in Runs, tasks'[w] = Append(tasks[w], r)
      PROVE  tasks'[w] # <<>> /\ Head(tasks'[w]) = Head(tasks[w])
  BY <1>1, <1>2, HeadStays DEF Works
<1> QED
  BY <1>2 DEF ExecutorStep, StageStep, Works

\* A handler of a published run reads the row.
LEMMA ReadsRow ==
  ASSUME Base, NEW w \in Workers, NEW q \in Runs, RowFirst(q), broker[q] # "unsent"
  PROVE  db[q] # NoRec /\ ReadRun(w, q) = db[q]
<1>1. db[q] # NoRec
  BY DEF RowFirst, Unheard
<1> QED
  BY <1>1, ReadType, BaseFacts, WorkersAreProcesses

LEMMA NextTold ==
  ASSUME Base, StageRecords, [Next]_vars, NEW q \in Runs \ deleted', Told(q)
  PROVE  Told(q)'
<1>1. DeliveryStep(q) /\ KeepStep(q)
  BY NextDelivery, NextKeep
<1>2. Announced(q) => Announced(q)'
  BY <1>1 DEF KeepStep
<1>3. broker'[q] = "acked" => Announced(q)'
  BY <1>1, <1>2 DEF DeliveryStep, Told
<1>4. \A w \in Workers : held'[w] = q /\ result'[w] = "ok" => Announced(q)'
  BY <1>1, <1>2 DEF DeliveryStep, Told
<1>5. ASSUME NEW w \in Workers, Handling(w, q, "cleanup")' PROVE Announced(q)'
  <2>1. Works(w, q)' /\ at'[w] = "cleanup"
    BY <1>5 DEF Handling, Works
  <2>2. Works(w, q) /\ (at'[w] = at[w] \/ StageStep(w))
    BY <2>1, NextExecutor, WorkedBefore
  <2>3. CASE at'[w] = at[w]
    BY <1>2, <2>1, <2>2, <2>3 DEF Told, Handling, Works
  <2>4. CASE StageStep(w)
    BY <2>1, <2>2, <2>4 DEF StageStep, Works
  <2> QED
    BY <2>2, <2>3, <2>4
<1> QED
  BY <1>3, <1>4, <1>5 DEF Told

\* A run that has ended stays so, unless a handler that writes is at work.
LEMMA StaysDone ==
  ASSUME NEW q \in Runs, RowStep(q), Done(q),
         \A w \in Workers : Works(w, q) => at[w] \in Reading
  PROVE  Done(q)'
BY DEF RowStep, Done, IsTerminal, Terminal

LEMMA NextFinal ==
  ASSUME Base, StageRecords, [Next]_vars, NEW q \in Runs \ deleted',
         RowFirst(q), faults.loss = 0, Final(q)
  PROVE  Final(q)'
<1>1. DeliveryStep(q) /\ KeepStep(q) /\ RowStep(q)
  BY NextDelivery, NextKeep, NextRow
<1>2. ASSUME Announced(q)
      PROVE  Done(q)' /\ \A w \in Workers : Works(w, q)' => at'[w] \in Reading
  <2>1. Done(q) /\ \A w \in Workers : Works(w, q) => at[w] \in Reading
    BY <1>2 DEF Final
  <2>2. ASSUME NEW w \in Workers, Works(w, q)' PROVE at'[w] \in Reading
    <3>1. CASE at'[w] = "download"
      BY <3>1 DEF Reading
    <3>2. CASE Works(w, q) /\ at'[w] = at[w]
      BY <2>1, <3>2
    <3>3. CASE Works(w, q) /\ StageStep(w)
      <4>1. ReadRun(w, q) = db[q]
        BY <3>3, HeadKnown, ReadsRow
      <4> QED
        BY <2>1, <3>3, <4>1 DEF StageStep, Works, Reading, Done
    <3> QED
      BY <2>2, <3>1, <3>2, <3>3, NextExecutor, WorkedBefore
  <2> QED
    BY <1>1, <2>1, <2>2, StaysDone
<1>3. ASSUME NEW w \in Workers, Handling(w, q, "announce"),
             IsTerminal(ReadRun(w, q)), db' = db
      PROVE  Done(q)' /\ \A v \in Workers : Works(v, q)' => at'[v] \in Reading
  <2>1. Works(w, q) /\ at[w] = "announce"
    BY <1>3 DEF Handling, Works
  <2>2. ReadRun(w, q) = db[q]
    BY <2>1, HeadKnown, ReadsRow
  <2>3. ASSUME NEW v \in Workers, Works(v, q)' PROVE at'[v] \in Reading
    <3>1. CASE at'[v] = "download"
      BY <3>1 DEF Reading
    <3>2. CASE Works(v, q) /\ (at'[v] = at[v] \/ StageStep(v))
      <4>1. v = w
        BY <2>1, <3>2, OneHandler
      <4> QED
        BY <2>1, <3>2, <4>1 DEF StageStep, Reading
    <3> QED
      BY <2>3, <3>1, <3>2, NextExecutor, WorkedBefore
  <2> QED
    BY <1>3, <2>2, <2>3 DEF Done
<1>4. ASSUME broker[q] = "dead" PROVE Done(q)'
  <2>1. \A w \in Workers : ~Works(w, q)
    BY <1>4, OneHandler
  <2> QED
    BY <1>1, <1>4, <2>1, StaysDone DEF Final
<1>5. ASSUME NEW w \in Workers, held[w] = q, MarkFailed(w, q) PROVE Done(q)'
  <2>1. broker[q] = "unacked"
    BY <1>5, BaseFacts, LifecycleAssumption DEF LifecycleAssumption
  <2>2. db[q] # NoRec /\ ReadRun(w, q) = db[q]
    BY <2>1, ReadsRow
  <2> QED
    BY <1>5, <2>2, MarkStatus, BaseFacts, WorkersAreProcesses DEF Done, IsTerminal, Terminal
<1> QED
  BY <1>1, <1>2, <1>3, <1>4, <1>5 DEF Final, KeepStep, DeliveryStep

LEMMA NextAttended ==
  ASSUME Base, StageRecords, [Next]_vars, NEW q \in Runs \ deleted',
         RowFirst(q), HandlersEnd', Attended(q)
  PROVE  Attended(q)'
<1> SUFFICES ASSUME db'[q] # NoRec, ~Done(q)'
             PROVE  broker'[q] \in {"unsent", "ready"} \/ WillEnd(q)'
  BY DEF Attended
<1>1. DeliveryStep(q) /\ RowStep(q) /\ \A w \in Workers : ExecutorStep(w)
  BY NextDelivery, NextRow, NextExecutor
<1>2. errors' = 0 /\ faults'.kill = 0
  BY DEF HandlersEnd
<1>3. ASSUME NEW w \in Workers, NEW i \in DOMAIN tasks'[w], tasks'[w][i] = q,
             i = 1 => at'[w] \notin {"upload", "reraise", "announce", "cleanup"}
      PROVE  WillEnd(q)'
  BY <1>3 DEF WillEnd
<1>4. ASSUME db[q] # NoRec, ~Done(q)
      PROVE  broker'[q] \in {"unsent", "ready"} \/ WillEnd(q)'
  <2>1. CASE broker[q] \in {"unsent", "ready"}
    <3>1. ASSUME NEW w \in Workers, tasks'[w] = Append(tasks[w], q), at'[w] = at[w]
          PROVE  WillEnd(q)'
      <4> DEFINE n == Len(tasks[w]) + 1
      <4>1. tasks[w] \in Seq(Runs) /\ (tasks[w] = <<>> => at[w] = "download")
        BY BaseFacts DEF Base, Inv, Staged, StagedAt
      <4>2. n \in DOMAIN tasks'[w] /\ tasks'[w][n] = q /\ (n = 1 => tasks[w] = <<>>)
        BY <3>1, <4>1
      <4> QED
        BY <1>3, <3>1, <4>1, <4>2
    <3> QED
      BY <1>1, <2>1, <3>1 DEF DeliveryStep
  <2>2. CASE WillEnd(q)
    <3>1. PICK w \in Workers : \E i \in DOMAIN tasks[w] :
            /\ tasks[w][i] = q
            /\ i = 1 => at[w] \notin {"upload", "reraise", "announce", "cleanup"}
      BY <2>2 DEF WillEnd
    <3>2. PICK i \in DOMAIN tasks[w] :
            /\ tasks[w][i] = q
            /\ i = 1 => at[w] \notin {"upload", "reraise", "announce", "cleanup"}
      BY <3>1
    <3>3. tasks[w] \in Seq(Runs) /\ i \in 1 .. Len(tasks[w]) /\ tasks[w] # <<>>
      BY BaseFacts
    <3>4. i = 1 => Works(w, q) /\ ReadRun(w, q) = db[q]
      <4> SUFFICES ASSUME i = 1 PROVE Works(w, q) /\ ReadRun(w, q) = db[q]
        OBVIOUS
      <4>1. Works(w, q)
        BY <3>2, <3>3 DEF Works
      <4> QED
        BY <4>1, HeadKnown, ReadsRow
    <3>5. CASE tasks'[w] = tasks[w] /\ at'[w] = at[w]
      BY <1>3, <3>2, <3>5
    <3>6. ASSUME NEW r \in Runs, tasks'[w] = Append(tasks[w], r), at'[w] = at[w]
          PROVE  WillEnd(q)'
      <4>1. i \in DOMAIN tasks'[w] /\ tasks'[w][i] = q
        BY <3>2, <3>3, <3>6
      <4> QED
        BY <1>3, <3>2, <3>6, <4>1
    <3>7. CASE StageStep(w)
      <4>1. tasks'[w] = tasks[w]
        BY <3>7 DEF StageStep
      <4>2. i = 1 => at'[w] \notin {"upload", "reraise", "announce", "cleanup"}
        BY <1>2, <1>4, <3>2, <3>4, <3>7 DEF StageStep, Works, Done
      <4> QED
        BY <1>3, <3>2, <4>1, <4>2
    <3>8. CASE LeaveStep(w)
      <4>1. i # 1
        BY <1>2, <1>4, <3>2, <3>4, <3>8 DEF LeaveStep, Works
      <4>2. tasks'[w] = Tail(tasks[w]) /\ at'[w] = "download"
        BY <3>8 DEF LeaveStep
      <4>3. i - 1 \in DOMAIN tasks'[w] /\ tasks'[w][i - 1] = q
        BY <3>2, <3>3, <4>1, <4>2
      <4> QED
        BY <1>3, <4>2, <4>3
    <3> QED
      BY <1>1, <1>2, <3>5, <3>6, <3>7, <3>8 DEF ExecutorStep
  <2> QED
    BY <1>4, <2>1, <2>2 DEF Attended
<1>5. ASSUME NEW w \in Workers, Works(w, q), tasks' = tasks,
             at'[w] \in {"start", "generate", "sumo"}
      PROVE  WillEnd(q)'
  <2>1. 1 \in DOMAIN tasks'[w] /\ tasks'[w][1] = q
    BY <1>5, HeadKnown
  <2> QED
    BY <1>3, <1>5, <2>1
<1> QED
  BY <1>1, <1>2, <1>4, <1>5 DEF RowStep, Done, IsTerminal, Terminal

LEMMA NextSaved ==
  ASSUME Base, StageRecords, [Next]_vars, NEW q \in Runs \ deleted',
         RowFirst(q), HandlersEnd', Saved(q)
  PROVE  Saved(q)'
<1> SUFFICES ASSUME db'[q] # NoRec, db'[q].status = "completed"
             PROVE  q \in archived' \/ \E w \in Workers : Uploading(w, q)'
  BY DEF Saved
<1>1. KeepStep(q) /\ RowStep(q) /\ \A w \in Workers : ExecutorStep(w)
  BY NextKeep, NextRow, NextExecutor
<1>2. errors' = 0 /\ faults'.kill = 0
  BY DEF HandlersEnd
<1>3. ASSUME db[q] # NoRec, db[q].status = "completed"
      PROVE  q \in archived' \/ \E w \in Workers : Uploading(w, q)'
  <2>1. CASE q \in archived
    BY <1>1, <2>1 DEF KeepStep
  <2>2. ASSUME NEW w \in Workers, Uploading(w, q) PROVE q \in archived' \/ Uploading(w, q)'
    <3>1. Works(w, q) /\ at[w] = "upload" /\ <<w, q>> \in outputs
      BY <2>2 DEF Uploading, Handling, Works
    <3>2. ~LeaveStep(w)
      BY <1>2, <3>1 DEF LeaveStep
    <3>3. Works(w, q)' /\ (at'[w] = at[w] \/ StageStep(w))
      BY <1>1, <1>2, <3>1, <3>2, WorksAfter
    <3>4. <<w, q>> \in outputs'
      BY <1>1, <1>2, <3>1 DEF KeepStep, Handling
    <3>5. CASE at'[w] = at[w]
      BY <3>1, <3>3, <3>4, <3>5 DEF Uploading, Handling, Works
    <3>6. CASE StageStep(w)
      BY <3>1, <3>6 DEF StageStep, Works
    <3> QED
      BY <3>3, <3>5, <3>6
  <2> QED
    BY <1>3, <2>1, <2>2 DEF Saved
<1> QED
  BY <1>1, <1>2, <1>3 DEF RowStep, Terminal

LEMMA InitComplete == Init => Complete
BY RecordAssumption
   DEF Init, RT!Init, Complete, StageRecords, StageRecord, RunComplete, RowFirst, Unheard,
       Announced, Told, Handling, Final, Attended, Saved, Idle

LEMMA NextComplete == Base /\ Complete /\ [Next]_vars => Complete'
<1> SUFFICES ASSUME Base, Complete, [Next]_vars PROVE Complete'
  OBVIOUS
<1>1. StageRecords /\ StageRecords'
  BY NextStages DEF Complete
<1>2. ASSUME NEW q \in Runs \ deleted' PROVE RunComplete(q)'
  <2>1. deleted \subseteq deleted'
    BY <1>2, NextKeep DEF KeepStep
  <2>2. RunComplete(q)
    BY <2>1 DEF Complete
  <2>3. FaultsStay
    BY NextFaults
  <2>4. RowFirst(q)' /\ Told(q)'
    BY <1>1, <2>2, NextRowFirst, NextTold DEF RunComplete
  <2>5. faults'.loss = 0 => Final(q)'
    BY <1>1, <2>2, <2>3, NextFinal DEF RunComplete, FaultsStay
  <2>6. HandlersEnd' => HandlersEnd
    BY <2>3 DEF FaultsStay, HandlersEnd
  <2>7. HandlersEnd' => Attended(q)' /\ Saved(q)'
    BY <1>1, <2>2, <2>6, NextAttended, NextSaved DEF RunComplete
  <2> QED
    BY <2>4, <2>5, <2>7 DEF RunComplete
<1> QED
  BY <1>1, <1>2 DEF Complete

-----------------------------------------------------------------------------
(* The theorems.                                                           *)

\* The invariant: the row of a run, its delivery, its handlers, its announcement
\* and its outputs fit together in every state, whatever workers, API and faults
\* do.
THEOREM CompleteHolds == Spec => [](Base /\ Complete)
<1>1. Init => Base /\ Complete
  BY InitBase, InitComplete
<1>2. Base /\ Complete /\ [Next]_vars => (Base /\ Complete)'
  BY NextBase, NextComplete
<1> QED
  BY <1>1, <1>2, PTL DEF Spec

\* A run the queue has settled has ended, or a handler that will end it is at
\* work: no run is left queued or running with nobody to finish it.
THEOREM NoAbandonedRunHolds == Spec => []NoAbandonedRun
<1>1. Base /\ Complete => NoAbandonedRun
  <2> SUFFICES ASSUME Base, Complete, faults.loss = 0 \/ HandlersEnd,
                      NEW r \in Runs \ deleted, broker[r] \in {"acked", "dead"}
               PROVE  HasEnded(r) \/ HandlerAlive(r)
    BY DEF NoAbandonedRun
  <2>1. RunComplete(r)
    BY DEF Complete
  <2>2. CASE faults.loss = 0
    BY <2>1, <2>2 DEF RunComplete, Told, Final, Done, HasEnded
  <2>3. CASE HandlersEnd
    BY <2>1, <2>3 DEF RunComplete, Attended, WillEnd, Done, HasEnded, HandlerAlive
  <2> QED
    BY <2>2, <2>3
<1> QED
  BY <1>1, CompleteHolds, PTL

\* A run announced to the analytics workers is never active again, as long as no
\* lost connection gives it a second handler.
THEOREM AnnouncedStaysFinishedHolds == Spec => []AnnouncedStaysFinished
<1>1. Base /\ Complete => AnnouncedStaysFinished
  BY DEF Complete, RunComplete, Final, Announced, Done, AnnouncedStaysFinished, HasEnded
<1> QED
  BY <1>1, CompleteHolds, PTL

\* A settled completed run has its outputs in MinIO, or a handler has yet to
\* upload them, whatever connections are lost and however often the API crashes.
THEOREM OutputsArchivedHolds == Spec => []OutputsArchivedUnlessKilled
<1>1. Base /\ Complete => OutputsArchivedUnlessKilled
  <2> SUFFICES ASSUME Base, Complete, HandlersEnd, NEW r \in Runs \ deleted,
                      db[r] # NoRec, db[r].status = "completed"
               PROVE  r \in archived \/ HandlerAlive(r)
    BY DEF OutputsArchivedUnlessKilled, OutputsArchived
  <2>1. Saved(r)
    BY DEF Complete, RunComplete
  <2>2. ASSUME NEW w \in Workers, Uploading(w, r) PROVE HandlerAlive(r)
    <3>1. 1 \in DOMAIN tasks[w] /\ tasks[w][1] = r
      BY <2>2, HeadKnown DEF Uploading, Handling, Works
    <3> QED
      BY <3>1 DEF HandlerAlive
  <2> QED
    BY <2>1, <2>2 DEF Saved
<1> QED
  BY <1>1, CompleteHolds, PTL
=============================================================================
