--------------------------- MODULE FlowCalibration ---------------------------
(***************************************************************************)
(* A locked flow calibration: a session of simulations that follow one     *)
(* another.  The API starts it (create_flow_calibration); from then on it  *)
(* lives in the handler of the analytics workers, which counts the run     *)
(* whose end was announced, creates the run of the next iteration and      *)
(* queues it (advance_flow_calibration).  Only the messages keep it going: *)
(* nothing else ever looks at a session again.                             *)
(*                                                                         *)
(* The analytics queue is the abstract job queue of module JobQueue, whose *)
(* implementation is WorkerRuntime; the simulation workers of RunLifecycle *)
(* are reduced to the end of a run.  A comparison of flows is reduced to   *)
(* its outcome, and PostgreSQL is taken to be available.                   *)
(***************************************************************************)
EXTENDS Naturals, Sequences, FiniteSets

CONSTANTS
  Workers,      \* analytics workers
  Api,          \* the API process
  None,
  NoSession,    \* no copy of the session row
  Iterations,   \* total_iterations
  MaxRuns,      \* bound: runs the session may create, spoiled ones included
  MaxKills,     \* bound: processes killed while they work on the session
  MaxLosses,    \* bound: broker connections lost under a running handler
  MaxErrors,    \* bound: calls of MinIO or the broker that raise
  MaxBuried     \* bound: runs that end in the dead queue

ASSUME CalibrationAssumption ==
  /\ Api \notin Workers
  /\ Iterations \in Nat \ {0}
  /\ {MaxRuns, MaxKills, MaxLosses, MaxErrors, MaxBuried} \subseteq Nat
  /\ None \notin 1 .. MaxRuns

VARIABLES
  session,    \* the flow_calibrations row
  run,        \* the simulation_runs rows of the session, by creation order
  waiting,    \* runs with a message in the simulation queue
  requested,  \* history: runs whose message the broker took
  fate,       \* analytics messages, one for each announced run: JobQueue
  processed,
  pc,         \* where each process is
  held,       \* the run whose end a worker is handling
  owner,      \* workers whose delivery is still theirs
  mem,        \* the copy of the session row a process works on
  next,       \* the run a process has just created
  faults,     \* faults so far
  gap         \* history: a process died between the row and the message

queueVars == <<fate, processed>>
procVars == <<pc, held, mem, next>>
vars == <<session, run, waiting, requested, queueVars, procVars, owner,
          faults, gap>>

Runs == 1 .. MaxRuns
Processes == Workers \cup {Api}

Queue == INSTANCE JobQueue WITH Messages <- Runs, Malformed <- {}

Session == [status : {"running", "completed", "failed"},
            done : 0 .. Iterations, runs : Seq(Runs), results : Seq(Runs)]

ASSUME SessionAssumption == NoSession \notin Session

RunState == {"none", "queued", "completed", "failed"}
Stages == {"idle", "create", "persist", "publish", "giveup",
           "download", "read", "compare", "archive", "ack"}

TypeOK ==
  /\ session \in Session \cup {NoSession}
  /\ run \in [Runs -> [state : RunState, iteration : 0 .. Iterations]]
  /\ waiting \subseteq requested
  /\ requested \subseteq Runs
  /\ fate \in [Runs -> Queue!Fates]
  /\ processed \subseteq Runs
  /\ pc \in [Processes -> Stages]
  /\ held \in [Processes -> Runs \cup {None}]
  /\ owner \subseteq Workers
  /\ mem \in [Processes -> Session \cup {NoSession}]
  /\ next \in [Processes -> Runs \cup {None}]
  /\ faults \in [kill : 0 .. MaxKills, loss : 0 .. MaxLosses,
                 error : 0 .. MaxErrors, buried : 0 .. MaxBuried]
  /\ gap \in BOOLEAN

Init ==
  /\ session = NoSession
  /\ run = [r \in Runs |-> [state |-> "none", iteration |-> 0]]
  /\ waiting = {}
  /\ requested = {}
  /\ Queue!Init
  /\ pc = [p \in Processes |-> "idle"]
  /\ held = [p \in Processes |-> None]
  /\ owner = {}
  /\ mem = [p \in Processes |-> NoSession]
  /\ next = [p \in Processes |-> None]
  /\ faults = [kill |-> 0, loss |-> 0, error |-> 0, buried |-> 0]
  /\ gap = FALSE

-----------------------------------------------------------------------------
(* Steps of a process.                                                     *)

GoTo(p, stage) == pc' = [pc EXCEPT ![p] = stage]

Work(p, copy) == mem' = [mem EXCEPT ![p] = copy]

Failed(copy) == [copy EXCEPT !.status = "failed"]

MayRaise == faults.error < MaxErrors
Raised == faults' = [faults EXCEPT !.error = @ + 1]

\* The process forgets what it worked on and waits for the next delivery.
Rest(p) ==
  /\ pc' = [pc EXCEPT ![p] = "idle"]
  /\ held' = [held EXCEPT ![p] = None]
  /\ mem' = [mem EXCEPT ![p] = NoSession]
  /\ next' = [next EXCEPT ![p] = None]
  /\ owner' = owner \ {p}

\* An exception leaves the handler: the delivery is retried once, then buried.
HandlerRaises(w) ==
  /\ Rest(w)
  /\ \/ w \notin owner /\ UNCHANGED queueVars
     \/ w \in owner /\ fate[held[w]] = "fresh" /\ Queue!Retry(held[w])
     \/ w \in owner /\ fate[held[w]] = "retry" /\ Queue!Bury(held[w])

\* A delivery goes back to the queue with its worker or its connection.
Redelivered(r) ==
  \/ fate[r] = "fresh" /\ Queue!Retry(r)
  \/ fate[r] # "fresh" /\ UNCHANGED queueVars

-----------------------------------------------------------------------------
(* Creating, recording and queueing the run of an iteration: the API for   *)
(* the first one, an analytics worker for the others.                      *)

\* create_flow_calibration: the row of a new session comes first.
Start ==
  /\ session = NoSession
  /\ pc[Api] = "idle"
  /\ session' = [status |-> "running", done |-> 0, runs |-> <<>>, results |-> <<>>]
  /\ Work(Api, session')
  /\ GoTo(Api, "create")
  /\ UNCHANGED <<run, waiting, requested, queueVars, held, next, owner, faults, gap>>

Unused == {r \in Runs : run[r].state = "none"}
Fresh == CHOOSE r \in Unused : \A q \in Unused : r <= q

\* create_simulation_run writes the record of the next iteration and uploads
\* its inputs; a failure ends the session and may leave the record behind.
Create(p) ==
  /\ pc[p] = "create"
  /\ Unused # {}
  /\ LET record == [run EXCEPT ![Fresh] =
                      [state |-> "queued", iteration |-> mem[p].done + 1]]
     IN \/ /\ run' = record
           /\ next' = [next EXCEPT ![p] = Fresh]
           /\ Work(p, [mem[p] EXCEPT !.runs = Append(@, Fresh)])
           /\ UNCHANGED faults
        \/ /\ MayRaise
           /\ Raised
           /\ run' \in {run, record}
           /\ Work(p, Failed(mem[p]))
           /\ UNCHANGED next
  /\ GoTo(p, "persist")
  /\ UNCHANGED <<session, waiting, requested, queueVars, held, owner, gap>>

AfterPersist(p) ==
  IF mem[p].status = "running" THEN "publish"
    ELSE IF p = Api THEN "idle" ELSE "archive"

\* A slip: only the end of a session is written.
PersistEnded(p) ==
  /\ pc[p] = "persist"
  /\ session' = IF mem[p].status = "running" THEN session ELSE mem[p]
  /\ GoTo(p, AfterPersist(p))
  /\ UNCHANGED <<run, waiting, requested, queueVars, held, mem, next, owner, faults, gap>>

\* The whole row is written from the copy: the last writer wins.
Persist(p) ==
  /\ pc[p] = "persist"
  /\ session' = mem[p]
  /\ GoTo(p, AfterPersist(p))
  /\ UNCHANGED <<run, waiting, requested, queueVars, held, mem, next, owner, faults, gap>>

Taken(r) ==
  /\ waiting' = waiting \cup {r}
  /\ requested' = requested \cup {r}

\* _publish_run.  A publication that raises may have reached the broker; the
\* run and the session are marked failed and the exception goes on.
Publish(p) ==
  /\ pc[p] = "publish"
  /\ \/ /\ Taken(next[p])
        /\ GoTo(p, IF p = Api THEN "idle" ELSE "archive")
        /\ UNCHANGED <<run, mem, faults>>
     \/ /\ MayRaise
        /\ Raised
        /\ \/ Taken(next[p])
           \/ UNCHANGED <<waiting, requested>>
        /\ run' = [run EXCEPT ![next[p]].state = IF @ = "queued" THEN "failed" ELSE @]
        /\ Work(p, Failed(mem[p]))
        /\ GoTo(p, "giveup")
  /\ UNCHANGED <<session, queueVars, held, next, owner, gap>>

\* A slip: the failed publication is only logged.
GiveUpQuietly(p) ==
  /\ pc[p] = "giveup"
  /\ \/ p \in Workers /\ HandlerRaises(p)
     \/ p = Api /\ Rest(p) /\ UNCHANGED queueVars
  /\ UNCHANGED <<session, run, waiting, requested, faults, gap>>

GiveUp(p) ==
  /\ pc[p] = "giveup"
  /\ session' = mem[p]
  /\ \/ p \in Workers /\ HandlerRaises(p)
     \/ p = Api /\ Rest(p) /\ UNCHANGED queueVars
  /\ UNCHANGED <<run, waiting, requested, faults, gap>>

-----------------------------------------------------------------------------
(* The simulation side.                                                    *)

\* A simulation worker ends the run, or finds it ended, and announces it.
RunEnds(r) ==
  /\ r \in waiting
  /\ waiting' = waiting \ {r}
  /\ \E state \in {"completed", "failed"} :
       /\ run[r].state # "queued" => state = run[r].state
       /\ run' = [run EXCEPT ![r].state = state]
  /\ Queue!Submit(r)
  /\ UNCHANGED <<session, requested, procVars, owner, faults, gap>>

\* Its message failed twice: _terminal_failure marks the run, announces nothing.
RunBuried(r) ==
  /\ faults.buried < MaxBuried
  /\ r \in waiting
  /\ waiting' = waiting \ {r}
  /\ run' = [run EXCEPT ![r].state = IF @ = "queued" THEN "failed" ELSE @]
  /\ faults' = [faults EXCEPT !.buried = @ + 1]
  /\ UNCHANGED <<session, requested, queueVars, procVars, owner, gap>>

-----------------------------------------------------------------------------
(* The handler of an analytics worker.                                     *)

Deliver(w, r) ==
  /\ pc[w] = "idle"
  /\ fate[r] \in {"fresh", "retry"}
  /\ \A v \in owner : held[v] # r
  /\ held' = [held EXCEPT ![w] = r]
  /\ owner' = owner \cup {w}
  /\ GoTo(w, "download")
  /\ UNCHANGED <<session, run, waiting, requested, queueVars, mem, next, faults, gap>>

\* Outputs are fetched from MinIO and summarised before the session is looked at.
Download(w) ==
  /\ pc[w] = "download"
  /\ \/ GoTo(w, "read") /\ UNCHANGED <<held, mem, next, owner, queueVars, faults>>
     \/ MayRaise /\ Raised /\ HandlerRaises(w)
  /\ UNCHANGED <<session, run, waiting, requested, gap>>

\* A slip: a redelivered announcement is counted again.
ReadAlways(w) ==
  LET record == run[held[w]] IN
  /\ pc[w] = "read"
  /\ \/ /\ session.status # "running"
        /\ GoTo(w, "archive")
        /\ UNCHANGED mem
     \/ /\ session.status = "running"
        /\ Work(w, IF record.state = "completed" THEN session ELSE Failed(session))
        /\ GoTo(w, IF record.state = "completed" THEN "compare" ELSE "persist")
  /\ UNCHANGED <<session, run, waiting, requested, queueVars, held, next, owner, faults, gap>>

\* The session row is read once and decides: ended, counted already, or open.
ReadSession(w) ==
  LET record == run[held[w]] IN
  /\ pc[w] = "read"
  /\ \/ /\ session.status # "running" \/ session.done >= record.iteration
        /\ GoTo(w, "archive")
        /\ UNCHANGED mem
     \/ /\ session.status = "running" /\ session.done < record.iteration
        /\ record.state # "completed"
        /\ Work(w, Failed(session))
        /\ GoTo(w, "persist")
     \/ /\ session.status = "running" /\ session.done < record.iteration
        /\ record.state = "completed"
        /\ Work(w, session)
        /\ GoTo(w, "compare")
  /\ UNCHANGED <<session, run, waiting, requested, queueVars, held, next, owner, faults, gap>>

\* Measured and physical flow are compared.  "error": the detector or the
\* reference data cannot be compared, nothing is counted; "zero": no finite
\* ratio; "lost": the snapshot the next iteration needs is gone.
Counted(copy, r) ==
  [copy EXCEPT !.done = run[r].iteration, !.results = Append(@, r)]

IsLast(copy) == copy.done >= Iterations

Compare(w) ==
  LET counted == Counted(mem[w], held[w]) IN
  /\ pc[w] = "compare"
  /\ \E outcome \in {"error", "zero", "lost", "finite"} :
       \/ /\ outcome = "error"
          /\ Work(w, Failed(mem[w]))
          /\ GoTo(w, "persist")
       \/ /\ outcome = "zero"
          /\ Work(w, Failed(counted))
          /\ GoTo(w, "persist")
       \/ /\ outcome \in {"finite", "lost"}
          /\ IsLast(counted)
          /\ Work(w, [counted EXCEPT !.status = "completed"])
          /\ GoTo(w, "persist")
       \/ /\ outcome = "lost"
          /\ ~IsLast(counted)
          /\ Work(w, Failed(counted))
          /\ GoTo(w, "persist")
       \/ /\ outcome = "finite"
          /\ ~IsLast(counted)
          /\ Work(w, counted)
          /\ GoTo(w, "create")
  /\ UNCHANGED <<session, run, waiting, requested, queueVars, held, next, owner, faults, gap>>

\* The snapshot and the artifacts are indexed and uploaded.
Archive(w) ==
  /\ pc[w] = "archive"
  /\ \/ /\ Queue!Process(held[w])
        /\ GoTo(w, "ack")
        /\ UNCHANGED <<held, mem, next, owner, faults>>
     \/ MayRaise /\ Raised /\ HandlerRaises(w)
  /\ UNCHANGED <<session, run, waiting, requested, gap>>

Ack(w) ==
  /\ pc[w] = "ack"
  /\ \/ w \in owner /\ Queue!Complete(held[w])
     \/ w \notin owner /\ UNCHANGED queueVars
  /\ Rest(w)
  /\ UNCHANGED <<session, run, waiting, requested, faults, gap>>

-----------------------------------------------------------------------------
(* Faults.                                                                 *)

\* The connection is lost under a handler, which goes on with its work.
LoseConnection(w) ==
  /\ faults.loss < MaxLosses
  /\ w \in owner
  /\ owner' = owner \ {w}
  /\ faults' = [faults EXCEPT !.loss = @ + 1]
  /\ Redelivered(held[w])
  /\ UNCHANGED <<session, run, waiting, requested, procVars, gap>>

\* The row says running and the message that would keep it so is not sent.
InGap(p) ==
  \/ pc[p] \in {"publish", "giveup"}
  \/ p = Api /\ pc[p] \in {"create", "persist"}

Kill(p) ==
  /\ faults.kill < MaxKills
  /\ pc[p] # "idle"
  /\ Rest(p)
  /\ faults' = [faults EXCEPT !.kill = @ + 1]
  /\ gap' = (gap \/ InGap(p))
  /\ IF p \in owner THEN Redelivered(held[p]) ELSE UNCHANGED queueVars
  /\ UNCHANGED <<session, run, waiting, requested>>

Step(p) == Create(p) \/ Persist(p) \/ Publish(p) \/ GiveUp(p)

Handle(w) ==
  \/ \E r \in Runs : Deliver(w, r)
  \/ Download(w)
  \/ ReadSession(w)
  \/ Compare(w)
  \/ Archive(w)
  \/ Ack(w)

Next ==
  \/ Start
  \/ \E p \in Processes : Step(p)
  \/ \E w \in Workers : Handle(w)
  \/ \E r \in Runs : RunEnds(r) \/ RunBuried(r)
  \/ \E w \in Workers : LoseConnection(w)
  \/ \E p \in Processes : Kill(p)

Spec == Init /\ [][Next]_vars

\* Processes work on what they hold and simulations end; a user need not
\* start a session, and nobody is owed a fault.
FairSpec ==
  /\ Spec
  /\ \A p \in Processes : WF_vars(Step(p))
  /\ \A w \in Workers : WF_vars(Handle(w))
  /\ \A r \in Runs : WF_vars(RunEnds(r))

-----------------------------------------------------------------------------
(* Properties.                                                             *)

Exclusive == faults.loss = 0

\* Iterations run one after the other, each queued once when the one before
\* it is counted, and an ended session never changes: module
\* CalibrationSession, through redeliveries, kills and failed calls.
Promise == INSTANCE CalibrationSession WITH
  status <- IF session = NoSession THEN "none" ELSE session.status,
  done <- IF session = NoSession THEN 0 ELSE session.done,
  launched <- Cardinality(requested),
  exclusive <- Exclusive

KeepsPromise == Promise!Spec

\* Every counted iteration rests on its own completed run, in order, and the
\* run that iteration queued: what the analytics page groups by the session.
ResultsAreOwnRuns ==
  Exclusive /\ session # NoSession =>
    /\ Len(session.results) = session.done
    /\ \A i \in 1 .. session.done :
         /\ session.results[i] = session.runs[i]
         /\ run[session.results[i]] = [state |-> "completed", iteration |-> i]

\* What may leave a session running for good: a process that died between
\* the row and the message, a message in either dead queue, or two handlers
\* on one delivery.
Stranded ==
  \/ gap
  \/ faults.buried > 0
  \/ ~Exclusive
  \/ \E r \in Runs : fate[r] = "dead"

Open == session # NoSession /\ session.status = "running"

\* Any other kill and any single failed call is survived: the session ends.
SessionEnds == Open ~> (~Open \/ Stranded)

=============================================================================
