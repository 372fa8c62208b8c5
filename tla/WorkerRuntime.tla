--------------------------- MODULE WorkerRuntime ---------------------------
(***************************************************************************)
(* One durable RabbitMQ queue and the worker processes that consume it     *)
(* (shared/worker_runtime.py, shared/message_broker.py).  A worker's main  *)
(* thread polls the queue, hands each delivery to a one-thread executor,   *)
(* keeps the connection alive until the handler ends and only then settles *)
(* the delivery.  What a handler does is left open here: it ends normally  *)
(* or raises.  Module RunLifecycle gives the handler of the simulation     *)
(* worker.                                                                 *)
(*                                                                         *)
(* The broker is external code: it is modelled by what the source relies   *)
(* on.  A delivery that its consumer has not settled when the connection   *)
(* goes away returns to its place in the queue, flagged as redelivered.    *)
(***************************************************************************)
EXTENDS Naturals, Sequences

CONSTANTS
  Workers,
  Messages,
  Malformed,      \* messages whose body is not a JSON object
  None,           \* no delivery is held
  MaxLosses,      \* bound: connections lost by workers
  MaxKills,       \* bound: worker processes killed
  MaxShutdowns    \* bound: worker processes asked to terminate

ASSUME RuntimeAssumption ==
  /\ Malformed \subseteq Messages
  /\ None \notin Messages
  /\ MaxLosses \in Nat
  /\ MaxKills \in Nat
  /\ MaxShutdowns \in Nat

VARIABLES
  broker,       \* the broker's view of each message
  sent,         \* messages in the order of their publication
  redelivered,  \* messages the broker flags as redelivered
  phase,        \* each worker process: serving, stopping (SIGTERM seen), down
  link,         \* each worker's connection to the broker
  held,         \* the delivery each worker has yet to settle
  result,       \* how the handler of the held delivery ended
  tasks,        \* each executor's jobs: the first one is running
  handled,      \* history: messages some handler processed to a normal end
  faults        \* how many of each bounded fault have happened

brokerVars == <<broker, sent, redelivered>>
workerVars == <<phase, link, held, result, tasks>>
runtimeVars == <<broker, sent, redelivered, phase, link, held, result, tasks,
                 handled, faults>>

FaultCounts ==
  [loss : 0 .. MaxLosses, kill : 0 .. MaxKills, shutdown : 0 .. MaxShutdowns]

TypeOK ==
  /\ broker \in [Messages -> {"unsent", "ready", "unacked", "acked", "dead"}]
  /\ sent \in Seq(Messages)
  /\ redelivered \subseteq Messages
  /\ phase \in [Workers -> {"serving", "stopping", "down"}]
  /\ link \in [Workers -> {"open", "closed"}]
  /\ held \in [Workers -> Messages \cup {None}]
  /\ result \in [Workers -> {"pending", "ok", "error"}]
  /\ tasks \in [Workers -> Seq(Messages)]
  /\ handled \subseteq Messages
  /\ faults \in FaultCounts

Init ==
  /\ broker = [m \in Messages |-> "unsent"]
  /\ sent = <<>>
  /\ redelivered = {}
  /\ phase = [w \in Workers |-> "serving"]
  /\ link = [w \in Workers |-> "closed"]
  /\ held = [w \in Workers |-> None]
  /\ result = [w \in Workers |-> "pending"]
  /\ tasks = [w \in Workers |-> <<>>]
  /\ handled = {}
  /\ faults = [loss |-> 0, kill |-> 0, shutdown |-> 0]

-----------------------------------------------------------------------------
(* The broker: publication, the head of the queue, a consumer going away.  *)

\* A confirmed, persistent publication.
Publish(m) ==
  /\ broker[m] = "unsent"
  /\ broker' = [broker EXCEPT ![m] = "ready"]
  /\ sent' = Append(sent, m)
  /\ UNCHANGED <<redelivered, workerVars, handled, faults>>

\* The ready message published first: requeued messages regain their place.
IsHead(m) ==
  \E i \in DOMAIN sent :
    /\ sent[i] = m
    /\ broker[m] = "ready"
    /\ \A j \in 1 .. (i - 1) : broker[sent[j]] # "ready"

\* A slip: the loop still believes in a delivery the broker took back.
RequeueUnnoticed(w) ==
  /\ UNCHANGED <<held, result>>
  /\ IF held[w] = None
       THEN UNCHANGED <<broker, redelivered>>
       ELSE /\ broker' = [broker EXCEPT ![held[w]] = "ready"]
            /\ redelivered' = redelivered \cup {held[w]}

\* The broker takes back what worker w has not settled.
Requeue(w) ==
  /\ held' = [held EXCEPT ![w] = None]
  /\ result' = [result EXCEPT ![w] = "pending"]
  /\ IF held[w] = None
       THEN UNCHANGED <<broker, redelivered>>
       ELSE /\ broker' = [broker EXCEPT ![held[w]] = "ready"]
            /\ redelivered' = redelivered \cup {held[w]}

-----------------------------------------------------------------------------
(* The main thread of a worker.                                            *)

\* open_consumer succeeds.
Connect(w) ==
  /\ phase[w] = "serving"
  /\ link[w] = "closed"
  /\ link' = [link EXCEPT ![w] = "open"]
  /\ UNCHANGED <<brokerVars, phase, held, result, tasks, handled, faults>>

\* The main thread polls: it is connected and has nothing left to settle.
Polling(w) ==
  /\ phase[w] = "serving"
  /\ link[w] = "open"
  /\ held[w] = None

\* basic_get delivers a message, which goes to the executor: it waits there
\* while a handler orphaned by an earlier connection is still running.
Get(w, m) ==
  /\ Polling(w)
  /\ IsHead(m)
  /\ m \notin Malformed
  /\ broker' = [broker EXCEPT ![m] = "unacked"]
  /\ held' = [held EXCEPT ![w] = m]
  /\ result' = [result EXCEPT ![w] = "pending"]
  /\ tasks' = [tasks EXCEPT ![w] = Append(@, m)]
  /\ UNCHANGED <<sent, redelivered, phase, link, handled, faults>>

\* A body that does not decode is rejected without a retry.
RejectInvalid(w, m) ==
  /\ Polling(w)
  /\ IsHead(m)
  /\ m \in Malformed
  /\ broker' = [broker EXCEPT ![m] = "dead"]
  /\ UNCHANGED <<sent, redelivered, workerVars, handled, faults>>

\* The running job is the one whose future the main thread waits for; every
\* other job in the executor was submitted under a connection since lost.
IsAwaited(w) == held[w] # None /\ result[w] = "pending" /\ Len(tasks[w]) = 1

\* The running handler returns or raises.  Only an awaited future is looked at.
HandlerEnds(w, outcome) ==
  /\ tasks[w] # <<>>
  /\ tasks' = [tasks EXCEPT ![w] = Tail(@)]
  /\ result' = IF IsAwaited(w) THEN [result EXCEPT ![w] = outcome] ELSE result
  /\ handled' = IF outcome = "ok" THEN handled \cup {Head(tasks[w])} ELSE handled
  /\ UNCHANGED <<brokerVars, phase, link, held, faults>>

\* A slip: settling leaves no future behind instead of the initial value.
SettleClears(w, verdict) ==
  /\ broker' = [broker EXCEPT ![held[w]] = verdict]
  /\ held' = [held EXCEPT ![w] = None]
  /\ result' = [result EXCEPT ![w] = None]
  /\ UNCHANGED <<sent, redelivered, phase, link, tasks, handled, faults>>

\* The delivery leaves the worker: acknowledged or rejected.
Settle(w, verdict) ==
  /\ broker' = [broker EXCEPT ![held[w]] = verdict]
  /\ held' = [held EXCEPT ![w] = None]
  /\ result' = [result EXCEPT ![w] = "pending"]
  /\ UNCHANGED <<sent, redelivered, phase, link, tasks, handled, faults>>

Ack(w) ==
  /\ held[w] # None
  /\ result[w] = "ok"
  /\ Settle(w, "acked")

\* A slip: every failure is requeued.
NackAlways(w) ==
  /\ held[w] # None
  /\ result[w] = "error"
  /\ Requeue(w)
  /\ UNCHANGED <<sent, phase, link, tasks, handled, faults>>

\* A first failure: negative acknowledgement with requeue.
Nack(w) ==
  /\ held[w] # None
  /\ result[w] = "error"
  /\ held[w] \notin redelivered
  /\ Requeue(w)
  /\ UNCHANGED <<sent, phase, link, tasks, handled, faults>>

\* A slip: a first failure is final.
RejectAtOnce(w) ==
  /\ held[w] # None
  /\ result[w] = "error"
  /\ Settle(w, "dead")

\* A failure of a redelivered message: rejected into the dead queue, after the
\* terminal failure handler ran.
Reject(w) ==
  /\ held[w] # None
  /\ result[w] = "error"
  /\ held[w] \in redelivered
  /\ Settle(w, "dead")

-----------------------------------------------------------------------------
(* Faults and process life.                                                *)

\* An AMQP error: the main thread drops the future, not the running handler.
LoseConnection(w) ==
  /\ link[w] = "open"
  /\ faults.loss < MaxLosses
  /\ faults' = [faults EXCEPT !.loss = @ + 1]
  /\ link' = [link EXCEPT ![w] = "closed"]
  /\ Requeue(w)
  /\ UNCHANGED <<sent, phase, tasks, handled>>

\* A slip: SIGTERM closes the connection under a running handler, the hazard the
\* comment in the waiting loop is about.
ShutdownClosesEarly(w) ==
  /\ phase[w] = "serving"
  /\ faults.shutdown < MaxShutdowns
  /\ faults' = [faults EXCEPT !.shutdown = @ + 1]
  /\ phase' = [phase EXCEPT ![w] = "stopping"]
  /\ link' = [link EXCEPT ![w] = "closed"]
  /\ Requeue(w)
  /\ UNCHANGED <<sent, tasks, handled>>

\* SIGTERM only sets a flag: nothing new is fetched.
RequestShutdown(w) ==
  /\ phase[w] = "serving"
  /\ faults.shutdown < MaxShutdowns
  /\ faults' = [faults EXCEPT !.shutdown = @ + 1]
  /\ phase' = [phase EXCEPT ![w] = "stopping"]
  /\ UNCHANGED <<brokerVars, link, held, result, tasks, handled>>

\* The loop ends once the delivery is settled; leaving the executor's context
\* waits for handlers orphaned by lost connections.
Exit(w) ==
  /\ phase[w] = "stopping"
  /\ held[w] = None
  /\ tasks[w] = <<>>
  /\ phase' = [phase EXCEPT ![w] = "down"]
  /\ link' = [link EXCEPT ![w] = "closed"]
  /\ UNCHANGED <<brokerVars, held, result, tasks, handled, faults>>

\* The process dies with its threads and the broker takes its delivery back.
Kill(w) ==
  /\ phase[w] # "down"
  /\ faults.kill < MaxKills
  /\ faults' = [faults EXCEPT !.kill = @ + 1]
  /\ phase' = [phase EXCEPT ![w] = "down"]
  /\ link' = [link EXCEPT ![w] = "closed"]
  /\ tasks' = [tasks EXCEPT ![w] = <<>>]
  /\ Requeue(w)
  /\ UNCHANGED <<sent, handled>>

\* The container's restart policy.
Restart(w) ==
  /\ phase[w] = "down"
  /\ phase' = [phase EXCEPT ![w] = "serving"]
  /\ UNCHANGED <<brokerVars, link, held, result, tasks, handled, faults>>

-----------------------------------------------------------------------------

Step(w) ==
  \/ Connect(w)
  \/ \E m \in Messages : Get(w, m) \/ RejectInvalid(w, m)
  \/ \E outcome \in {"ok", "error"} : HandlerEnds(w, outcome)
  \/ Ack(w)
  \/ Nack(w)
  \/ Reject(w)
  \/ Exit(w)
  \/ Restart(w)

Fault(w) == LoseConnection(w) \/ RequestShutdown(w) \/ Kill(w)

Next ==
  \/ \E m \in Messages : Publish(m)
  \/ \E w \in Workers : Step(w) \/ Fault(w)

\* A worker keeps taking steps: its loops never block for good (the handler is
\* assumed to end), and the restart policy of compose.yaml brings it back.
Fairness == \A w \in Workers : WF_runtimeVars(Step(w))

Spec == Init /\ [][Next]_runtimeVars

FairSpec == Spec /\ Fairness

-----------------------------------------------------------------------------
(* Properties.                                                             *)

\* The broker and the workers agree on who holds what: an unacknowledged
\* message is held by exactly one worker, over a live connection.
DeliveriesAgree ==
  /\ \A w \in Workers : held[w] # None =>
       /\ broker[held[w]] = "unacked"
       /\ link[w] = "open"
       /\ phase[w] # "down"
  /\ \A v, w \in Workers : held[v] # None /\ held[v] = held[w] => v = w
  /\ \A m \in Messages : broker[m] = "unacked" => \E w \in Workers : held[w] = m

\* The worker keeps a delivery owned until its handler ends (the reason the
\* loop waits for the future even when a shutdown was requested): as long as
\* no connection is lost, kills and shutdowns included, whatever an executor
\* runs is held by its own worker, so no message has two running handlers.
OwnedWhileRunning ==
  \A w \in Workers :
    tasks[w] # <<>> => tasks[w] = <<held[w]>> /\ result[w] = "pending"

OwnedUnlessLinkLost == faults.loss = 0 => OwnedWhileRunning

\* The durable queue keeps its promise to publishers: the runtime implements
\* JobQueue.
Fate(m) ==
  CASE broker[m] = "unsent" -> "unsent"
    [] broker[m] = "acked" -> "done"
    [] broker[m] = "dead" -> "dead"
    [] OTHER -> IF m \in redelivered THEN "retry" ELSE "fresh"

Queue == INSTANCE JobQueue WITH
  fate <- [m \in Messages |-> Fate(m)],
  processed <- handled

QueueSpec == Queue!Spec

\* Every published job is eventually settled, through any bounded number of
\* lost connections, kills and shutdowns: none is forgotten in the queue.
EventuallySettled ==
  \A m \in Messages : broker[m] = "ready" ~> broker[m] \in {"acked", "dead"}

=============================================================================
