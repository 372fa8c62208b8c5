------------------------ MODULE WorkerRuntime_proofs ------------------------
(***************************************************************************)
(* Proofs about WorkerRuntime, for any workers, messages and bounds: type  *)
(* correctness, the agreement between broker and workers, the ownership of *)
(* deliveries, and the implementation of JobQueue.                         *)
(***************************************************************************)
EXTENDS WorkerRuntime, SequenceTheorems, TLAPS

-----------------------------------------------------------------------------
(* Type correctness.                                                       *)

LEMMA InitTypeOK == Init => TypeOK
BY RuntimeAssumption DEF Init, TypeOK, FaultCounts, RuntimeAssumption

LEMMA PublishTypeOK ==
  ASSUME TypeOK, NEW m \in Messages, Publish(m)
  PROVE  TypeOK'
BY DEF TypeOK, Publish, workerVars

\* The broker takes a delivery back: shared by Nack, LoseConnection and Kill.
LEMMA RequeueTypeOK ==
  ASSUME TypeOK, NEW w \in Workers, Requeue(w)
  PROVE  /\ broker' \in [Messages -> {"unsent", "ready", "unacked", "acked", "dead"}]
         /\ redelivered' \subseteq Messages
         /\ held' \in [Workers -> Messages \cup {None}]
         /\ result' \in [Workers -> {"pending", "ok", "error"}]
<1>1. held' \in [Workers -> Messages \cup {None}]
  BY DEF TypeOK, Requeue
<1>2. result' \in [Workers -> {"pending", "ok", "error"}]
  BY DEF TypeOK, Requeue
<1>3. CASE held[w] = None
  BY <1>1, <1>2, <1>3 DEF TypeOK, Requeue
<1>4. CASE held[w] # None
  <2>1. held[w] \in Messages
    BY <1>4 DEF TypeOK
  <2>2. broker' = [broker EXCEPT ![held[w]] = "ready"] /\ redelivered' = redelivered \cup {held[w]}
    BY <1>4 DEF Requeue
  <2>3. broker' \in [Messages -> {"unsent", "ready", "unacked", "acked", "dead"}]
    BY <2>1, <2>2 DEF TypeOK
  <2>4. redelivered' \subseteq Messages
    BY <2>1, <2>2 DEF TypeOK
  <2> QED
    BY <1>1, <1>2, <2>3, <2>4
<1> QED
  BY <1>3, <1>4

LEMMA StepTypeOK ==
  ASSUME TypeOK, NEW w \in Workers, Step(w)
  PROVE  TypeOK'
<1>1. CASE Connect(w)
  BY <1>1 DEF TypeOK, Connect, brokerVars
<1>2. ASSUME NEW m \in Messages, Get(w, m) PROVE TypeOK'
  BY <1>2 DEF TypeOK, Get
<1>3. ASSUME NEW m \in Messages, RejectInvalid(w, m) PROVE TypeOK'
  BY <1>3 DEF TypeOK, RejectInvalid, workerVars
<1>4. ASSUME NEW outcome \in {"ok", "error"}, HandlerEnds(w, outcome)
      PROVE  TypeOK'
  <2>1. /\ tasks[w] \in Seq(Messages)
        /\ tasks[w] # <<>>
    BY <1>4 DEF TypeOK, HandlerEnds
  <2>2. Tail(tasks[w]) \in Seq(Messages) /\ Head(tasks[w]) \in Messages
    BY <2>1
  <2> QED
    BY <1>4, <2>2 DEF TypeOK, HandlerEnds, brokerVars
<1>5. CASE Ack(w)
  BY <1>5 DEF TypeOK, Ack, Settle
<1>6. CASE Nack(w)
  BY <1>6, RequeueTypeOK DEF TypeOK, Nack
<1>7. CASE Reject(w)
  BY <1>7 DEF TypeOK, Reject, Settle
<1>8. CASE Exit(w)
  BY <1>8 DEF TypeOK, Exit, brokerVars
<1>9. CASE Restart(w)
  BY <1>9 DEF TypeOK, Restart, brokerVars
<1> QED
  BY <1>1, <1>2, <1>3, <1>4, <1>5, <1>6, <1>7, <1>8, <1>9 DEF Step

LEMMA CountFault ==
  ASSUME NEW f \in FaultCounts
  PROVE  /\ f.loss < MaxLosses => [f EXCEPT !.loss = @ + 1] \in FaultCounts
         /\ f.kill < MaxKills => [f EXCEPT !.kill = @ + 1] \in FaultCounts
         /\ f.shutdown < MaxShutdowns =>
              [f EXCEPT !.shutdown = @ + 1] \in FaultCounts
<1>1. f.loss \in 0 .. MaxLosses /\ f.kill \in 0 .. MaxKills
      /\ f.shutdown \in 0 .. MaxShutdowns
  BY DEF FaultCounts
<1>2. /\ f.loss < MaxLosses => f.loss + 1 \in 0 .. MaxLosses
      /\ f.kill < MaxKills => f.kill + 1 \in 0 .. MaxKills
      /\ f.shutdown < MaxShutdowns => f.shutdown + 1 \in 0 .. MaxShutdowns
  BY <1>1, RuntimeAssumption DEF RuntimeAssumption
<1> QED
  BY <1>2 DEF FaultCounts

LEMMA FaultTypeOK ==
  ASSUME TypeOK, NEW w \in Workers, Fault(w)
  PROVE  TypeOK'
<1>1. CASE LoseConnection(w)
  <2>1. Requeue(w)
    BY <1>1 DEF LoseConnection
  <2>2. faults \in FaultCounts
    BY DEF TypeOK
  <2>3. faults' \in FaultCounts
    BY <1>1, <2>2, CountFault DEF LoseConnection
  <2> QED
    BY <1>1, <2>1, <2>3, RequeueTypeOK DEF TypeOK, LoseConnection
<1>2. CASE RequestShutdown(w)
  <2>1. faults' \in FaultCounts
    BY <1>2, CountFault DEF TypeOK, RequestShutdown
  <2> QED
    BY <1>2, <2>1 DEF TypeOK, RequestShutdown, brokerVars
<1>3. CASE Kill(w)
  <2>1. Requeue(w)
    BY <1>3 DEF Kill
  <2>2. faults \in FaultCounts
    BY DEF TypeOK
  <2>3. faults' \in FaultCounts
    BY <1>3, <2>2, CountFault DEF Kill
  <2> QED
    BY <1>3, <2>1, <2>3, RequeueTypeOK DEF TypeOK, Kill
<1> QED
  BY <1>1, <1>2, <1>3 DEF Fault

LEMMA NextTypeOK == TypeOK /\ [Next]_runtimeVars => TypeOK'
<1> SUFFICES ASSUME TypeOK, [Next]_runtimeVars PROVE TypeOK'
  OBVIOUS
<1>1. CASE UNCHANGED runtimeVars
  BY <1>1 DEF TypeOK, runtimeVars
<1>2. CASE Next
  BY <1>2, PublishTypeOK, StepTypeOK, FaultTypeOK DEF Next
<1> QED
  BY <1>1, <1>2

\* Every variable of the runtime keeps its type, for any number of workers,
\* messages and faults.
THEOREM TypeCorrect == Spec => []TypeOK
BY InitTypeOK, NextTypeOK, PTL DEF Spec

-----------------------------------------------------------------------------
(* The broker and the workers agree on who holds what.                     *)

AgreeInv == TypeOK /\ DeliveriesAgree

\* What the broker takes back is held by nobody any more, and no other
\* delivery is disturbed.
LEMMA RequeueAgrees ==
  ASSUME AgreeInv, NEW w \in Workers, Requeue(w),
         \A v \in Workers \ {w} : link'[v] = link[v] /\ phase'[v] = phase[v]
  PROVE  DeliveriesAgree'
<1>1. CASE held[w] = None
  BY <1>1 DEF AgreeInv, TypeOK, DeliveriesAgree, Requeue
<1>2. CASE held[w] # None
  BY <1>2 DEF AgreeInv, TypeOK, DeliveriesAgree, Requeue
<1> QED
  BY <1>1, <1>2

LEMMA SettleAgrees ==
  ASSUME AgreeInv, NEW w \in Workers, held[w] # None,
         NEW verdict \in {"acked", "dead"}, Settle(w, verdict)
  PROVE  DeliveriesAgree'
BY DEF AgreeInv, TypeOK, DeliveriesAgree, Settle

LEMMA StepAgrees ==
  ASSUME AgreeInv, NEW w \in Workers, Step(w)
  PROVE  DeliveriesAgree'
<1> USE DEF AgreeInv
<1>1. CASE Connect(w)
  BY <1>1 DEF TypeOK, DeliveriesAgree, Connect, brokerVars
<1>2. ASSUME NEW m \in Messages, Get(w, m) PROVE DeliveriesAgree'
  <2>1. broker[m] = "ready" /\ held[w] = None /\ link[w] = "open" /\ phase[w] = "serving"
    BY <1>2 DEF Get, IsHead, Polling
  <2> QED
    BY <1>2, <2>1, RuntimeAssumption
       DEF TypeOK, DeliveriesAgree, Get, RuntimeAssumption
<1>3. ASSUME NEW m \in Messages, RejectInvalid(w, m) PROVE DeliveriesAgree'
  <2>1. broker[m] = "ready"
    BY <1>3 DEF RejectInvalid, IsHead
  <2> QED
    BY <1>3, <2>1 DEF TypeOK, DeliveriesAgree, RejectInvalid, workerVars
<1>4. ASSUME NEW outcome \in {"ok", "error"}, HandlerEnds(w, outcome)
      PROVE  DeliveriesAgree'
  BY <1>4 DEF DeliveriesAgree, HandlerEnds, brokerVars
<1>5. CASE Ack(w)
  BY <1>5, SettleAgrees DEF Ack
<1>6. CASE Nack(w)
  BY <1>6, RequeueAgrees DEF Nack
<1>7. CASE Reject(w)
  BY <1>7, SettleAgrees DEF Reject
<1>8. CASE Exit(w)
  BY <1>8 DEF TypeOK, DeliveriesAgree, Exit, brokerVars
<1>9. CASE Restart(w)
  BY <1>9 DEF TypeOK, DeliveriesAgree, Restart, brokerVars
<1> QED
  BY <1>1, <1>2, <1>3, <1>4, <1>5, <1>6, <1>7, <1>8, <1>9 DEF Step

LEMMA FaultAgrees ==
  ASSUME AgreeInv, NEW w \in Workers, Fault(w)
  PROVE  DeliveriesAgree'
<1>1. CASE LoseConnection(w)
  <2>1. Requeue(w)
        /\ \A v \in Workers \ {w} : link'[v] = link[v] /\ phase'[v] = phase[v]
    BY <1>1 DEF LoseConnection, AgreeInv, TypeOK
  <2> QED
    BY <2>1, RequeueAgrees
<1>2. CASE RequestShutdown(w)
  BY <1>2 DEF AgreeInv, TypeOK, DeliveriesAgree, RequestShutdown, brokerVars
<1>3. CASE Kill(w)
  <2>1. Requeue(w)
        /\ \A v \in Workers \ {w} : link'[v] = link[v] /\ phase'[v] = phase[v]
    BY <1>3 DEF Kill, AgreeInv, TypeOK
  <2> QED
    BY <2>1, RequeueAgrees
<1> QED
  BY <1>1, <1>2, <1>3 DEF Fault

LEMMA NextAgrees == AgreeInv /\ [Next]_runtimeVars => AgreeInv'
<1> SUFFICES ASSUME AgreeInv, [Next]_runtimeVars PROVE AgreeInv'
  OBVIOUS
<1>1. TypeOK'
  BY NextTypeOK DEF AgreeInv
<1>2. CASE UNCHANGED runtimeVars
  BY <1>1, <1>2 DEF AgreeInv, DeliveriesAgree, runtimeVars
<1>3. ASSUME NEW m \in Messages, Publish(m) PROVE DeliveriesAgree'
  BY <1>3 DEF AgreeInv, TypeOK, DeliveriesAgree, Publish, workerVars
<1> QED
  BY <1>1, <1>2, <1>3, StepAgrees, FaultAgrees DEF AgreeInv, Next

\* A message is unacknowledged exactly while one live, connected worker holds
\* it: through redeliveries, lost connections, kills and shutdowns no delivery
\* is held twice or forgotten.
THEOREM DeliveriesAlwaysAgree == Spec => []DeliveriesAgree
<1>1. Init => AgreeInv
  BY InitTypeOK DEF AgreeInv, Init, DeliveriesAgree
<1>2. AgreeInv => DeliveriesAgree
  BY DEF AgreeInv
<1> QED
  BY <1>1, <1>2, NextAgrees, PTL DEF Spec

-----------------------------------------------------------------------------
(* Ownership: what an executor runs is what its worker holds.              *)

OwnInv == AgreeInv /\ OwnedUnlessLinkLost

\* A worker that holds nothing, or whose future has returned, runs nothing.
LEMMA NothingPending ==
  ASSUME TypeOK, OwnedWhileRunning, NEW w \in Workers,
         held[w] = None \/ result[w] # "pending"
  PROVE  tasks[w] = <<>>
<1>1. ASSUME tasks[w] # <<>> PROVE FALSE
  <2>1. tasks[w] = <<held[w]>> /\ result[w] = "pending"
    BY <1>1 DEF OwnedWhileRunning
  <2>2. tasks[w] \in Seq(Messages)
    BY DEF TypeOK
  <2>3. tasks[w][1] \in Messages
    BY <2>1, <2>2
  <2> QED
    BY <2>1, <2>3, RuntimeAssumption DEF RuntimeAssumption
<1> QED
  BY <1>1

LEMMA StepOwns ==
  ASSUME OwnInv, NEW w \in Workers, Step(w)
  PROVE  OwnedUnlessLinkLost'
<1> SUFFICES ASSUME faults'.loss = 0 PROVE OwnedWhileRunning'
  BY DEF OwnedUnlessLinkLost, OwnedWhileRunning
<1>0. TypeOK /\ OwnedWhileRunning
  <2>1. faults' = faults
    BY DEF Step, Connect, Get, RejectInvalid, HandlerEnds, Ack, Nack, Reject,
           Settle, Exit, Restart
  <2> QED
    BY <2>1 DEF OwnInv, AgreeInv, OwnedUnlessLinkLost
<1>1. CASE Connect(w)
  BY <1>0, <1>1 DEF OwnedWhileRunning, Connect
<1>2. ASSUME NEW m \in Messages, Get(w, m) PROVE OwnedWhileRunning'
  <2>1. tasks[w] = <<>>
    BY <1>0, <1>2, NothingPending DEF Get, Polling
  <2>2. tasks'[w] = <<m>> /\ held'[w] = m /\ result'[w] = "pending"
    BY <1>0, <1>2, <2>1 DEF Get, TypeOK
  <2> QED
    BY <1>0, <1>2, <2>2 DEF OwnedWhileRunning, Get, TypeOK
<1>3. ASSUME NEW m \in Messages, RejectInvalid(w, m) PROVE OwnedWhileRunning'
  BY <1>0, <1>3 DEF OwnedWhileRunning, RejectInvalid, workerVars
<1>4. ASSUME NEW outcome \in {"ok", "error"}, HandlerEnds(w, outcome)
      PROVE  OwnedWhileRunning'
  <2>1. tasks[w] = <<held[w]>>
    BY <1>0, <1>4 DEF OwnedWhileRunning, HandlerEnds
  <2>2. tasks'[w] = <<>>
    BY <1>0, <1>4, <2>1 DEF HandlerEnds, TypeOK
  <2> QED
    BY <1>0, <1>4, <2>2 DEF OwnedWhileRunning, HandlerEnds, TypeOK
<1>5. ASSUME NEW verdict \in {"acked", "dead"}, Settle(w, verdict),
             result[w] # "pending"
      PROVE  OwnedWhileRunning'
  <2>1. tasks[w] = <<>>
    BY <1>0, <1>5, NothingPending
  <2> QED
    BY <1>0, <1>5, <2>1 DEF OwnedWhileRunning, Settle, TypeOK
<1>6. CASE Nack(w)
  <2>1. tasks[w] = <<>>
    BY <1>0, <1>6, NothingPending DEF Nack
  <2> QED
    BY <1>0, <1>6, <2>1 DEF OwnedWhileRunning, Nack, Requeue, TypeOK
<1>7. CASE Exit(w)
  BY <1>0, <1>7 DEF OwnedWhileRunning, Exit
<1>8. CASE Restart(w)
  BY <1>0, <1>8 DEF OwnedWhileRunning, Restart
<1> QED
  BY <1>1, <1>2, <1>3, <1>4, <1>5, <1>6, <1>7, <1>8 DEF Step, Ack, Reject

LEMMA FaultOwns ==
  ASSUME OwnInv, NEW w \in Workers, Fault(w)
  PROVE  OwnedUnlessLinkLost'
<1> USE DEF OwnInv, AgreeInv, OwnedUnlessLinkLost
<1>1. CASE LoseConnection(w)
  <2>1. faults'.loss = faults.loss + 1 /\ faults.loss \in Nat
    BY <1>1 DEF LoseConnection, TypeOK, FaultCounts
  <2> QED
    BY <2>1
<1>2. CASE RequestShutdown(w)
  <2>1. faults'.loss = faults.loss
    BY <1>2 DEF RequestShutdown, TypeOK, FaultCounts
  <2> QED
    BY <1>2, <2>1 DEF OwnedWhileRunning, RequestShutdown
<1>3. CASE Kill(w)
  <2>1. faults'.loss = faults.loss /\ tasks'[w] = <<>>
    BY <1>3 DEF Kill, TypeOK, FaultCounts
  <2> QED
    BY <1>3, <2>1 DEF OwnedWhileRunning, Kill, Requeue, TypeOK
<1> QED
  BY <1>1, <1>2, <1>3 DEF Fault

LEMMA InitOwnInv == Init => OwnInv
BY InitTypeOK
   DEF OwnInv, AgreeInv, Init, DeliveriesAgree, OwnedUnlessLinkLost, OwnedWhileRunning

LEMMA NextOwnInv == OwnInv /\ [Next]_runtimeVars => OwnInv'
<1> SUFFICES ASSUME OwnInv, [Next]_runtimeVars PROVE OwnInv'
  OBVIOUS
<1>1. AgreeInv'
  BY NextAgrees DEF OwnInv
<1>2. CASE UNCHANGED runtimeVars
  BY <1>1, <1>2 DEF OwnInv, OwnedUnlessLinkLost, OwnedWhileRunning, runtimeVars
<1>3. ASSUME NEW m \in Messages, Publish(m) PROVE OwnedUnlessLinkLost'
  BY <1>3 DEF OwnInv, OwnedUnlessLinkLost, OwnedWhileRunning, Publish, workerVars
<1> QED
  BY <1>1, <1>2, <1>3, StepOwns, FaultOwns DEF OwnInv, Next

\* As long as no connection is lost, no executor runs a job that its worker does
\* not hold, however workers are killed or told to stop: with the agreement
\* above, two workers never run the same job.
THEOREM OwnershipKept == Spec => []OwnedUnlessLinkLost
<1>1. OwnInv => OwnedUnlessLinkLost
  BY DEF OwnInv
<1> QED
  BY <1>1, InitOwnInv, NextOwnInv, PTL DEF Spec

-----------------------------------------------------------------------------
(* The runtime implements JobQueue.                                        *)

\* Executors run only decoded jobs that were published.
JobsKnown ==
  \A w \in Workers : \A i \in DOMAIN tasks[w] :
    tasks[w][i] \notin Malformed /\ broker[tasks[w][i]] # "unsent"

\* A held delivery was decoded; it was handled if its future returned, and it is
\* the last job submitted while its future is pending.
HeldKnown ==
  \A w \in Workers : held[w] # None =>
    /\ held[w] \notin Malformed
    /\ result[w] = "ok" => held[w] \in handled
    /\ result[w] = "pending" =>
         tasks[w] # <<>> /\ tasks[w][Len(tasks[w])] = held[w]

\* With that, a redelivered message had been published.
JobsSound ==
  /\ JobsKnown
  /\ HeldKnown
  /\ \A m \in redelivered : broker[m] # "unsent"

RefInv == AgreeInv /\ JobsSound

\* An executor's queue after a submission and after its first job ended.
LEMMA SubmittedJobs ==
  ASSUME NEW S, NEW s \in Seq(S), NEW e \in S
  PROVE  /\ Append(s, e) # <<>>
         /\ Append(s, e)[Len(Append(s, e))] = e
         /\ \A i \in DOMAIN Append(s, e) :
              \/ Append(s, e)[i] = e
              \/ i \in DOMAIN s /\ Append(s, e)[i] = s[i]
<1>1. Len(s) \in Nat /\ DOMAIN s = 1 .. Len(s)
  BY LenProperties
<1>2. DOMAIN Append(s, e) = 1 .. Len(Append(s, e))
  BY AppendProperties, LenProperties
<1> QED
  BY <1>1, <1>2, AppendProperties

LEMMA RemainingJobs ==
  ASSUME NEW S, NEW s \in Seq(S), s # <<>>
  PROVE  /\ \A i \in DOMAIN Tail(s) : i + 1 \in DOMAIN s /\ Tail(s)[i] = s[i + 1]
         /\ Len(s) # 1 => Tail(s) # <<>> /\ Tail(s)[Len(Tail(s))] = s[Len(s)]
<1>1. Len(s) \in Nat \ {0} /\ DOMAIN s = 1 .. Len(s)
  BY EmptySeq, LenProperties
<1>2. Tail(s) \in Seq(S) /\ Len(Tail(s)) = Len(s) - 1
      /\ DOMAIN Tail(s) = 1 .. Len(Tail(s))
  BY HeadTailProperties, LenProperties
<1>3. \A i \in 1 .. Len(Tail(s)) : Tail(s)[i] = s[i + 1]
  BY HeadTailProperties
<1>4. \A i \in DOMAIN Tail(s) : i + 1 \in DOMAIN s /\ Tail(s)[i] = s[i + 1]
  BY <1>1, <1>2, <1>3
<1>5. ASSUME Len(s) # 1
      PROVE  Tail(s) # <<>> /\ Tail(s)[Len(Tail(s))] = s[Len(s)]
  <2>1. Len(Tail(s)) \in 1 .. Len(Tail(s)) /\ Len(Tail(s)) + 1 = Len(s)
    BY <1>1, <1>2, <1>5
  <2>2. Tail(s) # <<>>
    <3>1. Len(Tail(s)) # 0
      BY <1>1, <1>2, <1>5
    <3>2. Len(<<>>) = 0
      BY EmptySeq
    <3> QED
      BY <3>1, <3>2, Zenon
  <2> QED
    BY <1>3, <2>1, <2>2
<1> QED
  BY <1>4, <1>5

LEMMA JobsAreMessages ==
  ASSUME TypeOK
  PROVE  \A w \in Workers : \A i \in DOMAIN tasks[w] : tasks[w][i] \in Messages
<1> TAKE w \in Workers
<1>1. tasks[w] \in Seq(Messages)
  BY DEF TypeOK
<1> QED
  BY <1>1, ElementOfSeq, LenProperties

LEMMA RequeueSound ==
  ASSUME RefInv, NEW w \in Workers, Requeue(w),
         handled' = handled, tasks' = tasks \/ tasks' = [tasks EXCEPT ![w] = <<>>]
  PROVE  JobsSound'
<1>1. \A m \in Messages : broker[m] # "unsent" => broker'[m] # "unsent"
  BY DEF RefInv, AgreeInv, TypeOK, Requeue
<1>2. \A v \in Workers : v # w => tasks'[v] = tasks[v]
  BY DEF RefInv, AgreeInv, TypeOK
<1>3. \A v \in Workers : \A i \in DOMAIN tasks'[v] :
        i \in DOMAIN tasks[v] /\ tasks'[v][i] = tasks[v][i]
  <2>1. tasks'[w] = tasks[w] \/ DOMAIN tasks'[w] = {}
    BY EmptySeq, LenProperties DEF RefInv, AgreeInv, TypeOK
  <2> QED
    BY <1>2, <2>1
<1>4. \A v \in Workers : \A i \in DOMAIN tasks[v] : tasks[v][i] \in Messages
  BY JobsAreMessages DEF RefInv, AgreeInv
<1>5. held'[w] = None
      /\ \A v \in Workers : v # w => held'[v] = held[v] /\ result'[v] = result[v]
  BY DEF RefInv, AgreeInv, TypeOK, Requeue
<1>6. \A m \in redelivered' : broker'[m] # "unsent"
  BY <1>1 DEF Requeue, RefInv, AgreeInv, TypeOK, JobsSound, JobsKnown, HeldKnown
<1>7. JobsKnown'
  BY <1>1, <1>3, <1>4 DEF RefInv, JobsSound, JobsKnown
<1>8. HeldKnown'
  BY <1>2, <1>5 DEF RefInv, JobsSound, HeldKnown
<1> QED
  BY <1>6, <1>7, <1>8 DEF JobsSound

LEMMA SettleSound ==
  ASSUME RefInv, NEW w \in Workers, held[w] # None,
         NEW verdict \in {"acked", "dead"}, Settle(w, verdict)
  PROVE  JobsSound'
<1>1. \A m \in Messages : broker[m] # "unsent" => broker'[m] # "unsent"
  BY DEF RefInv, AgreeInv, TypeOK, Settle
<1>2. \A v \in Workers : \A i \in DOMAIN tasks[v] : tasks[v][i] \in Messages
  BY JobsAreMessages DEF RefInv, AgreeInv
<1>3. held'[w] = None
      /\ \A v \in Workers : v # w => held'[v] = held[v] /\ result'[v] = result[v]
  BY DEF RefInv, AgreeInv, TypeOK, Settle
<1>4. JobsKnown'
  BY <1>1, <1>2 DEF RefInv, JobsSound, JobsKnown, Settle
<1>5. HeldKnown'
  BY <1>3 DEF RefInv, JobsSound, HeldKnown, Settle
<1>6. \A m \in redelivered' : broker'[m] # "unsent"
  BY <1>1 DEF RefInv, AgreeInv, TypeOK, JobsSound, Settle
<1> QED
  BY <1>4, <1>5, <1>6 DEF JobsSound

LEMMA GetSound ==
  ASSUME RefInv, NEW w \in Workers, NEW m \in Messages, Get(w, m)
  PROVE  JobsSound'
<1>1. tasks[w] \in Seq(Messages)
  BY DEF RefInv, AgreeInv, TypeOK
<1>2. tasks'[w] = Append(tasks[w], m) /\ held'[w] = m /\ result'[w] = "pending"
  BY DEF RefInv, AgreeInv, TypeOK, Get
<1>3. /\ tasks'[w] # <<>> /\ tasks'[w][Len(tasks'[w])] = m
      /\ \A i \in DOMAIN tasks'[w] :
           \/ tasks'[w][i] = m
           \/ i \in DOMAIN tasks[w] /\ tasks'[w][i] = tasks[w][i]
  BY <1>1, <1>2, SubmittedJobs
<1>4. \A n \in Messages : broker[n] # "unsent" => broker'[n] # "unsent"
  BY DEF RefInv, AgreeInv, TypeOK, Get
<1>5. broker'[m] = "unacked" /\ m \notin Malformed
  BY DEF RefInv, AgreeInv, TypeOK, Get
<1>6. \A v \in Workers : v # w =>
        tasks'[v] = tasks[v] /\ held'[v] = held[v] /\ result'[v] = result[v]
  BY DEF RefInv, AgreeInv, TypeOK, Get
<1>7. \A v \in Workers : \A i \in DOMAIN tasks[v] : tasks[v][i] \in Messages
  BY JobsAreMessages DEF RefInv, AgreeInv
<1>8. handled' = handled /\ \A n \in redelivered' : broker'[n] # "unsent"
  BY <1>4 DEF Get, RefInv, AgreeInv, TypeOK, JobsSound, JobsKnown, HeldKnown
<1>9. JobsKnown'
  <2>1. ASSUME NEW i \in DOMAIN tasks'[w]
        PROVE  tasks'[w][i] \notin Malformed /\ broker'[tasks'[w][i]] # "unsent"
    BY <1>3, <1>4, <1>5, <1>7 DEF RefInv, JobsSound, JobsKnown
  <2>2. ASSUME NEW v \in Workers, v # w, NEW i \in DOMAIN tasks'[v]
        PROVE  tasks'[v][i] \notin Malformed /\ broker'[tasks'[v][i]] # "unsent"
    BY <1>4, <1>6, <1>7, <2>2 DEF RefInv, JobsSound, JobsKnown
  <2> QED
    BY <2>1, <2>2 DEF JobsKnown
<1>10. HeldKnown'
  <2>1. ASSUME NEW v \in Workers, v # w, held'[v] # None
        PROVE  /\ held'[v] \notin Malformed
               /\ result'[v] = "ok" => held'[v] \in handled'
               /\ result'[v] = "pending" =>
                    tasks'[v] # <<>> /\ tasks'[v][Len(tasks'[v])] = held'[v]
    BY <1>6, <1>8, <2>1 DEF RefInv, JobsSound, HeldKnown
  <2> QED
    BY <1>2, <1>3, <1>5, <2>1 DEF HeldKnown
<1> QED
  BY <1>8, <1>9, <1>10 DEF JobsSound

LEMMA HandlerEndsSound ==
  ASSUME RefInv, NEW w \in Workers, NEW outcome \in {"ok", "error"},
         HandlerEnds(w, outcome)
  PROVE  JobsSound'
<1>1. tasks[w] \in Seq(Messages) /\ tasks[w] # <<>> /\ tasks'[w] = Tail(tasks[w])
  BY DEF RefInv, AgreeInv, TypeOK, HandlerEnds
<1>2. \A i \in DOMAIN tasks'[w] :
        i + 1 \in DOMAIN tasks[w] /\ tasks'[w][i] = tasks[w][i + 1]
  BY <1>1, RemainingJobs
<1>3. \A v \in Workers : v # w => tasks'[v] = tasks[v] /\ result'[v] = result[v]
  BY DEF RefInv, AgreeInv, TypeOK, HandlerEnds
<1>4. held' = held /\ broker' = broker /\ redelivered' = redelivered
      /\ handled \subseteq handled'
  BY DEF HandlerEnds, brokerVars
<1>5. ASSUME held[w] # None
      PROVE  /\ result'[w] = "ok" => held[w] \in handled'
             /\ result'[w] = "pending" =>
                  tasks'[w] # <<>> /\ tasks'[w][Len(tasks'[w])] = held[w]
  <2>1. CASE IsAwaited(w)
    <3>1. Head(tasks[w]) = held[w]
      BY <1>1, <2>1, <1>5 DEF IsAwaited, RefInv, JobsSound, JobsKnown, HeldKnown
    <3>2. result'[w] = outcome
      BY <2>1 DEF HandlerEnds, RefInv, AgreeInv, TypeOK
    <3> QED
      BY <3>1, <3>2 DEF HandlerEnds
  <2>2. CASE ~IsAwaited(w)
    <3>1. result'[w] = result[w]
      BY <2>2 DEF HandlerEnds
    <3>2. CASE result[w] = "pending"
      <4>1. Len(tasks[w]) # 1 /\ tasks[w][Len(tasks[w])] = held[w]
        BY <2>2, <3>2, <1>5 DEF IsAwaited, RefInv, JobsSound, JobsKnown, HeldKnown
      <4> QED
        BY <1>1, <3>1, <3>2, <4>1, RemainingJobs
    <3>3. CASE result[w] # "pending"
      BY <1>4, <1>5, <3>1, <3>3 DEF RefInv, JobsSound, JobsKnown, HeldKnown
    <3> QED
      BY <3>2, <3>3
  <2> QED
    BY <2>1, <2>2
<1>6. JobsKnown'
  BY <1>2, <1>3, <1>4 DEF RefInv, JobsSound, JobsKnown
<1>7. HeldKnown'
  BY <1>3, <1>4, <1>5 DEF RefInv, JobsSound, HeldKnown
<1> QED
  BY <1>4, <1>6, <1>7 DEF RefInv, JobsSound

LEMMA StepSound ==
  ASSUME RefInv, NEW w \in Workers, Step(w)
  PROVE  JobsSound'
<1>1. CASE Connect(w)
  BY <1>1 DEF RefInv, JobsSound, JobsKnown, HeldKnown, Connect, brokerVars
<1>2. ASSUME NEW m \in Messages, RejectInvalid(w, m) PROVE JobsSound'
  <2>1. \A n \in Messages : broker[n] # "unsent" => broker'[n] # "unsent"
    BY <1>2 DEF RejectInvalid, RefInv, AgreeInv, TypeOK
  <2> QED
    BY <1>2, <2>1, JobsAreMessages
       DEF RefInv, AgreeInv, JobsSound, JobsKnown, HeldKnown, RejectInvalid, workerVars
<1>3. CASE Nack(w)
  BY <1>3, RequeueSound DEF Nack
<1>4. CASE Exit(w)
  BY <1>4 DEF RefInv, JobsSound, JobsKnown, HeldKnown, Exit, brokerVars
<1>5. CASE Restart(w)
  BY <1>5 DEF RefInv, JobsSound, JobsKnown, HeldKnown, Restart, brokerVars
<1> QED
  BY <1>1, <1>2, <1>3, <1>4, <1>5, GetSound, HandlerEndsSound, SettleSound
     DEF Step, Ack, Reject

LEMMA FaultSound ==
  ASSUME RefInv, NEW w \in Workers, Fault(w)
  PROVE  JobsSound'
<1>1. CASE LoseConnection(w)
  BY <1>1, RequeueSound DEF LoseConnection
<1>2. CASE RequestShutdown(w)
  BY <1>2 DEF RefInv, JobsSound, JobsKnown, HeldKnown, RequestShutdown, brokerVars
<1>3. CASE Kill(w)
  BY <1>3, RequeueSound DEF Kill
<1> QED
  BY <1>1, <1>2, <1>3 DEF Fault

LEMMA InitRefInv == Init => RefInv
BY InitTypeOK
   DEF RefInv, AgreeInv, Init, DeliveriesAgree, JobsSound, JobsKnown, HeldKnown

LEMMA NextRefInv == RefInv /\ [Next]_runtimeVars => RefInv'
<1> SUFFICES ASSUME RefInv, [Next]_runtimeVars PROVE RefInv'
  OBVIOUS
<1>1. AgreeInv'
  BY NextAgrees DEF RefInv
<1>2. CASE UNCHANGED runtimeVars
  BY <1>1, <1>2 DEF RefInv, JobsSound, JobsKnown, HeldKnown, runtimeVars
<1>3. ASSUME NEW m \in Messages, Publish(m) PROVE JobsSound'
  <2>1. \A n \in Messages : broker[n] # "unsent" => broker'[n] # "unsent"
    BY <1>3 DEF Publish, RefInv, AgreeInv, TypeOK
  <2> QED
    BY <1>3, <2>1, JobsAreMessages
       DEF RefInv, AgreeInv, JobsSound, JobsKnown, HeldKnown, Publish, workerVars
<1> QED
  BY <1>1, <1>2, <1>3, StepSound, FaultSound DEF RefInv, Next

\* How a step shows in the abstract queue: one job's fate changes, or none.
fates == [m \in Messages |-> Fate(m)]

LEMMA SameFates ==
  ASSUME UNCHANGED <<broker, redelivered>>
  PROVE  fates' = fates
BY DEF fates, Fate

\* A requeue is the retry of a fresh job, or invisible.
LEMMA RequeueRefines ==
  ASSUME RefInv, NEW w \in Workers, Requeue(w), handled' = handled
  PROVE  [Queue!Next]_(Queue!vars)
<1>1. CASE held[w] = None
  <2>1. fates' = fates
    BY <1>1, SameFates DEF Requeue
  <2> QED
    BY <2>1 DEF fates, Queue!vars
<1>2. CASE held[w] # None
  <2> DEFINE m == held[w]
  <2>1. m \in Messages /\ broker[m] = "unacked"
    BY <1>2 DEF RefInv, AgreeInv, TypeOK, DeliveriesAgree
  <2>2. /\ broker'[m] = "ready"
        /\ redelivered' = redelivered \cup {m}
        /\ \A n \in Messages : n # m => broker'[n] = broker[n]
    BY <1>2, <2>1 DEF Requeue, RefInv, AgreeInv, TypeOK
  <2>3. fates' = [fates EXCEPT ![m] = "retry"]
    BY <2>1, <2>2 DEF fates, Fate
  <2>4. CASE m \in redelivered
    <3>1. fates[m] = "retry"
      BY <2>1, <2>4 DEF fates, Fate
    <3>2. fates' = fates
      BY <2>3, <3>1 DEF fates
    <3> QED
      BY <3>2 DEF fates, Queue!vars
  <2>5. CASE m \notin redelivered
    <3>1. fates[m] = "fresh"
      BY <2>1, <2>5 DEF fates, Fate
    <3>2. Queue!Retry(m)
      BY <2>3, <3>1 DEF fates, Queue!Retry
    <3> QED
      BY <2>1, <3>2 DEF Queue!Next
  <2> QED
    BY <2>4, <2>5
<1> QED
  BY <1>1, <1>2

\* An acknowledgement completes a job, a rejection buries it.
LEMMA SettleRefines ==
  ASSUME RefInv, NEW w \in Workers, Ack(w) \/ Reject(w)
  PROVE  Queue!Next
<1> DEFINE m == held[w]
<1>1. m \in Messages /\ broker[m] = "unacked"
  BY DEF Ack, Reject, RefInv, AgreeInv, TypeOK, DeliveriesAgree
<1>2. CASE Ack(w)
  <2>1. broker' = [broker EXCEPT ![m] = "acked"] /\ redelivered' = redelivered
    BY <1>2 DEF Ack, Settle
  <2>2. fates' = [fates EXCEPT ![m] = "done"]
    BY <1>1, <2>1 DEF fates, Fate, RefInv, AgreeInv, TypeOK
  <2>3. fates[m] \in {"fresh", "retry"}
    BY <1>1 DEF fates, Fate
  <2>4. Queue!Complete(m)
    BY <1>2, <2>2, <2>3
       DEF Ack, Settle, RefInv, JobsSound, JobsKnown, HeldKnown, fates, Queue!Complete
  <2> QED
    BY <1>1, <2>4 DEF Queue!Next
<1>3. CASE Reject(w)
  <2>1. broker' = [broker EXCEPT ![m] = "dead"] /\ redelivered' = redelivered
    BY <1>3 DEF Reject, Settle
  <2>2. fates' = [fates EXCEPT ![m] = "dead"]
    BY <1>1, <2>1 DEF fates, Fate, RefInv, AgreeInv, TypeOK
  <2>3. fates[m] = "retry"
    BY <1>1, <1>3 DEF Reject, fates, Fate
  <2>4. Queue!Bury(m)
    BY <1>3, <2>2, <2>3 DEF Reject, Settle, fates, Queue!Bury
  <2> QED
    BY <1>1, <2>4 DEF Queue!Next
<1> QED
  BY <1>2, <1>3

LEMMA StepRefines ==
  ASSUME RefInv, NEW w \in Workers, Step(w)
  PROVE  [Queue!Next]_(Queue!vars)
<1>1. CASE Connect(w) \/ Exit(w) \/ Restart(w)
  <2>1. fates' = fates /\ handled' = handled
    BY <1>1, SameFates DEF Connect, Exit, Restart, brokerVars
  <2> QED
    BY <2>1 DEF fates, Queue!vars
<1>2. ASSUME NEW m \in Messages, Get(w, m) PROVE [Queue!Next]_(Queue!vars)
  <2>1. broker[m] = "ready" /\ broker' = [broker EXCEPT ![m] = "unacked"]
        /\ redelivered' = redelivered /\ handled' = handled
    BY <1>2 DEF Get, IsHead
  <2>2. fates' = fates
    BY <2>1 DEF fates, Fate, RefInv, AgreeInv, TypeOK
  <2> QED
    BY <2>1, <2>2 DEF fates, Queue!vars
<1>3. ASSUME NEW m \in Messages, RejectInvalid(w, m)
      PROVE  [Queue!Next]_(Queue!vars)
  <2>1. broker[m] = "ready" /\ broker' = [broker EXCEPT ![m] = "dead"]
        /\ redelivered' = redelivered /\ handled' = handled /\ m \in Malformed
    BY <1>3 DEF RejectInvalid, IsHead
  <2>2. fates' = [fates EXCEPT ![m] = "dead"] /\ fates[m] \in {"fresh", "retry"}
    BY <2>1 DEF fates, Fate, RefInv, AgreeInv, TypeOK
  <2>3. Queue!Bury(m)
    BY <2>1, <2>2 DEF fates, Queue!Bury
  <2> QED
    BY <2>3 DEF Queue!Next
<1>4. ASSUME NEW outcome \in {"ok", "error"}, HandlerEnds(w, outcome)
      PROVE  [Queue!Next]_(Queue!vars)
  <2>1. fates' = fates
    BY <1>4, SameFates DEF HandlerEnds, brokerVars
  <2>2. CASE handled' = handled
    BY <2>1, <2>2 DEF fates, Queue!vars
  <2>3. CASE handled' = handled \cup {Head(tasks[w])}
    <3> DEFINE m == Head(tasks[w])
    <3>1. tasks[w] \in Seq(Messages) /\ tasks[w] # <<>>
      BY <1>4 DEF HandlerEnds, RefInv, AgreeInv, TypeOK
    <3>2. m \in Messages /\ 1 \in DOMAIN tasks[w] /\ tasks[w][1] = m
      BY <3>1
    <3>3. m \notin Malformed /\ broker[m] # "unsent"
      BY <3>2 DEF RefInv, JobsSound, JobsKnown, HeldKnown
    <3>4. fates[m] # "unsent"
      BY <3>2, <3>3 DEF fates, Fate
    <3>5. Queue!Process(m)
      BY <2>1, <2>3, <3>3, <3>4 DEF fates, Queue!Process
    <3> QED
      BY <3>2, <3>5 DEF Queue!Next
  <2> QED
    BY <1>4, <2>2, <2>3 DEF HandlerEnds
<1>5. CASE Nack(w)
  BY <1>5, RequeueRefines DEF Nack
<1>6. CASE Ack(w) \/ Reject(w)
  BY <1>6, SettleRefines
<1> QED
  BY <1>1, <1>2, <1>3, <1>4, <1>5, <1>6 DEF Step

LEMMA FaultRefines ==
  ASSUME RefInv, NEW w \in Workers, Fault(w)
  PROVE  [Queue!Next]_(Queue!vars)
<1>1. CASE LoseConnection(w)
  BY <1>1, RequeueRefines DEF LoseConnection
<1>2. CASE RequestShutdown(w)
  <2>1. fates' = fates /\ handled' = handled
    BY <1>2, SameFates DEF RequestShutdown, brokerVars
  <2> QED
    BY <2>1 DEF fates, Queue!vars
<1>3. CASE Kill(w)
  BY <1>3, RequeueRefines DEF Kill
<1> QED
  BY <1>1, <1>2, <1>3 DEF Fault

LEMMA PublishRefines ==
  ASSUME RefInv, NEW m \in Messages, Publish(m)
  PROVE  [Queue!Next]_(Queue!vars)
<1>1. broker[m] = "unsent" /\ broker' = [broker EXCEPT ![m] = "ready"]
      /\ redelivered' = redelivered /\ handled' = handled
  BY DEF Publish
<1>2. \A n \in Messages : n # m => fates'[n] = fates[n]
  BY <1>1 DEF fates, Fate, RefInv, AgreeInv, TypeOK
<1>3. m \notin redelivered
  BY <1>1 DEF RefInv, JobsSound, JobsKnown, HeldKnown
<1>4. Queue!Submit(m)
  <2>1. m \in DOMAIN fates /\ fates[m] = "unsent" /\ fates'[m] = "fresh"
    BY <1>1, <1>3 DEF fates, Fate, RefInv, AgreeInv, TypeOK
  <2>2. fates' = [fates EXCEPT ![m] = "fresh"]
    <3>1. DOMAIN fates = Messages /\ DOMAIN fates' = Messages
      BY DEF fates
    <3>2. fates = [n \in Messages |-> fates[n]] /\ fates' = [n \in Messages |-> fates'[n]]
      BY DEF fates
    <3> QED
      BY <1>2, <2>1, <3>1, <3>2
  <2> QED
    BY <1>1, <2>1, <2>2 DEF Queue!Submit, fates
<1> QED
  BY <1>4 DEF Queue!Next

\* The durable queue and its workers implement JobQueue: every published job is
\* attempted, retried at most once before it is buried, completed only after a
\* handler ended normally, and settled for good.
THEOREM ImplementsJobQueue == Spec => QueueSpec
<1>1. Init => Queue!Init
  BY DEF Init, Fate, Queue!Init
<1>2. RefInv /\ [Next]_runtimeVars => [Queue!Next]_(Queue!vars)
  <2> SUFFICES ASSUME RefInv, [Next]_runtimeVars
               PROVE  [Queue!Next]_(Queue!vars)
    OBVIOUS
  <2>1. CASE UNCHANGED runtimeVars
    <3>1. fates' = fates /\ handled' = handled
      BY <2>1, SameFates DEF runtimeVars
    <3> QED
      BY <3>1 DEF fates, Queue!vars
  <2> QED
    BY <2>1, PublishRefines, StepRefines, FaultRefines DEF Next
<1> QED
  BY <1>1, <1>2, InitRefInv, NextRefInv, PTL DEF Spec, QueueSpec, Queue!Spec

=============================================================================
