----------------------- MODULE FlowCalibration_proofs -----------------------
(***************************************************************************)
(* Proofs about FlowCalibration for any workers, iterations and faults:    *)
(* every state has its type, the results of a session are those of its own *)
(* runs, and the session keeps the promise of CalibrationSession.          *)
(*                                                                         *)
(* As long as no connection is lost every delivery has one handler.  The   *)
(* invariant says whose turn it is: the session row is ahead of nobody,    *)
(* and the copy a process is about to write is the row, advanced by that   *)
(* process's own run.                                                      *)
(*                                                                         *)
(* The last part is about StudyPlanning, which proposes the profile of the *)
(* next iteration, plans the runs of a sensitivity study and proposes the  *)
(* candidates of a vehicle calibration.                                    *)
(***************************************************************************)
EXTENDS FlowCalibration, StudyPlanning, DataLemmas, SequenceTheorems

-----------------------------------------------------------------------------
(* The invariant.                                                          *)

\* Before the user starts the session nothing has happened.
Begun ==
  session = NoSession =>
    /\ requested = {}
    /\ \A r \in Runs : fate[r] = "unsent"
    /\ \A p \in Processes : pc[p] = "idle"

\* What a process has in hand at each stage.
EquippedAt(p) ==
  /\ pc[p] \in {"compare", "create", "persist", "publish", "giveup"} =>
       mem[p] \in Session
  /\ pc[p] = "create" => mem[p].done < Iterations
  /\ pc[p] \in {"publish", "giveup"} => next[p] \in Runs
  /\ pc[p] = "persist" /\ mem[p].status = "running" => next[p] \in Runs
  /\ p \in Workers /\ pc[p] # "idle" => held[p] \in Runs
  /\ p = Api => pc[p] \in {"idle", "create", "persist", "publish", "giveup"}
  /\ p \in owner => pc[p] # "idle"

Equipped == \A p \in Processes : EquippedAt(p)

\* One handler to a delivery that is not settled.
Owned ==
  /\ \A w \in Workers :
       pc[w] # "idle" => w \in owner /\ fate[held[w]] \in {"fresh", "retry"}
  /\ \A v, w \in Workers :
       pc[v] # "idle" /\ pc[w] # "idle" /\ held[v] = held[w] => v = w

\* A message follows its run: queued, ended, announced.
Announced ==
  \A r \in Runs :
    /\ r \in requested => run[r].state # "none"
    /\ fate[r] # "unsent" =>
         r \in requested \ waiting /\ run[r].state \in {"completed", "failed"}

\* The run of the iteration that is not counted yet is in the queue, or was.
OpenRequested ==
  Len(session.runs) > session.done /\ session.runs[session.done + 1] \in requested

\* The row lists its runs by iteration, at most one of them not counted.
Listed ==
  session # NoSession =>
    /\ Len(session.runs) \in {session.done, session.done + 1}
    /\ Len(session.results) = session.done
    /\ session.status = "running" => session.done < Iterations
    /\ session.status = "completed" => Len(session.runs) = session.done
    /\ \A i \in 1 .. Len(session.runs) :
         run[session.runs[i]].iteration = i /\ run[session.runs[i]].state # "none"
    /\ \A i \in 1 .. session.done :
         /\ session.results[i] = session.runs[i]
         /\ session.runs[i] \in requested
         /\ run[session.runs[i]].state = "completed"
    /\ \A r \in requested :
         \E i \in 1 .. Len(session.runs) : r = session.runs[i]
    /\ Cardinality(requested) =
         IF OpenRequested THEN session.done + 1 ELSE session.done

\* Worker w handles the end of the run that is not counted yet.
HoldsOpen(w) ==
  /\ w \in Workers
  /\ Len(session.runs) = session.done + 1
  /\ held[w] = session.runs[session.done + 1]

\* Worker w handled the run counted last; the API started the session.
HoldsLast(p) ==
  IF p = Api THEN session.done = 0
             ELSE session.done > 0 /\ held[p] = session.runs[session.done]

Unstarted(p) ==
  p = Api /\ session.done = 0 /\ session.runs = <<>> /\ requested = {}

Completed(copy) == [copy EXCEPT !.status = "completed"]
Launched(copy, r) == [copy EXCEPT !.runs = Append(@, r)]

\* The row a process at stage "create" or "persist" started from.
Base(p) == IF p = Api THEN session ELSE Counted(session, held[p])

Completes(w) == HoldsOpen(w) /\ run[held[w]].state = "completed"

\* The copy a process may be about to write.
Prepared(p) ==
  \/ /\ mem[p] = Failed(session)
     /\ HoldsOpen(p) \/ (Unstarted(p) /\ session.status = "running")
  \/ /\ session.status = "running" /\ Completes(p)
     /\ \/ mem[p] = Failed(Base(p))
        \/ Base(p).done >= Iterations /\ mem[p] = Completed(Base(p))
  \/ /\ session.status = "running" /\ (Completes(p) \/ Unstarted(p))
     /\ Base(p).done < Iterations
     /\ next[p] \in Runs \ requested
     /\ run[next[p]] = [state |-> "queued", iteration |-> Base(p).done + 1]
     /\ mem[p] = Launched(Base(p), next[p])

Turn(p) ==
  /\ pc[p] = "compare" =>
       mem[p] = session /\ session.status = "running" /\ Completes(p)
  /\ pc[p] = "create" =>
       /\ session.status = "running" /\ mem[p] = Base(p)
       /\ Completes(p) \/ Unstarted(p)
  /\ pc[p] = "persist" => Prepared(p)
  /\ pc[p] \in {"publish", "giveup"} =>
       /\ Len(session.runs) = session.done + 1
       /\ next[p] = session.runs[session.done + 1]
       /\ HoldsLast(p)
  /\ pc[p] = "publish" =>
       /\ mem[p] = session /\ session.status = "running"
       /\ next[p] \notin requested /\ run[next[p]].state = "queued"
  /\ pc[p] = "giveup" =>
       mem[p] = Failed(session) /\ run[next[p]].state = "failed"

Turns == \A p \in Processes : Turn(p)

Sane == TypeOK /\ Begun /\ Equipped

Orderly == Owned /\ Announced /\ Listed /\ Turns

Inv == Sane /\ (Exclusive => Orderly)

-----------------------------------------------------------------------------
(* Copies of the session row.                                              *)

LEMMA FailedCopy ==
  ASSUME NEW copy \in Session
  PROVE  /\ Failed(copy) \in Session
         /\ Failed(copy).status = "failed"
         /\ Failed(copy).done = copy.done
         /\ Failed(copy).runs = copy.runs
         /\ Failed(copy).results = copy.results
BY DEF Failed, Session

LEMMA CompletedCopy ==
  ASSUME NEW copy \in Session
  PROVE  /\ Completed(copy) \in Session
         /\ Completed(copy).status = "completed"
         /\ Completed(copy).done = copy.done
         /\ Completed(copy).runs = copy.runs
         /\ Completed(copy).results = copy.results
BY DEF Completed, Session

LEMMA CountedCopy ==
  ASSUME NEW copy \in Session, NEW r \in Runs, run[r].iteration \in 0 .. Iterations
  PROVE  /\ Counted(copy, r) \in Session
         /\ Counted(copy, r).status = copy.status
         /\ Counted(copy, r).done = run[r].iteration
         /\ Counted(copy, r).runs = copy.runs
         /\ Counted(copy, r).results = Append(copy.results, r)
<1>1. Append(copy.results, r) \in Seq(Runs)
  BY DEF Session
<1> QED
  BY <1>1 DEF Counted, Session

LEMMA LaunchedCopy ==
  ASSUME NEW copy \in Session, NEW r \in Runs
  PROVE  /\ Launched(copy, r) \in Session
         /\ Launched(copy, r).status = copy.status
         /\ Launched(copy, r).done = copy.done
         /\ Launched(copy, r).runs = Append(copy.runs, r)
         /\ Launched(copy, r).results = copy.results
<1>1. Append(copy.runs, r) \in Seq(Runs)
  BY DEF Session
<1> QED
  BY <1>1 DEF Launched, Session

LEMMA SessionFields ==
  ASSUME NEW copy \in Session
  PROVE  /\ copy # NoSession
         /\ copy.status \in {"running", "completed", "failed"}
         /\ copy.done \in 0 .. Iterations
         /\ copy.runs \in Seq(Runs)
         /\ copy.results \in Seq(Runs)
BY SessionAssumption DEF Session

-----------------------------------------------------------------------------
(* Types.                                                                  *)

RowsType ==
  /\ session \in Session \cup {NoSession}
  /\ run \in [Runs -> [state : RunState, iteration : 0 .. Iterations]]
  /\ waiting \subseteq requested
  /\ requested \subseteq Runs

QueueType ==
  /\ fate \in [Runs -> Queue!Fates]
  /\ processed \subseteq Runs

ProcsType ==
  /\ pc \in [Processes -> Stages]
  /\ held \in [Processes -> Runs \cup {None}]
  /\ owner \subseteq Workers
  /\ mem \in [Processes -> Session \cup {NoSession}]
  /\ next \in [Processes -> Runs \cup {None}]

FaultsType ==
  /\ faults \in [kill : 0 .. MaxKills, loss : 0 .. MaxLosses,
                 error : 0 .. MaxErrors, buried : 0 .. MaxBuried]
  /\ gap \in BOOLEAN

LEMMA TypeParts ==
  TypeOK <=> RowsType /\ QueueType /\ ProcsType /\ FaultsType
BY DEF TypeOK, RowsType, QueueType, ProcsType, FaultsType

LEMMA TypePartsNext ==
  RowsType' /\ QueueType' /\ ProcsType' /\ FaultsType' => TypeOK'
BY DEF TypeOK, RowsType, QueueType, ProcsType, FaultsType

LEMMA Someone == Workers \subseteq Processes /\ Api \in Processes /\ Api \notin Workers
BY CalibrationAssumption DEF Processes, CalibrationAssumption

LEMMA GoTypes ==
  ASSUME ProcsType, NEW p \in Processes, NEW stage \in Stages, GoTo(p, stage)
  PROVE  /\ pc' \in [Processes -> Stages]
         /\ pc'[p] = stage
         /\ \A q \in Processes \ {p} : pc'[q] = pc[q]
BY DEF ProcsType, GoTo

LEMMA WorkTypes ==
  ASSUME ProcsType, NEW p \in Processes, NEW copy \in Session, Work(p, copy)
  PROVE  /\ mem' \in [Processes -> Session \cup {NoSession}]
         /\ mem'[p] = copy
         /\ \A q \in Processes \ {p} : mem'[q] = mem[q]
BY DEF ProcsType, Work

\* Nothing of process q moves.
Same(q) ==
  /\ pc'[q] = pc[q]
  /\ mem'[q] = mem[q]
  /\ next'[q] = next[q]
  /\ held'[q] = held[q]

LEMMA RestTypes ==
  ASSUME ProcsType, NEW p \in Processes, Rest(p)
  PROVE  /\ ProcsType'
         /\ pc'[p] = "idle"
         /\ owner' = owner \ {p}
         /\ \A q \in Processes \ {p} : Same(q)
BY DEF ProcsType, Rest, Same, Stages

LEMMA QueueTypes ==
  ASSUME QueueType, NEW r \in Runs,
         \/ Queue!Submit(r) \/ Queue!Process(r) \/ Queue!Retry(r)
         \/ Queue!Complete(r) \/ Queue!Bury(r)
         \/ UNCHANGED queueVars
  PROVE  QueueType' /\ \A q \in Runs \ {r} : fate'[q] = fate[q]
BY DEF QueueType, queueVars, Queue!Submit, Queue!Process, Queue!Retry,
       Queue!Complete, Queue!Bury, Queue!Fates

LEMMA CountFault ==
  ASSUME FaultsType
  PROVE  LET f == faults IN
         /\ f.kill < MaxKills =>
              [f EXCEPT !.kill = @ + 1] \in [kill : 0 .. MaxKills, loss : 0 .. MaxLosses,
                 error : 0 .. MaxErrors, buried : 0 .. MaxBuried]
         /\ f.loss < MaxLosses =>
              [f EXCEPT !.loss = @ + 1] \in [kill : 0 .. MaxKills, loss : 0 .. MaxLosses,
                 error : 0 .. MaxErrors, buried : 0 .. MaxBuried]
         /\ f.error < MaxErrors =>
              [f EXCEPT !.error = @ + 1] \in [kill : 0 .. MaxKills, loss : 0 .. MaxLosses,
                 error : 0 .. MaxErrors, buried : 0 .. MaxBuried]
         /\ f.buried < MaxBuried =>
              [f EXCEPT !.buried = @ + 1] \in [kill : 0 .. MaxKills, loss : 0 .. MaxLosses,
                 error : 0 .. MaxErrors, buried : 0 .. MaxBuried]
<1> DEFINE f == faults
<1>1. /\ f.kill \in 0 .. MaxKills /\ f.loss \in 0 .. MaxLosses
      /\ f.error \in 0 .. MaxErrors /\ f.buried \in 0 .. MaxBuried
  BY DEF FaultsType
<1>2. /\ f.kill < MaxKills => f.kill + 1 \in 0 .. MaxKills
      /\ f.loss < MaxLosses => f.loss + 1 \in 0 .. MaxLosses
      /\ f.error < MaxErrors => f.error + 1 \in 0 .. MaxErrors
      /\ f.buried < MaxBuried => f.buried + 1 \in 0 .. MaxBuried
  BY <1>1, CalibrationAssumption DEF CalibrationAssumption
<1> QED
  BY <1>2 DEF FaultsType

LEMMA RaisedTypes ==
  ASSUME FaultsType, MayRaise, Raised, UNCHANGED gap
  PROVE  FaultsType'
BY CountFault DEF FaultsType, MayRaise, Raised

LEMMA Underway ==
  ASSUME Sane, NEW p \in Processes, pc[p] # "idle"
  PROVE  session \in Session
BY DEF Sane, Begun, TypeOK

LEMMA SaneStep ==
  ASSUME Sane, NEW p \in Processes,
         RowsType', QueueType', ProcsType', FaultsType', session' \in Session,
         \A q \in Processes \ {p} : Same(q),
         owner' \subseteq owner \cup {p},
         EquippedAt(p)'
  PROVE  Sane'
<1>1. Begun'
  BY SessionAssumption DEF Begun
<1>2. Equipped'
  <2> SUFFICES ASSUME NEW q \in Processes PROVE EquippedAt(q)'
    BY DEF Equipped
  <2>1. CASE q = p
    BY <2>1
  <2>2. CASE q # p
    <3>1. Same(q) /\ EquippedAt(q) /\ (q \in owner' => q \in owner)
      BY <2>2 DEF Sane, Equipped
    <3> QED
      BY <3>1 DEF Same, EquippedAt
  <2> QED
    BY <2>1, <2>2
<1> QED
  BY <1>1, <1>2, TypePartsNext DEF Sane

\* The process has nothing in hand any more.
LEMMA SaneRest ==
  ASSUME Sane, NEW p \in Processes, Rest(p),
         RowsType', QueueType', FaultsType', session' \in Session
  PROVE  Sane'
<1>1. ProcsType
  BY TypeParts DEF Sane
<1>2. /\ ProcsType' /\ pc'[p] = "idle" /\ owner' = owner \ {p}
      /\ \A q \in Processes \ {p} : Same(q)
  BY <1>1, RestTypes
<1>3. EquippedAt(p)'
  BY <1>2 DEF EquippedAt
<1> QED
  BY <1>2, <1>3, SaneStep

LEMMA RaisesTypes ==
  ASSUME Sane, NEW w \in Workers, pc[w] # "idle", HandlerRaises(w)
  PROVE  Rest(w) /\ QueueType'
<1>1. held[w] \in Runs /\ QueueType
  BY TypeParts, Someone DEF Sane, Equipped, EquippedAt
<1> QED
  BY <1>1, QueueTypes DEF HandlerRaises

LEMMA StartSane ==
  ASSUME Sane, Start
  PROVE  Sane'
<1>1. RowsType /\ QueueType /\ ProcsType /\ FaultsType
  BY TypeParts DEF Sane
<1>2. session' \in Session
  BY CalibrationAssumption DEF Start, Session, CalibrationAssumption
<1>3. session'.done = 0
  BY DEF Start
<1>4. /\ mem' \in [Processes -> Session \cup {NoSession}]
      /\ mem'[Api] = session'
      /\ \A q \in Processes \ {Api} : mem'[q] = mem[q]
  BY <1>1, <1>2, WorkTypes, Someone DEF Start
<1>5. /\ pc' \in [Processes -> Stages]
      /\ pc'[Api] = "create"
      /\ \A q \in Processes \ {Api} : pc'[q] = pc[q]
  BY <1>1, GoTypes, Someone DEF Start, Stages
<1>6. UNCHANGED <<run, waiting, requested, fate, processed, held, next, owner, faults, gap>>
  BY DEF Start, queueVars
<1>7. RowsType' /\ QueueType' /\ ProcsType' /\ FaultsType'
  BY <1>1, <1>2, <1>4, <1>5, <1>6 DEF RowsType, QueueType, ProcsType, FaultsType
<1>8. 0 < Iterations
  BY CalibrationAssumption DEF CalibrationAssumption
<1>9. EquippedAt(Api)'
  <2>1. Api \notin owner
    BY <1>1, Someone DEF ProcsType
  <2> QED
    BY <1>2, <1>3, <1>4, <1>5, <1>6, <1>8, <2>1, Someone DEF EquippedAt
<1> QED
  BY <1>2, <1>4, <1>5, <1>6, <1>7, <1>9, SaneStep, Someone DEF Same

LEMMA FreshUnused ==
  ASSUME Unused # {}
  PROVE  Fresh \in Runs /\ run[Fresh].state = "none"
<1>1. Unused \subseteq Nat
  BY DEF Unused, Runs
<1>2. \E r \in Unused : \A q \in Unused : r <= q
  <2> DEFINE less == OpToRel(<, Nat)
  <2>1. IsWellFoundedOn(less, Nat)
    BY NatLessThanWellFounded
  <2>2. \A q, r \in Nat : q < r => <<q, r>> \in less
    BY DEF OpToRel
  <2> HIDE DEF less
  <2>3. PICK r \in Unused : \A q \in Unused : ~(<<q, r>> \in less)
    BY <1>1, <2>1, WFMin
  <2>4. ASSUME NEW q \in Unused PROVE r <= q
    <3>1. q \in Nat /\ r \in Nat
      BY <1>1
    <3>2. ~(q < r)
      BY <2>2, <2>3, <3>1
    <3> QED
      BY <3>1, <3>2
  <2> QED
    BY <2>4
<1> QED
  BY <1>2 DEF Fresh, Unused

LEMMA Equipment ==
  ASSUME Sane, NEW p \in Processes
  PROVE  EquippedAt(p) /\ RowsType /\ QueueType /\ ProcsType /\ FaultsType
BY TypeParts DEF Sane, Equipped

\* The record of a new run.
LEMMA RecordTypes ==
  ASSUME RowsType, NEW r \in Runs, NEW i \in 0 .. Iterations,
         run' = [run EXCEPT ![r] = [state |-> "queued", iteration |-> i]]
  PROVE  run' \in [Runs -> [state : RunState, iteration : 0 .. Iterations]]
BY DEF RowsType, RunState

LEMMA CreateSane ==
  ASSUME Sane, NEW p \in Processes, Create(p)
  PROVE  Sane'
<1>1. EquippedAt(p) /\ RowsType /\ QueueType /\ ProcsType /\ FaultsType
  BY Equipment
<1>2. pc[p] = "create" /\ Fresh \in Runs
  BY FreshUnused DEF Create
<1>3. mem[p] \in Session /\ mem[p].done + 1 \in 0 .. Iterations /\ session \in Session
  <2>1. mem[p] \in Session /\ mem[p].done < Iterations
    BY <1>1, <1>2 DEF EquippedAt
  <2>2. mem[p].done \in 0 .. Iterations
    BY <2>1, SessionFields
  <2> QED
    BY <1>2, <2>1, <2>2, Underway, CalibrationAssumption DEF CalibrationAssumption
<1> DEFINE record == [run EXCEPT ![Fresh] =
                        [state |-> "queued", iteration |-> mem[p].done + 1]]
<1>4. /\ pc' \in [Processes -> Stages] /\ pc'[p] = "persist"
      /\ \A q \in Processes \ {p} : pc'[q] = pc[q]
  BY <1>1, GoTypes DEF Create, Stages
<1>5. UNCHANGED <<session, waiting, requested, fate, processed, held, owner, gap>>
  BY DEF Create, queueVars
<1>6. CASE /\ run' = record
           /\ next' = [next EXCEPT ![p] = Fresh]
           /\ Work(p, [mem[p] EXCEPT !.runs = Append(@, Fresh)])
           /\ UNCHANGED faults
  <2>1. Work(p, Launched(mem[p], Fresh))
    BY <1>6 DEF Launched
  <2>2. /\ mem' \in [Processes -> Session \cup {NoSession}]
        /\ mem'[p] \in Session
        /\ \A q \in Processes \ {p} : mem'[q] = mem[q]
    BY <1>1, <1>2, <1>3, <2>1, WorkTypes, LaunchedCopy
  <2>3. /\ next' \in [Processes -> Runs \cup {None}] /\ next'[p] \in Runs
        /\ \A q \in Processes \ {p} : next'[q] = next[q]
    BY <1>1, <1>2, <1>6 DEF ProcsType
  <2>4. run' \in [Runs -> [state : RunState, iteration : 0 .. Iterations]]
    BY <1>1, <1>2, <1>3, <1>6, RecordTypes
  <2>5. RowsType' /\ QueueType' /\ ProcsType' /\ FaultsType'
    BY <1>1, <1>4, <1>5, <1>6, <2>2, <2>3, <2>4
       DEF RowsType, QueueType, ProcsType, FaultsType
  <2>6. EquippedAt(p)'
    BY <1>1, <1>2, <1>4, <1>5, <2>2, <2>3 DEF EquippedAt
  <2> QED
    BY <1>3, <1>4, <1>5, <2>2, <2>3, <2>5, <2>6, SaneStep DEF Same
<1>7. CASE /\ MayRaise /\ Raised
           /\ run' \in {run, record}
           /\ Work(p, Failed(mem[p]))
           /\ UNCHANGED next
  <2>1. /\ mem' \in [Processes -> Session \cup {NoSession}]
        /\ mem'[p] \in Session /\ mem'[p].status = "failed"
        /\ \A q \in Processes \ {p} : mem'[q] = mem[q]
    BY <1>1, <1>3, <1>7, WorkTypes, FailedCopy
  <2>2. run' \in [Runs -> [state : RunState, iteration : 0 .. Iterations]]
    <3>1. CASE run' = run
      BY <1>1, <3>1 DEF RowsType
    <3>2. CASE run' = record
      BY <1>1, <1>2, <1>3, <3>2, RecordTypes
    <3> QED
      BY <1>7, <3>1, <3>2
  <2>3. RowsType' /\ QueueType' /\ ProcsType' /\ FaultsType'
    BY <1>1, <1>4, <1>5, <1>7, <2>1, <2>2, RaisedTypes
       DEF RowsType, QueueType, ProcsType
  <2>4. EquippedAt(p)'
    BY <1>1, <1>2, <1>4, <1>5, <2>1 DEF EquippedAt
  <2> QED
    BY <1>3, <1>4, <1>5, <1>7, <2>1, <2>3, <2>4, SaneStep DEF Same
<1> QED
  BY <1>6, <1>7 DEF Create

LEMMA PersistSane ==
  ASSUME Sane, NEW p \in Processes, Persist(p)
  PROVE  Sane'
<1>1. EquippedAt(p) /\ RowsType /\ QueueType /\ ProcsType /\ FaultsType
  BY Equipment
<1>2. pc[p] = "persist" /\ session' = mem[p] /\ mem[p] \in Session
  BY <1>1 DEF Persist, EquippedAt
<1> DEFINE stage == AfterPersist(p)
<1>3. /\ stage \in Stages
      /\ stage \in {"publish", "idle", "archive"}
      /\ stage = "publish" => mem[p].status = "running"
      /\ stage = "idle" <=> mem[p].status # "running" /\ p = Api
  BY DEF AfterPersist, Stages
<1>4. GoTo(p, stage)
  BY DEF Persist
<1> HIDE DEF stage
<1>5. /\ pc' \in [Processes -> Stages] /\ pc'[p] = stage
      /\ \A q \in Processes \ {p} : pc'[q] = pc[q]
  BY <1>1, <1>3, <1>4, GoTypes
<1>6. UNCHANGED <<run, waiting, requested, fate, processed, held, mem, next, owner, faults, gap>>
  BY DEF Persist, queueVars
<1>7. RowsType' /\ QueueType' /\ ProcsType' /\ FaultsType'
  BY <1>1, <1>2, <1>5, <1>6 DEF RowsType, QueueType, ProcsType, FaultsType
<1>8. EquippedAt(p)'
  <2>1. Api \notin owner
    BY <1>1, Someone DEF ProcsType
  <2>2. stage = "archive" => p # Api
    BY DEF stage, AfterPersist
  <2> QED
    BY <1>1, <1>2, <1>3, <1>5, <1>6, <2>1, <2>2 DEF EquippedAt
<1> QED
  BY <1>2, <1>5, <1>6, <1>7, <1>8, SaneStep DEF Same

\* A run is marked failed, unless it has ended.
LEMMA MarkTypes ==
  ASSUME RowsType, NEW r \in Runs, NEW state \in RunState,
         run' = [run EXCEPT ![r].state = IF @ = "queued" THEN state ELSE @]
  PROVE  /\ run' \in [Runs -> [state : RunState, iteration : 0 .. Iterations]]
         /\ \A q \in Runs : run'[q].iteration = run[q].iteration
         /\ \A q \in Runs \ {r} : run'[q] = run[q]
         /\ run[r].state # "queued" => run'[r] = run[r]
         /\ run[r].state = "queued" => run'[r].state = state
<1> DEFINE new == IF run[r].state = "queued" THEN state ELSE run[r].state
<1>1. run[r] \in [state : RunState, iteration : 0 .. Iterations]
  BY DEF RowsType
<1>2. new \in RunState
  BY <1>1
<1>3. run' = [run EXCEPT ![r] = [run[r] EXCEPT !.state = new]]
  OBVIOUS
<1> HIDE DEF new
<1>4. [run[r] EXCEPT !.state = new] \in [state : RunState, iteration : 0 .. Iterations]
  BY <1>1, <1>2
<1>5. /\ run'[r] = [run[r] EXCEPT !.state = new]
      /\ \A q \in Runs \ {r} : run'[q] = run[q]
      /\ run' \in [Runs -> [state : RunState, iteration : 0 .. Iterations]]
  BY <1>3, <1>4 DEF RowsType
<1>6. run'[r].iteration = run[r].iteration /\ run'[r].state = new
  BY <1>1, <1>5
<1>7. run[r].state # "queued" => [run[r] EXCEPT !.state = new] = run[r]
  BY <1>1 DEF new
<1> QED
  BY <1>5, <1>6, <1>7 DEF new

LEMMA PublishSane ==
  ASSUME Sane, NEW p \in Processes, Publish(p)
  PROVE  Sane'
<1>1. EquippedAt(p) /\ RowsType /\ QueueType /\ ProcsType /\ FaultsType
  BY Equipment
<1>2. pc[p] = "publish" /\ mem[p] \in Session /\ next[p] \in Runs /\ session \in Session
  BY <1>1, Underway DEF Publish, EquippedAt
<1>3. waiting' \subseteq requested' /\ requested' \subseteq Runs
  BY <1>1, <1>2 DEF Publish, Taken, RowsType
<1>4. UNCHANGED <<session, fate, processed, held, next, owner, gap>>
  BY DEF Publish, queueVars
<1>5. CASE /\ GoTo(p, IF p = Api THEN "idle" ELSE "archive")
           /\ UNCHANGED <<run, mem, faults>>
  <2> DEFINE stage == IF p = Api THEN "idle" ELSE "archive"
  <2>1. stage \in Stages /\ GoTo(p, stage)
    BY <1>5 DEF Stages
  <2>2. /\ pc' \in [Processes -> Stages] /\ pc'[p] = stage
        /\ \A q \in Processes \ {p} : pc'[q] = pc[q]
    BY <1>1, <2>1, GoTypes
  <2>3. RowsType' /\ QueueType' /\ ProcsType' /\ FaultsType'
    BY <1>1, <1>3, <1>4, <1>5, <2>2 DEF RowsType, QueueType, ProcsType, FaultsType
  <2>4. EquippedAt(p)'
    <3>1. Api \notin owner
      BY <1>1, Someone DEF ProcsType
    <3> QED
      BY <1>1, <1>2, <1>4, <1>5, <2>2, <3>1 DEF EquippedAt
  <2> QED
    BY <1>2, <1>4, <1>5, <2>2, <2>3, <2>4, SaneStep DEF Same
<1>6. CASE /\ MayRaise /\ Raised
           /\ run' = [run EXCEPT ![next[p]].state = IF @ = "queued" THEN "failed" ELSE @]
           /\ Work(p, Failed(mem[p]))
           /\ GoTo(p, "giveup")
  <2>1. /\ pc' \in [Processes -> Stages] /\ pc'[p] = "giveup"
        /\ \A q \in Processes \ {p} : pc'[q] = pc[q]
    BY <1>1, <1>6, GoTypes DEF Stages
  <2>2. /\ mem' \in [Processes -> Session \cup {NoSession}]
        /\ mem'[p] \in Session
        /\ \A q \in Processes \ {p} : mem'[q] = mem[q]
    BY <1>1, <1>2, <1>6, WorkTypes, FailedCopy
  <2>3. run' \in [Runs -> [state : RunState, iteration : 0 .. Iterations]]
    BY <1>1, <1>2, <1>6, MarkTypes DEF RunState
  <2>4. RowsType' /\ QueueType' /\ ProcsType' /\ FaultsType'
    BY <1>1, <1>3, <1>4, <1>6, <2>1, <2>2, <2>3, RaisedTypes
       DEF RowsType, QueueType, ProcsType
  <2>5. EquippedAt(p)'
    BY <1>1, <1>2, <1>4, <2>1, <2>2 DEF EquippedAt
  <2> QED
    BY <1>2, <1>4, <2>1, <2>2, <2>4, <2>5, SaneStep DEF Same
<1> QED
  BY <1>5, <1>6 DEF Publish

LEMMA GiveUpSane ==
  ASSUME Sane, NEW p \in Processes, GiveUp(p)
  PROVE  Sane'
<1>1. EquippedAt(p) /\ RowsType /\ QueueType /\ ProcsType /\ FaultsType
  BY Equipment
<1>2. pc[p] = "giveup" /\ session' = mem[p] /\ mem[p] \in Session
  BY <1>1 DEF GiveUp, EquippedAt
<1>3. UNCHANGED <<run, waiting, requested, faults, gap>>
  BY DEF GiveUp
<1>4. Rest(p) /\ QueueType'
  <2>1. CASE p \in Workers /\ HandlerRaises(p)
    BY <1>2, <2>1, RaisesTypes
  <2>2. CASE p = Api /\ Rest(p) /\ UNCHANGED queueVars
    BY <1>1, <2>2 DEF QueueType, queueVars
  <2> QED
    BY <2>1, <2>2 DEF GiveUp
<1>5. RowsType' /\ FaultsType'
  BY <1>1, <1>2, <1>3 DEF RowsType, FaultsType
<1> QED
  BY <1>2, <1>4, <1>5, SaneRest

LEMMA Requested ==
  ASSUME Sane, NEW r \in Runs, r \in requested \/ fate[r] # "unsent"
  PROVE  session \in Session
BY DEF Sane, Begun, TypeOK

\* A step of the simulation side or of the broker: no process moves.
LEMMA SaneAround ==
  ASSUME Sane, RowsType', QueueType', FaultsType', session' \in Session,
         UNCHANGED procVars, owner' \subseteq owner
  PROVE  Sane'
<1>1. UNCHANGED <<pc, held, mem, next>>
  BY DEF procVars
<1>2. ProcsType'
  BY <1>1, TypeParts DEF Sane, ProcsType
<1>3. Api \in Processes /\ EquippedAt(Api)
  BY Equipment, Someone
<1>4. EquippedAt(Api)'
  BY <1>1, <1>3 DEF EquippedAt
<1> QED
  BY <1>1, <1>2, <1>3, <1>4, SaneStep DEF Same

LEMMA RunEndsSane ==
  ASSUME Sane, NEW r \in Runs, RunEnds(r)
  PROVE  Sane'
<1>1. RowsType /\ QueueType /\ FaultsType
  BY TypeParts DEF Sane
<1>2. session \in Session
  BY <1>1, Requested DEF RunEnds, RowsType
<1>3. run' \in [Runs -> [state : RunState, iteration : 0 .. Iterations]]
  BY <1>1 DEF RunEnds, RowsType, RunState
<1>4. RowsType' /\ QueueType' /\ FaultsType'
  BY <1>1, <1>3, QueueTypes DEF RunEnds, RowsType, FaultsType
<1> QED
  BY <1>2, <1>4, SaneAround DEF RunEnds

LEMMA RunBuriedSane ==
  ASSUME Sane, NEW r \in Runs, RunBuried(r)
  PROVE  Sane'
<1>1. RowsType /\ QueueType /\ FaultsType
  BY TypeParts DEF Sane
<1>2. session \in Session
  BY <1>1, Requested DEF RunBuried, RowsType
<1>3. run' \in [Runs -> [state : RunState, iteration : 0 .. Iterations]]
  BY <1>1, MarkTypes DEF RunBuried, RunState
<1>4. RowsType' /\ QueueType'
  BY <1>1, <1>3 DEF RunBuried, RowsType, QueueType, queueVars
<1>5. FaultsType'
  BY <1>1, CountFault DEF RunBuried, FaultsType
<1> QED
  BY <1>2, <1>4, <1>5, SaneAround DEF RunBuried

LEMMA DeliverSane ==
  ASSUME Sane, NEW w \in Workers, NEW r \in Runs, Deliver(w, r)
  PROVE  Sane'
<1>1. EquippedAt(w) /\ RowsType /\ QueueType /\ ProcsType /\ FaultsType /\ w \in Processes
  BY Equipment, Someone
<1>2. session \in Session
  BY Requested DEF Deliver
<1>3. /\ pc' \in [Processes -> Stages] /\ pc'[w] = "download"
      /\ \A q \in Processes \ {w} : pc'[q] = pc[q]
  BY <1>1, GoTypes DEF Deliver, Stages
<1>4. /\ held' \in [Processes -> Runs \cup {None}] /\ held'[w] \in Runs
      /\ \A q \in Processes \ {w} : held'[q] = held[q]
  BY <1>1 DEF Deliver, ProcsType
<1>5. UNCHANGED <<session, run, waiting, requested, fate, processed, mem, next, faults, gap>>
      /\ owner' = owner \cup {w}
  BY DEF Deliver, queueVars
<1>6. RowsType' /\ QueueType' /\ ProcsType' /\ FaultsType'
  BY <1>1, <1>3, <1>4, <1>5 DEF RowsType, QueueType, ProcsType, FaultsType
<1>7. EquippedAt(w)'
  BY <1>3, <1>4, Someone DEF EquippedAt
<1> QED
  BY <1>1, <1>2, <1>3, <1>4, <1>5, <1>6, <1>7, SaneStep DEF Same

\* A stage of a handler that leaves the rows alone and goes on.
LEMMA SaneGo ==
  ASSUME Sane, NEW w \in Workers, pc[w] # "idle",
         NEW stage \in Stages \ {"idle", "create", "publish", "giveup"}, GoTo(w, stage),
         UNCHANGED <<session, run, waiting, requested, held, next, owner, faults, gap>>,
         QueueType',
         mem' \in [Processes -> Session \cup {NoSession}],
         \A q \in Processes \ {w} : mem'[q] = mem[q],
         stage \in {"compare", "persist"} => mem'[w] \in Session,
         stage = "persist" => mem'[w].status # "running"
  PROVE  Sane'
<1>1. EquippedAt(w) /\ RowsType /\ ProcsType /\ FaultsType /\ w \in Processes
  BY Equipment, Someone
<1>2. session \in Session
  BY <1>1, Underway
<1>3. /\ pc' \in [Processes -> Stages] /\ pc'[w] = stage
      /\ \A q \in Processes \ {w} : pc'[q] = pc[q]
  BY <1>1, GoTypes
<1>4. RowsType' /\ ProcsType' /\ FaultsType'
  BY <1>1, <1>3 DEF RowsType, ProcsType, FaultsType
<1>5. EquippedAt(w)'
  BY <1>1, <1>3, Someone DEF EquippedAt
<1> QED
  BY <1>1, <1>2, <1>3, <1>4, <1>5, SaneStep DEF Same

LEMMA SaneRaise ==
  ASSUME Sane, NEW w \in Workers, pc[w] # "idle", MayRaise, Raised, HandlerRaises(w),
         UNCHANGED <<session, run, waiting, requested, gap>>
  PROVE  Sane'
<1>1. RowsType /\ FaultsType /\ w \in Processes /\ session \in Session
  BY Equipment, Someone, Underway
<1>2. Rest(w) /\ QueueType'
  BY RaisesTypes
<1>3. RowsType' /\ FaultsType'
  BY <1>1, RaisedTypes DEF RowsType
<1> QED
  BY <1>1, <1>2, <1>3, SaneRest

LEMMA DownloadSane ==
  ASSUME Sane, NEW w \in Workers, Download(w)
  PROVE  Sane'
<1>1. pc[w] = "download" /\ UNCHANGED <<session, run, waiting, requested, gap>>
  BY DEF Download
<1>2. QueueType /\ ProcsType
  BY TypeParts DEF Sane
<1>3. CASE GoTo(w, "read") /\ UNCHANGED <<held, mem, next, owner, queueVars, faults>>
  BY <1>1, <1>2, <1>3, SaneGo DEF Stages, QueueType, ProcsType, queueVars
<1>4. CASE MayRaise /\ Raised /\ HandlerRaises(w)
  BY <1>1, <1>4, SaneRaise
<1> QED
  BY <1>3, <1>4 DEF Download

LEMMA ReadSessionSane ==
  ASSUME Sane, NEW w \in Workers, ReadSession(w)
  PROVE  Sane'
<1>1. /\ pc[w] = "read"
      /\ UNCHANGED <<session, run, waiting, requested, held, next, owner, faults, gap>>
      /\ UNCHANGED queueVars
  BY DEF ReadSession
<1>2. QueueType' /\ ProcsType /\ w \in Processes /\ session \in Session
  BY <1>1, Equipment, Someone, Underway DEF QueueType, queueVars
<1>3. CASE GoTo(w, "archive") /\ UNCHANGED mem
  BY <1>1, <1>2, <1>3, SaneGo DEF Stages, ProcsType
<1>4. CASE Work(w, Failed(session)) /\ GoTo(w, "persist")
  <2>1. /\ mem' \in [Processes -> Session \cup {NoSession}]
        /\ mem'[w] \in Session /\ mem'[w].status = "failed"
        /\ \A q \in Processes \ {w} : mem'[q] = mem[q]
    BY <1>2, <1>4, WorkTypes, FailedCopy
  <2> QED
    BY <1>1, <1>2, <1>4, <2>1, SaneGo DEF Stages
<1>5. CASE Work(w, session) /\ GoTo(w, "compare")
  <2>1. /\ mem' \in [Processes -> Session \cup {NoSession}]
        /\ mem'[w] \in Session
        /\ \A q \in Processes \ {w} : mem'[q] = mem[q]
    BY <1>2, <1>5, WorkTypes
  <2> QED
    BY <1>1, <1>2, <1>5, <2>1, SaneGo DEF Stages
<1> QED
  BY <1>3, <1>4, <1>5 DEF ReadSession

LEMMA CompareSane ==
  ASSUME Sane, NEW w \in Workers, Compare(w)
  PROVE  Sane'
<1> DEFINE counted == Counted(mem[w], held[w])
<1>1. /\ pc[w] = "compare"
      /\ UNCHANGED <<session, run, waiting, requested, held, next, owner, faults, gap>>
      /\ UNCHANGED queueVars
  BY DEF Compare
<1>2. /\ QueueType' /\ ProcsType /\ RowsType /\ FaultsType /\ EquippedAt(w)
      /\ w \in Processes /\ session \in Session
  BY <1>1, Equipment, Someone, Underway DEF QueueType, queueVars
<1>3. mem[w] \in Session /\ held[w] \in Runs /\ run[held[w]].iteration \in 0 .. Iterations
  BY <1>1, <1>2 DEF EquippedAt, RowsType
<1>4. counted \in Session
  BY <1>3, CountedCopy
<1>5. \/ Work(w, Failed(mem[w])) /\ GoTo(w, "persist")
      \/ Work(w, Failed(counted)) /\ GoTo(w, "persist")
      \/ Work(w, Completed(counted)) /\ GoTo(w, "persist")
      \/ Work(w, counted) /\ GoTo(w, "create") /\ ~IsLast(counted)
  BY DEF Compare, Completed
<1> HIDE DEF counted
<1>6. CASE \E copy \in {Failed(mem[w]), Failed(counted), Completed(counted)} :
             Work(w, copy) /\ GoTo(w, "persist")
  <2>1. /\ mem' \in [Processes -> Session \cup {NoSession}]
        /\ mem'[w] \in Session /\ mem'[w].status # "running"
        /\ \A q \in Processes \ {w} : mem'[q] = mem[q]
    BY <1>2, <1>3, <1>4, <1>6, WorkTypes, FailedCopy, CompletedCopy
  <2> QED
    BY <1>1, <1>2, <1>6, <2>1, SaneGo DEF Stages
<1>7. CASE Work(w, counted) /\ GoTo(w, "create") /\ ~IsLast(counted)
  <2>1. /\ mem' \in [Processes -> Session \cup {NoSession}]
        /\ mem'[w] = counted
        /\ \A q \in Processes \ {w} : mem'[q] = mem[q]
    BY <1>2, <1>4, <1>7, WorkTypes
  <2>2. counted.done < Iterations
    BY <1>4, <1>7, SessionFields, CalibrationAssumption DEF IsLast, CalibrationAssumption
  <2>3. /\ pc' \in [Processes -> Stages] /\ pc'[w] = "create"
        /\ \A q \in Processes \ {w} : pc'[q] = pc[q]
    BY <1>2, <1>7, GoTypes DEF Stages
  <2>4. RowsType' /\ ProcsType' /\ FaultsType'
    BY <1>1, <1>2, <2>1, <2>3 DEF RowsType, ProcsType, FaultsType
  <2>5. EquippedAt(w)'
    BY <1>1, <1>3, <1>4, <2>1, <2>2, <2>3, Someone DEF EquippedAt
  <2> QED
    BY <1>1, <1>2, <2>1, <2>3, <2>4, <2>5, SaneStep DEF Same
<1> QED
  BY <1>5, <1>6, <1>7

LEMMA ArchiveSane ==
  ASSUME Sane, NEW w \in Workers, Archive(w)
  PROVE  Sane'
<1>1. pc[w] = "archive" /\ UNCHANGED <<session, run, waiting, requested, gap>>
  BY DEF Archive
<1>2. QueueType /\ ProcsType /\ held[w] \in Runs
  BY <1>1, Equipment, Someone DEF EquippedAt
<1>3. CASE /\ Queue!Process(held[w]) /\ GoTo(w, "ack")
           /\ UNCHANGED <<held, mem, next, owner, faults>>
  <2>1. QueueType'
    BY <1>2, <1>3, QueueTypes
  <2> QED
    BY <1>1, <1>2, <1>3, <2>1, SaneGo DEF Stages, ProcsType
<1>4. CASE MayRaise /\ Raised /\ HandlerRaises(w)
  BY <1>1, <1>4, SaneRaise
<1> QED
  BY <1>3, <1>4 DEF Archive

LEMMA AckSane ==
  ASSUME Sane, NEW w \in Workers, Ack(w)
  PROVE  Sane'
<1>1. /\ pc[w] = "ack" /\ Rest(w)
      /\ UNCHANGED <<session, run, waiting, requested, faults, gap>>
  BY DEF Ack
<1>2. /\ RowsType /\ QueueType /\ FaultsType /\ w \in Processes
      /\ held[w] \in Runs /\ session \in Session
  BY <1>1, Equipment, Someone, Underway DEF EquippedAt
<1>3. RowsType' /\ QueueType' /\ FaultsType'
  BY <1>1, <1>2, QueueTypes DEF Ack, RowsType, FaultsType
<1> QED
  BY <1>1, <1>2, <1>3, SaneRest

LEMMA RedeliveredTypes ==
  ASSUME Sane, NEW p \in Processes, p \in owner, Redelivered(held[p])
  PROVE  /\ QueueType' /\ held[p] \in Runs
         /\ \A q \in Runs \ {held[p]} : fate'[q] = fate[q]
<1>1. EquippedAt(p) /\ QueueType /\ ProcsType
  BY Equipment
<1>2. held[p] \in Runs
  BY <1>1 DEF EquippedAt, ProcsType
<1> QED
  BY <1>1, <1>2, QueueTypes DEF Redelivered

LEMMA LoseConnectionSane ==
  ASSUME Sane, NEW w \in Workers, LoseConnection(w)
  PROVE  Sane'
<1>1. /\ w \in owner /\ owner' = owner \ {w} /\ Redelivered(held[w])
      /\ UNCHANGED <<session, run, waiting, requested, gap>> /\ UNCHANGED procVars
      /\ faults.loss < MaxLosses /\ faults' = [faults EXCEPT !.loss = @ + 1]
  BY DEF LoseConnection
<1>2. /\ RowsType /\ FaultsType /\ w \in Processes /\ EquippedAt(w)
  BY Equipment, Someone
<1>3. session \in Session
  BY <1>1, <1>2, Underway DEF EquippedAt
<1>4. RowsType' /\ QueueType' /\ FaultsType'
  BY <1>1, <1>2, RedeliveredTypes, CountFault DEF RowsType, FaultsType
<1> QED
  BY <1>1, <1>3, <1>4, SaneAround

LEMMA KillSane ==
  ASSUME Sane, NEW p \in Processes, Kill(p)
  PROVE  Sane'
<1>1. /\ pc[p] # "idle" /\ Rest(p)
      /\ UNCHANGED <<session, run, waiting, requested>>
      /\ faults.kill < MaxKills /\ faults' = [faults EXCEPT !.kill = @ + 1]
      /\ gap' = (gap \/ InGap(p))
      /\ IF p \in owner THEN Redelivered(held[p]) ELSE UNCHANGED queueVars
  BY DEF Kill
<1>2. RowsType /\ QueueType /\ FaultsType /\ session \in Session
  BY <1>1, Equipment, Underway
<1>3. QueueType'
  BY <1>1, <1>2, RedeliveredTypes DEF QueueType, queueVars
<1>4. gap' \in BOOLEAN
  BY <1>1, <1>2 DEF FaultsType, InGap
<1>5. RowsType' /\ FaultsType'
  BY <1>1, <1>2, <1>4, CountFault DEF RowsType, FaultsType
<1> QED
  BY <1>1, <1>2, <1>3, <1>5, SaneRest

LEMMA InitSane == Init => Sane
<1> SUFFICES ASSUME Init PROVE Sane
  OBVIOUS
<1>1. RowsType /\ ProcsType
  BY CalibrationAssumption
     DEF Init, RowsType, ProcsType, RunState, Stages, CalibrationAssumption
<1>2. QueueType
  BY DEF Init, Queue!Init, QueueType, Queue!Fates
<1>3. FaultsType
  <2>1. 0 \in 0 .. MaxKills /\ 0 \in 0 .. MaxLosses
        /\ 0 \in 0 .. MaxErrors /\ 0 \in 0 .. MaxBuried
    BY CalibrationAssumption DEF CalibrationAssumption
  <2> QED
    BY <2>1 DEF Init, FaultsType
<1>4. Begun /\ Equipped
  BY DEF Init, Queue!Init, Begun, Equipped, EquippedAt
<1> QED
  BY <1>1, <1>2, <1>3, <1>4, TypeParts DEF Sane

LEMMA NextSane == Sane /\ [Next]_vars => Sane'
<1> SUFFICES ASSUME Sane, [Next]_vars PROVE Sane'
  OBVIOUS
<1>1. CASE Start
  BY <1>1, StartSane
<1>2. ASSUME NEW p \in Processes, Step(p) PROVE Sane'
  BY <1>2, CreateSane, PersistSane, PublishSane, GiveUpSane DEF Step
<1>3. ASSUME NEW w \in Workers, Handle(w) PROVE Sane'
  BY <1>3, DeliverSane, DownloadSane, ReadSessionSane, CompareSane, ArchiveSane,
     AckSane DEF Handle
<1>4. ASSUME NEW r \in Runs, RunEnds(r) \/ RunBuried(r) PROVE Sane'
  BY <1>4, RunEndsSane, RunBuriedSane
<1>5. ASSUME NEW w \in Workers, LoseConnection(w) PROVE Sane'
  BY <1>5, LoseConnectionSane
<1>6. ASSUME NEW p \in Processes, Kill(p) PROVE Sane'
  BY <1>6, KillSane
<1>7. CASE UNCHANGED vars
  BY <1>7 DEF vars, queueVars, procVars, Sane, TypeOK, Begun, Equipped, EquippedAt
<1> QED
  BY <1>1, <1>2, <1>3, <1>4, <1>5, <1>6, <1>7 DEF Next

\* Every variable keeps its type, for any number of workers, iterations and
\* faults; in particular no iteration beyond the requested ones is ever recorded.
THEOREM TypeCorrect == Spec => []TypeOK
<1>1. Sane => TypeOK
  BY DEF Sane
<1> QED
  BY <1>1, InitSane, NextSane, PTL DEF Spec

-----------------------------------------------------------------------------
(* Steps that leave the row and the queue of runs alone.                   *)

\* Runs that have ended, and runs nobody was asked to simulate, stay as they are.
Continues ==
  \A r \in Runs : run[r].state # "none" =>
    /\ run'[r].iteration = run[r].iteration
    /\ run'[r].state # "none"
    /\ run[r].state \in {"completed", "failed"} \/ r \notin requested => run'[r] = run[r]

LEMMA ListedStays ==
  ASSUME Sane, Listed, Continues, UNCHANGED <<session, requested>>
  PROVE  Listed'
<1> SUFFICES ASSUME session # NoSession PROVE Listed'
  BY DEF Listed
<1>1. session \in Session
  BY DEF Sane, TypeOK
<1>2. session.runs \in Seq(Runs) /\ session.done \in Nat
  BY <1>1, SessionFields
<1>3. \A i \in 1 .. Len(session.runs) : session.runs[i] \in Runs
  BY <1>2
<1>4. Len(session.runs) \in {session.done, session.done + 1}
  BY DEF Listed
<1>5. \A i \in 1 .. Len(session.runs) :
        run'[session.runs[i]].iteration = i /\ run'[session.runs[i]].state # "none"
  BY <1>3 DEF Listed, Continues
<1>6. \A i \in 1 .. session.done : run'[session.runs[i]].state = "completed"
  BY <1>2, <1>3, <1>4 DEF Listed, Continues
<1>7. OpenRequested' = OpenRequested
  BY DEF OpenRequested
<1> QED
  BY <1>5, <1>6, <1>7 DEF Listed

LEMMA CompletesStays ==
  ASSUME Sane, Continues, UNCHANGED <<session, requested>>,
         NEW q \in Processes, Same(q), pc[q] # "idle", Completes(q)
  PROVE  Completes(q)' /\ Base(q)' = Base(q)
<1>1. q \in Workers /\ held[q] \in Runs /\ run[held[q]].state = "completed"
  BY Equipment DEF Completes, HoldsOpen, EquippedAt
<1>2. run'[held[q]] = run[held[q]]
  BY <1>1 DEF Continues
<1>3. Completes(q)'
  BY <1>1, <1>2 DEF Completes, HoldsOpen, Same
<1>4. Base(q)' = Base(q)
  BY <1>1, <1>2 DEF Base, Counted, Same
<1> QED
  BY <1>3, <1>4

LEMMA UnstartedStays ==
  ASSUME UNCHANGED <<session, requested>>, NEW q, Unstarted(q)
  PROVE  Unstarted(q)' /\ Base(q)' = Base(q)
BY DEF Unstarted, Base

LEMMA PreparedStays ==
  ASSUME Sane, Continues, UNCHANGED <<session, requested>>,
         NEW q \in Processes, Same(q), pc[q] # "idle", Prepared(q)
  PROVE  Prepared(q)'
<1>1. CASE /\ mem[q] = Failed(session)
           /\ HoldsOpen(q) \/ (Unstarted(q) /\ session.status = "running")
  <2>1. mem'[q] = Failed(session')
    BY <1>1 DEF Same
  <2>2. HoldsOpen(q) => HoldsOpen(q)'
    BY DEF HoldsOpen, Same
  <2> QED
    BY <1>1, <2>1, <2>2, UnstartedStays DEF Prepared, Failed
<1>2. CASE /\ session.status = "running" /\ Completes(q)
           /\ \/ mem[q] = Failed(Base(q))
              \/ Base(q).done >= Iterations /\ mem[q] = Completed(Base(q))
  <2>1. Completes(q)' /\ Base(q)' = Base(q) /\ mem'[q] = mem[q]
    BY <1>2, CompletesStays DEF Same
  <2> QED
    BY <1>2, <2>1 DEF Prepared, Failed, Completed
<1>3. CASE /\ session.status = "running" /\ (Completes(q) \/ Unstarted(q))
           /\ Base(q).done < Iterations
           /\ next[q] \in Runs \ requested
           /\ run[next[q]] = [state |-> "queued", iteration |-> Base(q).done + 1]
           /\ mem[q] = Launched(Base(q), next[q])
  <2>1. /\ Completes(q)' \/ Unstarted(q)'
        /\ Base(q)' = Base(q) /\ mem'[q] = mem[q] /\ next'[q] = next[q]
    BY <1>3, CompletesStays, UnstartedStays DEF Same
  <2>2. run'[next[q]] = run[next[q]]
    BY <1>3 DEF Continues
  <2> QED
    BY <1>3, <2>1, <2>2 DEF Prepared, Launched
<1> QED
  BY <1>1, <1>2, <1>3 DEF Prepared

LEMMA TurnStays ==
  ASSUME Sane, Continues, UNCHANGED <<session, requested>>,
         NEW q \in Processes, Same(q), Turn(q)
  PROVE  Turn(q)'
<1>1. pc'[q] = pc[q] /\ mem'[q] = mem[q] /\ next'[q] = next[q] /\ held'[q] = held[q]
  BY DEF Same
<1>2. CASE pc[q] = "compare"
  BY <1>1, <1>2, CompletesStays DEF Turn
<1>3. CASE pc[q] = "create"
  BY <1>1, <1>3, CompletesStays, UnstartedStays DEF Turn
<1>4. CASE pc[q] = "persist"
  BY <1>1, <1>4, PreparedStays DEF Turn
<1>5. CASE pc[q] \in {"publish", "giveup"}
  <2>1. HoldsLast(q)'
    BY <1>1, <1>5 DEF Turn, HoldsLast
  <2>2. next[q] \in Runs
    BY <1>5, Equipment DEF EquippedAt
  <2>3. run'[next[q]] = run[next[q]]
    BY <1>5, <2>2 DEF Turn, Continues
  <2> QED
    BY <1>1, <1>5, <2>1, <2>3 DEF Turn, Failed
<1>6. CASE pc[q] \notin {"compare", "create", "persist", "publish", "giveup"}
  BY <1>1, <1>6 DEF Turn
<1> QED
  BY <1>2, <1>3, <1>4, <1>5, <1>6

LEMMA OwnedStays ==
  ASSUME Owned,
         \A v \in Workers : pc'[v] # "idle" =>
           /\ pc[v] # "idle" /\ held'[v] = held[v]
           /\ v \in owner => v \in owner'
           /\ fate[held[v]] \in {"fresh", "retry"} => fate'[held[v]] \in {"fresh", "retry"}
  PROVE  Owned'
BY DEF Owned

LEMMA AnnouncedStays ==
  ASSUME Announced, Continues, requested' = requested, waiting' = waiting,
         \A r \in Runs : fate'[r] # "unsent" => fate[r] # "unsent"
  PROVE  Announced'
BY DEF Announced, Continues

\* A step of the handler of w, the row and the queue of runs unchanged.
LEMMA HandlerOrderly ==
  ASSUME Sane, Orderly, Continues, UNCHANGED <<session, requested, waiting>>,
         NEW p \in Processes, \A q \in Processes \ {p} : Same(q),
         Turn(p)',
         \A r \in Runs : fate'[r] # "unsent" => fate[r] # "unsent",
         Owned'
  PROVE  Orderly'
<1>1. Turns'
  BY TurnStays DEF Orderly, Turns
<1> QED
  BY <1>1, ListedStays, AnnouncedStays DEF Orderly

LEMMA SameRuns ==
  ASSUME UNCHANGED run
  PROVE  Continues
BY DEF Continues

\* w goes on with its delivery.
LEMMA GoOwned ==
  ASSUME Owned, NEW p \in Processes, pc[p] # "idle",
         \A q \in Processes \ {p} : pc'[q] = pc[q],
         UNCHANGED <<held, owner, fate>>
  PROVE  Owned'
BY Someone, OwnedStays

\* p drops what it has in hand; only the delivery it held is settled.
LEMMA RestOwned ==
  ASSUME Sane, Owned, NEW p \in Processes, Rest(p),
         \A r \in Runs : fate'[r] # fate[r] => p \in Workers /\ pc[p] # "idle" /\ r = held[p]
  PROVE  Owned'
<1>1. /\ pc'[p] = "idle" /\ owner' = owner \ {p}
      /\ \A q \in Processes \ {p} : Same(q)
  BY RestTypes, Equipment
<1>2. ASSUME NEW v \in Workers, pc'[v] # "idle"
      PROVE  /\ pc[v] # "idle" /\ held'[v] = held[v]
             /\ v \in owner => v \in owner'
             /\ fate'[held[v]] = fate[held[v]]
  <2>1. v # p /\ Same(v) /\ v \in Processes
    BY <1>1, <1>2, Someone
  <2>2. pc[v] # "idle" /\ held'[v] = held[v] /\ held[v] \in Runs
    BY <1>2, <2>1, Equipment DEF Same, EquippedAt
  <2>3. p \in Workers /\ pc[p] # "idle" => held[v] # held[p]
    BY <2>1, <2>2 DEF Owned
  <2> QED
    BY <1>1, <2>1, <2>2, <2>3
<1> QED
  BY <1>2, OwnedStays

LEMMA RestOrderly ==
  ASSUME Sane, Orderly, NEW p \in Processes, Rest(p),
         UNCHANGED <<session, run, waiting, requested>>,
         \A r \in Runs : fate'[r] # fate[r] =>
           p \in Workers /\ pc[p] # "idle" /\ r = held[p] /\ fate[r] # "unsent"
  PROVE  Orderly'
<1>1. pc'[p] = "idle" /\ \A q \in Processes \ {p} : Same(q)
  BY RestTypes, Equipment
<1>2. Turn(p)'
  BY <1>1 DEF Turn
<1>3. Owned'
  BY RestOwned DEF Orderly
<1> QED
  BY <1>1, <1>2, <1>3, SameRuns, HandlerOrderly

-----------------------------------------------------------------------------
(* The handler keeps order.                                                *)

LEMMA RaisesFate ==
  ASSUME Sane, Owned, NEW w \in Workers, pc[w] # "idle", HandlerRaises(w)
  PROVE  \A r \in Runs : fate'[r] # fate[r] => r = held[w] /\ fate[r] # "unsent"
<1>1. w \in owner /\ fate[held[w]] \in {"fresh", "retry"}
  BY DEF Owned
<1>2. held[w] \in Runs /\ fate \in [Runs -> Queue!Fates]
  BY Equipment, Someone DEF EquippedAt, QueueType
<1> QED
  BY <1>1, <1>2 DEF HandlerRaises, Queue!Retry, Queue!Bury

LEMMA RaiseOrderly ==
  ASSUME Sane, Orderly, NEW w \in Workers, pc[w] # "idle", HandlerRaises(w),
         UNCHANGED <<session, run, waiting, requested>>
  PROVE  Orderly'
<1>1. \A r \in Runs : fate'[r] # fate[r] => r = held[w] /\ fate[r] # "unsent"
  BY RaisesFate DEF Orderly
<1> QED
  BY <1>1, RestOrderly, Someone DEF HandlerRaises

LEMMA GoOrderly ==
  ASSUME Sane, Orderly, NEW w \in Workers, pc[w] # "idle",
         NEW stage \in Stages, GoTo(w, stage),
         UNCHANGED <<session, run, waiting, requested, held, next, owner, fate>>,
         \A q \in Processes \ {w} : mem'[q] = mem[q],
         pc'[w] = stage => Turn(w)'
  PROVE  Orderly'
<1>1. pc'[w] = stage /\ \A q \in Processes \ {w} : pc'[q] = pc[q]
  BY GoTypes, Equipment, Someone
<1>2. Owned'
  BY <1>1, GoOwned, Someone DEF Orderly
<1> QED
  BY <1>1, <1>2, SameRuns, HandlerOrderly, Someone DEF Same

LEMMA DeliverOrderly ==
  ASSUME Sane, Orderly, NEW w \in Workers, NEW r \in Runs, Deliver(w, r)
  PROVE  Orderly'
<1>1. /\ pc[w] = "idle" /\ fate[r] \in {"fresh", "retry"}
      /\ \A v \in owner : held[v] # r
      /\ owner' = owner \cup {w}
      /\ UNCHANGED <<session, run, waiting, requested, fate, mem, next>>
  BY DEF Deliver, queueVars
<1>2. /\ pc'[w] = "download" /\ held'[w] = r
      /\ \A q \in Processes \ {w} : pc'[q] = pc[q] /\ held'[q] = held[q]
  BY GoTypes, Equipment, Someone DEF Deliver, Stages, ProcsType
<1>3. Owned'
  <2>1. ASSUME NEW v \in Workers \ {w}, pc'[v] # "idle"
        PROVE  /\ pc[v] # "idle" /\ held'[v] = held[v] /\ held[v] # r
               /\ v \in owner' /\ fate'[held[v]] \in {"fresh", "retry"}
    BY <1>1, <1>2, <2>1, Someone DEF Orderly, Owned
  <2>2. \A v \in Workers : pc'[v] # "idle" =>
          v \in owner' /\ fate'[held'[v]] \in {"fresh", "retry"}
    BY <1>1, <1>2, <2>1
  <2>3. ASSUME NEW u \in Workers, NEW v \in Workers,
               pc'[u] # "idle", pc'[v] # "idle", held'[u] = held'[v]
        PROVE  u = v
    BY <1>2, <2>1, <2>3 DEF Orderly, Owned
  <2> QED
    BY <2>2, <2>3 DEF Owned
<1>4. Turn(w)'
  BY <1>2 DEF Turn
<1> QED
  BY <1>1, <1>2, <1>3, <1>4, SameRuns, HandlerOrderly, Someone DEF Same

LEMMA DownloadOrderly ==
  ASSUME Sane, Orderly, NEW w \in Workers, Download(w)
  PROVE  Orderly'
<1>1. pc[w] = "download" /\ UNCHANGED <<session, run, waiting, requested>>
  BY DEF Download
<1>2. CASE GoTo(w, "read") /\ UNCHANGED <<held, mem, next, owner, queueVars>>
  <2>1. pc'[w] = "read" => Turn(w)'
    BY DEF Turn
  <2> QED
    BY <1>1, <1>2, <2>1, GoOrderly DEF Stages, queueVars
<1>3. CASE HandlerRaises(w)
  BY <1>1, <1>3, RaiseOrderly
<1> QED
  BY <1>2, <1>3 DEF Download

\* The run whose end is handled is one of the session, by its iteration.
LEMMA HeldRun ==
  ASSUME Sane, Orderly, NEW w \in Workers, pc[w] # "idle"
  PROVE  /\ session \in Session
         /\ held[w] \in requested
         /\ run[held[w]].state \in {"completed", "failed"}
         /\ \E i \in 1 .. Len(session.runs) :
              held[w] = session.runs[i] /\ run[held[w]].iteration = i
         /\ session.done < run[held[w]].iteration =>
              HoldsOpen(w) /\ run[held[w]].iteration = session.done + 1
<1>1. session \in Session /\ held[w] \in Runs
  BY Underway, Equipment, Someone DEF EquippedAt
<1>2. held[w] \in requested /\ run[held[w]].state \in {"completed", "failed"}
  BY <1>1 DEF Orderly, Owned, Announced
<1>3. PICK i \in 1 .. Len(session.runs) :
        held[w] = session.runs[i] /\ run[held[w]].iteration = i
  BY <1>1, <1>2, SessionFields DEF Orderly, Listed
<1>4. /\ Len(session.runs) \in {session.done, session.done + 1}
      /\ session.done \in Nat
  BY <1>1, SessionFields DEF Orderly, Listed
<1>5. session.done < i => i = session.done + 1 /\ Len(session.runs) = session.done + 1
  BY <1>4
<1> QED
  BY <1>1, <1>2, <1>3, <1>5 DEF HoldsOpen

LEMMA ReadSessionOrderly ==
  ASSUME Sane, Orderly, NEW w \in Workers, ReadSession(w)
  PROVE  Orderly'
<1>1. /\ pc[w] = "read"
      /\ UNCHANGED <<session, run, waiting, requested, held, next, owner, fate>>
  BY DEF ReadSession, queueVars
<1>2. ProcsType /\ w \in Processes /\ session \in Session
  BY <1>1, Equipment, Someone, Underway
<1>3. CASE GoTo(w, "archive") /\ UNCHANGED mem
  <2>1. pc'[w] = "archive" => Turn(w)'
    BY DEF Turn
  <2> QED
    BY <1>1, <1>3, <2>1, GoOrderly DEF Stages
<1>4. CASE /\ session.status = "running" /\ session.done < run[held[w]].iteration
           /\ run[held[w]].state # "completed"
           /\ Work(w, Failed(session)) /\ GoTo(w, "persist")
  <2>1. mem'[w] = Failed(session) /\ \A q \in Processes \ {w} : mem'[q] = mem[q]
    BY <1>2, <1>4, WorkTypes, FailedCopy
  <2>2. HoldsOpen(w)
    BY <1>1, <1>4, HeldRun
  <2>3. Prepared(w)'
    BY <1>1, <2>1, <2>2 DEF Prepared, HoldsOpen, Failed
  <2>4. pc'[w] = "persist" => Turn(w)'
    BY <2>3 DEF Turn
  <2> QED
    BY <1>1, <1>4, <2>1, <2>4, GoOrderly DEF Stages
<1>5. CASE /\ session.status = "running" /\ session.done < run[held[w]].iteration
           /\ run[held[w]].state = "completed"
           /\ Work(w, session) /\ GoTo(w, "compare")
  <2>1. mem'[w] = session /\ \A q \in Processes \ {w} : mem'[q] = mem[q]
    BY <1>2, <1>5, WorkTypes
  <2>2. HoldsOpen(w)
    BY <1>1, <1>5, HeldRun
  <2>3. pc'[w] = "compare" => Turn(w)'
    BY <1>1, <1>5, <2>1, <2>2 DEF Turn, Completes, HoldsOpen
  <2> QED
    BY <1>1, <1>5, <2>1, <2>3, GoOrderly DEF Stages
<1> QED
  BY <1>3, <1>4, <1>5 DEF ReadSession

LEMMA CompareOrderly ==
  ASSUME Sane, Orderly, NEW w \in Workers, Compare(w)
  PROVE  Orderly'
<1> DEFINE counted == Counted(mem[w], held[w])
<1>1. /\ pc[w] = "compare"
      /\ UNCHANGED <<session, run, waiting, requested, held, next, owner, fate>>
  BY DEF Compare, queueVars
<1>2. /\ ProcsType /\ RowsType /\ w \in Processes /\ session \in Session
      /\ held[w] \in Runs /\ w # Api
  BY <1>1, Equipment, Someone, Underway DEF EquippedAt
<1>3. mem[w] = session /\ session.status = "running" /\ Completes(w)
  BY <1>1, <1>2 DEF Orderly, Turns, Turn
<1>4. counted = Base(w) /\ counted \in Session
  BY <1>2, <1>3, CountedCopy DEF Base, RowsType
<1>5. Completes(w)' /\ Base(w)' = Base(w)
  BY <1>1, <1>2 , <1>3 DEF Completes, HoldsOpen, Base, Counted
<1>6. \/ Work(w, Failed(session)) /\ GoTo(w, "persist")
      \/ Work(w, Failed(counted)) /\ GoTo(w, "persist")
      \/ IsLast(counted) /\ Work(w, Completed(counted)) /\ GoTo(w, "persist")
      \/ Work(w, counted) /\ GoTo(w, "create")
  BY <1>3 DEF Compare, Completed
<1> HIDE DEF counted
<1>7. CASE Work(w, Failed(session)) /\ GoTo(w, "persist")
  <2>1. mem'[w] = Failed(session) /\ \A q \in Processes \ {w} : mem'[q] = mem[q]
    BY <1>2, <1>7, WorkTypes, FailedCopy
  <2>2. pc'[w] = "persist" => Turn(w)'
    BY <1>1, <1>5, <2>1 DEF Turn, Prepared, Completes, Failed
  <2> QED
    BY <1>1, <1>7, <2>1, <2>2, GoOrderly DEF Stages
<1>8. CASE Work(w, Failed(counted)) /\ GoTo(w, "persist")
  <2>1. mem'[w] = Failed(counted) /\ \A q \in Processes \ {w} : mem'[q] = mem[q]
    BY <1>2, <1>4, <1>8, WorkTypes, FailedCopy
  <2>2. Prepared(w)'
    BY <1>1, <1>3, <1>4, <1>5, <2>1 DEF Prepared, Failed
  <2>3. pc'[w] = "persist" => Turn(w)'
    BY <2>2 DEF Turn
  <2> QED
    BY <1>1, <1>8, <2>1, <2>3, GoOrderly DEF Stages
<1>9. CASE IsLast(counted) /\ Work(w, Completed(counted)) /\ GoTo(w, "persist")
  <2>1. mem'[w] = Completed(counted) /\ \A q \in Processes \ {w} : mem'[q] = mem[q]
    BY <1>2, <1>4, <1>9, WorkTypes, CompletedCopy
  <2>2. counted.done >= Iterations
    BY <1>9 DEF IsLast
  <2>3. Prepared(w)'
    BY <1>1, <1>3, <1>4, <1>5, <2>1, <2>2 DEF Prepared, Completed
  <2>4. pc'[w] = "persist" => Turn(w)'
    BY <2>3 DEF Turn
  <2> QED
    BY <1>1, <1>9, <2>1, <2>4, GoOrderly DEF Stages
<1>10. CASE Work(w, counted) /\ GoTo(w, "create")
  <2>1. mem'[w] = counted /\ \A q \in Processes \ {w} : mem'[q] = mem[q]
    BY <1>2, <1>4, <1>10, WorkTypes
  <2>2. pc'[w] = "create" => Turn(w)'
    BY <1>1, <1>3, <1>4, <1>5, <2>1 DEF Turn
  <2> QED
    BY <1>1, <1>10, <2>1, <2>2, GoOrderly DEF Stages
<1> QED
  BY <1>6, <1>7, <1>8, <1>9, <1>10

LEMMA ArchiveOrderly ==
  ASSUME Sane, Orderly, NEW w \in Workers, Archive(w)
  PROVE  Orderly'
<1>1. pc[w] = "archive" /\ UNCHANGED <<session, run, waiting, requested>>
  BY DEF Archive
<1>2. CASE /\ Queue!Process(held[w]) /\ GoTo(w, "ack")
           /\ UNCHANGED <<held, mem, next, owner>>
  <2>1. pc'[w] = "ack" => Turn(w)'
    BY DEF Turn
  <2> QED
    BY <1>1, <1>2, <2>1, GoOrderly DEF Stages, Queue!Process
<1>3. CASE HandlerRaises(w)
  BY <1>1, <1>3, RaiseOrderly
<1> QED
  BY <1>2, <1>3 DEF Archive

LEMMA AckOrderly ==
  ASSUME Sane, Orderly, NEW w \in Workers, Ack(w)
  PROVE  Orderly'
<1>1. /\ pc[w] = "ack" /\ Rest(w) /\ UNCHANGED <<session, run, waiting, requested>>
  BY DEF Ack
<1>2. /\ w \in owner /\ held[w] \in Runs /\ w \in Processes
      /\ fate \in [Runs -> Queue!Fates] /\ fate[held[w]] # "unsent"
  BY <1>1, Equipment, Someone DEF Orderly, Owned, EquippedAt, QueueType
<1>3. \A r \in Runs : fate'[r] # fate[r] => r = held[w] /\ fate[r] # "unsent"
  BY <1>2 DEF Ack, Queue!Complete
<1> QED
  BY <1>1, <1>2, <1>3, RestOrderly

LEMMA KillOrderly ==
  ASSUME Sane, Orderly, NEW p \in Processes, Kill(p)
  PROVE  Orderly'
<1>1. /\ pc[p] # "idle" /\ Rest(p)
      /\ UNCHANGED <<session, run, waiting, requested>>
      /\ IF p \in owner THEN Redelivered(held[p]) ELSE UNCHANGED queueVars
  BY DEF Kill
<1>2. owner \subseteq Workers /\ fate \in [Runs -> Queue!Fates]
  BY Equipment DEF ProcsType, QueueType
<1>3. CASE p \in owner
  <2>1. p \in Workers /\ held[p] \in Runs /\ fate[held[p]] # "unsent"
    BY <1>1, <1>2, <1>3, Equipment DEF Orderly, Owned, EquippedAt
  <2>2. \A r \in Runs : fate'[r] # fate[r] => r = held[p] /\ fate[r] # "unsent"
    BY <1>1, <1>2, <1>3, <2>1 DEF Redelivered, Queue!Retry, queueVars
  <2> QED
    BY <1>1, <2>1, <2>2, RestOrderly
<1>4. CASE p \notin owner
  BY <1>1, <1>4, RestOrderly DEF queueVars
<1> QED
  BY <1>3, <1>4

-----------------------------------------------------------------------------
(* The simulation side keeps order.                                        *)

LEMMA WaitingRun ==
  ASSUME Sane, Orderly, NEW r \in Runs, r \in waiting
  PROVE  /\ r \in requested /\ run[r].state # "none" /\ fate[r] = "unsent"
         /\ run[r] \in [state : RunState, iteration : 0 .. Iterations]
<1>1. waiting \subseteq requested /\ run \in [Runs -> [state : RunState, iteration : 0 .. Iterations]]
  BY TypeParts DEF Sane, RowsType
<1> QED
  BY <1>1 DEF Orderly, Announced

LEMMA AroundOrderly ==
  ASSUME Sane, Orderly, Continues, UNCHANGED <<session, requested, procVars, owner>>,
         Announced',
         \A r \in Runs : fate'[r] # fate[r] => fate[r] = "unsent"
  PROVE  Orderly'
<1>1. UNCHANGED <<pc, held, mem, next>>
  BY DEF procVars
<1>2. Turns'
  BY <1>1, TurnStays DEF Orderly, Turns, Same
<1>3. Owned'
  <2>1. \A v \in Workers : pc[v] # "idle" => held[v] \in Runs
    BY Equipment, Someone DEF EquippedAt
  <2> QED
    BY <1>1, <2>1, OwnedStays DEF Orderly
<1> QED
  BY <1>2, <1>3, ListedStays DEF Orderly

LEMMA RunEndsOrderly ==
  ASSUME Sane, Orderly, NEW r \in Runs, RunEnds(r)
  PROVE  Orderly'
<1>1. /\ r \in waiting /\ waiting' = waiting \ {r}
      /\ UNCHANGED <<session, requested, procVars, owner>>
      /\ Queue!Submit(r)
  BY DEF RunEnds
<1>2. PICK state \in {"completed", "failed"} :
        /\ run[r].state # "queued" => state = run[r].state
        /\ run' = [run EXCEPT ![r].state = state]
  BY DEF RunEnds
<1>3. /\ r \in requested /\ run[r].state # "none"
      /\ run[r] \in [state : RunState, iteration : 0 .. Iterations]
      /\ run \in [Runs -> [state : RunState, iteration : 0 .. Iterations]]
      /\ fate \in [Runs -> Queue!Fates]
  BY <1>1, WaitingRun, TypeParts DEF Sane, RowsType, QueueType
<1>4. /\ run'[r].state = state /\ run'[r].iteration = run[r].iteration
      /\ state = run[r].state => run'[r] = run[r]
      /\ \A q \in Runs \ {r} : run'[q] = run[q]
  BY <1>2, <1>3
<1>5. Continues
  BY <1>2, <1>3, <1>4 DEF Continues
<1>6. /\ fate[r] = "unsent" /\ \A q \in Runs \ {r} : fate'[q] = fate[q]
  BY <1>1, <1>3 DEF Queue!Submit
<1>7. Announced'
  BY <1>1, <1>2, <1>3, <1>4, <1>6 DEF Orderly, Announced
<1> QED
  BY <1>1, <1>5, <1>6, <1>7, AroundOrderly

LEMMA RunBuriedOrderly ==
  ASSUME Sane, Orderly, NEW r \in Runs, RunBuried(r)
  PROVE  Orderly'
<1>1. /\ r \in waiting /\ waiting' = waiting \ {r}
      /\ UNCHANGED <<session, requested, procVars, owner, fate>>
  BY DEF RunBuried, queueVars
<1>2. /\ r \in requested /\ run[r].state # "none" /\ fate[r] = "unsent"
  BY <1>1, WaitingRun
<1>3. /\ \A q \in Runs : run'[q].iteration = run[q].iteration
      /\ \A q \in Runs \ {r} : run'[q] = run[q]
      /\ run[r].state # "queued" => run'[r] = run[r]
      /\ run[r].state = "queued" => run'[r].state = "failed"
  BY TypeParts, MarkTypes DEF RunBuried, Sane, RunState
<1>4. Continues
  BY <1>2, <1>3 DEF Continues
<1>5. Announced'
  BY <1>1, <1>2, <1>3 DEF Orderly, Announced
<1> QED
  BY <1>1, <1>4, <1>5, AroundOrderly

-----------------------------------------------------------------------------
(* One process at a time advances the session.                             *)

Advancing == {"compare", "create", "persist", "publish", "giveup"}

LEMMA OpenRun ==
  ASSUME Sane, Orderly, NEW w \in Processes, pc[w] # "idle", HoldsOpen(w)
  PROVE  /\ session \in Session /\ session.done \in Nat /\ held[w] \in Runs
         /\ held[w] \in requested
         /\ run[held[w]].state \in {"completed", "failed"}
         /\ run[held[w]].iteration = session.done + 1
<1>1. w \in Workers /\ session \in Session
  BY Underway DEF HoldsOpen
<1>2. /\ held[w] \in requested /\ run[held[w]].state \in {"completed", "failed"}
      /\ held[w] \in Runs
  BY <1>1, HeldRun, Equipment DEF EquippedAt
<1>3. session.done \in Nat
  BY <1>1, SessionFields
<1>4. run[session.runs[session.done + 1]].iteration = session.done + 1
  BY <1>1, <1>3, SessionFields DEF HoldsOpen, Orderly, Listed
<1> QED
  BY <1>1, <1>2, <1>3, <1>4 DEF HoldsOpen

\* Beside the handler of the open run only the process that failed to queue
\* that run may still have something to write.
LEMMA OpenAlone ==
  ASSUME Sane, Orderly, NEW w \in Processes, pc[w] # "idle", HoldsOpen(w),
         NEW q \in Processes \ {w}, pc[q] \in Advancing
  PROVE  pc[q] = "giveup" /\ run[held[w]].state = "failed"
<1>1. /\ held[w] \in requested /\ run[held[w]].state \in {"completed", "failed"}
      /\ held[w] = session.runs[session.done + 1]
      /\ Turn(q) /\ w \in Workers
  BY OpenRun DEF HoldsOpen, Orderly, Turns
<1>2. ~HoldsOpen(q)
  BY <1>1 DEF HoldsOpen, Orderly, Owned, Advancing
<1>3. ~Unstarted(q)
  BY <1>1 DEF Unstarted
<1>4. pc[q] \notin {"compare", "create", "persist"}
  BY <1>2, <1>3 DEF Turn, Completes, Prepared, Orderly, Turns
<1>5. pc[q] # "publish"
  BY <1>1 DEF Turn
<1>6. pc[q] = "giveup"
  BY <1>4, <1>5 DEF Advancing
<1>7. run[held[w]].state = "failed"
  BY <1>1, <1>6 DEF Turn
<1> QED
  BY <1>6, <1>7

LEMMA Alone ==
  ASSUME Sane, Orderly, NEW p \in Processes, pc[p] # "idle",
         Completes(p) \/ Unstarted(p), NEW q \in Processes \ {p}
  PROVE  pc[q] \notin Advancing
<1> SUFFICES ASSUME pc[q] \in Advancing PROVE FALSE
  OBVIOUS
<1>1. CASE Completes(p)
  BY <1>1, OpenAlone DEF Completes
<1>2. CASE Unstarted(p)
  <2>1. session.done = 0 /\ Len(session.runs) = 0 /\ q # Api
    BY <1>2 DEF Unstarted
  <2>2. ~HoldsOpen(q) /\ ~Unstarted(q)
    BY <2>1 DEF HoldsOpen, Unstarted
  <2>3. Len(session.runs) # session.done + 1 /\ Turn(q)
    BY <2>1 DEF Orderly, Turns
  <2> QED
    BY <2>2, <2>3 DEF Turn, Completes, Prepared, Advancing
<1> QED
  BY <1>1, <1>2

\* Whoever is to queue the next run handled the last counted one.
LEMMA LastAlone ==
  ASSUME Sane, Orderly, NEW p \in Processes, pc[p] \in {"publish", "giveup"},
         NEW q \in Processes \ {p}, pc[q] \in Advancing
  PROVE  /\ pc[p] = "giveup" /\ pc[q] = "persist"
         /\ mem[q] = Failed(session) /\ HoldsOpen(q)
<1>1. /\ Turn(p) /\ Turn(q) /\ session \in Session
      /\ Len(session.runs) = session.done + 1
      /\ next[p] = session.runs[session.done + 1]
      /\ HoldsLast(p) /\ session.done \in Nat
  <2>1. Turn(p) /\ Turn(q) /\ session \in Session
    BY Underway DEF Orderly, Turns
  <2> QED
    BY <2>1, SessionFields DEF Turn
<1>2. pc[q] \notin {"publish", "giveup"}
  <2>1. ASSUME HoldsLast(q) PROVE FALSE
    <3>1. CASE p = Api \/ q = Api
      BY <1>1, <2>1, <3>1 DEF HoldsLast
    <3>2. CASE p # Api /\ q # Api
      <4>1. p \in Workers /\ q \in Workers /\ held[p] = held[q]
        BY <1>1, <2>1, <3>2 DEF HoldsLast, Processes
      <4> QED
        BY <4>1 DEF Orderly, Owned, Advancing
    <3> QED
      BY <3>1, <3>2
  <2> QED
    BY <1>1, <2>1 DEF Turn
<1>3. ~Unstarted(q)
  BY <1>1 DEF Unstarted
<1>4. HoldsOpen(q)
  BY <1>1, <1>2, <1>3 DEF Turn, Completes, Prepared, Advancing
<1>5. pc[p] = "giveup" /\ run[held[q]].state = "failed"
  BY <1>4, OpenAlone DEF Advancing
<1>6. ~Completes(q)
  BY <1>5 DEF Completes
<1>7. pc[q] = "persist"
  BY <1>1, <1>2, <1>3, <1>6 DEF Turn, Advancing
<1> QED
  BY <1>1, <1>3, <1>4, <1>5, <1>6, <1>7 DEF Turn, Prepared

LEMMA IdleTurn ==
  ASSUME NEW q, pc[q] \notin Advancing, pc'[q] = pc[q]
  PROVE  Turn(q)'
BY DEF Turn, Advancing

-----------------------------------------------------------------------------
(* The session advances in order.                                          *)

LEMMA StartOrderly ==
  ASSUME Sane, Orderly, Start
  PROVE  Orderly'
<1> DEFINE row == [status |-> "running", done |-> 0, runs |-> <<>>, results |-> <<>>]
<1>1. /\ session = NoSession /\ session' = row /\ Work(Api, row) /\ GoTo(Api, "create")
      /\ UNCHANGED <<run, waiting, requested, fate, held, next, owner>>
  BY DEF Start, queueVars
<1>2. /\ requested = {} /\ \A r \in Runs : fate[r] = "unsent"
      /\ \A p \in Processes : pc[p] = "idle"
  BY <1>1 DEF Sane, Begun
<1>3. Api \in Processes /\ ProcsType /\ Api \notin Workers /\ "create" \in Stages
  BY Someone, Equipment DEF Stages
<1>4. /\ pc'[Api] = "create" /\ \A q \in Processes \ {Api} : pc'[q] = "idle"
  BY <1>1, <1>2, <1>3, GoTypes
<1>5. mem'[Api] = session'
  BY <1>1, <1>3 DEF Work, ProcsType
<1>6. Owned' /\ Announced'
  BY <1>1, <1>2, <1>3, <1>4, Someone DEF Owned, Announced
<1>7. Listed'
  <2>1. /\ Len(session'.runs) = 0 /\ Len(session'.results) = 0
        /\ session'.done = 0 /\ session'.status = "running"
    BY <1>1
  <2>2. Cardinality(requested) = 0
    BY <1>2, FS_EmptySet
  <2>3. 0 < Iterations
    BY CalibrationAssumption DEF CalibrationAssumption
  <2> QED
    BY <1>1, <1>2, <2>1, <2>2, <2>3 DEF Listed, OpenRequested
<1>8. Turns'
  <2>1. Turn(Api)'
    BY <1>1, <1>2, <1>4, <1>5 DEF Turn, Base, Unstarted
  <2>2. \A q \in Processes \ {Api} : Turn(q)'
    BY <1>4 DEF Turn
  <2> QED
    BY <2>1, <2>2 DEF Turns
<1> QED
  BY <1>6, <1>7, <1>8 DEF Orderly

\* p goes on while nobody else has a turn.
LEMMA AloneTurns ==
  ASSUME NEW p \in Processes, Turn(p)',
         \A q \in Processes \ {p} : pc[q] \notin Advancing /\ pc'[q] = pc[q]
  PROVE  Turns'
BY IdleTurn DEF Turns

LEMMA CreateOrderly ==
  ASSUME Sane, Orderly, NEW p \in Processes, Create(p)
  PROVE  Orderly'
<1>1. /\ pc[p] = "create" /\ Fresh \in Runs /\ run[Fresh].state = "none"
      /\ GoTo(p, "persist")
      /\ UNCHANGED <<session, waiting, requested, fate, held, owner>>
  BY FreshUnused DEF Create, queueVars
<1>2. /\ session.status = "running" /\ mem[p] = Base(p)
      /\ Completes(p) \/ Unstarted(p)
  BY <1>1 DEF Orderly, Turns, Turn
<1>3. EquippedAt(p) /\ ProcsType /\ RowsType
  BY Equipment
<1>4. mem[p] \in Session /\ mem[p].done < Iterations
  BY <1>1, <1>3 DEF EquippedAt
<1>5. Fresh \notin requested
  BY <1>1 DEF Orderly, Announced
<1>6. pc'[p] = "persist" /\ \A q \in Processes \ {p} : pc'[q] = pc[q]
  BY <1>1, <1>3, GoTypes DEF Stages
<1> DEFINE record == [run EXCEPT ![Fresh] =
                        [state |-> "queued", iteration |-> mem[p].done + 1]]
<1>7. run' \in {run, record} /\ \A q \in Runs \ {Fresh} : run'[q] = run[q]
  BY <1>3 DEF Create, RowsType
<1>8. Continues
  BY <1>1, <1>7 DEF Continues
<1>9. Completes(p)' \/ Unstarted(p)'
  <2>1. CASE Completes(p)
    <3>1. held[p] \in Runs /\ run[held[p]].state = "completed"
      BY <1>1, <1>3, <2>1 DEF Completes, HoldsOpen, EquippedAt
    <3>2. run'[held[p]] = run[held[p]]
      BY <1>1, <1>7, <3>1
    <3> QED
      BY <1>1, <2>1, <3>2 DEF Completes, HoldsOpen
  <2>2. CASE Unstarted(p)
    BY <1>1, <2>2 DEF Unstarted
  <2> QED
    BY <1>2, <2>1, <2>2
<1>10. Base(p)' = Base(p)
  <2>1. CASE p = Api
    BY <1>1, <2>1 DEF Base
  <2>2. CASE p # Api
    <3>1. Completes(p)
      BY <1>2, <2>2 DEF Unstarted
    <3>2. held[p] \in Runs /\ run[held[p]].state = "completed"
      BY <1>1, <1>3, <3>1 DEF Completes, HoldsOpen, EquippedAt
    <3>3. run'[held[p]] = run[held[p]]
      BY <1>1, <1>7, <3>2
    <3> QED
      BY <1>1, <2>2, <3>3 DEF Base, Counted
  <2> QED
    BY <2>1, <2>2
<1>11. Prepared(p)'
  <2>1. CASE /\ run' = record
             /\ next' = [next EXCEPT ![p] = Fresh]
             /\ Work(p, [mem[p] EXCEPT !.runs = Append(@, Fresh)])
    <3>1. mem'[p] = Launched(mem[p], Fresh)
      BY <1>1, <1>3, <1>4, <2>1, WorkTypes, LaunchedCopy DEF Launched
    <3>2. next'[p] = Fresh
      BY <1>3, <2>1 DEF ProcsType
    <3>3. run'[Fresh] = [state |-> "queued", iteration |-> Base(p).done + 1]
      BY <1>1, <1>2, <1>3, <2>1 DEF RowsType
    <3>4. /\ session'.status = "running" /\ Base(p)'.done < Iterations
          /\ next'[p] \in Runs \ requested'
          /\ run'[next'[p]] = [state |-> "queued", iteration |-> Base(p)'.done + 1]
      BY <1>1, <1>2, <1>4, <1>5, <1>10, <3>2, <3>3
    <3>5. mem'[p] = Launched(Base(p), next[p])'
      BY <1>2, <1>10, <3>1, <3>2 DEF Launched
    <3> QED
      BY <1>9, <3>4, <3>5 DEF Prepared
  <2>2. CASE Work(p, Failed(mem[p]))
    <3>1. mem'[p] = Failed(Base(p))
      BY <1>2, <1>3, <1>4, <2>2, WorkTypes, FailedCopy
    <3>2. mem'[p] = Failed(Base(p))'
      BY <1>10, <3>1 DEF Failed
    <3>3. CASE Completes(p)'
      BY <1>1, <1>2, <3>2, <3>3 DEF Prepared
    <3>4. CASE Unstarted(p)'
      BY <1>1, <1>2, <3>2, <3>4 DEF Prepared, Base, Unstarted, Failed
    <3> QED
      BY <1>9, <3>3, <3>4
  <2> QED
    BY <2>1, <2>2 DEF Create
<1>12. Turns'
  <2>1. Turn(p)'
    BY <1>6, <1>11 DEF Turn
  <2> QED
    BY <1>1, <1>2, <1>6, <2>1, Alone, AloneTurns
<1>13. Owned'
  BY <1>1, <1>6, GoOwned DEF Orderly
<1> QED
  BY <1>1, <1>8, <1>12, <1>13, ListedStays, AnnouncedStays DEF Orderly

\* The row with every run it lists counted: what the next run is added to.
Settled(row) ==
  /\ row \in Session
  /\ Len(row.runs) = row.done /\ Len(row.results) = row.done
  /\ \A i \in 1 .. row.done :
       /\ run[row.runs[i]] = [state |-> "completed", iteration |-> i]
       /\ row.results[i] = row.runs[i] /\ row.runs[i] \in requested
  /\ \A r \in requested : \E i \in 1 .. row.done : r = row.runs[i]
  /\ Cardinality(requested) = row.done

LEMMA SettledRuns ==
  ASSUME NEW row, Settled(row)
  PROVE  \A i \in 1 .. row.done :
           /\ run[row.runs[i]].iteration = i /\ run[row.runs[i]].state = "completed"
           /\ row.results[i] = row.runs[i] /\ row.runs[i] \in requested
<1> TAKE i \in 1 .. row.done
<1>1. /\ run[row.runs[i]] = [state |-> "completed", iteration |-> i]
      /\ row.results[i] = row.runs[i] /\ row.runs[i] \in requested
  BY DEF Settled
<1> QED
  BY <1>1

LEMMA BaseSettled ==
  ASSUME Sane, Orderly, NEW p \in Processes, pc[p] # "idle",
         Completes(p) \/ Unstarted(p)
  PROVE  /\ Settled(Base(p)) /\ Base(p).status = session.status
         /\ p = Api => Base(p).done = 0
         /\ p # Api => Base(p).done > 0 /\ held[p] = Base(p).runs[Base(p).done]
<1>1. /\ session \in Session /\ RowsType
      /\ session.runs \in Seq(Runs) /\ session.results \in Seq(Runs) /\ session.done \in Nat
  BY Underway, Equipment, SessionFields
<1>2. CASE Unstarted(p)
  <2>1. /\ p = Api /\ session.done = 0 /\ session.runs = <<>> /\ requested = {}
        /\ Base(p) = session
    BY <1>2 DEF Unstarted, Base
  <2>2. Len(session.runs) = 0 /\ Len(session.results) = 0
    BY <1>1, <2>1 DEF Orderly, Listed, Sane, Begun
  <2>3. Cardinality(requested) = 0
    BY <2>1, FS_EmptySet
  <2> QED
    BY <1>1, <2>1, <2>2, <2>3 DEF Settled
<1>3. CASE Completes(p)
  <2> DEFINE r == held[p]
  <2>1. /\ p \in Workers /\ p # Api /\ Len(session.runs) = session.done + 1
        /\ r = session.runs[session.done + 1] /\ run[r].state = "completed"
        /\ Base(p) = Counted(session, r)
    BY <1>3, Someone DEF Completes, HoldsOpen, Base
  <2>2. r \in requested /\ r \in Runs /\ run[r].iteration = session.done + 1
    BY <1>3, OpenRun DEF Completes
  <2>3. run[r].iteration \in 0 .. Iterations
    BY <1>1, <2>2 DEF RowsType
  <2>4. /\ Base(p) \in Session
        /\ Base(p).status = session.status /\ Base(p).done = session.done + 1
        /\ Base(p).runs = session.runs
        /\ Base(p).results = Append(session.results, r)
    <3>1. session \in Session
      BY <1>1
    <3>2. /\ Counted(session, r) \in Session
          /\ Counted(session, r).status = session.status
          /\ Counted(session, r).done = run[r].iteration
          /\ Counted(session, r).runs = session.runs
          /\ Counted(session, r).results = Append(session.results, r)
      BY <2>2, <2>3, <3>1, CountedCopy
    <3> HIDE DEF r
    <3> QED
      BY <2>1, <2>2, <3>2
  <2>5. Listed /\ session # NoSession
    BY <1>1, SessionFields DEF Orderly
  <2>6. Len(session.results) = session.done
    BY <2>5 DEF Listed
  <2>7. /\ Len(Base(p).results) = session.done + 1
        /\ Base(p).results[session.done + 1] = r
        /\ \A i \in 1 .. session.done : Base(p).results[i] = session.results[i]
    BY <1>1, <2>4, <2>6
  <2>8. ASSUME NEW i \in 1 .. session.done + 1
        PROVE  /\ run[session.runs[i]] = [state |-> "completed", iteration |-> i]
               /\ Base(p).results[i] = session.runs[i] /\ session.runs[i] \in requested
    <3>1. session.runs[i] \in Runs
      BY <1>1, <2>1
    <3>2. run[session.runs[i]] \in [state : RunState, iteration : 0 .. Iterations]
      BY <1>1, <3>1 DEF RowsType
    <3>3. run[session.runs[i]].iteration = i
      BY <2>1, <2>5 DEF Listed
    <3>4. CASE i = session.done + 1
      BY <2>1, <2>2, <2>7, <3>2, <3>3, <3>4
    <3>5. CASE i \in 1 .. session.done
      BY <2>5, <2>7, <3>2, <3>3, <3>5 DEF Listed
    <3> QED
      BY <1>1, <3>4, <3>5
  <2>9. \A q \in requested : \E i \in 1 .. session.done + 1 : q = session.runs[i]
    BY <2>1, <2>5 DEF Listed
  <2>10. Cardinality(requested) = session.done + 1
    <3>1. OpenRequested
      BY <1>1, <2>1, <2>2 DEF OpenRequested
    <3> QED
      BY <2>5, <3>1 DEF Listed
  <2>11. Settled(Base(p))
    BY <2>1, <2>4, <2>7, <2>8, <2>9, <2>10 DEF Settled
  <2> QED
    BY <1>1, <2>1, <2>4, <2>11
<1> QED
  BY <1>2, <1>3

LEMMA PersistOrderly ==
  ASSUME Sane, Orderly, NEW p \in Processes, Persist(p)
  PROVE  Orderly'
<1>1. /\ pc[p] = "persist" /\ session' = mem[p] /\ GoTo(p, AfterPersist(p))
      /\ UNCHANGED <<run, waiting, requested, fate, held, mem, next, owner>>
  BY DEF Persist, queueVars
<1>2. /\ Prepared(p) /\ session \in Session /\ mem[p] \in Session /\ ProcsType
  BY <1>1, Underway, Equipment DEF Orderly, Turns, Turn, EquippedAt
<1>3. /\ pc'[p] = AfterPersist(p) /\ \A q \in Processes \ {p} : pc'[q] = pc[q]
  <2>1. AfterPersist(p) \in Stages
    BY DEF AfterPersist, Stages
  <2> QED
    BY <1>1, <1>2, <2>1, GoTypes
<1>4. Owned' /\ Announced'
  BY <1>1, <1>3, GoOwned DEF Orderly, Announced
<1>5. ASSUME session'.status # "running" PROVE Turn(p)'
  <2>1. pc'[p] \in {"idle", "archive"}
    BY <1>1, <1>3, <1>5 DEF AfterPersist
  <2> QED
    BY <2>1 DEF Turn
<1>6. CASE /\ mem[p] = Failed(session)
           /\ HoldsOpen(p) \/ (Unstarted(p) /\ session.status = "running")
  <2>1. /\ session'.status = "failed" /\ session'.done = session.done
        /\ session'.runs = session.runs /\ session'.results = session.results
        /\ session' \in Session
    BY <1>1, <1>2, <1>6, FailedCopy
  <2>2. session # NoSession /\ session' # NoSession
    BY <1>2, <2>1, SessionFields
  <2>3. Listed'
    BY <1>1, <2>1, <2>2 DEF Orderly, Listed, OpenRequested
  <2>4. ASSUME NEW q \in Processes \ {p} PROVE Turn(q)'
    <3>1. CASE pc[q] \in Advancing
      <4>1. pc[q] = "giveup"
        BY <1>1, <1>6, <3>1, OpenAlone, Alone
      <4>2. Turn(q)
        BY DEF Orderly, Turns
      <4>3. Failed(session) = Failed(session')
        BY <1>1, <1>6 DEF Failed
      <4> QED
        BY <1>1, <1>3, <2>1, <4>1, <4>2, <4>3 DEF Turn, HoldsLast, Failed
    <3>2. CASE pc[q] \notin Advancing
      BY <1>3, <3>2, IdleTurn
    <3> QED
      BY <3>1, <3>2
  <2>5. Turns'
    BY <1>5, <2>1, <2>4 DEF Turns
  <2> QED
    BY <1>4, <2>3, <2>5 DEF Orderly
<1>7. CASE /\ session.status = "running" /\ Completes(p)
           /\ \/ mem[p] = Failed(Base(p))
              \/ Base(p).done >= Iterations /\ mem[p] = Completed(Base(p))
  <2>1. Settled(Base(p))
    BY <1>1, <1>7, BaseSettled
  <2>2. /\ session'.status # "running" /\ session'.done = Base(p).done
        /\ session'.runs = Base(p).runs /\ session'.results = Base(p).results
        /\ Base(p) \in Session
    BY <1>1, <1>7, <2>1, FailedCopy, CompletedCopy DEF Settled
  <2>3. Base(p).done \in Nat
    BY <2>2, SessionFields
  <2>4. Listed'
    <3>1. \A i \in 1 .. Base(p).done :
            /\ run[Base(p).runs[i]].iteration = i
            /\ run[Base(p).runs[i]].state = "completed"
            /\ Base(p).results[i] = Base(p).runs[i] /\ Base(p).runs[i] \in requested
      BY <2>1, SettledRuns
    <3>2. /\ Len(Base(p).runs) = Base(p).done /\ Len(Base(p).results) = Base(p).done
          /\ \A r \in requested : \E i \in 1 .. Base(p).done : r = Base(p).runs[i]
          /\ Cardinality(requested) = Base(p).done
      BY <2>1 DEF Settled
    <3> HIDE <1>7
    <3>3. Cardinality(requested') = session'.done /\ ~OpenRequested'
      BY <1>1, <2>2, <2>3, <3>2 DEF OpenRequested
    <3> QED
      BY <1>1, <2>2, <2>3, <3>1, <3>2, <3>3 DEF Listed
  <2>5. Turns'
    BY <1>1, <1>3, <1>5, <1>7, <2>2, Alone, AloneTurns
  <2> QED
    BY <1>4, <2>4, <2>5 DEF Orderly
<1>8. CASE /\ session.status = "running" /\ (Completes(p) \/ Unstarted(p))
           /\ Base(p).done < Iterations
           /\ next[p] \in Runs \ requested
           /\ run[next[p]] = [state |-> "queued", iteration |-> Base(p).done + 1]
           /\ mem[p] = Launched(Base(p), next[p])
  <2> DEFINE b == Base(p)
  <2>1. /\ Settled(b) /\ b.status = "running"
        /\ p = Api => b.done = 0
        /\ p # Api => b.done > 0 /\ held[p] = b.runs[b.done]
    BY <1>1, <1>8, BaseSettled
  <2>2. b \in Session /\ b.done \in Nat /\ b.runs \in Seq(Runs) /\ b.done < Iterations
    BY <1>8, <2>1, SessionFields DEF Settled
  <2>3. /\ session'.status = "running" /\ session'.done = b.done
        /\ session'.runs = Append(b.runs, next[p]) /\ session'.results = b.results
        /\ session' \in Session
    <3>1. b \in Session /\ next[p] \in Runs
      BY <1>8, <2>2
    <3>2. /\ Launched(b, next[p]) \in Session
          /\ Launched(b, next[p]).status = b.status
          /\ Launched(b, next[p]).done = b.done
          /\ Launched(b, next[p]).runs = Append(b.runs, next[p])
          /\ Launched(b, next[p]).results = b.results
      BY <3>1, LaunchedCopy
    <3> QED
      BY <1>1, <1>8, <2>1, <3>2
  <2> HIDE DEF b
  <2>4. /\ Len(session'.runs) = b.done + 1 /\ session'.runs[b.done + 1] = next[p]
        /\ \A i \in 1 .. b.done : session'.runs[i] = b.runs[i]
    BY <1>8, <2>1, <2>2, <2>3 DEF Settled
  <2>5. Listed'
    <3>1. \A i \in 1 .. b.done + 1 :
            run'[session'.runs[i]].iteration = i /\ run'[session'.runs[i]].state # "none"
      <4> SUFFICES ASSUME NEW i \in 1 .. b.done + 1
                   PROVE  run[session'.runs[i]].iteration = i /\ run[session'.runs[i]].state # "none"
        BY <1>1
      <4>1. CASE i = b.done + 1
        BY <1>8, <2>4, <4>1 DEF b
      <4>2. CASE i \in 1 .. b.done
        BY <2>1, <2>4, <4>2, SettledRuns
      <4> QED
        BY <2>2, <4>1, <4>2
    <3>2. \A i \in 1 .. b.done :
            /\ session'.results[i] = session'.runs[i]
            /\ session'.runs[i] \in requested'
            /\ run'[session'.runs[i]].state = "completed"
      <4> SUFFICES ASSUME NEW i \in 1 .. b.done
                   PROVE  /\ session'.results[i] = session'.runs[i]
                          /\ session'.runs[i] \in requested
                          /\ run[session'.runs[i]].state = "completed"
        BY <1>1
      <4>1. /\ b.results[i] = b.runs[i] /\ b.runs[i] \in requested
            /\ run[b.runs[i]].state = "completed"
        BY <2>1, SettledRuns
      <4> QED
        BY <2>3, <2>4, <4>1
    <3>3. \A r \in requested' : \E i \in 1 .. b.done + 1 : r = session'.runs[i]
      <4> SUFFICES ASSUME NEW r \in requested
                   PROVE  \E i \in 1 .. b.done + 1 : r = session'.runs[i]
        BY <1>1
      <4>1. PICK i \in 1 .. b.done : r = b.runs[i]
        BY <2>1 DEF Settled
      <4>2. i \in 1 .. b.done + 1 /\ r = session'.runs[i]
        BY <2>2, <2>4, <4>1
      <4> QED
        BY <4>2
    <3>4. Cardinality(requested') = b.done /\ ~OpenRequested'
      BY <1>1, <1>8, <2>1, <2>3, <2>4 DEF Settled, OpenRequested
    <3>5. Len(session'.results) = b.done
      BY <2>1, <2>3 DEF Settled
    <3> QED
      BY <2>2, <2>3, <2>4, <3>1, <3>2, <3>3, <3>4, <3>5 DEF Listed
  <2>6. pc'[p] = "publish"
    BY <1>1, <1>3, <2>3 DEF AfterPersist
  <2>7. HoldsLast(p)'
    BY <1>1, <2>1, <2>2, <2>3, <2>4 DEF HoldsLast
  <2>8. Turn(p)'
    BY <1>1, <1>8, <2>3, <2>4, <2>6, <2>7 DEF Turn
  <2>9. Turns'
    BY <1>1, <1>3, <1>8, <2>8, Alone, AloneTurns
  <2> QED
    BY <1>4, <2>5, <2>9 DEF Orderly
<1> QED
  BY <1>2, <1>6, <1>7, <1>8 DEF Prepared

LEMMA PublishOrderly ==
  ASSUME Sane, Orderly, NEW p \in Processes, Publish(p)
  PROVE  Orderly'
<1> DEFINE r == next[p]
<1>1. /\ pc[p] = "publish" /\ UNCHANGED <<session, fate, held, next, owner>>
  BY DEF Publish, queueVars
<1>2. /\ session \in Session /\ r \in Runs /\ RowsType /\ ProcsType
      /\ session.done \in Nat /\ session.runs \in Seq(Runs) /\ session # NoSession
  <2>1. session \in Session
    BY <1>1, Underway
  <2> QED
    BY <1>1, <2>1, Equipment, SessionFields DEF EquippedAt
<1>3. /\ Len(session.runs) = session.done + 1
      /\ r = session.runs[session.done + 1] /\ HoldsLast(p)
      /\ mem[p] = session /\ r \notin requested /\ run[r].state = "queued"
  BY <1>1 DEF Orderly, Turns, Turn
<1>4. \/ Taken(r)
      \/ UNCHANGED <<waiting, requested>>
  BY DEF Publish
<1>5. /\ run'[r].state \in {"queued", "failed"}
      /\ \A q \in Runs : run'[q].iteration = run[q].iteration
      /\ \A q \in Runs \ {r} : run'[q] = run[q]
  <2>1. CASE run' = run
    BY <1>3, <2>1
  <2>2. CASE run' = [run EXCEPT ![r].state = IF @ = "queued" THEN "failed" ELSE @]
    BY <1>2, <1>3, <2>2, MarkTypes DEF RunState
  <2> QED
    BY <2>1, <2>2 DEF Publish
<1>6. fate[r] = "unsent"
  BY <1>2, <1>3 DEF Orderly, Announced
<1>7. Announced'
  <2> SUFFICES ASSUME NEW q \in Runs
               PROVE  /\ q \in requested' => run'[q].state # "none"
                      /\ fate[q] # "unsent" =>
                           /\ q \in requested' \ waiting'
                           /\ run'[q].state \in {"completed", "failed"}
    BY <1>1 DEF Announced
  <2>1. CASE q = r
    BY <1>5, <1>6, <2>1
  <2>2. CASE q # r
    <3>1. run'[q] = run[q] /\ (q \in requested' <=> q \in requested)
          /\ (q \in waiting' <=> q \in waiting)
      BY <1>4, <1>5, <2>2 DEF Taken
    <3> QED
      BY <3>1 DEF Orderly, Announced
  <2> QED
    BY <2>1, <2>2
<1>8. /\ requested \subseteq requested' /\ requested' \subseteq requested \cup {r}
      /\ Cardinality(requested') = IF OpenRequested' THEN session.done + 1 ELSE session.done
  <2>1. ~OpenRequested /\ Cardinality(requested) = session.done
    BY <1>2, <1>3 DEF OpenRequested, Orderly, Listed
  <2>2. IsFiniteSet(requested)
    <3>1. IsFiniteSet(Runs)
      BY CalibrationAssumption, FS_Interval DEF Runs, CalibrationAssumption
    <3> QED
      BY <1>2, <3>1, FS_Subset DEF RowsType
  <2>3. CASE Taken(r)
    <3>1. requested' = requested \cup {r} /\ OpenRequested'
      BY <1>1, <1>2, <1>3, <2>3 DEF Taken, OpenRequested
    <3>2. Cardinality(requested') = session.done + 1
      <4>1. Cardinality(requested \cup {r}) = Cardinality(requested) + 1
        BY <1>3, <2>2, FS_AddElement
      <4> QED
        BY <2>1, <3>1, <4>1
    <3> QED
      BY <3>1, <3>2
  <2>4. CASE UNCHANGED <<waiting, requested>>
    BY <1>1, <2>1, <2>4 DEF OpenRequested
  <2> QED
    BY <1>4, <2>3, <2>4
<1>9. Listed'
  <2>1. \A i \in 1 .. Len(session.runs) : session.runs[i] \in Runs
    BY <1>2
  <2>2. \A i \in 1 .. Len(session.runs) :
          run'[session.runs[i]].iteration = i /\ run'[session.runs[i]].state # "none"
    BY <1>2, <1>5, <2>1 DEF Orderly, Listed
  <2>3. \A i \in 1 .. session.done :
          /\ session.results[i] = session.runs[i]
          /\ session.runs[i] \in requested'
          /\ run'[session.runs[i]].state = "completed"
    <3> TAKE i \in 1 .. session.done
    <3>1. /\ session.results[i] = session.runs[i] /\ session.runs[i] \in requested
          /\ run[session.runs[i]].state = "completed"
      BY <1>2 DEF Orderly, Listed
    <3>2. session.runs[i] \in Runs \ {r}
      BY <1>2, <1>3, <2>1, <3>1
    <3> QED
      BY <1>5, <1>8, <3>1, <3>2
  <2>4. \A q \in requested' : \E i \in 1 .. Len(session.runs) : q = session.runs[i]
    <3>1. session.done + 1 \in 1 .. Len(session.runs)
      BY <1>2, <1>3
    <3> QED
      BY <1>2, <1>3, <1>8, <3>1 DEF Orderly, Listed
  <2> QED
    BY <1>1, <1>2, <1>8, <2>2, <2>3, <2>4 DEF Orderly, Listed
<1>10. ASSUME NEW stage \in Stages, GoTo(p, stage), Turn(p)' PROVE Orderly'
  <2>1. pc'[p] = stage /\ \A q \in Processes \ {p} : pc'[q] = pc[q]
    BY <1>2, <1>10, GoTypes
  <2>2. Owned'
    BY <1>1, <2>1, GoOwned DEF Orderly
  <2>3. Turns'
    BY <1>1, <1>10, <2>1, LastAlone, AloneTurns
  <2> QED
    BY <1>7, <1>9, <2>2, <2>3 DEF Orderly
<1>11. CASE GoTo(p, IF p = Api THEN "idle" ELSE "archive")
  <2>1. PICK stage \in {"idle", "archive"} : GoTo(p, stage)
    BY <1>11
  <2>2. pc'[p] = stage
    BY <1>2, <2>1, GoTypes DEF Stages
  <2>3. Turn(p)'
    BY <2>2 DEF Turn
  <2> QED
    BY <1>10, <2>1, <2>3 DEF Stages
<1>12. CASE /\ run' = [run EXCEPT ![r].state = IF @ = "queued" THEN "failed" ELSE @]
            /\ Work(p, Failed(mem[p]))
            /\ GoTo(p, "giveup")
  <2>1. pc'[p] = "giveup"
    BY <1>2, <1>12, GoTypes DEF Stages
  <2>2. mem'[p] = Failed(session)
    BY <1>2, <1>3, <1>12, WorkTypes, FailedCopy
  <2>3. run'[r].state = "failed"
    BY <1>2, <1>3, <1>12, MarkTypes DEF RunState
  <2>4. HoldsLast(p)'
    BY <1>1, <1>3 DEF HoldsLast
  <2>5. Turn(p)'
    BY <1>1, <1>3, <2>1, <2>2, <2>3, <2>4 DEF Turn, Failed
  <2> QED
    BY <1>10, <1>12, <2>5 DEF Stages
<1> QED
  BY <1>11, <1>12 DEF Publish

LEMMA GiveUpOrderly ==
  ASSUME Sane, Orderly, NEW p \in Processes, GiveUp(p)
  PROVE  Orderly'
<1>1. /\ pc[p] = "giveup" /\ session' = mem[p] /\ Rest(p)
      /\ UNCHANGED <<run, waiting, requested>>
  BY DEF GiveUp, HandlerRaises
<1>2. mem[p] = Failed(session) /\ session \in Session
  BY <1>1, Underway DEF Orderly, Turns, Turn
<1>3. /\ session'.status = "failed" /\ session'.done = session.done
      /\ session'.runs = session.runs /\ session'.results = session.results
      /\ session' \in Session /\ session # NoSession /\ session' # NoSession
  BY <1>1, <1>2, FailedCopy, SessionFields
<1>4. \A r \in Runs : fate'[r] # fate[r] =>
        p \in Workers /\ pc[p] # "idle" /\ r = held[p] /\ fate[r] # "unsent"
  <2>1. CASE p \in Workers /\ HandlerRaises(p)
    BY <1>1, <2>1, RaisesFate DEF Orderly
  <2>2. CASE UNCHANGED queueVars
    BY <2>2 DEF queueVars
  <2> QED
    BY <2>1, <2>2 DEF GiveUp
<1>5. Owned'
  BY <1>1, <1>4, RestOwned DEF Orderly
<1>6. Announced'
  BY <1>1, <1>4 DEF Orderly, Announced
<1>7. Listed'
  BY <1>1, <1>3 DEF Orderly, Listed, OpenRequested
<1>8. pc'[p] = "idle" /\ \A q \in Processes \ {p} : Same(q)
  BY <1>1, RestTypes, Equipment
<1>9. Turns'
  <2> SUFFICES ASSUME NEW q \in Processes PROVE Turn(q)'
    BY DEF Turns
  <2>1. CASE q = p
    BY <1>8, <2>1 DEF Turn
  <2>2. CASE q # p /\ pc[q] \notin Advancing
    BY <1>8, <2>2, IdleTurn DEF Same
  <2>3. CASE q # p /\ pc[q] \in Advancing
    <3>1. pc[q] = "persist" /\ mem[q] = Failed(session) /\ HoldsOpen(q)
      BY <1>1, <2>3, LastAlone
    <3>2. Failed(session') = Failed(session)
      BY <1>1, <1>2 DEF Failed
    <3>3. pc'[q] = "persist" /\ mem'[q] = Failed(session')
      BY <1>8, <2>3, <3>1, <3>2 DEF Same
    <3>4. HoldsOpen(q)'
      BY <1>3, <1>8, <2>3, <3>1 DEF HoldsOpen, Same
    <3>5. Prepared(q)'
      BY <3>3, <3>4 DEF Prepared, Failed
    <3> QED
      BY <3>3, <3>5 DEF Turn
  <2> QED
    BY <2>1, <2>2, <2>3
<1> QED
  BY <1>5, <1>6, <1>7, <1>9 DEF Orderly

-----------------------------------------------------------------------------
(* Every step keeps the invariant.                                         *)

\* Only a lost connection gives a delivery two handlers.
LEMMA LossFrees ==
  ASSUME Sane, NEW w \in Workers, LoseConnection(w)
  PROVE  ~Exclusive'
BY TypeParts DEF Sane, FaultsType, LoseConnection, Exclusive

LEMMA StaysExclusive ==
  ASSUME Sane, [Next]_vars, ~\E w \in Workers : LoseConnection(w)
  PROVE  Exclusive' => Exclusive
<1>1. /\ faults \in [kill : 0 .. MaxKills, loss : 0 .. MaxLosses,
                     error : 0 .. MaxErrors, buried : 0 .. MaxBuried]
  BY TypeParts DEF Sane, FaultsType
<1>2. ASSUME \/ UNCHANGED faults
             \/ Raised
             \/ faults' = [faults EXCEPT !.kill = @ + 1]
             \/ faults' = [faults EXCEPT !.buried = @ + 1]
      PROVE  Exclusive' => Exclusive
  BY <1>1, <1>2 DEF Raised, Exclusive
<1>3. ASSUME NEW p \in Processes, Step(p) PROVE UNCHANGED faults \/ Raised
  BY <1>3 DEF Step, Create, Persist, Publish, GiveUp
<1>4. ASSUME NEW w \in Workers, Handle(w) PROVE UNCHANGED faults \/ Raised
  BY <1>4 DEF Handle, Deliver, Download, ReadSession, Compare, Archive, Ack
<1>5. ASSUME NEW r \in Runs, RunEnds(r) \/ RunBuried(r)
      PROVE  UNCHANGED faults \/ faults' = [faults EXCEPT !.buried = @ + 1]
  BY <1>5 DEF RunEnds, RunBuried
<1>6. ASSUME NEW p \in Processes, Kill(p) PROVE faults' = [faults EXCEPT !.kill = @ + 1]
  BY <1>6 DEF Kill
<1>7. Start \/ UNCHANGED vars => UNCHANGED faults
  BY DEF Start, vars
<1> QED
  BY <1>2, <1>3, <1>4, <1>5, <1>6, <1>7 DEF Next

LEMMA NextOrderly ==
  ASSUME Sane, Orderly, [Next]_vars, ~\E w \in Workers : LoseConnection(w)
  PROVE  Orderly'
<1>1. CASE Start
  BY <1>1, StartOrderly
<1>2. ASSUME NEW p \in Processes, Step(p) PROVE Orderly'
  BY <1>2, CreateOrderly, PersistOrderly, PublishOrderly, GiveUpOrderly DEF Step
<1>3. ASSUME NEW w \in Workers, Handle(w) PROVE Orderly'
  BY <1>3, DeliverOrderly, DownloadOrderly, ReadSessionOrderly, CompareOrderly,
     ArchiveOrderly, AckOrderly DEF Handle
<1>4. ASSUME NEW r \in Runs, RunEnds(r) \/ RunBuried(r) PROVE Orderly'
  BY <1>4, RunEndsOrderly, RunBuriedOrderly
<1>5. ASSUME NEW p \in Processes, Kill(p) PROVE Orderly'
  BY <1>5, KillOrderly
<1>6. CASE UNCHANGED vars
  <2>1. UNCHANGED <<session, requested, waiting, procVars, owner, fate, run>>
    BY <1>6 DEF vars, queueVars
  <2>2. Announced'
    BY <2>1 DEF Orderly, Announced
  <2> QED
    BY <2>1, <2>2, SameRuns, AroundOrderly
<1> QED
  BY <1>1, <1>2, <1>3, <1>4, <1>5, <1>6 DEF Next

LEMMA InitOrderly == Init => Orderly
<1> SUFFICES ASSUME Init PROVE Orderly
  OBVIOUS
<1>1. /\ \A p \in Processes : pc[p] = "idle"
      /\ \A r \in Runs : fate[r] = "unsent" /\ r \notin requested
      /\ session = NoSession
  BY DEF Init, Queue!Init
<1>2. Owned /\ Turns
  BY <1>1, Someone DEF Owned, Turns, Turn
<1>3. Announced /\ Listed
  BY <1>1 DEF Announced, Listed
<1> QED
  BY <1>2, <1>3 DEF Orderly

LEMMA InitInv == Init => Inv
BY InitSane, InitOrderly DEF Inv

LEMMA NextInv == Inv /\ [Next]_vars => Inv'
<1> SUFFICES ASSUME Inv, [Next]_vars PROVE Inv'
  OBVIOUS
<1>1. Sane /\ Sane'
  BY NextSane DEF Inv
<1>2. Exclusive' => Orderly'
  BY <1>1, LossFrees, StaysExclusive, NextOrderly DEF Inv
<1> QED
  BY <1>1, <1>2 DEF Inv

\* Until a connection is lost under a handler, every delivery has one handler,
\* a message follows its run, and one process at a time advances the session.
THEOREM InvHolds == Spec => []Inv
BY InitInv, NextInv, PTL DEF Spec

LEMMA OwnRuns == Inv => ResultsAreOwnRuns
<1> SUFFICES ASSUME Inv, Exclusive, session # NoSession
             PROVE  /\ Len(session.results) = session.done
                    /\ \A i \in 1 .. session.done :
                         /\ session.results[i] = session.runs[i]
                         /\ run[session.results[i]] = [state |-> "completed", iteration |-> i]
  BY DEF ResultsAreOwnRuns
<1>1. /\ Listed /\ session \in Session
      /\ run \in [Runs -> [state : RunState, iteration : 0 .. Iterations]]
  BY DEF Inv, Orderly, Sane, TypeOK
<1>2. session.done \in Nat /\ session.runs \in Seq(Runs)
  BY <1>1, SessionFields
<1>3. ASSUME NEW i \in 1 .. session.done
      PROVE  /\ session.results[i] = session.runs[i]
             /\ run[session.results[i]] = [state |-> "completed", iteration |-> i]
  <2>1. i \in 1 .. Len(session.runs)
    BY <1>1, <1>2 DEF Listed
  <2>2. run[session.runs[i]] \in [state : RunState, iteration : 0 .. Iterations]
    BY <1>1, <1>2, <2>1
  <2>3. /\ session.results[i] = session.runs[i]
        /\ run[session.runs[i]].state = "completed" /\ run[session.runs[i]].iteration = i
    BY <1>1, <2>1 DEF Listed
  <2> QED
    BY <2>2, <2>3
<1> QED
  BY <1>1, <1>3 DEF Listed

\* Every counted iteration rests on its own completed run, in order, whatever
\* is redelivered, killed or refused on the way.
THEOREM ResultsAreOwnRunsHolds == Spec => []ResultsAreOwnRuns
BY InvHolds, OwnRuns, PTL

-----------------------------------------------------------------------------
(* The session keeps its promise.                                          *)

Status == IF session = NoSession THEN "none" ELSE session.status
Done == IF session = NoSession THEN 0 ELSE session.done

\* Counted iterations were queued, and at most one queued is not counted.
LEMMA Launches ==
  ASSUME Sane, Orderly, session \in Session
  PROVE  /\ Status = session.status /\ Done = session.done /\ session.done \in Nat
         /\ Cardinality(requested) =
              IF OpenRequested THEN session.done + 1 ELSE session.done
BY SessionFields DEF Status, Done, Orderly, Listed

LEMMA FailStep ==
  ASSUME Sane, Orderly, session \in Session, session' = Failed(session),
         session.status # "completed", UNCHANGED <<requested, Exclusive>>
  PROVE  [Promise!Next]_Promise!vars
<1>1. /\ session' \in Session /\ session'.status = "failed"
      /\ session'.done = session.done
  BY FailedCopy
<1>2. Status' = "failed" /\ Done' = Done
  BY <1>1, Launches, SessionFields DEF Status, Done
<1>3. Done \in Nat /\ Done <= Cardinality(requested) /\ Status \in {"running", "failed"}
  BY Launches, SessionFields
<1> QED
  BY <1>2, <1>3 DEF Promise!Next, Promise!Fail, Promise!vars, Status, Done

LEMMA PersistStep ==
  ASSUME Sane, Orderly, NEW p \in Processes, Persist(p), UNCHANGED Exclusive
  PROVE  [Promise!Next]_Promise!vars
<1>1. pc[p] = "persist" /\ session' = mem[p] /\ requested' = requested
  BY DEF Persist
<1>2. Prepared(p) /\ session \in Session
  BY <1>1, Underway DEF Orderly, Turns, Turn
<1> DEFINE b == Base(p)
<1>3. CASE /\ mem[p] = Failed(session)
           /\ HoldsOpen(p) \/ (Unstarted(p) /\ session.status = "running")
  <2>1. session.status # "completed"
    BY <1>2, <1>3, SessionFields DEF HoldsOpen, Orderly, Listed
  <2> QED
    BY <1>1, <1>2, <1>3, <2>1, FailStep
<1>4. CASE session.status = "running" /\ Completes(p)
  <2>1. /\ Settled(b) /\ b \in Session /\ b.status = "running"
        /\ b.done \in 0 .. Iterations
    <3>1. Settled(b) /\ b.status = "running"
      BY <1>1, <1>4, BaseSettled
    <3> QED
      BY <3>1, SessionFields DEF Settled
  <2>2. /\ Status = "running" /\ Done = session.done /\ session.done \in Nat
        /\ Cardinality(requested) = session.done + 1 /\ b.done = session.done + 1
    <3>1. OpenRequested
      BY <1>1, <1>2, <1>4, OpenRun DEF Completes, HoldsOpen, OpenRequested
    <3>2. Cardinality(requested) = b.done
      BY <2>1 DEF Settled
    <3> QED
      BY <1>2, <1>4, <3>1, <3>2, Launches
  <2> HIDE DEF b
  <2>3. CASE mem[p] = Failed(b)
    <3>1. Status' = "failed" /\ Done' = Done + 1
      BY <1>1, <2>1, <2>2, <2>3, FailedCopy, SessionFields DEF Status, Done
    <3> QED
      BY <1>1, <2>2, <3>1 DEF Promise!Next, Promise!Fail, Promise!vars, Status, Done
  <2>4. CASE b.done >= Iterations /\ mem[p] = Completed(b)
    <3>1. Status' = "completed" /\ Done' = Done + 1 /\ Done' = Iterations
      BY <1>1, <2>1, <2>2, <2>4, CompletedCopy, SessionFields, CalibrationAssumption
         DEF Status, Done, CalibrationAssumption
    <3> QED
      BY <1>1, <2>2, <3>1 DEF Promise!Next, Promise!Count, Promise!vars, Status, Done
  <2>5. CASE b.done < Iterations /\ next[p] \in Runs /\ mem[p] = Launched(b, next[p])
    <3>1. Status' = "running" /\ Done' = Done + 1 /\ Done' # Iterations
      BY <1>1, <2>1, <2>2, <2>5, LaunchedCopy, SessionFields DEF Status, Done
    <3> QED
      BY <1>1, <2>2, <3>1 DEF Promise!Next, Promise!Count, Promise!vars, Status, Done
  <2>6. CASE mem[p] = Failed(session)
    BY <1>1, <1>2, <1>4, <2>6, FailStep
  <2>7. ~Unstarted(p)
    BY <1>4, Someone DEF Completes, HoldsOpen, Unstarted
  <2> QED
    BY <1>2, <1>4, <2>3, <2>4, <2>5, <2>6, <2>7 DEF Prepared, b
<1>5. CASE /\ session.status = "running" /\ Unstarted(p)
           /\ next[p] \in Runs /\ mem[p] = Launched(Base(p), next[p])
  <2>1. Base(p) = session
    BY <1>5 DEF Unstarted, Base
  <2>2. Status' = Status /\ Done' = Done
    BY <1>1, <1>2, <1>5, <2>1, LaunchedCopy, SessionFields DEF Status, Done
  <2> QED
    BY <1>1, <2>2 DEF Promise!vars, Status, Done
<1> QED
  BY <1>2, <1>3, <1>4, <1>5 DEF Prepared

LEMMA PublishStep ==
  ASSUME Sane, Orderly, Orderly', NEW p \in Processes, Publish(p), UNCHANGED Exclusive
  PROVE  [Promise!Next]_Promise!vars
<1>1. /\ pc[p] = "publish" /\ session' = session
      /\ Taken(next[p]) \/ requested' = requested
  BY DEF Publish
<1>2. /\ session \in Session /\ session.status = "running"
      /\ Len(session.runs) = session.done + 1
      /\ next[p] = session.runs[session.done + 1] /\ next[p] \notin requested
  BY <1>1, Underway DEF Orderly, Turns, Turn
<1>3. /\ Status = "running" /\ Done = session.done /\ session.done \in Nat
      /\ Status' = Status /\ Done' = Done
  BY <1>1, <1>2, Launches DEF Status, Done
<1>4. Cardinality(requested) = Done
  BY <1>2, <1>3, Launches DEF OpenRequested
<1>5. CASE requested' = requested
  BY <1>1, <1>3, <1>5 DEF Promise!vars, Status, Done
<1>6. CASE Taken(next[p])
  <2>1. OpenRequested' /\ session # NoSession
    BY <1>1, <1>2, <1>3, <1>6, SessionFields DEF Taken, OpenRequested
  <2>2. Cardinality(requested') = Done + 1
    BY <1>1, <1>3, <2>1 DEF Orderly, Listed
  <2>3. Done < Iterations
    BY <1>2, <1>3, <2>1 DEF Orderly, Listed
  <2> QED
    BY <1>1, <1>3, <1>4, <2>2, <2>3
       DEF Promise!Next, Promise!Launch, Promise!vars, Status, Done
<1> QED
  BY <1>1, <1>5, <1>6

LEMMA StepKept ==
  ASSUME Sane, Orderly, Orderly', [Next]_vars, UNCHANGED Exclusive
  PROVE  [Promise!Next]_Promise!vars
<1>1. CASE UNCHANGED <<session, requested>>
  BY <1>1 DEF Promise!vars
<1>2. CASE Start
  <2>1. session = NoSession /\ requested = {} /\ requested' = requested
    BY <1>2 DEF Start, Sane, Begun
  <2>2. Status = "none" /\ Done = 0
    BY <2>1 DEF Status, Done
  <2>3. session' \in Session /\ session'.status = "running" /\ session'.done = 0
    BY <1>2, CalibrationAssumption DEF Start, Session, CalibrationAssumption
  <2>4. Status' = "running" /\ Done' = 0
    BY <2>3, SessionFields DEF Status, Done
  <2> QED
    BY <2>1, <2>2, <2>4 DEF Promise!Next, Promise!Start, Promise!vars, Status, Done
<1>3. ASSUME NEW p \in Processes, GiveUp(p) PROVE [Promise!Next]_Promise!vars
  <2>1. pc[p] = "giveup" /\ session' = mem[p] /\ requested' = requested
    BY <1>3 DEF GiveUp
  <2>2. /\ session \in Session /\ mem[p] = Failed(session)
        /\ Len(session.runs) = session.done + 1
    BY <2>1, Underway DEF Orderly, Turns, Turn
  <2>3. session.status # "completed"
    BY <2>2, SessionFields DEF Orderly, Listed
  <2> QED
    BY <2>1, <2>2, <2>3, FailStep
<1>4. ASSUME NEW p \in Processes, Step(p) PROVE [Promise!Next]_Promise!vars
  BY <1>1, <1>3, <1>4, PersistStep, PublishStep DEF Step, Create
<1>5. \A w \in Workers : Handle(w) => UNCHANGED <<session, requested>>
  BY DEF Handle, Deliver, Download, ReadSession, Compare, Archive, Ack
<1>6. \A r \in Runs : RunEnds(r) \/ RunBuried(r) => UNCHANGED <<session, requested>>
  BY DEF RunEnds, RunBuried
<1>7. \A w \in Workers : LoseConnection(w) => UNCHANGED <<session, requested>>
  BY DEF LoseConnection
<1>8. \A p \in Processes : Kill(p) => UNCHANGED <<session, requested>>
  BY DEF Kill
<1>9. UNCHANGED vars => UNCHANGED <<session, requested>>
  BY DEF vars
<1> QED
  BY <1>1, <1>2, <1>4, <1>5, <1>6, <1>7, <1>8, <1>9 DEF Next

\* Iterations run one after the other, each queued once and only when the one
\* before it is counted, and an ended session never changes: for any number of
\* workers, iterations, redeliveries, kills and failed calls, as long as no
\* connection is lost under a handler.
THEOREM KeepsItsPromise == Spec => KeepsPromise
<1>1. Init => Promise!Init
  <2> SUFFICES ASSUME Init PROVE Promise!Init
    OBVIOUS
  <2>1. /\ session = NoSession /\ requested = {} /\ faults.loss = 0
    BY DEF Init
  <2>2. Cardinality(requested) = 0
    BY <2>1, FS_EmptySet
  <2> QED
    BY <2>1, <2>2 DEF Promise!Init, Exclusive
<1>2. Inv /\ Inv' /\ [Next]_vars => [Promise!Next]_Promise!vars
  <2> SUFFICES ASSUME Inv, Inv', [Next]_vars PROVE [Promise!Next]_Promise!vars
    OBVIOUS
  <2>1. CASE ~Exclusive'
    BY <2>1 DEF Promise!Next, Exclusive
  <2>2. CASE Exclusive'
    <3>1. Exclusive
      BY <2>2, LossFrees, StaysExclusive DEF Inv
    <3> QED
      BY <2>2, <3>1, StepKept DEF Inv
  <2> QED
    BY <2>1, <2>2
<1> QED
  BY <1>1, <1>2, InvHolds, PTL DEF Spec, KeepsPromise, Promise!Spec

-----------------------------------------------------------------------------
(* StudyPlanning: the profile of the next iteration, and the runs of a     *)
(* sensitivity study.                                                      *)

\* Clamp returns the bound that a value passes, or the value.
LEMMA ClampCases ==
  ASSUME NEW v \in Int, NEW low \in Int, NEW high \in Int, low <= high
  PROVE  Clamp(v, low, high) = IF v < low THEN low ELSE IF v > high THEN high ELSE v
<1> DEFINE w == IF v < high THEN v ELSE high
           c == IF w < low THEN low ELSE w
<1>1. Min({v, high}) = w
  <2>1. w \in {v, high} /\ \A y \in {v, high} : w <= y
    OBVIOUS
  <2>2. \A x \in {v, high} : (\A y \in {v, high} : x <= y) => x = w
    OBVIOUS
  <2> QED
    BY <2>1, <2>2 DEF Min
<1>2. Max({low, w}) = c
  <2>1. c \in {low, w} /\ \A y \in {low, w} : c >= y
    OBVIOUS
  <2>2. \A x \in {low, w} : (\A y \in {low, w} : x >= y) => x = c
    OBVIOUS
  <2> QED
    BY <2>1, <2>2 DEF Max
<1> HIDE DEF w
<1>3. Clamp(v, low, high) = c
  BY <1>1, <1>2 DEF Clamp
<1> QED
  BY <1>3 DEF w, c

\* Products keep the order of their factors.
LEMMA ProductsGrow ==
  ASSUME NEW m \in Int, NEW n \in Int, NEW k \in Nat, m <= n
  PROVE  m * k <= n * k
<1>1. (n - m) * k >= 0
  BY SMT
<1> QED
  BY <1>1, SMT

\* A nearest whole number is a natural number within half of the unit.
LEMMA NearestOf ==
  ASSUME NEW a \in Nat, NEW b \in Nat \ {0}, NEW n \in NearestWhole(a, b)
  PROVE  n \in Nat /\ n * b - a \in Int /\ -b <= 2 * (n * b - a) /\ 2 * (n * b - a) <= b
<1>1. a \div b \in Nat
  BY SMT
<1> QED
  BY <1>1 DEF NearestWhole

\* A step of Quantized, of at least one unit and as near as units allow, ends
\* within a unit of what was proposed: upwards ...
LEMMA StepUp ==
  ASSUME NEW old \in Nat, NEW top \in Nat, old <= top,
         NEW b \in Nat \ {0}, NEW step \in Nat \ {0}, NEW m \in Nat \ {0},
         NEW a \in Nat, old * b < a, a <= top * b,
         NEW h \in Int, NEW c \in Int,
         c = IF old + m * step > top THEN top ELSE old + m * step,
         h = IF c - old < step /\ old - c < step THEN old ELSE c,
         m * (step * b) - (a - old * b) < step * b,
         (a - old * b) - m * (step * b) < step * b
  PROVE  /\ old <= h /\ h <= top
         /\ h = old \/ h - old >= step
         /\ a - h * b < step * b /\ h * b - a < step * b
<1> DEFINE P == old * b
           S == step * b
           Q == m * S
           X == top * b
           M == m * step
<1>1. P \in Nat /\ S \in Nat /\ Q \in Nat /\ X \in Nat /\ M \in Nat
  BY SMT
<1>2. step <= M
  <2>1. 1 * step <= m * step
    BY ProductsGrow, SMT
  <2> QED
    BY <2>1, SMT
<1>3. (old + M) * b = P + Q
  BY SMT
<1>4. old + M > top => X <= P + Q
  BY <1>1, <1>3, ProductsGrow, SMT
<1>5. top - old < step => X - P < S
  <2> SUFFICES ASSUME top - old < step PROVE X - P < S
    OBVIOUS
  <2>1. top * b <= (old + (step - 1)) * b
    BY ProductsGrow, SMT
  <2>2. (old + (step - 1)) * b = P + S - b
    BY SMT
  <2> QED
    BY <1>1, <2>1, <2>2, SMT
<1>6. P < a /\ a <= X /\ Q - (a - P) < S /\ (a - P) - Q < S
  OBVIOUS
<1>7. c = (IF old + M > top THEN top ELSE old + M)
  OBVIOUS
<1>8. c * b = (IF old + M > top THEN X ELSE P + Q)
  BY <1>3, <1>7
<1>9. h * b = (IF h = old THEN P ELSE c * b)
  OBVIOUS
<1> HIDE DEF P, S, Q, X, M
<1>10. old <= c /\ c <= top /\ (c - old < step => c = top /\ old + M > top)
  BY <1>1, <1>2, <1>7
<1>11. a - c * b < S /\ c * b - a < S
  BY <1>1, <1>4, <1>6, <1>8, <1>10
<1>12. h = old \/ h = c
  OBVIOUS
<1>13. a - h * b < S /\ h * b - a < S
  <2>1. CASE h = c
    BY <2>1, <1>11
  <2>2. CASE h = old /\ h # c
    <3>1. top - old < step /\ h * b = P
      BY <2>2, <1>10, <1>9
    <3> QED
      BY <3>1, <1>1, <1>5, <1>6
  <2> QED
    BY <2>1, <2>2, <1>12
<1>14. old <= h /\ h <= top /\ (h = old \/ h - old >= step)
  BY <1>10
<1> QED
  BY <1>13, <1>14 DEF S

\* ... and downwards.
LEMMA StepDown ==
  ASSUME NEW old \in Nat,
         NEW b \in Nat \ {0}, NEW step \in Nat \ {0}, NEW m \in Nat \ {0},
         NEW a \in Nat, a < old * b,
         NEW h \in Int, NEW c \in Int,
         c = IF old - m * step < 0 THEN 0 ELSE old - m * step,
         h = IF c - old < step /\ old - c < step THEN old ELSE c,
         m * (step * b) - (old * b - a) < step * b,
         (old * b - a) - m * (step * b) < step * b
  PROVE  /\ 0 <= h /\ h <= old
         /\ h = old \/ old - h >= step
         /\ a - h * b < step * b /\ h * b - a < step * b
<1> DEFINE P == old * b
           S == step * b
           Q == m * S
           M == m * step
<1>1. P \in Nat /\ S \in Nat /\ Q \in Nat /\ M \in Nat
  BY SMT
<1>2. step <= M
  <2>1. 1 * step <= m * step
    BY ProductsGrow, SMT
  <2> QED
    BY <2>1, SMT
<1>3. M * b = Q /\ (old - M) * b = P - Q
  BY SMT
<1>4. old - M < 0 => P <= Q
  BY <1>1, <1>3, ProductsGrow, SMT
<1>5. old < step => P < S
  <2> SUFFICES ASSUME old < step PROVE P < S
    OBVIOUS
  <2>1. old * b <= (step - 1) * b
    BY ProductsGrow, SMT
  <2>2. (step - 1) * b = S - b
    BY SMT
  <2> QED
    BY <1>1, <2>1, <2>2, SMT
<1>6. a < P /\ Q - (P - a) < S /\ (P - a) - Q < S
  OBVIOUS
<1>7. c = (IF old - M < 0 THEN 0 ELSE old - M)
  OBVIOUS
<1>8. c * b = (IF old - M < 0 THEN 0 ELSE P - Q)
  BY <1>3, <1>7, SMT
<1>9. h * b = (IF h = old THEN P ELSE c * b)
  OBVIOUS
<1> HIDE DEF P, S, Q, M
<1>10. 0 <= c /\ c <= old /\ (old - c < step => c = 0 /\ old < M)
  BY <1>1, <1>2, <1>7
<1>11. a - c * b < S /\ c * b - a < S
  BY <1>1, <1>4, <1>6, <1>8, <1>10
<1>12. h = old \/ h = c
  OBVIOUS
<1>13. a - h * b < S /\ h * b - a < S
  <2>1. CASE h = c
    BY <2>1, <1>11
  <2>2. CASE h = old /\ h # c
    <3>1. old < step /\ h * b = P
      BY <2>2, <1>10, <1>9
    <3> QED
      BY <3>1, <1>1, <1>5, <1>6
  <2> QED
    BY <2>1, <2>2, <1>12
<1>14. 0 <= h /\ h <= old /\ (h = old \/ old - h >= step)
  BY <1>10
<1> QED
  BY <1>13, <1>14 DEF S


LEMMA AtLeastOne ==
  ASSUME NEW n \in Nat
  PROVE  Max({1, n}) = IF n = 0 THEN 1 ELSE n
<1> DEFINE m == IF n = 0 THEN 1 ELSE n
<1>1. m \in {1, n} /\ \A y \in {1, n} : m >= y
  OBVIOUS
<1>2. \A x \in {1, n} : (\A y \in {1, n} : x >= y) => x = m
  OBVIOUS
<1> QED
  BY <1>1, <1>2 DEF Max

\* _quantize_percentage: a height within the bounds, changed by a step at
\* least and towards what was proposed, to within a step of it.
LEMMA QuantizedApproaches ==
  ASSUME Tallest \in Nat,
         NEW old \in 0 .. Tallest, NEW share \in Nat, NEW b \in Nat \ {0},
         NEW step \in Nat \ {0}, NEW h \in Quantized(old, <<share, b>>, step),
         NEW a, a = Clamp(share, 0, Tallest * b)
  PROVE  /\ a = IF share > Tallest * b THEN Tallest * b ELSE share
         /\ a \in Nat /\ h \in 0 .. Tallest
         /\ h = old \/ h - old >= step \/ old - h >= step
         /\ a - h * b < step * b /\ h * b - a < step * b
         /\ h > old => a > old * b
         /\ h < old => a < old * b
<1>1. Tallest * b \in Nat /\ old * b \in Nat /\ step * b \in Nat \ {0}
  BY SMT
<1>2. a = (IF share > Tallest * b THEN Tallest * b ELSE share)
  BY <1>1, ClampCases
<1>3. a \in Nat /\ a <= Tallest * b
  BY <1>1, <1>2
<1> DEFINE missing == a - old * b
           size == IF missing > 0 THEN missing ELSE -missing
           way == IF missing > 0 THEN step ELSE -step
           moved(n) == Clamp(old + Max({1, n}) * way, 0, Tallest)
           kept(c) == IF c - old < step /\ old - c < step THEN old ELSE c
<1>4. h \in (IF missing = 0 THEN {old} ELSE {kept(moved(n)) : n \in NearestWhole(size, step * b)})
  BY DEF Quantized
<1>5. CASE missing = 0
  <2>1. h = old
    BY <1>4, <1>5
  <2> QED
    BY <2>1, <1>5, <1>1, <1>2, <1>3
<1>6. CASE missing # 0
  <2>1. PICK n \in NearestWhole(size, step * b) : h = kept(moved(n))
    BY <1>4, <1>6
  <2>2. size \in Nat
    BY <1>1, <1>3
  <2>3. n \in Nat /\ -(step * b) <= 2 * (n * (step * b) - size)
        /\ 2 * (n * (step * b) - size) <= step * b
    BY <1>1, <2>2, NearestOf
  <2> DEFINE m == IF n = 0 THEN 1 ELSE n
             c == moved(n)
  <2>4. Max({1, n}) = m /\ m \in Nat \ {0}
    BY <2>3, AtLeastOne
  <2>5. m * (step * b) - size < step * b /\ size - m * (step * b) < step * b
    <3>1. CASE n = 0
      <4>1. 0 * (step * b) = 0 /\ m * (step * b) = step * b
        BY <3>1, <1>1
      <4>2. size > 0
        BY <1>6, <1>1, <1>3
      <4> HIDE DEF size
      <4> QED
        BY <3>1, <4>1, <4>2, <2>2, <2>3, <1>1
    <3>2. CASE n # 0
      <4>1. n * (step * b) \in Int
        BY <2>3, <1>1
      <4> HIDE DEF size
      <4> QED
        BY <3>2, <4>1, <2>2, <2>3, <1>1
    <3> QED
      BY <3>1, <3>2
  <2>6. CASE missing > 0
    <3>1. old + m * step \in Nat
      BY <2>4, SMT
    <3>2. c = (IF old + m * step > Tallest THEN Tallest ELSE old + m * step)
      BY <2>6, <2>4, <3>1, ClampCases
    <3>3. c \in Int
      BY <3>1, <3>2
    <3>4. old * b < a /\ size = a - old * b
      BY <2>6, <1>1, <1>3
    <3>5. /\ m * (step * b) - (a - old * b) < step * b
          /\ (a - old * b) - m * (step * b) < step * b
      BY <3>4, <2>5
    <3>6. h = IF c - old < step /\ old - c < step THEN old ELSE c
      BY <2>1
    <3> HIDE DEF c, m, missing, size, way
    <3>7. h \in Int
      BY <3>3, <3>6
    <3>8. /\ old <= h /\ h <= Tallest
          /\ h = old \/ h - old >= step
          /\ a - h * b < step * b /\ h * b - a < step * b
      BY <3>2, <3>3, <3>4, <3>5, <3>6, <3>7, <1>3, <2>4, StepUp
    <3> QED
      BY <3>4, <3>7, <3>8, <1>2, <1>3
  <2>7. CASE missing < 0
    <3>1. old + m * way = old - m * step /\ old - m * step \in Int /\ old - m * step <= Tallest
      <4>1. m * step \in Nat /\ m * (-step) = -(m * step)
        BY <2>4, SMT
      <4>2. way = -step
        BY <2>7, <1>1, <1>3
      <4> QED
        BY <4>1, <4>2
    <3>2. c = (IF old - m * step < 0 THEN 0 ELSE old - m * step)
      BY <2>4, <3>1, ClampCases
    <3>3. c \in Int
      BY <3>1, <3>2
    <3>4. a < old * b /\ size = old * b - a
      BY <2>7, <1>1, <1>3
    <3>5. /\ m * (step * b) - (old * b - a) < step * b
          /\ (old * b - a) - m * (step * b) < step * b
      BY <3>4, <2>5
    <3>6. h = IF c - old < step /\ old - c < step THEN old ELSE c
      BY <2>1
    <3> HIDE DEF c, m, missing, size, way
    <3>7. h \in Int
      BY <3>3, <3>6
    <3>8. /\ 0 <= h /\ h <= old
          /\ h = old \/ old - h >= step
          /\ a - h * b < step * b /\ h * b - a < step * b
      BY <3>2, <3>3, <3>4, <3>5, <3>6, <3>7, <1>3, <2>4, StepDown
    <3> QED
      BY <3>4, <3>7, <3>8, <1>2, <1>3
  <2> QED
    BY <2>6, <2>7, <1>6, <1>1, <1>3
<1> QED
  BY <1>5, <1>6

\* What an answer about a profile is.
Answered ==
  question.kind = "profile" =>
    /\ question.of \in Comparisons
    /\ answer # Pending => answer \in UpdatedProfile(question.of)

\* An updated height approaches what the flows call for.
LEMMA AnswersApproach == Answered => PeaksApproach
<1> SUFFICES ASSUME Answered, answer # Pending, question.kind = "profile"
             PROVE  LET x == question.of
                        a == Clamp(answer.proposed[1], 0, Tallest * answer.proposed[2])
                        b == answer.proposed[2]
                        Away(h) == IF a > h * b THEN a - h * b ELSE h * b - a
                    IN
                    /\ 0 <= answer.height /\ answer.height <= Tallest
                    /\ answer.height = x.old \/ answer.height - x.old >= x.step
                         \/ x.old - answer.height >= x.step
                    /\ Away(answer.height) < x.step * b \/ Away(answer.height) < Away(x.old)
                    /\ ~x.learnt /\ answer.height > x.old => x.real > x.simulated
                    /\ ~x.learnt /\ answer.height < x.old => x.real < x.simulated
  BY DEF PeaksApproach
<1> DEFINE x == question.of
           b == answer.proposed[2]
           share == answer.proposed[1]
           a == Clamp(share, 0, Tallest * b)
           h == answer.height
<1>1. /\ Tallest \in Nat /\ x.old \in 0 .. Tallest /\ x.real \in Nat /\ x.simulated \in Nat
      /\ x.step \in Nat \ {0} /\ x.learnt \in BOOLEAN
  BY PlanningAssumption DEF Answered
<1>2. answer.proposed \in Proposals(x) /\ h \in Quantized(x.old, answer.proposed, x.step)
  BY DEF Answered, UpdatedProfile
<1>3. /\ answer.proposed = <<share, b>> /\ share \in Nat /\ b \in Nat \ {0}
      /\ \/ x.learnt
         \/ share = x.old /\ b = 1
         \/ x.old = 0 /\ x.real > x.simulated
         \/ share = x.old * x.real /\ b = x.simulated
  <2>1. CASE x.simulated = 0
    <3>1. answer.proposed = <<x.old, 1>>
      BY <1>2, <2>1, <1>1 DEF Proposals
    <3> QED
      BY <3>1, <1>1
  <2>2. CASE x.simulated > 0 /\ x.learnt
    <3>1. \E p \in 0 .. Tallest : answer.proposed = <<p, 1>>
      BY <1>2, <2>2, <1>1 DEF Proposals
    <3> QED
      BY <3>1, <1>1, <2>2
  <2>3. CASE x.simulated > 0 /\ ~x.learnt /\ x.old = 0 /\ x.real > x.simulated
    <3>1. answer.proposed = <<1, 1>>
      BY <1>2, <2>3, <1>1 DEF Proposals
    <3> QED
      BY <3>1, <2>3
  <2>4. CASE x.simulated > 0 /\ ~x.learnt /\ ~(x.old = 0 /\ x.real > x.simulated)
    <3>1. answer.proposed = <<x.old * x.real, x.simulated>>
      BY <1>2, <2>4, <1>1 DEF Proposals
    <3>2. x.old * x.real \in Nat
      BY <1>1, SMT
    <3> QED
      BY <3>1, <3>2, <2>4, <1>1
  <2> QED
    BY <2>1, <2>2, <2>3, <2>4, <1>1
<1> HIDE DEF x, b, share, h
<1>4. /\ a = IF share > Tallest * b THEN Tallest * b ELSE share
      /\ a \in Nat /\ h \in 0 .. Tallest
      /\ h = x.old \/ h - x.old >= x.step \/ x.old - h >= x.step
      /\ a - h * b < x.step * b /\ h * b - a < x.step * b
      /\ h > x.old => a > x.old * b
      /\ h < x.old => a < x.old * b
  <2>1. h \in Quantized(x.old, <<share, b>>, x.step)
    BY <1>2, <1>3
  <2>2. share \in Nat /\ b \in Nat \ {0} /\ Tallest \in Nat /\ x.old \in 0 .. Tallest
        /\ x.step \in Nat \ {0}
    BY <1>1, <1>3
  <2> QED
    BY <2>1, <2>2, QuantizedApproaches
<1> HIDE DEF a
<1>5. ~x.learnt /\ h > x.old => x.real > x.simulated
  <2> SUFFICES ASSUME ~x.learnt, a > x.old * b PROVE x.real > x.simulated
    BY <1>4
  <2>1. a <= share
    BY <1>3, <1>4, <1>1, SMT
  <2>2. CASE share = x.old /\ b = 1
    BY <2>1, <2>2, <1>1, <1>4
  <2>3. CASE share = x.old * x.real /\ b = x.simulated
    <3>1. x.real <= x.simulated => x.real * x.old <= x.simulated * x.old
      BY <1>1, ProductsGrow
    <3>2. x.old * x.real = x.real * x.old /\ x.old * x.simulated = x.simulated * x.old
      BY <1>1, SMT
    <3>3. x.simulated * x.old < x.real * x.old
      BY <2>1, <2>3, <3>2, <1>1, <1>4, SMT
    <3> QED
      BY <3>1, <3>3, <1>1, SMT
  <2> QED
    BY <2>2, <2>3, <1>3
<1>6. ~x.learnt /\ h < x.old => x.real < x.simulated
  <2> SUFFICES ASSUME ~x.learnt, h < x.old, a < x.old * b PROVE x.real < x.simulated
    BY <1>4
  <2>1. x.old # 0 /\ x.old <= Tallest
    BY <1>1, <1>4
  <2>2. x.old * b <= Tallest * b
    BY <1>1, <1>3, <2>1, ProductsGrow
  <2>3. a = share
    BY <1>1, <1>3, <1>4, <2>2, SMT
  <2>4. CASE share = x.old /\ b = 1
    BY <2>3, <2>4, <1>1
  <2>5. CASE share = x.old * x.real /\ b = x.simulated
    <3>1. x.simulated <= x.real => x.simulated * x.old <= x.real * x.old
      BY <1>1, ProductsGrow
    <3>2. x.old * x.real = x.real * x.old /\ x.old * x.simulated = x.simulated * x.old
      BY <1>1, SMT
    <3>3. x.real * x.old < x.simulated * x.old
      BY <2>3, <2>5, <3>2, SMT
    <3> QED
      BY <3>1, <3>3, <1>1, SMT
  <2> QED
    BY <2>1, <2>4, <2>5, <1>3
<1>7. h * b \in Nat
  BY <1>3, <1>4, SMT
<1> QED
  BY <1>1, <1>4, <1>5, <1>6, <1>7 DEF x, b, share, a, h

\* A peak is changed towards what was proposed by whole steps and within the
\* bounds, for any profile, flows and step (compare_and_update_profile).
THEOREM PeaksApproachHolds == PlanningSpec => []PeaksApproach
<1>1. PlanningInit => Answered
  BY DEF PlanningInit, Answered
<1>2. Answered /\ [PlanningNext]_planningVars => Answered'
  <2> SUFFICES ASSUME Answered, [PlanningNext]_planningVars PROVE Answered'
    OBVIOUS
  <2>1. CASE BuildPlan
    BY <2>1 DEF Answered, BuildPlan
  <2>2. CASE ProposeCandidate
    BY <2>2 DEF Answered, ProposeCandidate
  <2>3. CASE UpdateProfile
    BY <2>3 DEF Answered, UpdateProfile
  <2>4. CASE UNCHANGED planningVars
    BY <2>4 DEF Answered, planningVars
  <2> QED
    BY <2>1, <2>2, <2>3, <2>4 DEF PlanningNext
<1> QED
  BY <1>1, <1>2, AnswersApproach, PTL DEF PlanningSpec

(***************************************************************************)
(* The runs of a sensitivity study.                                        *)
(***************************************************************************)

\* allocate_counts loses no vehicle and invents none: what is left after the
\* whole parts goes to as many origins.
THEOREM AllocationsAddUp ==
  ASSUME NEW k \in Nat, NEW w \in [1 .. k -> Nat], Total(w) > 0, NEW count \in Nat
  PROVE  Total(AllocateCounts(w, count)) = count
<1> DEFINE D == 1 .. k
           W == Total(w)
           prod == [i \in D |-> count * w[i]]
           fl == [i \in D |-> (count * w[i]) \div W]
           rs == [i \in D |-> (count * w[i]) % W]
           left == count - Total(fl)
           before == [i \in D |-> {j \in D : rs[j] > rs[i] \/ (rs[j] = rs[i] /\ j < i)}]
           Early == {i \in D : Cardinality(before[i]) < left}
           extra == [i \in D |-> IF i \in Early THEN 1 ELSE 0]
           result == [i \in D |-> fl[i] + extra[i]]
           zeros == [i \in D |-> 0]
           most == [i \in D |-> W]
<1>1. IsFiniteSet(D) /\ Cardinality(D) = k
  BY FS_Interval
<1>2. W \in Nat \ {0}
  <2>1. DOMAIN w = D /\ \A i \in DOMAIN w : w[i] \in Nat
    OBVIOUS
  <2>2. SumFunction(w) \in Nat
    BY <1>1, <2>1, SumOfCounts
  <2> QED
    BY <2>2 DEF Total
<1>3. \A i \in D : prod[i] \in Nat
  <2> SUFFICES ASSUME NEW i \in D PROVE count * w[i] \in Nat
    OBVIOUS
  <2>1. w[i] \in Nat
    OBVIOUS
  <2> QED
    BY <2>1, SMT
<1>4. \A i \in D : /\ fl[i] \in Nat /\ rs[i] \in Nat /\ rs[i] < W
                   /\ prod[i] = W * fl[i] + rs[i]
  <2> SUFFICES ASSUME NEW i \in D
               PROVE  /\ fl[i] \in Nat /\ rs[i] \in Nat /\ rs[i] < W
                      /\ prod[i] = W * fl[i] + rs[i]
    OBVIOUS
  <2>1. prod[i] \in Nat /\ fl[i] = prod[i] \div W /\ rs[i] = prod[i] % W
    BY <1>3
  <2> DEFINE p == prod[i]
             q == fl[i]
             r == rs[i]
  <2>2. p \in Nat /\ q = p \div W /\ r = p % W
    BY <2>1
  <2> HIDE DEF p, q, r, W
  <2>3. q \in Nat /\ r \in Nat /\ r < W /\ p = W * q + r
    BY <1>2, <2>2, SMT
  <2> QED
    BY <2>3 DEF p, q, r
<1>5. AllocateCounts(w, count) = result
  <2>1. DOMAIN w = D
    OBVIOUS
  <2>2. \A i \in D : before[i] = {j \in D : \/ (count * w[j]) % W > (count * w[i]) % W
                                            \/ (count * w[j]) % W = (count * w[i]) % W /\ j < i}
    OBVIOUS
  <2>3. \A i \in D : result[i] = fl[i] + IF Cardinality(before[i]) < left THEN 1 ELSE 0
    OBVIOUS
  <2>4. AllocateCounts(w, count) =
          [i \in D |-> fl[i] + IF Cardinality(before[i]) < left THEN 1 ELSE 0]
    BY <2>1, <2>2 DEF AllocateCounts
  <2>5. result = [i \in D |-> fl[i] + IF Cardinality(before[i]) < left THEN 1 ELSE 0]
    OBVIOUS
  <2> QED
    BY <2>4, <2>5
<1>6. \A i \in D : w[i] \in Int
  OBVIOUS
<1>7. DOMAIN w = D /\ DOMAIN prod = D /\ DOMAIN fl = D /\ DOMAIN rs = D /\ DOMAIN zeros = D
      /\ DOMAIN most = D /\ DOMAIN extra = D /\ DOMAIN result = D /\ most \in [D -> Int]
  BY <1>2
<1>8. \A i \in D : /\ zeros[i] = 0 /\ most[i] = W /\ prod[i] = count * w[i]
                   /\ extra[i] = IF i \in Early THEN 1 ELSE 0
                   /\ result[i] = fl[i] + extra[i]
  OBVIOUS
<1>9. before \in [D -> SUBSET D]
  OBVIOUS
<1>10. /\ \A i, j \in D : i # j => i \in before[j] \/ j \in before[i]
       /\ \A i, j \in D : i \in before[j] => before[i] \subseteq before[j]
       /\ \A i \in D : i \notin before[i]
  <2>1. \A i, j \in D : i \in before[j] <=> rs[i] > rs[j] \/ (rs[i] = rs[j] /\ i < j)
    OBVIOUS
  <2> HIDE DEF rs, W
  <2>2. \A i \in D : rs[i] \in Nat /\ before[i] \subseteq D
    BY <1>4
  <2> HIDE DEF before
  <2>3. \A i, j \in D : i # j => i \in before[j] \/ j \in before[i]
    BY <2>1, <2>2
  <2>4. ASSUME NEW i \in D, NEW j \in D, i \in before[j], NEW x \in before[i]
        PROVE  x \in before[j]
    <3>1. x \in D
      BY <2>2
    <3>2. rs[x] > rs[i] \/ (rs[x] = rs[i] /\ x < i)
      BY <2>1, <2>4, <3>1
    <3>3. rs[i] > rs[j] \/ (rs[i] = rs[j] /\ i < j)
      BY <2>1, <2>4
    <3>4. rs[x] \in Nat /\ rs[i] \in Nat /\ rs[j] \in Nat
      BY <2>2, <3>1
    <3>5. rs[x] > rs[j] \/ (rs[x] = rs[j] /\ x < j)
      BY <3>1, <3>2, <3>3, <3>4
    <3> QED
      BY <2>1, <3>1, <3>5
  <2>5. \A i \in D : i \notin before[i]
    BY <2>1, <2>2
  <2>6. \A i, j \in D : i \in before[j] => before[i] \subseteq before[j]
    BY <2>4
  <2> QED
    BY <2>3, <2>5, <2>6
<1> DEFINE R == Total(rs)
           L == Total(fl)
<1> HIDE DEF prod, fl, rs, before, extra, result, zeros, most
<1>11. SumFunction(zeros) = 0
  BY <1>1, <1>7, <1>8, SumOfNothing
<1>12. SumFunction(prod) = count * W
  <2>1. SumFunction(prod) = count * SumFunction(w) + SumFunction(zeros)
    <3>1. \A i \in D : w[i] \in Int /\ zeros[i] \in Int /\ prod[i] = count * w[i] + zeros[i]
      BY <1>3, <1>6, <1>8
    <3> QED
      BY <1>1, <1>7, <3>1, SumIsLinear DEF Linear
  <2>2. SumFunction(w) = W
    BY DEF Total
  <2>3. count * W \in Int
    BY <1>2, SMT
  <2> QED
    BY <1>11, <2>1, <2>2, <2>3
<1>13. SumFunction(prod) = W * L + R /\ L \in Int /\ R \in Int
  <2>1. \A i \in D : fl[i] \in Int /\ rs[i] \in Int /\ prod[i] = W * fl[i] + rs[i]
    BY <1>4
  <2>0. W \in Int
    BY <1>2
  <2> HIDE DEF W
  <2>a. \A i \in DOMAIN prod : fl[i] \in Int /\ rs[i] \in Int /\ prod[i] = W * fl[i] + rs[i]
    BY <1>7, <2>1
  <2>b. IsFiniteSet(DOMAIN prod) /\ DOMAIN fl = DOMAIN prod /\ DOMAIN rs = DOMAIN prod
    BY <1>1, <1>7
  <2>2. /\ SumFunction(fl) \in Int /\ SumFunction(rs) \in Int
        /\ SumFunction(prod) = W * SumFunction(fl) + SumFunction(rs)
    <3>1. Linear(prod, W, fl, rs)
      BY <2>0, <2>a, <2>b DEF Linear
    <3> QED
      BY <3>1, SumIsLinear
  <2> QED
    BY <2>2 DEF Total
<1>14. 0 <= R /\ R <= W * k
  <2>1. R \in Nat
    <3>1. \A i \in DOMAIN rs : rs[i] \in Nat
      BY <1>4, <1>7
    <3> QED
      BY <1>1, <1>7, <3>1, SumOfCounts DEF Total
  <2>2. SumFunction(rs) <= SumFunction(most)
    <3>1. \A i \in DOMAIN rs : rs[i] \in Int /\ most[i] \in Int /\ rs[i] <= most[i]
      BY <1>2, <1>4, <1>7, <1>8
    <3> QED
      BY <1>1, <1>7, <3>1, SumOfLess
  <2>3. SumFunction(most) = W * k
    <3>1. W \in Int /\ \A i \in 1 .. k : most[i] = W
      BY <1>2, <1>8
    <3>2. most \in [1 .. k -> Int]
      BY <1>7
    <3> HIDE DEF W
    <3> QED
      BY <3>1, <3>2, SumOfEqual
  <2> QED
    BY <2>1, <2>2, <2>3 DEF Total
<1>15. left \in Nat /\ left <= k
  <2>1. left = count - L /\ L \in Int
    BY <1>13
  <2> HIDE DEF W, L, R, left
  <2>2. W * (count - L) = R
    BY <1>2, <1>12, <1>13, <2>1, SMT
  <2>3. count - L < 0 => W * (count - L) < 0
    BY <1>2, <2>1, SMT
  <2>4. count - L > k => W * (count - L) > W * k
    BY <1>2, <2>1, SMT
  <2> QED
    BY <1>13, <1>14, <2>1, <2>2, <2>3, <2>4, <1>2
<1>16. Cardinality(Early) = left
  <2> HIDE DEF left
  <2> QED
    <3>1. Early = {i \in D : Cardinality(before[i]) < left}
      BY DEF left
    <3> HIDE DEF D, Early, before
    <3>2. Ranks(D, before)
      BY <1>1, <1>9, <1>10 DEF Ranks
    <3>3. Cardinality({i \in D : Cardinality(before[i]) < left}) = left
      BY <1>1, <1>15, <3>2, LowRanks
    <3> QED
      BY <3>1, <3>3
<1>17. SumFunction(extra) = left
  <2>1. Early \in SUBSET D
    OBVIOUS
  <2>a. \A i \in D : extra[i] = IF i \in Early THEN 1 ELSE 0
    BY <1>8
  <2>b. DOMAIN extra = D
    BY <1>7
  <2> HIDE DEF Early, D
  <2>2. SumFunction(extra) = Cardinality(Early)
    BY <1>1, <2>1, <2>a, <2>b, SumOfMembers
  <2> QED
    BY <1>16, <2>2
<1>18. SumFunction(result) = 1 * SumFunction(fl) + SumFunction(extra)
  <2>1. \A i \in D : fl[i] \in Int /\ extra[i] \in Int /\ result[i] = 1 * fl[i] + extra[i]
    BY <1>4, <1>8
  <2> QED
    BY <1>1, <1>7, <2>1, SumIsLinear DEF Linear
<1> QED
  BY <1>5, <1>13, <1>17, <1>18 DEF Total

\* A study that is not refused.
Accepted(c) == c \in Configs /\ ~Refused(c)

ChangedIn(c, x) ==
  {f \in DOMAIN x.payload : x.payload[f] # BaselinePayload(c, x.replicate)[f]}

MayChange(x) ==
  CASE x.parameter[1] = "peak" -> {"peaks"}
    [] x.parameter[1] = "residential" -> {"residential", "transport"}
    [] x.parameter[1] = "vehicles" -> {"vehicles", "people", "allocations"}
    [] x.parameter[1] = "entry" -> {"allocations"}
    [] x.parameter[1] = "choice" -> {"choice"}
    [] OTHER -> {}

\* What PlansSound says of a point, and whose seed it has.
PointSound(c, x) ==
  /\ x.replicate \in 0 .. (Replicates - 1)
  /\ x.payload.seed = Seed + x.replicate
  /\ ChangedIn(c, x) \subseteq MayChange(x)
  /\ x.payload.people = x.payload.vehicles + x.payload.residential + x.payload.transport
  /\ x.payload.residential >= 0 /\ x.payload.transport >= 0
  /\ Total(x.payload.allocations) = x.payload.vehicles
  /\ x.value = x.baseline /\ (\A i \in DOMAIN c.peaks : c.peaks[i] = c.other) =>
       ChangedIn(c, x) = {}

LEMMA ConfigTypes ==
  ASSUME NEW c, Accepted(c)
  PROVE  /\ c.vehicles \in Nat /\ c.pedestrians \in Int /\ c.residential \in Int
         /\ 0 <= c.residential /\ c.residential <= c.pedestrians
         /\ Len(c.peaks) \in Nat \ {0} /\ c.peaks \in [1 .. Len(c.peaks) -> Int]
         /\ c.enabled \subseteq Parameters
         /\ \A p \in Parameters : /\ c.span[p].first \in Int /\ c.span[p].last \in Int
                                  /\ c.span[p].step \in Nat \ {0}
BY PlanningAssumption DEF Accepted, Refused

\* Equal weights send every vehicle.
LEMMA EqualAllocations ==
  ASSUME NEW n \in Nat
  PROVE  Total(AllocateCounts(Equal, n)) = n
<1> DEFINE k == Len(Origins)
<1>1. k \in Nat \ {0} /\ Equal \in [1 .. k -> Nat] /\ Equal[1] > 0 /\ 1 \in 1 .. k
  BY PlanningAssumption DEF Equal
<1> HIDE DEF k
<1>2. Total(Equal) > 0
  BY <1>1, PositiveSum DEF Total
<1> QED
  BY <1>1, <1>2, AllocationsAddUp

\* So do the weights of an origin's share and the others' equal parts of the rest.
LEMMA ShareAllocations ==
  ASSUME NEW n \in Nat, Len(Origins) >= 2, NEW i \in DOMAIN Origins, NEW v \in 0 .. 100
  PROVE  Total(AllocateCounts(Shares(i, v), n)) = n
<1> DEFINE k == Len(Origins)
           w == Shares(i, v)
<1>1. k \in Nat /\ k >= 2 /\ DOMAIN Origins = 1 .. k /\ i \in 1 .. k
  BY PlanningAssumption
<1>2. w = [j \in 1 .. k |-> IF j = i THEN v * (k - 1) ELSE 100 - v]
  BY <1>1 DEF Shares
<1>3. v * (k - 1) \in Nat /\ 100 - v \in Nat /\ (v > 0 => v * (k - 1) > 0)
  BY <1>1, SMT
<1> HIDE DEF k, w
<1>4. w \in [1 .. k -> Nat]
  BY <1>2, <1>3
<1>5. \E j \in 1 .. k : w[j] > 0
  <2>1. CASE v > 0
    BY <2>1, <1>1, <1>2, <1>3
  <2>2. CASE v = 0
    <3>1. \E j \in 1 .. k : j # i
      BY <1>1
    <3> QED
      BY <2>2, <3>1, <1>2
  <2> QED
    BY <2>1, <2>2
<1>6. Total(w) > 0
  BY <1>1, <1>4, <1>5, PositiveSum DEF Total
<1>7. Total(AllocateCounts(w, n)) = n
  BY <1>1, <1>4, <1>6, AllocationsAddUp
<1> QED
  BY <1>7 DEF w

\* What there is to know of the baseline.
LEMMA Baseline ==
  ASSUME NEW c, Accepted(c), NEW r \in 0 .. (Replicates - 1), NEW b, b = BaselinePayload(c, r)
  PROVE  /\ b = [vehicles |-> b.vehicles, people |-> b.people, residential |-> b.residential,
                 transport |-> b.transport, peaks |-> b.peaks, choice |-> b.choice,
                 seed |-> b.seed, allocations |-> b.allocations]
         /\ b.seed = Seed + r /\ b.peaks = c.peaks /\ b.vehicles = c.vehicles
         /\ b.residential = c.residential /\ b.transport = c.pedestrians - c.residential
         /\ b.people = b.vehicles + c.pedestrians /\ b.choice = c.choice
         /\ b.people = b.vehicles + b.residential + b.transport
         /\ b.residential >= 0 /\ b.transport >= 0
         /\ b.allocations = AllocateCounts(Equal, c.vehicles)
         /\ Total(b.allocations) = b.vehicles
<1>1. /\ c.vehicles \in Nat /\ c.pedestrians \in Int /\ c.residential \in Int
      /\ 0 <= c.residential /\ c.residential <= c.pedestrians
  BY ConfigTypes
<1>2. Total(AllocateCounts(Equal, c.vehicles)) = c.vehicles
  BY <1>1, EqualAllocations
<1> HIDE DEF AllocateCounts, Total, Equal
<1>3. /\ b.seed = Seed + r /\ b.peaks = c.peaks /\ b.vehicles = c.vehicles
      /\ b.residential = c.residential /\ b.transport = c.pedestrians - c.residential
      /\ b.people = c.vehicles + c.pedestrians /\ b.choice = c.choice
      /\ b.allocations = AllocateCounts(Equal, c.vehicles)
  BY DEF BaselinePayload
<1>4. b = [vehicles |-> b.vehicles, people |-> b.people, residential |-> b.residential,
           transport |-> b.transport, peaks |-> b.peaks, choice |-> b.choice,
           seed |-> b.seed, allocations |-> b.allocations]
  BY DEF BaselinePayload
<1> QED
  BY <1>1, <1>2, <1>3, <1>4

\* What a payload may have been given in place of the baseline's.
LEMMA PeakSound ==
  ASSUME NEW c, Accepted(c), NEW r \in 0 .. (Replicates - 1), NEW x \in PeakPoints(c, r)
  PROVE  PointSound(c, x) /\ x.replicate = r
<1> DEFINE b == BaselinePayload(c, r)
<1>0. PICK i \in DOMAIN c.peaks : \E v \in Values(c, "peak", c.peaks[i]) :
        x = StudyPoint(<<"peak", i>>, v, c.peaks[i], r,
              [b EXCEPT !.peaks = [j \in DOMAIN @ |-> IF j = i THEN v ELSE c.other]])
  BY DEF PeakPoints
<1>1. PICK v \in Values(c, "peak", c.peaks[i]) :
        x = StudyPoint(<<"peak", i>>, v, c.peaks[i], r,
              [b EXCEPT !.peaks = [j \in DOMAIN @ |-> IF j = i THEN v ELSE c.other]])
  BY <1>0
<1> DEFINE q == [j \in DOMAIN b.peaks |-> IF j = i THEN v ELSE c.other]
<1>2. /\ x.parameter = <<"peak", i>> /\ x.value = v /\ x.baseline = c.peaks[i]
      /\ x.replicate = r /\ x.payload = [b EXCEPT !.peaks = q]
  BY <1>1 DEF StudyPoint
<1>3. /\ b = [vehicles |-> b.vehicles, people |-> b.people, residential |-> b.residential,
              transport |-> b.transport, peaks |-> b.peaks, choice |-> b.choice,
              seed |-> b.seed, allocations |-> b.allocations]
      /\ b.seed = Seed + r /\ b.peaks = c.peaks
      /\ b.people = b.vehicles + b.residential + b.transport
      /\ b.residential >= 0 /\ b.transport >= 0
      /\ Total(b.allocations) = b.vehicles
  BY Baseline
<1>4. v = c.peaks[i] /\ (\A j \in DOMAIN c.peaks : c.peaks[j] = c.other) => q = b.peaks
  <2>1. DOMAIN c.peaks = 1 .. Len(c.peaks) /\ c.peaks = [j \in DOMAIN c.peaks |-> c.peaks[j]]
    BY ConfigTypes
  <2> QED
    BY <1>3, <2>1
<1> HIDE DEF b, q
<1>5. MayChange(x) = {"peaks"}
  <2>1. x.parameter[1] = "peak"
    BY <1>2
  <2> QED
    BY <2>1 DEF MayChange
<1>6. /\ x.payload.seed = b.seed /\ x.payload.people = b.people
      /\ x.payload.vehicles = b.vehicles /\ x.payload.residential = b.residential
      /\ x.payload.transport = b.transport /\ x.payload.allocations = b.allocations
  BY <1>2, <1>3
<1>7. ChangedIn(c, x) \subseteq {"peaks"} /\ (q = b.peaks => ChangedIn(c, x) = {})
  <2>1. \A f \in DOMAIN x.payload : f # "peaks" => x.payload[f] = b[f]
    BY <1>2
  <2>2. q = b.peaks => \A f \in DOMAIN x.payload : x.payload[f] = b[f]
    BY <1>2, <1>3
  <2>3. ChangedIn(c, x) = {f \in DOMAIN x.payload : x.payload[f] # b[f]}
    BY <1>2 DEF ChangedIn, b
  <2> QED
    BY <2>1, <2>2, <2>3
<1> QED
  BY <1>2, <1>3, <1>4, <1>5, <1>6, <1>7 DEF PointSound

LEMMA ResidentialSound ==
  ASSUME NEW c, Accepted(c), "residential" \in c.enabled,
         NEW r \in 0 .. (Replicates - 1), NEW x \in ResidentialPoints(c, r)
  PROVE  PointSound(c, x) /\ x.replicate = r
<1> DEFINE b == BaselinePayload(c, r)
<1>1. PICK v \in Values(c, "residential", c.residential) :
        x = StudyPoint(<<"residential">>, v, c.residential, r,
              [b EXCEPT !.residential = v, !.transport = c.pedestrians - v])
  BY DEF ResidentialPoints
<1>2. /\ x.parameter = <<"residential">> /\ x.value = v /\ x.baseline = c.residential
      /\ x.replicate = r
      /\ x.payload = [b EXCEPT !.residential = v, !.transport = c.pedestrians - v]
  BY <1>1 DEF StudyPoint
<1>3. /\ b = [vehicles |-> b.vehicles, people |-> b.people, residential |-> b.residential,
              transport |-> b.transport, peaks |-> b.peaks, choice |-> b.choice,
              seed |-> b.seed, allocations |-> b.allocations]
      /\ b.seed = Seed + r /\ b.people = b.vehicles + c.pedestrians
      /\ b.residential = c.residential /\ b.transport = c.pedestrians - c.residential
      /\ Total(b.allocations) = b.vehicles /\ b.vehicles = c.vehicles
  BY Baseline
<1>4. c.vehicles \in Nat /\ c.pedestrians \in Int /\ c.residential \in Int
  BY ConfigTypes
<1>5. v \in Int /\ 0 <= v /\ v <= c.pedestrians
  <2>1. ~(v < 0 \/ v > c.pedestrians)
    BY DEF Accepted, Refused
  <2>2. v \in Int
    <3>1. /\ c.span["residential"].first \in Int /\ c.span["residential"].last \in Int
      BY ConfigTypes DEF Parameters
    <3> QED
      BY <1>4, <3>1 DEF Values, NumericValues
  <2> QED
    BY <1>4, <2>1, <2>2
<1> HIDE DEF b
<1>6. MayChange(x) = {"residential", "transport"}
  <2>1. x.parameter[1] = "residential"
    BY <1>2
  <2> QED
    BY <2>1 DEF MayChange
<1>7. /\ x.payload.seed = b.seed /\ x.payload.people = b.people
      /\ x.payload.vehicles = b.vehicles /\ x.payload.residential = v
      /\ x.payload.transport = c.pedestrians - v /\ x.payload.allocations = b.allocations
  BY <1>2, <1>3
<1>8. ChangedIn(c, x) \subseteq {"residential", "transport"}
      /\ (v = c.residential => ChangedIn(c, x) = {})
  <2>1. \A f \in DOMAIN x.payload : f \notin {"residential", "transport"} => x.payload[f] = b[f]
    BY <1>2
  <2>2. v = c.residential => \A f \in DOMAIN x.payload : x.payload[f] = b[f]
    <3> SUFFICES ASSUME v = c.residential PROVE \A f \in DOMAIN x.payload : x.payload[f] = b[f]
      OBVIOUS
    <3>1. x.payload["residential"] = b["residential"] /\ x.payload["transport"] = b["transport"]
      BY <1>3, <1>7
    <3> QED
      BY <2>1, <3>1
  <2>3. ChangedIn(c, x) = {f \in DOMAIN x.payload : x.payload[f] # b[f]}
    BY <1>2 DEF ChangedIn, b
  <2> QED
    BY <2>1, <2>2, <2>3
<1> QED
  BY <1>2, <1>3, <1>4, <1>5, <1>6, <1>7, <1>8 DEF PointSound

LEMMA VehiclesSound ==
  ASSUME NEW c, Accepted(c), "vehicles" \in c.enabled,
         NEW r \in 0 .. (Replicates - 1), NEW x \in VehiclePoints(c, r)
  PROVE  PointSound(c, x) /\ x.replicate = r
<1> DEFINE b == BaselinePayload(c, r)
<1>1. PICK v \in Values(c, "vehicles", c.vehicles) :
        x = StudyPoint(<<"vehicles">>, v, c.vehicles, r, UpdateVehicleCount(b, c, v))
  BY DEF VehiclePoints
<1>2. /\ x.parameter = <<"vehicles">> /\ x.value = v /\ x.baseline = c.vehicles
      /\ x.replicate = r
      /\ x.payload = [b EXCEPT !.vehicles = v, !.people = c.pedestrians + v,
                               !.allocations = AllocateCounts(Equal, v)]
  BY <1>1 DEF StudyPoint, UpdateVehicleCount
<1>3. /\ b = [vehicles |-> b.vehicles, people |-> b.people, residential |-> b.residential,
              transport |-> b.transport, peaks |-> b.peaks, choice |-> b.choice,
              seed |-> b.seed, allocations |-> b.allocations]
      /\ b.seed = Seed + r /\ b.people = b.vehicles + c.pedestrians
      /\ b.residential = c.residential /\ b.transport = c.pedestrians - c.residential
      /\ b.residential >= 0 /\ b.transport >= 0
      /\ b.vehicles = c.vehicles /\ b.allocations = AllocateCounts(Equal, c.vehicles)
  BY Baseline
<1>4. c.vehicles \in Nat /\ c.pedestrians \in Int /\ c.residential \in Int
  BY ConfigTypes
<1>5. v \in Nat
  <2>1. ~(v < 0)
    BY DEF Accepted, Refused
  <2>2. v \in Int
    <3>1. /\ c.span["vehicles"].first \in Int /\ c.span["vehicles"].last \in Int
      BY ConfigTypes DEF Parameters
    <3> QED
      BY <1>4, <3>1 DEF Values, NumericValues
  <2> QED
    BY <2>1, <2>2
<1> DEFINE q == AllocateCounts(Equal, v)
<1>a. Total(q) = v
  BY <1>5, EqualAllocations
<1> HIDE DEF b, q
<1>6. MayChange(x) = {"vehicles", "people", "allocations"}
  <2>1. x.parameter[1] = "vehicles"
    BY <1>2
  <2> QED
    BY <2>1 DEF MayChange
<1>b. x.payload = [b EXCEPT !.vehicles = v, !.people = c.pedestrians + v, !.allocations = q]
  BY <1>2 DEF q
<1>c. v = c.vehicles => q = b.allocations
  BY <1>3 DEF q
<1>7. /\ x.payload.seed = b.seed /\ x.payload.people = c.pedestrians + v
      /\ x.payload.vehicles = v /\ x.payload.residential = b.residential
      /\ x.payload.transport = b.transport /\ x.payload.allocations = q
  BY <1>b, <1>3
<1>8. ChangedIn(c, x) \subseteq {"vehicles", "people", "allocations"}
      /\ (v = c.vehicles => ChangedIn(c, x) = {})
  <2>1. \A f \in DOMAIN x.payload :
          f \notin {"vehicles", "people", "allocations"} => x.payload[f] = b[f]
    BY <1>b
  <2>2. v = c.vehicles => \A f \in DOMAIN x.payload : x.payload[f] = b[f]
    <3> SUFFICES ASSUME v = c.vehicles PROVE \A f \in DOMAIN x.payload : x.payload[f] = b[f]
      OBVIOUS
    <3>1. x.payload["vehicles"] = b["vehicles"] /\ x.payload["allocations"] = b["allocations"]
      BY <1>3, <1>7, <1>c
    <3>2. x.payload["people"] = b["people"]
      BY <1>3, <1>4, <1>7
    <3> QED
      BY <2>1, <3>1, <3>2
  <2>3. ChangedIn(c, x) = {f \in DOMAIN x.payload : x.payload[f] # b[f]}
    BY <1>2 DEF ChangedIn, b
  <2> QED
    BY <2>1, <2>2, <2>3
<1>9. c.pedestrians + v = v + b.residential + b.transport
  BY <1>3, <1>4, <1>5
<1> QED
  BY <1>2, <1>3, <1>5, <1>6, <1>7, <1>8, <1>9, <1>a DEF PointSound

LEMMA EntriesSound ==
  ASSUME NEW c, Accepted(c), "entry" \in c.enabled,
         NEW r \in 0 .. (Replicates - 1), NEW x \in EntryPoints(c, r)
  PROVE  PointSound(c, x) /\ x.replicate = r
<1> DEFINE b == BaselinePayload(c, r)
<1>1. PICK i \in DOMAIN Origins, v \in Values(c, "entry", 0) :
        x = StudyPoint(<<"entry", i>>, v, 0, r,
              [b EXCEPT !.allocations =
                 AllocateCounts(IF v = 0 THEN Equal ELSE Shares(i, v), c.vehicles)])
  BY DEF EntryPoints
<1> DEFINE q == AllocateCounts(IF v = 0 THEN Equal ELSE Shares(i, v), c.vehicles)
<1>2. /\ x.parameter = <<"entry", i>> /\ x.value = v /\ x.baseline = 0
      /\ x.replicate = r /\ x.payload = [b EXCEPT !.allocations = q]
  BY <1>1 DEF StudyPoint
<1>3. /\ b = [vehicles |-> b.vehicles, people |-> b.people, residential |-> b.residential,
              transport |-> b.transport, peaks |-> b.peaks, choice |-> b.choice,
              seed |-> b.seed, allocations |-> b.allocations]
      /\ b.seed = Seed + r /\ b.people = b.vehicles + b.residential + b.transport
      /\ b.residential >= 0 /\ b.transport >= 0
      /\ b.vehicles = c.vehicles /\ b.allocations = AllocateCounts(Equal, c.vehicles)
  BY Baseline
<1>4. v \in 0 .. 100 /\ Len(Origins) >= 2
  <2>1. ~(v < 0 \/ v > 100) /\ ~(Len(Origins) < 2)
    BY DEF Accepted, Refused
  <2>2. v \in Int
    <3>1. /\ c.span["entry"].first \in Int /\ c.span["entry"].last \in Int
      BY ConfigTypes DEF Parameters
    <3> QED
      BY <3>1 DEF Values, NumericValues
  <2> QED
    BY <2>1, <2>2, PlanningAssumption
<1>5. Total(q) = c.vehicles
  <2>1. c.vehicles \in Nat
    BY ConfigTypes
  <2>2. Total(AllocateCounts(Equal, c.vehicles)) = c.vehicles
    BY <2>1, EqualAllocations
  <2>3. Total(AllocateCounts(Shares(i, v), c.vehicles)) = c.vehicles
    BY <1>4, <2>1, ShareAllocations
  <2> QED
    BY <2>2, <2>3
<1>6. v = 0 => q = b.allocations
  BY <1>3
<1> HIDE DEF b, q
<1>7. MayChange(x) = {"allocations"}
  <2>1. x.parameter[1] = "entry"
    BY <1>2
  <2> QED
    BY <2>1 DEF MayChange
<1>8. /\ x.payload.seed = b.seed /\ x.payload.people = b.people
      /\ x.payload.vehicles = b.vehicles /\ x.payload.residential = b.residential
      /\ x.payload.transport = b.transport /\ x.payload.allocations = q
  BY <1>2, <1>3
<1>9. ChangedIn(c, x) \subseteq {"allocations"} /\ (q = b.allocations => ChangedIn(c, x) = {})
  <2>1. \A f \in DOMAIN x.payload : f # "allocations" => x.payload[f] = b[f]
    BY <1>2
  <2>2. q = b.allocations => \A f \in DOMAIN x.payload : x.payload[f] = b[f]
    BY <1>2, <1>3
  <2>3. ChangedIn(c, x) = {f \in DOMAIN x.payload : x.payload[f] # b[f]}
    BY <1>2 DEF ChangedIn, b
  <2> QED
    BY <2>1, <2>2, <2>3
<1> QED
  BY <1>2, <1>3, <1>5, <1>6, <1>7, <1>8, <1>9 DEF PointSound

LEMMA ChoicesSound ==
  ASSUME NEW c, Accepted(c), NEW r \in 0 .. (Replicates - 1), NEW x \in ChoicePoints(c, r)
  PROVE  PointSound(c, x) /\ x.replicate = r
<1> DEFINE b == BaselinePayload(c, r)
<1>1. PICK v \in Values(c, "choice", c.choice) :
        x = StudyPoint(<<"choice">>, v, c.choice, r, [b EXCEPT !.choice = v])
  BY DEF ChoicePoints
<1>2. /\ x.parameter = <<"choice">> /\ x.value = v /\ x.baseline = c.choice
      /\ x.replicate = r /\ x.payload = [b EXCEPT !.choice = v]
  BY <1>1 DEF StudyPoint
<1>3. /\ b = [vehicles |-> b.vehicles, people |-> b.people, residential |-> b.residential,
              transport |-> b.transport, peaks |-> b.peaks, choice |-> b.choice,
              seed |-> b.seed, allocations |-> b.allocations]
      /\ b.seed = Seed + r /\ b.choice = c.choice
      /\ b.people = b.vehicles + b.residential + b.transport
      /\ b.residential >= 0 /\ b.transport >= 0
      /\ Total(b.allocations) = b.vehicles
  BY Baseline
<1> HIDE DEF b
<1>4. MayChange(x) = {"choice"}
  <2>1. x.parameter[1] = "choice"
    BY <1>2
  <2> QED
    BY <2>1 DEF MayChange
<1>5. /\ x.payload.seed = b.seed /\ x.payload.people = b.people
      /\ x.payload.vehicles = b.vehicles /\ x.payload.residential = b.residential
      /\ x.payload.transport = b.transport /\ x.payload.allocations = b.allocations
  BY <1>2, <1>3
<1>6. ChangedIn(c, x) \subseteq {"choice"} /\ (v = c.choice => ChangedIn(c, x) = {})
  <2>1. \A f \in DOMAIN x.payload : f # "choice" => x.payload[f] = b[f]
    BY <1>2
  <2>2. v = c.choice => \A f \in DOMAIN x.payload : x.payload[f] = b[f]
    BY <1>2, <1>3
  <2>3. ChangedIn(c, x) = {f \in DOMAIN x.payload : x.payload[f] # b[f]}
    BY <1>2 DEF ChangedIn, b
  <2> QED
    BY <2>1, <2>2, <2>3
<1> QED
  BY <1>2, <1>3, <1>4, <1>5, <1>6 DEF PointSound

BaselinePoint(c, r) == StudyPoint(<<"baseline">>, 0, 0, r, BaselinePayload(c, r))

LEMMA BaselinePointSound ==
  ASSUME NEW c, Accepted(c), NEW r \in 0 .. (Replicates - 1), NEW x, x = BaselinePoint(c, r)
  PROVE  PointSound(c, x) /\ x.replicate = r
<1> DEFINE b == BaselinePayload(c, r)
<1>1. x.parameter = <<"baseline">> /\ x.replicate = r /\ x.payload = b
  BY DEF StudyPoint, BaselinePoint
<1>2. /\ b.seed = Seed + r /\ b.people = b.vehicles + b.residential + b.transport
      /\ b.residential >= 0 /\ b.transport >= 0 /\ Total(b.allocations) = b.vehicles
  BY Baseline
<1>3. ChangedIn(c, x) = {}
  BY <1>1 DEF ChangedIn
<1> HIDE DEF b
<1> QED
  BY <1>1, <1>2, <1>3 DEF PointSound

\* The points of a replicate.
PointsOf(c, r) ==
  {BaselinePoint(c, r)}
    \cup (IF "peak" \in c.enabled THEN PeakPoints(c, r) ELSE {})
    \cup (IF "residential" \in c.enabled THEN ResidentialPoints(c, r) ELSE {})
    \cup (IF "vehicles" \in c.enabled THEN VehiclePoints(c, r) ELSE {})
    \cup (IF "entry" \in c.enabled THEN EntryPoints(c, r) ELSE {})
    \cup (IF "choice" \in c.enabled THEN ChoicePoints(c, r) ELSE {})

AllPoints(c) == UNION {PointsOf(c, r) : r \in 0 .. (Replicates - 1)}

LEMMA PlanPoints ==
  ASSUME NEW c
  PROVE  /\ Plan(c).points = AllPoints(c)
         /\ Plan(c).runs = [p \in {x.payload : x \in AllPoints(c)} |->
                              {x \in AllPoints(c) : x.payload = p}]
BY DEF Plan, AllPoints, PointsOf, BaselinePoint

LEMMA EveryPointSound ==
  ASSUME NEW c, Accepted(c), NEW x \in AllPoints(c)
  PROVE  PointSound(c, x)
<1>1. PICK r \in 0 .. (Replicates - 1) : x \in PointsOf(c, r)
  BY DEF AllPoints
<1> QED
  BY <1>1, BaselinePointSound, PeakSound, ResidentialSound, VehiclesSound, EntriesSound,
     ChoicesSound DEF PointsOf

\* An experiment has finitely many values, the baseline's among them.
LEMMA ValuesOf ==
  ASSUME NEW c, Accepted(c), NEW p \in Parameters, NEW v
  PROVE  v \in Values(c, p, v) /\ IsFiniteSet(Values(c, p, v))
<1> DEFINE s == c.span[p]
           V == {u \in s.first .. s.last : (u - s.first) % s.step = 0}
<1>1. s.first \in Int /\ s.last \in Int
  BY ConfigTypes
<1>2. IsFiniteSet(V)
  <2>1. IsFiniteSet(s.first .. s.last) /\ V \in SUBSET (s.first .. s.last)
    BY <1>1, FS_Interval
  <2> QED
    BY <2>1, FS_Subset
<1>3. Values(c, p, v) = (V \cup {s.last}) \cup {v}
  BY DEF Values, NumericValues
<1> HIDE DEF V
<1>4. IsFiniteSet((V \cup {s.last}) \cup {v})
  BY <1>2, FS_AddElement
<1> QED
  BY <1>3, <1>4

LEMMA FinitePoints ==
  ASSUME NEW c, Accepted(c)
  PROVE  IsFiniteSet(AllPoints(c))
<1>1. ASSUME NEW r \in 0 .. (Replicates - 1)
      PROVE  IsFiniteSet(PointsOf(c, r))
  <2> DEFINE b == BaselinePayload(c, r)
  <2>1. "peak" \in c.enabled => IsFiniteSet(PeakPoints(c, r))
    <3> DEFINE PeakPoint(i, v) ==
                 StudyPoint(<<"peak", i>>, v, c.peaks[i], r,
                   [b EXCEPT !.peaks = [j \in DOMAIN @ |-> IF j = i THEN v ELSE c.other]])
               Of(i) == {PeakPoint(i, v) : v \in Values(c, "peak", c.peaks[i])}
               all == [i \in DOMAIN c.peaks |-> Of(i)]
    <3>1. PeakPoints(c, r) = UNION {Of(i) : i \in DOMAIN c.peaks}
      BY DEF PeakPoints
    <3>2. ASSUME NEW i \in DOMAIN c.peaks PROVE IsFiniteSet(Of(i))
      <4> DEFINE V == Values(c, "peak", c.peaks[i])
                 f == [v \in V |-> PeakPoint(i, v)]
      <4>1. IsFiniteSet(V)
        BY ValuesOf DEF Parameters
      <4>2. \A y \in Of(i) : \E v \in V : y = f[v]
        OBVIOUS
      <4> HIDE DEF V, f, Of
      <4> QED
        BY <4>1, <4>2, ImageFinite
    <3>3. IsFiniteSet(DOMAIN c.peaks)
      BY ConfigTypes, FS_Interval
    <3>4. \A y \in {Of(i) : i \in DOMAIN c.peaks} : \E i \in DOMAIN c.peaks : y = all[i]
      OBVIOUS
    <3>5. \A y \in {Of(i) : i \in DOMAIN c.peaks} : IsFiniteSet(y)
      BY <3>2
    <3> HIDE DEF all, Of
    <3>6. IsFiniteSet({Of(i) : i \in DOMAIN c.peaks})
      BY <3>3, <3>4, ImageFinite
    <3> QED
      BY <3>1, <3>5, <3>6, FS_UNION
  <2>2. IsFiniteSet(ResidentialPoints(c, r))
    <3> DEFINE V == Values(c, "residential", c.residential)
               f == [v \in V |->
                       StudyPoint(<<"residential">>, v, c.residential, r,
                         [b EXCEPT !.residential = v, !.transport = c.pedestrians - v])]
    <3>1. IsFiniteSet(V)
      BY ValuesOf DEF Parameters
    <3>2. \A y \in ResidentialPoints(c, r) : \E v \in V : y = f[v]
      BY DEF ResidentialPoints
    <3> HIDE DEF V, f
    <3> QED
      BY <3>1, <3>2, ImageFinite
  <2>3. IsFiniteSet(VehiclePoints(c, r))
    <3> DEFINE V == Values(c, "vehicles", c.vehicles)
               f == [v \in V |->
                       StudyPoint(<<"vehicles">>, v, c.vehicles, r, UpdateVehicleCount(b, c, v))]
    <3>1. IsFiniteSet(V)
      BY ValuesOf DEF Parameters
    <3>2. \A y \in VehiclePoints(c, r) : \E v \in V : y = f[v]
      BY DEF VehiclePoints
    <3> HIDE DEF V, f
    <3> QED
      BY <3>1, <3>2, ImageFinite
  <2>4. IsFiniteSet(EntryPoints(c, r))
    <3> DEFINE V == Values(c, "entry", 0)
               EntryPoint(i, v) ==
                 StudyPoint(<<"entry", i>>, v, 0, r,
                   [b EXCEPT !.allocations =
                      AllocateCounts(IF v = 0 THEN Equal ELSE Shares(i, v), c.vehicles)])
               f == [z \in (DOMAIN Origins) \X V |-> EntryPoint(z[1], z[2])]
    <3>1. IsFiniteSet((DOMAIN Origins) \X V)
      <4>1. IsFiniteSet(V)
        BY ValuesOf DEF Parameters
      <4>2. IsFiniteSet(DOMAIN Origins)
        BY PlanningAssumption, FS_Interval
      <4> HIDE DEF V
      <4> QED
        BY <4>1, <4>2, FS_Product
    <3>2. ASSUME NEW y \in EntryPoints(c, r)
          PROVE  \E z \in (DOMAIN Origins) \X V : y = f[z]
      <4>1. PICK i \in DOMAIN Origins, v \in V : y = EntryPoint(i, v)
        BY DEF EntryPoints
      <4>2. <<i, v>> \in (DOMAIN Origins) \X V
        BY <4>1
      <4> HIDE DEF V, EntryPoint
      <4>3. f[<<i, v>>] = EntryPoint(i, v)
        BY <4>2
      <4> QED
        BY <4>1, <4>2, <4>3
    <3> HIDE DEF V, f
    <3> QED
      BY <3>1, <3>2, ImageFinite
  <2>5. IsFiniteSet(ChoicePoints(c, r))
    <3> DEFINE V == Values(c, "choice", c.choice)
               f == [v \in V |->
                       StudyPoint(<<"choice">>, v, c.choice, r, [b EXCEPT !.choice = v])]
    <3>1. IsFiniteSet(V)
      BY ValuesOf DEF Parameters
    <3>2. \A y \in ChoicePoints(c, r) : \E v \in V : y = f[v]
      BY DEF ChoicePoints
    <3> HIDE DEF V, f
    <3> QED
      BY <3>1, <3>2, ImageFinite
  <2>6. \A x : IsFiniteSet({x})
    BY FS_Singleton
  <2>7. \A S, T : IsFiniteSet(S) /\ IsFiniteSet(T) => IsFiniteSet(S \cup T)
    BY FS_Union
  <2> QED
    BY <2>1, <2>2, <2>3, <2>4, <2>5, <2>6, <2>7, FS_EmptySet DEF PointsOf
<1> DEFINE f == [r \in 0 .. (Replicates - 1) |-> PointsOf(c, r)]
           S == {PointsOf(c, r) : r \in 0 .. (Replicates - 1)}
<1>2. IsFiniteSet(0 .. (Replicates - 1))
  BY PlanningAssumption, FS_Interval
<1>3. \A y \in S : \E r \in 0 .. (Replicates - 1) : y = f[r]
  OBVIOUS
<1>4. \A y \in S : IsFiniteSet(y)
  BY <1>1
<1>5. AllPoints(c) = UNION S
  BY DEF AllPoints
<1> HIDE DEF f, S
<1>6. IsFiniteSet(S)
  BY <1>2, <1>3, ImageFinite
<1> QED
  BY <1>4, <1>5, <1>6, FS_UNION

\* Every experiment tries the value of the baseline, in every replicate.
LEMMA BaselineTried ==
  ASSUME NEW c, Accepted(c), NEW p \in c.enabled, NEW r \in 0 .. (Replicates - 1)
  PROVE  \E x \in AllPoints(c) : /\ x.parameter[1] = p /\ x.replicate = r
                                 /\ x.value = x.baseline
<1> DEFINE b == BaselinePayload(c, r)
<1>1. p \in Parameters
  BY ConfigTypes
<1>2. SUFFICES \E x \in PointsOf(c, r) : /\ x.parameter[1] = p /\ x.replicate = r
                                         /\ x.value = x.baseline
  BY DEF AllPoints
<1>3. \A q, v, d : LET x == StudyPoint(q, v, v, r, d)
                   IN  x.parameter = q /\ x.replicate = r /\ x.value = x.baseline
  BY DEF StudyPoint
<1>4. CASE p = "peak"
  <2>1. 1 \in DOMAIN c.peaks /\ c.peaks[1] \in Values(c, "peak", c.peaks[1])
    BY ConfigTypes, ValuesOf DEF Parameters
  <2> DEFINE x == StudyPoint(<<"peak", 1>>, c.peaks[1], c.peaks[1], r,
                    [b EXCEPT !.peaks =
                       [j \in DOMAIN @ |-> IF j = 1 THEN c.peaks[1] ELSE c.other]])
  <2>2. x \in PeakPoints(c, r)
    <3> DEFINE Of(i) ==
                 {StudyPoint(<<"peak", i>>, v, c.peaks[i], r,
                    [b EXCEPT !.peaks = [j \in DOMAIN @ |-> IF j = i THEN v ELSE c.other]])
                    : v \in Values(c, "peak", c.peaks[i])}
    <3>1. x \in Of(1)
      BY <2>1
    <3>2. PeakPoints(c, r) = UNION {Of(i) : i \in DOMAIN c.peaks}
      BY DEF PeakPoints
    <3>3. Of(1) \in {Of(i) : i \in DOMAIN c.peaks}
      BY <2>1
    <3> HIDE DEF x, Of
    <3> QED
      BY <3>1, <3>2, <3>3
  <2>3. x.parameter = <<"peak", 1>> /\ x.replicate = r /\ x.value = x.baseline
    BY <1>3
  <2> HIDE DEF x
  <2> QED
    BY <1>4, <2>2, <2>3 DEF PointsOf
<1>5. CASE p = "residential"
  <2> DEFINE x == StudyPoint(<<"residential">>, c.residential, c.residential, r,
                    [b EXCEPT !.residential = c.residential,
                              !.transport = c.pedestrians - c.residential])
  <2>1. c.residential \in Values(c, "residential", c.residential)
    BY ValuesOf DEF Parameters
  <2>2. x \in ResidentialPoints(c, r)
    BY <2>1 DEF ResidentialPoints
  <2>3. x.parameter = <<"residential">> /\ x.replicate = r /\ x.value = x.baseline
    BY <1>3
  <2> HIDE DEF x
  <2> QED
    BY <1>5, <2>2, <2>3 DEF PointsOf
<1>6. CASE p = "vehicles"
  <2> DEFINE x == StudyPoint(<<"vehicles">>, c.vehicles, c.vehicles, r,
                    UpdateVehicleCount(b, c, c.vehicles))
  <2>1. c.vehicles \in Values(c, "vehicles", c.vehicles)
    BY ValuesOf DEF Parameters
  <2>2. x \in VehiclePoints(c, r)
    BY <2>1 DEF VehiclePoints
  <2>3. x.parameter = <<"vehicles">> /\ x.replicate = r /\ x.value = x.baseline
    BY <1>3
  <2> HIDE DEF x
  <2> QED
    BY <1>6, <2>2, <2>3 DEF PointsOf
<1>7. CASE p = "entry"
  <2> DEFINE Given(v) == [b EXCEPT !.allocations =
                            AllocateCounts(IF v = 0 THEN Equal ELSE Shares(1, v), c.vehicles)]
             x == StudyPoint(<<"entry", 1>>, 0, 0, r, Given(0))
  <2>1. 1 \in DOMAIN Origins /\ 0 \in Values(c, "entry", 0)
    BY PlanningAssumption, ValuesOf DEF Parameters
  <2>2. x \in EntryPoints(c, r)
    BY <2>1 DEF EntryPoints
  <2>3. x.parameter = <<"entry", 1>> /\ x.replicate = r /\ x.value = x.baseline
    BY <1>3
  <2> HIDE DEF x
  <2> QED
    BY <1>7, <2>2, <2>3 DEF PointsOf
<1>8. CASE p = "choice"
  <2> DEFINE x == StudyPoint(<<"choice">>, c.choice, c.choice, r,
                    [b EXCEPT !.choice = c.choice])
  <2>1. c.choice \in Values(c, "choice", c.choice)
    BY ValuesOf DEF Parameters
  <2>2. x \in ChoicePoints(c, r)
    BY <2>1 DEF ChoicePoints
  <2>3. x.parameter = <<"choice">> /\ x.replicate = r /\ x.value = x.baseline
    BY <1>3
  <2> HIDE DEF x
  <2> QED
    BY <1>8, <2>2, <2>3 DEF PointsOf
<1> QED
  BY <1>1, <1>4, <1>5, <1>6, <1>7, <1>8 DEF Parameters

\* A plan keeps its promises.
LEMMA PlanSound ==
  ASSUME NEW c, Accepted(c), question.of = c, answer = Plan(c)
  PROVE  PlansSound
<1> DEFINE P == AllPoints(c)
           K == {x.payload : x \in P}
           runs == [p \in K |-> {x \in P : x.payload = p}]
<1>1. answer.points = P /\ answer.runs = runs
  BY PlanPoints
<1>2. \A x \in P : PointSound(c, x)
  BY EveryPointSound
<1>3. \A p \in c.enabled : \A r \in 0 .. (Replicates - 1) :
        \E x \in P : x.parameter[1] = p /\ x.replicate = r /\ x.value = x.baseline
  BY BaselineTried
<1>4. IsFiniteSet(P)
  BY FinitePoints
<1> HIDE DEF P
<1>5. \A p \in DOMAIN runs : Cardinality({x.replicate : x \in runs[p]}) = 1
  <2> SUFFICES ASSUME NEW p \in K PROVE Cardinality({x.replicate : x \in runs[p]}) = 1
    OBVIOUS
  <2>1. PICK y \in P : y.payload = p
    OBVIOUS
  <2>2. \A x \in runs[p] : x.replicate = y.replicate
    <3> SUFFICES ASSUME NEW x \in P, x.payload = p PROVE x.replicate = y.replicate
      OBVIOUS
    <3>1. /\ x.replicate \in Int /\ p.seed = Seed + x.replicate
          /\ y.replicate \in Int /\ p.seed = Seed + y.replicate
      BY <1>2, <2>1 DEF PointSound
    <3>2. Seed \in Int
      BY PlanningAssumption
    <3> QED
      BY <3>1, <3>2
  <2>3. y \in runs[p]
    BY <2>1
  <2>4. {x.replicate : x \in runs[p]} = {y.replicate}
    BY <2>2, <2>3
  <2> QED
    BY <2>4, FS_Singleton
<1>6. Cardinality(P) = SumFunction([p \in DOMAIN runs |-> Cardinality(runs[p])])
  <2> DEFINE key == [x \in P |-> x.payload]
             g == [p \in K |-> Cardinality(runs[p])]
  <2>1. IsFiniteSet(K)
    <3>1. \A p \in K : \E x \in P : p = key[x]
      OBVIOUS
    <3> HIDE DEF K, key
    <3> QED
      BY <1>4, <3>1, ImageFinite
  <2>2. /\ \A x \in P : key[x] \in K
        /\ \A p \in K : \A x : x \in runs[p] <=> x \in P /\ key[x] = p
    OBVIOUS
  <2>3. DOMAIN runs = K
    OBVIOUS
  <2>4. Sorted(P, K, key, runs, g)
    <3> HIDE DEF K, key, runs
    <3> QED
      BY <1>4, <2>1, <2>2 DEF Sorted
  <2> HIDE DEF K, key, runs
  <2>5. SumFunction(g) = Cardinality(P)
    <3> HIDE DEF g
    <3> QED
      BY <2>4, CountByKey
  <2> QED
    BY <2>3, <2>5
<1> HIDE DEF runs, K
<1>7. ASSUME NEW x \in P
      PROVE  LET base(y) == BaselinePayload(c, y.replicate)
                 Changed(y) == {f \in DOMAIN y.payload : y.payload[f] # base(y)[f]}
                 May(y) == CASE y.parameter[1] = "peak" -> {"peaks"}
                    [] y.parameter[1] = "residential" -> {"residential", "transport"}
                    [] y.parameter[1] = "vehicles" -> {"vehicles", "people", "allocations"}
                    [] y.parameter[1] = "entry" -> {"allocations"}
                    [] y.parameter[1] = "choice" -> {"choice"}
                    [] OTHER -> {}
             IN  /\ Changed(x) \subseteq May(x)
                 /\ x.payload.people =
                      x.payload.vehicles + x.payload.residential + x.payload.transport
                 /\ x.payload.residential >= 0 /\ x.payload.transport >= 0
                 /\ Total(x.payload.allocations) = x.payload.vehicles
                 /\ x.value = x.baseline /\ (\A i \in DOMAIN c.peaks : c.peaks[i] = c.other) =>
                      Changed(x) = {}
  <2>1. PointSound(c, x)
    BY <1>2
  <2> QED
    BY <2>1 DEF PointSound, ChangedIn, MayChange
<1> QED
  BY <1>1, <1>3, <1>5, <1>6, <1>7 DEF PlansSound

\* What an answer about a study is.
Planned ==
  question.kind = "study" =>
    /\ question.of \in Configs
    /\ answer # Pending => ~Refused(question.of) /\ answer = Plan(question.of)

\* The plan of a sensitivity study that is not refused (build_plan) changes one
\* parameter at a time, tries every baseline value and asks for people who add
\* up, in runs that share no point.
THEOREM PlansSoundHolds == PlanningSpec => []PlansSound
<1>1. PlanningInit => Planned
  BY DEF PlanningInit, Planned
<1>2. Planned /\ [PlanningNext]_planningVars => Planned'
  <2> SUFFICES ASSUME Planned, [PlanningNext]_planningVars PROVE Planned'
    OBVIOUS
  <2>1. CASE BuildPlan
    BY <2>1 DEF Planned, BuildPlan
  <2>2. CASE ProposeCandidate
    BY <2>2 DEF Planned, ProposeCandidate
  <2>3. CASE UpdateProfile
    BY <2>3 DEF Planned, UpdateProfile
  <2>4. CASE UNCHANGED planningVars
    BY <2>4 DEF Planned, planningVars
  <2> QED
    BY <2>1, <2>2, <2>3, <2>4 DEF PlanningNext
<1>3. Planned => PlansSound
  <2>1. CASE answer # Pending /\ question.kind = "study"
    <3> SUFFICES ASSUME Planned PROVE PlansSound
      OBVIOUS
    <3>1. Accepted(question.of) /\ answer = Plan(question.of)
      BY <2>1 DEF Planned, Accepted
    <3> QED
      BY <3>1, PlanSound
  <2>2. CASE ~(answer # Pending /\ question.kind = "study")
    BY <2>2 DEF PlansSound
  <2> QED
    BY <2>1, <2>2
<1> QED
  BY <1>1, <1>2, <1>3, PTL DEF PlanningSpec

(***************************************************************************)
(* The candidates of a vehicle calibration.                                *)
(***************************************************************************)

\* A multiple of a step is the nearest one to itself.
LEMMA NearestToMultiple ==
  ASSUME NEW a \in Nat, NEW b \in Nat \ {0}, a % b = 0
  PROVE  NearestWhole(a, b) = {a \div b} /\ a \div b \in Nat /\ a = (a \div b) * b
<1> DEFINE n == a \div b
<1>1. n \in Nat /\ a = n * b
  BY WholeQuotient
<1>2. n * b \in Nat /\ (n + 1) * b = n * b + b
  BY <1>1
<1>3. 2 * (n * b - a) = 0
  BY <1>1, <1>2
<1>4. 2 * ((n + 1) * b - a) = 2 * b
  BY <1>1, <1>2
<1>5. NearestWhole(a, b) = {m \in {n, n + 1} : 2 * (m * b - a) \in (-b) .. b}
  BY DEF NearestWhole
<1> HIDE DEF n
<1>6. 0 \in (-b) .. b /\ 2 * b \notin (-b) .. b
  OBVIOUS
<1>7. NearestWhole(a, b) = {n}
  BY <1>1, <1>3, <1>4, <1>5, <1>6
<1> QED
  BY <1>1, <1>7 DEF n

\* What is rounded to a step and held within bounds that are whole numbers of
\* steps is one ...
LEMMA RoundedWithin ==
  ASSUME NEW low \in Nat, NEW high \in Nat, NEW b \in Nat \ {0}, low <= high,
         low % b = 0, high % b = 0, NEW n \in Int
  PROVE  LET c == Clamp(n * b, low, high)
         IN  c \in Nat /\ low <= c /\ c <= high /\ c % b = 0
<1> DEFINE c == Clamp(n * b, low, high)
<1>1. n * b \in Int
  OBVIOUS
<1>2. c = IF n * b < low THEN low ELSE IF n * b > high THEN high ELSE n * b
  BY <1>1, ClampCases
<1> HIDE DEF c
<1>3. c \in Nat /\ low <= c /\ c <= high
  BY <1>1, <1>2
<1>4. (n * b) % b = 0
  BY SMT
<1>5. c % b = 0
  BY <1>2, <1>4
<1> QED
  BY <1>3, <1>5 DEF c

\* ... and is left alone when that is done once more.
RoundedTo(low, high, b, c) == {Clamp(m * b, low, high) : m \in NearestWhole(c, b)}

LEMMA RoundedAgain ==
  ASSUME NEW low \in Nat, NEW high \in Nat, NEW b \in Nat \ {0}, low <= high,
         NEW c \in Nat, low <= c, c <= high, c % b = 0
  PROVE  RoundedTo(low, high, b, c) = {c}
<1>1. NearestWhole(c, b) = {c \div b} /\ (c \div b) * b = c
  BY NearestToMultiple
<1>2. Clamp(c, low, high) = c
  BY ClampCases
<1>3. RoundedTo(low, high, b, c) = {Clamp((c \div b) * b, low, high)}
  BY <1>1 DEF RoundedTo
<1> QED
  BY <1>1, <1>2, <1>3

\* k values within the bounds of the peaks, all of them whole numbers of steps.
OnGrid(k, p) ==
  /\ p \in [1 .. k -> Nat]
  /\ \A i \in 1 .. k : Low <= p[i] /\ p[i] <= High /\ p[i] % Grid = 0

\* The sum of whole numbers of steps is one.
LEMMA GridSum ==
  ASSUME NEW k \in Nat, NEW p, OnGrid(k, p)
  PROVE  \E m \in Int : Total(p) = Grid * m
<1> DEFINE u == [i \in 1 .. k |-> p[i] \div Grid]
           zeros == [i \in 1 .. k |-> 0]
<1>0. IsFiniteSet(1 .. k) /\ DOMAIN p = 1 .. k /\ DOMAIN u = 1 .. k /\ DOMAIN zeros = 1 .. k
  BY FS_Interval DEF OnGrid
<1>1. Grid \in Int
  BY CandidateAssumption
<1>2. ASSUME NEW i \in 1 .. k
      PROVE  u[i] \in Int /\ zeros[i] \in Int /\ zeros[i] = 0 /\ p[i] = Grid * u[i] + zeros[i]
  <2>1. p[i] \in Nat /\ p[i] % Grid = 0 /\ Grid \in Nat \ {0}
    BY CandidateAssumption DEF OnGrid
  <2>2. u[i] \in Nat /\ p[i] = u[i] * Grid
    <3>1. p[i] \div Grid \in Nat /\ p[i] = (p[i] \div Grid) * Grid
      BY <2>1, WholeQuotient
    <3> QED
      BY <3>1
  <2>3. zeros[i] = 0
    OBVIOUS
  <2> HIDE DEF u, zeros
  <2>4. u[i] * Grid = Grid * u[i] /\ Grid * u[i] \in Int
    BY <2>1, <2>2
  <2> QED
    BY <2>2, <2>3, <2>4
<1> HIDE DEF u, zeros
<1>3. Linear(p, Grid, u, zeros)
  BY <1>0, <1>1, <1>2 DEF Linear
<1>4. /\ SumFunction(u) \in Int /\ SumFunction(zeros) \in Int
      /\ SumFunction(p) = Grid * SumFunction(u) + SumFunction(zeros)
  BY <1>3, SumIsLinear
<1>5. SumFunction(zeros) = 0
  BY <1>0, <1>2, SumOfNothing
<1>6. Grid * SumFunction(u) \in Int
  BY <1>1, <1>4
<1>7. Total(p) = Grid * SumFunction(u)
  BY <1>4, <1>5, <1>6 DEF Total
<1> QED
  BY <1>4, <1>7

\* A change of one value is a change of the sum.
LEMMA SumAfterChange ==
  ASSUME NEW k \in Nat, NEW p \in [1 .. k -> Int], NEW i \in 1 .. k, NEW d \in Int
  PROVE  /\ Total(p) \in Int
         /\ Total([p EXCEPT ![i] = @ + d]) = Total(p) + d
<1> DEFINE one == [j \in 1 .. k |-> IF j \in {i} THEN 1 ELSE 0]
           q == [p EXCEPT ![i] = @ + d]
<1>0. /\ IsFiniteSet(1 .. k) /\ {i} \in SUBSET (1 .. k) /\ Cardinality({i}) = 1
      /\ DOMAIN p = 1 .. k /\ DOMAIN q = 1 .. k /\ DOMAIN one = 1 .. k
  <2>1. IsFiniteSet(1 .. k)
    BY FS_Interval
  <2>2. Cardinality({i}) = 1
    BY FS_Singleton
  <2>3. {i} \in SUBSET (1 .. k)
    OBVIOUS
  <2>4. DOMAIN p = 1 .. k /\ DOMAIN q = 1 .. k /\ DOMAIN one = 1 .. k
    OBVIOUS
  <2> QED
    BY <2>1, <2>2, <2>3, <2>4
<1>1. \A j \in 1 .. k : one[j] = IF j \in {i} THEN 1 ELSE 0
  OBVIOUS
<1>2. ASSUME NEW j \in 1 .. k PROVE one[j] \in Int /\ p[j] \in Int /\ q[j] = d * one[j] + p[j]
  <2>1. CASE j = i
    <3>1. one[j] = 1 /\ q[j] = p[j] + d /\ p[j] \in Int
      BY <2>1
    <3> HIDE DEF one, q
    <3> QED
      BY <3>1
  <2>2. CASE j # i
    <3>1. one[j] = 0 /\ q[j] = p[j] /\ p[j] \in Int
      BY <2>2
    <3> HIDE DEF one, q
    <3> QED
      BY <3>1
  <2> QED
    BY <2>1, <2>2
<1> HIDE DEF one, q
<1>3. SumFunction(one) = 1
  BY <1>0, <1>1, SumOfMembers
<1>4. Linear(q, d, one, p)
  BY <1>0, <1>2 DEF Linear
<1>5. SumFunction(p) \in Int /\ SumFunction(q) = d * SumFunction(one) + SumFunction(p)
  BY <1>4, SumIsLinear
<1>6. SumFunction(q) = SumFunction(p) + d
  BY <1>3, <1>5
<1> QED
  BY <1>5, <1>6 DEF Total, q

\* What Repaired does in a step, and in m steps.
Movable(way, p) == {i \in DOMAIN p : Low <= p[i] + way /\ p[i] + way <= High}
Offset(values, way, p, i) ==
  IF p[i] + way > values[i] THEN p[i] + way - values[i] ELSE values[i] - p[i] - way
After(values, way, p) ==
  IF Movable(way, p) = {} THEN {p}
  ELSE {[p EXCEPT ![i] = @ + way] :
          i \in {c \in Movable(way, p) : \A j \in Movable(way, p) :
                   Offset(values, way, p, c) <= Offset(values, way, p, j)}}
Walk(start, values, way, f, m) ==
  f = [n \in 0 .. m |-> IF n = 0 THEN {start}
                        ELSE UNION {After(values, way, p) : p \in f[n - 1]}]

LEMMA WalkUpto ==
  ASSUME NEW start, NEW values, NEW way, NEW m \in Nat
  PROVE  \E f : Walk(start, values, way, f, m)
<1> DEFINE S == {n \in Nat : ~ \E f : Walk(start, values, way, f, n)}
           moved(g, n) == IF n = 0 THEN {start}
                         ELSE UNION {After(values, way, p) : p \in g[n - 1]}
<1> SUFFICES ASSUME S # {} PROVE FALSE
  OBVIOUS
<1>1. PICK k \in S : \A n \in S : k <= n
  <2>1. S \subseteq Nat
    OBVIOUS
  <2> HIDE DEF S
  <2> QED
    BY <2>1, LeastNumber
<1>2. k \in Nat /\ ~ \E f : Walk(start, values, way, f, k)
  OBVIOUS
<1>a. ASSUME NEW f, NEW n, f = [i \in 0 .. n |-> moved(f, i)] PROVE Walk(start, values, way, f, n)
  BY <1>a DEF Walk
<1>b. ASSUME NEW f, NEW n, Walk(start, values, way, f, n) PROVE f = [i \in 0 .. n |-> moved(f, i)]
  BY <1>b DEF Walk
<1>3. CASE k = 0
  <2> DEFINE f == [i \in 0 .. 0 |-> {start}]
             h == [i \in 0 .. 0 |-> moved(f, i)]
  <2>1. f = h
    <3>1. \A i \in 0 .. 0 : moved(f, i) = {start}
      OBVIOUS
    <3> HIDE DEF moved
    <3> QED
      BY <3>1
  <2>2. Walk(start, values, way, f, 0)
    <3> HIDE DEF f, moved
    <3> QED
      BY <2>1, <1>a
  <2> QED
    BY <1>2, <1>3, <2>2
<1>4. CASE k # 0
  <2>1. k - 1 \in Nat /\ k - 1 \notin S
    <3>1. k - 1 \in Nat
      BY <1>2, <1>4
    <3> HIDE DEF S
    <3> QED
      BY <1>1, <1>2, <3>1
  <2>2. PICK f : Walk(start, values, way, f, k - 1)
    BY <2>1
  <2> DEFINE e == [i \in 0 .. k |-> moved(f, i)]
             h == [i \in 0 .. k |-> moved(e, i)]
  <2>3. \A i \in 0 .. (k - 1) : f[i] = moved(f, i)
    <3>1. f = [i \in 0 .. (k - 1) |-> moved(f, i)]
      BY <2>2, <1>b
    <3> HIDE DEF moved
    <3> QED
      BY <3>1
  <2>4. ASSUME NEW i \in 0 .. k PROVE e[i] = h[i]
    <3>1. CASE i = 0
      BY <3>1
    <3>2. CASE i # 0
      <4> DEFINE j == i - 1
      <4>1. j \in 0 .. (k - 1) /\ j \in 0 .. k
        BY <1>2, <3>2
      <4>2. e[j] = f[j]
        <5> HIDE DEF j
        <5>1. e[j] = moved(f, j)
          <6> HIDE DEF moved
          <6> QED
            BY <4>1
        <5> HIDE DEF e, moved
        <5> QED
          BY <4>1, <2>3, <5>1
      <4>3. moved(e, i) = moved(f, i)
        <5> HIDE DEF e
        <5> QED
          BY <3>2, <4>2
      <4> HIDE DEF j, moved
      <4> QED
        BY <4>3
    <3> QED
      BY <3>1, <3>2
  <2>5. e = h
    BY <2>4
  <2>6. Walk(start, values, way, e, k)
    <3> HIDE DEF e, moved
    <3> QED
      BY <2>5, <1>a
  <2> QED
    BY <1>2, <2>6
<1> QED
  BY <1>3, <1>4

\* A walk has as many steps as are missing.
LEMMA RepairedIsWalk ==
  ASSUME NEW start, NEW values, NEW target
  PROVE  LET units == (target - Total(start)) \div Grid
             way == IF units > 0 THEN Grid ELSE -Grid
             steps == IF units > 0 THEN units ELSE -units
         IN  steps \in Nat =>
               \E f : Walk(start, values, way, f, steps)
                        /\ Repaired(start, values, target) = f[steps]
<1> DEFINE units == (target - Total(start)) \div Grid
           way == IF units > 0 THEN Grid ELSE -Grid
           steps == IF units > 0 THEN units ELSE -units
           chosen == CHOOSE f : Walk(start, values, way, f, steps)
<1>1. ASSUME steps \in Nat PROVE Walk(start, values, way, chosen, steps)
  <2> HIDE DEF way, steps
  <2>1. \E f : Walk(start, values, way, f, steps)
    BY <1>1, WalkUpto
  <2> QED
    BY <2>1
<1>2. Repaired(start, values, target) = chosen[steps]
  BY DEF Repaired, Walk, After, Movable, Offset
<1> HIDE DEF chosen
<1> QED
  BY <1>1, <1>2

\* The sum of the peaks of a candidate can be reached within the bounds.
LEMMA BoundsEnclose ==
  ASSUME NEW k \in Nat, NEW p, OnGrid(k, p)
  PROVE  /\ (\A i \in 1 .. k : p[i] = High) => Total(p) >= MeanPeak * k
         /\ (\A i \in 1 .. k : p[i] = Low) => Total(p) <= MeanPeak * k
         /\ Total(p) \in Int /\ MeanPeak * k \in Int
<1>1. /\ Low \in Nat /\ High \in Nat /\ MeanPeak \in Nat
      /\ Low <= MeanPeak /\ MeanPeak <= High
  BY CandidateAssumption
<1>2. Low * k <= MeanPeak * k /\ MeanPeak * k <= High * k
      /\ Low * k \in Int /\ MeanPeak * k \in Int /\ High * k \in Int
  BY <1>1, ScaledGrow
<1>3. p \in [1 .. k -> Int]
  BY DEF OnGrid
<1>4. (\A i \in 1 .. k : p[i] = High) => Total(p) = High * k
  BY <1>1, <1>3, SumOfEqual DEF Total
<1>5. (\A i \in 1 .. k : p[i] = Low) => Total(p) = Low * k
  BY <1>1, <1>3, SumOfEqual DEF Total
<1>6. Total(p) \in Int
  <2>1. IsFiniteSet(1 .. k)
    BY FS_Interval
  <2>2. DOMAIN p = 1 .. k /\ \A i \in DOMAIN p : p[i] \in Nat
    BY DEF OnGrid
  <2>3. SumFunction(p) \in Nat
    BY <2>1, <2>2, SumOfCounts
  <2> QED
    BY <2>3 DEF Total
<1> QED
  BY <1>2, <1>4, <1>5, <1>6

\* While the sum is not reached, some peak can be moved towards it; a peak that
\* is moved stays on a step and within the bounds.
LEMMA SomePeakMoves ==
  ASSUME NEW k \in Nat, NEW p, OnGrid(k, p), NEW way,
         \/ way = Grid /\ Total(p) < MeanPeak * k
         \/ way = -Grid /\ Total(p) > MeanPeak * k
  PROVE  /\ Movable(way, p) # {}
         /\ \A i \in Movable(way, p) : OnGrid(k, [p EXCEPT ![i] = @ + way])
<1>1. /\ Low \in Nat /\ High \in Nat /\ Grid \in Nat \ {0} /\ Low % Grid = 0 /\ High % Grid = 0
  BY CandidateAssumption
<1>2. way \in Int
  BY <1>1
<1>3. DOMAIN p = 1 .. k /\ \A i \in 1 .. k :
        p[i] \in Nat /\ Low <= p[i] /\ p[i] <= High /\ p[i] % Grid = 0
  BY DEF OnGrid
<1>4. \A a, b \in Nat : a % Grid = 0 /\ b % Grid = 0 /\ a < b => a + Grid <= b
  <2> SUFFICES ASSUME NEW a \in Nat, NEW b \in Nat, a % Grid = 0, b % Grid = 0, a < b
               PROVE  a + Grid <= b
    OBVIOUS
  <2> DEFINE m == a \div Grid
             n == b \div Grid
  <2>1. m \in Nat /\ n \in Nat /\ a = m * Grid /\ b = n * Grid
    BY <1>1, WholeQuotient
  <2> HIDE DEF m, n
  <2>2. m * Grid + Grid <= n * Grid
    BY <1>1, <2>1, ScaledLess
  <2> QED
    BY <2>1, <2>2
<1>5. ASSUME Movable(way, p) = {} PROVE FALSE
  <2>1. \A i \in 1 .. k : ~ (Low <= p[i] + way /\ p[i] + way <= High)
    BY <1>3, <1>5 DEF Movable
  <2>2. CASE way = Grid /\ Total(p) < MeanPeak * k
    <3>1. \A i \in 1 .. k : p[i] = High
      <4> SUFFICES ASSUME NEW i \in 1 .. k, p[i] < High PROVE FALSE
        BY <1>1, <1>3
      <4>1. p[i] + Grid <= High
        BY <1>1, <1>3, <1>4
      <4> DEFINE x == p[i]
      <4>2. x \in Nat /\ Low <= x /\ x + Grid <= High
        BY <1>3, <4>1
      <4>3. ~ (Low <= x + way /\ x + way <= High)
        BY <2>1
      <4> HIDE DEF x
      <4> QED
        BY <2>2, <4>2, <4>3, <1>1
    <3> QED
      BY <2>2, <3>1, BoundsEnclose
  <2>3. CASE way = -Grid /\ Total(p) > MeanPeak * k
    <3>1. \A i \in 1 .. k : p[i] = Low
      <4> SUFFICES ASSUME NEW i \in 1 .. k, Low < p[i] PROVE FALSE
        BY <1>1, <1>3
      <4>1. Low + Grid <= p[i]
        BY <1>1, <1>3, <1>4
      <4> DEFINE x == p[i]
      <4>2. x \in Nat /\ Low + Grid <= x /\ x <= High
        BY <1>3, <4>1
      <4>3. ~ (Low <= x + way /\ x + way <= High)
        BY <2>1
      <4> HIDE DEF x
      <4>4. x + way = x - Grid
        BY <2>3, <4>2, <1>1
      <4> QED
        BY <4>2, <4>3, <4>4, <1>1
    <3> QED
      BY <2>3, <3>1, BoundsEnclose
  <2> QED
    BY <2>2, <2>3
<1>6. ASSUME NEW i \in Movable(way, p) PROVE OnGrid(k, [p EXCEPT ![i] = @ + way])
  <2>1. i \in 1 .. k /\ Low <= p[i] + way /\ p[i] + way <= High
    BY <1>3 DEF Movable
  <2>2. p[i] + way \in Nat
    BY <1>1, <1>2, <1>3, <2>1
  <2>3. (p[i] + way) % Grid = 0
    <3> DEFINE m == p[i] \div Grid
    <3>1. m \in Nat /\ p[i] = m * Grid
      BY <1>1, <1>3, <2>1, WholeQuotient
    <3> HIDE DEF m
    <3>2. p[i] + way = (m + 1) * Grid \/ p[i] + way = (m - 1) * Grid
      BY <1>1, <3>1
    <3>3. \A n \in Int : (n * Grid) % Grid = 0
      BY <1>1, SMT
    <3> QED
      BY <3>1, <3>2, <3>3
  <2>4. p \in [1 .. k -> Nat]
    BY DEF OnGrid
  <2>5. /\ [p EXCEPT ![i] = @ + way] \in [1 .. k -> Nat]
        /\ \A j \in 1 .. k : [p EXCEPT ![i] = @ + way][j] = IF j = i THEN p[i] + way ELSE p[j]
    BY <2>1, <2>2, <2>4
  <2> QED
    BY <1>3, <2>1, <2>3, <2>5 DEF OnGrid
<1> QED
  BY <1>5, <1>6

\* A rounded vector is brought back to the sum, step by step, within the bounds.
LEMMA RepairReachesSum ==
  ASSUME NEW k \in Nat, NEW start, OnGrid(k, start), NEW values,
         NEW target, target = MeanPeak * k, target % Grid = 0,
         NEW q \in Repaired(start, values, target)
  PROVE  OnGrid(k, q) /\ Total(q) = target
<1> DEFINE units == (target - Total(start)) \div Grid
           way == IF units > 0 THEN Grid ELSE -Grid
           steps == IF units > 0 THEN units ELSE -units
<1>1. Grid \in Nat \ {0} /\ target \in Nat /\ Total(start) \in Int
  <2>1. MeanPeak \in Nat /\ Grid \in Nat \ {0}
    BY CandidateAssumption
  <2>2. MeanPeak * k \in Nat
    BY <2>1
  <2> QED
    BY <2>1, <2>2, BoundsEnclose
<1>2. units \in Int /\ units * Grid = target - Total(start)
  <2>1. PICK m \in Int : Total(start) = Grid * m
    BY GridSum
  <2> DEFINE n == target \div Grid
  <2>2. n \in Nat /\ target = n * Grid
    BY <1>1, WholeQuotient
  <2> HIDE DEF n
  <2>3. n - m \in Int /\ target - Total(start) = (n - m) * Grid
    <3>1. Grid * m = m * Grid /\ m * Grid \in Int /\ (n - m) * Grid = n * Grid - m * Grid
      BY <1>1, <2>1, <2>2
    <3> QED
      BY <1>1, <2>1, <2>2, <3>1
  <2>4. units = n - m
    <3>1. /\ target - Total(start) \in Int
          /\ (n - m) * Grid <= target - Total(start)
          /\ target - Total(start) < (n - m) * Grid + Grid
      BY <1>1, <2>3
    <3>2. (target - Total(start)) \div Grid = n - m
      BY <1>1, <2>3, <3>1, QuotientIs
    <3> QED
      BY <3>2
  <2> QED
    BY <2>3, <2>4
<1>3. steps \in Nat /\ way \in Int
  BY <1>1, <1>2
<1>4. PICK f : Walk(start, values, way, f, steps) /\ Repaired(start, values, target) = f[steps]
  BY <1>3, RepairedIsWalk
<1>5. /\ f[0] = {start}
      /\ \A n \in 1 .. steps : f[n] = UNION {After(values, way, p) : p \in f[n - 1]}
  <2>1. f = [n \in 0 .. steps |-> IF n = 0 THEN {start}
                                  ELSE UNION {After(values, way, p) : p \in f[n - 1]}]
    BY <1>4 DEF Walk
  <2>2. steps \in Nat
    BY <1>3
  <2> HIDE DEF steps, way
  <2>3. 0 \in 0 .. steps /\ \A n \in 1 .. steps : n \in 0 .. steps /\ n # 0
    BY <2>2
  <2>4. f[0] = {start}
    BY <2>1, <2>3
  <2>5. \A n \in 1 .. steps : f[n] = UNION {After(values, way, p) : p \in f[n - 1]}
    BY <2>1, <2>3
  <2> QED
    BY <2>4, <2>5
<1>6. \/ way = Grid /\ steps * Grid = target - Total(start)
      \/ way = -Grid /\ steps * Grid = Total(start) - target
  <2>1. CASE units > 0
    BY <1>2, <2>1
  <2>2. CASE ~(units > 0)
    <3>1. way = -Grid /\ steps = -units
      BY <2>2
    <3>2. (-units) * Grid = -(units * Grid)
      BY <1>1, <1>2
    <3> QED
      BY <1>1, <1>2, <3>1, <3>2
  <2> QED
    BY <2>1, <2>2
<1> HIDE DEF units, way, steps
<1> DEFINE Good(n) == \A p \in f[n] : OnGrid(k, p) /\ Total(p) = Total(start) + n * way
           Bad == {n \in 0 .. steps : ~ Good(n)}
<1>7. Bad = {}
  <2> SUFFICES ASSUME Bad # {} PROVE FALSE
    OBVIOUS
  <2>1. PICK n \in Bad : \A m \in Bad : n <= m
    <3>1. Bad \subseteq Nat
      BY <1>3
    <3> HIDE DEF Bad
    <3> QED
      BY <3>1, LeastNumber
  <2>2. n \in 0 .. steps /\ ~ Good(n)
    OBVIOUS
  <2>3. CASE n = 0
    <3>1. 0 * way = 0
      BY <1>3
    <3>2. Good(0)
      BY <1>1, <1>5, <3>1
    <3> QED
      BY <2>2, <2>3, <3>2
  <2>4. CASE n # 0
    <3>1. n - 1 \in 0 .. steps /\ n \in 1 .. steps /\ n - 1 < n
      BY <1>3, <2>2, <2>4
    <3>2. Good(n - 1)
      <4>1. n - 1 \notin Bad
        <5> HIDE DEF Bad
        <5> QED
          BY <2>1, <2>2, <3>1
      <4> HIDE DEF Good
      <4> QED
        BY <3>1, <4>1
    <3>3. ASSUME NEW r \in f[n] PROVE OnGrid(k, r) /\ Total(r) = Total(start) + n * way
      <4>1. PICK p \in f[n - 1] : r \in After(values, way, p)
        BY <1>5, <3>1
      <4>2. OnGrid(k, p) /\ Total(p) = Total(start) + (n - 1) * way
        BY <3>2
      <4>3. \/ way = Grid /\ Total(p) < MeanPeak * k
            \/ way = -Grid /\ Total(p) > MeanPeak * k
        <5>1. (n - 1) * Grid + Grid <= steps * Grid /\ (n - 1) * Grid \in Int /\ steps * Grid \in Int
          <6>1. n * Grid <= steps * Grid
            BY <1>1, <1>3, <3>1, ScaledGrow
          <6>2. n * Grid = (n - 1) * Grid + Grid
            BY <1>1, <3>1
          <6> QED
            BY <1>1, <1>3, <3>1, <6>1, <6>2
        <5>2. (n - 1) * (-Grid) = -((n - 1) * Grid)
          BY <1>1, <3>1
        <5>3. CASE way = Grid /\ steps * Grid = target - Total(start)
          BY <1>1, <4>2, <5>1, <5>3
        <5>4. CASE way = -Grid /\ steps * Grid = Total(start) - target
          BY <1>1, <4>2, <5>1, <5>2, <5>4
        <5> QED
          BY <1>6, <5>3, <5>4
      <4>4. PICK i \in Movable(way, p) : r = [p EXCEPT ![i] = @ + way]
        <5>1. Movable(way, p) # {}
          BY <4>2, <4>3, SomePeakMoves
        <5> QED
          BY <4>1, <5>1 DEF After
      <4>5. OnGrid(k, r)
        BY <4>2, <4>3, <4>4, SomePeakMoves
      <4>6. p \in [1 .. k -> Int] /\ i \in 1 .. k
        BY <4>2, <4>4 DEF OnGrid, Movable
      <4>7. Total(r) = Total(p) + way
        BY <1>3, <4>4, <4>6, SumAfterChange
      <4>8. Total(start) + (n - 1) * way + way = Total(start) + n * way
        <5>1. n * way = (n - 1) * way + way /\ n * way \in Int /\ (n - 1) * way \in Int
          BY <1>3, <3>1
        <5> QED
          BY <1>1, <1>3, <5>1
      <4> QED
        BY <4>2, <4>5, <4>7, <4>8
    <3> QED
      BY <2>2, <3>3
  <2> QED
    BY <2>3, <2>4
<1>8. Good(steps)
  <2> HIDE DEF Good
  <2> QED
    BY <1>3, <1>7
<1>9. OnGrid(k, q) /\ Total(q) = Total(start) + steps * way
  BY <1>4, <1>8
<1>10. steps * way = target - Total(start)
  <2>1. steps * (-Grid) = -(steps * Grid) /\ steps * Grid \in Int
    BY <1>1, <1>3
  <2> QED
    BY <1>1, <1>6, <2>1
<1> QED
  BY <1>1, <1>9, <1>10

\* project_sum_with_bounds: every outcome has the sum and keeps the bounds.
LEMMA PeaksReachMean ==
  ASSUME NEW values \in Seq(Int), (MeanPeak * Len(values)) % Grid = 0,
         NEW q \in NormalizePeaks(values)
  PROVE  OnGrid(Len(values), q) /\ Total(q) = MeanPeak * Len(values)
<1> DEFINE k == Len(values)
           target == MeanPeak * k
           exact == Shifted(values, target)
           Steps == {Clamp(n * Grid, Low, High) : n \in 0 .. (High \div Grid)}
           Rounded == {p \in [DOMAIN values -> Steps] :
                         \A i \in DOMAIN values :
                           \E n \in NearestWhole(exact[i], Grid) : p[i] = Clamp(n * Grid, Low, High)}
<1>1. DOMAIN values = 1 .. k /\ k \in Nat
  OBVIOUS
<1>2. NormalizePeaks(values) = UNION {Repaired(p, values, target) : p \in Rounded}
  BY DEF NormalizePeaks
<1> HIDE DEF exact
<1>3. PICK p \in Rounded : q \in Repaired(p, values, target)
  BY <1>2
<1>4. ASSUME NEW v \in Steps PROVE v \in Nat /\ Low <= v /\ v <= High /\ v % Grid = 0
  <2>1. PICK n \in 0 .. (High \div Grid) : v = Clamp(n * Grid, Low, High)
    OBVIOUS
  <2>2. n \in Int
    OBVIOUS
  <2>3. /\ Low \in Nat /\ High \in Nat /\ Grid \in Nat \ {0} /\ Low <= High
        /\ Low % Grid = 0 /\ High % Grid = 0
    BY CandidateAssumption
  <2> HIDE DEF Steps
  <2> QED
    <3>1. LET c == Clamp(n * Grid, Low, High)
          IN  c \in Nat /\ Low <= c /\ c <= High /\ c % Grid = 0
      BY <2>2, <2>3, RoundedWithin
    <3> QED
      BY <2>1, <3>1
<1>5. p \in [1 .. k -> Steps]
  BY <1>1
<1> HIDE DEF Steps, Rounded, k
<1>6. OnGrid(k, p)
  <2>1. \A i \in 1 .. k : p[i] \in Steps
    BY <1>5
  <2>2. \A i \in 1 .. k : p[i] \in Nat /\ Low <= p[i] /\ p[i] <= High /\ p[i] % Grid = 0
    BY <1>4, <2>1
  <2>3. p \in [1 .. k -> Nat]
    BY <1>5, <2>2
  <2> QED
    BY <2>2, <2>3 DEF OnGrid
<1>7. target % Grid = 0
  BY DEF k
<1>8. OnGrid(k, q) /\ Total(q) = target
  BY <1>1, <1>3, <1>6, <1>7, RepairReachesSum
<1> QED
  BY <1>8 DEF k

\* Values of which none is more, and the sum the same, are the same.
LEMMA OneOfSum ==
  ASSUME NEW k \in Nat, NEW g \in [1 .. k -> Int], NEW h \in [1 .. k -> Int],
         \A i \in 1 .. k : g[i] <= h[i], Total(g) = Total(h)
  PROVE  g = h
<1> SUFFICES ASSUME NEW i \in 1 .. k, g[i] < h[i] PROVE FALSE
  OBVIOUS
<1> DEFINE e == [g EXCEPT ![i] = @ + 1]
<1>1. Total(g) \in Int /\ Total(e) = Total(g) + 1
  <2>1. \A d \in Int : Total(g) \in Int /\ Total([g EXCEPT ![i] = @ + d]) = Total(g) + d
    <3> SUFFICES ASSUME NEW d \in Int
                 PROVE  Total(g) \in Int /\ Total([g EXCEPT ![i] = @ + d]) = Total(g) + d
      OBVIOUS
    <3> QED
      BY SumAfterChange
  <2>2. 1 \in Int
    OBVIOUS
  <2>3. Total(g) \in Int /\ Total([g EXCEPT ![i] = @ + 1]) = Total(g) + 1
    BY ONLY <2>1, <2>2
  <2> QED
    BY <2>3
<1>2. e \in [1 .. k -> Int] /\ \A j \in 1 .. k : e[j] <= h[j]
  <2>1. e \in [1 .. k -> Int] /\ \A j \in 1 .. k : e[j] = IF j = i THEN g[j] + 1 ELSE g[j]
    OBVIOUS
  <2> HIDE DEF e
  <2>2. \A j \in 1 .. k : g[j] \in Int /\ h[j] \in Int
    OBVIOUS
  <2> QED
    BY <2>1, <2>2
<1> HIDE DEF e
<1>3. IsFiniteSet(1 .. k)
  BY FS_Interval
<1>4. /\ IsFiniteSet(DOMAIN e) /\ DOMAIN h = DOMAIN e
      /\ \A j \in DOMAIN e : e[j] \in Int /\ h[j] \in Int /\ e[j] <= h[j]
  BY <1>2, <1>3
<1>5. Total(e) <= Total(h)
  BY <1>4, SumOfLess DEF Total
<1> QED
  BY <1>1, <1>5

\* Values that keep the bounds and have the sum are not shifted: any shift that
\* gives them the sum moves none of them.
LEMMA ShiftedIsSame ==
  ASSUME NEW k \in Nat \ {0}, NEW v, OnGrid(k, v), Total(v) = MeanPeak * k
  PROVE  Shifted(v, MeanPeak * k) = v
<1> DEFINE target == MeanPeak * k
           span == Low - Max(ToSet(v)) - target .. High - Min(ToSet(v)) + target
           at(s) == [i \in DOMAIN v |-> Clamp(v[i] + s, Low, High)]
           s == CHOOSE s \in span : Total(at(s)) = target
<1>1. Low \in Nat /\ High \in Nat /\ Low <= High /\ target \in Nat
  <2>1. Low \in Nat /\ High \in Nat /\ Low <= High /\ MeanPeak \in Nat
    BY CandidateAssumption
  <2> QED
    BY <2>1
<1>2. DOMAIN v = 1 .. k /\ IsFiniteSet(1 .. k) /\ \A i \in 1 .. k : v[i] \in Nat /\ Low <= v[i] /\ v[i] <= High
  <2>1. IsFiniteSet(1 .. k)
    BY FS_Interval
  <2> QED
    BY <2>1 DEF OnGrid
<1>3. span \subseteq Int /\ 0 \in span
  <2> DEFINE V == ToSet(v)
  <2>1. V \subseteq Nat /\ V # {} /\ \A x \in V : Low <= x /\ x <= High
    <3>1. \A x : x \in V <=> \E i \in 1 .. k : x = v[i]
      BY <1>2 DEF ToSet
    <3>2. v[1] \in V
      BY <3>1
    <3> HIDE DEF V
    <3> QED
      BY <1>2, <3>1, <3>2
  <2> HIDE DEF V
  <2>2. Max(V) \in V
    BY <1>1, <2>1, MaxMember
  <2>3. Min(V) \in V
    BY <2>1, MinMember
  <2> DEFINE a == Max(V)
             b == Min(V)
  <2>4. a \in Nat /\ b \in Nat /\ Low <= a /\ b <= High
    BY <2>1, <2>2, <2>3
  <2> HIDE DEF a, b
  <2>5. /\ (Low - a - target .. High - b + target) \subseteq Int
        /\ 0 \in (Low - a - target .. High - b + target)
    BY <1>1, <2>4
  <2> QED
    BY <2>5 DEF a, b, V
<1> HIDE DEF span
<1>4. \A r \in Int : \A i \in 1 .. k :
        at(r)[i] = IF v[i] + r < Low THEN Low ELSE IF v[i] + r > High THEN High ELSE v[i] + r
  <2> SUFFICES ASSUME NEW r \in Int, NEW i \in 1 .. k
               PROVE  at(r)[i] = IF v[i] + r < Low THEN Low
                                 ELSE IF v[i] + r > High THEN High ELSE v[i] + r
    OBVIOUS
  <2>1. at(r)[i] = Clamp(v[i] + r, Low, High)
    BY <1>2
  <2>2. v[i] + r \in Int
    BY <1>2
  <2> HIDE DEF at
  <2> QED
    BY <1>1, <2>1, <2>2, ClampCases
<1>5. \A r : at(r) = [i \in 1 .. k |-> at(r)[i]] /\ DOMAIN at(r) = 1 .. k
  BY <1>2
<1> HIDE DEF at
<1>6. v = [i \in 1 .. k |-> v[i]]
  BY DEF OnGrid
<1>7. at(0) = v
  <2>1. ASSUME NEW i \in 1 .. k PROVE at(0)[i] = v[i]
    <3>1. at(0)[i] = IF v[i] + 0 < Low THEN Low ELSE IF v[i] + 0 > High THEN High ELSE v[i] + 0
      BY <1>4
    <3>2. v[i] \in Nat /\ Low <= v[i] /\ v[i] <= High /\ Low \in Nat /\ High \in Nat
      BY <1>1, <1>2
    <3> QED
      BY <3>1, <3>2
  <2> QED
    BY <1>5, <1>6, <2>1
<1>8. s \in span /\ Total(at(s)) = target
  <2>1. Total(at(0)) = target
    BY <1>7
  <2> QED
    BY <1>3, <2>1
<1> HIDE DEF s
<1>a. s \in Int
  BY <1>3, <1>8
<1>b. ASSUME NEW i \in 1 .. k
      PROVE  /\ at(s)[i] \in Int
             /\ s >= 0 => v[i] <= at(s)[i]
             /\ s < 0 => at(s)[i] <= v[i]
  <2>1. at(s)[i] = IF v[i] + s < Low THEN Low ELSE IF v[i] + s > High THEN High ELSE v[i] + s
    BY <1>4, <1>a
  <2>2. v[i] \in Nat /\ Low <= v[i] /\ v[i] <= High /\ Low \in Nat /\ High \in Nat
    BY <1>1, <1>2
  <2> DEFINE x == at(s)[i]
             y == v[i]
  <2>3. /\ x = IF y + s < Low THEN Low ELSE IF y + s > High THEN High ELSE y + s
        /\ y \in Nat /\ Low <= y /\ y <= High
    BY <2>1, <2>2
  <2> HIDE DEF x, y
  <2>4. x \in Int /\ (s >= 0 => y <= x) /\ (s < 0 => x <= y)
    BY <1>a, <2>2, <2>3
  <2> QED
    BY <2>4 DEF x, y
<1>9. s \in Int /\ \A i \in 1 .. k : at(s)[i] \in Int
  BY <1>a, <1>b
<1>10. \/ \A i \in 1 .. k : v[i] <= at(s)[i]
       \/ \A i \in 1 .. k : at(s)[i] <= v[i]
  <2>1. s >= 0 \/ s < 0
    BY <1>a
  <2> QED
    BY <1>b, <2>1
<1>11. k \in Nat
  OBVIOUS
<1>12. v \in [1 .. k -> Int] /\ at(s) \in [1 .. k -> Int]
  <2>1. v \in [1 .. k -> Int]
    BY <1>2, <1>6
  <2>2. at(s) \in [1 .. k -> Int]
    BY <1>5, <1>9
  <2> QED
    BY <2>1, <2>2
<1>13. at(s) = v
  <2>1. Total(at(s)) = Total(v)
    BY <1>8
  <2> QED
    BY <1>10, <1>11, <1>12, <2>1, OneOfSum
<1> QED
  BY <1>13 DEF Shifted, at, s, span

\* They are their own projection.
LEMMA ProjectionIsSame ==
  ASSUME NEW k \in Nat \ {0}, NEW v, OnGrid(k, v), Total(v) = MeanPeak * k, Len(v) = k
  PROVE  NormalizePeaks(v) = {v}
<1> DEFINE target == MeanPeak * Len(v)
           exact == Shifted(v, target)
           Steps == {Clamp(n * Grid, Low, High) : n \in 0 .. (High \div Grid)}
           Rounded == {p \in [DOMAIN v -> Steps] :
                         \A i \in DOMAIN v :
                           \E n \in NearestWhole(exact[i], Grid) : p[i] = Clamp(n * Grid, Low, High)}
<1>1. NormalizePeaks(v) = UNION {Repaired(p, v, target) : p \in Rounded}
  BY DEF NormalizePeaks
<1>2. exact = v
  BY ShiftedIsSame
<1>3. /\ Low \in Nat /\ High \in Nat /\ Grid \in Nat \ {0} /\ Low <= High
      /\ Low % Grid = 0 /\ High % Grid = 0
  BY CandidateAssumption
<1>4. DOMAIN v = 1 .. k /\ \A i \in 1 .. k : v[i] \in Nat /\ Low <= v[i] /\ v[i] <= High
                                             /\ v[i] % Grid = 0
  BY DEF OnGrid
<1>5. ASSUME NEW i \in 1 .. k
      PROVE  /\ NearestWhole(v[i], Grid) = {v[i] \div Grid}
             /\ Clamp((v[i] \div Grid) * Grid, Low, High) = v[i]
             /\ v[i] \in Steps
  <2> DEFINE n == v[i] \div Grid
  <2>1. NearestWhole(v[i], Grid) = {n} /\ n \in Nat /\ v[i] = n * Grid
    BY <1>3, <1>4, NearestToMultiple
  <2>2. Clamp(n * Grid, Low, High) = v[i]
    <3>1. v[i] \in Int
      BY <1>4
    <3>2. Clamp(v[i], Low, High) = v[i]
      BY <1>3, <1>4, <3>1, ClampCases
    <3> HIDE DEF n
    <3> QED
      BY <2>1, <3>2
  <2>3. n <= High \div Grid /\ High \div Grid \in Nat
    BY <1>3, <1>4, QuotientGrows
  <2>4. n \in 0 .. (High \div Grid)
    BY <2>1, <2>3
  <2> HIDE DEF n
  <2>5. v[i] \in Steps
    BY <2>2, <2>4
  <2> HIDE DEF Steps
  <2> QED
    BY <2>1, <2>2, <2>5 DEF n
<1>6. Rounded = {p \in [1 .. k -> Steps] : \A i \in 1 .. k : p[i] = v[i]}
  <2>1. \A i \in 1 .. k : \A x :
          (\E n \in NearestWhole(exact[i], Grid) : x = Clamp(n * Grid, Low, High)) <=> x = v[i]
    <3> HIDE DEF exact, Steps
    <3> QED
      BY <1>2, <1>5
  <2> HIDE DEF exact, Steps
  <2> QED
    BY <1>4, <2>1
<1>7. Rounded = {v}
  <2>1. v \in [1 .. k -> Steps]
    <3>1. v = [i \in 1 .. k |-> v[i]]
      BY DEF OnGrid
    <3>2. \A i \in 1 .. k : v[i] \in Steps
      BY <1>5
    <3> HIDE DEF Steps
    <3> QED
      BY <3>1, <3>2
  <2> HIDE DEF Rounded, Steps
  <2>2. \A p \in [1 .. k -> Steps] : (\A i \in 1 .. k : p[i] = v[i]) <=> p = v
    BY <2>1
  <2> QED
    BY <1>6, <2>1, <2>2
<1>8. Repaired(v, v, target) = {v}
  <2> DEFINE missing == target - Total(v)
  <2>1. missing = 0
    <3>1. target \in Int
      BY BoundsEnclose
    <3> QED
      BY <3>1
  <2>a. missing \div Grid = 0
    <3> HIDE DEF missing
    <3>1. 0 * Grid = 0
      BY <1>3
    <3> QED
      BY <1>3, <2>1, <3>1, QuotientIs
  <2> DEFINE units == (target - Total(v)) \div Grid
             way == IF units > 0 THEN Grid ELSE -Grid
             steps == IF units > 0 THEN units ELSE -units
  <2>2. steps = 0
    <3>1. units = 0
      BY <2>a
    <3> HIDE DEF units
    <3>2. -units <= 0 /\ -units >= 0 /\ -units \in Int
      BY ONLY <3>1
    <3>3. -units = 0
      BY ONLY <3>2
    <3>4. ~ (units > 0)
      BY ONLY <3>1
    <3> QED
      BY ONLY <3>3, <3>4
  <2>3. steps \in Nat
    BY <2>2
  <2>4. PICK f : Walk(v, v, way, f, steps) /\ Repaired(v, v, target) = f[steps]
    BY <2>3, RepairedIsWalk
  <2> HIDE DEF steps, way
  <2>5. f[0] = {v}
    BY <2>2, <2>4 DEF Walk
  <2> QED
    BY <2>2, <2>4, <2>5
<1> HIDE DEF Rounded, target
<1> QED
  BY <1>1, <1>7, <1>8

\* Whole numbers as shares are given out as they are.
LEMMA AllocationIsSame ==
  ASSUME NEW k \in Nat, NEW w \in [1 .. k -> Nat], NEW count \in Nat \ {0}, Total(w) = count
  PROVE  AllocateCounts(w, count) = w
<1> DEFINE fl == [i \in 1 .. k |-> (count * w[i]) \div count]
           before(i) == {j \in 1 .. k : \/ (count * w[j]) % count > (count * w[i]) % count
                                        \/ (count * w[j]) % count = (count * w[i]) % count /\ j < i}
<1>1. \A i \in 1 .. k : (count * w[i]) \div count = w[i]
  <2> SUFFICES ASSUME NEW i \in 1 .. k PROVE (count * w[i]) \div count = w[i]
    OBVIOUS
  <2> DEFINE x == w[i]
  <2>1. x \in Nat
    OBVIOUS
  <2> HIDE DEF x
  <2>2. count * x \in Int /\ x * count = count * x
    BY <2>1
  <2>3. (count * x) \div count = x
    BY <2>1, <2>2, QuotientIs
  <2> QED
    BY <2>3 DEF x
<1>2. fl = w
  <2>1. w = [i \in 1 .. k |-> w[i]]
    OBVIOUS
  <2> QED
    BY <1>1, <2>1
<1>3. DOMAIN w = 1 .. k
  OBVIOUS
<1>4. AllocateCounts(w, count) =
        [i \in 1 .. k |-> fl[i] + IF Cardinality(before(i)) < count - Total(fl) THEN 1 ELSE 0]
  BY <1>3 DEF AllocateCounts
<1>5. \A i \in 1 .. k : ~ (Cardinality(before(i)) < 0)
  <2> SUFFICES ASSUME NEW i \in 1 .. k PROVE Cardinality(before(i)) \in Nat
    OBVIOUS
  <2>1. IsFiniteSet(1 .. k)
    BY FS_Interval
  <2>2. before(i) \subseteq 1 .. k
    OBVIOUS
  <2> HIDE DEF before
  <2>3. IsFiniteSet(before(i))
    BY <2>1, <2>2, FS_Subset
  <2> QED
    BY <2>3, FS_CardinalityType
<1> HIDE DEF fl, before
<1>6. count - Total(fl) = 0
  BY <1>2
<1>7. \A i \in 1 .. k : fl[i] + (IF Cardinality(before(i)) < count - Total(fl) THEN 1 ELSE 0) = w[i]
  BY <1>2, <1>5, <1>6
<1>8. w = [i \in 1 .. k |-> w[i]]
  OBVIOUS
<1> QED
  BY <1>4, <1>7, <1>8

\* What is given out is a whole number of vehicles for each origin.
LEMMA AllocationTypes ==
  ASSUME NEW k \in Nat, NEW w \in [1 .. k -> Nat], Total(w) > 0, NEW count \in Nat
  PROVE  AllocateCounts(w, count) \in [1 .. k -> Nat]
<1> DEFINE W == Total(w)
           fl == [i \in 1 .. k |-> (count * w[i]) \div W]
           before(i) == {j \in 1 .. k : \/ (count * w[j]) % W > (count * w[i]) % W
                                        \/ (count * w[j]) % W = (count * w[i]) % W /\ j < i}
           extra(i) == IF Cardinality(before(i)) < count - Total(fl) THEN 1 ELSE 0
<1>1. W \in Nat \ {0}
  <2>a. IsFiniteSet(1 .. k)
    BY FS_Interval
  <2>1. IsFiniteSet(1 .. k) /\ DOMAIN w = 1 .. k /\ \A i \in DOMAIN w : w[i] \in Nat
    BY <2>a
  <2>2. SumFunction(w) \in Nat
    BY <2>1, SumOfCounts
  <2> QED
    BY <2>2 DEF Total
<1>2. AllocateCounts(w, count) = [i \in 1 .. k |-> fl[i] + extra(i)]
  <2>1. DOMAIN w = 1 .. k
    OBVIOUS
  <2> QED
    BY <2>1 DEF AllocateCounts
<1>3. \A i \in 1 .. k : fl[i] \in Nat
  <2> SUFFICES ASSUME NEW i \in 1 .. k PROVE (count * w[i]) \div W \in Nat
    OBVIOUS
  <2>1. count * w[i] \in Nat
    <3>1. w[i] \in Nat
      OBVIOUS
    <3> QED
      BY <3>1
  <2> HIDE DEF W
  <2> QED
    BY <1>1, <2>1, QuotientGrows
<1>4. \A i : extra(i) \in Nat
  OBVIOUS
<1> HIDE DEF fl, extra
<1>5. \A i \in 1 .. k : fl[i] + extra(i) \in Nat
  BY <1>3, <1>4
<1> QED
  BY <1>2, <1>5

\* What a proposed candidate is.
Proposed ==
  question.kind = "candidate" =>
    /\ question.of \in Tries
    /\ answer # Pending => answer \in Canonical(question.of)

\* Every form that canonical_parameters may give a try keeps the mean and the
\* bounds, sends every vehicle and is its own canonical form.
LEMMA CanonicalForms ==
  ASSUME NEW t \in Tries, NEW a \in Canonical(t)
  PROVE  /\ Total(a.peaks) = MeanPeak * Len(a.peaks)
         /\ \A i \in DOMAIN a.peaks :
              Low <= a.peaks[i] /\ a.peaks[i] <= High /\ a.peaks[i] % Grid = 0
         /\ CountLow <= a.count /\ a.count <= CountHigh
         /\ Total(a.shares) = a.count
         /\ Canonical(a) = {a}
<1>1. /\ t.count \in Nat /\ t.shares \in Seq(Nat) /\ Total(t.shares) > 0
      /\ t.peaks \in Seq(Int) /\ Len(t.peaks) > 0 /\ (MeanPeak * Len(t.peaks)) % Grid = 0
  BY CandidateAssumption DEF Total
<1>2. /\ CountLow \in Nat /\ CountHigh \in Nat /\ CountStep \in Nat \ {0}
      /\ CountLow % CountStep = 0 /\ CountHigh % CountStep = 0
      /\ 0 < CountLow /\ CountLow <= CountHigh
  BY CandidateAssumption
<1> DEFINE Counts(n) == {Clamp(m * CountStep, CountLow, CountHigh) : m \in NearestWhole(n, CountStep)}
           Forms(x) == {[count |-> count, shares |-> AllocateCounts(x.shares, count), peaks |-> peaks]
                          : count \in Counts(x.count), peaks \in NormalizePeaks(x.peaks)}
<1>3. \A x : Canonical(x) = Forms(x)
  BY DEF Canonical
<1>4. PICK count \in Counts(t.count), peaks \in NormalizePeaks(t.peaks) :
        a = [count |-> count, shares |-> AllocateCounts(t.shares, count), peaks |-> peaks]
  <2> HIDE DEF Counts
  <2> QED
    BY <1>3
<1>5. a.count = count /\ a.shares = AllocateCounts(t.shares, count) /\ a.peaks = peaks
  BY <1>4
<1>6. count \in Nat /\ CountLow <= count /\ count <= CountHigh /\ count % CountStep = 0
  <2>1. PICK m \in NearestWhole(t.count, CountStep) : count = Clamp(m * CountStep, CountLow, CountHigh)
    OBVIOUS
  <2>2. m \in Int
    BY <1>1, <1>2, <2>1, NearestOf
  <2>3. LET c == Clamp(m * CountStep, CountLow, CountHigh)
        IN  c \in Nat /\ CountLow <= c /\ c <= CountHigh /\ c % CountStep = 0
    BY <1>2, <2>2, RoundedWithin
  <2> QED
    BY <2>1, <2>3
<1>7. Counts(count) = {count}
  <2>1. RoundedTo(CountLow, CountHigh, CountStep, count) = {count}
    BY <1>2, <1>6, RoundedAgain
  <2> QED
    BY <2>1 DEF RoundedTo
<1> HIDE DEF Counts
<1> DEFINE k == Len(t.peaks)
           o == Len(t.shares)
<1>8. k \in Nat \ {0} /\ o \in Nat /\ t.shares \in [1 .. o -> Nat]
  BY <1>1
<1>9. OnGrid(k, peaks) /\ Total(peaks) = MeanPeak * k
  BY <1>1, PeaksReachMean
<1>10. DOMAIN peaks = 1 .. k /\ Len(peaks) = k
  <2>1. peaks \in [1 .. k -> Nat]
    BY <1>9 DEF OnGrid
  <2> HIDE DEF k
  <2> QED
    BY <1>8, <2>1
<1>11. NormalizePeaks(peaks) = {peaks}
  BY <1>8, <1>9, <1>10, ProjectionIsSame
<1> DEFINE shares == AllocateCounts(t.shares, count)
<1> HIDE DEF k, o
<1>12. shares \in [1 .. o -> Nat] /\ Total(shares) = count
  BY <1>1, <1>6, <1>8, AllocationTypes, AllocationsAddUp
<1> HIDE DEF shares
<1>13. AllocateCounts(shares, count) = shares
  <2>1. count \in Nat \ {0}
    BY <1>2, <1>6
  <2> QED
    BY <2>1, <1>8, <1>12, AllocationIsSame
<1>14. a = [count |-> count, shares |-> shares, peaks |-> peaks]
  BY <1>4 DEF shares
<1>15. Canonical(a) = {a}
  <2>1. a.count = count /\ a.shares = shares /\ a.peaks = peaks
    BY <1>14
  <2>2. Canonical(a) = {[count |-> n, shares |-> AllocateCounts(a.shares, n), peaks |-> q]
                          : n \in Counts(a.count), q \in NormalizePeaks(a.peaks)}
    BY <1>3
  <2>3. Canonical(a) = {[count |-> n, shares |-> AllocateCounts(shares, n), peaks |-> q]
                          : n \in {count}, q \in {peaks}}
    BY <1>7, <1>11, <2>1, <2>2
  <2>4. Canonical(a) = {[count |-> count, shares |-> AllocateCounts(shares, count), peaks |-> peaks]}
    BY <2>3
  <2> QED
    BY <1>13, <1>14, <2>4
<1>16. \A i \in 1 .. k : Low <= peaks[i] /\ peaks[i] <= High /\ peaks[i] % Grid = 0
  BY <1>9 DEF OnGrid
<1> QED
  BY <1>5, <1>6, <1>9, <1>10, <1>12, <1>15, <1>16 DEF shares

\* A candidate of the vehicle calibration keeps the mean of its peaks and every
\* bound, sends every vehicle from an origin and is its own canonical form, for
\* any try and any grid (canonical_parameters, project_sum_with_bounds).
THEOREM CandidatesCanonicalHolds == PlanningSpec => []CandidatesCanonical
<1>1. PlanningInit => Proposed
  BY DEF PlanningInit, Proposed
<1>2. Proposed /\ [PlanningNext]_planningVars => Proposed'
  <2> SUFFICES ASSUME Proposed, [PlanningNext]_planningVars PROVE Proposed'
    OBVIOUS
  <2>1. CASE BuildPlan
    BY <2>1 DEF Proposed, BuildPlan
  <2>2. CASE ProposeCandidate
    BY <2>2 DEF Proposed, ProposeCandidate
  <2>3. CASE UpdateProfile
    BY <2>3 DEF Proposed, UpdateProfile
  <2>4. CASE UNCHANGED planningVars
    BY <2>4 DEF Proposed, planningVars
  <2> QED
    BY <2>1, <2>2, <2>3, <2>4 DEF PlanningNext
<1>3. Proposed => CandidatesCanonical
  <2>1. CASE answer # Pending /\ question.kind = "candidate"
    <3> SUFFICES ASSUME Proposed PROVE CandidatesCanonical
      OBVIOUS
    <3>1. question.of \in Tries /\ answer \in Canonical(question.of)
      BY <2>1 DEF Proposed
    <3> QED
      BY <3>1, CanonicalForms DEF CandidatesCanonical
  <2>2. CASE ~(answer # Pending /\ question.kind = "candidate")
    BY <2>2 DEF CandidatesCanonical
  <2> QED
    BY <2>1, <2>2
<1> QED
  BY <1>1, <1>2, <1>3, PTL DEF PlanningSpec

=============================================================================
