---------------------- MODULE ExperimentCampaign_proofs ----------------------
(***************************************************************************)
(* Proofs about ExperimentCampaign for every number of points, budgets,    *)
(* widths, retries, kills and failures: every state has its type, no run   *)
(* that still goes on is forgotten by the checkpoint, there are never more *)
(* runs in flight than the width allows, a batch waits for the one before  *)
(* it, no item is simulated more often than its retries account for, and   *)
(* what was validated stays valid.                                         *)
(*                                                                         *)
(* The invariant says what a state of the campaign, the one in memory or   *)
(* the one on disk, knows of the runs of the server.  Most steps of the    *)
(* loop change items in place and keep that knowledge (Faithful).          *)
(***************************************************************************)
EXTENDS ExperimentCampaign, SequenceTheorems, FiniteSetTheorems, TLAPS

Job == [item : Nat \ {0}, status : {"queued", "completed", "failed"}]

-----------------------------------------------------------------------------
(* Types.                                                                  *)

LEMMA MappedSeq ==
  ASSUME NEW S, NEW s \in Seq(S), NEW t, t = [i \in DOMAIN s |-> t[i]],
         \A i \in DOMAIN s : t[i] \in S
  PROVE  t \in Seq(S) /\ Len(t) = Len(s) /\ DOMAIN t = DOMAIN s
<1>1. Len(s) \in Nat /\ DOMAIN s = 1 .. Len(s)
  OBVIOUS
<1>2. t \in [1 .. Len(s) -> S]
  BY <1>1
<1> QED
  BY <1>1, <1>2, SeqDef

LEMMA PolledType ==
  ASSUME TypeOK, NEW item \in Item,
         item.run # 0 => item.run \in DOMAIN server
  PROVE  Polled(item) \in Item
<1>1. CASE item.run = 0 \/ item.status = "valid"
  BY <1>1 DEF Polled
<1>2. CASE ~(item.run = 0 \/ item.status = "valid")
  <2>1. server[item.run].status \in {"queued", "completed", "failed"}
    <3>1. server \in Seq(Job)
      BY DEF TypeOK, Job
    <3>2. server[item.run] \in Job
      BY <1>2, <3>1
    <3> QED
      BY <3>2 DEF Job
  <2>2. server[item.run].status \in Statuses
    BY <2>1 DEF Statuses, Active, Ended
  <2>3. Polled(item) = [item EXCEPT !.status = server[item.run].status]
    BY <1>2 DEF Polled
  <2> QED
    BY <2>2, <2>3 DEF Item
<1> QED
  BY <1>1, <1>2

LEMMA ResetType ==
  ASSUME NEW item \in Item
  PROVE  Reset(item) \in Item /\ Reset(item).phase = item.phase
         /\ Reset(item).run = 0 /\ Reset(item).status = "planned"
<1>1. "planned" \in Statuses /\ 0 \in 0 .. MaxTries /\ 0 \in Nat
  BY CampaignAssumption DEF CampaignAssumption, Statuses
<1> DEFINE r1 == [item EXCEPT !.status = "planned"]
           r2 == [r1 EXCEPT !.run = 0]
           r3 == [r2 EXCEPT !.tries = 0]
           r4 == [r3 EXCEPT !.result = "none"]
<1>2. r1 \in Item /\ r1.phase = item.phase /\ r1.status = "planned"
  BY <1>1 DEF Item
<1>3. r2 \in Item /\ r2.phase = item.phase /\ r2.status = "planned" /\ r2.run = 0
  <2> HIDE DEF r1
  <2> QED
    BY <1>1, <1>2 DEF Item
<1>4. r3 \in Item /\ r3.phase = item.phase /\ r3.status = "planned" /\ r3.run = 0
  <2> HIDE DEF r2
  <2> QED
    BY <1>1, <1>3 DEF Item
<1>5. r4 \in Item /\ r4.phase = item.phase /\ r4.status = "planned" /\ r4.run = 0
  <2> HIDE DEF r3
  <2> QED
    BY <1>1, <1>4 DEF Item
<1>6. Reset(item) = r4
  BY DEF Reset
<1> QED
  BY <1>5, <1>6

LEMMA TriedType ==
  ASSUME NEW item \in Item
  PROVE  /\ Tried(item) \in Item
         /\ Tried(item).status = item.status
         /\ Tried(item).run = item.run
         /\ Tried(item).phase = item.phase
<1>1. (IF item.tries < MaxTries THEN item.tries + 1 ELSE item.tries) \in 0 .. MaxTries
  BY CampaignAssumption DEF CampaignAssumption, Item
<1> QED
  BY <1>1 DEF Tried, Item

LEMMA GiveUpOrRetryType ==
  ASSUME NEW item \in Item, NEW as \in Item, as.phase = item.phase,
         as.status \notin Active, as.run = item.run
  PROVE  LET new == GiveUpOrRetry(item, as) IN
         /\ new \in Item
         /\ new.phase = item.phase
         /\ new.status \notin Active
         /\ new.run \in {0, item.run}
<1>1. "planned" \notin Active
  BY DEF Active
<1> QED
  BY <1>1, ResetType DEF GiveUpOrRetry

LEMMA CollectedType ==
  ASSUME TypeOK, NEW item \in Item, item.status \in {"completed", "failed"},
         NEW analytics \in {"good", "bad", "missing"}
  PROVE  LET new == Collected(item, analytics) IN
         /\ new \in Item
         /\ new.phase = item.phase
         /\ new.status \notin Active
         /\ new.run \in {0, item.run}
<1> DEFINE Fine(new) == /\ new \in Item
                        /\ new.phase = item.phase
                        /\ new.status \notin Active
                        /\ new.run \in {0, item.run}
<1>1. \A st \in {"completed", "failed", "valid", "invalid"} : st \notin Active /\ st \in Statuses
  BY DEF Active, Statuses, Ended
<1>2. ASSUME NEW st \in {"valid", "invalid"}, NEW old \in Item,
             old.phase = item.phase, old.run = item.run
      PROVE  /\ [old EXCEPT !.status = st] \in Item
             /\ [old EXCEPT !.status = st].phase = item.phase
             /\ [old EXCEPT !.status = st].run = item.run
             /\ [old EXCEPT !.status = st].status \notin Active
  BY <1>1, <1>2 DEF Item
<1>3. ASSUME NEW st \in {"valid", "invalid"}
      PROVE  /\ [item EXCEPT !.status = st, !.result = st] \in Item
             /\ [item EXCEPT !.status = st, !.result = st].phase = item.phase
             /\ [item EXCEPT !.status = st, !.result = st].run = item.run
             /\ [item EXCEPT !.status = st, !.result = st].status \notin Active
  BY <1>1, <1>3 DEF Item
<1>4. Fine(Scored(item, analytics))
  <2>1. CASE item.status = "failed"
    BY <1>1, <2>1, GiveUpOrRetryType DEF Scored
  <2>2. CASE item.status = "completed" /\ analytics = "good"
    BY <1>3, <2>2 DEF Scored
  <2>3. CASE item.status = "completed" /\ analytics = "bad"
    <3> DEFINE as == [item EXCEPT !.status = "invalid", !.result = "invalid"]
    <3>1. /\ as \in Item /\ as.phase = item.phase
          /\ as.run = item.run /\ as.status \notin Active
      BY <1>3
    <3>2. Scored(item, analytics) = GiveUpOrRetry(item, as)
      BY <2>3 DEF Scored
    <3> HIDE DEF as
    <3> QED
      BY <3>1, <3>2, GiveUpOrRetryType
  <2>4. CASE item.status = "completed" /\ analytics = "missing"
    <3> DEFINE old == Tried(item)
               as == [old EXCEPT !.status = "invalid"]
    <3>1. /\ old \in Item /\ old.phase = item.phase
          /\ old.run = item.run /\ old.status = item.status
      BY TriedType
    <3>2. /\ as \in Item /\ as.phase = item.phase
          /\ as.run = item.run /\ as.status \notin Active
      BY <1>2, <3>1
    <3>3. Scored(item, analytics) =
            IF old.tries < MaxTries THEN old ELSE GiveUpOrRetry(old, as)
      BY <2>4 DEF Scored
    <3> HIDE DEF as, old
    <3> QED
      <4>1. CASE old.tries < MaxTries
        <5>1. Scored(item, analytics) = old
          BY <3>3, <4>1
        <5> QED
          BY <1>1, <2>4, <3>1, <5>1
      <4>2. CASE ~(old.tries < MaxTries)
        <5>1. Scored(item, analytics) = GiveUpOrRetry(old, as)
          BY <3>3, <4>2
        <5>2. as.phase = old.phase /\ as.run = old.run
          BY <3>1, <3>2
        <5>3. Fine(GiveUpOrRetry(old, as))
          BY <3>1, <3>2, <5>2, GiveUpOrRetryType
        <5> QED
          BY <5>1, <5>3
      <4> QED
        BY <4>1, <4>2
  <2> QED
    BY <2>1, <2>2, <2>3, <2>4
<1>5. Fine(Extracted(item, analytics))
  <2>1. CASE item.status = "failed"
    BY <1>1, <2>1 DEF Extracted
  <2>2. CASE item.status = "completed" /\ analytics \in {"good", "bad"}
    <3>1. Extracted(item, analytics) = [item EXCEPT !.result = "valid"]
      BY <2>2 DEF Extracted
    <3> QED
      BY <1>1, <2>2, <3>1 DEF Item
  <2>3. CASE item.status = "completed" /\ analytics = "missing"
    <3> DEFINE old == Tried(item)
    <3>1. /\ old \in Item /\ old.phase = item.phase
          /\ old.run = item.run /\ old.status = item.status
      BY TriedType
    <3>2. Extracted(item, analytics) =
            IF old.tries < MaxTries THEN old ELSE [old EXCEPT !.result = "failed"]
      BY <2>3 DEF Extracted
    <3> HIDE DEF old
    <3> QED
      BY <1>1, <2>3, <3>1, <3>2 DEF Item
  <2> QED
    BY <2>1, <2>2, <2>3
<1> QED
  BY <1>4, <1>5 DEF Collected


LEMMA SeqOfFunction ==
  ASSUME NEW S, NEW n \in Nat, NEW t \in [1 .. n -> S]
  PROVE  t \in Seq(S) /\ Len(t) = n /\ DOMAIN t = 1 .. n
BY SeqDef

LEMMA NewType ==
  ASSUME NEW phase \in Phases \cup {"study"}, NEW batch \in Nat, NEW parent \in Nat
  PROVE  New(phase, batch, parent) \in Item
BY CampaignAssumption DEF CampaignAssumption, New, Item, Statuses

-----------------------------------------------------------------------------
(* The inductive invariant.                                                *)

\* What a state knows: its items name runs of the server, an item whose run goes
\* on is active, every run that goes on is the one its item names, except those
\* in "cut", and not too many items are active.
Good(s, sv, cut) ==
  /\ \A i \in DOMAIN s.items :
       /\ s.items[i].run \in 0 .. Len(sv)
       /\ s.items[i].run # 0 /\ sv[s.items[i].run].status = "queued"
            => s.items[i].status \in Active
  /\ \A r \in DOMAIN sv :
       sv[r].status = "queued" /\ r \notin cut =>
         sv[r].item \in DOMAIN s.items /\ s.items[sv[r].item].run = r
  /\ InFlight(s) <= Width

\* The POST on its way is not known to any state yet.
Cut == orphans \cup (IF pc = "posted" THEN {Len(server)} ELSE {})

PostOnItsWay ==
  /\ posted \in DOMAIN mem.items
  /\ mem.items[posted].status = "planned"
  /\ InFlight(mem) < Width
  /\ Len(server) # 0
  /\ server[Len(server)].item = posted

\* The process has planned all that the checkpoint has, and perhaps more.
Grows(s, t) ==
  \A i \in DOMAIN s.items : i \in DOMAIN t.items /\ t.items[i].phase = s.items[i].phase

Inv ==
  /\ TypeOK
  /\ Good(mem, server, Cut)
  /\ Good(disk, server, Cut)
  /\ IF pc = "posted" THEN PostOnItsWay ELSE posted = 0
  /\ Grows(disk, mem)

\* A step from s to t that changes items in place: nothing becomes active, and
\* an item whose run goes on stays as it is.
Faithful(s, t, sv) ==
  /\ DOMAIN t.items = DOMAIN s.items
  /\ \A i \in DOMAIN s.items :
       /\ t.items[i].phase = s.items[i].phase
       /\ t.items[i].status \in Active => s.items[i].status \in Active
       /\ t.items[i].run \in {0, s.items[i].run}
       /\ s.items[i].run # 0 /\ sv[s.items[i].run].status = "queued" =>
            t.items[i].run = s.items[i].run /\ t.items[i].status \in Active

LEMMA StateItems ==
  ASSUME NEW s \in State
  PROVE  /\ s.items \in Seq(Item)
         /\ Len(s.items) \in Nat
         /\ DOMAIN s.items = 1 .. Len(s.items)
         /\ \A i \in DOMAIN s.items : s.items[i] \in Item
BY DEF State

LEMMA FiniteItems ==
  ASSUME NEW s \in State, NEW T, T \subseteq DOMAIN s.items
  PROVE  IsFiniteSet(T) /\ Cardinality(T) \in Nat
<1>1. IsFiniteSet(1 .. Len(s.items))
  BY StateItems, FS_Interval
<1> QED
  BY <1>1, StateItems, FS_Subset, FS_CardinalityType

LEMMA InFlightShrinks ==
  ASSUME NEW s \in State, NEW t \in State, DOMAIN t.items = DOMAIN s.items,
         \A i \in DOMAIN s.items : t.items[i].status \in Active => s.items[i].status \in Active
  PROVE  InFlight(t) <= InFlight(s) /\ InFlight(t) \in Nat /\ InFlight(s) \in Nat
<1> DEFINE A(state) == {i \in DOMAIN state.items : state.items[i].status \in Active}
<1>1. A(t) \subseteq A(s) /\ A(s) \subseteq DOMAIN s.items /\ A(t) \subseteq DOMAIN t.items
  OBVIOUS
<1>2. IsFiniteSet(A(s)) /\ Cardinality(A(s)) \in Nat /\ Cardinality(A(t)) \in Nat
  <2> HIDE DEF A
  <2> QED
    BY <1>1, FiniteItems
<1>3. Cardinality(A(t)) <= Cardinality(A(s))
  <2> HIDE DEF A
  <2> QED
    BY <1>1, <1>2, FS_Subset
<1> QED
  BY <1>2, <1>3 DEF InFlight

LEMMA FaithfulGood ==
  ASSUME NEW s \in State, NEW t \in State, NEW sv \in Seq(Job), NEW cut,
         Good(s, sv, cut), Faithful(s, t, sv)
  PROVE  Good(t, sv, cut)
<1>1. InFlight(t) <= Width
  <2>1. InFlight(s) <= Width /\ Width \in Nat
    BY CampaignAssumption DEF Good, CampaignAssumption
  <2>2. InFlight(t) <= InFlight(s) /\ InFlight(t) \in Nat /\ InFlight(s) \in Nat
    BY InFlightShrinks DEF Faithful
  <2> QED
    BY <2>1, <2>2
<1>2. ASSUME NEW i \in DOMAIN t.items
      PROVE  /\ t.items[i].run \in 0 .. Len(sv)
             /\ t.items[i].run # 0 /\ sv[t.items[i].run].status = "queued"
                  => t.items[i].status \in Active
  BY DEF Good, Faithful
<1>3. ASSUME NEW r \in DOMAIN sv, sv[r].status = "queued", r \notin cut
      PROVE  sv[r].item \in DOMAIN t.items /\ t.items[sv[r].item].run = r
  <2>1. sv[r].item \in DOMAIN s.items /\ s.items[sv[r].item].run = r /\ r # 0
    BY <1>3 DEF Good
  <2> QED
    BY <1>3, <2>1 DEF Faithful
<1> QED
  BY <1>1, <1>2, <1>3 DEF Good

\* Good only speaks of what goes on: runs may end, and more may be cut off.
LEMMA GoodLater ==
  ASSUME NEW s \in State, NEW sv \in Seq(Job), NEW sv2 \in Seq(Job),
         NEW cut, NEW cut2, Good(s, sv, cut),
         Len(sv2) = Len(sv),
         \A r \in DOMAIN sv : sv2[r].item = sv[r].item
                              /\ (sv2[r].status = "queued" => sv[r].status = "queued"),
         cut \subseteq cut2
  PROVE  Good(s, sv2, cut2)
<1>1. DOMAIN sv = 1 .. Len(sv) /\ DOMAIN sv2 = 1 .. Len(sv) /\ Len(sv) \in Nat
  OBVIOUS
<1> QED
  BY <1>1 DEF Good

\* A run more, that is cut off for the time being.
LEMMA GoodPosted ==
  ASSUME NEW s \in State, NEW sv \in Seq(Job), NEW cut, NEW job \in Job,
         Good(s, sv, cut)
  PROVE  Good(s, Append(sv, job), cut \cup {Len(sv) + 1})
<1> DEFINE sv2 == Append(sv, job)
<1>1. /\ Len(sv) \in Nat /\ DOMAIN sv = 1 .. Len(sv)
      /\ Len(sv2) = Len(sv) + 1 /\ DOMAIN sv2 = 1 .. Len(sv) + 1
      /\ \A r \in 1 .. Len(sv) : sv2[r] = sv[r]
  OBVIOUS
<1> HIDE DEF sv2
<1>2. Good(s, sv2, cut \cup {Len(sv) + 1})
  BY <1>1 DEF Good
<1> QED
  BY <1>2 DEF sv2


-----------------------------------------------------------------------------
(* Steps that change items in place.                                       *)

LEMMA ServerJobs ==
  ASSUME TypeOK
  PROVE  server \in Seq(Job) /\ Len(server) \in Nat /\ DOMAIN server = 1 .. Len(server)
BY DEF TypeOK, Job

LEMMA ChangedItems ==
  ASSUME NEW s \in State, NEW u, u = [i \in DOMAIN s.items |-> u[i]],
         \A i \in DOMAIN s.items : u[i] \in Item
  PROVE  LET t == [s EXCEPT !.items = u] IN
         /\ t \in State
         /\ t.items = u
         /\ t.phase = s.phase
         /\ DOMAIN t.items = DOMAIN s.items
         /\ Len(t.items) = Len(s.items)
<1>1. u \in Seq(Item) /\ Len(u) = Len(s.items) /\ DOMAIN u = DOMAIN s.items
  <2>1. s.items \in Seq(Item)
    BY StateItems
  <2> QED
    BY <2>1, MappedSeq
<1> QED
  BY <1>1 DEF State

LEMMA PolledFaithful ==
  ASSUME TypeOK, NEW s \in State, NEW cut, Good(s, server, cut)
  PROVE  LET t == [s EXCEPT !.items = [i \in DOMAIN @ |-> Polled(@[i])]] IN
         t \in State /\ Faithful(s, t, server) /\ Len(t.items) = Len(s.items)
<1> DEFINE u == [i \in DOMAIN s.items |-> Polled(s.items[i])]
           t == [s EXCEPT !.items = u]
<1>1. server \in Seq(Job) /\ Len(server) \in Nat /\ DOMAIN server = 1 .. Len(server)
  BY ServerJobs
<1>2. ASSUME NEW i \in DOMAIN s.items
      PROVE  /\ u[i] \in Item
             /\ u[i].phase = s.items[i].phase
             /\ u[i].status \in Active => s.items[i].status \in Active
             /\ u[i].run = s.items[i].run
             /\ s.items[i].run # 0 /\ server[s.items[i].run].status = "queued" =>
                  u[i].status \in Active
  <2> DEFINE item == s.items[i]
  <2>1. item \in Item
    BY StateItems
  <2>2. /\ item.run \in 0 .. Len(server)
        /\ item.run # 0 /\ server[item.run].status = "queued" => item.status \in Active
    BY DEF Good
  <2>3. item.run # 0 => item.run \in DOMAIN server /\ server[item.run] \in Job
    BY <1>1, <2>2
  <2>4. u[i] = Polled(item)
    OBVIOUS
  <2> HIDE DEF item, u
  <2>5. u[i] \in Item
    BY <2>1, <2>3, <2>4, PolledType
  <2>6. CASE item.run = 0 \/ item.status = "valid"
    <3>1. u[i] = item
      BY <2>4, <2>6 DEF Polled
    <3> QED
      BY <2>2, <2>5, <3>1 DEF item
  <2>7. CASE ~(item.run = 0 \/ item.status = "valid")
    <3>1. u[i] = [item EXCEPT !.status = server[item.run].status]
      BY <2>4, <2>7 DEF Polled
    <3>2. /\ u[i].phase = item.phase
          /\ u[i].run = item.run
          /\ u[i].status = server[item.run].status
      BY <2>1, <3>1 DEF Item
    <3>3. server[item.run].status \in {"queued", "completed", "failed"}
      BY <2>3, <2>7 DEF Job
    <3>4. u[i].status \in Active => server[item.run].status = "queued"
      BY <3>2, <3>3 DEF Active
    <3>5. server[item.run].status = "queued" => u[i].status \in Active
      BY <3>2 DEF Active
    <3> QED
      BY <2>2, <2>5, <2>7, <3>2, <3>4, <3>5 DEF item
  <2> QED
    BY <2>6, <2>7
<1>3. u = [i \in DOMAIN s.items |-> u[i]]
  OBVIOUS
<1>4. t = [s EXCEPT !.items = [i \in DOMAIN @ |-> Polled(@[i])]]
  OBVIOUS
<1> HIDE DEF u
<1>5. t \in State /\ t.items = u /\ DOMAIN t.items = DOMAIN s.items
      /\ Len(t.items) = Len(s.items)
  BY <1>2, <1>3, ChangedItems
<1> HIDE DEF t
<1>6. Faithful(s, t, server)
  BY <1>2, <1>5 DEF Faithful
<1> QED
  BY <1>4, <1>5, <1>6

\* Items that are not active can be reset or given what the analytics say.
LEMMA IdleFaithful ==
  ASSUME NEW s \in State, NEW sv, NEW cut, Good(s, sv, cut),
         NEW u, u = [i \in DOMAIN s.items |-> u[i]],
         \A i \in DOMAIN s.items :
           \/ u[i] = s.items[i]
           \/ /\ s.items[i].status \notin Active
              /\ u[i] \in Item
              /\ u[i].phase = s.items[i].phase
              /\ u[i].status \notin Active
              /\ u[i].run \in {0, s.items[i].run}
  PROVE  LET t == [s EXCEPT !.items = u] IN
         t \in State /\ Faithful(s, t, sv) /\ Len(t.items) = Len(s.items)
<1> DEFINE t == [s EXCEPT !.items = u]
<1>1. \A i \in DOMAIN s.items : u[i] \in Item
  BY StateItems
<1>2. t \in State /\ t.items = u /\ DOMAIN t.items = DOMAIN s.items
      /\ Len(t.items) = Len(s.items)
  BY <1>1, ChangedItems
<1> HIDE DEF t
<1>3. ASSUME NEW i \in DOMAIN s.items
      PROVE  /\ u[i].phase = s.items[i].phase
             /\ u[i].status \in Active => s.items[i].status \in Active
             /\ u[i].run \in {0, s.items[i].run}
             /\ s.items[i].run # 0 /\ sv[s.items[i].run].status = "queued" =>
                  u[i].run = s.items[i].run /\ u[i].status \in Active
  BY DEF Good
<1>4. Faithful(s, t, sv)
  BY <1>2, <1>3 DEF Faithful
<1> QED
  BY <1>2, <1>4 DEF t

LEMMA RetriedFaithful ==
  ASSUME NEW s \in State, NEW sv, NEW cut, Good(s, sv, cut)
  PROVE  LET t == [s EXCEPT !.items =
                     [i \in DOMAIN @ |-> IF Retryable(@[i]) THEN Reset(@[i]) ELSE @[i]]] IN
         t \in State /\ Faithful(s, t, sv) /\ Len(t.items) = Len(s.items)
<1> DEFINE u == [i \in DOMAIN s.items |->
                   IF Retryable(s.items[i]) THEN Reset(s.items[i]) ELSE s.items[i]]
           t == [s EXCEPT !.items =
                     [i \in DOMAIN @ |-> IF Retryable(@[i]) THEN Reset(@[i]) ELSE @[i]]]
<1>1. t = [s EXCEPT !.items = u]
  OBVIOUS
<1>2. u = [i \in DOMAIN s.items |-> u[i]]
  OBVIOUS
<1>3. ASSUME NEW i \in DOMAIN s.items
      PROVE  \/ u[i] = s.items[i]
             \/ /\ s.items[i].status \notin Active
                /\ u[i] \in Item
                /\ u[i].phase = s.items[i].phase
                /\ u[i].status \notin Active
                /\ u[i].run \in {0, s.items[i].run}
  <2>1. CASE Retryable(s.items[i])
    <3>1. s.items[i] \in Item
      BY StateItems
    <3>2. s.items[i].status \notin Active
      BY <2>1 DEF Retryable, Active
    <3>3. u[i] = Reset(s.items[i])
      BY <2>1
    <3>4. "planned" \notin Active
      BY DEF Active
    <3> HIDE DEF u
    <3> QED
      BY <3>1, <3>2, <3>3, <3>4, ResetType
  <2>2. CASE ~Retryable(s.items[i])
    BY <2>2
  <2> QED
    BY <2>1, <2>2
<1> HIDE DEF u, t
<1>4. LET v == [s EXCEPT !.items = u] IN
      v \in State /\ Faithful(s, v, sv) /\ Len(v.items) = Len(s.items)
  BY <1>2, <1>3, IdleFaithful
<1>5. t \in State /\ Faithful(s, t, sv) /\ Len(t.items) = Len(s.items)
  BY <1>1, <1>4
<1> QED
  BY <1>5 DEF t

-----------------------------------------------------------------------------
(* Growing the plan.                                                       *)

LEMMA SeqOfInterval ==
  ASSUME NEW S, NEW d \in Int, NEW t, t = [k \in 1 .. d |-> t[k]],
         \A k \in 1 .. d : t[k] \in S
  PROVE  t \in Seq(S) /\ DOMAIN t = 1 .. d
<1>1. CASE d >= 0
  <2>1. d \in Nat /\ t \in [1 .. d -> S]
    BY <1>1
  <2> QED
    BY <2>1, SeqOfFunction
<1>2. CASE d < 0
  <2>1. 1 .. d = 1 .. 0
    BY <1>2
  <2>2. t \in [1 .. 0 -> S] /\ 0 \in Nat
    BY <2>1
  <2> QED
    BY <2>1, <2>2, SeqOfFunction
<1> QED
  BY <1>1, <1>2

LEMMA EmptyDomain ==
  ASSUME NEW S, NEW s \in Seq(S), DOMAIN s = {}
  PROVE  s = <<>>
<1>1. Len(s) \in Nat /\ DOMAIN s = 1 .. Len(s)
  OBVIOUS
<1>2. Len(s) = 0
  <2>1. ~(1 \in 1 .. Len(s))
    BY <1>1
  <2> QED
    BY <1>1, <2>1
<1> QED
  BY <1>2, EmptySeq

LEMMA BatchNumber ==
  ASSUME NEW x \in Nat
  PROVE  x \div Width + 1 \in Nat
BY CampaignAssumption DEF CampaignAssumption

LEMMA CountOf ==
  ASSUME NEW s \in State, NEW phase
  PROVE  IsFiniteSet(Of(s.items, phase)) /\ Cardinality(Of(s.items, phase)) \in Nat
<1>1. Of(s.items, phase) \subseteq DOMAIN s.items
  BY DEF Of
<1> QED
  BY <1>1, FiniteItems

\* What is added is planned, and of the phase.
Adds(items, grown, phase) ==
  \E new \in Seq(Item) :
    /\ grown = items \o new
    /\ \A k \in DOMAIN new : /\ new[k].phase = phase
                             /\ new[k].status = "planned"
                             /\ new[k].run = 0
                             /\ new[k].attempt = 0

LEMMA GrownType ==
  ASSUME NEW s \in State, NEW phase \in Phases, NEW total \in Int, NEW parent,
         \A k \in 1 .. total : parent[k] \in Nat
  PROVE  /\ Adds(s.items, Grown(s.items, phase, total, parent), phase)
         /\ total <= Cardinality(Of(s.items, phase)) =>
              Grown(s.items, phase, total, parent) = s.items
<1> DEFINE n == Cardinality(Of(s.items, phase))
           new == [k \in 1 .. total - n |->
                     New(phase, (n + k - 1) \div Width + 1, parent[n + k])]
<1>1. n \in Nat
  BY CountOf
<1>2. Grown(s.items, phase, total, parent) = s.items \o new
  BY DEF Grown
<1>3. ASSUME NEW k \in 1 .. total - n
      PROVE  /\ new[k] \in Item
             /\ new[k].phase = phase
             /\ new[k].status = "planned"
             /\ new[k].run = 0
             /\ new[k].attempt = 0
  <2> HIDE DEF n
  <2>1. n + k \in 1 .. total /\ n + k - 1 \in Nat
    BY <1>1
  <2>2. parent[n + k] \in Nat /\ (n + k - 1) \div Width + 1 \in Nat
    BY <2>1, BatchNumber
  <2>3. phase \in Phases \cup {"study"}
    OBVIOUS
  <2>4. new[k] = New(phase, (n + k - 1) \div Width + 1, parent[n + k])
    OBVIOUS
  <2>5. New(phase, (n + k - 1) \div Width + 1, parent[n + k]) \in Item
    BY <2>2, <2>3, NewType
  <2> QED
    BY <2>4, <2>5 DEF New
<1>4. new = [k \in 1 .. total - n |-> new[k]] /\ total - n \in Int
  <2> HIDE DEF n
  <2> QED
    BY <1>1
<1> HIDE DEF n, new
<1>5. new \in Seq(Item) /\ DOMAIN new = 1 .. total - n
  BY <1>3, <1>4, SeqOfInterval
<1>6. total <= n => s.items \o new = s.items
  <2>1. SUFFICES ASSUME total <= n PROVE s.items \o new = s.items
    OBVIOUS
  <2>2. 1 .. total - n = {}
    BY <1>1, <2>1
  <2>3. new = <<>>
    BY <1>5, <2>2, EmptyDomain
  <2> QED
    BY <2>3, StateItems, ConcatEmptySeq
<1>7. Adds(s.items, s.items \o new, phase)
  BY <1>3, <1>5 DEF Adds
<1> QED
  BY <1>2, <1>6, <1>7 DEF n

LEMMA Appended ==
  ASSUME NEW s \in State, NEW sv, NEW cut, Good(s, sv, cut), NEW new \in Seq(Item),
         \A k \in DOMAIN new : new[k].status = "planned" /\ new[k].run = 0,
         sv \in Seq(Job)
  PROVE  LET t == [s EXCEPT !.items = s.items \o new] IN
         /\ t \in State
         /\ t.items = s.items \o new
         /\ Good(t, sv, cut)
         /\ Grows(s, t)
         /\ Len(t.items) >= Len(s.items)
<1> DEFINE t == [s EXCEPT !.items = s.items \o new]
<1>1. /\ s.items \in Seq(Item)
      /\ Len(s.items) \in Nat
      /\ DOMAIN s.items = 1 .. Len(s.items)
  BY StateItems
<1>2. /\ Len(new) \in Nat
      /\ DOMAIN new = 1 .. Len(new)
  OBVIOUS
<1>3. /\ s.items \o new \in Seq(Item)
      /\ Len(s.items \o new) = Len(s.items) + Len(new)
      /\ DOMAIN (s.items \o new) = 1 .. Len(s.items) + Len(new)
      /\ \A i \in 1 .. Len(s.items) : (s.items \o new)[i] = s.items[i]
      /\ \A i \in 1 .. Len(s.items) + Len(new) :
           i > Len(s.items) => (s.items \o new)[i] = new[i - Len(s.items)]
  BY <1>1, <1>2
<1>4. t \in State /\ t.items = s.items \o new
  BY <1>3 DEF State
<1>5. ASSUME NEW i \in DOMAIN t.items
      PROVE  IF i \in DOMAIN s.items
               THEN t.items[i] = s.items[i]
               ELSE t.items[i].status = "planned" /\ t.items[i].run = 0
  <2>1. CASE i <= Len(s.items)
    BY <1>1, <1>2, <1>3, <1>4, <2>1
  <2>2. CASE i > Len(s.items)
    <3>1. i - Len(s.items) \in DOMAIN new /\ i \notin DOMAIN s.items
      BY <1>1, <1>2, <1>3, <1>4, <2>2
    <3> QED
      BY <1>2, <1>3, <1>4, <2>2, <3>1
  <2>3. i \in Nat
    BY <1>1, <1>2, <1>3, <1>4
  <2> QED
    BY <1>1, <2>1, <2>2, <2>3
<1>6. DOMAIN s.items \subseteq DOMAIN t.items
  BY <1>1, <1>2, <1>3, <1>4
<1>7. Len(t.items) >= Len(s.items)
  BY <1>1, <1>2, <1>3, <1>4
<1> HIDE DEF t
<1>8. InFlight(t) = InFlight(s)
  <2>1. {i \in DOMAIN t.items : t.items[i].status \in Active}
          = {i \in DOMAIN s.items : s.items[i].status \in Active}
    BY <1>5, <1>6 DEF Active
  <2> QED
    BY <2>1 DEF InFlight
<1>9. Good(t, sv, cut)
  <2>1. ASSUME NEW i \in DOMAIN t.items
        PROVE  /\ t.items[i].run \in 0 .. Len(sv)
               /\ t.items[i].run # 0 /\ sv[t.items[i].run].status = "queued"
                    => t.items[i].status \in Active
    BY <1>5 DEF Good
  <2>2. ASSUME NEW r \in DOMAIN sv, sv[r].status = "queued", r \notin cut
        PROVE  sv[r].item \in DOMAIN t.items /\ t.items[sv[r].item].run = r
    BY <1>5, <1>6, <2>2 DEF Good
  <2> QED
    BY <1>8, <2>1, <2>2 DEF Good
<1>10. Grows(s, t)
  BY <1>5, <1>6 DEF Grows
<1> QED
  BY <1>4, <1>7, <1>9, <1>10 DEF t

\* Planning a search adds planned candidates of its phase, and past the
\* initial design only once the phase has nothing unfinished.
LEMMA SearchedType ==
  ASSUME NEW s \in State, NEW phase \in Searches
  PROVE  /\ Adds(s.items, Searched(s.items, phase), phase)
         /\ \/ Searched(s.items, phase) = s.items
            \/ Cardinality(Of(s.items, phase)) < Design[phase]
            \/ PhaseFinished(s.items, phase)
<1> DEFINE n == Cardinality(Of(s.items, phase))
           initial == ((Design[phase] + Width - 1) \div Width) * Width
           total == CASE n < Design[phase] -> Smaller(initial, Budget[phase])
                      [] n >= Design[phase] /\ PhaseFinished(s.items, phase) ->
                           Smaller(n + Width, Budget[phase])
                      [] OTHER -> n
<1>1. n \in Nat
  BY CountOf
<1>2. /\ Budget[phase] \in Nat
      /\ Design[phase] \in Nat
      /\ Width \in Nat
      /\ Width > 0
  BY CampaignAssumption DEF CampaignAssumption
<1>3. initial \in Int
  <2>1. (Design[phase] + Width - 1) \div Width \in Int
    BY <1>2
  <2> QED
    BY <1>2, <2>1
<1>4. Searched(s.items, phase) = Grown(s.items, phase, total, Parentless(phase))
  BY DEF Searched
<1> HIDE DEF n, initial
<1>5. total \in Int /\ (total <= Budget[phase] \/ total = n)
  <2>1. CASE n < Design[phase]
    <3>1. total = Smaller(initial, Budget[phase])
      BY <1>1, <1>2, <2>1
    <3> QED
      BY <1>2, <1>3, <3>1 DEF Smaller
  <2>2. CASE n >= Design[phase] /\ PhaseFinished(s.items, phase)
    <3>1. total = Smaller(n + Width, Budget[phase])
      BY <1>1, <1>2, <2>2
    <3> QED
      BY <1>1, <1>2, <3>1 DEF Smaller
  <2>3. CASE ~(n < Design[phase]) /\ ~(n >= Design[phase] /\ PhaseFinished(s.items, phase))
    BY <1>1, <2>3
  <2> QED
    BY <1>1, <1>2, <2>1, <2>2, <2>3
<1>6. n < Design[phase] \/ PhaseFinished(s.items, phase) \/ total = n
  BY <1>1, <1>2
<1> HIDE DEF total
<1> DEFINE none == Parentless(phase)
<1>7. \A k \in 1 .. Budget[phase] : none[k] \in Nat
  BY DEF Parentless
<1> HIDE DEF none
<1>8. phase \in Phases
  BY DEF Phases
<1>9. CASE total <= Budget[phase]
  <2>1. \A k \in 1 .. total : none[k] \in Nat
    BY <1>2, <1>5, <1>7, <1>9
  <2>2. total \in Int
    BY <1>5
  <2>3. /\ Adds(s.items, Grown(s.items, phase, total, none), phase)
        /\ total <= Cardinality(Of(s.items, phase)) =>
             Grown(s.items, phase, total, none) = s.items
    BY <1>8, <2>1, <2>2, GrownType
  <2>4. total = n => Grown(s.items, phase, total, none) = s.items
    BY <1>1, <2>3 DEF n
  <2> QED
    BY <1>4, <1>6, <2>3, <2>4 DEF n, none
<1>10. CASE total = n /\ ~(total <= Budget[phase])
  \* Nothing is added: the parents do not matter.
  <2>1. 1 .. total - n = {}
    BY <1>1, <1>10
  <2>2. Grown(s.items, phase, total, Parentless(phase)) = s.items \o <<>>
    <3> DEFINE P == [k \in 1 .. total - n |->
                       New(phase, (n + k - 1) \div Width + 1, Parentless(phase)[n + k])]
    <3>1. Grown(s.items, phase, total, Parentless(phase)) = s.items \o P
      BY DEF Grown, n
    <3>2. P = [k \in 1 .. total - n |-> P[k]]
      OBVIOUS
    <3>3. total - n \in Int
      BY <1>1, <1>5
    <3> HIDE DEF P
    <3>4. P \in Seq({}) /\ DOMAIN P = 1 .. total - n
      BY <2>1, <3>2, <3>3, SeqOfInterval
    <3>5. P = <<>>
      BY <2>1, <3>4, EmptyDomain
    <3> QED
      BY <3>1, <3>5
  <2>3. s.items \o <<>> = s.items
    BY StateItems, ConcatEmptySeq
  <2>4. Adds(s.items, s.items \o <<>>, phase)
    <3> DEFINE nothing == <<>>
    <3>1. nothing \in Seq(Item) /\ \A k \in DOMAIN nothing : FALSE
      OBVIOUS
    <3> HIDE DEF nothing
    <3>2. Adds(s.items, s.items \o nothing, phase)
      BY <3>1 DEF Adds
    <3> QED
      BY <3>2 DEF nothing
  <2> QED
    BY <1>4, <2>2, <2>3, <2>4
<1> QED
  BY <1>5, <1>9, <1>10

LEMMA AddedState ==
  ASSUME NEW s \in State, NEW sv \in Seq(Job), NEW cut, Good(s, sv, cut),
         NEW phase, NEW grown, Adds(s.items, grown, phase)
  PROVE  LET t == [s EXCEPT !.items = grown] IN
         /\ t \in State
         /\ t.items = grown
         /\ Good(t, sv, cut)
         /\ Grows(s, t)
         /\ Len(t.items) >= Len(s.items)
<1>1. PICK new \in Seq(Item) :
        /\ grown = s.items \o new
        /\ \A k \in DOMAIN new : new[k].status = "planned" /\ new[k].run = 0
  BY DEF Adds
<1> DEFINE t == [s EXCEPT !.items = s.items \o new]
<1>2. /\ t \in State
      /\ t.items = s.items \o new
      /\ Good(t, sv, cut)
      /\ Grows(s, t)
      /\ Len(t.items) >= Len(s.items)
  BY <1>1, Appended
<1> QED
  BY <1>1, <1>2

\* The other phases keep their items.
LEMMA AddedElsewhere ==
  ASSUME NEW s \in State, NEW phase, NEW grown, Adds(s.items, grown, phase),
         NEW other, other # phase
  PROVE  Of(grown, other) = Of(s.items, other)
<1>1. PICK new \in Seq(Item) :
        /\ grown = s.items \o new
        /\ \A k \in DOMAIN new : new[k].phase = phase
  BY DEF Adds
<1>2. /\ s.items \in Seq(Item)
      /\ Len(s.items) \in Nat
      /\ DOMAIN s.items = 1 .. Len(s.items)
      /\ Len(new) \in Nat
      /\ DOMAIN new = 1 .. Len(new)
  BY StateItems
<1>3. /\ DOMAIN grown = 1 .. Len(s.items) + Len(new)
      /\ \A i \in 1 .. Len(s.items) : grown[i] = s.items[i]
      /\ \A i \in 1 .. Len(s.items) + Len(new) :
           i > Len(s.items) => grown[i] = new[i - Len(s.items)]
  BY <1>1, <1>2
<1>4. ASSUME NEW i \in DOMAIN grown, grown[i].phase = other
      PROVE  i \in DOMAIN s.items
  <2>1. CASE i > Len(s.items)
    <3>1. i - Len(s.items) \in DOMAIN new
      BY <1>2, <1>3, <2>1
    <3> QED
      BY <1>1, <1>3, <1>4, <2>1, <3>1
  <2> QED
    BY <1>2, <1>3, <2>1
<1>5. DOMAIN s.items \subseteq DOMAIN grown
  BY <1>2, <1>3
<1> QED
  BY <1>2, <1>3, <1>4, <1>5 DEF Of

-----------------------------------------------------------------------------
(* One lemma per action.                                                   *)

LEMMA FaithfulGrows ==
  ASSUME NEW r, NEW s, NEW t, NEW sv, Grows(r, s), Faithful(s, t, sv)
  PROVE  Grows(r, t)
BY DEF Grows, Faithful

\* What is left to show of a step that changes the state in memory and the
\* program counter only.
LEMMA MemoryStep ==
  ASSUME Inv, mem' \in State, Good(mem', server, Cut), Grows(disk, mem'),
         pc # "posted", pc' \in {"down", "poll", "collect", "plan", "submit", "save"},
         UNCHANGED <<tool, server, disk, command, posted, orphans>>,
         used' \in [bad : 0 .. MaxBad, stop : 0 .. MaxStops, retry : 0 .. MaxRetries]
  PROVE  Inv'
<1>1. posted = 0
  BY DEF Inv
<1>2. Cut' = Cut
  BY DEF Cut
<1>3. Len(mem'.items) \in Nat
  BY StateItems
<1>4. TypeOK'
  BY <1>1, <1>3 DEF Inv, TypeOK
<1> QED
  BY <1>1, <1>2, <1>4 DEF Inv

LEMMA PollStep ==
  ASSUME Inv, Poll
  PROVE  Inv' /\ Faithful(mem, mem', server)
<1>1. TypeOK /\ mem \in State /\ Good(mem, server, Cut) /\ server \in Seq(Job)
  BY ServerJobs DEF Inv, TypeOK
<1>2. mem' = [mem EXCEPT !.items = [i \in DOMAIN @ |-> Polled(@[i])]]
  BY DEF Poll
<1>3. mem' \in State /\ Faithful(mem, mem', server)
  BY <1>1, <1>2, PolledFaithful
<1>4. Good(mem', server, Cut)
  BY <1>1, <1>3, FaithfulGood
<1>5. Grows(disk, mem')
  BY <1>3, FaithfulGrows DEF Inv
<1> QED
  BY <1>1, <1>3, <1>4, <1>5, MemoryStep DEF Poll, TypeOK

LEMMA CollectStep ==
  ASSUME Inv, Collect
  PROVE  Inv' /\ Faithful(mem, mem', server)
<1> DEFINE Open == {i \in DOMAIN mem.items :
                      mem.items[i].status = "completed" /\ mem.items[i].result \in
                        IF tool = "study" THEN {"none", "failed"} ELSE {"none"}}
           Failed == {i \in DOMAIN mem.items : mem.items[i].status = "failed"}
           Analytics(missing, bad, i) ==
             IF i \in missing THEN "missing" ELSE IF i \in bad THEN "bad" ELSE "good"
           Result(missing, bad) ==
             [i \in DOMAIN mem.items |->
                IF i \in Open \cup Failed
                  THEN Collected(mem.items[i], Analytics(missing, bad, i))
                  ELSE mem.items[i]]
<1>1. TypeOK /\ mem \in State /\ Good(mem, server, Cut) /\ server \in Seq(Job)
  BY ServerJobs DEF Inv, TypeOK
<1>2. PICK bad \in SUBSET Open, missing \in SUBSET Open :
        /\ used.bad + Cardinality(bad) <= MaxBad
        /\ used' = [used EXCEPT !.bad = @ + Cardinality(bad)]
        /\ mem' = [mem EXCEPT !.items = Result(missing, bad)]
  BY DEF Collect
<1>3. \A i \in Open \cup Failed :
        i \in DOMAIN mem.items /\ mem.items[i].status \in {"completed", "failed"}
  OBVIOUS
<1>4. Open \subseteq DOMAIN mem.items
  OBVIOUS
<1>5. \A i : Analytics(missing, bad, i) \in {"good", "bad", "missing"}
  OBVIOUS
<1> DEFINE u == Result(missing, bad)
<1>6. \A i \in DOMAIN mem.items :
        u[i] = IF i \in Open \cup Failed
                 THEN Collected(mem.items[i], Analytics(missing, bad, i))
                 ELSE mem.items[i]
  OBVIOUS
<1>7. u = [i \in DOMAIN mem.items |-> u[i]] /\ mem' = [mem EXCEPT !.items = u]
  BY <1>2
<1> HIDE DEF Analytics, u, Open, Failed
<1>8. ASSUME NEW i \in DOMAIN mem.items
      PROVE  \/ u[i] = mem.items[i]
             \/ /\ mem.items[i].status \notin Active
                /\ u[i] \in Item
                /\ u[i].phase = mem.items[i].phase
                /\ u[i].status \notin Active
                /\ u[i].run \in {0, mem.items[i].run}
  <2>1. CASE i \in Open \cup Failed
    <3> DEFINE item == mem.items[i]
               analytics == Analytics(missing, bad, i)
    <3>1. item \in Item /\ item.status \in {"completed", "failed"}
      BY <1>1, <1>3, <2>1, StateItems
    <3>2. analytics \in {"good", "bad", "missing"}
      BY <1>5
    <3>3. u[i] = Collected(item, analytics)
      BY <1>6, <2>1
    <3>4. item.status \notin Active
      BY <3>1 DEF Active
    <3> HIDE DEF item, analytics
    <3>5. LET new == Collected(item, analytics) IN
          /\ new \in Item
          /\ new.phase = item.phase
          /\ new.status \notin Active
          /\ new.run \in {0, item.run}
      BY <1>1, <3>1, <3>2, CollectedType
    <3> QED
      BY <3>3, <3>4, <3>5 DEF item
  <2>2. CASE i \notin Open \cup Failed
    BY <1>6, <2>2
  <2> QED
    BY <2>1, <2>2
<1>9. mem' \in State /\ Faithful(mem, mem', server)
  <2>1. LET t == [mem EXCEPT !.items = u] IN
        t \in State /\ Faithful(mem, t, server) /\ Len(t.items) = Len(mem.items)
    BY <1>1, <1>7, <1>8, IdleFaithful
  <2> QED
    BY <1>7, <2>1
<1>10. Good(mem', server, Cut)
  BY <1>1, <1>9, FaithfulGood
<1>11. Grows(disk, mem')
  BY <1>9, FaithfulGrows DEF Inv
<1>12. Cardinality(bad) \in Nat
  BY <1>1, <1>4, FiniteItems
<1>13. used' \in [bad : 0 .. MaxBad, stop : 0 .. MaxStops, retry : 0 .. MaxRetries]
  <2>0. MaxBad \in Nat /\ used.bad \in 0 .. MaxBad
    BY <1>1, CampaignAssumption DEF TypeOK, CampaignAssumption
  <2>1. used.bad + Cardinality(bad) \in 0 .. MaxBad
    BY <1>2, <1>12, <2>0
  <2> QED
    BY <1>1, <1>2, <2>1 DEF TypeOK
<1>14. /\ pc # "posted" /\ pc' \in {"save", "plan"}
       /\ UNCHANGED <<tool, server, disk, command, posted, orphans>>
  BY DEF Collect
<1> QED
  BY <1>9, <1>10, <1>11, <1>13, <1>14, MemoryStep

LEMMA SeedsOfFinalist ==
  ASSUME NEW a \in Nat, NEW b \in Nat, NEW k \in 1 .. a * b
  PROVE  (k - 1) \div b + 1 \in 1 .. a
<1> DEFINE q == (k - 1) \div b
<1>1. b > 0
  <2>1. b = 0 => a * b = 0
    OBVIOUS
  <2> QED
    BY <2>1
<1>2. a * b \in Nat /\ k \in Nat /\ k >= 1 /\ k <= a * b
  OBVIOUS
<1>3. q \in Int /\ q * b <= k - 1 /\ k - 1 < q * b + b
  BY <1>1, <1>2
<1> HIDE DEF q
<1>4. q >= 0
  <2>1. q < 0 => q * b + b <= 0
    BY <1>1, <1>3
  <2> QED
    BY <1>2, <1>3, <2>1
<1>5. q < a
  <2>1. q >= a => q * b >= a * b
    BY <1>1, <1>3
  <2> QED
    BY <1>2, <1>3, <2>1
<1> QED
  BY <1>3, <1>4, <1>5 DEF q

\* A step from s to t: the phases that grow past their initial design have
\* nothing unfinished.
Waits(s, t) ==
  \A p \in Searches :
    (/\ Cardinality(Of(t.items, p)) > Cardinality(Of(s.items, p))
     /\ Cardinality(Of(s.items, p)) >= Design[p])
      => \A i \in Of(s.items, p) : s.items[i].status \in Ended

LEMMA WaitsWhenSame ==
  ASSUME NEW s \in State, NEW t, \A p \in Searches : Of(t.items, p) = Of(s.items, p)
  PROVE  Waits(s, t)
<1>1. ASSUME NEW p \in Searches
      PROVE  ~(Cardinality(Of(t.items, p)) > Cardinality(Of(s.items, p)))
  <2>1. Cardinality(Of(t.items, p)) = Cardinality(Of(s.items, p))
    OBVIOUS
  <2>2. Cardinality(Of(s.items, p)) \in Nat
    BY CountOf
  <2> QED
    BY <2>1, <2>2
<1> QED
  BY <1>1 DEF Waits

LEMMA PlanStep ==
  ASSUME Inv, Plan
  PROVE  Inv' /\ Waits(mem, mem')
<1>1. /\ mem \in State
      /\ Good(mem, server, Cut)
      /\ server \in Seq(Job)
      /\ Grows(disk, mem)
  BY ServerJobs DEF Inv, TypeOK
<1>2. /\ pc # "posted" /\ pc' = "submit"
      /\ UNCHANGED <<tool, server, disk, command, posted, used, orphans>>
  BY DEF Plan
<1>3. ASSUME mem' \in State, Good(mem', server, Cut), Grows(mem, mem')
      PROVE  Inv'
  <2>1. Grows(disk, mem')
    BY <1>1, <1>3 DEF Grows
  <2>2. used' \in [bad : 0 .. MaxBad, stop : 0 .. MaxStops, retry : 0 .. MaxRetries]
    BY <1>2 DEF Inv, TypeOK
  <2> QED
    BY <1>2, <1>3, <2>1, <2>2, MemoryStep
<1>4. ASSUME NEW phase, NEW grown, Adds(mem.items, grown, phase),
             mem' = [mem EXCEPT !.items = grown]
      PROVE  mem' \in State /\ mem'.items = grown /\ Inv'
  BY <1>1, <1>3, <1>4, AddedState
<1>5. CASE UNCHANGED mem
  <2>1. Grows(mem, mem')
    BY <1>5 DEF Grows
  <2>2. Waits(mem, mem')
    BY <1>1, <1>5, WaitsWhenSame
  <2> QED
    BY <1>1, <1>3, <1>5, <2>1, <2>2
<1>6. CASE /\ mem.phase \in Searches
           /\ mem' = [mem EXCEPT !.items = Searched(@, mem.phase)]
  <2> DEFINE phase == mem.phase
             grown == Searched(mem.items, phase)
  <2>1. /\ Adds(mem.items, grown, phase)
        /\ \/ grown = mem.items
           \/ Cardinality(Of(mem.items, phase)) < Design[phase]
           \/ PhaseFinished(mem.items, phase)
    BY <1>1, <1>6, SearchedType
  <2>2. mem' = [mem EXCEPT !.items = grown]
    BY <1>6
  <2>3. phase \in Searches
    BY <1>6
  <2> HIDE DEF phase, grown
  <2>4. mem' \in State /\ mem'.items = grown /\ Inv'
    BY <1>4, <2>1, <2>2
  <2>5. ASSUME NEW p \in Searches,
               Cardinality(Of(mem'.items, p)) > Cardinality(Of(mem.items, p)),
               Cardinality(Of(mem.items, p)) >= Design[p]
        PROVE  \A i \in Of(mem.items, p) : mem.items[i].status \in Ended
    <3>1. Cardinality(Of(mem.items, p)) \in Nat
      BY <1>1, CountOf
    <3>2. p = phase
      <4>1. p # phase => Of(grown, p) = Of(mem.items, p)
        BY <1>1, <2>1, AddedElsewhere
      <4> QED
        BY <2>4, <2>5, <3>1, <4>1
    <3>3. grown # mem.items
      BY <2>4, <2>5, <3>1
    <3>4. Design[p] \in Nat
      BY CampaignAssumption DEF CampaignAssumption
    <3>5. PhaseFinished(mem.items, p)
      BY <2>1, <2>5, <3>1, <3>2, <3>3, <3>4
    <3> QED
      BY <3>5 DEF PhaseFinished
  <2> QED
    BY <2>4, <2>5 DEF Waits
<1>7. CASE /\ mem.phase = "validation"
           /\ Of(mem.items, "validation") = {}
           /\ \E best \in [1 .. Finalists -> ValidIn(mem.items, Basis("validation"))] :
                mem' = [mem EXCEPT !.items =
                          Grown(@, "validation", Finalists * Seeds,
                                [k \in 1 .. Finalists * Seeds |->
                                   best[(k - 1) \div Seeds + 1]])]
  <2>1. PICK best \in [1 .. Finalists -> ValidIn(mem.items, Basis("validation"))] :
                mem' = [mem EXCEPT !.items =
                          Grown(mem.items, "validation", Finalists * Seeds,
                                [k \in 1 .. Finalists * Seeds |->
                                   best[(k - 1) \div Seeds + 1]])]
    BY <1>7
  <2> DEFINE parent == [k \in 1 .. Finalists * Seeds |-> best[(k - 1) \div Seeds + 1]]
             total == Finalists * Seeds
             grown == Grown(mem.items, "validation", total, parent)
  <2>2. Finalists \in Nat /\ Seeds \in Nat
    BY CampaignAssumption DEF CampaignAssumption
  <2>3. total \in Int
    BY <2>2
  <2>4. ValidIn(mem.items, Basis("validation")) \subseteq Nat
    <3>1. ValidIn(mem.items, Basis("validation")) \subseteq DOMAIN mem.items
      BY DEF ValidIn
    <3> QED
      BY <1>1, <3>1, StateItems
  <2>5. ASSUME NEW k \in 1 .. total
        PROVE  parent[k] \in Nat
    <3>1. (k - 1) \div Seeds + 1 \in 1 .. Finalists
      BY <2>2, SeedsOfFinalist
    <3>2. parent[k] = best[(k - 1) \div Seeds + 1]
      OBVIOUS
    <3> HIDE DEF parent
    <3> QED
      BY <2>4, <3>1, <3>2
  <2>6. mem' = [mem EXCEPT !.items = grown]
    BY <2>1
  <2>7. "validation" \in Phases /\ "validation" \notin Searches
    BY DEF Phases, Searches
  <2>8. Adds(mem.items, grown, "validation")
    <3> HIDE DEF parent, total
    <3> QED
      BY <1>1, <2>3, <2>5, <2>7, GrownType
  <2> HIDE DEF grown
  <2>9. mem' \in State /\ mem'.items = grown /\ Inv'
    BY <1>4, <2>6, <2>8
  <2>10. \A p \in Searches : Of(mem'.items, p) = Of(mem.items, p)
    <3>1. ASSUME NEW p \in Searches
          PROVE  Of(grown, p) = Of(mem.items, p)
      <4>1. p # "validation"
        BY <2>7
      <4> QED
        BY <1>1, <2>8, <4>1, AddedElsewhere
    <3> QED
      BY <2>9, <3>1
  <2> QED
    BY <1>1, <2>9, <2>10, WaitsWhenSame
<1> QED
  BY <1>5, <1>6, <1>7 DEF Plan

LEMMA GrowsItself ==
  ASSUME NEW s
  PROVE  Grows(s, s)
BY DEF Grows

\* The process goes away, and comes back with what the checkpoint has.
LEMMA PlanFailsStep ==
  ASSUME Inv, PlanFails
  PROVE  Inv'
<1>1. mem' = disk /\ disk \in State /\ Good(disk, server, Cut)
  BY DEF PlanFails, Inv, TypeOK
<1>2. Grows(disk, mem')
  BY <1>1, GrowsItself
<1>3. used' \in [bad : 0 .. MaxBad, stop : 0 .. MaxStops, retry : 0 .. MaxRetries]
  BY DEF PlanFails, Inv, TypeOK
<1> QED
  BY <1>1, <1>2, <1>3, MemoryStep DEF PlanFails

LEMMA SubmittedStep ==
  ASSUME Inv, Submitted
  PROVE  Inv'
<1>1. mem' = mem /\ mem \in State /\ Good(mem, server, Cut) /\ Grows(disk, mem)
  BY DEF Submitted, Inv, TypeOK
<1>2. used' \in [bad : 0 .. MaxBad, stop : 0 .. MaxStops, retry : 0 .. MaxRetries]
  BY DEF Submitted, Inv, TypeOK
<1> QED
  BY <1>1, <1>2, MemoryStep DEF Submitted

LEMMA UseType ==
  ASSUME TypeOK, NEW what \in {"bad", "stop", "retry"}, Use(what),
         used[what] < CASE what = "bad" -> MaxBad
                        [] what = "stop" -> MaxStops
                        [] what = "retry" -> MaxRetries
  PROVE  used' \in [bad : 0 .. MaxBad, stop : 0 .. MaxStops, retry : 0 .. MaxRetries]
<1>1. used \in [bad : 0 .. MaxBad, stop : 0 .. MaxStops, retry : 0 .. MaxRetries]
  BY DEF TypeOK
<1>2. used' = [used EXCEPT ![what] = used[what] + 1]
  BY DEF Use
<1>3. MaxBad \in Nat /\ MaxStops \in Nat /\ MaxRetries \in Nat
  BY CampaignAssumption DEF CampaignAssumption
<1>4. CASE what = "bad"
  BY <1>1, <1>2, <1>3, <1>4
<1>5. CASE what = "stop"
  BY <1>1, <1>2, <1>3, <1>5
<1>6. CASE what = "retry"
  BY <1>1, <1>2, <1>3, <1>6
<1> QED
  BY <1>4, <1>5, <1>6

LEMMA SubmitStep ==
  ASSUME Inv, Submit
  PROVE  Inv'
<1>1. /\ TypeOK
      /\ mem \in State /\ disk \in State
      /\ Good(mem, server, Cut) /\ Good(disk, server, Cut)
      /\ server \in Seq(Job) /\ Len(server) \in Nat
      /\ Grows(disk, mem)
  BY ServerJobs DEF Inv, TypeOK
<1>2. PICK i \in Submittable(mem) :
        /\ server' = Append(server, [item |-> i, status |-> "queued"])
        /\ posted' = i
  BY DEF Submit
<1>3. i \in DOMAIN mem.items /\ mem.items[i].status = "planned"
  BY DEF Submittable, Of
<1>4. i \in Nat \ {0} /\ i \in 1 .. Len(mem.items) /\ Len(mem.items) \in Nat
  BY <1>1, <1>3, StateItems
<1> DEFINE job == [item |-> i, status |-> "queued"]
<1>5. job \in Job
  BY <1>4 DEF Job
<1>6. /\ server' = Append(server, job)
      /\ job.item = i
  BY <1>2
<1> HIDE DEF job
<1>7. /\ server' \in Seq(Job)
      /\ Len(server') = Len(server) + 1
      /\ server'[Len(server')] = job
  BY <1>1, <1>5, <1>6
<1>8. /\ pc = "submit" /\ pc' = "posted" /\ InFlight(mem) < Width
      /\ UNCHANGED <<tool, disk, mem, command, used, orphans>>
  BY DEF Submit
<1>9. Cut' = Cut \cup {Len(server) + 1}
  BY <1>7, <1>8 DEF Cut
<1>10. Good(mem, server', Cut') /\ Good(disk, server', Cut')
  BY <1>1, <1>5, <1>6, <1>9, GoodPosted
<1>11. TypeOK'
  <2>1. orphans \subseteq 1 .. Len(server')
    BY <1>1, <1>7 DEF TypeOK
  <2>2. posted' \in 0 .. Len(mem'.items)
    BY <1>2, <1>4, <1>8
  <2> QED
    BY <1>7, <1>8, <2>1, <2>2, <1>1 DEF TypeOK, Job
<1>12. PostOnItsWay'
  <2>1. InFlight(mem) < Width /\ mem' = mem
    BY <1>8
  <2>2. InFlight(mem') < Width
    BY <2>1
  <2>3. Len(server') # 0
    BY <1>1, <1>7
  <2> QED
    BY <1>2, <1>3, <1>6, <1>7, <2>1, <2>2, <2>3 DEF PostOnItsWay
<1> QED
  BY <1>1, <1>8, <1>10, <1>11, <1>12 DEF Inv

LEMMA RecordedType ==
  ASSUME NEW item \in Item, Len(server) \in Nat
  PROVE  /\ Recorded(item) \in Item
         /\ Recorded(item).phase = item.phase
         /\ Recorded(item).run = Len(server)
         /\ Recorded(item).status = "queued"
<1> DEFINE r1 == [item EXCEPT !.run = Len(server)]
           r2 == [r1 EXCEPT !.status = "queued"]
           r3 == [r2 EXCEPT !.attempt = @ + 1]
           r4 == [r3 EXCEPT !.result = "none"]
           r5 == [r4 EXCEPT !.tries = 0]
<1>1. "queued" \in Statuses /\ 0 \in 0 .. MaxTries
  BY CampaignAssumption DEF CampaignAssumption, Statuses, Active
<1>2. r1 \in Item /\ r1.phase = item.phase /\ r1.run = Len(server)
  BY DEF Item
<1>3. r2 \in Item /\ r2.phase = item.phase /\ r2.run = Len(server) /\ r2.status = "queued"
  <2> HIDE DEF r1
  <2> QED
    BY <1>1, <1>2 DEF Item
<1>4. r3 \in Item /\ r3.phase = item.phase /\ r3.run = Len(server) /\ r3.status = "queued"
  <2> HIDE DEF r2
  <2>1. r2.attempt \in Nat
    BY <1>3 DEF Item
  <2> DEFINE attempt == r2.attempt + 1
  <2>2. attempt \in Nat /\ r3 = [r2 EXCEPT !.attempt = attempt]
    BY <2>1
  <2> HIDE DEF attempt, r3
  <2> QED
    BY <1>3, <2>2 DEF Item
<1>5. r4 \in Item /\ r4.phase = item.phase /\ r4.run = Len(server) /\ r4.status = "queued"
  <2> HIDE DEF r3
  <2> QED
    BY <1>4 DEF Item
<1>6. r5 \in Item /\ r5.phase = item.phase /\ r5.run = Len(server) /\ r5.status = "queued"
  <2> HIDE DEF r4
  <2> QED
    BY <1>1, <1>5 DEF Item
<1>7. r5 = Recorded(item)
  BY DEF Recorded
<1> QED
  BY <1>6, <1>7

\* The POST came back: the item that was planned names the new run.
LEMMA RecordStep ==
  ASSUME Inv, Record
  PROVE  Inv' /\ Grows(mem, mem') /\ DOMAIN mem'.items = DOMAIN mem.items
<1>1. /\ TypeOK
      /\ mem \in State
      /\ Good(mem, server, Cut)
      /\ server \in Seq(Job) /\ Len(server) \in Nat /\ DOMAIN server = 1 .. Len(server)
  BY ServerJobs DEF Inv, TypeOK
<1>2. /\ pc = "posted" /\ pc' = "submit" /\ posted' = 0 /\ disk' = mem'
      /\ UNCHANGED <<tool, server, command, used, orphans>>
  BY DEF Record
<1>3. /\ posted \in DOMAIN mem.items
      /\ mem.items[posted].status = "planned"
      /\ InFlight(mem) < Width
      /\ Len(server) # 0
      /\ server[Len(server)].item = posted
  BY <1>2 DEF Inv, PostOnItsWay
<1> DEFINE old == mem.items[posted]
           new == Recorded(old)
           u == [mem.items EXCEPT ![posted] = new]
<1>4. mem' = [mem EXCEPT !.items = u]
  BY DEF Record
<1>5. new \in Item /\ new.phase = old.phase /\ new.run = Len(server) /\ new.status = "queued"
  BY <1>1, <1>3, StateItems, RecordedType
<1> HIDE DEF new, old
<1>6. /\ DOMAIN u = DOMAIN mem.items
      /\ u[posted] = new
      /\ \A i \in DOMAIN mem.items : i # posted => u[i] = mem.items[i]
  BY <1>3
<1>7. u = [i \in DOMAIN mem.items |-> u[i]]
  OBVIOUS
<1>8. \A i \in DOMAIN mem.items : u[i] \in Item
  BY <1>1, <1>5, <1>6, StateItems
<1> HIDE DEF u
<1>9. /\ mem' \in State
      /\ mem'.items = u
      /\ DOMAIN mem'.items = DOMAIN mem.items
      /\ Len(mem'.items) = Len(mem.items)
  BY <1>1, <1>4, <1>7, <1>8, ChangedItems
<1>10. InFlight(mem') <= Width
  <2> DEFINE A == {i \in DOMAIN mem.items : mem.items[i].status \in Active}
             B == {i \in DOMAIN mem'.items : mem'.items[i].status \in Active}
  <2>1. B \subseteq A \cup {posted} /\ A \subseteq DOMAIN mem.items
    BY <1>6, <1>9
  <2>2. InFlight(mem) = Cardinality(A) /\ InFlight(mem') = Cardinality(B)
    BY DEF InFlight
  <2> HIDE DEF A, B
  <2>3. IsFiniteSet(A) /\ Cardinality(A) \in Nat
    BY <1>1, <2>1, FiniteItems
  <2>4. IsFiniteSet(A \cup {posted}) /\ Cardinality(A \cup {posted}) <= Cardinality(A) + 1
    BY <2>3, FS_AddElement
  <2>5. Cardinality(B) <= Cardinality(A \cup {posted})
    BY <2>1, <2>4, FS_Subset
  <2>6. Cardinality(B) \in Nat /\ Cardinality(A \cup {posted}) \in Nat /\ Width \in Nat
    BY <2>1, <2>4, FS_Subset, FS_CardinalityType, CampaignAssumption DEF CampaignAssumption
  <2> QED
    BY <1>3, <2>2, <2>3, <2>4, <2>5, <2>6
<1>11. Cut = orphans \cup {Len(server)} /\ Cut' = orphans
  BY <1>2 DEF Cut
<1>12. Good(mem', server, orphans)
  <2>1. ASSUME NEW i \in DOMAIN mem'.items
        PROVE  /\ mem'.items[i].run \in 0 .. Len(server)
               /\ mem'.items[i].run # 0 /\ server[mem'.items[i].run].status = "queued"
                    => mem'.items[i].status \in Active
    <3>1. CASE i = posted
      BY <1>1, <1>5, <1>6, <1>9, <3>1 DEF Active
    <3>2. CASE i # posted
      BY <1>1, <1>6, <1>9, <3>2 DEF Good
    <3> QED
      BY <3>1, <3>2
  <2>2. ASSUME NEW r \in DOMAIN server, server[r].status = "queued", r \notin orphans
        PROVE  server[r].item \in DOMAIN mem'.items /\ mem'.items[server[r].item].run = r
    <3>1. CASE r = Len(server)
      BY <1>3, <1>5, <1>6, <1>9, <3>1
    <3>2. CASE r # Len(server)
      <4>1. server[r].item \in DOMAIN mem.items /\ mem.items[server[r].item].run = r
        BY <1>1, <1>11, <2>2, <3>2 DEF Good
      <4>2. r # 0
        BY <1>1
      <4>3. mem.items[server[r].item].status \in Active
        BY <1>1, <2>2, <4>1, <4>2 DEF Good
      <4>4. server[r].item # posted
        BY <1>3, <4>3 DEF Active
      <4> QED
        BY <1>6, <1>9, <4>1, <4>4
    <3> QED
      BY <3>1, <3>2
  <2> QED
    BY <1>10, <2>1, <2>2 DEF Good
<1>13. Grows(mem, mem')
  BY <1>5, <1>6, <1>9 DEF Grows, old
<1>14. TypeOK'
  <2>1. Len(mem'.items) \in Nat
    BY <1>9, StateItems
  <2> QED
    BY <1>1, <1>2, <1>9, <2>1 DEF TypeOK
<1>15. Grows(disk', mem')
  BY <1>2, GrowsItself
<1> QED
  BY <1>2, <1>9, <1>11, <1>12, <1>13, <1>14, <1>15 DEF Inv

\* What a state knows is in its items.
LEMMA SameItems ==
  ASSUME NEW s, NEW t, t.items = s.items, NEW sv, NEW cut, Good(s, sv, cut)
  PROVE  Good(t, sv, cut)
<1>1. InFlight(t) = InFlight(s)
  BY DEF InFlight
<1> QED
  BY <1>1 DEF Good

LEMMA AdvancedType ==
  ASSUME NEW s \in State
  PROVE  Advanced(s) \in State /\ Advanced(s).items = s.items
<1>1. CASE /\ s.phase \in Phases
           /\ Cardinality(Of(s.items, s.phase)) >= BudgetOf(s.phase)
           /\ PhaseFinished(s.items, s.phase)
  <2>1. After[s.phase] \in Phases \cup {"completed"}
    BY <1>1 DEF After, Phases, Searches
  <2>2. Advanced(s) = [s EXCEPT !.phase = After[s.phase]]
    BY <1>1 DEF Advanced
  <2> QED
    BY <2>1, <2>2 DEF State
<1>2. CASE ~(/\ s.phase \in Phases
             /\ Cardinality(Of(s.items, s.phase)) >= BudgetOf(s.phase)
             /\ PhaseFinished(s.items, s.phase))
  BY <1>2 DEF Advanced
<1> QED
  BY <1>1, <1>2

\* What is left to show of a step that leaves the server alone.
LEMMA SavedStep ==
  ASSUME Inv, mem' \in State, disk' \in State,
         Good(mem', server, Cut'), Good(disk', server, Cut'), Grows(disk', mem'),
         UNCHANGED <<tool, server>>, posted' = 0,
         pc' \in {"down", "poll", "collect", "plan", "submit", "save"},
         command' \in {"run", "analyze"},
         orphans' \subseteq 1 .. Len(server),
         used' \in [bad : 0 .. MaxBad, stop : 0 .. MaxStops, retry : 0 .. MaxRetries]
  PROVE  Inv'
<1>1. Len(mem'.items) \in Nat
  BY StateItems
<1>2. TypeOK'
  BY <1>1 DEF Inv, TypeOK
<1> QED
  BY <1>2 DEF Inv

LEMMA SaveStep ==
  ASSUME Inv, Save
  PROVE  Inv' /\ mem'.items = mem.items
<1>1. /\ mem \in State /\ Good(mem, server, Cut)
      /\ orphans \subseteq 1 .. Len(server)
      /\ command \in {"run", "analyze"}
      /\ used \in [bad : 0 .. MaxBad, stop : 0 .. MaxStops, retry : 0 .. MaxRetries]
      /\ pc # "posted" => posted = 0
  BY DEF Inv, TypeOK
<1>2. mem' \in State /\ mem'.items = mem.items
  BY <1>1, AdvancedType DEF Save
<1>3. /\ disk' = mem' /\ pc = "save" /\ pc' \in {"down", "poll"}
      /\ UNCHANGED <<tool, server, command, posted, used, orphans>>
  BY DEF Save
<1>4. Cut' = Cut
  BY <1>3 DEF Cut
<1>5. Good(mem', server, Cut')
  BY <1>1, <1>2, <1>4, SameItems
<1>6. Grows(disk', mem')
  BY <1>3, GrowsItself
<1> QED
  BY <1>1, <1>2, <1>3, <1>5, <1>6, SavedStep

LEMMA AnalyzeStep ==
  ASSUME Inv, Analyze
  PROVE  Inv'
<1>1. /\ disk \in State /\ Good(disk, server, Cut)
      /\ orphans \subseteq 1 .. Len(server)
      /\ pc # "posted" => posted = 0
      /\ TypeOK
  BY DEF Inv, TypeOK
<1>2. /\ pc = "down" /\ pc' = "poll" /\ mem' = disk /\ command' = "analyze"
      /\ UNCHANGED <<tool, server, disk, posted, orphans>>
  BY DEF Analyze
<1>3. used' \in [bad : 0 .. MaxBad, stop : 0 .. MaxStops, retry : 0 .. MaxRetries]
  BY <1>1, UseType DEF Analyze
<1>4. Cut' = Cut
  BY <1>2 DEF Cut
<1>5. Grows(disk', mem')
  BY <1>2, GrowsItself
<1> QED
  BY <1>1, <1>2, <1>3, <1>4, <1>5, SavedStep

LEMMA ResumeStep ==
  ASSUME Inv, Resume
  PROVE  Inv'
<1> DEFINE polled == [disk EXCEPT !.items = [i \in DOMAIN @ |-> Polled(@[i])]]
           seen == IF tool = "study" THEN polled ELSE disk
           retried == [seen EXCEPT !.items =
                        [i \in DOMAIN @ |-> IF Retryable(@[i]) THEN Reset(@[i]) ELSE @[i]]]
<1>1. /\ TypeOK
      /\ disk \in State /\ Good(disk, server, Cut)
      /\ server \in Seq(Job)
      /\ orphans \subseteq 1 .. Len(server)
      /\ used \in [bad : 0 .. MaxBad, stop : 0 .. MaxStops, retry : 0 .. MaxRetries]
      /\ pc # "posted" => posted = 0
  BY ServerJobs DEF Inv, TypeOK
<1>2. /\ pc = "down" /\ pc' = "poll" /\ command' = "run"
      /\ UNCHANGED <<tool, server, posted, orphans>>
      /\ mem' \in {seen, retried}
      /\ disk' = mem' \/ disk' = disk
  BY DEF Resume
<1>3. used' \in [bad : 0 .. MaxBad, stop : 0 .. MaxStops, retry : 0 .. MaxRetries]
  BY <1>1, UseType DEF Resume
<1>4. polled \in State /\ Good(polled, server, Cut) /\ Grows(disk, polled)
  <2>1. polled \in State /\ Faithful(disk, polled, server)
    BY <1>1, PolledFaithful
  <2> HIDE DEF polled
  <2> QED
    BY <1>1, <2>1, FaithfulGood, GrowsItself, FaithfulGrows
<1> HIDE DEF polled
<1>5. seen \in State /\ Good(seen, server, Cut) /\ Grows(disk, seen)
  BY <1>1, <1>4, GrowsItself
<1> HIDE DEF seen
<1>6. retried \in State /\ Good(retried, server, Cut) /\ Grows(disk, retried)
  <2>1. retried \in State /\ Faithful(seen, retried, server)
    BY <1>5, RetriedFaithful
  <2> HIDE DEF retried
  <2> QED
    BY <1>1, <1>5, <2>1, FaithfulGood, FaithfulGrows
<1> HIDE DEF retried
<1>7. mem' \in State /\ Good(mem', server, Cut) /\ Grows(disk, mem')
  BY <1>2, <1>5, <1>6
<1>8. Cut' = Cut
  BY <1>2 DEF Cut
<1>9. disk' \in State /\ Good(disk', server, Cut) /\ Grows(disk', mem')
  BY <1>1, <1>2, <1>7, GrowsItself
<1> QED
  BY <1>1, <1>2, <1>3, <1>7, <1>8, <1>9, SavedStep

LEMMA StopStep ==
  ASSUME Inv, Stop
  PROVE  Inv' /\ mem' \in {disk, mem}
<1>1. /\ TypeOK
      /\ mem \in State /\ Good(mem, server, Cut)
      /\ disk \in State /\ Good(disk, server, Cut)
      /\ orphans \subseteq 1 .. Len(server)
      /\ Len(server) \in Nat
  BY ServerJobs DEF Inv, TypeOK
<1>2. /\ mem' = disk' /\ disk' \in {disk, mem}
      /\ pc' = "down" /\ posted' = 0
      /\ UNCHANGED <<tool, server, command>>
      /\ orphans' = IF pc = "posted" THEN orphans \cup {Len(server)} ELSE orphans
  BY DEF Stop
<1>3. used' \in [bad : 0 .. MaxBad, stop : 0 .. MaxStops, retry : 0 .. MaxRetries]
  BY <1>1, UseType DEF Stop
<1>4. Cut' = Cut
  BY <1>2 DEF Cut
<1>5. orphans' \subseteq 1 .. Len(server)
  <2>1. CASE pc = "posted"
    <3>1. Len(server) # 0
      BY <2>1 DEF Inv, PostOnItsWay
    <3>2. Len(server) \in 1 .. Len(server)
      BY <1>1, <3>1
    <3> QED
      BY <1>1, <1>2, <2>1, <3>2
  <2> QED
    BY <1>1, <1>2, <2>1
<1>6. Grows(disk', mem')
  BY <1>2, GrowsItself
<1>7. command' \in {"run", "analyze"}
  BY <1>1, <1>2 DEF TypeOK
<1> QED
  BY <1>1, <1>2, <1>3, <1>4, <1>5, <1>6, <1>7, SavedStep

LEMMA RunEndsStep ==
  ASSUME Inv, NEW r \in DOMAIN server, RunEnds(r)
  PROVE  Inv'
<1>1. /\ TypeOK
      /\ mem \in State /\ Good(mem, server, Cut)
      /\ disk \in State /\ Good(disk, server, Cut)
      /\ server \in Seq(Job) /\ Len(server) \in Nat /\ DOMAIN server = 1 .. Len(server)
  BY ServerJobs DEF Inv, TypeOK
<1>2. PICK st \in {"completed", "failed"} : server' = [server EXCEPT ![r].status = st]
  BY DEF RunEnds
<1>3. /\ server[r].status = "queued"
      /\ UNCHANGED <<tool, disk, mem, pc, command, posted, orphans>>
  BY DEF RunEnds
<1>4. used' \in [bad : 0 .. MaxBad, stop : 0 .. MaxStops, retry : 0 .. MaxRetries]
  BY <1>1, UseType DEF RunEnds, TypeOK
<1> DEFINE job == [server[r] EXCEPT !.status = st]
<1>5. server[r] \in Job /\ job \in Job /\ job.item = server[r].item /\ job.status = st
  <2>1. server[r] \in Job
    BY <1>1
  <2> QED
    BY <2>1 DEF Job
<1>6. server' = [server EXCEPT ![r] = job]
  BY <1>2
<1> HIDE DEF job
<1>7. /\ server' \in Seq(Job)
      /\ Len(server') = Len(server)
      /\ \A q \in DOMAIN server : server'[q] = IF q = r THEN job ELSE server[q]
  <2>1. \A q \in DOMAIN server : server[q] \in Job
    BY <1>1
  <2>2. \A q \in DOMAIN server : server'[q] = IF q = r THEN job ELSE server[q]
    BY <1>6
  <2>3. \A q \in DOMAIN server : server'[q] \in Job
    BY <1>5, <2>1, <2>2
  <2>4. server' = [q \in DOMAIN server |-> server'[q]]
    BY <1>6
  <2> QED
    BY <1>1, <2>2, <2>3, <2>4, MappedSeq
<1>8. \A q \in DOMAIN server :
        /\ server'[q].item = server[q].item
        /\ server'[q].status = "queued" => server[q].status = "queued"
  BY <1>3, <1>5, <1>7
<1>9. Cut' = Cut
  BY <1>3, <1>7 DEF Cut
<1>10. Good(mem, server', Cut') /\ Good(disk, server', Cut')
  BY <1>1, <1>7, <1>8, <1>9, GoodLater
<1>11. TypeOK'
  BY <1>1, <1>3, <1>4, <1>7 DEF TypeOK, Job
<1>12. (IF pc = "posted" THEN PostOnItsWay ELSE posted = 0)'
  <2>1. CASE pc = "posted"
    <3>1. /\ posted \in DOMAIN mem.items
          /\ mem.items[posted].status = "planned"
          /\ InFlight(mem) < Width
          /\ Len(server) # 0
          /\ server[Len(server)].item = posted
      BY <2>1 DEF Inv, PostOnItsWay
    <3>2. server'[Len(server')].item = posted /\ Len(server') # 0
      BY <1>1, <1>7, <1>8, <3>1
    <3>3. InFlight(mem') < Width
      BY <1>3, <3>1
    <3> QED
      BY <1>3, <2>1, <3>1, <3>2, <3>3 DEF PostOnItsWay
  <2>2. CASE pc # "posted"
    BY <1>3, <2>2 DEF Inv
  <2> QED
    BY <2>1, <2>2
<1>13. Grows(disk', mem')
  BY <1>3 DEF Inv
<1> QED
  BY <1>3, <1>10, <1>11, <1>12, <1>13 DEF Inv

LEMMA InitHolds ==
  Init => Inv
<1> SUFFICES ASSUME Init PROVE Inv
  OBVIOUS
<1>1. /\ tool \in {"study", "calibration"} /\ server = <<>>
      /\ disk = InitialState /\ mem = InitialState
      /\ pc = "poll" /\ command = "run" /\ posted = 0
      /\ used = [bad |-> 0, stop |-> 0, retry |-> 0] /\ orphans = {}
  BY DEF Init
<1>2. /\ InitialState \in State
      /\ \A i \in DOMAIN InitialState.items :
           InitialState.items[i].status = "planned" /\ InitialState.items[i].run = 0
  <2>1. CASE tool = "study"
    <3> DEFINE items == [i \in 1 .. Points |-> New("study", 1, 0)]
    <3>1. Points \in Nat
      BY CampaignAssumption DEF CampaignAssumption
    <3>2. New("study", 1, 0) \in Item
      BY NewType
    <3>3. items \in [1 .. Points -> Item]
      BY <3>2
    <3>4. \A i \in 1 .. Points : items[i].status = "planned" /\ items[i].run = 0
      BY DEF New
    <3>5. InitialState = [phase |-> "study", items |-> items]
      BY <2>1 DEF InitialState
    <3> HIDE DEF items
    <3>6. items \in Seq(Item) /\ DOMAIN items = 1 .. Points
      BY <3>1, <3>3, SeqOfFunction
    <3> QED
      BY <3>4, <3>5, <3>6 DEF State
  <2>2. CASE tool # "study"
    <3>1. InitialState = [phase |-> "volume_routing", items |-> <<>>]
      BY <2>2 DEF InitialState
    <3>2. <<>> \in Seq(Item) /\ DOMAIN <<>> = {}
      OBVIOUS
    <3> QED
      BY <3>1, <3>2 DEF State, Phases, Searches
  <2> QED
    BY <2>1, <2>2
<1>3. InFlight(InitialState) = 0
  <2>1. {i \in DOMAIN InitialState.items : InitialState.items[i].status \in Active} = {}
    BY <1>2 DEF Active
  <2> QED
    BY <2>1, FS_EmptySet DEF InFlight
<1>4. /\ Width \in Nat /\ Width > 0
      /\ MaxBad \in Nat /\ MaxStops \in Nat /\ MaxRetries \in Nat
  BY CampaignAssumption DEF CampaignAssumption
<1>5. Good(InitialState, server, Cut)
  <2>1. DOMAIN server = {} /\ Len(server) = 0
    BY <1>1
  <2> QED
    BY <1>2, <1>3, <1>4, <2>1 DEF Good
<1>6. TypeOK
  <2>1. posted \in 0 .. Len(mem.items)
    BY <1>1, <1>2, StateItems
  <2>2. used \in [bad : 0 .. MaxBad, stop : 0 .. MaxStops, retry : 0 .. MaxRetries]
    BY <1>1, <1>4
  <2>3. server \in Seq([item : Nat \ {0}, status : {"queued", "completed", "failed"}])
    BY <1>1
  <2> QED
    BY <1>1, <1>2, <2>1, <2>2, <2>3 DEF TypeOK
<1>7. Grows(disk, mem)
  BY <1>1, GrowsItself
<1> QED
  BY <1>1, <1>5, <1>6, <1>7 DEF Inv

LEMMA StepHolds ==
  Inv /\ [Next]_vars => Inv'
<1> SUFFICES ASSUME Inv, [Next]_vars PROVE Inv'
  OBVIOUS
<1>1. CASE Poll
  BY <1>1, PollStep
<1>2. CASE Collect
  BY <1>2, CollectStep
<1>3. CASE Plan
  BY <1>3, PlanStep
<1>4. CASE PlanFails
  BY <1>4, PlanFailsStep
<1>5. CASE Submit
  BY <1>5, SubmitStep
<1>6. CASE Record
  BY <1>6, RecordStep
<1>7. CASE Submitted
  BY <1>7, SubmittedStep
<1>8. CASE Save
  BY <1>8, SaveStep
<1>9. CASE Resume
  BY <1>9, ResumeStep
<1>10. CASE Analyze
  BY <1>10, AnalyzeStep
<1>11. CASE Stop
  BY <1>11, StopStep
<1>12. CASE \E r \in DOMAIN server : RunEnds(r)
  BY <1>12, RunEndsStep
<1>13. CASE UNCHANGED vars
  BY <1>13 DEF vars, Inv, TypeOK, Good, Cut, PostOnItsWay, Grows, InFlight
<1> QED
  BY <1>1, <1>2, <1>3, <1>4, <1>5, <1>6, <1>7, <1>8, <1>9, <1>10, <1>11, <1>12, <1>13
     DEF Next, Loop

-----------------------------------------------------------------------------
(* The theorems.                                                           *)

\* The inductive invariant: the state in memory and the checkpoint both know
\* every run that goes on, except one whose POST was or may yet be cut off.
THEOREM InvHolds == Spec => []Inv
BY InitHolds, StepHolds, PTL DEF Spec

\* Every variable keeps its type, for every number of points and budgets.
THEOREM TypeCorrect == Spec => []TypeOK
<1>1. Inv => TypeOK
  BY DEF Inv
<1> QED
  BY <1>1, InvHolds, PTL

\* Kills, interrupts and retries anywhere: no run that goes on is forgotten
\* by state.json, which submit_planned writes after every POST.
THEOREM RunsAreKnownHolds == Spec => []RunsAreKnown
<1>1. Inv => RunsAreKnown
  <2> SUFFICES ASSUME Inv, NEW r \in DOMAIN server, server[r].status = "queued", r \notin orphans,
                      ~(pc = "posted" /\ r = Len(server))
               PROVE  \E i \in DOMAIN disk.items : i = server[r].item /\ disk.items[i].run = r
    BY DEF RunsAreKnown
  <2>1. r \notin Cut
    BY DEF Cut
  <2> QED
    BY <2>1 DEF Inv, Good
<1> QED
  BY <1>1, InvHolds, PTL

\* The slots the tools count in their own state bound the runs that go on at
\* the server, whatever the process has yet to hear of.
THEOREM NeverTooManyHolds == Spec => []NeverTooMany
<1>1. Inv => NeverTooMany
  <2> SUFFICES ASSUME Inv PROVE NeverTooMany
    OBVIOUS
  <2> DEFINE Going == {r \in DOMAIN server : server[r].status = "queued"} \ orphans
             Known == Going \ Cut
             A == {i \in DOMAIN mem.items : mem.items[i].status \in Active}
             f == [r \in Known |-> server[r].item]
  <2>1. /\ mem \in State /\ Good(mem, server, Cut)
        /\ DOMAIN server = 1 .. Len(server) /\ Len(server) \in Nat
    BY ServerJobs DEF Inv, TypeOK
  <2>2. \A r \in Known : /\ r # 0
                         /\ server[r].item \in A
                         /\ mem.items[server[r].item].run = r
    <3> SUFFICES ASSUME NEW r \in Known
                 PROVE  /\ r # 0
                        /\ server[r].item \in A
                        /\ mem.items[server[r].item].run = r
      OBVIOUS
    <3>1. r \in DOMAIN server /\ r # 0 /\ server[r].status = "queued" /\ r \notin Cut
      BY <2>1
    <3>2. server[r].item \in DOMAIN mem.items /\ mem.items[server[r].item].run = r
      BY <2>1, <3>1 DEF Good
    <3>3. mem.items[server[r].item].status \in Active
      BY <2>1, <3>1, <3>2 DEF Good
    <3> QED
      BY <3>1, <3>2, <3>3
  <2>3. f \in Injection(Known, A)
    BY <2>2 DEF Injection, IsInjective
  <2>4. A \subseteq DOMAIN mem.items /\ InFlight(mem) = Cardinality(A)
    BY DEF InFlight
  <2>5. Going \subseteq Known \cup (IF pc = "posted" THEN {Len(server)} ELSE {})
    BY DEF Cut
  <2>6. NeverTooMany <=> Cardinality(Going) <= Width
    BY DEF NeverTooMany
  <2> HIDE DEF Going, Known, A, f
  <2>7. IsFiniteSet(A) /\ Cardinality(A) \in Nat
    BY <2>1, <2>4, FiniteItems
  <2>8. IsFiniteSet(Known) /\ Cardinality(Known) <= Cardinality(A)
    BY <2>3, <2>7, FS_Injection
  <2>9. Cardinality(Known) \in Nat
    BY <2>8, FS_CardinalityType
  <2>10. Width \in Nat
    BY CampaignAssumption DEF CampaignAssumption
  <2>11. CASE pc = "posted"
    <3>1. Cardinality(A) < Width
      BY <2>4, <2>11 DEF Inv, PostOnItsWay
    <3>2. Going \subseteq Known \cup {Len(server)}
      BY <2>5, <2>11
    <3> DEFINE last == Len(server)
    <3> HIDE DEF last
    <3>3. /\ IsFiniteSet(Known \cup {last})
          /\ Cardinality(Known \cup {last}) <= Cardinality(Known) + 1
      <4>1. /\ IsFiniteSet(Known \cup {last})
            /\ Cardinality(Known \cup {last}) =
                 IF last \in Known THEN Cardinality(Known) ELSE Cardinality(Known) + 1
        BY <2>8, FS_AddElement
      <4> QED
        BY <2>9, <4>1
    <3>4. /\ Cardinality(Going) <= Cardinality(Known \cup {last})
          /\ Cardinality(Going) \in Nat
          /\ Cardinality(Known \cup {last}) \in Nat
      BY <3>2, <3>3, FS_Subset, FS_CardinalityType DEF last
    <3> QED
      BY <2>6, <2>7, <2>8, <2>9, <2>10, <3>1, <3>3, <3>4
  <2>12. CASE pc # "posted"
    <3>1. Going \subseteq Known
      BY <2>5, <2>12
    <3>2. Cardinality(Going) <= Cardinality(Known) /\ Cardinality(Going) \in Nat
      BY <2>8, <3>1, FS_Subset, FS_CardinalityType
    <3>3. Cardinality(A) <= Width
      BY <2>1, <2>4 DEF Good
    <3> QED
      BY <2>6, <2>7, <2>8, <2>9, <2>10, <3>2, <3>3
  <2> QED
    BY <2>11, <2>12
<1> QED
  BY <1>1, InvHolds, PTL

\* Steps that change items in place, and steps back to the checkpoint, add
\* nothing to any phase.
LEMMA FaithfulWaits ==
  ASSUME NEW s \in State, NEW t, NEW sv, Faithful(s, t, sv)
  PROVE  Waits(s, t)
<1>1. \A p \in Searches : Of(t.items, p) = Of(s.items, p)
  BY DEF Of, Faithful
<1> QED
  BY <1>1, WaitsWhenSame

LEMMA ShrinkingWaits ==
  ASSUME NEW s \in State, NEW t \in State, Grows(t, s)
  PROVE  Waits(s, t)
<1>1. ASSUME NEW p \in Searches
      PROVE  ~(Cardinality(Of(t.items, p)) > Cardinality(Of(s.items, p)))
  <2>1. Of(t.items, p) \subseteq Of(s.items, p)
    BY DEF Of, Grows
  <2>2. /\ IsFiniteSet(Of(s.items, p))
        /\ Cardinality(Of(s.items, p)) \in Nat
        /\ Cardinality(Of(t.items, p)) \in Nat
    BY CountOf
  <2>3. Cardinality(Of(t.items, p)) <= Cardinality(Of(s.items, p))
    BY <2>1, <2>2, FS_Subset
  <2> QED
    BY <2>2, <2>3
<1> QED
  BY <1>1 DEF Waits

\* Adaptive candidates are chosen once the results of the phase so far are
\* all in, whatever was stopped, resumed or retried before.
THEOREM BatchesWaitHolds == Spec => BatchesWait
<1> DEFINE Step ==
      \A p \in Searches :
        LET old == Of(mem.items, p) IN
        (/\ Cardinality(Of(mem'.items, p)) > Cardinality(old)
         /\ Cardinality(old) >= Design[p]
         /\ pc # "down")
          => \A i \in old : mem.items[i].status \in Ended
<1>1. Waits(mem, mem') => Step
  BY DEF Waits
<1>2. Inv /\ [Next]_vars => [Step]_vars
  <2> SUFFICES ASSUME Inv, Next PROVE Step
    BY DEF vars
  <2> HIDE DEF Step
  <2>1. mem \in State /\ disk \in State /\ Grows(disk, mem)
    BY DEF Inv, TypeOK
  <2>2. ASSUME UNCHANGED mem PROVE Step
    <3>1. Waits(mem, mem')
      BY <2>1, <2>2, WaitsWhenSame
    <3> QED
      BY <1>1, <3>1
  <2>3. CASE Poll
    BY <1>1, <2>1, <2>3, PollStep, FaithfulWaits
  <2>4. CASE Collect
    BY <1>1, <2>1, <2>4, CollectStep, FaithfulWaits
  <2>5. CASE Plan
    BY <1>1, <2>5, PlanStep
  <2>6. CASE PlanFails
    <3>1. mem' = disk
      BY <2>6 DEF PlanFails
    <3> QED
      BY <1>1, <2>1, <3>1, ShrinkingWaits
  <2>7. CASE Submit
    BY <2>2, <2>7 DEF Submit
  <2>8. CASE Record
    <3>1. Grows(mem, mem') /\ DOMAIN mem'.items = DOMAIN mem.items
      BY <2>8, RecordStep
    <3>2. \A p \in Searches : Of(mem'.items, p) = Of(mem.items, p)
      BY <3>1 DEF Of, Grows
    <3> QED
      BY <1>1, <2>1, <3>2, WaitsWhenSame
  <2>9. CASE Submitted
    BY <2>2, <2>9 DEF Submitted
  <2>10. CASE Save
    <3>1. mem'.items = mem.items
      BY <2>10, SaveStep
    <3>2. \A p \in Searches : Of(mem'.items, p) = Of(mem.items, p)
      BY <3>1
    <3> QED
      BY <1>1, <2>1, <3>2, WaitsWhenSame
  <2>11. CASE Resume \/ Analyze
    BY <2>11 DEF Resume, Analyze, Step
  <2>12. CASE Stop
    <3>1. mem' = disk \/ mem' = mem
      BY <2>12, StopStep
    <3> QED
      BY <1>1, <2>1, <2>2, <3>1, ShrinkingWaits
  <2>13. CASE \E r \in DOMAIN server : RunEnds(r)
    BY <2>2, <2>13 DEF RunEnds
  <2> QED
    BY <2>3, <2>4, <2>5, <2>6, <2>7, <2>8, <2>9, <2>10, <2>11, <2>12, <2>13
       DEF Next, Loop
<1>3. BatchesWait <=> [][Step]_vars
  BY DEF BatchesWait
<1> QED
  BY <1>2, <1>3, InvHolds, PTL DEF Spec


-----------------------------------------------------------------------------
(* How often an item is simulated, and what the finalists rest on.         *)

\* An item that is changed in place keeps its parent and its attempts, a valid one
\* stays valid, and one that is planned again may have another attempt.
Keeps(old, new, limit) ==
  /\ new.phase = old.phase
  /\ new.parent = old.parent
  /\ new.attempt = old.attempt
  /\ old.status = "valid" => new.status = "valid"
  /\ new.status = "planned" => old.status = "planned" \/ old.attempt <= limit

Steady(s, t, limit) ==
  /\ DOMAIN t.items = DOMAIN s.items
  /\ \A i \in DOMAIN s.items : Keeps(s.items[i], t.items[i], limit)

LEMMA ResetKeeps ==
  ASSUME NEW item \in Item, NEW limit, item.attempt <= limit, item.status # "valid"
  PROVE  Keeps(item, Reset(item), limit)
<1>1. /\ Reset(item).phase = item.phase
      /\ Reset(item).parent = item.parent
      /\ Reset(item).attempt = item.attempt
  BY DEF Reset, Item
<1> QED
  BY <1>1 DEF Keeps

LEMMA PolledKeeps ==
  ASSUME TypeOK, NEW item \in Item, NEW limit,
         item.run # 0 => item.run \in DOMAIN server
  PROVE  Keeps(item, Polled(item), limit)
<1>1. CASE item.run = 0 \/ item.status = "valid"
  BY <1>1 DEF Polled, Keeps
<1>2. CASE ~(item.run = 0 \/ item.status = "valid")
  <2>1. server[item.run] \in Job
    BY <1>2, ServerJobs
  <2>2. server[item.run].status # "planned"
    BY <2>1 DEF Job
  <2>3. Polled(item) = [item EXCEPT !.status = server[item.run].status]
    BY <1>2 DEF Polled
  <2>4. /\ Polled(item).phase = item.phase
        /\ Polled(item).parent = item.parent
        /\ Polled(item).attempt = item.attempt
        /\ Polled(item).status = server[item.run].status
    BY <2>3 DEF Item
  <2> QED
    BY <1>2, <2>2, <2>4 DEF Keeps
<1> QED
  BY <1>1, <1>2

LEMMA TriedKeeps ==
  ASSUME NEW item \in Item
  PROVE  /\ Tried(item).phase = item.phase
         /\ Tried(item).parent = item.parent
         /\ Tried(item).attempt = item.attempt
         /\ Tried(item).status = item.status
BY DEF Tried, Item

\* Only an automatic retry of the calibration plans an item again.
LEMMA CollectedKeeps ==
  ASSUME TypeOK, NEW item \in Item, item.status \in {"completed", "failed"},
         NEW analytics \in {"good", "bad", "missing"}, NEW limit \in Nat,
         tool = "calibration" => RetryLimit <= limit
  PROVE  Keeps(item, Collected(item, analytics), limit)
<1> DEFINE Same(old) == /\ old.phase = item.phase
                        /\ old.parent = item.parent
                        /\ old.attempt = item.attempt
           Idle(old) == old.status \in {"completed", "failed", "valid", "invalid"}
<1>1. ASSUME NEW old, Same(old), Idle(old)
      PROVE  Keeps(item, old, limit)
  BY <1>1 DEF Keeps
<1>2. ASSUME NEW old \in Item, Same(old), NEW st \in {"valid", "invalid"}
      PROVE  LET new == [old EXCEPT !.status = st] IN Same(new) /\ Idle(new)
  BY <1>2 DEF Item
<1>3. ASSUME NEW st \in {"valid", "invalid"}
      PROVE  LET new == [item EXCEPT !.status = st, !.result = st] IN Same(new) /\ Idle(new)
  BY <1>3 DEF Item
<1>4. ASSUME NEW res
      PROVE  /\ Same([item EXCEPT !.result = res])
             /\ Idle([item EXCEPT !.result = res])
  BY DEF Item
<1>5. ASSUME NEW res
      PROVE  LET new == [Tried(item) EXCEPT !.result = res] IN Same(new) /\ Idle(new)
  <2>1. Tried(item) \in Item
    BY TriedType
  <2> QED
    BY <2>1, TriedKeeps DEF Item
<1>6. ASSUME tool = "calibration", NEW old \in Item, Same(old), NEW as, Same(as), Idle(as),
             old.status = item.status
      PROVE  Keeps(item, GiveUpOrRetry(old, as), limit)
  <2>1. RetryLimit \in Nat /\ old.attempt \in Nat
    BY CampaignAssumption DEF CampaignAssumption, Item
  <2>2. CASE old.attempt <= RetryLimit
    <3>1. old.attempt <= limit
      BY <1>6, <2>1, <2>2
    <3>2. Keeps(old, Reset(old), limit)
      BY <1>6, <3>1, ResetKeeps
    <3>3. GiveUpOrRetry(old, as) = Reset(old)
      BY <2>2 DEF GiveUpOrRetry
    <3> QED
      BY <1>6, <3>1, <3>2, <3>3 DEF Keeps
  <2>3. CASE ~(old.attempt <= RetryLimit)
    <3>1. GiveUpOrRetry(old, as) = as
      BY <2>3 DEF GiveUpOrRetry
    <3> QED
      BY <1>1, <1>6, <3>1
  <2> QED
    BY <2>2, <2>3
<1>7. Tried(item) \in Item /\ Same(Tried(item)) /\ Tried(item).status = item.status
  BY TriedType, TriedKeeps
<1>8. Same(item) /\ Idle(item)
  OBVIOUS
<1>9. CASE tool = "study"
  <2>1. Collected(item, analytics) = Extracted(item, analytics)
    BY <1>9 DEF Collected
  <2>2. CASE item.status = "failed"
    BY <1>1, <1>8, <2>1, <2>2 DEF Extracted
  <2>3. CASE item.status = "completed" /\ analytics \in {"good", "bad"}
    <3>1. Collected(item, analytics) = [item EXCEPT !.result = "valid"]
      BY <2>1, <2>3 DEF Extracted
    <3> HIDE DEF Same, Idle
    <3> QED
      BY <1>1, <1>4, <3>1
  <2>4. CASE item.status = "completed" /\ analytics = "missing"
    <3>1. Collected(item, analytics) \in {Tried(item), [Tried(item) EXCEPT !.result = "failed"]}
      BY <2>1, <2>4 DEF Extracted
    <3>2. Idle(Tried(item))
      BY <1>7, <2>4
    <3> HIDE DEF Same, Idle
    <3> QED
      BY <1>1, <1>5, <1>7, <3>1, <3>2
  <2> QED
    BY <2>2, <2>3, <2>4
<1>10. CASE tool # "study"
  <2>1. Collected(item, analytics) = Scored(item, analytics) /\ tool = "calibration"
    BY <1>10 DEF Collected, TypeOK
  <2>2. CASE item.status = "failed"
    <3>1. Collected(item, analytics) = GiveUpOrRetry(item, item)
      BY <2>1, <2>2 DEF Scored
    <3> HIDE DEF Same, Idle
    <3> QED
      BY <1>6, <1>8, <2>1, <3>1
  <2>3. CASE item.status = "completed" /\ analytics = "good"
    <3>1. Collected(item, analytics) = [item EXCEPT !.status = "valid", !.result = "valid"]
      BY <2>1, <2>3 DEF Scored
    <3> HIDE DEF Same, Idle
    <3> QED
      BY <1>1, <1>3, <3>1
  <2>4. CASE item.status = "completed" /\ analytics = "bad"
    <3> DEFINE as == [item EXCEPT !.status = "invalid", !.result = "invalid"]
    <3>1. Collected(item, analytics) = GiveUpOrRetry(item, as)
      BY <2>1, <2>4 DEF Scored
    <3> HIDE DEF Same, Idle
    <3>2. Same(as) /\ Idle(as)
      BY <1>3
    <3> HIDE DEF as
    <3> QED
      BY <1>6, <1>8, <2>1, <3>1, <3>2
  <2>5. CASE item.status = "completed" /\ analytics = "missing"
    <3> DEFINE old == Tried(item)
               as == [old EXCEPT !.status = "invalid"]
    <3>1. Collected(item, analytics) =
            IF old.tries < MaxTries THEN old ELSE GiveUpOrRetry(old, as)
      BY <2>1, <2>5 DEF Scored
    <3>2. Idle(old)
      BY <1>7, <2>5
    <3> HIDE DEF Same, Idle
    <3>3. Same(as) /\ Idle(as)
      BY <1>2, <1>7
    <3> HIDE DEF old, as
    <3>4. old \in Item /\ Same(old) /\ old.status = item.status
      BY <1>7 DEF old
    <3> QED
      BY <1>1, <1>6, <2>1, <3>1, <3>2, <3>3, <3>4
  <2> QED
    BY <2>2, <2>3, <2>4, <2>5
<1> QED
  BY <1>9, <1>10

LEMMA SteadyOf ==
  ASSUME NEW s \in State, NEW u, u = [i \in DOMAIN s.items |-> u[i]], NEW limit,
         \A i \in DOMAIN s.items : Keeps(s.items[i], u[i], limit)
  PROVE  Steady(s, [s EXCEPT !.items = u], limit)
<1>1. [s EXCEPT !.items = u].items = u /\ DOMAIN u = DOMAIN s.items
  BY DEF State
<1> QED
  BY <1>1 DEF Steady

LEMMA PolledSteady ==
  ASSUME TypeOK, NEW s \in State, NEW cut, Good(s, server, cut), NEW limit
  PROVE  Steady(s, [s EXCEPT !.items = [i \in DOMAIN @ |-> Polled(@[i])]], limit)
<1> DEFINE u == [i \in DOMAIN s.items |-> Polled(s.items[i])]
<1>1. ASSUME NEW i \in DOMAIN s.items
      PROVE  Keeps(s.items[i], u[i], limit)
  <2>1. s.items[i] \in Item
    BY StateItems
  <2>2. s.items[i].run # 0 => s.items[i].run \in DOMAIN server
    BY ServerJobs DEF Good
  <2>3. u[i] = Polled(s.items[i])
    OBVIOUS
  <2> HIDE DEF u
  <2> QED
    BY <2>1, <2>2, <2>3, PolledKeeps
<1>2. u = [i \in DOMAIN s.items |-> u[i]]
  OBVIOUS
<1>3. [s EXCEPT !.items = [i \in DOMAIN @ |-> Polled(@[i])]] = [s EXCEPT !.items = u]
  OBVIOUS
<1> HIDE DEF u
<1> QED
  BY <1>1, <1>2, <1>3, SteadyOf

\* The attempts an item may have had when it is planned.
Allowed == (IF tool = "calibration" THEN RetryLimit ELSE 0) + used.retry

Within(s, limit) ==
  \A i \in DOMAIN s.items :
    /\ s.items[i].attempt <= limit + 1
    /\ s.items[i].status = "planned" => s.items[i].attempt <= limit

\* The validated candidates rest on finalists that are valid, under every seed.
Validations(s, i) ==
  {j \in Of(s.items, "validation") : s.items[j].parent = s.items[i].parent}

Rested(s) ==
  \A i \in Of(s.items, "validation") :
    /\ s.items[i].parent \in DOMAIN s.items
    /\ s.items[s.items[i].parent].status = "valid"
    /\ Cardinality(Validations(s, i)) = Seeds

Right(s, limit) == Within(s, limit) /\ Rested(s)

Attempts(s, i) == IF i \in DOMAIN s.items THEN s.items[i].attempt ELSE 0

SameAttempts(s, t) == \A i \in Nat \ {0} : Attempts(t, i) = Attempts(s, i)

RunsOf(i) == {r \in DOMAIN server : server[r].item = i}

\* The runs of an item are its recorded attempts, those that were cut off, and
\* the one on its way.
Counted ==
  \A i \in Nat \ {0} :
    Cardinality(RunsOf(i)) =
      Attempts(mem, i) + Orphaned(i) + (IF posted = i THEN 1 ELSE 0)

Books ==
  /\ Right(mem, Allowed)
  /\ Right(disk, Allowed)
  /\ SameAttempts(disk, mem)
  /\ Counted
  /\ pc = "posted" => Len(server) \notin orphans

LEMMA RetriedSteady ==
  ASSUME NEW s \in State, NEW limit \in Nat, Within(s, limit)
  PROVE  Steady(s, [s EXCEPT !.items = [i \in DOMAIN @ |->
                      IF Retryable(@[i]) THEN Reset(@[i]) ELSE @[i]]], limit + 1)
<1> DEFINE u == [i \in DOMAIN s.items |->
                   IF Retryable(s.items[i]) THEN Reset(s.items[i]) ELSE s.items[i]]
<1>1. ASSUME NEW i \in DOMAIN s.items
      PROVE  Keeps(s.items[i], u[i], limit + 1)
  <2>1. s.items[i] \in Item /\ s.items[i].attempt <= limit + 1
    BY StateItems DEF Within
  <2>2. CASE Retryable(s.items[i])
    <3>1. s.items[i].status # "valid"
      BY <2>2 DEF Retryable
    <3>2. u[i] = Reset(s.items[i])
      BY <2>2
    <3> HIDE DEF u
    <3> QED
      BY <2>1, <3>1, <3>2, ResetKeeps
  <2>3. CASE ~Retryable(s.items[i])
    BY <2>3 DEF Keeps
  <2> QED
    BY <2>2, <2>3
<1>2. u = [i \in DOMAIN s.items |-> u[i]]
  OBVIOUS
<1>3. [s EXCEPT !.items = [i \in DOMAIN @ |->
                      IF Retryable(@[i]) THEN Reset(@[i]) ELSE @[i]]] = [s EXCEPT !.items = u]
  OBVIOUS
<1> HIDE DEF u
<1> QED
  BY <1>1, <1>2, <1>3, SteadyOf

LEMMA SteadyItself ==
  ASSUME NEW s, NEW t, t.items = s.items, NEW limit
  PROVE  Steady(s, t, limit)
BY DEF Steady, Keeps

LEMMA SteadyRight ==
  ASSUME NEW s \in State, NEW t \in State, NEW low \in Nat, NEW limit \in Nat, low <= limit,
         Right(s, low), Steady(s, t, limit)
  PROVE  Right(t, limit) /\ SameAttempts(s, t)
<1>1. /\ DOMAIN t.items = DOMAIN s.items
      /\ \A i \in DOMAIN s.items : Keeps(s.items[i], t.items[i], limit)
  BY DEF Steady
<1>2. \A i \in DOMAIN s.items : s.items[i] \in Item
  BY StateItems
<1>3. Within(t, limit)
  <2>1. ASSUME NEW i \in DOMAIN t.items
        PROVE  /\ t.items[i].attempt <= limit + 1
               /\ t.items[i].status = "planned" => t.items[i].attempt <= limit
    <3>1. /\ s.items[i].attempt \in Nat
          /\ s.items[i].attempt <= low + 1
          /\ s.items[i].status = "planned" => s.items[i].attempt <= low
      BY <1>1, <1>2 DEF Right, Within, Item
    <3>2. /\ t.items[i].attempt = s.items[i].attempt
          /\ t.items[i].status = "planned" =>
               s.items[i].status = "planned" \/ s.items[i].attempt <= limit
      BY <1>1 DEF Keeps
    <3> QED
      BY <3>1, <3>2
  <2> QED
    BY <2>1 DEF Within
<1>4. Rested(t)
  <2>1. Of(t.items, "validation") = Of(s.items, "validation")
    BY <1>1 DEF Of, Keeps
  <2>2. ASSUME NEW i \in Of(s.items, "validation")
        PROVE  /\ t.items[i].parent \in DOMAIN t.items
               /\ t.items[t.items[i].parent].status = "valid"
               /\ Cardinality(Validations(t, i)) = Seeds
    <3>1. /\ s.items[i].parent \in DOMAIN s.items
          /\ s.items[s.items[i].parent].status = "valid"
          /\ Cardinality(Validations(s, i)) = Seeds
      BY DEF Right, Rested
    <3>2. \A j \in Of(s.items, "validation") : t.items[j].parent = s.items[j].parent
      BY <1>1 DEF Of, Keeps
    <3>3. Validations(t, i) = Validations(s, i)
      BY <2>1, <3>2 DEF Validations
    <3> QED
      BY <1>1, <3>1, <3>2, <3>3 DEF Keeps
  <2> QED
    BY <2>1, <2>2 DEF Rested
<1>5. SameAttempts(s, t)
  BY <1>1 DEF SameAttempts, Attempts, Keeps
<1> QED
  BY <1>3, <1>4, <1>5 DEF Right

\* Planned items were not attempted yet, and the others stay where they are.
LEMMA AddsApart ==
  ASSUME NEW s, s \in State, NEW phase, NEW grown, Adds(s.items, grown, phase)
  PROVE  /\ DOMAIN s.items \subseteq DOMAIN grown
         /\ \A i \in DOMAIN s.items : grown[i] = s.items[i]
         /\ \A i \in DOMAIN grown \ DOMAIN s.items :
              /\ grown[i].phase = phase
              /\ grown[i].status = "planned"
              /\ grown[i].attempt = 0
<1>1. PICK new \in Seq(Item) :
        /\ grown = s.items \o new
        /\ \A k \in DOMAIN new : /\ new[k].phase = phase
                                 /\ new[k].status = "planned"
                                 /\ new[k].attempt = 0
  BY DEF Adds
<1>2. /\ s.items \in Seq(Item)
      /\ Len(s.items) \in Nat
      /\ DOMAIN s.items = 1 .. Len(s.items)
      /\ Len(new) \in Nat
      /\ DOMAIN new = 1 .. Len(new)
  BY StateItems
<1>3. /\ DOMAIN grown = 1 .. Len(s.items) + Len(new)
      /\ \A i \in 1 .. Len(s.items) : grown[i] = s.items[i]
      /\ \A i \in 1 .. Len(s.items) + Len(new) :
           i > Len(s.items) => grown[i] = new[i - Len(s.items)]
  BY <1>1, <1>2
<1>4. ASSUME NEW i \in DOMAIN grown \ DOMAIN s.items
      PROVE  i - Len(s.items) \in DOMAIN new /\ grown[i] = new[i - Len(s.items)]
  BY <1>2, <1>3
<1> QED
  BY <1>1, <1>2, <1>3, <1>4

LEMMA AddsAttempts ==
  ASSUME NEW s \in State, NEW t, NEW phase, Adds(s.items, t.items, phase),
         NEW limit \in Nat, Within(s, limit)
  PROVE  Within(t, limit) /\ SameAttempts(s, t)
<1> DEFINE grown == t.items
<1> HIDE DEF grown
<1>1. Adds(s.items, grown, phase)
  BY DEF grown
<1>2. /\ DOMAIN s.items \subseteq DOMAIN grown
      /\ \A i \in DOMAIN s.items : grown[i] = s.items[i]
      /\ \A i \in DOMAIN grown \ DOMAIN s.items :
           grown[i].status = "planned" /\ grown[i].attempt = 0
  BY <1>1, AddsApart
<1>3. Within(t, limit)
  BY <1>2 DEF Within, grown
<1>4. SameAttempts(s, t)
  BY <1>2 DEF SameAttempts, Attempts, grown
<1> QED
  BY <1>3, <1>4

LEMMA AddsRight ==
  ASSUME NEW s \in State, NEW t, NEW phase, phase # "validation",
         Adds(s.items, t.items, phase), NEW limit \in Nat, Right(s, limit)
  PROVE  Right(t, limit) /\ SameAttempts(s, t)
<1>1. Within(t, limit) /\ SameAttempts(s, t)
  BY AddsAttempts DEF Right
<1> DEFINE grown == t.items
<1>2. /\ DOMAIN s.items \subseteq DOMAIN grown
      /\ \A i \in DOMAIN s.items : grown[i] = s.items[i]
      /\ Of(grown, "validation") = Of(s.items, "validation")
  <2>1. Adds(s.items, grown, phase)
    OBVIOUS
  <2> DEFINE other == "validation"
  <2>2. other # phase
    OBVIOUS
  <2> HIDE DEF grown, other
  <2>3. Of(grown, other) = Of(s.items, other)
    BY <2>1, <2>2, AddedElsewhere
  <2>4. /\ DOMAIN s.items \subseteq DOMAIN grown
        /\ \A i \in DOMAIN s.items : grown[i] = s.items[i]
    BY <2>1, AddsApart
  <2> QED
    BY <2>3, <2>4 DEF other
<1>3. Of(t.items, "validation") = Of(s.items, "validation")
  BY <1>2
<1>4. ASSUME NEW i \in Of(t.items, "validation")
      PROVE  /\ t.items[i].parent \in DOMAIN t.items
             /\ t.items[t.items[i].parent].status = "valid"
             /\ Cardinality(Validations(t, i)) = Seeds
  <2>1. \A j \in Of(s.items, "validation") : j \in DOMAIN s.items /\ t.items[j] = s.items[j]
    BY <1>2 DEF Of
  <2>2. Validations(t, i) = Validations(s, i)
    BY <1>3, <2>1 DEF Validations
  <2>3. /\ s.items[i].parent \in DOMAIN s.items
        /\ s.items[s.items[i].parent].status = "valid"
        /\ Cardinality(Validations(s, i)) = Seeds
    BY <1>3 DEF Right, Rested
  <2> QED
    BY <1>2, <1>3, <2>1, <2>2, <2>3
<1>5. Rested(t)
  BY <1>4 DEF Rested
<1> QED
  BY <1>1, <1>5 DEF Right

\* The a * b items after the first n are dealt out to a finalists, b to each.
Dealt(a, b, n, f) == {j \in n + 1 .. n + a * b : (j - n - 1) \div b + 1 = f}

LEMMA DealtOut ==
  ASSUME NEW a \in Nat, NEW b \in Nat, NEW n \in Nat, NEW f \in 1 .. a
  PROVE  Cardinality(Dealt(a, b, n, f)) = b
<1> DEFINE dealt == {j \in n + 1 .. n + a * b : (j - n - 1) \div b + 1 = f}
           c == (f - 1) * b
<1>1. c \in Nat /\ c + b = f * b /\ c + b <= a * b /\ a * b \in Nat
  <2>1. f - 1 \in Nat /\ f \in Nat /\ f <= a
    OBVIOUS
  <2>2. c \in Nat /\ f * b \in Nat /\ a * b \in Nat
    BY <2>1
  <2>3. c + b = f * b
    BY <2>1
  <2>4. f * b <= a * b
    BY <2>1
  <2> QED
    BY <2>2, <2>3, <2>4
<1>2. dealt = n + c + 1 .. n + c + b
  <2>1. CASE b = 0
    <3>1. a * b = 0
      BY <2>1
    <3> QED
      BY <1>1, <2>1, <3>1
  <2>2. CASE b > 0
    <3>1. ASSUME NEW j \in n + 1 .. n + a * b
          PROVE  (j - n - 1) \div b + 1 = f <=> n + c < j /\ j <= n + c + b
      <4> DEFINE q == (j - n - 1) \div b
      <4>1. j - n - 1 \in Nat /\ j \in Nat
        BY <1>1
      <4>2. q \in Int /\ q * b <= j - n - 1 /\ j - n - 1 < q * b + b
        BY <2>2, <4>1
      <4> HIDE DEF q
      <4>3. q + 1 = f => n + c < j /\ j <= n + c + b
        <5>1. q + 1 = f => q * b = c
          BY <4>2
        <5> QED
          BY <1>1, <4>1, <4>2, <5>1
      <4>4. n + c < j /\ j <= n + c + b => q + 1 = f
        <5>1. q < f - 1 => q * b + b <= c
          BY <2>2, <4>2
        <5>2. q > f - 1 => q * b >= c + b
          BY <2>2, <4>2
        <5> QED
          BY <1>1, <4>1, <4>2, <5>1, <5>2
      <4> QED
        BY <4>3, <4>4 DEF q
    <3> HIDE DEF c
    <3>2. ASSUME NEW j \in n + c + 1 .. n + c + b
          PROVE  j \in n + 1 .. n + a * b /\ n + c < j /\ j <= n + c + b
      BY <1>1
    <3>3. ASSUME NEW j \in dealt
          PROVE  j \in n + c + 1 .. n + c + b
      <4>1. j \in n + 1 .. n + a * b /\ n + c < j /\ j <= n + c + b
        BY <3>1
      <4> QED
        BY <1>1, <4>1
    <3>4. \A j \in n + c + 1 .. n + c + b : j \in dealt
      BY <3>1, <3>2
    <3> HIDE DEF dealt
    <3> QED
      BY <3>3, <3>4
  <2> QED
    BY <2>1, <2>2
<1> HIDE DEF dealt, c
<1>3. Cardinality(n + c + 1 .. n + c + b) = b
  <2>1. n + c + 1 \in Int /\ n + c + b \in Int
    BY <1>1
  <2> DEFINE lo == n + c + 1
             hi == n + c + b
  <2>2. hi - lo + 1 = b
    BY <1>1
  <2> HIDE DEF lo, hi
  <2>3. Cardinality(lo .. hi) = IF lo > hi THEN 0 ELSE hi - lo + 1
    BY <2>1, FS_Interval DEF lo, hi
  <2> QED
    BY <1>1, <2>2, <2>3 DEF lo, hi
<1> QED
  BY <1>2, <1>3 DEF dealt, Dealt

\* Different finalists, each the parent of as many runs as there are seeds.
Chosen(best, valid, rest) ==
  /\ best \in [1 .. Finalists -> valid]
  /\ \A i, j \in 1 .. Finalists : best[i] = best[j] => i = j
  /\ \A k \in 1 .. Finalists * Seeds : rest[k] = best[(k - 1) \div Seeds + 1]

LEMMA ChosenRested ==
  ASSUME NEW s \in State, Of(s.items, "validation") = {}, NEW phases, NEW best, NEW rest,
         Chosen(best, ValidIn(s.items, phases), rest),
         NEW t, t.items = Grown(s.items, "validation", Finalists * Seeds, rest)
  PROVE  Rested(t)
<1> DEFINE total == Finalists * Seeds
           n == Len(s.items)
           new == [k \in 1 .. total |->
                     New("validation", (k - 1) \div Width + 1, rest[k])]
           F(i) == (i - n - 1) \div Seeds + 1
<1>0. /\ best \in [1 .. Finalists -> ValidIn(s.items, phases)]
      /\ \A i, j \in 1 .. Finalists : best[i] = best[j] => i = j
      /\ \A k \in 1 .. total : rest[k] = best[(k - 1) \div Seeds + 1]
  BY DEF Chosen
<1>1. Finalists \in Nat /\ Seeds \in Nat /\ total \in Nat
  BY CampaignAssumption DEF CampaignAssumption
<1>2. /\ s.items \in Seq(Item)
      /\ n \in Nat
      /\ DOMAIN s.items = 1 .. n
  BY StateItems
<1>3. t.items = s.items \o new
  <2> DEFINE m == Cardinality(Of(s.items, "validation"))
             grown == [k \in 1 .. total - m |->
                         New("validation", (m + k - 1) \div Width + 1, rest[m + k])]
  <2>1. m = 0
    BY FS_EmptySet
  <2>2. t.items = s.items \o grown
    BY DEF Grown
  <2>3. grown = new
    <3> HIDE DEF m, total
    <3>1. total - m = total
      BY <1>1, <2>1
    <3>2. ASSUME NEW k \in 1 .. total
          PROVE  grown[k] = new[k]
      <4>1. m + k = k /\ m + k - 1 = k - 1 /\ k \in 1 .. total - m
        BY <1>1, <2>1, <3>1
      <4> QED
        BY <4>1
    <3> QED
      BY <3>1, <3>2
  <2> QED
    BY <2>2, <2>3
<1>4. /\ new \in [1 .. total -> Item]
      /\ \A k \in 1 .. total :
           /\ new[k].phase = "validation"
           /\ (k - 1) \div Seeds + 1 \in 1 .. Finalists
           /\ new[k].parent = best[(k - 1) \div Seeds + 1]
  <2>1. ASSUME NEW k \in 1 .. total
        PROVE  /\ New("validation", (k - 1) \div Width + 1, rest[k]) \in Item
               /\ (k - 1) \div Seeds + 1 \in 1 .. Finalists
               /\ rest[k] = best[(k - 1) \div Seeds + 1]
    <3>1. (k - 1) \div Seeds + 1 \in 1 .. Finalists
      BY <1>1, SeedsOfFinalist
    <3>2. rest[k] = best[(k - 1) \div Seeds + 1]
      BY <1>0
    <3>3. rest[k] \in Nat
      BY <1>0, <1>2, <3>1, <3>2 DEF ValidIn
    <3>4. (k - 1) \div Width + 1 \in Nat
      <4>1. k - 1 \in Nat
        BY <1>1
      <4> QED
        BY <4>1, BatchNumber
    <3>5. "validation" \in Phases
      BY DEF Phases
    <3> QED
      BY <3>1, <3>2, <3>3, <3>4, <3>5, NewType
  <2> QED
    BY <2>1 DEF New
<1> HIDE DEF new, total
<1>5. /\ DOMAIN t.items = 1 .. n + total
      /\ \A i \in 1 .. n : t.items[i] = s.items[i]
      /\ \A i \in n + 1 .. n + total : t.items[i] = new[i - n]
  <2>1. new \in Seq(Item) /\ Len(new) = total /\ DOMAIN new = 1 .. total
    BY <1>1, <1>4, SeqOfFunction
  <2> DEFINE grown == s.items \o new
  <2>2. /\ DOMAIN grown = 1 .. Len(s.items) + Len(new)
        /\ \A i \in 1 .. Len(s.items) : grown[i] = s.items[i]
        /\ \A i \in 1 .. Len(s.items) + Len(new) :
             i > Len(s.items) => grown[i] = new[i - Len(s.items)]
    <3>1. Len(s.items) \in Nat /\ DOMAIN s.items = 1 .. Len(s.items)
      BY <1>2
    <3>2. Len(new) \in Nat /\ DOMAIN new = 1 .. Len(new)
      BY <1>1, <2>1
    <3> QED
      BY <1>2, <2>1, <3>1, <3>2
  <2>3. \A i \in n + 1 .. n + total : i \in 1 .. n + total /\ i > n
    BY <1>1, <1>2
  <2> QED
    BY <1>3, <2>1, <2>2, <2>3
<1>6. ASSUME NEW i \in n + 1 .. n + total
      PROVE  /\ t.items[i].phase = "validation"
             /\ F(i) \in 1 .. Finalists
             /\ t.items[i].parent = best[F(i)]
  <2>1. i - n \in 1 .. total
    BY <1>1, <1>2
  <2> DEFINE k == i - n
  <2>2. t.items[i] = new[k] /\ k \in 1 .. total
    BY <1>5, <2>1
  <2>3. F(i) = (k - 1) \div Seeds + 1
    BY <1>2
  <2> HIDE DEF k, F
  <2> QED
    BY <1>4, <2>2, <2>3
<1>7. Of(t.items, "validation") = n + 1 .. n + total
  <2>1. ASSUME NEW i \in 1 .. n + total, i \notin n + 1 .. n + total
        PROVE  i \notin Of(t.items, "validation")
    <3>1. i \in 1 .. n
      BY <1>1, <1>2, <2>1
    <3> QED
      BY <1>2, <1>5, <3>1 DEF Of
  <2>2. n + 1 .. n + total \subseteq 1 .. n + total
    BY <1>1, <1>2
  <2> QED
    BY <1>5, <1>6, <2>1, <2>2 DEF Of
<1>8. ASSUME NEW i \in n + 1 .. n + total
      PROVE  /\ t.items[i].parent \in DOMAIN t.items
             /\ t.items[t.items[i].parent].status = "valid"
             /\ Cardinality(Validations(t, i)) = Seeds
  <2>1. F(i) \in 1 .. Finalists /\ t.items[i].parent = best[F(i)]
    BY <1>6
  <2> DEFINE f == F(i)
             p == best[f]
  <2>2. f \in 1 .. Finalists /\ t.items[i].parent = p
    BY <2>1
  <2> HIDE DEF f
  <2>3. p \in 1 .. n /\ s.items[p].status = "valid"
    BY <1>0, <1>2, <2>2 DEF ValidIn
  <2>4. p \in DOMAIN t.items /\ t.items[p].status = "valid"
    <3> HIDE DEF p
    <3>1. p \in 1 .. n + total /\ t.items[p] = s.items[p]
      BY <1>1, <1>2, <1>5, <2>3
    <3> QED
      BY <1>5, <2>3, <3>1
  <2>5. Validations(t, i) = Dealt(Finalists, Seeds, n, f)
    <3>1. ASSUME NEW j \in n + 1 .. n + total
          PROVE  t.items[j].parent = t.items[i].parent <=> (j - n - 1) \div Seeds + 1 = f
      <4>1. F(j) \in 1 .. Finalists /\ t.items[j].parent = best[F(j)]
        BY <1>6
      <4>2. t.items[j].parent = t.items[i].parent <=> F(j) = f
        <5> HIDE DEF F
        <5> QED
          BY <1>0, <2>2, <4>1
      <4> QED
        BY <4>2
    <3>2. Validations(t, i) =
            {j \in n + 1 .. n + total : t.items[j].parent = t.items[i].parent}
      BY <1>7 DEF Validations
    <3> QED
      BY <3>1, <3>2 DEF Dealt, total
  <2>6. Cardinality(Dealt(Finalists, Seeds, n, f)) = Seeds
    BY <1>1, <1>2, <2>2, DealtOut
  <2> QED
    BY <2>2, <2>4, <2>5, <2>6
<1> QED
  BY <1>7, <1>8 DEF Rested

LEMMA AllowedType ==
  ASSUME TypeOK
  PROVE  Allowed \in Nat /\ (tool = "calibration" => RetryLimit <= Allowed)
<1>1. used.retry \in Nat /\ RetryLimit \in Nat
  BY CampaignAssumption DEF TypeOK, CampaignAssumption
<1> QED
  BY <1>1 DEF Allowed

LEMMA SameAttemptsChain ==
  ASSUME NEW r, NEW s, NEW t, SameAttempts(r, s), SameAttempts(s, t)
  PROVE  SameAttempts(r, t)
BY DEF SameAttempts

\* Every step but Submit, Record, Stop and the end of a run leaves the runs and
\* their count alone.
LEMMA QuietBooks ==
  ASSUME Inv, Books, UNCHANGED <<server, posted, orphans>>, pc' # "posted",
         Right(mem', Allowed'), Right(disk', Allowed'),
         SameAttempts(mem, mem'), SameAttempts(disk', mem')
  PROVE  Books'
<1>1. ASSUME NEW i \in Nat \ {0}
      PROVE  (Cardinality(RunsOf(i)) =
                Attempts(mem, i) + Orphaned(i) + (IF posted = i THEN 1 ELSE 0))'
  <2>1. Cardinality(RunsOf(i)) =
          Attempts(mem, i) + Orphaned(i) + (IF posted = i THEN 1 ELSE 0)
    BY DEF Books, Counted
  <2>2. RunsOf(i)' = RunsOf(i) /\ Orphaned(i)' = Orphaned(i)
    BY DEF RunsOf, Orphaned
  <2>3. Attempts(mem', i) = Attempts(mem, i)
    BY DEF SameAttempts
  <2> QED
    BY <2>1, <2>2, <2>3
<1>2. Counted'
  BY <1>1 DEF Counted
<1> QED
  BY <1>2 DEF Books

LEMMA PollBooks ==
  ASSUME Inv, Inv', Books, Poll
  PROVE  Books'
<1>1. /\ TypeOK /\ Good(mem, server, Cut)
      /\ mem \in State /\ mem' \in State
      /\ Allowed \in Nat
  BY AllowedType DEF Inv, TypeOK
<1>2. Allowed' = Allowed /\ disk' = disk
  BY DEF Poll, Allowed
<1>3. Steady(mem, mem', Allowed)
  BY <1>1, PolledSteady DEF Poll
<1>4. Right(mem', Allowed) /\ SameAttempts(mem, mem')
  BY <1>1, <1>3, SteadyRight DEF Books
<1>5. SameAttempts(disk', mem')
  BY <1>2, <1>4, SameAttemptsChain DEF Books
<1>6. Right(disk', Allowed')
  BY <1>2 DEF Books
<1> QED
  BY <1>2, <1>4, <1>5, <1>6, QuietBooks DEF Poll

LEMMA CollectBooks ==
  ASSUME Inv, Inv', Books, Collect
  PROVE  Books'
<1> DEFINE Open == {i \in DOMAIN mem.items :
                      mem.items[i].status = "completed" /\ mem.items[i].result \in
                        IF tool = "study" THEN {"none", "failed"} ELSE {"none"}}
           Failed == {i \in DOMAIN mem.items : mem.items[i].status = "failed"}
           Analytics(missing, bad, i) ==
             IF i \in missing THEN "missing" ELSE IF i \in bad THEN "bad" ELSE "good"
           Result(missing, bad) ==
             [i \in DOMAIN mem.items |->
                IF i \in Open \cup Failed
                  THEN Collected(mem.items[i], Analytics(missing, bad, i))
                  ELSE mem.items[i]]
<1>1. /\ TypeOK
      /\ mem \in State /\ mem' \in State
      /\ Allowed \in Nat
      /\ tool = "calibration" => RetryLimit <= Allowed
  BY AllowedType DEF Inv, TypeOK
<1>2. PICK bad \in SUBSET Open, missing \in SUBSET Open :
        mem' = [mem EXCEPT !.items = Result(missing, bad)]
  BY DEF Collect
<1> DEFINE u == Result(missing, bad)
<1>3. ASSUME NEW i \in DOMAIN mem.items
      PROVE  Keeps(mem.items[i], u[i], Allowed)
  <2>1. CASE i \in Open \cup Failed
    <3> DEFINE item == mem.items[i]
               analytics == Analytics(missing, bad, i)
    <3>1. item \in Item /\ item.status \in {"completed", "failed"}
      BY <1>1, <2>1, StateItems
    <3>2. analytics \in {"good", "bad", "missing"}
      OBVIOUS
    <3>3. u[i] = Collected(item, analytics)
      BY <2>1
    <3> HIDE DEF item, analytics, u
    <3>4. Keeps(item, Collected(item, analytics), Allowed)
      BY <1>1, <3>1, <3>2, CollectedKeeps
    <3> QED
      BY <3>3, <3>4 DEF item
  <2>2. CASE i \notin Open \cup Failed
    <3>1. u[i] = mem.items[i]
      BY <2>2
    <3> HIDE DEF u
    <3> QED
      BY <3>1 DEF Keeps
  <2> QED
    BY <2>1, <2>2
<1>4. u = [i \in DOMAIN mem.items |-> u[i]] /\ mem' = [mem EXCEPT !.items = u]
  BY <1>2
<1> HIDE DEF u
<1>5. Steady(mem, mem', Allowed)
  BY <1>1, <1>3, <1>4, SteadyOf
<1>6. Right(mem', Allowed) /\ SameAttempts(mem, mem')
  BY <1>1, <1>5, SteadyRight DEF Books
<1>7. /\ UNCHANGED <<server, posted, orphans>>
      /\ disk' = disk /\ pc' \in {"save", "plan"}
      /\ tool' = tool /\ used'.retry = used.retry
  BY <1>1 DEF Collect, TypeOK
<1>8. Allowed' = Allowed
  BY <1>7 DEF Allowed
<1>9. SameAttempts(disk', mem') /\ Right(disk', Allowed')
  BY <1>6, <1>7, <1>8, SameAttemptsChain DEF Books
<1> QED
  BY <1>6, <1>7, <1>8, <1>9, QuietBooks

LEMMA PlanBooks ==
  ASSUME Inv, Inv', Books, Plan
  PROVE  Books'
<1>1. /\ TypeOK
      /\ mem \in State /\ mem' \in State
      /\ Allowed \in Nat
      /\ Right(mem, Allowed)
  BY AllowedType DEF Inv, TypeOK, Books
<1>2. /\ UNCHANGED <<server, posted, orphans>>
      /\ disk' = disk /\ pc' = "submit"
      /\ Allowed' = Allowed
  BY DEF Plan, Allowed
<1>3. ASSUME Right(mem', Allowed), SameAttempts(mem, mem')
      PROVE  Books'
  <2>1. SameAttempts(disk', mem') /\ Right(disk', Allowed')
    BY <1>2, <1>3, SameAttemptsChain DEF Books
  <2> QED
    BY <1>2, <1>3, <2>1, QuietBooks
<1>4. CASE UNCHANGED mem
  <2>1. SameAttempts(mem, mem')
    BY <1>4 DEF SameAttempts
  <2> QED
    BY <1>1, <1>3, <1>4, <2>1
<1>5. CASE /\ mem.phase \in Searches
           /\ mem' = [mem EXCEPT !.items = Searched(@, mem.phase)]
  <2> DEFINE phase == mem.phase
  <2>1. Adds(mem.items, Searched(mem.items, phase), phase)
    BY <1>1, <1>5, SearchedType
  <2>2. mem'.items = Searched(mem.items, phase)
    BY <1>1, <1>5 DEF State
  <2>3. phase # "validation"
    BY <1>5 DEF Searches
  <2> HIDE DEF phase
  <2>4. Adds(mem.items, mem'.items, phase)
    BY <2>1, <2>2
  <2> QED
    BY <1>1, <1>3, <2>3, <2>4, AddsRight
<1>6. CASE /\ mem.phase = "validation"
           /\ Of(mem.items, "validation") = {}
           /\ \E best \in [1 .. Finalists -> ValidIn(mem.items, Basis("validation"))] :
                /\ \A i, j \in 1 .. Finalists : best[i] = best[j] => i = j
                /\ mem' = [mem EXCEPT !.items =
                             Grown(@, "validation", Finalists * Seeds,
                                   [k \in 1 .. Finalists * Seeds |->
                                      best[(k - 1) \div Seeds + 1]])]
  <2>1. PICK best \in [1 .. Finalists -> ValidIn(mem.items, Basis("validation"))] :
          /\ \A i, j \in 1 .. Finalists : best[i] = best[j] => i = j
          /\ mem' = [mem EXCEPT !.items =
                       Grown(mem.items, "validation", Finalists * Seeds,
                             [k \in 1 .. Finalists * Seeds |-> best[(k - 1) \div Seeds + 1]])]
    BY <1>6
  <2> DEFINE parent == [k \in 1 .. Finalists * Seeds |-> best[(k - 1) \div Seeds + 1]]
             total == Finalists * Seeds
             phases == Basis("validation")
  <2>2. mem'.items = Grown(mem.items, "validation", total, parent)
    BY <1>1, <2>1 DEF State
  <2> HIDE DEF phases
  <2>3. best \in [1 .. Finalists -> ValidIn(mem.items, phases)]
    BY DEF phases
  <2>4. Rested(mem')
    <3>1. Chosen(best, ValidIn(mem.items, phases), parent)
      BY <2>1, <2>3 DEF Chosen
    <3>2. mem'.items = Grown(mem.items, "validation", Finalists * Seeds, parent)
      BY <2>2
    <3>3. Of(mem.items, "validation") = {} /\ mem \in State
      BY <1>1, <1>6
    <3> HIDE DEF parent, total
    <3> QED
      BY <3>1, <3>2, <3>3, ChosenRested
  <2>5. Finalists \in Nat /\ Seeds \in Nat /\ total \in Int
    BY CampaignAssumption DEF CampaignAssumption
  <2>6. ASSUME NEW k \in 1 .. total
        PROVE  parent[k] \in Nat
    <3>1. (k - 1) \div Seeds + 1 \in 1 .. Finalists
      BY <2>5, SeedsOfFinalist
    <3>2. parent[k] = best[(k - 1) \div Seeds + 1]
      OBVIOUS
    <3>3. ValidIn(mem.items, phases) \subseteq Nat
      BY <1>1, StateItems DEF ValidIn
    <3> HIDE DEF parent
    <3> QED
      BY <2>3, <3>1, <3>2, <3>3
  <2>7. "validation" \in Phases
    BY DEF Phases
  <2> HIDE DEF parent, total
  <2>8. Adds(mem.items, Grown(mem.items, "validation", total, parent), "validation")
    BY <1>1, <2>5, <2>6, <2>7, GrownType
  <2> DEFINE phase == "validation"
  <2>9. Adds(mem.items, mem'.items, phase)
    BY <2>2, <2>8
  <2> HIDE DEF phase
  <2>10. Within(mem', Allowed) /\ SameAttempts(mem, mem')
    BY <1>1, <2>9, AddsAttempts DEF Right
  <2> QED
    BY <1>3, <2>4, <2>10 DEF Right
<1> QED
  BY <1>4, <1>5, <1>6 DEF Plan

LEMMA PlanFailsBooks ==
  ASSUME Inv, Inv', Books, PlanFails
  PROVE  Books'
<1>1. /\ UNCHANGED <<server, posted, orphans>>
      /\ disk' = disk /\ mem' = disk /\ pc' = "down"
      /\ Allowed' = Allowed
  BY DEF PlanFails, Allowed
<1>2. Right(disk, Allowed) /\ SameAttempts(disk, mem)
  BY DEF Books
<1>3. SameAttempts(mem, mem') /\ SameAttempts(disk', mem')
  BY <1>1, <1>2 DEF SameAttempts
<1> QED
  BY <1>1, <1>2, <1>3, QuietBooks

LEMMA SaveBooks ==
  ASSUME Inv, Inv', Books, Save
  PROVE  Books'
<1>1. /\ mem \in State /\ mem' \in State
      /\ Allowed \in Nat
      /\ Right(mem, Allowed)
  BY AllowedType DEF Inv, TypeOK, Books
<1>2. /\ UNCHANGED <<server, posted, orphans>>
      /\ disk' = mem' /\ pc' # "posted"
      /\ Allowed' = Allowed
      /\ mem' = IF command = "analyze" THEN mem ELSE Advanced(mem)
  BY DEF Save, Allowed
<1>3. Steady(mem, mem', Allowed)
  <2>1. mem'.items = mem.items
    BY <1>1, <1>2, AdvancedType
  <2> QED
    BY <2>1, SteadyItself
<1>4. Right(mem', Allowed) /\ SameAttempts(mem, mem')
  BY <1>1, <1>3, SteadyRight
<1>5. SameAttempts(disk', mem')
  BY <1>2 DEF SameAttempts
<1> QED
  BY <1>2, <1>4, <1>5, QuietBooks

LEMMA AnalyzeBooks ==
  ASSUME Inv, Inv', Books, Analyze
  PROVE  Books'
<1>1. /\ UNCHANGED <<server, posted, orphans>>
      /\ disk' = disk /\ mem' = disk /\ pc' = "poll"
  BY DEF Analyze
<1>2. Right(disk, Allowed) /\ SameAttempts(disk, mem)
  BY DEF Books
<1>3. SameAttempts(mem, mem') /\ SameAttempts(disk', mem')
  BY <1>1, <1>2 DEF SameAttempts
<1>4. Allowed' = Allowed
  <2>1. used'.retry = used.retry /\ tool' = tool
    BY DEF Analyze, Use, Inv, TypeOK
  <2> QED
    BY <2>1 DEF Allowed
<1> QED
  BY <1>1, <1>2, <1>3, <1>4, QuietBooks

\* --retry-failed plans an item whose attempts were used up once more, and allows
\* for it.
LEMMA ResumeBooks ==
  ASSUME Inv, Inv', Books, Resume
  PROVE  Books'
<1> DEFINE polled == [disk EXCEPT !.items = [i \in DOMAIN @ |-> Polled(@[i])]]
           seen == IF tool = "study" THEN polled ELSE disk
           retried == [seen EXCEPT !.items =
                        [i \in DOMAIN @ |-> IF Retryable(@[i]) THEN Reset(@[i]) ELSE @[i]]]
<1>1. /\ TypeOK
      /\ disk \in State /\ Good(disk, server, Cut)
      /\ server \in Seq(Job)
      /\ Allowed \in Nat
      /\ Right(disk, Allowed) /\ SameAttempts(disk, mem)
  BY AllowedType, ServerJobs DEF Inv, TypeOK, Books
<1>2. /\ UNCHANGED <<tool, server, posted, orphans>>
      /\ pc' = "poll"
      /\ disk' = mem' \/ disk' = disk
      /\ \/ mem' = seen /\ UNCHANGED used
         \/ mem' = retried /\ Use("retry")
  BY DEF Resume
<1>3. polled \in State /\ Steady(disk, polled, Allowed)
  BY <1>1, PolledFaithful, PolledSteady
<1> HIDE DEF polled
<1>4. seen \in State /\ Good(seen, server, Cut)
  <2>1. polled \in State /\ Good(polled, server, Cut)
    <3>1. polled \in State /\ Faithful(disk, polled, server)
      BY <1>1, PolledFaithful DEF polled
    <3> QED
      BY <1>1, <3>1, FaithfulGood
  <2> QED
    BY <1>1, <2>1
<1>5. Steady(disk, seen, Allowed)
  BY <1>3, SteadyItself
<1> HIDE DEF seen
<1>6. Right(seen, Allowed) /\ SameAttempts(disk, seen)
  BY <1>1, <1>4, <1>5, SteadyRight
<1>7. retried \in State /\ Steady(seen, retried, Allowed + 1)
  BY <1>1, <1>4, <1>6, RetriedFaithful, RetriedSteady DEF Right
<1> HIDE DEF retried
<1>8. Right(retried, Allowed + 1) /\ SameAttempts(seen, retried)
  <2>1. Allowed + 1 \in Nat /\ Allowed <= Allowed + 1
    BY <1>1
  <2> QED
    BY <1>1, <1>4, <1>6, <1>7, <2>1, SteadyRight
<1>9. SameAttempts(disk, retried)
  BY <1>6, <1>8, SameAttemptsChain
<1>10. Right(disk, Allowed + 1)
  <2>1. Allowed + 1 \in Nat /\ Allowed <= Allowed + 1
    BY <1>1
  <2>2. Steady(disk, disk, Allowed + 1)
    BY SteadyItself
  <2> QED
    BY <1>1, <2>1, <2>2, SteadyRight
<1>11. /\ Right(mem', Allowed') /\ Right(disk', Allowed')
       /\ SameAttempts(disk, mem')
  <2>1. CASE mem' = seen /\ UNCHANGED used
    <3>1. Allowed' = Allowed
      BY <1>2, <2>1 DEF Allowed
    <3> QED
      BY <1>1, <1>2, <1>6, <2>1, <3>1
  <2>2. CASE mem' = retried /\ Use("retry")
    <3>1. Allowed' = Allowed + 1
      <4>1. used'.retry = used.retry + 1 /\ used.retry \in Nat /\ RetryLimit \in Nat
        BY <1>1, <2>2, CampaignAssumption DEF Use, TypeOK, CampaignAssumption
      <4> QED
        BY <1>2, <4>1 DEF Allowed
    <3> QED
      BY <1>2, <1>8, <1>9, <1>10, <2>2, <3>1
  <2> QED
    BY <1>2, <2>1, <2>2
<1>12. SameAttempts(mem, mem') /\ SameAttempts(disk', mem')
  BY <1>1, <1>2, <1>11 DEF SameAttempts
<1> QED
  BY <1>2, <1>11, <1>12, QuietBooks

LEMMA SubmittedBooks ==
  ASSUME Inv, Inv', Books, Submitted
  PROVE  Books'
<1>1. /\ UNCHANGED <<server, posted, orphans, mem, disk>>
      /\ pc' = "save" /\ Allowed' = Allowed
  BY DEF Submitted, Allowed
<1>2. Right(mem, Allowed) /\ Right(disk, Allowed) /\ SameAttempts(disk, mem)
  BY DEF Books
<1>3. SameAttempts(mem, mem')
  BY <1>1 DEF SameAttempts
<1> QED
  BY <1>1, <1>2, <1>3, QuietBooks

LEMMA RunsFinite ==
  ASSUME TypeOK, NEW i
  PROVE  /\ IsFiniteSet(RunsOf(i)) /\ Cardinality(RunsOf(i)) \in Nat
         /\ IsFiniteSet({r \in orphans : server[r].item = i})
         /\ Orphaned(i) \in Nat
<1>1. /\ Len(server) \in Nat /\ DOMAIN server = 1 .. Len(server)
      /\ orphans \subseteq 1 .. Len(server)
  BY ServerJobs DEF TypeOK
<1>2. IsFiniteSet(1 .. Len(server))
  BY <1>1, FS_Interval
<1>3. /\ RunsOf(i) \subseteq 1 .. Len(server)
      /\ {r \in orphans : server[r].item = i} \subseteq 1 .. Len(server)
  BY <1>1 DEF RunsOf
<1> QED
  BY <1>2, <1>3, FS_Subset, FS_CardinalityType DEF Orphaned

\* A POST adds one run, of the item that is posted.
LEMMA SubmitBooks ==
  ASSUME Inv, Inv', Books, Submit
  PROVE  Books'
<1>1. /\ TypeOK
      /\ server \in Seq(Job) /\ Len(server) \in Nat /\ DOMAIN server = 1 .. Len(server)
      /\ orphans \subseteq 1 .. Len(server)
  BY ServerJobs DEF Inv, TypeOK
<1>2. PICK k \in Submittable(mem) :
        /\ server' = Append(server, [item |-> k, status |-> "queued"])
        /\ posted' = k
  BY DEF Submit
<1>3. /\ pc = "submit" /\ pc' = "posted" /\ posted = 0
      /\ UNCHANGED <<mem, disk, orphans>>
      /\ Allowed' = Allowed
  BY DEF Submit, Allowed, Inv
<1>4. k \in Nat \ {0}
  <2>1. k \in DOMAIN mem.items /\ mem \in State
    BY DEF Submittable, Of, Inv, TypeOK
  <2> QED
    BY <2>1, StateItems
<1> DEFINE job == [item |-> k, status |-> "queued"]
           last == Len(server) + 1
<1>5. /\ server' = Append(server, job) /\ job.item = k /\ job \in Job
  BY <1>2, <1>4 DEF Job
<1> HIDE DEF job
<1>6. /\ DOMAIN server' = 1 .. last
      /\ Len(server') = last
      /\ \A r \in 1 .. Len(server) : server'[r] = server[r]
      /\ server'[last].item = k
      /\ last \notin 1 .. Len(server) /\ last \in 1 .. last
      /\ 1 .. Len(server) \subseteq 1 .. last
      /\ \A r \in 1 .. last : r \in 1 .. Len(server) \/ r = last
  BY <1>1, <1>5
<1> HIDE DEF last
<1>7. \A r \in 1 .. last : server'[r].item = IF r = last THEN k ELSE server[r].item
  BY <1>6
<1>8. ASSUME NEW i \in Nat \ {0}
      PROVE  (Cardinality(RunsOf(i)) =
                Attempts(mem, i) + Orphaned(i) + (IF posted = i THEN 1 ELSE 0))'
  <2>1. /\ Cardinality(RunsOf(i)) = Attempts(mem, i) + Orphaned(i)
        /\ IsFiniteSet(RunsOf(i)) /\ Cardinality(RunsOf(i)) \in Nat
    <3>1. Cardinality(RunsOf(i)) =
            Attempts(mem, i) + Orphaned(i) + (IF posted = i THEN 1 ELSE 0)
      BY DEF Books, Counted
    <3>2. Attempts(mem, i) \in Nat
      <4>1. mem \in State
        BY <1>1 DEF TypeOK
      <4> QED
        BY <4>1, StateItems DEF Attempts, Item
    <3>3. Orphaned(i) \in Nat /\ IsFiniteSet(RunsOf(i)) /\ Cardinality(RunsOf(i)) \in Nat
      BY <1>1, RunsFinite
    <3> QED
      BY <1>3, <3>1, <3>2, <3>3
  <2>2. Orphaned(i)' = Orphaned(i)
    <3>1. {r \in orphans' : server'[r].item = i} = {r \in orphans : server[r].item = i}
      BY <1>1, <1>3, <1>6
    <3> QED
      BY <3>1 DEF Orphaned
  <2>3. Attempts(mem', i) = Attempts(mem, i)
    BY <1>3
  <2>4. CASE k = i
    <3>1. RunsOf(i)' = RunsOf(i) \cup {last} /\ last \notin RunsOf(i)
      BY <1>1, <1>6, <1>7, <2>4 DEF RunsOf
    <3>2. Cardinality(RunsOf(i) \cup {last}) = Cardinality(RunsOf(i)) + 1
      BY <2>1, <3>1, FS_AddElement
    <3> QED
      BY <1>2, <2>1, <2>2, <2>3, <2>4, <3>1, <3>2
  <2>5. CASE k # i
    <3>1. RunsOf(i)' = RunsOf(i)
      BY <1>1, <1>6, <1>7, <2>5 DEF RunsOf
    <3>2. Attempts(mem, i) + Orphaned(i) \in Nat
      BY <2>1
    <3>3. Attempts(mem, i) + Orphaned(i) = Attempts(mem, i) + Orphaned(i) + 0
      BY <3>2
    <3> QED
      BY <1>2, <2>1, <2>2, <2>3, <2>5, <3>1, <3>3
  <2> QED
    BY <2>4, <2>5
<1>9. Counted'
  BY <1>8 DEF Counted
<1>10. Right(mem', Allowed') /\ Right(disk', Allowed')
  BY <1>3 DEF Books
<1>11. SameAttempts(disk', mem')
  BY <1>3 DEF Books
<1>12. Len(server') \notin orphans'
  BY <1>1, <1>3, <1>6
<1> QED
  BY <1>9, <1>10, <1>11, <1>12 DEF Books

\* The answer of the POST: the run on its way becomes a recorded attempt.
LEMMA RecordBooks ==
  ASSUME Inv, Inv', Books, Record
  PROVE  Books'
<1>1. /\ TypeOK
      /\ mem \in State /\ mem' \in State
      /\ Len(server) \in Nat
      /\ Allowed \in Nat
      /\ Right(mem, Allowed)
  BY AllowedType, ServerJobs DEF Inv, TypeOK, Books
<1>2. /\ pc = "posted" /\ pc' = "submit" /\ posted' = 0 /\ disk' = mem'
      /\ UNCHANGED <<server, orphans>>
      /\ Allowed' = Allowed
  BY DEF Record, Allowed
<1>3. posted \in DOMAIN mem.items /\ mem.items[posted].status = "planned"
  BY <1>2 DEF Inv, PostOnItsWay
<1> DEFINE old == mem.items[posted]
           new == Recorded(old)
<1>4. mem'.items = [mem.items EXCEPT ![posted] = new]
  BY <1>1 DEF Record, State
<1>5. old \in Item
  BY <1>1, <1>3, StateItems
<1>6. /\ new.phase = old.phase /\ new.parent = old.parent
      /\ new.status = "queued" /\ new.attempt = old.attempt + 1
  <2> HIDE DEF old
  <2> QED
    BY <1>5 DEF Recorded, Item
<1> HIDE DEF old, new
<1>7. /\ DOMAIN mem'.items = DOMAIN mem.items
      /\ mem'.items[posted] = new
      /\ \A i \in DOMAIN mem.items : i # posted => mem'.items[i] = mem.items[i]
  BY <1>3, <1>4
<1>8. old.attempt \in Nat /\ old.attempt <= Allowed /\ old.status = "planned"
  BY <1>1, <1>3, <1>5 DEF Right, Within, Item, old
<1>9. Within(mem', Allowed)
  <2>1. ASSUME NEW i \in DOMAIN mem'.items
        PROVE  /\ mem'.items[i].attempt <= Allowed + 1
               /\ mem'.items[i].status = "planned" => mem'.items[i].attempt <= Allowed
    <3>1. CASE i = posted
      BY <1>1, <1>6, <1>7, <1>8, <3>1
    <3>2. CASE i # posted
      BY <1>1, <1>7, <3>2 DEF Right, Within
    <3> QED
      BY <3>1, <3>2
  <2> QED
    BY <2>1 DEF Within
<1>10. Rested(mem')
  <2>1. /\ Of(mem'.items, "validation") = Of(mem.items, "validation")
        /\ \A i \in DOMAIN mem.items : mem'.items[i].parent = mem.items[i].parent
    BY <1>6, <1>7 DEF Of, old
  <2>2. ASSUME NEW i \in Of(mem.items, "validation")
        PROVE  /\ mem'.items[i].parent \in DOMAIN mem'.items
               /\ mem'.items[mem'.items[i].parent].status = "valid"
               /\ Cardinality(Validations(mem', i)) = Seeds
    <3>1. /\ mem.items[i].parent \in DOMAIN mem.items
          /\ mem.items[mem.items[i].parent].status = "valid"
          /\ Cardinality(Validations(mem, i)) = Seeds
          /\ i \in DOMAIN mem.items
      BY <1>1 DEF Right, Rested, Of
    <3>2. Validations(mem', i) = Validations(mem, i)
      BY <2>1 DEF Validations, Of
    <3>3. mem.items[i].parent # posted
      BY <1>3, <3>1
    <3> QED
      BY <1>7, <2>1, <3>1, <3>2, <3>3
  <2> QED
    BY <2>1, <2>2 DEF Rested
<1>11. ASSUME NEW i \in Nat \ {0}
       PROVE  (Cardinality(RunsOf(i)) =
                 Attempts(mem, i) + Orphaned(i) + (IF posted = i THEN 1 ELSE 0))'
  <2>1. Cardinality(RunsOf(i)) =
          Attempts(mem, i) + Orphaned(i) + (IF posted = i THEN 1 ELSE 0)
    BY DEF Books, Counted
  <2>2. RunsOf(i)' = RunsOf(i) /\ Orphaned(i)' = Orphaned(i) /\ Orphaned(i) \in Nat
    BY <1>1, <1>2, RunsFinite DEF RunsOf, Orphaned
  <2>3. Attempts(mem', i) = Attempts(mem, i) + (IF posted = i THEN 1 ELSE 0)
    <3>1. Attempts(mem, i) \in Nat
      BY <1>1, StateItems DEF Attempts, Item
    <3>2. CASE posted = i
      BY <1>3, <1>6, <1>7, <3>2 DEF Attempts, old
    <3>3. CASE posted # i
      BY <1>7, <3>1, <3>3 DEF Attempts
    <3> QED
      BY <3>2, <3>3
  <2>4. Attempts(mem, i) \in Nat
    BY <1>1, StateItems DEF Attempts, Item
  <2>5. posted' # i
    BY <1>2
  <2> DEFINE a == Attempts(mem, i)
             o == Orphaned(i)
             one == IF posted = i THEN 1 ELSE 0
  <2>6. a + o + one = (a + one) + o + 0
    <3>1. a \in Nat /\ o \in Nat /\ one \in Nat
      BY <2>2, <2>4
    <3> HIDE DEF a, o, one
    <3> QED
      BY <3>1
  <2> QED
    BY <2>1, <2>2, <2>3, <2>5, <2>6
<1>12. Counted'
  BY <1>11 DEF Counted
<1>13. SameAttempts(disk', mem')
  BY <1>2 DEF SameAttempts
<1> QED
  BY <1>2, <1>9, <1>10, <1>12, <1>13 DEF Books, Right

\* A kill turns the run on its way into one that was cut off.
LEMMA StopBooks ==
  ASSUME Inv, Inv', Books, Stop
  PROVE  Books'
<1>1. /\ TypeOK
      /\ mem \in State
      /\ Len(server) \in Nat /\ DOMAIN server = 1 .. Len(server)
      /\ orphans \subseteq 1 .. Len(server)
      /\ Right(mem, Allowed) /\ Right(disk, Allowed) /\ SameAttempts(disk, mem)
  BY ServerJobs DEF Inv, TypeOK, Books
<1>2. /\ mem' = disk' /\ disk' \in {disk, mem}
      /\ pc' = "down" /\ posted' = 0 /\ server' = server
      /\ orphans' = IF pc = "posted" THEN orphans \cup {Len(server)} ELSE orphans
  BY DEF Stop
<1>3. Allowed' = Allowed
  <2>1. used'.retry = used.retry /\ tool' = tool
    BY <1>1 DEF Stop, Use, TypeOK
  <2> QED
    BY <2>1 DEF Allowed
<1>4. SameAttempts(mem, mem')
  BY <1>1, <1>2 DEF SameAttempts
<1>5. ASSUME NEW i \in Nat \ {0}
      PROVE  (Cardinality(RunsOf(i)) =
                Attempts(mem, i) + Orphaned(i) + (IF posted = i THEN 1 ELSE 0))'
  <2>1. Cardinality(RunsOf(i)) =
          Attempts(mem, i) + Orphaned(i) + (IF posted = i THEN 1 ELSE 0)
    BY DEF Books, Counted
  <2>2. RunsOf(i)' = RunsOf(i) /\ Attempts(mem', i) = Attempts(mem, i) /\ posted' # i
    BY <1>2, <1>4 DEF RunsOf, SameAttempts
  <2>3. Attempts(mem, i) \in Nat /\ Orphaned(i) \in Nat
    BY <1>1, RunsFinite, StateItems DEF Attempts, Item
  <2> DEFINE lost == {r \in orphans : server[r].item = i}
  <2>4. IsFiniteSet(lost) /\ Orphaned(i) = Cardinality(lost)
        /\ Orphaned(i)' = Cardinality({r \in orphans' : server[r].item = i})
    BY <1>1, <1>2, RunsFinite DEF Orphaned
  <2>5. Orphaned(i)' = Orphaned(i) + (IF posted = i THEN 1 ELSE 0)
    <3>1. CASE pc = "posted" /\ posted = i
      <4>1. server[Len(server)].item = i /\ Len(server) \notin orphans
        BY <3>1 DEF Inv, PostOnItsWay, Books
      <4>2. /\ {r \in orphans' : server[r].item = i} = lost \cup {Len(server)}
            /\ Len(server) \notin lost
        BY <1>2, <3>1, <4>1
      <4> HIDE DEF lost
      <4>3. Cardinality(lost \cup {Len(server)}) = Cardinality(lost) + 1
        BY <2>4, <4>2, FS_AddElement
      <4> QED
        BY <2>4, <3>1, <4>2, <4>3
    <3>2. CASE ~(pc = "posted" /\ posted = i)
      <4>1. posted # i
        BY <3>2 DEF Inv
      <4>2. pc = "posted" => server[Len(server)].item # i
        BY <4>1 DEF Inv, PostOnItsWay
      <4>3. {r \in orphans' : server[r].item = i} = lost
        BY <1>2, <4>2
      <4>4. Orphaned(i)' = Orphaned(i)
        BY <1>2, <4>3 DEF Orphaned
      <4> QED
        BY <2>3, <4>1, <4>4
    <3> QED
      BY <3>1, <3>2
  <2> DEFINE a == Attempts(mem, i)
             o == Orphaned(i)
             one == IF posted = i THEN 1 ELSE 0
  <2>6. a + o + one = a + (o + one) + 0
    <3>1. a \in Nat /\ o \in Nat /\ one \in Nat
      BY <2>3
    <3> HIDE DEF a, o, one
    <3> QED
      BY <3>1
  <2> QED
    BY <2>1, <2>2, <2>5, <2>6
<1>6. Counted'
  BY <1>5 DEF Counted
<1>7. SameAttempts(disk', mem') /\ Right(mem', Allowed') /\ Right(disk', Allowed')
  BY <1>1, <1>2, <1>3 DEF SameAttempts
<1> QED
  BY <1>2, <1>6, <1>7 DEF Books

LEMMA RunEndsBooks ==
  ASSUME Inv, Inv', Books, NEW r \in DOMAIN server, RunEnds(r)
  PROVE  Books'
<1>1. /\ TypeOK
      /\ server \in Seq(Job) /\ Len(server) \in Nat /\ DOMAIN server = 1 .. Len(server)
      /\ orphans \subseteq 1 .. Len(server)
  BY ServerJobs DEF Inv, TypeOK
<1>2. PICK st \in {"completed", "failed"} : server' = [server EXCEPT ![r].status = st]
  BY DEF RunEnds
<1>3. UNCHANGED <<mem, disk, pc, posted, orphans>>
  BY DEF RunEnds
<1>4. Allowed' = Allowed
  <2>1. used'.retry = used.retry /\ tool' = tool
    BY <1>1 DEF RunEnds, Use, TypeOK
  <2> QED
    BY <2>1 DEF Allowed
<1>5. /\ DOMAIN server' = DOMAIN server
      /\ \A q \in DOMAIN server : server'[q].item = server[q].item
  <2>1. \A q \in DOMAIN server : server[q] \in Job
    BY <1>1
  <2> QED
    BY <1>2, <2>1 DEF Job
<1>6. Len(server') = Len(server)
  <2>1. server' \in Seq(Job)
    <3>1. TypeOK'
      BY DEF Inv
    <3> QED
      BY <3>1 DEF TypeOK, Job
  <2>2. DOMAIN server' = 1 .. Len(server') /\ Len(server') \in Nat
    BY <2>1
  <2>3. 1 .. Len(server') = 1 .. Len(server)
    BY <1>1, <1>5, <2>2
  <2> DEFINE m == Len(server)
             n == Len(server')
  <2>4. m \in Nat /\ n \in Nat /\ 1 .. n = 1 .. m
    BY <1>1, <2>2, <2>3
  <2> HIDE DEF m, n
  <2>5. m = n
    <3>1. ~(m < n)
      <4>1. m < n => n \in 1 .. n /\ n \notin 1 .. m
        BY <2>4
      <4> QED
        BY <2>4, <4>1
    <3>2. ~(n < m)
      <4>1. n < m => m \in 1 .. m /\ m \notin 1 .. n
        BY <2>4
      <4> QED
        BY <2>4, <4>1
    <3> QED
      BY <2>4, <3>1, <3>2
  <2> QED
    BY <2>5 DEF m, n
<1>7. ASSUME NEW i \in Nat \ {0}
      PROVE  (Cardinality(RunsOf(i)) =
                Attempts(mem, i) + Orphaned(i) + (IF posted = i THEN 1 ELSE 0))'
  <2>1. Cardinality(RunsOf(i)) =
          Attempts(mem, i) + Orphaned(i) + (IF posted = i THEN 1 ELSE 0)
    BY DEF Books, Counted
  <2>2. RunsOf(i)' = RunsOf(i)
    BY <1>5 DEF RunsOf
  <2>3. {q \in orphans' : server'[q].item = i} = {q \in orphans : server[q].item = i}
    BY <1>1, <1>3, <1>5
  <2>4. Orphaned(i)' = Orphaned(i)
    BY <2>3 DEF Orphaned
  <2> QED
    BY <1>3, <2>1, <2>2, <2>4
<1>8. Counted'
  BY <1>7 DEF Counted
<1>9. SameAttempts(disk', mem') /\ Right(mem', Allowed') /\ Right(disk', Allowed')
  BY <1>3, <1>4 DEF Books
<1>10. pc' = "posted" => Len(server') \notin orphans'
  BY <1>3, <1>6 DEF Books
<1> QED
  BY <1>8, <1>9, <1>10 DEF Books

LEMMA InitBooks ==
  Init => Books
<1> SUFFICES ASSUME Init PROVE Books
  OBVIOUS
<1>1. /\ server = <<>> /\ disk = mem /\ mem = InitialState
      /\ pc = "poll" /\ posted = 0 /\ orphans = {} /\ used.retry = 0
  BY DEF Init
<1>2. \A i \in DOMAIN mem.items :
        /\ mem.items[i].attempt = 0
        /\ mem.items[i].phase # "validation"
  <2>1. CASE tool = "study"
    BY <1>1, <2>1 DEF InitialState, New
  <2>2. CASE tool # "study"
    BY <1>1, <2>2 DEF InitialState
  <2> QED
    BY <2>1, <2>2
<1>3. Allowed \in Nat
  BY <1>1, CampaignAssumption DEF Allowed, CampaignAssumption
<1>4. Right(mem, Allowed)
  <2>1. Of(mem.items, "validation") = {}
    BY <1>2 DEF Of
  <2> QED
    BY <1>2, <1>3, <2>1 DEF Right, Within, Rested
<1>5. SameAttempts(disk, mem)
  BY <1>1 DEF SameAttempts
<1>6. ASSUME NEW i \in Nat \ {0}
      PROVE  Cardinality(RunsOf(i)) =
               Attempts(mem, i) + Orphaned(i) + (IF posted = i THEN 1 ELSE 0)
  <2>1. RunsOf(i) = {} /\ {r \in orphans : server[r].item = i} = {}
    BY <1>1 DEF RunsOf
  <2>2. Cardinality(RunsOf(i)) = 0 /\ Orphaned(i) = 0
    BY <2>1, FS_EmptySet DEF Orphaned
  <2>3. Attempts(mem, i) = 0
    BY <1>2 DEF Attempts
  <2> QED
    BY <1>1, <2>2, <2>3
<1> QED
  BY <1>1, <1>4, <1>5, <1>6 DEF Books, Counted

LEMMA StepBooks ==
  Inv /\ Inv' /\ Books /\ [Next]_vars => Books'
<1> SUFFICES ASSUME Inv, Inv', Books, [Next]_vars PROVE Books'
  OBVIOUS
<1>1. CASE Poll
  BY <1>1, PollBooks
<1>2. CASE Collect
  BY <1>2, CollectBooks
<1>3. CASE Plan
  BY <1>3, PlanBooks
<1>4. CASE PlanFails
  BY <1>4, PlanFailsBooks
<1>5. CASE Submit
  BY <1>5, SubmitBooks
<1>6. CASE Record
  BY <1>6, RecordBooks
<1>7. CASE Submitted
  BY <1>7, SubmittedBooks
<1>8. CASE Save
  BY <1>8, SaveBooks
<1>9. CASE Resume
  BY <1>9, ResumeBooks
<1>10. CASE Analyze
  BY <1>10, AnalyzeBooks
<1>11. CASE Stop
  BY <1>11, StopBooks
<1>12. CASE \E r \in DOMAIN server : RunEnds(r)
  BY <1>12, RunEndsBooks
<1>13. CASE UNCHANGED vars
  <2>1. /\ UNCHANGED <<mem, disk, server, posted, orphans, pc>> /\ Allowed' = Allowed
    BY <1>13 DEF vars, Allowed
  <2>2. Right(mem', Allowed') /\ Right(disk', Allowed') /\ SameAttempts(disk', mem')
    BY <2>1 DEF Books
  <2>3. Counted'
    BY <2>1 DEF Books, Counted, RunsOf, Orphaned
  <2> QED
    BY <2>1, <2>2, <2>3 DEF Books
<1> QED
  BY <1>1, <1>2, <1>3, <1>4, <1>5, <1>6, <1>7, <1>8, <1>9, <1>10, <1>11, <1>12, <1>13
     DEF Next, Loop

\* The books the two checkpoints keep, beside what they know of the runs.
THEOREM BooksHold == Spec => [](Inv /\ Books)
<1>1. Init => Inv /\ Books
  BY InitHolds, InitBooks
<1>2. (Inv /\ Books) /\ [Next]_vars => (Inv /\ Books)'
  BY StepHolds, StepBooks
<1> QED
  BY <1>1, <1>2, PTL DEF Spec

\* Kills, resumed campaigns and retries: an item is simulated once, once more for
\* each automatic or requested retry, and once for every POST that was cut off.
THEOREM AttemptsBoundedHolds == Spec => []AttemptsBounded
<1>1. Inv /\ Books => AttemptsBounded
  <2> SUFFICES ASSUME Inv, Books, NEW i \in DOMAIN mem.items
               PROVE  Cardinality(RunsOf(i)) <=
                        1 + (IF tool = "calibration" THEN RetryLimit ELSE 0)
                          + used.retry + Orphaned(i)
    BY DEF AttemptsBounded, RunsOf
  <2>1. /\ TypeOK /\ mem \in State
        /\ Allowed \in Nat
        /\ Within(mem, Allowed)
    BY AllowedType DEF Inv, TypeOK, Books, Right
  <2>2. /\ i \in Nat \ {0}
        /\ mem.items[i].attempt \in Nat
        /\ Attempts(mem, i) = mem.items[i].attempt
    <3>1. mem.items[i] \in Item /\ i \in Nat \ {0}
      BY <2>1, StateItems
    <3> QED
      BY <3>1 DEF Item, Attempts
  <2>3. Cardinality(RunsOf(i)) =
          Attempts(mem, i) + Orphaned(i) + (IF posted = i THEN 1 ELSE 0)
    BY <2>2 DEF Books, Counted
  <2>4. Attempts(mem, i) + (IF posted = i THEN 1 ELSE 0) <= Allowed + 1
    <3>1. CASE posted = i
      <4>1. mem.items[i].status = "planned"
        BY <2>2, <3>1 DEF Inv, PostOnItsWay
      <4> QED
        BY <2>1, <2>2, <3>1, <4>1 DEF Within
    <3>2. CASE posted # i
      BY <2>1, <2>2, <3>2 DEF Within
    <3> QED
      BY <3>1, <3>2
  <2>5. Orphaned(i) \in Nat
    BY <2>1, RunsFinite
  <2>6. used.retry \in Nat /\ RetryLimit \in Nat
    BY <2>1, CampaignAssumption DEF TypeOK, CampaignAssumption
  <2> QED
    BY <2>1, <2>2, <2>3, <2>4, <2>5, <2>6 DEF Allowed
<1> QED
  BY <1>1, BooksHold, PTL

\* What the validation rests on stays valid in both checkpoints: polls leave a
\* valid candidate alone and retries are for failed and invalid ones.
THEOREM FinalistsStayValidHolds == Spec => []FinalistsStayValid
<1>1. Inv /\ Books => FinalistsStayValid
  <2> SUFFICES ASSUME Inv, Books, NEW state \in {mem, disk},
                      NEW i \in Of(state.items, "validation")
               PROVE  /\ state.items[state.items[i].parent].status = "valid"
                      /\ Cardinality({j \in Of(state.items, "validation") :
                                        state.items[j].parent = state.items[i].parent})
                           = Seeds
    BY DEF FinalistsStayValid
  <2>1. Rested(state)
    BY DEF Books, Right
  <2> QED
    BY <2>1 DEF Rested, Validations
<1> QED
  BY <1>1, BooksHold, PTL

=============================================================================
