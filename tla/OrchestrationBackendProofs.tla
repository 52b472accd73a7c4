--------------------- MODULE OrchestrationBackendProofs ---------------------
(***************************************************************************)
(* Theorems about OrchestrationBackend, for any instances, requests, faults *)
(* and bounds: types and the queue, completion tokens, exclusive dispatch. *)
(***************************************************************************)
EXTENDS OrchestrationBackend, SequenceFacts

-----------------------------------------------------------------------------
(* The queue *)

Queues == [seq : Seq(Ids), set : SUBSET Ids]

(* The deque holds every id of the set. *)
Covered(q) == \A i \in q.set : \E k \in 1..Len(q.seq) : q.seq[k] = i

(* Enqueue keeps a well-formed queue and adds exactly i to the set. *)
LEMMA EnqueueLemma ==
  ASSUME NEW q \in Queues, Covered(q), NEW i \in Ids
  PROVE  /\ Enqueue(q, i) \in Queues
         /\ Covered(Enqueue(q, i))
         /\ Enqueue(q, i).set = q.set \union {i}
<1>1. CASE i \in q.set
  BY <1>1 DEF Enqueue
<1>2. CASE i \notin q.set
  <2> DEFINE p == [seq |-> Append(q.seq, i), set |-> q.set \union {i}]
  <2>1. Enqueue(q, i) = p
    BY <1>2 DEF Enqueue
  <2>2. q.seq \in Seq(Ids) /\ q.set \subseteq Ids
    BY DEF Queues
  <2>3. p \in Queues
    BY <2>2 DEF Queues
  <2>4. Covered(p)
    <3> SUFFICES ASSUME NEW j \in p.set
                 PROVE  \E k \in 1..Len(p.seq) : p.seq[k] = j
      BY DEF Covered
    <3>1. CASE j = i
      BY <3>1, <2>2
    <3>2. CASE j # i
      <4>1. PICK k \in 1..Len(q.seq) : q.seq[k] = j
        BY <3>2 DEF Covered
      <4> QED
        BY <4>1, <2>2
    <3> QED
      BY <3>1, <3>2
  <2> HIDE DEF p
  <2>5. p.set = q.set \union {i}
    BY DEF p
  <2> QED
    BY <2>1, <2>3, <2>4, <2>5
<1> QED
  BY <1>1, <1>2

(* Discard takes i out of the set only. *)
LEMMA DiscardLemma ==
  ASSUME NEW q \in Queues, Covered(q), NEW i \in Ids
  PROVE  /\ Discard(q, i) \in Queues
         /\ Covered(Discard(q, i))
         /\ Discard(q, i).set = q.set \ {i}
  BY DEF Discard, Covered, Queues

(* Popped takes a prefix of the deque out of both; what is left in the set  *)
(* is still in the deque.                                                   *)
LEMMA PoppedLemma ==
  ASSUME NEW q \in Queues, Covered(q), NEW k \in 0..Len(q.seq)
  PROVE  /\ Popped(q, k) \in Queues
         /\ Covered(Popped(q, k))
         /\ Popped(q, k).set = q.set \ {q.seq[j] : j \in 1..k}
<1> DEFINE n == Len(q.seq)
           t == SubSeq(q.seq, k + 1, n)
           p == [seq |-> t, set |-> q.set \ {q.seq[j] : j \in 1..k}]
<1>1. q.seq \in Seq(Ids) /\ q.set \subseteq Ids /\ n \in Nat
  BY DEF Queues
<1>2. /\ t \in Seq(Ids)
      /\ Len(t) = IF k + 1 <= n THEN n - k ELSE 0
      /\ \A j \in 1..(n - k) : t[j] = q.seq[k + j]
  <2>1. \A j \in (k + 1)..n : q.seq[j] \in Ids
    BY <1>1
  <2>2. /\ t \in Seq(Ids)
        /\ Len(t) = IF k + 1 <= n THEN n - (k + 1) + 1 ELSE 0
        /\ \A j \in 1..(n - (k + 1) + 1) : t[j] = q.seq[(k + 1) + j - 1]
    BY <1>1, <2>1, SubSeqProperties
  <2> QED
    BY <2>2, <1>1
<1>3. Popped(q, k) = p
  BY DEF Popped
<1>4. p \in Queues
  BY <1>1, <1>2 DEF Queues
<1>5. Covered(p)
  <2> SUFFICES ASSUME NEW i \in p.set
               PROVE  \E j \in 1..Len(p.seq) : p.seq[j] = i
    BY DEF Covered
  <2>1. PICK j \in 1..n : q.seq[j] = i
    BY DEF Covered
  <2>2. j \notin 1..k
    BY <2>1
  <2>3. /\ j - k \in 1..(n - k)
        /\ k + (j - k) = j
        /\ n - k = Len(t)
    BY <1>1, <1>2, <2>2
  <2> HIDE DEF t
  <2>4. t[j - k] = i
    BY <1>2, <2>1, <2>3
  <2> QED
    BY <2>3, <2>4
<1> QED
  BY <1>3, <1>4, <1>5

-----------------------------------------------------------------------------
(* Types of the pieces *)

LEMMA FreshType ==
  ASSUME NEW token \in Nat
  PROVE  Fresh(token) \in Instance
  BY DEF Fresh, Instance, OrchestratorStarted, ExecutionStarted, NewEvent, Event,
         Kinds, Statuses, Terminal

LEMMA AbsentType == Absent \in Instance
  BY DEF Absent, Instance, Statuses, Terminal

LEMMA InstanceFields ==
  ASSUME NEW r \in Instance
  PROVE  /\ r.status \in Statuses /\ r.finished \in {"none"} \union Terminal
         /\ r.pending \in Seq(Event) /\ r.dispatched \in Seq(Event)
         /\ r.history \in Seq(Event) /\ r.token \in Nat
  BY DEF Instance

LEMMA InstanceUpdate ==
  ASSUME NEW r \in Instance, NEW p \in Seq(Event), NEW d \in Seq(Event)
  PROVE  /\ [r EXCEPT !.pending = p, !.dispatched = d] \in Instance
         /\ [r EXCEPT !.dispatched = d, !.pending = p] \in Instance
  BY DEF Instance

LEMMA StartEvents ==
  /\ OrchestratorStarted \in Event /\ ExecutionStarted \in Event
  /\ <<>> \in Seq(Event) /\ <<OrchestratorStarted>> \in Seq(Event)
  /\ <<OrchestratorStarted, ExecutionStarted>> \in Seq(Event)
<1>1. OrchestratorStarted \in Event /\ ExecutionStarted \in Event
  BY DEF OrchestratorStarted, ExecutionStarted, NewEvent, Event, Kinds
<1> QED
  BY <1>1

-----------------------------------------------------------------------------
(* The instances and the queue, the part of the invariant most actions touch *)

PendingQueued == \A i \in Ids : inst[i].pending # <<>> => i \in orchQueue.set

Core == /\ inst \in [Ids -> Instance]
        /\ orchQueue \in Queues /\ Covered(orchQueue)
        /\ PendingQueued

(* The types of the other variables. *)
Rest ==
  /\ inFlight \subseteq Ids /\ nextToken \in Nat
  /\ activityQueue \in Seq(Activity) /\ out \in [Ids -> Seq(WorkItem)]
  /\ running \subseteq Activity /\ timers \subseteq Activity
  /\ watchers \subseteq Watcher
  /\ resend \subseteq [inst : Ids, token : Nat]
  /\ calls \in Nat /\ faults \in Nat

LEMMA CoreAndRest ==
  Core /\ Rest <=> TypeOK /\ NoLostWakeup
  BY DEF TypeOK, Core, Rest, NoLostWakeup, Queues, Covered, PendingQueued

(* Posting an event queues the instance. *)
LEMMA PostKeepsCore ==
  ASSUME Core, NEW i \in Ids, NEW e \in Event, Post(i, e)
  PROVE  Core'
<1>1. inst[i].pending \in Seq(Event)
  BY InstanceFields DEF Core
<1>2. Append(inst[i].pending, e) \in Seq(Event)
  BY <1>1
<1>3. inst' \in [Ids -> Instance]
  BY <1>2 DEF Core, Post, Instance
<1>4. /\ orchQueue' \in Queues /\ Covered(orchQueue')
      /\ orchQueue'.set = orchQueue.set \union {i}
  BY EnqueueLemma DEF Core, Post
<1>5. PendingQueued'
  <2> SUFFICES ASSUME NEW j \in Ids, inst'[j].pending # <<>>
               PROVE  j \in orchQueue'.set
    BY DEF PendingQueued
  <2>1. CASE j = i
    BY <2>1, <1>4
  <2>2. CASE j # i
    BY <2>2, <1>4 DEF Core, Post, PendingQueued
  <2> QED
    BY <2>1, <2>2
<1> QED
  BY <1>3, <1>4, <1>5 DEF Core, Covered

(* So does creating an instance, whether or not its id leaves the set first. *)
LEMMA CreateKeepsCore ==
  ASSUME Core, NEW i \in Ids, nextToken \in Nat, NEW drop \in BOOLEAN,
         inst' = [inst EXCEPT ![i] = Fresh(nextToken)],
         orchQueue' = Enqueue(IF drop THEN Discard(orchQueue, i) ELSE orchQueue, i)
  PROVE  Core'
<1> DEFINE q == IF drop THEN Discard(orchQueue, i) ELSE orchQueue
<1>1. q \in Queues /\ Covered(q) /\ orchQueue.set \subseteq q.set \union {i}
  BY DiscardLemma DEF Core
<1>2. /\ Enqueue(q, i) \in Queues /\ Covered(Enqueue(q, i))
      /\ Enqueue(q, i).set = q.set \union {i}
  BY <1>1, EnqueueLemma
<1> HIDE DEF q
<1>3. /\ orchQueue' \in Queues /\ Covered(orchQueue')
      /\ orchQueue.set \union {i} \subseteq orchQueue'.set
  BY <1>1, <1>2 DEF q
<1>4. inst' \in [Ids -> Instance]
  BY FreshType DEF Core
<1>5. PendingQueued'
  BY <1>3 DEF Core, PendingQueued
<1> QED
  BY <1>3, <1>4, <1>5 DEF Core, Covered

(* Instances and queue stay as they are. *)
LEMMA IdleKeepsCore ==
  ASSUME Core, UNCHANGED <<inst, orchQueue>>
  PROVE  Core'
  BY DEF Core, Covered, PendingQueued

(* Removing instances leaves no pending events of theirs. *)
LEMMA PurgeKeepsCore ==
  ASSUME Core, NEW S, inst' = [i \in Ids |-> IF i \in S THEN Absent ELSE inst[i]],
         UNCHANGED orchQueue
  PROVE  Core'
<1>1. inst' \in [Ids -> Instance]
  BY AbsentType DEF Core
<1>2. PendingQueued'
  BY DEF Core, PendingQueued, Absent
<1> QED
  BY <1>1, <1>2 DEF Core, Covered

LEMMA ResetKeepsCore ==
  ASSUME inst' = [i \in Ids |-> Absent], orchQueue' = [seq |-> <<>>, set |-> {}]
  PROVE  Core'
<1>1. inst' \in [Ids -> Instance] /\ \A i \in Ids : inst'[i].pending = <<>>
  BY AbsentType DEF Absent
<1>2. orchQueue' \in Queues /\ orchQueue'.set = {}
  BY DEF Queues
<1> QED
  BY <1>1, <1>2 DEF Core, Covered, PendingQueued

(* A turn of the stream pops ids without pending events, and the id of the *)
(* instance it dispatches or puts back.                                    *)
LEMMA DispatchKeepsCore ==
  ASSUME Rest, Core, DispatchOrchestration
  PROVE  Core' /\ out' \in [Ids -> Seq(WorkItem)]
<1>1. PICK k \in 1..Len(orchQueue.seq) :
        LET i == orchQueue.seq[k]
            new == IF inst[i].history = <<>> THEN inst[i].pending
                   ELSE <<OrchestratorStarted>> \o inst[i].pending
            item == [token |-> inst[i].token, past |-> inst[i].history, new |-> new]
        IN  /\ FirstReady(k)
            /\ inst' = [inst EXCEPT ![i] = [@ EXCEPT !.dispatched = new, !.pending = <<>>]]
            /\ orchQueue' = Popped(orchQueue, k)
            /\ out' = [out EXCEPT ![i] = Append(@, item)]
  BY DEF DispatchOrchestration
<1> DEFINE i == orchQueue.seq[k]
           new == IF inst[i].history = <<>> THEN inst[i].pending
                  ELSE <<OrchestratorStarted>> \o inst[i].pending
           item == [token |-> inst[i].token, past |-> inst[i].history, new |-> new]
<1>2. orchQueue \in Queues /\ Covered(orchQueue) /\ inst \in [Ids -> Instance]
  BY DEF Core
<1>3. i \in Ids /\ orchQueue.seq \in Seq(Ids) /\ k \in 0..Len(orchQueue.seq)
  BY <1>2 DEF Queues
<1>4. new \in Seq(Event) /\ item \in WorkItem
  <2>1. /\ inst[i].pending \in Seq(Event) /\ inst[i].history \in Seq(Event)
        /\ inst[i].token \in Nat
    BY <1>2, <1>3, InstanceFields
  <2>2. new \in Seq(Event)
    BY <2>1, StartEvents, ConcatProperties
  <2> QED
    BY <2>1, <2>2 DEF WorkItem
<1> HIDE DEF i, new, item
<1>5. /\ FirstReady(k)
      /\ inst' = [inst EXCEPT ![i] = [@ EXCEPT !.dispatched = new, !.pending = <<>>]]
      /\ orchQueue' = Popped(orchQueue, k)
      /\ out' = [out EXCEPT ![i] = Append(@, item)]
  BY <1>1 DEF i, new, item
<1>6. inst' \in [Ids -> Instance]
  BY <1>2, <1>4, <1>5, <1>3, InstanceUpdate, StartEvents
<1>7. /\ orchQueue' \in Queues /\ Covered(orchQueue')
      /\ orchQueue'.set = orchQueue.set \ {orchQueue.seq[j] : j \in 1..k}
  BY <1>2, <1>3, <1>5, PoppedLemma
<1>8. PendingQueued'
  <2> SUFFICES ASSUME NEW m \in Ids, inst'[m].pending # <<>>
               PROVE  m \in orchQueue'.set
    BY DEF PendingQueued
  <2>1. m # i
    BY <1>2, <1>3, <1>5
  <2>2. inst[m].pending # <<>> /\ m \in orchQueue.set
    BY <2>1, <1>2, <1>5 DEF Core, PendingQueued
  <2>3. \A j \in 1..k : orchQueue.seq[j] # m
    BY <2>1, <2>2, <1>5, <1>3 DEF FirstReady, i
  <2> QED
    BY <2>2, <2>3, <1>7
<1>9. out' \in [Ids -> Seq(WorkItem)]
  BY <1>3, <1>4, <1>5 DEF Rest
<1> QED
  BY <1>6, <1>7, <1>8, <1>9 DEF Core, Covered

LEMMA RequeueKeepsCore ==
  ASSUME Core, RequeueInFlight
  PROVE  Core'
<1>1. PICK k \in 1..Len(orchQueue.seq) :
        /\ FirstReady(k)
        /\ orchQueue' = Enqueue(Popped(orchQueue, k), orchQueue.seq[k])
  BY DEF RequeueInFlight
<1> DEFINE i == orchQueue.seq[k]
           p == Popped(orchQueue, k)
<1>2. orchQueue \in Queues /\ Covered(orchQueue) /\ inst' = inst
  BY DEF Core, RequeueInFlight
<1>3. i \in Ids /\ orchQueue.seq \in Seq(Ids) /\ k \in 0..Len(orchQueue.seq)
  BY <1>2 DEF Queues
<1>4. /\ p \in Queues /\ Covered(p)
      /\ p.set = orchQueue.set \ {orchQueue.seq[j] : j \in 1..k}
  BY <1>2, <1>3, PoppedLemma
<1>5. orchQueue' = Enqueue(p, i)
  BY <1>1
<1> HIDE DEF p, i
<1>6. /\ orchQueue' \in Queues /\ Covered(orchQueue')
      /\ orchQueue'.set = p.set \union {i}
  BY <1>3, <1>4, <1>5, EnqueueLemma
<1>7. PendingQueued'
  <2> SUFFICES ASSUME NEW m \in Ids, inst[m].pending # <<>>, m # i
               PROVE  m \in p.set
    BY <1>2, <1>6 DEF PendingQueued
  <2>1. m \in orchQueue.set
    BY DEF Core, PendingQueued
  <2>2. \A j \in 1..k : orchQueue.seq[j] # m
    BY <1>1, <1>3 DEF FirstReady, i
  <2> QED
    BY <2>1, <2>2, <1>4
<1> QED
  BY <1>2, <1>6, <1>7 DEF Core, Covered

LEMMA DrainKeepsCore ==
  ASSUME Core, NoOrchestrationReady
  PROVE  Core'
<1> DEFINE n == Len(orchQueue.seq)
<1>1. /\ \A k \in 1..n : inst[orchQueue.seq[k]].pending = <<>>
      /\ orchQueue' = Popped(orchQueue, n) /\ inst' = inst
  BY DEF NoOrchestrationReady
<1>2. orchQueue \in Queues /\ Covered(orchQueue) /\ n \in 0..n
  BY DEF Core, Queues
<1>3. /\ orchQueue' \in Queues /\ Covered(orchQueue')
  BY <1>1, <1>2, PoppedLemma
<1>4. \A m \in Ids : inst[m].pending = <<>>
  BY <1>1, <1>2 DEF Core, PendingQueued, Covered
<1> QED
  BY <1>1, <1>3, <1>4 DEF Core, Covered, PendingQueued

(* An abandoned work item gives its events back and queues the instance. *)
LEMMA AbandonKeepsCore ==
  ASSUME Core, NEW i \in Ids, NEW token, Abandon(i, token)
  PROVE  Core'
<1>1. CASE UNCHANGED <<inst, inFlight, orchQueue>>
  BY <1>1, IdleKeepsCore
<1>2. CASE /\ inst' = [inst EXCEPT ![i] = Restored(inst[i])]
           /\ orchQueue' = Enqueue(orchQueue, i)
  <2>1. inst[i].dispatched \o inst[i].pending \in Seq(Event)
    BY InstanceFields, ConcatProperties DEF Core
  <2>2. Restored(inst[i]) \in Instance
    BY <2>1, InstanceUpdate, StartEvents DEF Core, Restored
  <2>5. inst' \in [Ids -> Instance]
    BY <1>2, <2>2 DEF Core
  <2>3. /\ orchQueue' \in Queues /\ Covered(orchQueue')
        /\ orchQueue'.set = orchQueue.set \union {i}
    BY <1>2, EnqueueLemma DEF Core
  <2>4. PendingQueued'
    BY <1>2, <2>3 DEF Core, PendingQueued
  <2> QED
    BY <2>5, <2>3, <2>4 DEF Core, Covered
<1> QED
  BY <1>1, <1>2 DEF Abandon

-----------------------------------------------------------------------------
(* CompleteOrchestratorTask *)

LEMMA ResponseFields ==
  ASSUME NEW r \in Responses
  PROVE  /\ r.tasks \in Seq(Nat) /\ r.wakes \in Seq(Nat)
         /\ r.sub \in Ids \union {None} /\ r.outcome \in Outcomes
<1>1. ASSUME NEW n \in Nat, NEW s \in IdSeqs(n)
      PROVE  s \in Seq(Nat)
  <2>1. PICK m \in 0..n : s \in [1..m -> ActionIds]
    BY <1>1 DEF IdSeqs
  <2>2. s \in [1..m -> Nat]
    BY <2>1, ActionsAssumption
  <2>3. m \in Nat
    BY <1>1
  <2> QED
    BY <2>2, <2>3
<1>2. MaxTasks \in Nat /\ MaxWakes \in Nat
  BY BoundAssumption
<1>3. r.tasks \in IdSeqs(MaxTasks) /\ r.wakes \in IdSeqs(MaxWakes)
  BY DEF Responses
<1>4. r.sub \in Ids \union {None} /\ r.outcome \in Outcomes
  BY DEF Responses
<1> QED
  BY <1>1, <1>2, <1>3, <1>4

LEMMA ConfirmationsType ==
  ASSUME NEW r \in Responses, NEW tok \in Nat
  PROVE  Confirmations(r, tok) \in Seq(Event)
<1> DEFINE t == [k \in 1..Len(r.tasks) |-> NewEvent("TaskScheduled", r.tasks[k], tok)]
           w == [k \in 1..Len(r.wakes) |-> NewEvent("TimerCreated", r.wakes[k], tok)]
           c == IF r.sub = None THEN <<>> ELSE <<NewEvent("SubCreated", 0, tok)>>
<1>1. /\ Len(r.tasks) \in Nat /\ \A k \in 1..Len(r.tasks) : r.tasks[k] \in Nat
      /\ Len(r.wakes) \in Nat /\ \A k \in 1..Len(r.wakes) : r.wakes[k] \in Nat
  BY ResponseFields
<1>2. \A n \in Nat : \A kind \in Kinds : NewEvent(kind, n, tok) \in Event
  BY DEF NewEvent, Event
<1>3. {"TaskScheduled", "TimerCreated", "SubCreated"} \subseteq Kinds
  BY DEF Kinds
<1>4. t \in Seq(Event)
  BY <1>1, <1>2, <1>3
<1>5. w \in Seq(Event)
  BY <1>1, <1>2, <1>3
<1>6. c \in Seq(Event)
  BY <1>2, <1>3
<1> HIDE DEF t, w, c
<1>7. t \o w \o c \in Seq(Event)
  BY <1>4, <1>5, <1>6, ConcatProperties
<1> QED
  BY <1>7 DEF Confirmations, t, w, c

LEMMA StatusType ==
  ASSUME NEW me \in Instance, NEW outcome \in Outcomes
  PROVE  FinalStatus(CommittedStatus(me.status, me.dispatched), outcome) \in Statuses
<1>1. CommittedStatus(me.status, me.dispatched) \in Statuses
  BY InstanceFields DEF CommittedStatus, Statuses
<1> QED
  BY <1>1, OutcomesAssumption DEF FinalStatus, Statuses, Terminal

LEMMA MailboxType ==
  ASSUME NEW me \in Instance, NEW r \in Responses, NEW carry \in Seq(Event)
  PROVE  Mailbox(me, r, carry) \in Seq(Event)
<1> DEFINE arrived == IF r.sub = None \/ Creatable(r.sub) THEN me.pending
                      ELSE Append(me.pending, NewEvent("SubFailed", 0, me.token))
           new == <<OrchestratorStarted, ExecutionStarted>> \o carry \o arrived
<1>1. arrived \in Seq(Event)
  <2>1. NewEvent("SubFailed", 0, me.token) \in Event
    BY InstanceFields DEF NewEvent, Event, Kinds
  <2> QED
    BY <2>1, InstanceFields
<1> HIDE DEF arrived
<1>2. new \in Seq(Event)
  BY <1>1, StartEvents, ConcatProperties
<1> HIDE DEF new
<1>3. Mailbox(me, r, carry) = IF r.outcome = "CONTINUED" THEN new ELSE arrived
  BY DEF Mailbox, new, arrived
<1> QED
  BY <1>1, <1>2, <1>3

LEMMA CommittedType ==
  ASSUME NEW me \in Instance, NEW r \in Responses, NEW carry \in Seq(Event),
         NEW token \in Nat
  PROVE  Committed(me, r, carry, token) \in Instance
<1> DEFINE h == IF r.outcome = "CONTINUED" THEN <<>>
                ELSE me.history \o me.dispatched \o Confirmations(r, me.token)
           f == IF r.outcome \in Terminal THEN r.outcome
                ELSE IF r.outcome = "CONTINUED" THEN "none" ELSE me.finished
<1>1. h \in Seq(Event)
  <2>1. Confirmations(r, me.token) \in Seq(Event)
    BY ConfirmationsType, InstanceFields
  <2>2. me.history \o me.dispatched \in Seq(Event)
    BY InstanceFields, ConcatProperties
  <2> QED
    BY <2>1, <2>2, StartEvents, ConcatProperties
<1>2. f \in {"none"} \union Terminal
  BY InstanceFields
<1>3. FinalStatus(CommittedStatus(me.status, me.dispatched), r.outcome) \in Statuses
  BY StatusType, ResponseFields
<1>4. Mailbox(me, r, carry) \in Seq(Event)
  BY MailboxType
<1> HIDE DEF h, f
<1>5. Committed(me, r, carry, token) =
        [status |-> FinalStatus(CommittedStatus(me.status, me.dispatched), r.outcome),
         pending |-> Mailbox(me, r, carry), dispatched |-> <<>>,
         history |-> h, token |-> token, finished |-> f]
  BY DEF Committed, h, f
<1> QED
  BY <1>1, <1>2, <1>3, <1>4, <1>5, StartEvents DEF Instance

LEMMA CarryoverType ==
  ASSUME NEW evs \in Seq(Event), NEW carry \in Carryovers(evs)
  PROVE  carry \in Seq(Event)
<1> DEFINE raised == {evs[k] : k \in {j \in DOMAIN evs : evs[j].kind = "Raised"}}
<1>1. raised \subseteq Event
  OBVIOUS
<1> HIDE DEF raised
<1>2. PICK n \in 0..Cardinality(raised) : carry \in [1..n -> raised]
  BY DEF Carryovers, raised
<1>3. n \in Nat
  OBVIOUS
<1>4. carry \in [1..n -> Event]
  BY <1>1, <1>2
<1> QED
  BY <1>3, <1>4

(* An accepted answer queues the sub-orchestration it creates and, when the *)
(* mailbox of the instance grew or needs another turn, the instance.  What  *)
(* was pending before is queued already.                                    *)
LEMMA AcceptKeepsCore ==
  ASSUME Core, nextToken \in Nat, NEW i \in Ids, NEW r \in Responses, r.sub # i,
         NEW carry \in Seq(Event), Accept(i, r, carry)
  PROVE  Core' /\ nextToken' \in Nat
<1> DEFINE me == inst[i]
           created == r.sub # None /\ Creatable(r.sub)
           token == IF created THEN nextToken + 1 ELSE nextToken
           next == Committed(me, r, carry, token)
           again == \/ next.pending # me.pending
                    \/ /\ next.pending # <<>>
                       /\ next.status \notin Terminal \union {"SUSPENDED"}
           dropped == IF Exists(r.sub) THEN Discard(orchQueue, r.sub) ELSE orchQueue
           q == IF ~created THEN orchQueue ELSE Enqueue(dropped, r.sub)
<1>1. /\ inst' = [j \in Ids |-> IF j = i THEN next
                               ELSE IF created /\ j = r.sub THEN Fresh(nextToken)
                               ELSE inst[j]]
      /\ orchQueue' = IF again THEN Enqueue(q, i) ELSE q
      /\ nextToken' = token + 1
  BY DEF Accept
<1>2. token \in Nat /\ me \in Instance
  BY DEF Core
<1>3. next \in Instance
  BY <1>2, CommittedType
<1>4. created => r.sub \in Ids
  BY ResponseFields
<1>5. created => /\ dropped \in Queues /\ Covered(dropped)
                 /\ orchQueue.set \subseteq dropped.set \union {r.sub}
  BY <1>4, DiscardLemma DEF Core
<1> HIDE DEF dropped, next, me
<1>6. /\ q \in Queues /\ Covered(q) /\ orchQueue.set \subseteq q.set
      /\ created => r.sub \in q.set
  <2>1. CASE created
    <3>1. /\ Enqueue(dropped, r.sub) \in Queues /\ Covered(Enqueue(dropped, r.sub))
          /\ Enqueue(dropped, r.sub).set = dropped.set \union {r.sub}
      BY <2>1, <1>4, <1>5, EnqueueLemma
    <3> QED
      BY <2>1, <1>5, <3>1
  <2>2. CASE ~created
    BY <2>2 DEF Core
  <2> QED
    BY <2>1, <2>2
<1> HIDE DEF q, created, token
<1>7. /\ Enqueue(q, i) \in Queues /\ Covered(Enqueue(q, i))
      /\ Enqueue(q, i).set = q.set \union {i}
  BY <1>6, EnqueueLemma
<1> HIDE DEF again
<1>8. /\ orchQueue' \in Queues /\ Covered(orchQueue')
      /\ q.set \subseteq orchQueue'.set
      /\ again => i \in orchQueue'.set
  BY <1>1, <1>6, <1>7
<1>9. inst' \in [Ids -> Instance]
  BY <1>1, <1>3, FreshType DEF Core
<1>10. PendingQueued'
  <2> SUFFICES ASSUME NEW j \in Ids, inst'[j].pending # <<>>
               PROVE  j \in orchQueue'.set
    BY DEF PendingQueued
  <2>1. CASE j = i
    <3>1. next.pending # <<>>
      BY <2>1, <1>1
    <3>2. CASE again
      BY <2>1, <3>2, <1>8
    <3>3. CASE ~again
      <4>1. inst[i].pending # <<>>
        BY <3>1, <3>3 DEF again, me
      <4> QED
        BY <4>1, <2>1, <1>6, <1>8 DEF Core, PendingQueued
    <3> QED
      BY <3>2, <3>3
  <2>2. CASE j # i /\ created /\ j = r.sub
    BY <2>2, <1>6, <1>8
  <2>3. CASE j # i /\ ~(created /\ j = r.sub)
    BY <2>3, <1>1, <1>6, <1>8 DEF Core, PendingQueued
  <2> QED
    BY <2>1, <2>2, <2>3
<1> QED
  BY <1>1, <1>2, <1>8, <1>9, <1>10 DEF Core, Covered, token

(* The activities, timers and watchers an accepted answer leads to. *)
LEMMA AcceptTypes ==
  ASSUME TypeOK, NEW i \in Ids, NEW r \in Responses, NEW carry, Accept(i, r, carry)
  PROVE  /\ activityQueue' \in Seq(Activity) /\ timers' \subseteq Activity
         /\ watchers' \subseteq Watcher /\ inFlight' \subseteq Ids
<1> DEFINE tok == inst[i].token
           new == [k \in 1..Len(r.tasks) |-> [inst |-> i, id |-> r.tasks[k], tok |-> tok]]
           started == IF r.outcome = "raise" THEN Len(r.wakes) - 1 ELSE Len(r.wakes)
           created == r.sub # None /\ Creatable(r.sub)
<1>1. tok \in Nat
  BY InstanceFields DEF TypeOK
<1>2. /\ Len(r.tasks) \in Nat /\ \A k \in 1..Len(r.tasks) : r.tasks[k] \in Nat
      /\ Len(r.wakes) \in Nat /\ \A k \in 1..Len(r.wakes) : r.wakes[k] \in Nat
  BY ResponseFields
<1>3. new \in Seq(Activity)
  BY <1>1, <1>2 DEF Activity
<1> HIDE DEF tok
<1>4. {[inst |-> i, id |-> r.wakes[k], tok |-> tok] : k \in 1..started} \subseteq Activity
  <2>1. \A k \in 1..started : r.wakes[k] \in Nat
    BY <1>2
  <2> QED
    BY <2>1, <1>1 DEF Activity
<1>5. ASSUME NEW ws, ws \subseteq Watcher, NEW status
      PROVE  Notified(ws, i, status) \subseteq Watcher
  BY <1>5 DEF Notified, Watcher, Ended
<1>6. created => [parent |-> i, sub |-> r.sub, id |-> 0, tok |-> tok,
                  phase |-> "starting"] \in Watcher
  BY <1>1, ResponseFields DEF Watcher
<1> HIDE DEF new, started, created
<1>7. activityQueue' = activityQueue \o new
  BY DEF Accept, new, tok
<1>8. timers' = timers \union {[inst |-> i, id |-> r.wakes[k], tok |-> tok] : k \in 1..started}
  BY DEF Accept, started, tok
<1>9. \E status :
        watchers' = Notified(watchers, i, status) \union
          IF created THEN {[parent |-> i, sub |-> r.sub, id |-> 0, tok |-> tok,
                            phase |-> "starting"]} ELSE {}
  BY DEF Accept, created, tok
<1>10. activityQueue' \in Seq(Activity)
  BY <1>3, <1>7, ConcatProperties DEF TypeOK
<1>11. timers' \subseteq Activity
  BY <1>4, <1>8 DEF TypeOK
<1>12. watchers' \subseteq Watcher
  BY <1>5, <1>6, <1>9 DEF TypeOK
<1>13. inFlight' \subseteq Ids
  BY DEF Accept, TypeOK, Released
<1> QED
  BY <1>10, <1>11, <1>12, <1>13

-----------------------------------------------------------------------------
(* The inductive invariant: types, and no instance waits outside the queue. *)

LEMMA InitHolds == Init => Core /\ Rest
<1> SUFFICES ASSUME Init PROVE Core /\ Rest
  OBVIOUS
<1>1. Core
  BY AbsentType DEF Init, Core, Queues, Covered, PendingQueued, Absent
<1>2. Rest
  BY DEF Init, Rest
<1> QED
  BY <1>1, <1>2

LEMMA TakeActivityTypes ==
  ASSUME Rest, TakeActivity
  PROVE  activityQueue' \in Seq(Activity) /\ running' \subseteq Activity
<1>1. CASE activityQueue = <<>>
  BY <1>1 DEF TakeActivity, Rest
<1>2. CASE activityQueue # <<>>
  <2>1. Head(activityQueue) \in Activity /\ Tail(activityQueue) \in Seq(Activity)
    BY <1>2, HeadTailProperties DEF Rest
  <2>2. /\ activityQueue' = Tail(activityQueue)
        /\ running' = running \union {Head(activityQueue)}
    BY <1>2 DEF TakeActivity
  <2> QED
    BY <2>1, <2>2 DEF Rest
<1> QED
  BY <1>1, <1>2

LEMMA AnswerTypes ==
  ASSUME Rest, NEW i \in Ids, NEW k \in 1..Len(out[i]),
         out' = [out EXCEPT ![i] = RemoveAt(@, k)]
  PROVE  out' \in [Ids -> Seq(WorkItem)]
<1>1. RemoveAt(out[i], k) \in Seq(WorkItem)
  BY RemoveAtType DEF Rest
<1> QED
  BY <1>1 DEF Rest

LEMMA RequestStep ==
  ASSUME Core, Rest, Request
  PROVE  Core' /\ Rest'
<1> USE DEF Rest, Call, WorkerSide
<1>1. ASSUME NEW i \in Ids, StartInstance(i) PROVE Core' /\ Rest'
  <2>1. Core'
    BY <1>1, CreateKeepsCore DEF StartInstance, Exists
  <2> QED
    BY <1>1, <2>1 DEF StartInstance
<1>2. ASSUME NEW i \in Ids, NEW kind \in Kinds, Post(i, NewEvent(kind, calls + 1, 0))
      PROVE  Core'
  BY <1>2, PostKeepsCore DEF NewEvent, Event
<1>3. ASSUME NEW i \in Ids, RaiseEvent(i) PROVE Core' /\ Rest'
  BY <1>2, <1>3 DEF RaiseEvent, Kinds
<1>4. ASSUME NEW i \in Ids, TerminateInstance(i) PROVE Core' /\ Rest'
  BY <1>2, <1>4 DEF TerminateInstance, Kinds
<1>5. ASSUME NEW i \in Ids, SuspendInstance(i) PROVE Core' /\ Rest'
  BY <1>2, <1>5 DEF SuspendInstance, Kinds
<1>6. ASSUME NEW i \in Ids, ResumeInstance(i) PROVE Core' /\ Rest'
  BY <1>2, <1>6 DEF ResumeInstance, Kinds
<1>7. ASSUME NEW S, DropWaiters(S) PROVE watchers' \subseteq Watcher
  BY <1>7 DEF DropWaiters, Watcher
<1>8. ASSUME NEW S, PurgeInstances(S) PROVE Core' /\ Rest'
  <2>1. Core'
    BY <1>8, PurgeKeepsCore DEF PurgeInstances
  <2> QED
    BY <1>7, <1>8, <2>1 DEF PurgeInstances
<1>9. ASSUME NEW i \in Ids, NEW j \in Ids, RestartInstance(i, j) PROVE Core' /\ Rest'
  <2>1. orchQueue' = Enqueue(IF j = i THEN Discard(orchQueue, j) ELSE orchQueue, j)
    BY <1>9 DEF RestartInstance
  <2>2. Core'
    BY <1>9, <2>1, CreateKeepsCore DEF RestartInstance
  <2>3. watchers' \subseteq Watcher
    BY <1>7, <1>9 DEF RestartInstance
  <2> QED
    BY <1>9, <2>2, <2>3 DEF RestartInstance
<1>10. ASSUME Reset PROVE Core' /\ Rest'
  <2>1. Core'
    BY <1>10, ResetKeepsCore DEF Reset
  <2> QED
    BY <1>10, <2>1 DEF Reset
<1> QED
  BY <1>1, <1>3, <1>4, <1>5, <1>6, <1>8, <1>9, <1>10 DEF Request

LEMMA GetWorkItemsStep ==
  ASSUME Core, Rest, GetWorkItems
  PROVE  Core' /\ Rest'
<1>1. CASE DispatchOrchestration
  <2>1. Core' /\ out' \in [Ids -> Seq(WorkItem)]
    BY <1>1, DispatchKeepsCore
  <2>2. inFlight' \subseteq Ids
    BY <1>1 DEF DispatchOrchestration, Core, Queues, Rest
  <2> QED
    BY <1>1, <2>1, <2>2 DEF DispatchOrchestration, Rest
<1>2. CASE RequeueInFlight
  <2>1. Core'
    BY <1>2, RequeueKeepsCore
  <2>2. activityQueue' \in Seq(Activity) /\ running' \subseteq Activity
    BY <1>2, TakeActivityTypes DEF RequeueInFlight
  <2> QED
    BY <1>2, <2>1, <2>2 DEF RequeueInFlight, Rest
<1>3. CASE NoOrchestrationReady
  <2>1. Core'
    BY <1>3, DrainKeepsCore
  <2>2. activityQueue' \in Seq(Activity) /\ running' \subseteq Activity
    BY <1>3, TakeActivityTypes DEF NoOrchestrationReady
  <2> QED
    BY <1>3, <2>1, <2>2 DEF NoOrchestrationReady, Rest
<1> QED
  BY <1>1, <1>2, <1>3 DEF GetWorkItems

LEMMA WorkerStep ==
  ASSUME Core, Rest, Worker
  PROVE  Core' /\ Rest'
<1>1. TypeOK
  BY CoreAndRest
<1>2. ASSUME NEW i \in Ids, CompleteOrchestratorTask(i) PROVE Core' /\ Rest'
  <2>1. PICK k \in 1..Len(out[i]), r \in Responses :
          /\ Answerable(i, inst[i], out[i][k].new, r)
          /\ \E carry \in IF r.outcome = "CONTINUED"
                           THEN Carryovers(inst[i].history \o inst[i].dispatched)
                           ELSE {<<>>} : Accept(i, r, carry)
          /\ Answer(i, k)
    BY <1>2 DEF CompleteOrchestratorTask
  <2>2. PICK carry \in IF r.outcome = "CONTINUED"
                       THEN Carryovers(inst[i].history \o inst[i].dispatched)
                       ELSE {<<>>} : Accept(i, r, carry)
    BY <2>1
  <2>3. inst[i].history \o inst[i].dispatched \in Seq(Event)
    BY InstanceFields, ConcatProperties DEF Core
  <2>4. carry \in Seq(Event)
    <3>1. CASE r.outcome = "CONTINUED"
      BY <3>1, <2>2, <2>3, CarryoverType
    <3>2. CASE r.outcome # "CONTINUED"
      BY <3>2, <2>2, StartEvents
    <3> QED
      BY <3>1, <3>2
  <2>5. r.sub # i
    BY <2>1 DEF Answerable
  <2>6. Core' /\ nextToken' \in Nat
    BY <2>2, <2>4, <2>5, AcceptKeepsCore DEF Rest
  <2>7. /\ activityQueue' \in Seq(Activity) /\ timers' \subseteq Activity
        /\ watchers' \subseteq Watcher /\ inFlight' \subseteq Ids
    BY <1>1, <2>2, AcceptTypes
  <2>8. out' \in [Ids -> Seq(WorkItem)]
    BY <2>1, AnswerTypes DEF Answer
  <2> QED
    BY <2>1, <2>6, <2>7, <2>8 DEF Answer, Rest
<1>3. ASSUME NEW i \in Ids, IgnoredAnswer(i) PROVE Core' /\ Rest'
  <2>1. PICK k \in 1..Len(out[i]) : Answer(i, k)
    BY <1>3 DEF IgnoredAnswer
  <2>2. out' \in [Ids -> Seq(WorkItem)]
    BY <2>1, AnswerTypes DEF Answer
  <2>3. Core'
    BY <1>3, IdleKeepsCore DEF IgnoredAnswer
  <2> QED
    BY <1>3, <2>1, <2>2, <2>3 DEF IgnoredAnswer, Answer, Rest, Released
<1>4. ASSUME NEW i \in Ids, AbandonTaskOrchestratorWorkItem(i) PROVE Core' /\ Rest'
  <2>1. PICK k \in 1..Len(out[i]) :
          /\ Fault("abandon")
          /\ Abandon(i, out[i][k].token)
          /\ out' = [out EXCEPT ![i] = RemoveAt(@, k)]
          /\ resend' \in {resend} \union
               IF "lostReply" \in Faults
               THEN {resend \union {[inst |-> i, token |-> out[i][k].token]}} ELSE {}
          /\ UNCHANGED <<nextToken, activityQueue, running, timers, watchers, calls>>
    BY <1>4 DEF AbandonTaskOrchestratorWorkItem
  <2>2. out[i][k].token \in Nat
    <3>1. out[i][k] \in WorkItem
      BY DEF Rest
    <3> QED
      BY <3>1 DEF WorkItem
  <2>3. out' \in [Ids -> Seq(WorkItem)]
    BY <2>1, AnswerTypes
  <2>4. resend' \subseteq [inst : Ids, token : Nat]
    BY <2>1, <2>2 DEF Rest
  <2>5. inFlight' \subseteq Ids
    BY <2>1 DEF Abandon, Rest, Released
  <2>6. Core'
    BY <2>1, AbandonKeepsCore
  <2> QED
    BY <2>1, <2>3, <2>4, <2>5, <2>6 DEF Fault, Rest
<1>5. ASSUME NEW a \in running, CompleteActivityTask(a) PROVE Core' /\ Rest'
  <2>1. a.inst \in Ids /\ NewEvent("TaskDone", a.id, a.tok) \in Event
    BY <1>5 DEF Rest, Activity, NewEvent, Event, Kinds
  <2>2. Core'
    BY <1>5, <2>1, PostKeepsCore, IdleKeepsCore DEF CompleteActivityTask
  <2> QED
    BY <1>5, <2>2 DEF CompleteActivityTask, Rest
<1>6. CASE AbandonAgain
  <2>1. PICK a \in resend :
          /\ Abandon(a.inst, a.token)
          /\ resend' = resend \ {a}
          /\ UNCHANGED <<nextToken, activityQueue, out, running, timers, watchers,
                         calls, faults>>
    BY <1>6 DEF AbandonAgain
  <2>2. a.inst \in Ids
    BY <2>1 DEF Rest
  <2>3. Core'
    BY <2>1, <2>2, AbandonKeepsCore
  <2>4. inFlight' \subseteq Ids
    BY <2>1 DEF Abandon, Rest, Released
  <2> QED
    BY <2>1, <2>3, <2>4 DEF Rest
<1>7. CASE AbandonTaskActivityWorkItem
  <2>1. Core'
    BY <1>7, IdleKeepsCore DEF AbandonTaskActivityWorkItem
  <2> QED
    BY <1>7, <2>1 DEF AbandonTaskActivityWorkItem, Fault, Rest
<1>8. CASE WorkerCrash
  <2>1. Core'
    BY <1>8, IdleKeepsCore DEF WorkerCrash
  <2> QED
    BY <1>8, <2>1 DEF WorkerCrash, Fault, Rest
<1>9. ASSUME NEW i \in Ids, LoseAnswer(i) PROVE Core' /\ Rest'
  <2>1. out' \in [Ids -> Seq(WorkItem)]
    BY <1>9, AnswerTypes DEF LoseAnswer
  <2>2. Core'
    BY <1>9, IdleKeepsCore DEF LoseAnswer
  <2> QED
    BY <1>9, <2>1, <2>2 DEF LoseAnswer, Fault, Rest
<1> QED
  BY <1>2, <1>3, <1>4, <1>5, <1>6, <1>7, <1>8, <1>9 DEF Worker

LEMMA BackgroundStep ==
  ASSUME Core, Rest, Background
  PROVE  Core' /\ Rest'
<1>1. ASSUME NEW t \in timers, FireTimer(t) PROVE Core' /\ Rest'
  <2>1. t.inst \in Ids /\ NewEvent("TimerFired", t.id, t.tok) \in Event
    BY <1>1 DEF Rest, Activity, NewEvent, Event, Kinds
  <2>2. Core'
    BY <1>1, <2>1, PostKeepsCore, IdleKeepsCore DEF FireTimer
  <2> QED
    BY <1>1, <2>2 DEF FireTimer, Rest
<1>2. ASSUME NEW w \in watchers, StartWatching(w) PROVE Core' /\ Rest'
  <2>1. Core'
    BY <1>2, IdleKeepsCore DEF StartWatching
  <2>2. watchers' \subseteq Watcher
    BY <1>2 DEF StartWatching, Rest, Watcher, Ended
  <2> QED
    BY <1>2, <2>1, <2>2 DEF StartWatching, Rest
<1>3. ASSUME NEW w \in watchers, WatcherTimeout(w) PROVE Core' /\ Rest'
  <2>1. Core'
    BY <1>3, IdleKeepsCore DEF WatcherTimeout
  <2> QED
    BY <1>3, <2>1 DEF WatcherTimeout, Fault, Rest
<1>4. ASSUME NEW w \in watchers, ReportSubOrchestration(w) PROVE Core' /\ Rest'
  <2>1. /\ w.parent \in Ids
        /\ NewEvent(IF w.phase = "completed" THEN "SubCompleted" ELSE "SubFailed",
                    w.id, w.tok) \in Event
    BY <1>4 DEF Rest, Watcher, NewEvent, Event, Kinds
  <2>2. Core'
    BY <1>4, <2>1, PostKeepsCore, IdleKeepsCore DEF ReportSubOrchestration
  <2> QED
    BY <1>4, <2>2 DEF ReportSubOrchestration, Rest
<1> QED
  BY <1>1, <1>2, <1>3, <1>4 DEF Background

LEMMA StateStep ==
  ASSUME Core, Rest, [Next]_vars
  PROVE  Core' /\ Rest'
<1>1. CASE UNCHANGED vars
  <2>1. Core'
    BY <1>1, IdleKeepsCore DEF vars
  <2> QED
    BY <1>1, <2>1 DEF vars, Rest
<1> QED
  BY <1>1, RequestStep, GetWorkItemsStep, WorkerStep, BackgroundStep DEF Next

LEMMA StateTheorem == Spec => [](Core /\ Rest)
  BY InitHolds, StateStep, PTL DEF Spec

(* The variables keep their types, under every request and fault: events,    *)
(* work items and watchers of executions long gone never get the instance    *)
(* table, the queues or the mark of the instances in flight into a state     *)
(* that the handlers do not expect.                                          *)
THEOREM TypeTheorem == Spec => []TypeOK
<1>1. Core /\ Rest => TypeOK
  BY CoreAndRest
<1> QED
  BY <1>1, StateTheorem, PTL

(* No instance with pending events is ever left out of the queue:            *)
(* _enqueue_orchestration looks at the set only, yet the deque, which the    *)
(* stream reads, always holds what the set holds, through restarts and       *)
(* replacements, which take an id out of the set and leave it in the deque,  *)
(* and whatever workers answer, abandon or lose.                             *)
THEOREM WakeupTheorem == Spec => []NoLostWakeup
<1>1. Core /\ Rest => NoLostWakeup
  BY CoreAndRest
<1> QED
  BY <1>1, StateTheorem, PTL

-----------------------------------------------------------------------------
(* Exclusive dispatch: without a reset and without repeated abandons, a     *)
(* work item is with one worker at most and commits what it was made from.  *)
(* Both assumptions are needed: the in-flight mark carries no token, so the *)
(* answer to a work item from before a reset ends the flight of a later one *)
(* under the same id; and an abandon keeps the token, so its copy ends the  *)
(* flight of the next dispatch.                                             *)

(* Tokens in use are older than the next one and tell instances apart. *)
Tokens ==
  /\ nextToken > 0
  /\ \A i \in Ids : inst[i].token < nextToken
  /\ \A i, j \in Ids : Exists(i) /\ Exists(j) /\ inst[i].token = inst[j].token => i = j

(* What holds of the work items of i. *)
Held(i) ==
  /\ Len(out[i]) <= 1
  /\ out[i] # <<>> => i \in inFlight
  /\ \A k \in 1..Len(out[i]) :
       /\ out[i][k].token < nextToken
       /\ IsCurrent(i, k) => /\ out[i][k].past = inst[i].history
                             /\ out[i][k].new = inst[i].dispatched

Owned == Tokens /\ resend = {} /\ \A i \in Ids : Held(i)

Dispatched == Core /\ Rest /\ Owned

LEMMA DispatchedIsExclusive == Dispatched => ExclusiveDispatch /\ TokensUnique
  BY DEF Dispatched, Owned, Held, ExclusiveDispatch, TokensUnique, Tokens, Exists

-----------------------------------------------------------------------------
(* Frames *)

LEMMA RemoveOnly ==
  ASSUME NEW S, NEW s \in Seq(S), Len(s) <= 1, NEW k \in 1..Len(s)
  PROVE  RemoveAt(s, k) = <<>>
<1>1. k = 1 /\ Len(s) = 1
  OBVIOUS
<1> QED
  BY <1>1, RemoveAtType

(* i exists as before, under the same token. *)
SameIdentity(i) ==
  /\ inst'[i].status = "NONE" <=> inst[i].status = "NONE"
  /\ inst'[i].token = inst[i].token

(* The execution of i, as far as a work item is concerned, is the same. *)
SameExecution(i) ==
  /\ SameIdentity(i)
  /\ inst'[i].history = inst[i].history
  /\ inst'[i].dispatched = inst[i].dispatched

(* i was created under the next token. *)
Renewed(i) == inst'[i].token = nextToken

(* A step that neither takes the work items of i nor ends its flight keeps   *)
(* what holds of them, also when i is removed or created anew.               *)
LEMMA HeldFrame ==
  ASSUME Rest, NEW i \in Ids, Held(i), out'[i] = out[i],
         i \in inFlight => i \in inFlight',
         nextToken' \in Nat, nextToken <= nextToken',
         SameExecution(i) \/ Renewed(i) \/ inst'[i].status = "NONE"
  PROVE  Held(i)'
<1>1. \A k \in 1..Len(out[i]) : out[i][k].token \in Nat
  <2> SUFFICES ASSUME NEW k \in 1..Len(out[i]) PROVE out[i][k].token \in Nat
    OBVIOUS
  <2>1. out[i][k] \in WorkItem
    BY DEF Rest
  <2> QED
    BY <2>1 DEF WorkItem
<1>2. Len(out'[i]) <= 1 /\ (out'[i] # <<>> => i \in inFlight')
  BY DEF Held
<1>3. ASSUME NEW k \in 1..Len(out'[i])
      PROVE  /\ out'[i][k].token < nextToken'
             /\ IsCurrent(i, k)' => /\ out'[i][k].past = inst'[i].history
                                    /\ out'[i][k].new = inst'[i].dispatched
  <2>1. out[i][k].token < nextToken /\ out'[i][k] = out[i][k]
    BY <1>3 DEF Held
  <2>2. out'[i][k].token < nextToken'
    BY <1>1, <1>3, <2>1 DEF Rest
  <2>3. CASE SameExecution(i)
    BY <1>3, <2>1, <2>2, <2>3 DEF SameExecution, SameIdentity, Held, IsCurrent, Exists
  <2>4. CASE Renewed(i)
    BY <1>1, <1>3, <2>1, <2>2, <2>4 DEF Renewed, IsCurrent, Rest
  <2>5. CASE inst'[i].status = "NONE"
    BY <2>2, <2>5 DEF IsCurrent, Exists
  <2> QED
    BY <2>3, <2>4, <2>5
<1> QED
  BY <1>2, <1>3 DEF Held

LEMMA HeldNothing ==
  ASSUME NEW i \in Ids, out'[i] = <<>>
  PROVE  Held(i)'
  BY DEF Held

(* Posting an event leaves the executions as they are. *)
LEMMA PostIsFrame ==
  ASSUME Core, NEW i \in Ids, NEW e, Post(i, e), NEW j \in Ids
  PROVE  SameExecution(j)
<1>1. inst'[j] = IF j = i THEN [inst[i] EXCEPT !.pending = Append(inst[i].pending, e)]
                 ELSE inst[j]
  BY DEF Post, Core
<1>2. inst[j] \in Instance
  BY DEF Core
<1> QED
  BY <1>1, <1>2 DEF SameExecution, SameIdentity, Instance

LEMMA SameTokens ==
  ASSUME Tokens, \A j \in Ids : SameIdentity(j) \/ inst'[j] = Absent,
         nextToken' = nextToken
  PROVE  Tokens'
<1>1. \A j \in Ids : inst'[j].token < nextToken
  BY DEF Tokens, SameIdentity, Absent
<1>2. \A j \in Ids : inst'[j].status # "NONE" =>
        inst[j].status # "NONE" /\ inst'[j].token = inst[j].token
  BY DEF SameIdentity, Absent
<1> QED
  BY <1>1, <1>2 DEF Tokens, Exists

LEMMA CreateTokens ==
  ASSUME Core, Rest, Tokens, NEW j \in Ids,
         inst' = [inst EXCEPT ![j] = Fresh(nextToken)], nextToken' = nextToken + 1
  PROVE  Tokens'
<1>1. /\ inst'[j].token = nextToken
      /\ \A i \in Ids : i # j => inst'[i] = inst[i]
  BY DEF Core, Fresh
<1>2. nextToken \in Nat /\ \A i \in Ids : inst[i].token \in Nat
  BY InstanceFields DEF Core, Rest
<1>3. nextToken' > 0 /\ \A i \in Ids : inst'[i].token < nextToken'
  BY <1>1, <1>2 DEF Tokens
<1>4. ASSUME NEW i \in Ids, NEW k \in Ids, Exists(i)', Exists(k)',
             inst'[i].token = inst'[k].token
      PROVE  i = k
  BY <1>1, <1>2, <1>4 DEF Tokens, Exists
<1> QED
  BY <1>3, <1>4 DEF Tokens

LEMMA AcceptTokens ==
  ASSUME Core, Rest, Tokens, NEW i \in Ids, NEW r, NEW carry, Accept(i, r, carry)
  PROVE  Tokens'
<1> DEFINE created == r.sub # None /\ Creatable(r.sub)
           token == IF created THEN nextToken + 1 ELSE nextToken
           next == Committed(inst[i], r, carry, token)
<1>1. /\ inst' = [j \in Ids |-> IF j = i THEN next
                               ELSE IF created /\ j = r.sub THEN Fresh(nextToken)
                               ELSE inst[j]]
      /\ nextToken' = token + 1
  BY DEF Accept
<1>2. next.token = token
  BY DEF Committed
<1> HIDE DEF next, created
<1>3. nextToken \in Nat /\ \A j \in Ids : inst[j].token \in Nat
  BY InstanceFields DEF Core, Rest
<1>4. inst'[i].token = token
  BY <1>1, <1>2
<1>5. ASSUME NEW j \in Ids, j # i
      PROVE  inst'[j] = inst[j] \/ (created /\ j = r.sub /\ inst'[j].token = nextToken)
  BY <1>1, <1>5 DEF Fresh
<1>6. nextToken' > 0 /\ \A j \in Ids : inst'[j].token < nextToken'
  BY <1>1, <1>3, <1>4, <1>5 DEF Tokens
<1>7. ASSUME NEW j \in Ids, j # i, Exists(j)' PROVE inst'[j].token # token
  BY <1>3, <1>5, <1>7 DEF Tokens
<1>8. ASSUME NEW j \in Ids, NEW m \in Ids, j # i, m # i, Exists(j)', Exists(m)',
             inst'[j].token = inst'[m].token
      PROVE  j = m
  BY <1>3, <1>5, <1>8 DEF Tokens, Exists
<1>9. ASSUME NEW j \in Ids, NEW m \in Ids, Exists(j)', Exists(m)',
             inst'[j].token = inst'[m].token
      PROVE  j = m
  BY <1>4, <1>7, <1>8, <1>9
<1> QED
  BY <1>6, <1>9 DEF Tokens

(* Events posted and instances purged, with no change for the workers. *)
LEMMA QuietStep ==
  ASSUME Rest, Owned, UNCHANGED <<out, inFlight, nextToken, resend>>,
         \A j \in Ids : SameExecution(j) \/ inst'[j] = Absent
  PROVE  Owned'
<1>1. Tokens'
  BY SameTokens DEF Owned, SameExecution
<1>2. ASSUME NEW i \in Ids PROVE Held(i)'
  <2>1. SameExecution(i) \/ inst'[i].status = "NONE"
    BY DEF Absent
  <2>2. nextToken' \in Nat /\ nextToken <= nextToken'
    BY DEF Rest
  <2> QED
    BY <2>1, <2>2, HeldFrame DEF Owned
<1> QED
  BY <1>1, <1>2 DEF Owned

(* An instance is created under the next token; a worker that still holds a *)
(* work item of the one it replaces holds it under an older token.          *)
LEMMA CreateStep ==
  ASSUME Core, Rest, Owned, NEW j \in Ids, UNCHANGED <<out, inFlight, resend>>,
         inst' = [inst EXCEPT ![j] = Fresh(nextToken)], nextToken' = nextToken + 1
  PROVE  Owned'
<1>1. /\ inst'[j].token = nextToken
      /\ \A i \in Ids : i # j => inst'[i] = inst[i]
  BY DEF Core, Fresh
<1>2. nextToken \in Nat /\ \A i \in Ids : inst[i].token \in Nat
  BY InstanceFields DEF Core, Rest
<1>3. Tokens'
  BY CreateTokens DEF Owned
<1>4. ASSUME NEW i \in Ids PROVE Held(i)'
  <2>1. SameExecution(i) \/ Renewed(i)
    BY <1>1 DEF SameExecution, SameIdentity, Renewed
  <2> QED
    BY <1>2, <2>1, HeldFrame DEF Owned
<1> QED
  BY <1>3, <1>4 DEF Owned

-----------------------------------------------------------------------------
(* The steps *)

(* i is dispatched with the events new, as item. *)
Dispatches(i, new, item) ==
  /\ new = inst[i].pending \/ new = <<OrchestratorStarted>> \o inst[i].pending
  /\ item = [token |-> inst[i].token, past |-> inst[i].history, new |-> new]
  /\ inst[i].pending # <<>> /\ i \notin inFlight
  /\ inst' = [inst EXCEPT ![i] = [@ EXCEPT !.dispatched = new, !.pending = <<>>]]
  /\ inFlight' = inFlight \union {i}
  /\ out' = [out EXCEPT ![i] = Append(@, item)]
  /\ UNCHANGED <<nextToken, resend>>

LEMMA DispatchedInstance ==
  ASSUME Core, DispatchOrchestration
  PROVE  \E i \in Ids : \E new, item : Dispatches(i, new, item)
<1>1. PICK k \in 1..Len(orchQueue.seq) :
        LET i == orchQueue.seq[k]
            new == IF inst[i].history = <<>> THEN inst[i].pending
                   ELSE <<OrchestratorStarted>> \o inst[i].pending
            item == [token |-> inst[i].token, past |-> inst[i].history, new |-> new]
        IN  Dispatches(i, new, item)
  BY DEF DispatchOrchestration, Dispatches, Busy, FirstReady
<1>2. orchQueue.seq[k] \in Ids
  BY DEF Core, Queues
<1> QED
  BY <1>1, <1>2

LEMMA DispatchStep ==
  ASSUME Core, Rest, Owned, DispatchOrchestration
  PROVE  Owned'
<1>0. PICK i \in Ids : \E new, item : Dispatches(i, new, item)
  BY DispatchedInstance
<1>1. PICK new, item : Dispatches(i, new, item)
  BY <1>0
<1>2. inst \in [Ids -> Instance] /\ out \in [Ids -> Seq(WorkItem)]
  BY DEF Core, Rest
<1>3. /\ item = [token |-> inst[i].token, past |-> inst[i].history, new |-> new]
      /\ i \notin inFlight
      /\ inst' = [inst EXCEPT ![i] = [@ EXCEPT !.dispatched = new, !.pending = <<>>]]
      /\ inFlight' = inFlight \union {i}
      /\ out' = [out EXCEPT ![i] = Append(@, item)]
      /\ UNCHANGED <<nextToken, resend>>
  BY <1>1 DEF Dispatches
<1>4. inst[i] \in Instance
  BY <1>2
<1>5. /\ inst'[i].status = inst[i].status /\ inst'[i].token = inst[i].token
      /\ inst'[i].history = inst[i].history /\ inst'[i].dispatched = new
      /\ \A j \in Ids : j # i => inst'[j] = inst[j]
  BY <1>2, <1>3, <1>4 DEF Instance
<1>6. Tokens'
  <2>1. \A j \in Ids : SameIdentity(j)
    BY <1>5 DEF SameIdentity
  <2> QED
    BY <1>3, <2>1, SameTokens DEF Owned
<1>7. Held(i)'
  <2>1. out[i] = <<>>
    BY <1>2, <1>3 DEF Owned, Held
  <2>2. out'[i] = <<item>>
    BY <1>2, <1>3, <2>1
  <2>3. inst[i].token < nextToken'
    BY <1>2, <1>3 DEF Owned, Tokens
  <2> QED
    BY <1>2, <1>3, <1>5, <2>2, <2>3 DEF Held
<1>8. ASSUME NEW j \in Ids, j # i PROVE Held(j)'
  <2>1. out'[j] = out[j] /\ (j \in inFlight => j \in inFlight')
    BY <1>2, <1>3, <1>8
  <2>2. SameExecution(j)
    BY <1>5, <1>8 DEF SameExecution, SameIdentity
  <2> QED
    BY <1>3, <2>1, <2>2, HeldFrame DEF Owned, Rest
<1> QED
  BY <1>3, <1>6, <1>7, <1>8 DEF Owned

(* A worker gives back the only work item of i, whatever becomes of i. *)
LEMMA GiveBack ==
  ASSUME Rest, Owned, NEW i \in Ids, NEW k \in 1..Len(out[i]),
         out' = [out EXCEPT ![i] = RemoveAt(@, k)], resend' = resend, Tokens',
         \A j \in inFlight : j # i => j \in inFlight',
         nextToken' \in Nat, nextToken <= nextToken',
         \A j \in Ids : j # i => SameExecution(j) \/ Renewed(j)
  PROVE  Owned'
<1>1. out'[i] = <<>> /\ \A j \in Ids : j # i => out'[j] = out[j]
  <2>1. Len(out[i]) <= 1 /\ out[i] \in Seq(WorkItem)
    BY DEF Owned, Held, Rest
  <2>2. RemoveAt(out[i], k) = <<>>
    BY <2>1, RemoveOnly
  <2> QED
    BY <2>2 DEF Rest
<1>2. ASSUME NEW j \in Ids PROVE Held(j)'
  <2>1. CASE j = i
    BY <1>1, <2>1, HeldNothing
  <2>2. CASE j # i
    BY <1>1, <2>2, HeldFrame DEF Owned
  <2> QED
    BY <2>1, <2>2
<1> QED
  BY <1>2 DEF Owned

LEMMA AcceptStep ==
  ASSUME Core, Rest, Owned, NEW i \in Ids, NEW r, r.sub # i, NEW carry,
         NEW k \in 1..Len(out[i]), Exists(i), Accept(i, r, carry), Answer(i, k)
  PROVE  Owned'
<1> DEFINE created == r.sub # None /\ Creatable(r.sub)
           token == IF created THEN nextToken + 1 ELSE nextToken
           next == Committed(inst[i], r, carry, token)
<1>1. /\ inst' = [j \in Ids |-> IF j = i THEN next
                               ELSE IF created /\ j = r.sub THEN Fresh(nextToken)
                               ELSE inst[j]]
      /\ inFlight' = inFlight \ {i} /\ nextToken' = token + 1
  BY DEF Accept, Released
<1>2. next.token = token
  BY DEF Committed
<1> HIDE DEF next, created
<1>3. nextToken \in Nat /\ \A j \in Ids : inst[j].token \in Nat
  BY InstanceFields DEF Core, Rest
<1>5. ASSUME NEW j \in Ids, j # i
      PROVE  inst'[j] = inst[j] \/ (created /\ j = r.sub /\ inst'[j].token = nextToken)
  BY <1>1, <1>5 DEF Fresh
<1>6. Tokens'
  BY AcceptTokens DEF Owned
<1>7. nextToken' \in Nat /\ nextToken <= nextToken'
  BY <1>1, <1>3
<1>8. \A j \in Ids : j # i => SameExecution(j) \/ Renewed(j)
  BY <1>5 DEF SameExecution, SameIdentity, Renewed
<1> QED
  BY <1>1, <1>6, <1>7, <1>8, GiveBack DEF Answer

(* An abandon moves events within the instance. *)
LEMMA AbandonIdentity ==
  ASSUME Core, NEW i \in Ids, NEW token, Abandon(i, token)
  PROVE  SameIdentity(i) /\ \A j \in Ids : j # i => inst'[j] = inst[j]
<1>1. inst' = inst \/ inst' = [inst EXCEPT ![i] = Restored(inst[i])]
  BY DEF Abandon
<1>2. inst[i] \in Instance /\ inst \in [Ids -> Instance]
  BY DEF Core
<1>3. Restored(inst[i]).status = inst[i].status /\ Restored(inst[i]).token = inst[i].token
  BY <1>2 DEF Restored, Instance
<1> QED
  BY <1>1, <1>2, <1>3 DEF SameIdentity

LEMMA AbandonStep ==
  ASSUME Core, Rest, Owned, NEW i \in Ids, "lostReply" \notin Faults,
         AbandonTaskOrchestratorWorkItem(i)
  PROVE  Owned'
<1>1. PICK k \in 1..Len(out[i]) :
        /\ Abandon(i, out[i][k].token)
        /\ out' = [out EXCEPT ![i] = RemoveAt(@, k)]
        /\ UNCHANGED <<nextToken, resend>>
  BY DEF AbandonTaskOrchestratorWorkItem
<1>2. \A j \in inFlight : j # i => j \in inFlight'
  BY <1>1 DEF Abandon, Released
<1>5. SameIdentity(i) /\ \A j \in Ids : j # i => inst'[j] = inst[j]
  BY <1>1, AbandonIdentity
<1>6. Tokens'
  BY <1>1, <1>5, SameTokens DEF SameIdentity, Owned
<1>7. \A j \in Ids : j # i => SameExecution(j)
  BY <1>5 DEF SameExecution, SameIdentity
<1>8. nextToken' \in Nat /\ nextToken <= nextToken'
  BY <1>1 DEF Rest
<1> QED
  BY <1>1, <1>2, <1>6, <1>7, <1>8, GiveBack

LEMMA IgnoredStep ==
  ASSUME Core, Rest, Owned, NEW i \in Ids, IgnoredAnswer(i)
  PROVE  Owned'
<1>1. PICK k \in 1..Len(out[i]) :
        /\ Answer(i, k) /\ inFlight' = inFlight \ {i}
        /\ UNCHANGED <<inst, nextToken>>
  BY DEF IgnoredAnswer, Released
<1>2. \A j \in Ids : SameExecution(j) /\ SameIdentity(j)
  BY <1>1 DEF SameExecution, SameIdentity
<1>3. Tokens'
  BY <1>1, <1>2, SameTokens DEF Owned
<1>4. /\ resend' = resend /\ nextToken' \in Nat /\ nextToken <= nextToken'
      /\ out' = [out EXCEPT ![i] = RemoveAt(@, k)]
      /\ \A j \in inFlight : j # i => j \in inFlight'
  BY <1>1 DEF Answer, Rest
<1> QED
  BY <1>2, <1>3, <1>4, GiveBack

LEMMA LoseStep ==
  ASSUME Rest, Owned, NEW i \in Ids, LoseAnswer(i)
  PROVE  Owned'
<1>1. PICK k \in 1..Len(out[i]) :
        /\ out' = [out EXCEPT ![i] = RemoveAt(@, k)]
        /\ UNCHANGED <<inst, inFlight, nextToken, resend>>
  BY DEF LoseAnswer
<1>2. \A j \in Ids : SameExecution(j) /\ SameIdentity(j)
  BY <1>1 DEF SameExecution, SameIdentity
<1>3. Tokens'
  BY <1>1, <1>2, SameTokens DEF Owned
<1>4. nextToken' \in Nat /\ nextToken <= nextToken'
  BY <1>1 DEF Rest
<1> QED
  BY <1>1, <1>2, <1>3, <1>4, GiveBack

LEMMA CrashStep ==
  ASSUME Rest, Owned, WorkerCrash
  PROVE  Owned'
<1>1. \A j \in Ids : SameIdentity(j)
  BY DEF WorkerCrash, SameIdentity
<1>2. Tokens'
  BY <1>1, SameTokens DEF WorkerCrash, Owned
<1>3. \A i \in Ids : Held(i)'
  BY HeldNothing DEF WorkerCrash
<1>4. resend' = {}
  BY DEF WorkerCrash, Owned
<1> QED
  BY <1>2, <1>3, <1>4 DEF Owned

LEMMA RequestOwned ==
  ASSUME Core, Rest, Owned, Request, "Reset" \notin Requests
  PROVE  Owned'
<1> USE DEF WorkerSide
<1>1. ASSUME NEW i \in Ids, NEW e, Post(i, e),
             UNCHANGED <<out, inFlight, nextToken, resend>>
      PROVE  Owned'
  BY <1>1, PostIsFrame, QuietStep
<1>2. ASSUME NEW i \in Ids, StartInstance(i) PROVE Owned'
  BY <1>2, CreateStep DEF StartInstance
<1>3. ASSUME NEW i \in Ids, RaiseEvent(i) PROVE Owned'
  BY <1>1, <1>3 DEF RaiseEvent
<1>4. ASSUME NEW i \in Ids, TerminateInstance(i) PROVE Owned'
  BY <1>1, <1>4 DEF TerminateInstance
<1>5. ASSUME NEW i \in Ids, SuspendInstance(i) PROVE Owned'
  BY <1>1, <1>5 DEF SuspendInstance
<1>6. ASSUME NEW i \in Ids, ResumeInstance(i) PROVE Owned'
  BY <1>1, <1>6 DEF ResumeInstance
<1>7. ASSUME NEW S, PurgeInstances(S) PROVE Owned'
  <2>1. \A j \in Ids : SameExecution(j) \/ inst'[j] = Absent
    BY <1>7 DEF PurgeInstances, Core, SameExecution, SameIdentity
  <2> QED
    BY <1>7, <2>1, QuietStep DEF PurgeInstances
<1>8. ASSUME NEW i \in Ids, NEW j \in Ids, RestartInstance(i, j) PROVE Owned'
  BY <1>8, CreateStep DEF RestartInstance
<1>9. ~Reset
  BY DEF Reset, Call
<1> QED
  BY <1>2, <1>3, <1>4, <1>5, <1>6, <1>7, <1>8, <1>9 DEF Request

LEMMA GetWorkItemsOwned ==
  ASSUME Core, Rest, Owned, GetWorkItems
  PROVE  Owned'
<1>1. ASSUME UNCHANGED <<inst, out, inFlight, nextToken, resend>> PROVE Owned'
  BY <1>1, QuietStep DEF SameExecution, SameIdentity
<1> QED
  BY <1>1, DispatchStep DEF GetWorkItems, RequeueInFlight, NoOrchestrationReady

LEMMA WorkerOwned ==
  ASSUME Core, Rest, Owned, Worker, "lostReply" \notin Faults
  PROVE  Owned'
<1>1. ASSUME NEW i \in Ids, CompleteOrchestratorTask(i) PROVE Owned'
  <2>1. PICK k \in 1..Len(out[i]), r \in Responses :
          /\ IsCurrent(i, k)
          /\ Answerable(i, inst[i], out[i][k].new, r)
          /\ \E carry \in IF r.outcome = "CONTINUED"
                           THEN Carryovers(inst[i].history \o inst[i].dispatched)
                           ELSE {<<>>} : Accept(i, r, carry)
          /\ Answer(i, k)
    BY <1>1 DEF CompleteOrchestratorTask
  <2>2. PICK carry : Accept(i, r, carry)
    BY <2>1
  <2>3. r.sub # i /\ Exists(i)
    BY <2>1 DEF Answerable, IsCurrent
  <2> QED
    BY <2>1, <2>2, <2>3, AcceptStep
<1>2. ASSUME NEW x \in running, CompleteActivityTask(x) PROVE Owned'
  <2>1. \A j \in Ids : SameExecution(j)
    <3>1. x.inst \in Ids
      BY <1>2 DEF Rest, Activity
    <3>2. CASE Exists(x.inst)
      BY <1>2, <3>1, <3>2, PostIsFrame DEF CompleteActivityTask
    <3>3. CASE ~Exists(x.inst)
      BY <1>2, <3>3 DEF CompleteActivityTask, SameExecution, SameIdentity
    <3> QED
      BY <3>2, <3>3
  <2> QED
    BY <1>2, <2>1, QuietStep DEF CompleteActivityTask
<1>3. ~AbandonAgain
  BY DEF AbandonAgain, Owned
<1>4. CASE AbandonTaskActivityWorkItem
  BY <1>4, QuietStep DEF AbandonTaskActivityWorkItem, SameExecution, SameIdentity
<1> QED
  BY <1>1, <1>2, <1>3, <1>4, IgnoredStep, AbandonStep, LoseStep, CrashStep
     DEF Worker

LEMMA BackgroundOwned ==
  ASSUME Core, Rest, Owned, Background
  PROVE  Owned'
<1>1. ASSUME NEW i \in Ids, NEW e, Post(i, e) \/ UNCHANGED <<inst, orchQueue>>,
             UNCHANGED <<out, inFlight, nextToken, resend>>
      PROVE  Owned'
  <2>1. \A j \in Ids : SameExecution(j)
    BY <1>1, PostIsFrame DEF SameExecution, SameIdentity
  <2> QED
    BY <1>1, <2>1, QuietStep
<1>2. ASSUME NEW t \in timers, FireTimer(t) PROVE Owned'
  BY <1>1, <1>2 DEF FireTimer, Rest, Activity
<1>3. ASSUME NEW w \in watchers,
             StartWatching(w) \/ WatcherTimeout(w) \/ ReportSubOrchestration(w)
      PROVE  Owned'
  <2>1. w.parent \in Ids
    BY <1>3 DEF Rest, Watcher
  <2>2. CASE StartWatching(w) \/ WatcherTimeout(w)
    BY <1>1, <2>1, <2>2 DEF StartWatching, WatcherTimeout
  <2>3. CASE ReportSubOrchestration(w)
    BY <1>1, <2>1, <2>3 DEF ReportSubOrchestration
  <2> QED
    BY <1>3, <2>2, <2>3
<1> QED
  BY <1>2, <1>3 DEF Background

-----------------------------------------------------------------------------
(* The tokens by themselves: here resets and repeated abandons do no harm. *)

LEMMA TokensStep ==
  ASSUME Core, Rest, Tokens, [Next]_vars
  PROVE  Tokens'
<1>1. ASSUME inst' = inst, nextToken' = nextToken PROVE Tokens'
  BY <1>1, SameTokens DEF SameIdentity
<1>2. ASSUME NEW i \in Ids, NEW e, Post(i, e) \/ UNCHANGED <<inst, orchQueue>>,
             nextToken' = nextToken
      PROVE  Tokens'
  BY <1>1, <1>2, PostIsFrame, SameTokens DEF SameExecution
<1>3. ASSUME Request PROVE Tokens'
  <2>1. ASSUME NEW i \in Ids, StartInstance(i) PROVE Tokens'
    BY <2>1, CreateTokens DEF StartInstance
  <2>2. ASSUME NEW i \in Ids, NEW j \in Ids, RestartInstance(i, j) PROVE Tokens'
    BY <2>2, CreateTokens DEF RestartInstance
  <2>3. ASSUME NEW S, PurgeInstances(S) PROVE Tokens'
    BY <2>3, SameTokens DEF PurgeInstances, Core, SameIdentity
  <2>4. CASE Reset
    BY <2>4, SameTokens DEF Reset
  <2>5. ASSUME NEW i \in Ids,
               RaiseEvent(i) \/ TerminateInstance(i) \/ SuspendInstance(i) \/ ResumeInstance(i)
        PROVE  Tokens'
    BY <1>2, <2>5 DEF RaiseEvent, TerminateInstance, SuspendInstance, ResumeInstance
  <2> QED
    BY <1>3, <2>1, <2>2, <2>3, <2>4, <2>5 DEF Request
<1>4. ASSUME GetWorkItems PROVE Tokens'
  <2>1. CASE DispatchOrchestration
    <3>0. PICK k \in 1..Len(orchQueue.seq) : \E new :
            inst' = [inst EXCEPT ![orchQueue.seq[k]] =
                       [@ EXCEPT !.dispatched = new, !.pending = <<>>]]
      BY <2>1 DEF DispatchOrchestration
    <3>1. PICK new :
            inst' = [inst EXCEPT ![orchQueue.seq[k]] =
                       [@ EXCEPT !.dispatched = new, !.pending = <<>>]]
      BY <3>0
    <3>2. orchQueue.seq[k] \in Ids
      BY DEF Core, Queues
    <3>3. \A j \in Ids : SameIdentity(j)
      BY <3>1, <3>2, InstanceFields DEF Core, SameIdentity, Instance
    <3> QED
      BY <2>1, <3>3, SameTokens DEF DispatchOrchestration
  <2> QED
    BY <1>1, <1>4, <2>1 DEF GetWorkItems, RequeueInFlight, NoOrchestrationReady
<1>5. ASSUME Worker PROVE Tokens'
  <2>1. ASSUME NEW i \in Ids, CompleteOrchestratorTask(i) PROVE Tokens'
    BY <2>1, AcceptTokens DEF CompleteOrchestratorTask
  <2>2. ASSUME NEW i \in Ids, NEW token, Abandon(i, token), nextToken' = nextToken
        PROVE  Tokens'
    BY <2>2, AbandonIdentity, SameTokens DEF SameIdentity
  <2>3. CASE AbandonAgain
    BY <2>2, <2>3 DEF AbandonAgain, Rest
  <2>4. ASSUME NEW i \in Ids, AbandonTaskOrchestratorWorkItem(i) PROVE Tokens'
    BY <2>2, <2>4 DEF AbandonTaskOrchestratorWorkItem
  <2>5. ASSUME NEW x \in running, CompleteActivityTask(x) PROVE Tokens'
    BY <1>2, <2>5 DEF CompleteActivityTask, Rest, Activity
  <2>6. CASE AbandonTaskActivityWorkItem \/ WorkerCrash
             \/ \E i \in Ids : IgnoredAnswer(i) \/ LoseAnswer(i)
    BY <1>1, <2>6 DEF AbandonTaskActivityWorkItem, WorkerCrash, IgnoredAnswer, LoseAnswer
  <2> QED
    BY <1>5, <2>1, <2>3, <2>4, <2>5, <2>6 DEF Worker
<1>6. ASSUME Background PROVE Tokens'
  <2>1. ASSUME NEW t \in timers, FireTimer(t) PROVE Tokens'
    BY <1>2, <2>1 DEF FireTimer, Rest, Activity
  <2>2. ASSUME NEW w \in watchers, ReportSubOrchestration(w) PROVE Tokens'
    BY <1>2, <2>2 DEF ReportSubOrchestration, Rest, Watcher
  <2> QED
    BY <1>1, <1>6, <2>1, <2>2 DEF Background, StartWatching, WatcherTimeout
<1> QED
  BY <1>1, <1>3, <1>4, <1>5, <1>6 DEF Next, vars

(* A completion token names one instance in the whole life of the backend,   *)
(* under every request and fault of the model: an answer or an abandon that  *)
(* comes late is at worst ignored, never taken for another instance's.       *)
THEOREM TokensTheorem == Spec => []TokensUnique
<1>1. Init => Core /\ Rest /\ Tokens
  BY InitHolds DEF Init, Tokens, Absent, Exists
<1>2. Core /\ Rest /\ Tokens /\ [Next]_vars => Core' /\ Rest' /\ Tokens'
  BY StateStep, TokensStep
<1>3. Tokens => TokensUnique
  BY DEF Tokens, TokensUnique
<1> QED
  BY <1>1, <1>2, <1>3, PTL DEF Spec

-----------------------------------------------------------------------------
LEMMA DispatchedInit == Init => Dispatched
<1>1. Init => Owned
  BY DEF Init, Owned, Tokens, Held, Absent, Exists
<1> QED
  BY <1>1, InitHolds DEF Dispatched

LEMMA DispatchedStep ==
  ASSUME Dispatched, [Next]_vars, "Reset" \notin Requests, "lostReply" \notin Faults
  PROVE  Dispatched'
<1>1. Core /\ Rest /\ Owned
  BY DEF Dispatched
<1>2. CASE UNCHANGED vars
  BY <1>1, <1>2, StateStep, QuietStep DEF vars, SameExecution, SameIdentity, Dispatched
<1>3. CASE Next
  BY <1>1, <1>3, StateStep, RequestOwned, GetWorkItemsOwned, WorkerOwned, BackgroundOwned
     DEF Next, Dispatched
<1> QED
  BY <1>2, <1>3

(* Without a reset and without repeated abandons, no interleaving of client  *)
(* requests, streams, answers, abandons, crashes, timers and watchers lets   *)
(* two workers hold the same orchestration, or lets an answer commit to      *)
(* another execution, or after another history, than the one the worker      *)
(* replayed: the in-flight mark and the completion token see to it together. *)
THEOREM DispatchTheorem ==
  ASSUME "Reset" \notin Requests, "lostReply" \notin Faults
  PROVE  Spec => [](ExclusiveDispatch /\ TokensUnique)
<1>1. Dispatched /\ [Next]_vars => Dispatched'
  BY DispatchedStep
<1> QED
  BY <1>1, DispatchedInit, DispatchedIsExclusive, PTL DEF Spec

-----------------------------------------------------------------------------
(* Suspension *)

(* The events of new take a suspended instance out of suspension only with  *)
(* a resume event among them.                                               *)
LEMMA ResumedOnly ==
  ASSUME NEW new \in Seq(Event), CommittedStatus("SUSPENDED", new) # "SUSPENDED"
  PROVE  HasKind(new, "Resumed")
<1> DEFINE marks == {k \in DOMAIN new : new[k].kind \in {"Suspended", "Resumed"}}
           IsLast(k) == k \in marks /\ \A j \in marks : j <= k
           last == CHOOSE k \in marks : \A j \in marks : j <= k
           gaps == {n \in Nat : \E k \in marks : n = Len(new) - k}
<1>1. marks # {} /\ (IsLast(last) => new[last].kind # "Suspended")
  BY DEF CommittedStatus
<1>2. Len(new) \in Nat /\ \A k \in marks : k \in 1..Len(new)
  OBVIOUS
<1>3. \E k \in marks : \A j \in marks : j <= k
  <2> HIDE DEF marks
  <2>1. PICK k \in marks : TRUE
    BY <1>1
  <2>2. Len(new) - k \in gaps
    BY <1>2, <2>1
  <2>3. gaps \subseteq Nat /\ gaps # {}
    BY <2>2
  <2> HIDE DEF gaps
  <2>4. PICK d \in gaps : \A n \in gaps : d <= n
    BY <2>3, LeastNumber
  <2>5. PICK m \in marks : d = Len(new) - m
    BY <2>4 DEF gaps
  <2>6. ASSUME NEW j \in marks PROVE j <= m
    <3>1. Len(new) - j \in gaps /\ j \in 1..Len(new) /\ m \in 1..Len(new)
      BY <1>2, <2>5 DEF gaps
    <3>2. Len(new) - m <= Len(new) - j
      BY <2>4, <2>5, <3>1
    <3> QED
      BY <1>2, <3>1, <3>2
  <2> QED
    BY <2>6
<1>4. IsLast(last)
  BY <1>3
<1> QED
  BY <1>1, <1>4 DEF HasKind

LEMMA SuspendedStep ==
  ASSUME Dispatched, Next, NEW i \in Ids, inst[i].status = "SUSPENDED",
         inst'[i].status \in {"PENDING", "RUNNING"}
  PROVE  HasKind(inst[i].dispatched, "Resumed") \/ inst'[i] = Fresh(nextToken)
<1> USE DEF WorkerSide
<1>1. Core /\ Rest /\ Owned
  BY DEF Dispatched
<1>2. inst'[i].status # inst[i].status /\ inst'[i] # Absent
  BY DEF Absent
<1>3. ASSUME NEW j \in Ids, NEW e, Post(j, e) PROVE FALSE
  <2>1. inst'[i] = IF i = j THEN [inst[i] EXCEPT !.pending = Append(inst[i].pending, e)]
                   ELSE inst[i]
    BY <1>1, <1>3 DEF Post, Core
  <2> QED
    BY <1>1, <1>2, <2>1 DEF Core, Instance
<1>4. CASE Request
  <2>1. ASSUME NEW j \in Ids, inst' = [inst EXCEPT ![j] = Fresh(nextToken)]
        PROVE  inst'[i] = Fresh(nextToken)
    BY <1>1, <1>2, <2>1 DEF Core
  <2>2. ~Reset /\ \A S : ~PurgeInstances(S)
    BY <1>2 DEF Reset, PurgeInstances
  <2> QED
    BY <1>3, <1>4, <2>1, <2>2 DEF Request, StartInstance, RaiseEvent, TerminateInstance,
         SuspendInstance, ResumeInstance, RestartInstance
<1>5. ~GetWorkItems
  <2>1. ~DispatchOrchestration
    <3>1. ASSUME DispatchOrchestration PROVE FALSE
      <4>0. PICK k \in 1..Len(orchQueue.seq) : \E new :
              inst' = [inst EXCEPT ![orchQueue.seq[k]] =
                         [@ EXCEPT !.dispatched = new, !.pending = <<>>]]
        BY <3>1 DEF DispatchOrchestration
      <4>1. PICK new :
              inst' = [inst EXCEPT ![orchQueue.seq[k]] =
                         [@ EXCEPT !.dispatched = new, !.pending = <<>>]]
        BY <4>0
      <4>2. orchQueue.seq[k] \in Ids
        BY <1>1 DEF Core, Queues
      <4> QED
        BY <1>1, <1>2, <4>1, <4>2 DEF Core, Instance
    <3> QED
      BY <3>1
  <2> QED
    BY <1>2, <2>1 DEF GetWorkItems, RequeueInFlight, NoOrchestrationReady
<1>6. CASE \E j \in Ids : CompleteOrchestratorTask(j)
  <2>1. PICK j \in Ids : CompleteOrchestratorTask(j)
    BY <1>6
  <2>2. PICK k \in 1..Len(out[j]), r \in Responses :
          /\ IsCurrent(j, k)
          /\ Answerable(j, inst[j], out[j][k].new, r)
          /\ \E carry : Accept(j, r, carry)
    BY <2>1 DEF CompleteOrchestratorTask
  <2>3. PICK carry : Accept(j, r, carry)
    BY <2>2
  <2>4. PICK token :
          inst'[i] = IF i = j THEN Committed(inst[j], r, carry, token)
                     ELSE IF r.sub # None /\ Creatable(r.sub) /\ i = r.sub
                     THEN Fresh(nextToken) ELSE inst[i]
    BY <2>3 DEF Accept
  <2>5. CASE i # j
    BY <1>2, <2>4, <2>5
  <2>6. CASE i = j
    <3> DEFINE new == inst[i].dispatched
    <3>1. inst'[i].status = FinalStatus(CommittedStatus("SUSPENDED", new), r.outcome)
      BY <2>4, <2>6 DEF Committed
    <3>2. new \in Seq(Event) /\ inst[i].finished \in {"none"} \union Terminal
      BY <1>1, InstanceFields DEF Core
    <3>3. out[j][k].new = new
      BY <1>1, <2>2, <2>6 DEF Owned, Held
    <3>4. CASE r.outcome = "none"
      BY <3>1, <3>2, <3>4, ResumedOnly DEF FinalStatus
    <3>5. CASE r.outcome = "CONTINUED"
      <4>1. inst[i].finished = "none"
        BY <2>2, <2>6, <3>2, <3>5 DEF Answerable, Terminal
      <4> QED
        BY <2>2, <2>6, <3>3, <3>5, <4>1 DEF Answerable
    <3>6. CASE r.outcome = "raise"
      <4>1. CommittedStatus("SUSPENDED", new) \notin Terminal
        BY DEF CommittedStatus, Terminal
      <4> QED
        BY <3>1, <3>6, <4>1 DEF FinalStatus
    <3>7. CASE r.outcome \in Terminal
      BY <3>1, <3>7 DEF FinalStatus, Terminal
    <3>8. r.outcome \in {"none", "CONTINUED", "raise"} \union Terminal
      BY ResponseFields, OutcomesAssumption
    <3> QED
      BY <3>4, <3>5, <3>6, <3>7, <3>8
  <2> QED
    BY <2>5, <2>6
<1>7. ASSUME NEW j \in Ids, NEW token, Abandon(j, token) PROVE FALSE
  <2>1. inst'[i] = inst[i] \/ inst'[i] = Restored(inst[i])
    BY <1>1, <1>7 DEF Abandon, Core
  <2> QED
    BY <1>1, <1>2, <2>1 DEF Restored, Core, Instance
<1>8. CASE Worker
  BY <1>1, <1>2, <1>3, <1>6, <1>7, <1>8
     DEF Worker, IgnoredAnswer, AbandonTaskOrchestratorWorkItem, LoseAnswer, AbandonAgain,
         CompleteActivityTask, AbandonTaskActivityWorkItem, WorkerCrash, Rest, Activity
<1>9. ~Background
  BY <1>1, <1>2, <1>3 DEF Background, FireTimer, StartWatching, WatcherTimeout,
       ReportSubOrchestration, Rest, Activity, Watcher
<1> QED
  BY <1>4, <1>5, <1>8, <1>9 DEF Next

(* A suspended instance does not wake by itself: no timer, activity, late    *)
(* answer, continue-as-new or new event takes it out of suspension, only a   *)
(* resume event that is committed, its end, or its being created anew.       *)
THEOREM SuspensionTheorem ==
  ASSUME "Reset" \notin Requests, "lostReply" \notin Faults
  PROVE  Spec => SuspendedUntilResumed
<1> DEFINE A == \A i \in Ids :
             inst[i].status = "SUSPENDED" /\ inst'[i].status \in {"PENDING", "RUNNING"} =>
               HasKind(inst[i].dispatched, "Resumed") \/ inst'[i] = Fresh(nextToken)
<1>1. Dispatched /\ [Next]_vars => Dispatched'
  BY DispatchedStep
<1>2. Dispatched /\ [Next]_vars => [A]_vars
  BY SuspendedStep
<1> QED
  BY <1>1, <1>2, DispatchedInit, PTL DEF Spec, SuspendedUntilResumed

-----------------------------------------------------------------------------
(* The in-flight marks *)

LEMMA DispatchMarks ==
  ASSUME Core, Rest, InFlightIsOwned, DispatchOrchestration
  PROVE  InFlightIsOwned'
<1>0. PICK i \in Ids : \E new, item : Dispatches(i, new, item)
  BY DispatchedInstance
<1>1. PICK new, item : Dispatches(i, new, item)
  BY <1>0
<1>2. out'[i] # <<>> /\ \A j \in Ids : j # i => out'[j] = out[j]
  <2> DEFINE S == WorkItem \union {item}
  <2>1. out[i] \in Seq(WorkItem) /\ WorkItem \subseteq S /\ item \in S
    BY DEF Rest
  <2> HIDE DEF S
  <2>2. out[i] \in Seq(S)
    BY <2>1
  <2>3. Append(out[i], item) # <<>>
    BY <2>1, <2>2
  <2> QED
    BY <1>1, <2>3 DEF Dispatches, Rest
<1> QED
  BY <1>1, <1>2 DEF Dispatches, InFlightIsOwned, Rest

(* Whoever takes a work item from a worker takes the mark away. *)
LEMMA ReleaseKeepsMarks ==
  ASSUME Rest, InFlightIsOwned, NEW i \in Ids, inFlight' = inFlight \ {i},
         NEW s, out' = [out EXCEPT ![i] = s]
  PROVE  InFlightIsOwned'
  BY DEF Rest, InFlightIsOwned

LEMMA MarksStep ==
  ASSUME Core, Rest, InFlightIsOwned, [Next]_vars, resend = {},
         "lostAnswer" \notin Faults, "crash" \notin Faults,
         ~\E i \in Ids : AbandonTaskOrchestratorWorkItem(i)
  PROVE  InFlightIsOwned'
<1> USE DEF WorkerSide
<1>1. ASSUME UNCHANGED <<out, inFlight>> PROVE InFlightIsOwned'
  BY <1>1 DEF InFlightIsOwned
<1>2. CASE Request
  <2>1. CASE Reset
    BY <2>1 DEF Reset, InFlightIsOwned
  <2>2. CASE ~Reset
    BY <1>1, <1>2, <2>2 DEF Request, StartInstance, RaiseEvent, TerminateInstance,
         SuspendInstance, ResumeInstance, RestartInstance, PurgeInstances
  <2> QED
    BY <2>1, <2>2
<1>3. CASE GetWorkItems
  BY <1>1, <1>3, DispatchMarks DEF GetWorkItems, RequeueInFlight, NoOrchestrationReady
<1>4. CASE Worker
  <2>1. ASSUME NEW i \in Ids, CompleteOrchestratorTask(i) \/ IgnoredAnswer(i)
        PROVE  InFlightIsOwned'
    <3>1. PICK k \in 1..Len(out[i]) :
            inFlight' = inFlight \ {i} /\ out' = [out EXCEPT ![i] = RemoveAt(@, k)]
      BY <2>1 DEF CompleteOrchestratorTask, IgnoredAnswer, Accept, Answer, Released
    <3> QED
      BY <3>1, ReleaseKeepsMarks
  <2>2. \A i \in Ids : ~LoseAnswer(i)
    BY DEF LoseAnswer, Fault
  <2>3. ~WorkerCrash /\ ~AbandonAgain
    BY DEF WorkerCrash, Fault, AbandonAgain
  <2> QED
    BY <1>1, <1>4, <2>1, <2>2, <2>3
       DEF Worker, CompleteActivityTask, AbandonTaskActivityWorkItem
<1>5. CASE Background
  BY <1>1, <1>5 DEF Background, FireTimer, StartWatching, WatcherTimeout,
       ReportSubOrchestration
<1> QED
  BY <1>1, <1>2, <1>3, <1>4, <1>5 DEF Next, vars

(* Nothing waits for an instance that is not there, and workers hold work   *)
(* items of the instances as they are only.                                 *)
Current(i) ==
  /\ ~Exists(i) => inst[i].pending = <<>>
  /\ \A k \in 1..Len(out[i]) : IsCurrent(i, k)

AllCurrent == \A i \in Ids : Current(i)

LEMMA CurrentFrame ==
  ASSUME NEW i \in Ids, Current(i), SameIdentity(i),
         inst'[i].pending = inst[i].pending \/ Exists(i),
         out'[i] = out[i] \/ out'[i] = <<>>
  PROVE  Current(i)'
  BY DEF Current, SameIdentity, IsCurrent, Exists

LEMMA PostKeepsCurrent ==
  ASSUME Core, AllCurrent, NEW i \in Ids, NEW e, Exists(i), Post(i, e), out' = out
  PROVE  AllCurrent'
<1>1. ASSUME NEW j \in Ids PROVE Current(j)'
  <2>1. SameIdentity(j)
    BY PostIsFrame DEF SameExecution
  <2>2. j # i => inst'[j] = inst[j]
    BY DEF Post, Core
  <2> QED
    BY <2>1, <2>2, CurrentFrame DEF AllCurrent
<1> QED
  BY <1>1 DEF AllCurrent

LEMMA StartKeepsCurrent ==
  ASSUME Core, Rest, AllCurrent, NEW i \in Ids, StartInstance(i), Replaceable = {}
  PROVE  AllCurrent'
<1>1. /\ inst[i].status = "NONE" /\ inst'[i] = Fresh(nextToken) /\ out' = out
      /\ \A j \in Ids : j # i => inst'[j] = inst[j]
  BY DEF StartInstance, Core, WorkerSide
<1>2. Current(i)'
  <2>1. \A k \in 1..Len(out[i]) : FALSE
    BY <1>1 DEF AllCurrent, Current, IsCurrent, Exists
  <2> QED
    BY <1>1, <2>1 DEF Current, Fresh, Exists
<1>3. ASSUME NEW j \in Ids, j # i PROVE Current(j)'
  BY <1>1, <1>3, CurrentFrame DEF SameIdentity, AllCurrent
<1> QED
  BY <1>2, <1>3 DEF AllCurrent

LEMMA DispatchKeepsCurrent ==
  ASSUME Core, Rest, AllCurrent, DispatchOrchestration
  PROVE  AllCurrent'
<1>0. PICK i \in Ids : \E new, item : Dispatches(i, new, item)
  BY DispatchedInstance
<1>1. PICK new, item : Dispatches(i, new, item)
  BY <1>0
<1>2. Current(i) /\ inst[i].pending # <<>> /\ item.token = inst[i].token
  BY <1>1 DEF Dispatches, AllCurrent
<1>3. /\ inst'[i].status = inst[i].status /\ inst'[i].token = inst[i].token
      /\ out'[i] = Append(out[i], item)
      /\ \A j \in Ids : j # i => inst'[j] = inst[j] /\ out'[j] = out[j]
  BY <1>1 DEF Dispatches, Core, Rest, Instance
<1>4. Exists(i) /\ Exists(i)'
  BY <1>2, <1>3 DEF Current, Exists
<1>5. Current(i)'
  <2> DEFINE S == WorkItem \union {item}
             q == Append(out[i], item)
  <2>1. out[i] \in Seq(S) /\ item \in S
    BY DEF Rest
  <2> HIDE DEF S
  <2>2. /\ Len(q) = Len(out[i]) + 1 /\ Len(out[i]) \in Nat /\ q[Len(q)] = item
        /\ \A n \in 1..Len(out[i]) : q[n] = out[i][n]
    BY <2>1
  <2> HIDE DEF q
  <2>3. ASSUME NEW n \in 1..Len(q) PROVE q[n].token = inst[i].token
    <3>1. n \in 1..Len(out[i]) \/ n = Len(q)
      BY <2>2
    <3>2. CASE n \in 1..Len(out[i])
      BY <1>2, <2>2, <3>2 DEF Current, IsCurrent
    <3>3. CASE n = Len(q)
      BY <1>2, <2>2, <3>3
    <3> QED
      BY <3>1, <3>2, <3>3
  <2>4. out'[i] = q
    BY <1>3 DEF q
  <2> QED
    BY <1>3, <1>4, <2>3, <2>4 DEF Current, IsCurrent
<1>6. ASSUME NEW j \in Ids, j # i PROVE Current(j)'
  BY <1>3, <1>6, CurrentFrame DEF SameIdentity, AllCurrent
<1> QED
  BY <1>5, <1>6 DEF AllCurrent

(* A worker lets go of the only work item of i. *)
LEMMA GivenBack ==
  ASSUME Rest, Owned, NEW i \in Ids, NEW k \in 1..Len(out[i]),
         out' = [out EXCEPT ![i] = RemoveAt(@, k)]
  PROVE  out'[i] = <<>> /\ \A j \in Ids : j # i => out'[j] = out[j]
<1>1. Len(out[i]) <= 1 /\ out[i] \in Seq(WorkItem)
  BY DEF Owned, Held, Rest
<1>2. RemoveAt(out[i], k) = <<>>
  BY <1>1, RemoveOnly
<1> QED
  BY <1>2 DEF Rest

LEMMA AnswerKeepsCurrent ==
  ASSUME Core, Rest, Owned, AllCurrent, NEW i \in Ids, CompleteOrchestratorTask(i), ~SubOrchs
  PROVE  AllCurrent'
<1>1. PICK k \in 1..Len(out[i]), r \in Responses :
        /\ \E carry : Accept(i, r, carry)
        /\ Answer(i, k) /\ IsCurrent(i, k)
  BY DEF CompleteOrchestratorTask
<1>2. PICK carry, token :
        inst' = [j \in Ids |-> IF j = i THEN Committed(inst[i], r, carry, token)
                               ELSE IF r.sub # None /\ Creatable(r.sub) /\ j = r.sub
                               THEN Fresh(nextToken) ELSE inst[j]]
  BY <1>1 DEF Accept
<1>3. r.sub = None
  BY DEF Responses
<1>4. out'[i] = <<>> /\ \A j \in Ids : j # i => out'[j] = out[j]
  BY <1>1, GivenBack DEF Answer
<1>5. Current(i)'
  <2>1. inst'[i].status =
          FinalStatus(CommittedStatus(inst[i].status, inst[i].dispatched), r.outcome)
    BY <1>2 DEF Committed
  <2>2. CommittedStatus(inst[i].status, inst[i].dispatched) # "NONE"
    BY <1>1 DEF CommittedStatus, IsCurrent, Exists
  <2>3. r.outcome \in {"none", "CONTINUED", "raise"} \union Terminal
    BY ResponseFields, OutcomesAssumption
  <2>4. Exists(i)'
    BY <2>1, <2>2, <2>3 DEF FinalStatus, Exists, Terminal
  <2> QED
    BY <1>4, <2>4 DEF Current
<1>6. ASSUME NEW j \in Ids, j # i PROVE Current(j)'
  BY <1>2, <1>3, <1>4, <1>6, CurrentFrame DEF SameIdentity, AllCurrent
<1> QED
  BY <1>5, <1>6 DEF AllCurrent

LEMMA AbandonKeepsCurrent ==
  ASSUME Core, Rest, Owned, AllCurrent, NEW i \in Ids, AbandonTaskOrchestratorWorkItem(i)
  PROVE  AllCurrent'
<1>1. PICK k \in 1..Len(out[i]) :
        Abandon(i, out[i][k].token) /\ out' = [out EXCEPT ![i] = RemoveAt(@, k)]
  BY DEF AbandonTaskOrchestratorWorkItem
<1>2. out'[i] = <<>> /\ \A j \in Ids : j # i => out'[j] = out[j]
  BY <1>1, GivenBack
<1>3. SameIdentity(i) /\ \A j \in Ids : j # i => inst'[j] = inst[j]
  BY <1>1, AbandonIdentity
<1>4. inst'[i] = inst[i] \/ Exists(i)
  BY <1>1 DEF Abandon
<1>5. ASSUME NEW j \in Ids PROVE Current(j)'
  <2>1. SameIdentity(j)
    BY <1>3 DEF SameIdentity
  <2>2. inst'[j].pending = inst[j].pending \/ Exists(j)
    BY <1>3, <1>4
  <2>3. out'[j] = out[j] \/ out'[j] = <<>>
    BY <1>2
  <2> QED
    BY <2>1, <2>2, <2>3, CurrentFrame DEF AllCurrent
<1> QED
  BY <1>5 DEF AllCurrent

(* An abandon of what is current takes the mark away with the work item. *)
LEMMA AbandonMarks ==
  ASSUME Rest, Owned, AllCurrent, InFlightIsOwned, NEW i \in Ids,
         AbandonTaskOrchestratorWorkItem(i)
  PROVE  InFlightIsOwned'
<1>1. PICK k \in 1..Len(out[i]) :
        Abandon(i, out[i][k].token) /\ out' = [out EXCEPT ![i] = RemoveAt(@, k)]
  BY DEF AbandonTaskOrchestratorWorkItem
<1>2. Exists(i) /\ inst[i].token = out[i][k].token
  BY DEF AllCurrent, Current, IsCurrent
<1>3. i \in inFlight
  <2>1. out[i] # <<>> /\ Held(i)
    BY DEF Owned
  <2> QED
    BY <2>1 DEF Held
<1>4. inFlight' = inFlight \ {i}
  BY <1>1, <1>2, <1>3 DEF Abandon, Busy, Released
<1> QED
  BY <1>1, <1>4, ReleaseKeepsMarks

(* Instances are made once and go nowhere. *)
MadeOnce ==
  /\ Requests \intersect {"Reset", "Purge", "Restart"} = {}
  /\ Replaceable = {} /\ ~SubOrchs

LEMMA CurrentStep ==
  ASSUME Core, Rest, Owned, AllCurrent, [Next]_vars, MadeOnce
  PROVE  AllCurrent'
<1> USE DEF WorkerSide
<1>1. ASSUME inst' = inst, \A j \in Ids : out'[j] = out[j] \/ out'[j] = <<>>
      PROVE  AllCurrent'
  <2>1. ASSUME NEW j \in Ids PROVE Current(j)'
    BY <1>1, CurrentFrame DEF SameIdentity, AllCurrent
  <2> QED
    BY <2>1 DEF AllCurrent
<1>2. CASE Request
  <2>1. ~Reset /\ (\A S : ~PurgeInstances(S)) /\ \A i, j : ~RestartInstance(i, j)
    BY DEF Reset, PurgeInstances, RestartInstance, Call, MadeOnce
  <2>2. ASSUME NEW i \in Ids, StartInstance(i) PROVE AllCurrent'
    BY <2>2, StartKeepsCurrent DEF MadeOnce
  <2> QED
    BY <1>2, <2>1, <2>2, PostKeepsCurrent DEF Request, RaiseEvent, TerminateInstance,
         SuspendInstance, ResumeInstance
<1>3. CASE GetWorkItems
  BY <1>1, <1>3, DispatchKeepsCurrent DEF GetWorkItems, RequeueInFlight,
       NoOrchestrationReady
<1>4. CASE Worker
  <2>1. ASSUME NEW i \in Ids, IgnoredAnswer(i) \/ LoseAnswer(i) PROVE AllCurrent'
    <3>1. PICK k \in 1..Len(out[i]) : out' = [out EXCEPT ![i] = RemoveAt(@, k)]
      BY <2>1 DEF IgnoredAnswer, LoseAnswer, Answer
    <3>2. inst' = inst
      BY <2>1 DEF IgnoredAnswer, LoseAnswer
    <3> QED
      BY <1>1, <3>1, <3>2, GivenBack
  <2>2. ASSUME NEW a \in running, CompleteActivityTask(a) PROVE AllCurrent'
    <3>1. a.inst \in Ids
      BY <2>2 DEF Rest, Activity
    <3> QED
      BY <1>1, <2>2, <3>1, PostKeepsCurrent DEF CompleteActivityTask
  <2>3. CASE AbandonTaskActivityWorkItem \/ WorkerCrash
    BY <1>1, <2>3 DEF AbandonTaskActivityWorkItem, WorkerCrash
  <2>4. ~AbandonAgain
    BY DEF AbandonAgain, Owned
  <2>5. ASSUME NEW i \in Ids, CompleteOrchestratorTask(i) PROVE AllCurrent'
    BY <2>5, AnswerKeepsCurrent DEF MadeOnce
  <2> QED
    BY <1>4, <2>1, <2>2, <2>3, <2>4, <2>5, AbandonKeepsCurrent DEF Worker
<1>5. CASE Background
  <2>1. ASSUME NEW t \in timers, FireTimer(t) PROVE AllCurrent'
    <3>1. t.inst \in Ids
      BY <2>1 DEF Rest, Activity
    <3> QED
      BY <1>1, <2>1, <3>1, PostKeepsCurrent DEF FireTimer, Receives
  <2>2. ASSUME NEW w \in watchers, ReportSubOrchestration(w) PROVE AllCurrent'
    <3>1. w.parent \in Ids
      BY <2>2 DEF Rest, Watcher
    <3> QED
      BY <1>1, <2>2, <3>1, PostKeepsCurrent DEF ReportSubOrchestration, Receives
  <2> QED
    BY <1>1, <1>5, <2>1, <2>2 DEF Background, StartWatching, WatcherTimeout
<1> QED
  BY <1>1, <1>2, <1>3, <1>4, <1>5 DEF Next, vars

LEMMA NoAbandons ==
  ASSUME [Next]_vars, resend = {}, "abandon" \notin Faults
  PROVE  resend' = {} /\ ~\E i \in Ids : AbandonTaskOrchestratorWorkItem(i)
<1>1. ~\E i \in Ids : AbandonTaskOrchestratorWorkItem(i)
  BY DEF AbandonTaskOrchestratorWorkItem, Fault
<1>2. resend' = {}
  BY <1>1 DEF Next, vars, Request, StartInstance, RaiseEvent, TerminateInstance,
       SuspendInstance, ResumeInstance, RestartInstance, PurgeInstances, Reset, WorkerSide,
       GetWorkItems, DispatchOrchestration, RequeueInFlight, NoOrchestrationReady, Worker,
       CompleteOrchestratorTask, IgnoredAnswer, Answer, LoseAnswer, AbandonAgain,
       CompleteActivityTask, AbandonTaskActivityWorkItem, WorkerCrash, Background,
       FireTimer, StartWatching, WatcherTimeout, ReportSubOrchestration
<1> QED
  BY <1>1, <1>2

(* As long as the answers of workers arrive and no worker dies, every        *)
(* instance in flight is with a worker that will end its flight.  Without    *)
(* abandons this is so under any request of a client, a reset included.      *)
(* With abandons it needs that instances are made once: the abandon of a     *)
(* work item whose instance was replaced or purged does not find the         *)
(* instance by its token and leaves the mark.                                *)
THEOREM OwnershipTheorem ==
  ASSUME "lostAnswer" \notin Faults, "crash" \notin Faults,
         "abandon" \in Faults => MadeOnce /\ "lostReply" \notin Faults
  PROVE  Spec => []InFlightIsOwned
<1>1. ASSUME "abandon" \notin Faults PROVE Spec => []InFlightIsOwned
  <2> DEFINE I == Core /\ Rest /\ InFlightIsOwned /\ resend = {}
  <2>1. Init => I
    BY InitHolds DEF Init, InFlightIsOwned
  <2>2. I /\ [Next]_vars => I'
    BY <1>1, StateStep, NoAbandons, MarksStep
  <2>3. I => InFlightIsOwned
    OBVIOUS
  <2> HIDE DEF I
  <2> QED
    BY <2>1, <2>2, <2>3, PTL DEF Spec
<1>2. ASSUME "abandon" \in Faults PROVE Spec => []InFlightIsOwned
  <2> DEFINE I == Dispatched /\ AllCurrent /\ InFlightIsOwned
  <2>1. Init => I
    <3>1. Init => AllCurrent /\ InFlightIsOwned
      BY DEF Init, AllCurrent, Current, InFlightIsOwned, Absent
    <3> QED
      BY <3>1, DispatchedInit
  <2>2. I /\ [Next]_vars => I'
    <3> SUFFICES ASSUME I, [Next]_vars PROVE I'
      OBVIOUS
    <3>1. Core /\ Rest /\ Owned /\ resend = {}
      BY DEF Dispatched, Owned
    <3>2. MadeOnce /\ "lostReply" \notin Faults
      BY <1>2
    <3>3. "Reset" \notin Requests
      BY <3>2 DEF MadeOnce
    <3>4. Dispatched' /\ AllCurrent'
      BY <3>1, <3>2, <3>3, DispatchedStep, CurrentStep
    <3>5. InFlightIsOwned'
      BY <3>1, MarksStep, AbandonMarks
    <3> QED
      BY <3>4, <3>5
  <2>3. I => InFlightIsOwned
    OBVIOUS
  <2> HIDE DEF I
  <2> QED
    BY <2>1, <2>2, <2>3, PTL DEF Spec
<1> QED
  BY <1>1, <1>2

=============================================================================
