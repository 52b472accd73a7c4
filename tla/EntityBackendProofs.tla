------------------------- MODULE EntityBackendProofs -------------------------
(***************************************************************************)
(* The entity half of the backend for any entities, orchestrations and     *)
(* lock sets: the variables keep their types, an entity executes one batch *)
(* at a time, its operations are executed in the order of acceptance, no   *)
(* entity with operations is forgotten, and locks exclude.                 *)
(***************************************************************************)
EXTENDS EntityBackend, SequenceFacts, FiniteSetTheorems

-----------------------------------------------------------------------------
(* Types *)

Queues == [seq : Seq(Entities), set : SUBSET Entities]

LEMMA EnqueueType ==
  ASSUME NEW q \in Queues, NEW e \in Entities
  PROVE  Enqueue(q, e) \in Queues
  BY DEF Enqueue, Queues

LEMMA PoppedType ==
  ASSUME NEW q \in Queues, NEW k \in 0..Len(q.seq)
  PROVE  Popped(q, k) \in Queues
  BY DEF Popped, Queues

LEMMA EntityFields ==
  ASSUME NEW ent \in Entity
  PROVE  /\ ent.exists \in BOOLEAN /\ ent.empty \in BOOLEAN /\ ent.token \in Nat
         /\ ent.lockedBy \in Section \union {None}
         /\ ent.pending \in Seq(Operation) /\ ent.dispatched \in Seq(Operation)
  BY DEF Entity

LEMMA EntitySteps ==
  ASSUME NEW ent \in Entity
  PROVE  /\ \A operation \in Operation : Receiving(ent, operation) \in Entity
         /\ Dispatching(ent) \in Entity
         /\ \A empty \in BOOLEAN : Executed(ent, empty) \in Entity
         /\ Restored(ent) \in Entity
         /\ [ent EXCEPT !.lockedBy = None] \in Entity
         /\ \A n \in Nat : NoEntity(n) \in Entity
<1> DEFINE Ops == Seq(Operation)
<1>0. ent.pending \in Ops /\ ent.dispatched \in Ops /\ <<>> \in Ops
  BY EntityFields
<1>1. ASSUME NEW operation \in Operation PROVE Receiving(ent, operation) \in Entity
  <2>1. Append(ent.pending, operation) \in Ops
    BY <1>0
  <2> QED
    BY <2>1 DEF Receiving, Entity
<1>2. Dispatching(ent) \in Entity
  BY <1>0 DEF Dispatching, Entity
<1>3. ASSUME NEW empty \in BOOLEAN PROVE Executed(ent, empty) \in Entity
  <2>1. ent.token + 1 \in Nat
    BY EntityFields
  <2> QED
    BY <1>0, <2>1 DEF Executed, Entity
<1>4. Restored(ent) \in Entity
  <2>1. ent.dispatched \o ent.pending \in Ops
    BY <1>0
  <2> QED
    BY <1>0, <2>1 DEF Restored, Entity
<1>5. [ent EXCEPT !.lockedBy = None] \in Entity /\ \A n \in Nat : NoEntity(n) \in Entity
  BY DEF NoEntity, Entity
<1> QED
  BY <1>1, <1>2, <1>3, <1>4, <1>5

LEMMA AcceptType ==
  ASSUME TypeOK, NEW e \in Entities, NEW caller \in Orchs \union {None}, Accept(e, caller)
  PROVE  /\ entities' \in [Entities -> Entity]
         /\ entityQueue' \in Queues
         /\ accepted' \in [Entities -> Nat]
<1>1. [number |-> accepted[e] + 1, caller |-> caller] \in Operation
  BY DEF TypeOK, Operation
<1>2. entities' \in [Entities -> Entity]
  BY <1>1, EntitySteps DEF TypeOK, Accept
<1>3. entityQueue' \in Queues
  BY EnqueueType DEF TypeOK, Accept, Queues
<1> QED
  BY <1>2, <1>3 DEF TypeOK, Accept

LEMMA GetWorkItemsType ==
  ASSUME TypeOK, GetWorkItems
  PROVE  TypeOK'
<1>1. CASE UNCHANGED <<entities, inFlight, batches>>
  <2>1. entityQueue \in Queues /\ entityQueue.seq \in Seq(Entities)
    BY DEF TypeOK, Queues
  <2>2. PICK k \in 0..Len(entityQueue.seq) : entityQueue' = Popped(entityQueue, k)
    <3>1. 1..Len(entityQueue.seq) \subseteq 0..Len(entityQueue.seq)
          /\ Len(entityQueue.seq) \in 0..Len(entityQueue.seq)
      BY <2>1
    <3> QED
      BY <3>1 DEF GetWorkItems
  <2>3. entityQueue' \in Queues
    BY <2>1, <2>2, PoppedType
  <2> QED
    BY <1>1, <2>3 DEF TypeOK, GetWorkItems, Queues
<1>2. ASSUME NEW k \in 1..Len(entityQueue.seq), NEW e, e = entityQueue.seq[k],
             entityQueue' = Popped(entityQueue, k),
             entities' = [entities EXCEPT ![e] = Dispatching(@)],
             inFlight' = inFlight \union {e},
             batches' = [batches EXCEPT ![e] = Append(@, [token |-> entities[e].token,
                                                         ops |-> entities[e].pending])]
      PROVE  TypeOK'
  <2>1. e \in Entities
    BY <1>2 DEF TypeOK
  <2>2. entityQueue' \in Queues
    <3>1. entityQueue \in Queues /\ entityQueue.seq \in Seq(Entities)
      BY DEF TypeOK, Queues
    <3>2. k \in 0..Len(entityQueue.seq)
      BY <3>1
    <3> QED
      BY <1>2, <3>1, <3>2, PoppedType
  <2>3. entities' \in [Entities -> Entity]
    BY <1>2, <2>1, EntitySteps DEF TypeOK
  <2>4. [token |-> entities[e].token, ops |-> entities[e].pending] \in Batch
    BY <2>1 DEF TypeOK, Entity, Batch
  <2>5. batches' \in [Entities -> Seq(Batch)]
    BY <1>2, <2>1, <2>4 DEF TypeOK
  <2> QED
    BY <1>2, <2>1, <2>2, <2>3, <2>5 DEF TypeOK, GetWorkItems, Queues
<1> QED
  BY <1>1, <1>2 DEF GetWorkItems

LEMMA AnsweredType ==
  ASSUME TypeOK, NEW e \in Entities, NEW ops \in Seq(Operation)
  PROVE  Answered(e, ops) \in [Orchs -> Seq(Inbox)]
<1> SUFFICES ASSUME NEW o \in Orchs
             PROVE  inbox[o] \o [k \in 1..Cardinality({j \in DOMAIN ops : ops[j].caller = o}) |->
                                   [kind |-> "result", entity |-> e]] \in Seq(Inbox)
  BY DEF Answered
<1> DEFINE S == {j \in DOMAIN ops : ops[j].caller = o}
<1>1. Cardinality(S) \in Nat
  <2>1. S \in SUBSET (1..Len(ops)) /\ Len(ops) \in Nat
    OBVIOUS
  <2>2. IsFiniteSet(1..Len(ops))
    BY <2>1, FS_Interval
  <2> HIDE DEF S
  <2> QED
    BY <2>1, <2>2, FS_Subset, FS_CardinalityType
<1>2. [kind |-> "result", entity |-> e] \in Inbox
  BY DEF Inbox
<1> HIDE DEF S
<1>3. [k \in 1..Cardinality(S) |-> [kind |-> "result", entity |-> e]] \in Seq(Inbox)
  BY <1>1, <1>2
<1> QED
  BY <1>3 DEF TypeOK, S

LEMMA CommitType ==
  ASSUME TypeOK, NEW e \in Entities, NEW ops \in Seq(Operation), NEW empty \in BOOLEAN,
         NEW t \in Entities \union {None}, Commit(e, ops, empty, t)
  PROVE  /\ entities' \in [Entities -> Entity] /\ entityQueue' \in Queues
         /\ inFlight' \subseteq Entities /\ inbox' \in [Orchs -> Seq(Inbox)]
         /\ accepted' \in [Entities -> Nat] /\ executed' \in [Entities -> Nat]
<1> DEFINE signal == [number |-> accepted[t] + 1, caller |-> None]
           after == [entities EXCEPT ![e] = Executed(@, empty)]
           q == IF t = None THEN entityQueue ELSE Enqueue(entityQueue, t)
<1>1. after \in [Entities -> Entity]
  BY EntitySteps DEF TypeOK
<1>2. ASSUME t # None PROVE signal \in Operation /\ t \in Entities
  BY <1>2 DEF TypeOK, Operation
<1>3. entities' = IF t = None THEN after ELSE [after EXCEPT ![t] = Receiving(@, signal)]
  BY DEF Commit
<1>4. q \in Queues
  BY EnqueueType DEF TypeOK, Queues
<1>5. entityQueue' = Requeued(q, e, entities'[e].pending # <<>>)
  BY DEF Commit
<1> HIDE DEF signal, after, q
<1>6. entities' \in [Entities -> Entity]
  BY <1>1, <1>2, <1>3, EntitySteps
<1>7. entityQueue' \in Queues
  BY <1>4, <1>5, EnqueueType DEF Requeued
<1>8. inbox' \in [Orchs -> Seq(Inbox)] /\ executed' \in [Entities -> Nat]
  BY AnsweredType DEF Commit, TypeOK
<1>9. accepted' \in [Entities -> Nat] /\ inFlight' \subseteq Entities
  BY DEF Commit, TypeOK
<1> QED
  BY <1>6, <1>7, <1>8, <1>9

LEMMA BatchType ==
  ASSUME TypeOK, NEW e \in Entities, NEW k \in 1..Len(batches[e])
  PROVE  batches[e][k] \in Batch /\ batches[e][k].ops \in Seq(Operation)
         /\ batches[e][k].token \in Nat
<1>1. batches[e][k] \in Batch
  BY DEF TypeOK
<1> QED
  BY <1>1 DEF Batch

LEMMA CompleteType ==
  ASSUME TypeOK, NEW e \in Entities, CompleteEntityTask(e)
  PROVE  TypeOK'
<1>1. PICK k \in 1..Len(batches[e]), empty \in BOOLEAN, t \in Entities \union {None} :
        /\ batches' = [batches EXCEPT ![e] = RemoveAt(@, k)]
        /\ IF IsCurrent(e, k) THEN Commit(e, batches[e][k].ops, empty, t)
           ELSE UNCHANGED <<entities, accepted, inFlight, inbox, executed, entityQueue>>
        /\ UNCHANGED <<lockRequests, orch, sections, abandons>>
  BY DEF CompleteEntityTask
<1>2. batches' \in [Entities -> Seq(Batch)]
  BY <1>1, RemoveAtType DEF TypeOK
<1>3. CASE ~IsCurrent(e, k)
  BY <1>1, <1>2, <1>3 DEF TypeOK
<1>4. CASE IsCurrent(e, k)
  <2>1. batches[e][k].ops \in Seq(Operation)
    BY BatchType
  <2>2. Commit(e, batches[e][k].ops, empty, t)
    BY <1>1, <1>4
  <2>3. /\ entities' \in [Entities -> Entity] /\ entityQueue' \in Queues
        /\ inFlight' \subseteq Entities /\ inbox' \in [Orchs -> Seq(Inbox)]
        /\ accepted' \in [Entities -> Nat] /\ executed' \in [Entities -> Nat]
    BY <2>1, <2>2, CommitType
  <2> QED
    BY <1>1, <1>2, <2>3 DEF TypeOK, Queues
<1> QED
  BY <1>3, <1>4

LEMMA AbandonType ==
  ASSUME TypeOK, NEW e \in Entities, AbandonTaskEntityWorkItem(e)
  PROVE  TypeOK'
<1>1. PICK k \in 1..Len(batches[e]) :
        /\ abandons' = abandons + 1
        /\ batches' = [batches EXCEPT ![e] = RemoveAt(@, k)]
        /\ IF IsCurrent(e, k)
           THEN /\ entities' = [entities EXCEPT ![e] = Restored(entities[e])]
                /\ inFlight' = inFlight \ {e}
                /\ entityQueue' = Enqueue(entityQueue, e)
           ELSE UNCHANGED <<entities, inFlight, entityQueue>>
        /\ UNCHANGED <<lockRequests, orch, inbox, accepted, executed, sections>>
  BY DEF AbandonTaskEntityWorkItem
<1>2. batches' \in [Entities -> Seq(Batch)]
  BY <1>1, RemoveAtType DEF TypeOK
<1>3. entities \in [Entities -> Entity] /\ entityQueue \in Queues
  BY DEF TypeOK, Queues
<1>4. Restored(entities[e]) \in Entity /\ Enqueue(entityQueue, e) \in Queues
  BY <1>3, EntitySteps, EnqueueType
<1>5. entities' \in [Entities -> Entity] /\ entityQueue' \in Queues
  <2>1. CASE IsCurrent(e, k)
    BY <1>1, <1>3, <1>4, <2>1
  <2>2. CASE ~IsCurrent(e, k)
    BY <1>1, <1>3, <2>2
  <2> QED
    BY <2>1, <2>2
<1> QED
  BY <1>1, <1>2, <1>5 DEF TypeOK, Queues

LEMMA CleanType ==
  ASSUME TypeOK, CleanEntityStorage
  PROVE  TypeOK'
<1>1. entities' \in [Entities -> Entity]
  <2>1. PICK R : entities' = [e \in Entities |->
           IF e \in R THEN NoEntity(entities[e].token + 1)
           ELSE IF "releaseOrphanedLocks" \in Cleaning
                THEN [entities[e] EXCEPT !.lockedBy = None] ELSE entities[e]]
    BY DEF CleanEntityStorage
  <2>2. ASSUME NEW e \in Entities
        PROVE  /\ NoEntity(entities[e].token + 1) \in Entity
               /\ [entities[e] EXCEPT !.lockedBy = None] \in Entity
               /\ entities[e] \in Entity
    <3>1. entities[e] \in Entity
      BY DEF TypeOK
    <3>2. entities[e].token + 1 \in Nat
      BY <3>1, EntityFields
    <3> QED
      BY <3>1, <3>2, EntitySteps
  <2> QED
    BY <2>1, <2>2
<1>2. entityQueue' \in Queues
  BY DEF CleanEntityStorage, TypeOK, Queues
<1> QED
  BY <1>1, <1>2 DEF TypeOK, CleanEntityStorage, Queues

LEMMA SignalType ==
  ASSUME TypeOK, NEW e \in Entities,
         SignalEntity(e) \/ \E o \in Orchs : SignalFromOrchestration(o, e)
  PROVE  TypeOK'
<1>1. Accept(e, None) /\ UNCHANGED <<inFlight, lockRequests, batches, orch, inbox, executed,
                                     sections, abandons>>
  BY DEF SignalEntity, SignalFromOrchestration
<1> QED
  BY <1>1, AcceptType DEF TypeOK, Queues

LEMMA ContextFields ==
  ASSUME NEW ctx \in Context
  PROVE  /\ ctx.section \in Section \union {None} /\ ctx.waiting \in BOOLEAN
         /\ ctx.asked \in LockSets \union {<<>>} /\ ctx.locks \in Seq(Entities)
         /\ ctx.available \in Seq(Entities) /\ ctx.over \in BOOLEAN
  BY DEF Context

LEMMA ContextSteps ==
  ASSUME NEW ctx \in Context, NEW e \in Entities
  PROVE  /\ Lent(ctx, e) \in Context /\ Returned(ctx, e) \in Context
         /\ \A s : Acquired(ctx, s) \in Context
         /\ \A over \in BOOLEAN : Outside(over) \in Context
<1> DEFINE Locks == Seq(Entities)
<1>0. ctx.locks \in Locks /\ ctx.available \in Locks
  BY ContextFields
<1>1. RemoveFirst(ctx.locks, e) \in Locks /\ RemoveFirst(ctx.available, e) \in Locks
  BY <1>0, RemoveFirstType
<1>2. Append(ctx.locks, e) \in Locks /\ Append(ctx.available, e) \in Locks
  BY <1>0
<1>3. <<>> \in Locks
  OBVIOUS
<1> HIDE DEF Locks
<1>4. Context = [section : Section \union {None}, waiting : BOOLEAN,
                 asked : LockSets \union {<<>>}, locks : Locks, available : Locks,
                 over : BOOLEAN]
  BY DEF Context, Locks
<1>5. Lent(ctx, e) \in Context
  BY <1>0, <1>1, <1>4 DEF Lent
<1>6. Returned(ctx, e) \in Context
  BY <1>0, <1>2, <1>4 DEF Returned
<1>7. \A s : Acquired(ctx, s) \in Context
  BY <1>0, <1>4 DEF Acquired
<1>8. \A over \in BOOLEAN : Outside(over) \in Context
  BY <1>3, <1>4 DEF Outside
<1> QED
  BY <1>5, <1>6, <1>7, <1>8

LEMMA CallType ==
  ASSUME TypeOK, NEW o \in Orchs, NEW e \in Entities, CallEntity(o, e)
  PROVE  TypeOK'
<1>1. orch' \in [Orchs -> Context]
  BY ContextSteps DEF TypeOK, CallEntity
<1>2. Accept(e, o)
  BY DEF CallEntity
<1> QED
  BY <1>1, <1>2, AcceptType DEF TypeOK, CallEntity, Queues

LEMMA SeeEventType ==
  ASSUME TypeOK, NEW o \in Orchs, SeeEvent(o)
  PROVE  TypeOK'
<1>1. inbox[o] \in Seq(Inbox) /\ inbox[o] # <<>>
  BY DEF TypeOK, SeeEvent
<1>2. Head(inbox[o]) \in Inbox /\ Tail(inbox[o]) \in Seq(Inbox)
  BY <1>1
<1>3. Head(inbox[o]).kind # "granted" => Head(inbox[o]).entity \in Entities
  BY <1>2 DEF Inbox
<1>4. orch' \in [Orchs -> Context]
  <2>1. orch[o] \in Context /\ orch \in [Orchs -> Context]
    BY DEF TypeOK
  <2>2. \A s : Acquired(orch[o], s) \in Context
    <3>1. CASE Entities # {}
      BY <2>1, <3>1, ContextSteps
    <3>2. CASE Entities = {}
      BY <2>1, <3>2 DEF Acquired, Context
    <3> QED
      BY <3>1, <3>2
  <2>3. Head(inbox[o]).kind # "granted" =>
          Returned(orch[o], Head(inbox[o]).entity) \in Context
    BY <1>3, <2>1, ContextSteps
  <2> QED
    BY <2>1, <2>2, <2>3 DEF SeeEvent
<1>5. inbox' \in [Orchs -> Seq(Inbox)]
  BY <1>2 DEF TypeOK, SeeEvent
<1> QED
  BY <1>4, <1>5 DEF TypeOK, SeeEvent, backend

LEMMA RequestFields ==
  ASSUME NEW r \in LockRequest
  PROVE  /\ r.section \in Section /\ r.parent \in Orchs /\ r.lockSet \in LockSets
         /\ r.lockSet \in Seq(Entities) /\ r.lockSet # <<>>
  BY LockSetsAssumption DEF LockRequest

LEMMA LockedForType ==
  ASSUME NEW ents \in [Entities -> Entity], NEW granted, granted \subseteq LockRequest
  PROVE  LockedFor(ents, granted) \in [Entities -> Entity]
<1> SUFFICES ASSUME NEW e \in Entities, NEW r \in granted
             PROVE  [ents[e] EXCEPT !.exists = TRUE, !.lockedBy = Holder(r)] \in Entity
  BY DEF LockedFor
<1>1. r.section \in Section
  BY RequestFields
<1> QED
  BY <1>1 DEF Holder, Entity

LEMMA NotifiedType ==
  ASSUME TypeOK, NEW granted, granted \subseteq LockRequest
  PROVE  Notified(granted) \in [Orchs -> Seq(Inbox)]
<1> SUFFICES ASSUME NEW o \in Orchs, NEW r \in granted
             PROVE  Append(inbox[o], [kind |-> "granted", section |-> r.section])
                      \in Seq(Inbox)
  BY DEF Notified, TypeOK
<1>1. [kind |-> "granted", section |-> r.section] \in Inbox
  BY RequestFields DEF Inbox
<1> QED
  BY <1>1 DEF TypeOK

LEMMA RequestLockType ==
  ASSUME TypeOK, NEW o \in Orchs, NEW S \in LockSets, RequestLock(o, S)
  PROVE  TypeOK'
<1> DEFINE section == sections + 1
           request == [section |-> section, parent |-> o, lockSet |-> S]
<1>1. section \in Section /\ section \in Nat
  BY DEF RequestLock, TypeOK
<1>2. request \in LockRequest
  BY <1>1 DEF LockRequest
<1>3. orch' \in [Orchs -> Context]
  <2>1. S \in Seq(Entities)
    BY LockSetsAssumption
  <2>2. [section |-> section, waiting |-> TRUE, asked |-> S, locks |-> S,
         available |-> <<>>, over |-> FALSE] \in Context
    BY <1>1, <2>1 DEF Context
  <2> QED
    BY <2>2 DEF RequestLock, TypeOK
<1>4. sections' \in Nat
  BY <1>1 DEF RequestLock
<1> HIDE DEF request
<1>5. \/ /\ entities' = LockedFor(entities, {request})
         /\ inbox' = Notified({request}) /\ UNCHANGED lockRequests
      \/ /\ lockRequests' = lockRequests \union {request} /\ UNCHANGED <<entities, inbox>>
  BY DEF RequestLock, request
<1>6. {request} \subseteq LockRequest
  BY <1>2
<1>7. entities' \in [Entities -> Entity] /\ inbox' \in [Orchs -> Seq(Inbox)]
  <2>1. entities \in [Entities -> Entity] /\ inbox \in [Orchs -> Seq(Inbox)]
    BY DEF TypeOK
  <2>2. /\ LockedFor(entities, {request}) \in [Entities -> Entity]
        /\ Notified({request}) \in [Orchs -> Seq(Inbox)]
    BY <1>6, <2>1, LockedForType, NotifiedType
  <2> QED
    BY <1>5, <2>1, <2>2
<1>8. lockRequests' \subseteq LockRequest
  BY <1>2, <1>5 DEF TypeOK
<1> QED
  BY <1>3, <1>4, <1>7, <1>8 DEF TypeOK, RequestLock

LEMMA UnlockType ==
  ASSUME TypeOK, NEW o \in Orchs, NEW over \in BOOLEAN, Unlock(o, over)
  PROVE  /\ entities' \in [Entities -> Entity] /\ inbox' \in [Orchs -> Seq(Inbox)]
         /\ lockRequests' \subseteq LockRequest /\ orch' \in [Orchs -> Context]
<1> DEFINE freed == [e \in Entities |->
                       IF e \in ToSet(Unlocked(o)) /\ entities[e].lockedBy = orch[o].section
                       THEN [entities[e] EXCEPT !.lockedBy = None] ELSE entities[e]]
<1>1. PICK granted \in SUBSET lockRequests :
        /\ entities' = LockedFor(freed, granted) /\ inbox' = Notified(granted)
        /\ lockRequests' = lockRequests \ granted
        /\ orch' = [orch EXCEPT ![o] = Outside(over)]
  BY DEF Unlock
<1>2. granted \subseteq LockRequest
  BY DEF TypeOK
<1>3. freed \in [Entities -> Entity]
  <2> SUFFICES ASSUME NEW e \in Entities
               PROVE  [entities[e] EXCEPT !.lockedBy = None] \in Entity /\ entities[e] \in Entity
    OBVIOUS
  <2> QED
    BY EntitySteps DEF TypeOK
<1> HIDE DEF freed
<1>4. Outside(over) \in Context
  BY DEF Outside, Context
<1> QED
  BY <1>1, <1>2, <1>3, <1>4, LockedForType, NotifiedType DEF TypeOK

LEMMA LeaveType ==
  ASSUME TypeOK, NEW o \in Orchs, LeaveSection(o) \/ End(o)
  PROVE  TypeOK'
<1>1. CASE \E over \in BOOLEAN : Unlock(o, over) /\ UNCHANGED <<entityQueue, inFlight>>
  <2>1. /\ entities' \in [Entities -> Entity] /\ inbox' \in [Orchs -> Seq(Inbox)]
        /\ lockRequests' \subseteq LockRequest /\ orch' \in [Orchs -> Context]
    BY <1>1, UnlockType
  <2>2. UNCHANGED <<entityQueue, inFlight, batches, accepted, executed, sections, abandons>>
    BY <1>1 DEF LeaveSection, End
  <2> QED
    BY <2>1, <2>2 DEF TypeOK
<1>2. CASE orch' = [orch EXCEPT ![o] = Outside(TRUE)] /\ UNCHANGED <<backend, inbox>>
  <2>1. Outside(TRUE) \in Context
    BY DEF Outside, Context
  <2> QED
    BY <1>2, <2>1 DEF TypeOK, LeaveSection, End, backend
<1> QED
  BY <1>1, <1>2 DEF LeaveSection, End

LEMMA TypeStep ==
  ASSUME TypeOK, [Next]_vars
  PROVE  TypeOK'
<1>1. CASE UNCHANGED vars
  BY <1>1 DEF TypeOK, vars, backend
<1>2. CASE EntityStep
  BY <1>2, GetWorkItemsType, CleanType, SignalType, CompleteType, AbandonType DEF EntityStep
<1>3. CASE OrchestrationStep
  BY <1>3, SeeEventType, LeaveType, RequestLockType, SignalType, CallType
  DEF OrchestrationStep
<1> QED
  BY <1>1, <1>2, <1>3 DEF Next

LEMMA TypeInit == Init => TypeOK
<1> SUFFICES ASSUME Init PROVE TypeOK
  OBVIOUS
<1>1. NoEntity(1) \in Entity
  BY DEF NoEntity, Entity
<1>2. Outside(FALSE) \in Context
  BY DEF Outside, Context
<1>3. <<>> \in Seq(Entities) /\ <<>> \in Seq(Batch) /\ <<>> \in Seq(Inbox)
  OBVIOUS
<1>4. entities \in [Entities -> Entity] /\ orch \in [Orchs -> Context]
  BY <1>1, <1>2 DEF Init
<1>5. entityQueue \in [seq : Seq(Entities), set : SUBSET Entities]
  BY <1>3 DEF Init
<1>6. batches \in [Entities -> Seq(Batch)] /\ inbox \in [Orchs -> Seq(Inbox)]
  BY <1>3 DEF Init
<1>7. /\ inFlight \subseteq Entities /\ lockRequests \subseteq LockRequest
      /\ accepted \in [Entities -> Nat] /\ executed \in [Entities -> Nat]
      /\ sections \in Nat /\ abandons \in Nat
  BY DEF Init
<1> QED
  BY <1>4, <1>5, <1>6, <1>7 DEF TypeOK

(* The variables have their types: in particular an entity is only ever     *)
(* locked by a critical section or nobody, whichever requests an unlock     *)
(* grants, and the queue and what is in flight name entities.               *)
THEOREM TypeTheorem == Spec => []TypeOK
<1> QED
  BY TypeInit, TypeStep, PTL DEF Spec

-----------------------------------------------------------------------------
(* One batch at a time *)

(* An entity with a batch is in flight, whatever becomes of its operations. *)
Serial(e) == Len(batches[e]) <= 1 /\ (batches[e] # <<>> => e \in inFlight)

SerialInv == \A e \in Entities : Serial(e)

LEMMA LastBatch ==
  ASSUME TypeOK, NEW e \in Entities, Serial(e), NEW k \in 1..Len(batches[e])
  PROVE  Len(batches[e]) = 1 /\ k = 1 /\ RemoveAt(batches[e], k) = <<>>
<1>1. batches[e] \in Seq(Batch)
  BY DEF TypeOK
<1>2. Len(batches[e]) = 1 /\ k = 1
  <2>1. Len(batches[e]) \in Nat /\ Len(batches[e]) <= 1
    BY <1>1 DEF Serial
  <2>2. \A n \in Nat : \A i \in 1..n : n <= 1 => n = 1 /\ i = 1
    OBVIOUS
  <2> QED
    BY <2>1, <2>2
<1> QED
  BY <1>1, <1>2, RemoveAtType

LEMMA SerialStep ==
  ASSUME TypeOK, SerialInv, [Next]_vars
  PROVE  SerialInv'
<1> SUFFICES ASSUME NEW f \in Entities PROVE Serial(f)'
  BY DEF SerialInv
<1>0. Serial(f) /\ batches \in [Entities -> Seq(Batch)] /\ inFlight \subseteq Entities
  BY DEF SerialInv, TypeOK
<1>1. CASE UNCHANGED <<inFlight, batches>>
  BY <1>0, <1>1 DEF Serial
<1>2. CASE GetWorkItems
  <2>1. SUFFICES ASSUME ~UNCHANGED <<inFlight, batches>> PROVE Serial(f)'
    BY <1>1
  <2>2. PICK k \in 1..Len(entityQueue.seq) :
          LET e == entityQueue.seq[k]
          IN  /\ HasWork(k)
              /\ inFlight' = inFlight \union {e}
              /\ batches' = [batches EXCEPT ![e] =
                               Append(@, [token |-> entities[e].token,
                                          ops |-> entities[e].pending])]
    BY <1>2, <2>1 DEF GetWorkItems
  <2> DEFINE e == entityQueue.seq[k]
             batch == [token |-> entities[e].token, ops |-> entities[e].pending]
  <2>3. e \notin inFlight
    BY <2>2 DEF HasWork, Busy
  <2>4. CASE f = e
    <3>1. batches[f] = <<>>
      BY <1>0, <2>3, <2>4 DEF Serial
    <3>2. batches'[f] = Append(<<>>, batch)
      BY <1>0, <2>2, <2>4, <3>1
    <3>3. \A b : Len(Append(<<>>, b)) = 1
      OBVIOUS
    <3>4. Len(batches'[f]) = 1
      BY <3>2, <3>3
    <3>5. f \in inFlight'
      BY <2>2, <2>4
    <3> QED
      BY <3>4, <3>5 DEF Serial
  <2>5. CASE f # e
    BY <1>0, <2>2, <2>5 DEF Serial
  <2> QED
    BY <2>4, <2>5
<1>3. ASSUME NEW e \in Entities, NEW k \in 1..Len(batches[e]),
             batches' = [batches EXCEPT ![e] = RemoveAt(@, k)],
             inFlight' \in {inFlight, inFlight \ {e}}
      PROVE  Serial(f)'
  <2>1. Serial(e)
    BY DEF SerialInv
  <2>2. RemoveAt(batches[e], k) = <<>>
    BY <2>1, LastBatch
  <2> QED
    BY <1>0, <1>3, <2>2 DEF Serial
<1>4. ASSUME NEW e \in Entities, CompleteEntityTask(e) \/ AbandonTaskEntityWorkItem(e)
      PROVE  Serial(f)'
  <2>1. PICK k \in 1..Len(batches[e]) :
          /\ batches' = [batches EXCEPT ![e] = RemoveAt(@, k)]
          /\ inFlight' \in {inFlight, inFlight \ {e}}
    BY <1>4 DEF CompleteEntityTask, AbandonTaskEntityWorkItem, Commit
  <2> QED
    BY <1>3, <2>1
<1>5. CASE EntityStep
  <2>1. CASE CleanEntityStorage \/ \E e \in Entities : SignalEntity(e)
    BY <1>1, <2>1 DEF CleanEntityStorage, SignalEntity
  <2> QED
    BY <1>2, <1>4, <1>5, <2>1 DEF EntityStep
<1>6. CASE OrchestrationStep
  <2>1. UNCHANGED <<inFlight, batches>>
    BY <1>6 DEF OrchestrationStep, SeeEvent, LeaveSection, End, RequestLock,
                SignalFromOrchestration, CallEntity, backend
  <2> QED
    BY <1>1, <2>1
<1> QED
  BY <1>1, <1>5, <1>6 DEF Next, vars, backend

LEMMA SerialInit == Init => SerialInv
  BY DEF Init, SerialInv, Serial

(* An entity executes one batch at a time, even when the entity is cleaned  *)
(* away under its batch: it stays in flight until the batch is answered.    *)
THEOREM SerialTheorem == Spec => []SerialExecution
<1>1. Spec => [](TypeOK /\ SerialInv)
  BY TypeInit, TypeStep, SerialInit, SerialStep, PTL DEF Spec
<1>2. SerialInv => SerialExecution
  BY DEF SerialInv, Serial, SerialExecution
<1> QED
  BY <1>1, <1>2, PTL

-----------------------------------------------------------------------------
(* The order of operations *)

(* What is dispatched and pending of an entity, of which acc operations are *)
(* accepted and exe executed.                                               *)
Ordered(ent, acc, exe) ==
  LET waiting == ent.dispatched \o ent.pending
  IN  /\ acc = exe + Len(waiting)
      /\ \A k \in DOMAIN waiting : waiting[k].number = exe + k

LEMMA OrderedSteps ==
  ASSUME NEW ent \in Entity, NEW acc \in Nat, NEW exe \in Nat, Ordered(ent, acc, exe)
  PROVE  /\ \A c : Ordered(Receiving(ent, [number |-> acc + 1, caller |-> c]), acc + 1, exe)
         /\ ent.dispatched = <<>> => Ordered(Dispatching(ent), acc, exe)
         /\ \A empty \in BOOLEAN :
              Ordered(Executed(ent, empty), acc, exe + Len(ent.dispatched))
         /\ Ordered(Restored(ent), acc, exe)
<1> DEFINE D == ent.dispatched
           P == ent.pending
<1>1. D \in Seq(Operation) /\ P \in Seq(Operation)
  BY EntityFields
<1>2. /\ acc = exe + Len(D \o P)
      /\ \A k \in 1..Len(D \o P) : (D \o P)[k].number = exe + k
  <2>1. DOMAIN (D \o P) = 1..Len(D \o P)
    BY <1>1
  <2>2. /\ acc = exe + Len(D \o P)
        /\ \A k \in DOMAIN (D \o P) : (D \o P)[k].number = exe + k
    BY DEF Ordered
  <2> QED
    BY <2>1, <2>2
<1>3. ASSUME NEW c
      PROVE  Ordered(Receiving(ent, [number |-> acc + 1, caller |-> c]), acc + 1, exe)
  <2> DEFINE op == [number |-> acc + 1, caller |-> c]
             after == Receiving(ent, op)
  <2>1. after.dispatched = D /\ after.pending = Append(P, op)
    BY DEF Receiving, Entity
  <2>2. op.number = acc + 1
    OBVIOUS
  <2> HIDE DEF D, P, op, after
  <2>3. D \o Append(P, op) = Append(D \o P, op)
    BY <1>1
  <2>4. acc + 1 = exe + Len(Append(D \o P, op))
    BY <1>1, <1>2
  <2>5. ASSUME NEW k \in DOMAIN Append(D \o P, op)
        PROVE  Append(D \o P, op)[k].number = exe + k
    <3>1. CASE k = Len(D \o P) + 1
      BY <1>1, <1>2, <2>2, <3>1
    <3>2. CASE k # Len(D \o P) + 1
      <4>1. k \in 1..Len(D \o P)
        BY <1>1, <3>2
      <4>2. Append(D \o P, op)[k] = (D \o P)[k]
        BY <1>1, <4>1
      <4> QED
        BY <1>2, <4>1, <4>2
    <3> QED
      BY <3>1, <3>2
  <2> QED
    BY <2>1, <2>3, <2>4, <2>5 DEF Ordered, after, op
<1>4. ASSUME D = <<>> PROVE Ordered(Dispatching(ent), acc, exe)
  <2>1. Dispatching(ent).dispatched = P /\ Dispatching(ent).pending = <<>>
    BY DEF Dispatching, Entity
  <2>2. D \o P = P \o <<>>
    BY <1>1, <1>4
  <2> QED
    BY <1>1, <1>2, <2>1, <2>2 DEF Ordered
<1>5. ASSUME NEW empty \in BOOLEAN
      PROVE  Ordered(Executed(ent, empty), acc, exe + Len(D))
  <2>1. Executed(ent, empty).dispatched = <<>> /\ Executed(ent, empty).pending = P
    BY DEF Executed, Entity
  <2> HIDE DEF D, P
  <2>2. Len(D) \in Nat /\ Len(P) \in Nat /\ Len(D \o P) = Len(D) + Len(P)
    BY <1>1
  <2>3. acc = (exe + Len(D)) + Len(P)
    BY <1>2, <2>2
  <2>4. ASSUME NEW k \in 1..Len(P) PROVE P[k].number = exe + Len(D) + k
    <3>1. P[k] = (D \o P)[Len(D) + k] /\ Len(D) + k \in 1..Len(D \o P)
      BY <1>1, <2>2
    <3>2. (D \o P)[Len(D) + k].number = exe + (Len(D) + k)
      BY <1>2, <3>1
    <3> QED
      BY <2>2, <3>1, <3>2
  <2>5. <<>> \o P = P /\ DOMAIN P = 1..Len(P)
    BY <1>1
  <2> QED
    BY <2>1, <2>3, <2>4, <2>5 DEF Ordered
<1>6. Ordered(Restored(ent), acc, exe)
  <2>1. Restored(ent).dispatched = <<>> /\ Restored(ent).pending = D \o P
    BY DEF Restored, Entity
  <2>2. <<>> \o (D \o P) = D \o P /\ DOMAIN (D \o P) = 1..Len(D \o P)
    BY <1>1
  <2> QED
    BY <1>2, <2>1, <2>2 DEF Ordered
<1> QED
  BY <1>3, <1>4, <1>5, <1>6

-----------------------------------------------------------------------------
(* No operation lost, repeated or overtaken, and no entity forgotten        *)

(* A batch is that of what is dispatched, and an entity with operations     *)
(* exists.                                                                  *)
Engaged(e) ==
  /\ entities[e].pending # <<>> => entities[e].exists
  /\ batches[e] # <<>> =>
       /\ entities[e].exists /\ entities[e].token = batches[e][1].token
       /\ batches[e][1].ops = entities[e].dispatched
  /\ batches[e] = <<>> => e \notin inFlight /\ entities[e].dispatched = <<>>

Queued(e) == entities[e].pending # <<>> => e \in entityQueue.set \/ e \in inFlight

Work(e) == Engaged(e) /\ Ordered(entities[e], accepted[e], executed[e]) /\ Queued(e)

WorkInv == /\ entityQueue.set \subseteq ToSet(entityQueue.seq)
           /\ \A e \in Entities : Work(e)

LEMMA EnqueueAdds ==
  ASSUME NEW q \in Queues, NEW e \in Entities, q.set \subseteq ToSet(q.seq)
  PROVE  /\ Enqueue(q, e).set = q.set \union {e}
         /\ Enqueue(q, e).set \subseteq ToSet(Enqueue(q, e).seq)
<1>1. CASE e \in q.set
  BY <1>1 DEF Enqueue
<1>2. CASE e \notin q.set
  <2>1. Enqueue(q, e) = [seq |-> Append(q.seq, e), set |-> q.set \union {e}]
    BY <1>2 DEF Enqueue
  <2>2. q.seq \in Seq(Entities)
    BY DEF Queues
  <2>3. ToSet(q.seq) \union {e} \subseteq ToSet(Append(q.seq, e))
    <3>1. /\ DOMAIN Append(q.seq, e) = 1..(Len(q.seq) + 1)
          /\ Append(q.seq, e)[Len(q.seq) + 1] = e
          /\ \A i \in 1..Len(q.seq) : Append(q.seq, e)[i] = q.seq[i]
          /\ Len(q.seq) + 1 \in 1..(Len(q.seq) + 1)
      BY <2>2
    <3> QED
      BY <2>2, <3>1 DEF ToSet
  <2> QED
    BY <2>1, <2>3
<1> QED
  BY <1>1, <1>2

(* What is dropped from the queue is among its first k.                     *)
LEMMA PoppedDrops ==
  ASSUME NEW q \in Queues, NEW k \in 0..Len(q.seq), q.set \subseteq ToSet(q.seq)
  PROVE  /\ Popped(q, k).set \subseteq ToSet(Popped(q, k).seq)
         /\ \A e \in q.set \ Popped(q, k).set : \E j \in 1..k : q.seq[j] = e
<1>1. q.seq \in Seq(Entities) /\ k \in Nat /\ Len(q.seq) \in Nat /\ k <= Len(q.seq)
  BY DEF Queues
<1> DEFINE first == SubSeq(q.seq, 1, k)
           rest == SubSeq(q.seq, k + 1, Len(q.seq))
<1>2. /\ Len(first) = k /\ DOMAIN first = 1..k
      /\ \A j \in 1..k : first[j] = q.seq[j]
  BY <1>1
<1>3. /\ DOMAIN rest = 1..(Len(q.seq) - k)
      /\ \A j \in 1..(Len(q.seq) - k) : rest[j] = q.seq[k + j]
  BY <1>1
<1> HIDE DEF first, rest
<1>4. Popped(q, k).set = q.set \ ToSet(first) /\ Popped(q, k).seq = rest
  BY DEF Popped, first, rest
<1>5. ASSUME NEW e \in q.set, e \notin ToSet(first) PROVE e \in ToSet(rest)
  <2>1. PICK j \in 1..Len(q.seq) : q.seq[j] = e
    BY <1>1 DEF ToSet
  <2>2. j > k
    BY <1>1, <1>2, <1>5, <2>1 DEF ToSet
  <2>3. j - k \in 1..(Len(q.seq) - k) /\ q.seq[k + (j - k)] = e
    BY <1>1, <2>1, <2>2
  <2> QED
    BY <1>3, <2>3 DEF ToSet
<1>6. ASSUME NEW e \in ToSet(first) PROVE \E j \in 1..k : q.seq[j] = e
  BY <1>2, <1>6 DEF ToSet
<1> QED
  BY <1>4, <1>5, <1>6

(* Nothing about the operations changes but that an operation is accepted.  *)
LEMMA AcceptKeepsWork ==
  ASSUME TypeOK, SerialInv, WorkInv, NEW e \in Entities, NEW caller \in Orchs \union {None},
         Accept(e, caller), UNCHANGED <<inFlight, batches, executed>>
  PROVE  WorkInv'
<1>1. /\ entities \in [Entities -> Entity] /\ entityQueue \in Queues
      /\ accepted \in [Entities -> Nat] /\ executed \in [Entities -> Nat]
  BY DEF TypeOK, Queues
<1> DEFINE op == [number |-> accepted[e] + 1, caller |-> caller]
<1>2. /\ entities' = [entities EXCEPT ![e] = Receiving(@, op)]
      /\ accepted' = [accepted EXCEPT ![e] = @ + 1]
      /\ entityQueue' = Enqueue(entityQueue, e)
  BY DEF Accept
<1>3. /\ entityQueue'.set = entityQueue.set \union {e}
      /\ entityQueue'.set \subseteq ToSet(entityQueue'.seq)
  BY <1>1, <1>2, EnqueueAdds DEF WorkInv
<1>4. ASSUME NEW f \in Entities PROVE Work(f)'
  <2>1. Work(f)
    BY DEF WorkInv
  <2>2. CASE f = e
    <3>1. entities'[f] = Receiving(entities[f], op) /\ accepted'[f] = accepted[f] + 1
      BY <1>1, <1>2, <2>2
    <3>2. /\ entities'[f].exists /\ entities'[f].token = entities[f].token
          /\ entities'[f].dispatched = entities[f].dispatched
      BY <1>1, <3>1 DEF Receiving, Entity
    <3>3. Engaged(f)'
      BY <2>1, <3>2 DEF Work, Engaged
    <3>4. Ordered(entities'[f], accepted'[f], executed'[f])
      BY <1>1, <2>1, <2>2, <3>1, OrderedSteps DEF Work
    <3> QED
      BY <1>3, <2>2, <3>3, <3>4 DEF Work, Queued
  <2>3. CASE f # e
    <3>1. entities'[f] = entities[f] /\ accepted'[f] = accepted[f] /\ executed'[f] = executed[f]
      BY <1>1, <1>2, <2>3
    <3> QED
      BY <1>3, <2>1, <3>1 DEF Work, Engaged, Queued
  <2> QED
    BY <2>2, <2>3
<1> QED
  BY <1>3, <1>4 DEF WorkInv

LEMMA GetWorkItemsKeepsWork ==
  ASSUME TypeOK, SerialInv, WorkInv, GetWorkItems
  PROVE  WorkInv'
<1>1. /\ entities \in [Entities -> Entity] /\ entityQueue \in Queues
      /\ batches \in [Entities -> Seq(Batch)]
      /\ entityQueue.seq \in Seq(Entities) /\ UNCHANGED <<accepted, executed>>
  BY DEF TypeOK, Queues, GetWorkItems
<1>2. ASSUME NEW k \in 0..Len(entityQueue.seq), NEW f \in Entities,
             entityQueue' = Popped(entityQueue, k),
             \A j \in 1..k : entityQueue.seq[j] = f => ~HasWork(j),
             f \in inFlight => f \in inFlight',
             entities'[f] = entities[f]
      PROVE  Queued(f)'
  <2>1. Queued(f)
    BY DEF WorkInv, Work
  <2>2. ASSUME entities[f].pending # <<>>, f \in entityQueue.set, f \notin entityQueue'.set
        PROVE  f \in inFlight
    <3>1. PICK j \in 1..k : entityQueue.seq[j] = f
      BY <1>1, <1>2, <2>2, PoppedDrops DEF WorkInv
    <3> QED
      BY <1>2, <2>2, <3>1 DEF HasWork, Busy
  <2> QED
    BY <1>2, <2>1, <2>2 DEF Queued
<1>3. ASSUME NEW k \in 0..Len(entityQueue.seq), entityQueue' = Popped(entityQueue, k)
      PROVE  entityQueue'.set \subseteq ToSet(entityQueue'.seq)
  BY <1>1, <1>3, PoppedDrops DEF WorkInv
<1>4. CASE /\ \A k \in 1..Len(entityQueue.seq) : ~HasWork(k)
           /\ entityQueue' = Popped(entityQueue, Len(entityQueue.seq))
           /\ UNCHANGED <<entities, inFlight, batches>>
  <2>1. Len(entityQueue.seq) \in 0..Len(entityQueue.seq)
    BY <1>1
  <2>2. ASSUME NEW f \in Entities PROVE Work(f)'
    <3>1. Queued(f)'
      BY <1>2, <1>4, <2>1
    <3>2. Work(f)
      BY DEF WorkInv
    <3> QED
      BY <1>1, <1>4, <3>1, <3>2 DEF Work, Engaged
  <2> QED
    BY <1>3, <1>4, <2>1, <2>2 DEF WorkInv
<1>5. ASSUME NEW k \in 1..Len(entityQueue.seq), NEW e, e = entityQueue.seq[k],
             HasWork(k), \A j \in 1..(k - 1) : ~HasWork(j),
             entityQueue' = Popped(entityQueue, k),
             entities' = [entities EXCEPT ![e] = Dispatching(@)],
             inFlight' = inFlight \union {e},
             batches' = [batches EXCEPT ![e] = Append(@, [token |-> entities[e].token,
                                                         ops |-> entities[e].pending])]
      PROVE  WorkInv'
  <2>1. e \in Entities /\ entities[e].pending # <<>> /\ e \notin inFlight
    BY <1>1, <1>5 DEF HasWork, Busy
  <2>2. k \in 0..Len(entityQueue.seq) /\ \A j \in 1..k : j # k => j \in 1..(k - 1)
    BY <1>1
  <2>3. ASSUME NEW f \in Entities PROVE Work(f)'
    <3>1. Work(f)
      BY DEF WorkInv
    <3>2. CASE f = e
      <4>1. /\ entities'[f] = Dispatching(entities[f]) /\ entities[f] \in Entity
            /\ batches'[f] = Append(batches[f], [token |-> entities[f].token,
                                                 ops |-> entities[f].pending])
        BY <1>1, <1>5, <3>2
      <4>2. /\ entities'[f].exists = entities[f].exists
            /\ entities'[f].token = entities[f].token
            /\ entities'[f].dispatched = entities[f].pending
            /\ entities'[f].pending = <<>>
        BY <4>1 DEF Dispatching, Entity
      <4>3. entities[f].exists /\ batches[f] = <<>> /\ entities[f].dispatched = <<>>
        BY <2>1, <3>1, <3>2 DEF Work, Engaged, SerialInv, Serial
      <4>4. /\ batches'[f] # <<>> /\ batches'[f][1].token = entities[f].token
            /\ batches'[f][1].ops = entities[f].pending
        BY <4>1, <4>3
      <4>5. Engaged(f)'
        BY <4>2, <4>3, <4>4 DEF Engaged
      <4>6. Ordered(entities'[f], accepted'[f], executed'[f])
        <5>1. Ordered(entities[f], accepted[f], executed[f])
              /\ accepted[f] \in Nat /\ executed[f] \in Nat
          BY <3>1 DEF Work, TypeOK
        <5> QED
          BY <1>1, <4>1, <4>3, <5>1, OrderedSteps
      <4> QED
        BY <4>2, <4>5, <4>6 DEF Work, Queued
    <3>3. CASE f # e
      <4>1. entities'[f] = entities[f] /\ batches'[f] = batches[f]
            /\ (f \in inFlight' <=> f \in inFlight)
        BY <1>1, <1>5, <3>3
      <4>2. \A j \in 1..k : entityQueue.seq[j] = f => ~HasWork(j)
        BY <1>5, <2>2, <3>3
      <4>3. Queued(f)'
        BY <1>2, <1>5, <2>2, <4>1, <4>2
      <4> QED
        BY <1>1, <3>1, <4>1, <4>3 DEF Work, Engaged
    <3> QED
      BY <3>2, <3>3
  <2> QED
    BY <1>3, <1>5, <2>2, <2>3 DEF WorkInv
<1> QED
  BY <1>4, <1>5 DEF GetWorkItems

(* An answer that counts: e is done with its batch, and t, if any, has a    *)
(* new operation.  What that makes of entity f:                             *)
Effect(f, e, ops, empty, t) ==
  LET ent == IF f = e THEN Executed(entities[f], empty) ELSE entities[f]
  IN  /\ entities'[f] =
           IF f = t
           THEN Receiving(ent, [number |-> accepted[f] + 1, caller |-> None])
           ELSE ent
      /\ accepted'[f] = IF f = t THEN accepted[f] + 1 ELSE accepted[f]
      /\ executed'[f] = IF f = e THEN executed[f] + Len(ops) ELSE executed[f]

LEMMA CommitEffect ==
  ASSUME TypeOK, WorkInv, NEW e \in Entities, NEW ops \in Seq(Operation),
         NEW empty \in BOOLEAN, NEW t \in Entities \union {None}, Commit(e, ops, empty, t)
  PROVE  /\ \A f \in Entities : Effect(f, e, ops, empty, t)
         /\ entityQueue.set \subseteq entityQueue'.set
         /\ entityQueue'.set \subseteq ToSet(entityQueue'.seq)
         /\ t # None => t \in entityQueue'.set
         /\ entities'[e].pending # <<>> => e \in entityQueue'.set
<1> DEFINE signal == [number |-> accepted[t] + 1, caller |-> None]
           after == [entities EXCEPT ![e] = Executed(@, empty)]
           q == IF t = None THEN entityQueue ELSE Enqueue(entityQueue, t)
<1>1. /\ entities \in [Entities -> Entity] /\ entityQueue \in Queues
      /\ accepted \in [Entities -> Nat] /\ executed \in [Entities -> Nat]
      /\ None \notin Entities
  BY NoneAssumption DEF TypeOK, Queues
<1>2. /\ entities' = IF t = None THEN after ELSE [after EXCEPT ![t] = Receiving(@, signal)]
      /\ accepted' = IF t = None THEN accepted ELSE [accepted EXCEPT ![t] = @ + 1]
      /\ executed' = [executed EXCEPT ![e] = @ + Len(ops)]
      /\ entityQueue' = Requeued(q, e, entities'[e].pending # <<>>)
  BY DEF Commit
<1>3. after \in [Entities -> Entity]
  BY <1>1, EntitySteps
<1>4. \A f \in Entities : after[f] = IF f = e THEN Executed(entities[f], empty)
                                     ELSE entities[f]
  BY <1>1
<1>5. /\ q \in Queues /\ entityQueue.set \subseteq q.set /\ q.set \subseteq ToSet(q.seq)
      /\ t # None => t \in q.set
  BY <1>1, EnqueueType, EnqueueAdds DEF WorkInv
<1> HIDE DEF after, q, signal
<1>7. /\ q.set \subseteq entityQueue'.set
      /\ entityQueue'.set \subseteq ToSet(entityQueue'.seq)
      /\ entities'[e].pending # <<>> => e \in entityQueue'.set
  BY <1>2, <1>5, EnqueueAdds DEF Requeued
<1>8. ASSUME NEW f \in Entities
      PROVE  /\ entities'[f] = IF f = t THEN Receiving(after[f], signal) ELSE after[f]
             /\ accepted'[f] = IF f = t THEN accepted[f] + 1 ELSE accepted[f]
             /\ executed'[f] = IF f = e THEN executed[f] + Len(ops) ELSE executed[f]
  BY <1>1, <1>2, <1>3
<1> QED
  BY <1>4, <1>5, <1>7, <1>8 DEF signal, Effect

LEMMA CompleteKeepsWork ==
  ASSUME TypeOK, SerialInv, WorkInv, NEW e \in Entities, CompleteEntityTask(e)
  PROVE  WorkInv'
<1>1. PICK k \in 1..Len(batches[e]), empty \in BOOLEAN, t \in Entities \union {None} :
        /\ batches' = [batches EXCEPT ![e] = RemoveAt(@, k)]
        /\ IF IsCurrent(e, k) THEN Commit(e, batches[e][k].ops, empty, t)
           ELSE UNCHANGED <<entities, accepted, inFlight, inbox, executed, entityQueue>>
  BY DEF CompleteEntityTask
<1>2. /\ entities \in [Entities -> Entity] /\ batches \in [Entities -> Seq(Batch)]
      /\ accepted \in [Entities -> Nat] /\ executed \in [Entities -> Nat]
  BY DEF TypeOK
<1>3. k = 1 /\ Len(batches[e]) = 1 /\ RemoveAt(batches[e], k) = <<>>
  BY LastBatch DEF SerialInv
<1>4. batches[e] # <<>> /\ Work(e)
  <2>1. batches[e] # <<>>
    BY <1>3
  <2>2. Work(e)
    BY DEF WorkInv
  <2> QED
    BY <2>1, <2>2
<1>5. IsCurrent(e, k) /\ batches[e][k].ops = entities[e].dispatched
  BY <1>3, <1>4 DEF Work, Engaged, IsCurrent
<1> DEFINE ops == batches[e][k].ops
<1>6. ops \in Seq(Operation) /\ Commit(e, ops, empty, t)
  BY <1>1, <1>5, BatchType
<1> HIDE DEF ops
<1>7. inFlight' = inFlight \ {e}
  BY <1>6 DEF Commit
<1>10. \A f \in Entities : Effect(f, e, ops, empty, t)
  BY <1>6, CommitEffect
<1>8. ASSUME NEW f \in Entities PROVE Work(f)'
  <2> DEFINE ent == IF f = e THEN Executed(entities[f], empty) ELSE entities[f]
             exe == IF f = e THEN executed[f] + Len(ops) ELSE executed[f]
  <2>1. Work(f) /\ accepted[f] \in Nat /\ executed[f] \in Nat /\ entities[f] \in Entity
    BY <1>2 DEF WorkInv
  <2>2. /\ entities'[f] = IF f = t
                          THEN Receiving(ent, [number |-> accepted[f] + 1, caller |-> None])
                          ELSE ent
        /\ accepted'[f] = IF f = t THEN accepted[f] + 1 ELSE accepted[f]
        /\ executed'[f] = exe
    BY <1>10 DEF Effect
  <2>3. ent \in Entity /\ exe \in Nat
    <3>1. Len(ops) \in Nat
      BY <1>6
    <3>2. Executed(entities[f], empty) \in Entity
      BY <2>1, EntitySteps
    <3> QED
      BY <2>1, <3>1, <3>2
  <2>4. Ordered(ent, accepted[f], exe)
    <3>1. Ordered(entities[f], accepted[f], executed[f])
      BY <2>1 DEF Work
    <3>2. f = e => Ordered(Executed(entities[f], empty), accepted[f],
                           executed[f] + Len(entities[f].dispatched))
      BY <2>1, <3>1, OrderedSteps
    <3> QED
      BY <1>5, <3>1, <3>2 DEF ops
  <2>5. Ordered(entities'[f], accepted'[f], executed'[f])
    BY <2>1, <2>2, <2>3, <2>4, OrderedSteps
  <2>6. /\ batches'[f] = IF f = e THEN <<>> ELSE batches[f]
        /\ f \in inFlight' <=> f \in inFlight /\ f # e
    BY <1>1, <1>2, <1>3, <1>7
  <2>7. /\ ent.exists = entities[f].exists /\ ent.pending = entities[f].pending
        /\ f # e => ent = entities[f]
        /\ f = e => ent.dispatched = <<>>
    BY <2>1 DEF Executed, Entity
  <2> HIDE DEF ent
  <2>8. /\ f = t => entities'[f].exists
        /\ entities'[f].dispatched = ent.dispatched /\ entities'[f].token = ent.token
        /\ f # t => entities'[f] = ent
    BY <2>2, <2>3 DEF Receiving, Entity
  <2>9. Engaged(f)'
    BY <2>1, <2>6, <2>7, <2>8 DEF Work, Engaged
  <2>10. Queued(f)'
    <3>1. /\ entityQueue.set \subseteq entityQueue'.set
          /\ t # None => t \in entityQueue'.set
          /\ entities'[e].pending # <<>> => e \in entityQueue'.set
      BY <1>6, CommitEffect
    <3>2. f # e /\ f # t => entities'[f].pending = entities[f].pending
      BY <2>7, <2>8
    <3>3. f # None
      BY NoneAssumption
    <3> QED
      BY <2>1, <2>6, <3>1, <3>2, <3>3 DEF Work, Queued
  <2> QED
    BY <2>5, <2>9, <2>10 DEF Work
<1>9. entityQueue'.set \subseteq ToSet(entityQueue'.seq)
  BY <1>6, CommitEffect
<1> QED
  BY <1>8, <1>9 DEF WorkInv

LEMMA AbandonKeepsWork ==
  ASSUME TypeOK, SerialInv, WorkInv, NEW e \in Entities, AbandonTaskEntityWorkItem(e)
  PROVE  WorkInv'
<1>1. PICK k \in 1..Len(batches[e]) :
        /\ batches' = [batches EXCEPT ![e] = RemoveAt(@, k)]
        /\ IF IsCurrent(e, k)
           THEN /\ entities' = [entities EXCEPT ![e] = Restored(entities[e])]
                /\ inFlight' = inFlight \ {e}
                /\ entityQueue' = Enqueue(entityQueue, e)
           ELSE UNCHANGED <<entities, inFlight, entityQueue>>
        /\ UNCHANGED <<accepted, executed>>
  BY DEF AbandonTaskEntityWorkItem
<1>2. /\ entities \in [Entities -> Entity] /\ batches \in [Entities -> Seq(Batch)]
      /\ entityQueue \in Queues
      /\ accepted \in [Entities -> Nat] /\ executed \in [Entities -> Nat]
  BY DEF TypeOK, Queues
<1>3. k = 1 /\ Len(batches[e]) = 1 /\ RemoveAt(batches[e], k) = <<>>
  BY LastBatch DEF SerialInv
<1>4. batches[e] # <<>> /\ Work(e)
  <2>1. batches[e] # <<>>
    BY <1>3
  <2>2. Work(e)
    BY DEF WorkInv
  <2> QED
    BY <2>1, <2>2
<1>5. IsCurrent(e, k)
  BY <1>3, <1>4 DEF Work, Engaged, IsCurrent
<1>6. /\ entityQueue'.set = entityQueue.set \union {e}
      /\ entityQueue'.set \subseteq ToSet(entityQueue'.seq)
  BY <1>1, <1>2, <1>5, EnqueueAdds DEF WorkInv
<1>7. ASSUME NEW f \in Entities PROVE Work(f)'
  <2>1. Work(f)
    BY DEF WorkInv
  <2>2. CASE f = e
    <3>1. entities'[f] = Restored(entities[f]) /\ batches'[f] = <<>> /\ f \notin inFlight'
      BY <1>1, <1>2, <1>3, <1>5, <2>2
    <3>2. entities'[f].exists = entities[f].exists /\ entities'[f].dispatched = <<>>
      BY <1>2, <3>1 DEF Restored, Entity
    <3>3. Engaged(f)'
      BY <1>4, <2>2, <3>1, <3>2 DEF Work, Engaged
    <3>4. Ordered(entities'[f], accepted'[f], executed'[f])
      BY <1>1, <1>2, <2>1, <3>1, OrderedSteps DEF Work
    <3> QED
      BY <1>6, <2>2, <3>3, <3>4 DEF Work, Queued
  <2>3. CASE f # e
    <3>1. entities'[f] = entities[f] /\ batches'[f] = batches[f]
          /\ (f \in inFlight' <=> f \in inFlight)
      BY <1>1, <1>2, <1>5, <2>3
    <3> QED
      BY <1>1, <1>6, <2>1, <3>1 DEF Work, Engaged, Queued
  <2> QED
    BY <2>2, <2>3
<1> QED
  BY <1>6, <1>7 DEF WorkInv

(* Locks do not touch the operations. *)
LEMMA LocksKeepWork ==
  ASSUME TypeOK, WorkInv, UNCHANGED <<entityQueue, inFlight, batches, accepted, executed>>,
         \A e \in Entities :
           /\ entities[e].exists => entities'[e].exists
           /\ entities'[e].pending = entities[e].pending
           /\ entities'[e].dispatched = entities[e].dispatched
           /\ entities'[e].token = entities[e].token
  PROVE  WorkInv'
<1>1. ASSUME NEW f \in Entities PROVE Work(f)'
  <2>1. Work(f)
    BY DEF WorkInv
  <2> QED
    BY <2>1 DEF Work, Engaged, Ordered, Queued
<1> QED
  BY <1>1 DEF WorkInv

LEMMA LockedForOperations ==
  ASSUME NEW ents \in [Entities -> Entity], NEW granted, NEW e \in Entities
  PROVE  LET after == LockedFor(ents, granted)[e]
         IN  /\ ents[e].exists => after.exists
             /\ after.pending = ents[e].pending /\ after.dispatched = ents[e].dispatched
             /\ after.token = ents[e].token
<1>1. ents[e] \in Entity
  OBVIOUS
<1>2. \/ LockedFor(ents, granted)[e] = ents[e]
      \/ \E h : LockedFor(ents, granted)[e] = [ents[e] EXCEPT !.exists = TRUE, !.lockedBy = h]
  BY DEF LockedFor
<1> QED
  BY <1>1, <1>2 DEF Entity

LEMMA WorkStep ==
  ASSUME TypeOK, SerialInv, WorkInv, [Next]_vars, "removeEmptyEntities" \notin Cleaning
  PROVE  WorkInv'
<1>1. entities \in [Entities -> Entity]
  BY DEF TypeOK
<1>2. CASE UNCHANGED <<entities, entityQueue, inFlight, batches, accepted, executed>>
  BY <1>2, LocksKeepWork
<1>3. CASE CleanEntityStorage
  <2>1. /\ entities' = [e \in Entities |->
             IF "releaseOrphanedLocks" \in Cleaning
             THEN [entities[e] EXCEPT !.lockedBy = None] ELSE entities[e]]
        /\ entityQueue' = [entityQueue EXCEPT !.set = @ \ {}]
        /\ UNCHANGED <<inFlight, batches, accepted, executed>>
    BY <1>3 DEF CleanEntityStorage
  <2>2. entityQueue' = entityQueue
    BY <2>1 DEF TypeOK
  <2>3. \A e \in Entities : entities[e] \in Entity
    BY <1>1
  <2>4. ASSUME NEW e \in Entities
        PROVE  /\ entities[e].exists => entities'[e].exists
               /\ entities'[e].pending = entities[e].pending
               /\ entities'[e].dispatched = entities[e].dispatched
               /\ entities'[e].token = entities[e].token
    BY <2>1, <2>3 DEF Entity
  <2> QED
    BY <2>1, <2>2, <2>4, LocksKeepWork
<1>4. CASE \E o \in Orchs, over \in BOOLEAN :
             Unlock(o, over)
             /\ UNCHANGED <<entityQueue, inFlight, batches, accepted, executed>>
  <2>1. PICK o \in Orchs, over \in BOOLEAN : Unlock(o, over)
    BY <1>4
  <2> DEFINE freed == [e \in Entities |->
                         IF e \in ToSet(Unlocked(o))
                            /\ entities[e].lockedBy = orch[o].section
                         THEN [entities[e] EXCEPT !.lockedBy = None] ELSE entities[e]]
  <2>2. PICK granted : entities' = LockedFor(freed, granted)
    BY <2>1 DEF Unlock
  <2>3. \A e \in Entities :
          /\ freed[e] \in Entity
          /\ freed[e].exists = entities[e].exists /\ freed[e].pending = entities[e].pending
          /\ freed[e].dispatched = entities[e].dispatched
          /\ freed[e].token = entities[e].token
    <3>1. \A e \in Entities : entities[e] \in Entity
      BY <1>1
    <3>2. \A e \in Entities : freed[e] \in {entities[e], [entities[e] EXCEPT !.lockedBy = None]}
      OBVIOUS
    <3> HIDE DEF freed
    <3>3. \A e \in Entities : [entities[e] EXCEPT !.lockedBy = None] \in Entity
      BY <3>1, EntitySteps
    <3> QED
      BY <3>1, <3>2, <3>3 DEF Entity
  <2>4. freed \in [Entities -> Entity]
    BY <2>3
  <2> HIDE DEF freed
  <2>5. \A e \in Entities : /\ entities[e].exists => entities'[e].exists
                            /\ entities'[e].pending = entities[e].pending
                            /\ entities'[e].dispatched = entities[e].dispatched
                            /\ entities'[e].token = entities[e].token
    BY <2>2, <2>3, <2>4, LockedForOperations
  <2> QED
    BY <1>4, <2>5, LocksKeepWork
<1>5. ASSUME NEW o \in Orchs, NEW S \in LockSets, RequestLock(o, S)
      PROVE  WorkInv'
  <2>1. /\ \/ entities' = entities
           \/ \E granted : entities' = LockedFor(entities, granted)
        /\ UNCHANGED <<entityQueue, inFlight, batches, accepted, executed>>
    BY <1>5 DEF RequestLock
  <2> QED
    BY <1>1, <2>1, LockedForOperations, LocksKeepWork
<1>6. ASSUME NEW o \in Orchs, LeaveSection(o) \/ End(o)
      PROVE  WorkInv'
  BY <1>2, <1>4, <1>6 DEF LeaveSection, End, backend
<1>7. ASSUME NEW o \in Orchs, SeeEvent(o)
      PROVE  WorkInv'
  BY <1>2, <1>7 DEF SeeEvent, backend
<1>8. ASSUME NEW e \in Entities, NEW o \in Orchs \union {None}, Accept(e, o),
             UNCHANGED <<inFlight, batches, executed>>
      PROVE  WorkInv'
  BY <1>8, AcceptKeepsWork
<1>9. CASE EntityStep
  <2>1. ASSUME NEW e \in Entities, SignalEntity(e) PROVE WorkInv'
    BY <1>8, <2>1 DEF SignalEntity
  <2> QED
    BY <1>3, <1>9, <2>1, GetWorkItemsKeepsWork, CompleteKeepsWork, AbandonKeepsWork
    DEF EntityStep
<1>10. CASE OrchestrationStep
  <2>1. ASSUME NEW o \in Orchs, NEW e \in Entities,
               SignalFromOrchestration(o, e) \/ CallEntity(o, e)
        PROVE  WorkInv'
    BY <1>8, <2>1 DEF SignalFromOrchestration, CallEntity
  <2> QED
    BY <1>5, <1>6, <1>7, <1>10, <2>1 DEF OrchestrationStep
<1>11. CASE UNCHANGED vars
  BY <1>2, <1>11 DEF vars, backend
<1> QED
  BY <1>9, <1>10, <1>11 DEF Next

LEMMA WorkInit == Init => WorkInv
<1> SUFFICES ASSUME Init PROVE WorkInv
  OBVIOUS
<1>1. ASSUME NEW e \in Entities PROVE Work(e)
  <2>1. /\ entities[e] = NoEntity(1) /\ batches[e] = <<>> /\ e \notin inFlight
        /\ accepted[e] = 0 /\ executed[e] = 0
    BY DEF Init
  <2>2. entities[e].pending = <<>> /\ entities[e].dispatched = <<>>
    BY <2>1 DEF NoEntity
  <2>3. /\ entities[e].dispatched \o entities[e].pending = <<>>
        /\ Len(<<>>) = 0 /\ DOMAIN <<>> = {}
    BY <2>2
  <2> DEFINE waiting == entities[e].dispatched \o entities[e].pending
  <2>5. 0 = 0 + Len(waiting) /\ \A k \in DOMAIN waiting : waiting[k].number = 0 + k
    BY <2>3
  <2>4. Ordered(entities[e], accepted[e], executed[e])
    BY <2>1, <2>5 DEF Ordered
  <2> QED
    BY <2>1, <2>2, <2>4 DEF Work, Engaged, Queued
<1>2. entityQueue.set \subseteq ToSet(entityQueue.seq)
  BY DEF Init
<1> QED
  BY <1>1, <1>2 DEF WorkInv

LEMMA WorkTheorem ==
  ASSUME "removeEmptyEntities" \notin Cleaning
  PROVE  Spec => [](TypeOK /\ SerialInv /\ WorkInv)
<1>1. Init => TypeOK /\ SerialInv /\ WorkInv
  BY TypeInit, SerialInit, WorkInit
<1>2. TypeOK /\ SerialInv /\ WorkInv /\ [Next]_vars => (TypeOK /\ SerialInv /\ WorkInv)'
  BY TypeStep, SerialStep, WorkStep
<1> QED
  BY <1>1, <1>2, PTL DEF Spec

(* As long as empty entities are not cleaned away, no operation of an       *)
(* entity is lost, repeated or overtaken, and an answer that counts is that *)
(* of the operations dispatched last.                                       *)
THEOREM OrderTheorem ==
  ASSUME "removeEmptyEntities" \notin Cleaning
  PROVE  Spec => []OperationsInOrder
<1>1. TypeOK /\ SerialInv /\ WorkInv => OperationsInOrder
  <2> SUFFICES ASSUME TypeOK, SerialInv, WorkInv, NEW e \in Entities
               PROVE  /\ Ordered(entities[e], accepted[e], executed[e])
                      /\ \A k \in DOMAIN batches[e] :
                           IsCurrent(e, k) => batches[e][k].ops = entities[e].dispatched
    BY DEF OperationsInOrder, Ordered
  <2>1. Work(e) /\ Serial(e)
    BY DEF WorkInv, SerialInv
  <2>2. ASSUME NEW k \in DOMAIN batches[e] PROVE batches[e][k].ops = entities[e].dispatched
    <3>1. k \in 1..Len(batches[e])
      BY DEF TypeOK
    <3>2. k = 1 /\ Len(batches[e]) = 1
      BY <2>1, <3>1, LastBatch
    <3> QED
      BY <2>1, <3>2 DEF Work, Engaged
  <2> QED
    BY <2>1, <2>2 DEF Work
<1> QED
  BY <1>1, WorkTheorem, PTL

(* As long as empty entities are not cleaned away, an entity with           *)
(* operations to execute is in the queue, or a worker holds its current     *)
(* batch and will put it back there.                                        *)
THEOREM ForgottenTheorem ==
  ASSUME "removeEmptyEntities" \notin Cleaning
  PROVE  Spec => []NoEntityForgotten
<1>1. TypeOK /\ SerialInv /\ WorkInv => NoEntityForgotten
  <2> SUFFICES ASSUME TypeOK, SerialInv, WorkInv, NEW e \in Entities,
                      entities[e].pending # <<>>,
                      ~(e \in entityQueue.set /\ e \in ToSet(entityQueue.seq))
               PROVE  e \in inFlight /\ \E k \in DOMAIN batches[e] : IsCurrent(e, k)
    BY DEF NoEntityForgotten
  <2>1. Work(e) /\ e \in inFlight
    BY DEF WorkInv, Work, Queued
  <2>2. batches[e] # <<>> /\ batches[e] \in Seq(Batch)
    BY <2>1 DEF Work, Engaged, TypeOK
  <2>3. 1 \in DOMAIN batches[e]
    BY <2>2
  <2> QED
    BY <2>1, <2>2, <2>3 DEF Work, Engaged, IsCurrent
<1> QED
  BY <1>1, WorkTheorem, PTL

-----------------------------------------------------------------------------
(* Locks: critical sections that are open at the same time share no entity,  *)
(* and nobody leaves a lock behind.  First the invariant.                    *)

(* The critical sections whose grant an orchestration has not seen yet. *)
GrantedTo(o) ==
  {s \in Section : \E i \in DOMAIN inbox[o] :
                     inbox[o][i] = [kind |-> "granted", section |-> s]}

(* The entities asked for are locked for the critical section. *)
Holds(o) == \A e \in ToSet(orch[o].asked) : entities[e].lockedBy = orch[o].section

Distinct ==
  \A o, p \in Orchs : o # p /\ orch[o].section = orch[p].section => orch[o].section = None

Numbered ==
  /\ \A o \in Orchs : orch[o].section # None => orch[o].section <= sections
  /\ \A r \in lockRequests : r.section <= sections
  /\ \A o \in Orchs : \A s \in GrantedTo(o) : s <= sections

(* A waiting request is that of its parent, unless that has gone away.      *)
Requested ==
  /\ \A r, s \in lockRequests : r # s => r.section # s.section
  /\ \A r \in lockRequests, o \in Orchs :
       orch[o].section = r.section => r.parent = o /\ r.lockSet = orch[o].asked

(* A grant that is not stale is the receiver's, and still good. *)
Told ==
  \A o, p \in Orchs : orch[p].section \in GrantedTo(o) => o = p /\ Holds(p)

Inside == \A o \in Orchs : IsInside(o) => Holds(o)

LockInv == Distinct /\ Numbered /\ Requested /\ Told /\ Inside

(* If critical sections are left from the inside only: a request is never   *)
(* stale, and its grant is yet to come.                                     *)
Waited ==
  /\ \A r \in lockRequests : orch[r.parent].section = r.section /\ orch[r.parent].waiting
  /\ \A r \in lockRequests, o \in Orchs : r.section \notin GrantedTo(o)

OwnedInv == Waited /\ LocksOwned

-----------------------------------------------------------------------------
(* Grants and events *)

Disjoint(R) ==
  \A r, s \in R : r # s => ToSet(r.lockSet) \intersect ToSet(s.lockSet) = {}

(* The entities of the requests are free, or unlocked by the section. *)
FreeFor(R, section, unlocks) ==
  \A r \in R : \A e \in ToSet(r.lockSet) :
    \/ entities[e].lockedBy = None
    \/ entities[e].lockedBy = section /\ e \in ToSet(unlocks)

LEMMA SectionFacts == Section \subseteq Nat /\ None \notin Section
  BY NoneAssumption DEF Section

LEMMA TypeFacts ==
  ASSUME TypeOK
  PROVE  /\ entities \in [Entities -> Entity] /\ orch \in [Orchs -> Context]
         /\ inbox \in [Orchs -> Seq(Inbox)] /\ lockRequests \subseteq LockRequest
         /\ sections \in Nat
         /\ \A o \in Orchs : orch[o] \in Context /\ inbox[o] \in Seq(Inbox)
         /\ \A o \in Orchs : orch[o].section \in Section \union {None}
         /\ \A r \in lockRequests : r.section \in Section /\ r.parent \in Orchs
  BY ContextFields, RequestFields DEF TypeOK

(* New events of which none is a grant, and events that are seen. *)
LEMMA GrantsSeen ==
  ASSUME TypeOK, NEW o \in Orchs,
         \/ inbox'[o] = inbox[o]
         \/ inbox[o] # <<>> /\ inbox'[o] = Tail(inbox[o])
         \/ \E n \in Nat : \E ev :
              ev.kind # "granted" /\ inbox'[o] = inbox[o] \o [k \in 1..n |-> ev]
  PROVE  GrantedTo(o)' \subseteq GrantedTo(o)
<1>1. inbox[o] \in Seq(Inbox)
  BY TypeFacts
<1>2. SUFFICES ASSUME NEW s \in Section, NEW i \in DOMAIN inbox'[o],
                      inbox'[o][i] = [kind |-> "granted", section |-> s]
               PROVE  \E j \in DOMAIN inbox[o] :
                        inbox[o][j] = [kind |-> "granted", section |-> s]
  BY DEF GrantedTo
<1>3. CASE inbox[o] # <<>> /\ inbox'[o] = Tail(inbox[o])
  <2>1. i + 1 \in DOMAIN inbox[o] /\ inbox'[o][i] = inbox[o][i + 1]
    BY <1>1, <1>3
  <2> QED
    BY <1>2, <2>1
<1>4. ASSUME NEW n \in Nat, NEW ev, ev.kind # "granted",
             inbox'[o] = inbox[o] \o [k \in 1..n |-> ev]
      PROVE  i \in DOMAIN inbox[o] /\ inbox'[o][i] = inbox[o][i]
  <2> DEFINE new == [k \in 1..n |-> ev]
             E == {ev} \union Inbox
  <2>1. new \in Seq(E) /\ Len(new) = n /\ inbox[o] \in Seq(E)
    BY <1>1, <1>4
  <2>2. \A k \in 1..n : new[k] = ev
    BY <1>4
  <2>3. ev # [kind |-> "granted", section |-> s]
    BY <1>4
  <2> HIDE DEF new, E
  <2>4. inbox'[o] = inbox[o] \o new
    BY <1>4 DEF new
  <2>5. i \in 1..(Len(inbox[o]) + n)
    BY <1>2, <2>1, <2>4
  <2>6. CASE i > Len(inbox[o])
    <3>0. Len(inbox[o]) \in Nat /\ i \in Nat
      BY <1>1, <2>5
    <3>1. i - Len(inbox[o]) \in 1..n
      BY <2>5, <2>6, <3>0
    <3>2. inbox'[o][i] = new[i - Len(inbox[o])]
      BY <2>1, <2>4, <2>5, <2>6, <3>0
    <3> QED
      BY <1>2, <2>2, <2>3, <3>1, <3>2
  <2>7. CASE ~(i > Len(inbox[o]))
    BY <1>1, <2>1, <2>4, <2>5, <2>7
  <2> QED
    BY <2>6, <2>7
<1> QED
  BY <1>2, <1>3, <1>4

LEMMA GrantsNotified ==
  ASSUME TypeOK, NEW granted, granted \subseteq LockRequest, inbox' = Notified(granted)
  PROVE  \A o \in Orchs : \A s \in GrantedTo(o)' :
           s \in GrantedTo(o) \/ \E r \in granted : r.parent = o /\ r.section = s
<1> SUFFICES ASSUME NEW o \in Orchs, NEW s \in Section, NEW i \in DOMAIN inbox'[o],
                    inbox'[o][i] = [kind |-> "granted", section |-> s]
             PROVE  \/ \E j \in DOMAIN inbox[o] :
                         inbox[o][j] = [kind |-> "granted", section |-> s]
                    \/ \E r \in granted : r.parent = o /\ r.section = s
  BY DEF GrantedTo
<1>1. CASE ~\E r \in granted : r.parent = o
  BY <1>1 DEF Notified
<1>2. CASE \E r \in granted : r.parent = o
  <2>1. PICK r \in granted :
          r.parent = o /\ inbox'[o] = Append(inbox[o], [kind |-> "granted",
                                                        section |-> r.section])
    BY <1>2 DEF Notified
  <2>2. inbox[o] \in Seq(Inbox)
    BY TypeFacts
  <2>3. CASE i \in DOMAIN inbox[o]
    BY <2>1, <2>2, <2>3
  <2>4. CASE i \notin DOMAIN inbox[o]
    <3> DEFINE ev == [kind |-> "granted", section |-> r.section]
    <3>1. ev.section = r.section
      OBVIOUS
    <3> HIDE DEF ev
    <3>2. inbox'[o][i] = ev
      BY <2>1, <2>2, <2>4 DEF ev
    <3>3. inbox'[o][i].section = s
      OBVIOUS
    <3> QED
      BY <2>1, <3>1, <3>2, <3>3
  <2> QED
    BY <2>3, <2>4
<1> QED
  BY <1>1, <1>2

LEMMA LockedForLocks ==
  ASSUME NEW ents \in [Entities -> Entity], NEW granted, granted \subseteq LockRequest,
         Disjoint(granted)
  PROVE  \A e \in Entities :
           /\ \A r \in granted : e \in ToSet(r.lockSet) =>
                LockedFor(ents, granted)[e].lockedBy = r.section
           /\ (\A r \in granted : e \notin ToSet(r.lockSet)) =>
                LockedFor(ents, granted)[e] = ents[e]
<1> SUFFICES ASSUME NEW e \in Entities, NEW r \in granted, e \in ToSet(r.lockSet)
             PROVE  LockedFor(ents, granted)[e].lockedBy = r.section
  BY DEF LockedFor
<1>1. (CHOOSE q \in granted : e \in ToSet(q.lockSet)) = r
  BY DEF Disjoint
<1>2. LockedFor(ents, granted)[e] = [ents[e] EXCEPT !.exists = TRUE, !.lockedBy = r.section]
  BY <1>1 DEF LockedFor, Holder
<1>3. ents[e] \in Entity
  OBVIOUS
<1> QED
  BY <1>2, <1>3 DEF Entity

(* The requests granted by unlocks share no entity, and their entities are  *)
(* free or unlocked.                                                        *)
LEMMA GrantsAreGood ==
  ASSUME TypeOK, Requested, NEW section, NEW unlocks \in Seq(Entities),
         NEW g \in Grants(section, unlocks),
         NEW granted \in SUBSET lockRequests, \A r \in granted : g[r] # 0
  PROVE  Disjoint(granted) /\ FreeFor(granted, section, unlocks)
<1>1. /\ g \in [lockRequests -> 0..Len(unlocks)] /\ Len(unlocks) \in Nat
      /\ \A r \in granted : CanGrant(section, unlocks, g, g[r], r)
  BY DEF Grants
<1>2. ASSUME NEW r \in granted, NEW s \in granted, r # s
      PROVE  ToSet(r.lockSet) \intersect ToSet(s.lockSet) = {}
  <2>1. /\ g[r] \in Nat /\ g[s] \in Nat /\ g[r] # 0 /\ g[s] # 0
        /\ r.section \in Nat /\ s.section \in Nat /\ r.section # s.section
    <3>1. r \in lockRequests /\ s \in lockRequests /\ g[r] # 0 /\ g[s] # 0
      OBVIOUS
    <3>2. g[r] \in 0..Len(unlocks) /\ g[s] \in 0..Len(unlocks)
      BY <1>1, <3>1
    <3>3. r.section \in Section /\ s.section \in Section /\ r.section # s.section
      BY <1>2, <3>1, TypeFacts DEF Requested
    <3>4. g[r] \in Nat /\ g[s] \in Nat
      BY <1>1, <3>2
    <3>5. r.section \in Nat /\ s.section \in Nat
      BY <3>3, SectionFacts
    <3> QED
      BY <3>1, <3>3, <3>4, <3>5
  <2>2. GrantedBefore(g, s, g[r], r) \/ GrantedBefore(g, r, g[s], s)
    BY <2>1 DEF GrantedBefore
  <2>3. GrantedBefore(g, s, g[r], r) => \A e \in ToSet(r.lockSet) : e \notin ToSet(s.lockSet)
    BY <1>1 DEF CanGrant
  <2>4. GrantedBefore(g, r, g[s], s) => \A e \in ToSet(s.lockSet) : e \notin ToSet(r.lockSet)
    BY <1>1 DEF CanGrant
  <2> QED
    BY <2>2, <2>3, <2>4
<1>3. ASSUME NEW r \in granted, NEW e \in ToSet(r.lockSet)
      PROVE  \/ entities[e].lockedBy = None
             \/ entities[e].lockedBy = section /\ e \in ToSet(unlocks)
  <2>1. \/ IsFree(e)
        \/ entities[e].lockedBy = section /\ \E m \in 1..g[r] : unlocks[m] = e
    BY <1>1 DEF CanGrant
  <2>2. \A m \in 1..g[r] : m \in DOMAIN unlocks
    <3>1. g[r] \in 0..Len(unlocks) /\ DOMAIN unlocks = 1..Len(unlocks)
      BY <1>1
    <3> QED
      BY <1>1, <3>1
  <2> QED
    BY <2>1, <2>2 DEF IsFree, ToSet
<1> QED
  BY <1>2, <1>3 DEF Disjoint, FreeFor

-----------------------------------------------------------------------------
(* Steps *)

LEMMA AskedType ==
  ASSUME TypeOK, NEW o \in Orchs
  PROVE  orch[o].asked \in Seq(Entities) /\ ToSet(orch[o].asked) \subseteq Entities
<1>1. orch[o].asked \in LockSets \union {<<>>}
  BY TypeFacts, ContextFields
<1>2. LockSets \subseteq Seq(Entities) /\ <<>> \in Seq(Entities)
  BY LockSetsAssumption
<1>3. orch[o].asked \in Seq(Entities)
  BY <1>1, <1>2
<1> QED
  BY <1>3, ToSetType

(* Where critical sections are not concerned. *)
LEMMA LocksFrame ==
  ASSUME TypeOK, LockInv, UNCHANGED <<lockRequests, sections>>,
         \A e \in Entities : entities'[e].lockedBy = entities[e].lockedBy,
         \A o \in Orchs : /\ orch'[o].section = orch[o].section
                          /\ orch[o].section # None =>
                               /\ orch'[o].asked = orch[o].asked
                               /\ orch'[o].waiting = orch[o].waiting,
         \A o \in Orchs : GrantedTo(o)' \subseteq GrantedTo(o)
  PROVE  LockInv' /\ (OwnedInv => OwnedInv')
<1>1. \A o \in Orchs : orch[o].section # None /\ Holds(o) => Holds(o)'
  BY AskedType DEF Holds
<1>2. \A o \in Orchs : IsInside(o)' => IsInside(o)
  BY DEF IsInside
<1>3. Distinct' /\ Numbered' /\ Requested'
  <2>1. Distinct'
    BY DEF LockInv, Distinct
  <2>2. Numbered'
    BY DEF LockInv, Numbered
  <2>3. Requested'
    BY TypeFacts, SectionFacts DEF LockInv, Requested
  <2> QED
    BY <2>1, <2>2, <2>3
<1>4. Told'
  <2>1. \A o \in Orchs : GrantedTo(o) \subseteq Section
    BY DEF GrantedTo
  <2>2. ASSUME NEW o \in Orchs, NEW p \in Orchs, orch'[p].section \in GrantedTo(o)'
        PROVE  o = p /\ Holds(p)'
    <3>1. orch[p].section \in GrantedTo(o) /\ orch[p].section # None
      BY <2>1, <2>2, SectionFacts
    <3> QED
      BY <1>1, <3>1 DEF LockInv, Told
  <2> QED
    BY <2>2 DEF Told
<1>5. Inside'
  <2>1. ASSUME NEW o \in Orchs, IsInside(o)' PROVE Holds(o)'
    BY <1>1, <1>2, <2>1 DEF LockInv, Inside, IsInside
  <2> QED
    BY <2>1 DEF Inside
<1>6. ASSUME OwnedInv PROVE OwnedInv'
  <2>1. Waited'
    <3>1. \A r \in lockRequests : r.parent \in Orchs /\ r.section # None
      BY TypeFacts, SectionFacts
    <3> QED
      BY <1>6, <3>1 DEF OwnedInv, Waited
  <2>2. LocksOwned'
    BY <1>6 DEF OwnedInv, LocksOwned
  <2> QED
    BY <2>1, <2>2 DEF OwnedInv
<1> QED
  BY <1>3, <1>4, <1>5, <1>6 DEF LockInv

(* A grant that is seen ends the wait; any other event leaves the critical  *)
(* section as it is.                                                        *)
LEMMA SeeEventKeepsLocks ==
  ASSUME TypeOK, LockInv, NEW o \in Orchs, SeeEvent(o)
  PROVE  LockInv' /\ (OwnedInv => OwnedInv')
<1>1. /\ inbox[o] \in Seq(Inbox) /\ inbox[o] # <<>> /\ orch \in [Orchs -> Context]
      /\ inbox \in [Orchs -> Seq(Inbox)] /\ orch[o] \in Context
  BY TypeFacts DEF SeeEvent
<1> DEFINE ev == Head(inbox[o])
<1>2. /\ inbox' = [inbox EXCEPT ![o] = Tail(@)]
      /\ orch' = [orch EXCEPT ![o] = IF ev.kind = "granted" THEN Acquired(@, ev.section)
                                     ELSE Returned(@, ev.entity)]
      /\ UNCHANGED <<entities, lockRequests, sections>>
  BY DEF SeeEvent, backend
<1>3. \A p \in Orchs : GrantedTo(p)' \subseteq GrantedTo(p)
  BY <1>1, <1>2, GrantsSeen
<1>4. CASE orch'[o].waiting = orch[o].waiting
  <2>1. orch'[o].section = orch[o].section /\ orch'[o].asked = orch[o].asked
    BY <1>1, <1>2 DEF Acquired, Returned, Context
  <2>2. \A p \in Orchs \ {o} : orch'[p] = orch[p]
    BY <1>1, <1>2
  <2> QED
    BY <1>2, <1>3, <1>4, <2>1, <2>2, LocksFrame
<1>5. CASE orch'[o].waiting # orch[o].waiting
  <2>1. /\ ev.kind = "granted" /\ ev.section = orch[o].section
        /\ orch'[o].section = orch[o].section /\ orch'[o].asked = orch[o].asked
    BY <1>1, <1>2, <1>5 DEF Acquired, Returned, Context
  <2>2. orch[o].section \in GrantedTo(o)
    <3>1. ev \in Inbox /\ ev = inbox[o][1] /\ 1 \in DOMAIN inbox[o]
      BY <1>1
    <3>2. ev = [kind |-> "granted", section |-> ev.section] /\ ev.section \in Section
      BY <2>1, <3>1 DEF Inbox
    <3> QED
      BY <2>1, <3>1, <3>2 DEF GrantedTo
  <2>3. Holds(o)
    BY <2>2 DEF LockInv, Told
  <2>4. \A p \in Orchs : p # o => orch'[p] = orch[p]
    BY <1>1, <1>2
  <2>5. \A p \in Orchs : /\ orch'[p].section = orch[p].section
                         /\ orch'[p].asked = orch[p].asked
                         /\ Holds(p)' = Holds(p)
    BY <1>2, <2>1, <2>4 DEF Holds
  <2>6. Distinct' /\ Numbered'
    BY <1>2, <1>3, <2>5 DEF LockInv, Distinct, Numbered
  <2>7. Requested'
    BY <1>2, <2>5 DEF LockInv, Requested
  <2>8. Told'
    BY <1>3, <2>5 DEF LockInv, Told
  <2>9. Inside'
    BY <2>3, <2>4, <2>5 DEF LockInv, Inside, IsInside
  <2>10. ASSUME OwnedInv PROVE OwnedInv'
    <3>1. \A r \in lockRequests : r.section # orch[o].section
      BY <2>2, <2>10 DEF OwnedInv, Waited
    <3>2. \A r \in lockRequests : r.parent \in Orchs /\ r.parent # o
      BY <2>10, <3>1, TypeFacts DEF OwnedInv, Waited
    <3>3. Waited'
      BY <1>2, <1>3, <2>4, <2>10, <3>2 DEF OwnedInv, Waited
    <3>4. LocksOwned'
      BY <1>2, <2>5, <2>10 DEF OwnedInv, LocksOwned
    <3> QED
      BY <3>3, <3>4 DEF OwnedInv
  <2> QED
    BY <2>6, <2>7, <2>8, <2>9, <2>10 DEF LockInv
<1> QED
  BY <1>4, <1>5

(* A request is granted at once, or waits. *)
LEMMA RequestKeepsLocks ==
  ASSUME TypeOK, LockInv, NEW o \in Orchs, NEW S \in LockSets, RequestLock(o, S)
  PROVE  LockInv' /\ (OwnedInv => OwnedInv')
<1> DEFINE section == sections + 1
           request == [section |-> section, parent |-> o, lockSet |-> S]
<1>1. /\ section \in Section /\ sections' = section /\ sections \in Nat
      /\ orch[o].section = None
      /\ orch' = [orch EXCEPT ![o] = [section |-> section, waiting |-> TRUE,
                                      asked |-> S, locks |-> S,
                                      available |-> <<>>, over |-> FALSE]]
  BY TypeFacts DEF RequestLock
<1>2. request \in LockRequest
  BY <1>1 DEF LockRequest
<1>3. request.section = section /\ request.parent = o /\ request.lockSet = S
  OBVIOUS
<1> HIDE DEF request
<1>4. /\ orch'[o].section = section /\ orch'[o].waiting /\ orch'[o].asked = S
      /\ \A p \in Orchs \ {o} : orch'[p] = orch[p]
  BY <1>1, TypeFacts
<1> DEFINE granted == IF \A e \in ToSet(S) : IsFree(e) THEN {request} ELSE {}
<1>5. /\ \A e \in Entities :
           /\ entities[e].lockedBy # None => entities'[e].lockedBy = entities[e].lockedBy
           /\ granted # {} /\ e \in ToSet(S) => entities'[e].lockedBy = section
           /\ \/ entities'[e].lockedBy = entities[e].lockedBy
              \/ entities'[e].lockedBy = section /\ e \in ToSet(S)
      /\ \A p \in Orchs : \A s \in GrantedTo(p)' :
           s \in GrantedTo(p) \/ (granted # {} /\ p = o /\ s = section)
      /\ lockRequests' = IF granted = {} THEN lockRequests \union {request} ELSE lockRequests
  <2>1. CASE \A e \in ToSet(S) : IsFree(e)
    <3>1. /\ granted = {request}
          /\ entities' = LockedFor(entities, {request}) /\ inbox' = Notified({request})
          /\ lockRequests' = lockRequests
      BY <2>1 DEF RequestLock, request
    <3>2. {request} \subseteq LockRequest
      BY <1>2
    <3>3. \A e \in Entities :
            /\ e \in ToSet(S) => entities'[e].lockedBy = section
            /\ e \notin ToSet(S) => entities'[e] = entities[e]
      <4>1. Disjoint({request})
        BY DEF Disjoint
      <4>2. entities \in [Entities -> Entity]
        BY TypeFacts
      <4>3. \A e \in Entities :
              /\ \A r \in {request} : e \in ToSet(r.lockSet) =>
                   LockedFor(entities, {request})[e].lockedBy = r.section
              /\ (\A r \in {request} : e \notin ToSet(r.lockSet)) =>
                   LockedFor(entities, {request})[e] = entities[e]
        BY <3>2, <4>1, <4>2, LockedForLocks
      <4> QED
        BY <1>3, <3>1, <4>3
    <3>4. \A p \in Orchs : \A s \in GrantedTo(p)' :
            s \in GrantedTo(p) \/ (p = o /\ s = section)
      BY <1>3, <3>1, <3>2, GrantsNotified
    <3> QED
      BY <2>1, <3>1, <3>3, <3>4 DEF IsFree
  <2>2. CASE ~\A e \in ToSet(S) : IsFree(e)
    <3>1. /\ granted = {} /\ entities' = entities /\ inbox' = inbox
          /\ lockRequests' = lockRequests \union {request}
      BY <2>2 DEF RequestLock, request
    <3>2. \A p \in Orchs : GrantedTo(p)' = GrantedTo(p)
      BY <3>1 DEF GrantedTo
    <3> QED
      BY <3>1, <3>2
  <2> QED
    BY <2>1, <2>2
<1> HIDE DEF granted
<1>6. /\ \A p \in Orchs : orch[p].section # None => orch[p].section < section
                                                    /\ orch[p].section \in Nat
      /\ \A r \in lockRequests : r.section < section /\ r.section \in Nat
      /\ \A p \in Orchs : \A s \in GrantedTo(p) : s < section /\ s \in Nat
  <2>1. \A p \in Orchs : \A s \in GrantedTo(p) : s \in Nat
    BY SectionFacts DEF GrantedTo
  <2>2. \A n \in Nat : n <= sections => n < section
    BY <1>1
  <2>3. ASSUME NEW p \in Orchs, orch[p].section # None
        PROVE  orch[p].section \in Nat /\ orch[p].section <= sections
    BY <2>3, TypeFacts, SectionFacts DEF LockInv, Numbered
  <2>4. ASSUME NEW r \in lockRequests
        PROVE  r.section \in Nat /\ r.section <= sections
    BY TypeFacts, SectionFacts DEF LockInv, Numbered
  <2> QED
    BY <2>1, <2>2, <2>3, <2>4 DEF LockInv, Numbered
<1>7. section \in Nat /\ section # None /\ sections < section
  BY <1>1, SectionFacts
<1> HIDE DEF section
<1>8. Distinct'
  BY <1>4, <1>6, <1>7 DEF LockInv, Distinct
<1>9. Numbered'
  <2>1. \A n \in Nat : n < section => n <= section
    BY <1>7
  <2>2. \A p \in Orchs : orch'[p].section # None => orch'[p].section <= section
    BY <1>4, <1>6, <1>7, <2>1
  <2>3. \A r \in lockRequests' : r.section <= section
    BY <1>3, <1>5, <1>6, <1>7, <2>1
  <2>4. \A p \in Orchs : \A s \in GrantedTo(p)' : s <= section
    BY <1>5, <1>6, <1>7, <2>1
  <2> QED
    BY <1>1, <2>2, <2>3, <2>4 DEF Numbered
<1>10. Requested'
  <2>1. \A r \in lockRequests' : r \in lockRequests \/ r = request
    BY <1>5
  <2>2. \A r, s \in lockRequests' : r # s => r.section # s.section
    BY <1>3, <1>6, <1>7, <2>1 DEF LockInv, Requested
  <2>3. ASSUME NEW r \in lockRequests', NEW p \in Orchs, orch'[p].section = r.section
        PROVE  r.parent = p /\ r.lockSet = orch'[p].asked
    <3>1. CASE p = o
      BY <1>3, <1>4, <1>6, <1>7, <2>1, <2>3, <3>1
    <3>2. CASE p # o
      <4>1. orch'[p] = orch[p] /\ orch[p].section # section
        BY <1>4, <1>6, <1>7, <3>2
      <4> QED
        BY <1>3, <2>1, <2>3, <4>1 DEF LockInv, Requested
    <3> QED
      BY <3>1, <3>2
  <2> QED
    BY <2>2, <2>3 DEF Requested
<1>11. \A p \in Orchs : p # o /\ orch[p].section # None /\ Holds(p) => Holds(p)'
  BY <1>4, <1>5, AskedType DEF Holds
<1>12. granted # {} => Holds(o)'
  <2>1. ToSet(S) \subseteq Entities
    BY LockSetsAssumption, ToSetType
  <2> QED
    BY <1>4, <1>5, <2>1 DEF Holds
<1>13. Told'
  <2>1. ASSUME NEW q \in Orchs, NEW p \in Orchs, orch'[p].section \in GrantedTo(q)'
        PROVE  q = p /\ Holds(p)'
    <3>1. CASE p = o
      <4>1. orch'[p].section \notin GrantedTo(q)
        BY <1>4, <1>6, <1>7, <3>1
      <4> QED
        BY <1>5, <1>12, <2>1, <3>1, <4>1
    <3>2. CASE p # o
      <4>1. orch'[p] = orch[p] /\ orch[p].section # section
        BY <1>4, <1>6, <1>7, <3>2
      <4>2. orch[p].section \in GrantedTo(q) /\ orch[p].section # None
        <5>1. GrantedTo(q) \subseteq Section
          BY DEF GrantedTo
        <5> QED
          BY <1>5, <2>1, <4>1, <5>1, SectionFacts
      <4> QED
        BY <1>11, <3>2, <4>2 DEF LockInv, Told
    <3> QED
      BY <3>1, <3>2
  <2> QED
    BY <2>1 DEF Told
<1>14. Inside'
  <2>1. ASSUME NEW p \in Orchs, IsInside(p)' PROVE Holds(p)'
    <3>1. p # o /\ IsInside(p)
      BY <1>4, <2>1 DEF IsInside
    <3> QED
      BY <1>11, <3>1 DEF LockInv, Inside, IsInside
  <2> QED
    BY <2>1 DEF Inside
<1>15. ASSUME OwnedInv PROVE OwnedInv'
  <2>1. ASSUME NEW r \in lockRequests'
        PROVE  orch'[r.parent].section = r.section /\ orch'[r.parent].waiting
    <3>1. CASE r = request
      BY <1>3, <1>4, <3>1
    <3>2. CASE r # request
      <4>1. r \in lockRequests /\ r.parent \in Orchs /\ r.section # None
        BY <1>5, <3>2, TypeFacts, SectionFacts
      <4>2. r.parent # o
        BY <1>1, <1>15, <4>1 DEF OwnedInv, Waited
      <4> QED
        BY <1>4, <1>15, <4>1, <4>2 DEF OwnedInv, Waited
    <3> QED
      BY <3>1, <3>2
  <2>2. ASSUME NEW r \in lockRequests', NEW p \in Orchs
        PROVE  r.section \notin GrantedTo(p)'
    BY <1>3, <1>5, <1>6, <1>7, <1>15 DEF OwnedInv, Waited
  <2>3. ASSUME NEW e \in Entities, entities'[e].lockedBy # None
        PROVE  \E p \in Orchs : orch'[p].section = entities'[e].lockedBy
                                /\ e \in ToSet(orch'[p].asked)
    <3>1. CASE entities'[e].lockedBy = section /\ e \in ToSet(S)
      BY <1>4, <3>1
    <3>2. CASE entities'[e].lockedBy = entities[e].lockedBy
      <4>1. PICK p \in Orchs : orch[p].section = entities[e].lockedBy
                                /\ e \in ToSet(orch[p].asked)
        BY <1>15, <2>3, <3>2 DEF OwnedInv, LocksOwned
      <4>2. p # o
        BY <1>1, <2>3, <3>2, <4>1
      <4> QED
        BY <1>4, <3>2, <4>1, <4>2
    <3> QED
      BY <1>5, <3>1, <3>2
  <2> QED
    BY <2>1, <2>2, <2>3 DEF OwnedInv, Waited, LocksOwned
<1> QED
  BY <1>8, <1>9, <1>10, <1>13, <1>14, <1>15 DEF LockInv

(* What an unlock does to entities, requests and grants. *)
LEMMA UnlockEffect ==
  ASSUME TypeOK, LockInv, NEW o \in Orchs, NEW over \in BOOLEAN, Unlock(o, over)
  PROVE  \E granted \in SUBSET lockRequests :
           /\ lockRequests' = lockRequests \ granted
           /\ orch' = [orch EXCEPT ![o] = Outside(over)]
           /\ \A r \in granted : \A e \in ToSet(r.lockSet) : entities'[e].lockedBy = r.section
           /\ \A e \in Entities :
                /\ entities[e].lockedBy \notin {None, orch[o].section} =>
                     entities'[e].lockedBy = entities[e].lockedBy
                /\ entities'[e].lockedBy # None =>
                     \/ \E r \in granted : /\ e \in ToSet(r.lockSet)
                                           /\ entities'[e].lockedBy = r.section
                     \/ /\ entities'[e].lockedBy = entities[e].lockedBy
                        /\ entities[e].lockedBy = orch[o].section =>
                             e \notin ToSet(orch[o].locks)
           /\ \A p \in Orchs : \A s \in GrantedTo(p)' :
                s \in GrantedTo(p) \/ \E r \in granted : r.parent = p /\ r.section = s
<1> DEFINE section == orch[o].section
           unlocks == Unlocked(o)
           freed == [e \in Entities |->
                       IF e \in ToSet(unlocks) /\ entities[e].lockedBy = section
                       THEN [entities[e] EXCEPT !.lockedBy = None] ELSE entities[e]]
<1>1. PICK g \in Grants(section, unlocks) :
        LET granted == {r \in lockRequests : g[r] # 0}
        IN  /\ entities' = LockedFor(freed, granted)
            /\ inbox' = Notified(granted)
            /\ lockRequests' = lockRequests \ granted
            /\ orch' = [orch EXCEPT ![o] = Outside(over)]
  BY DEF Unlock
<1> DEFINE granted == {r \in lockRequests : g[r] # 0}
<1>2. /\ entities' = LockedFor(freed, granted) /\ inbox' = Notified(granted)
      /\ lockRequests' = lockRequests \ granted
      /\ orch' = [orch EXCEPT ![o] = Outside(over)]
  BY <1>1
<1>3. unlocks \in Seq(Entities) /\ unlocks = orch[o].locks
  BY TypeFacts, ContextFields DEF Unlocked
<1>4. freed \in [Entities -> Entity]
  <2>1. \A e \in Entities : entities[e] \in Entity
    BY TypeFacts
  <2>2. \A e \in Entities : [entities[e] EXCEPT !.lockedBy = None] \in Entity
    BY <2>1, EntitySteps
  <2> QED
    BY <2>1, <2>2
<1>5. \A e \in Entities :
        freed[e].lockedBy = IF e \in ToSet(unlocks) /\ entities[e].lockedBy = section
                            THEN None ELSE entities[e].lockedBy
  <2>1. \A e \in Entities : entities[e] \in Entity
    BY TypeFacts
  <2> QED
    BY <2>1 DEF Entity
<1>6. granted \in SUBSET lockRequests /\ granted \subseteq LockRequest
  BY TypeFacts
<1> HIDE DEF unlocks, section, freed
<1>7. Disjoint(granted) /\ FreeFor(granted, section, unlocks)
  <2>1. Requested /\ g \in Grants(section, unlocks) /\ unlocks \in Seq(Entities)
    BY <1>3 DEF LockInv
  <2>2. granted \in SUBSET lockRequests /\ \A r \in granted : g[r] # 0
    OBVIOUS
  <2> HIDE DEF granted
  <2> QED
    BY <2>1, <2>2, GrantsAreGood
<1> HIDE DEF granted
<1>8. \A e \in Entities :
        /\ \A r \in granted : e \in ToSet(r.lockSet) => entities'[e].lockedBy = r.section
        /\ (\A r \in granted : e \notin ToSet(r.lockSet)) => entities'[e] = freed[e]
  BY <1>2, <1>4, <1>6, <1>7, LockedForLocks
<1>9. \A r \in granted : ToSet(r.lockSet) \subseteq Entities
  <2>1. \A r \in granted : r.lockSet \in Seq(Entities)
    BY <1>6, RequestFields
  <2> QED
    BY <2>1, ToSetType
<1>10. \A p \in Orchs : \A s \in GrantedTo(p)' :
         s \in GrantedTo(p) \/ \E r \in granted : r.parent = p /\ r.section = s
  BY <1>2, <1>6, GrantsNotified
<1>11. ASSUME NEW e \in Entities
       PROVE  /\ entities[e].lockedBy \notin {None, section} =>
                   entities'[e].lockedBy = entities[e].lockedBy
              /\ entities'[e].lockedBy # None =>
                   \/ \E r \in granted : /\ e \in ToSet(r.lockSet)
                                         /\ entities'[e].lockedBy = r.section
                   \/ /\ entities'[e].lockedBy = entities[e].lockedBy
                      /\ entities[e].lockedBy = section => e \notin ToSet(unlocks)
  <2>1. CASE \E r \in granted : e \in ToSet(r.lockSet)
    BY <1>7, <1>8, <2>1 DEF FreeFor
  <2>2. CASE ~\E r \in granted : e \in ToSet(r.lockSet)
    BY <1>5, <1>8, <2>2
  <2> QED
    BY <2>1, <2>2
<1>12. \A r \in granted : \A e \in ToSet(r.lockSet) : entities'[e].lockedBy = r.section
  BY <1>8, <1>9
<1> QED
  BY <1>2, <1>3, <1>6, <1>10, <1>11, <1>12 DEF section

LEMMA UnlockKeepsLocks ==
  ASSUME TypeOK, LockInv, NEW o \in Orchs, NEW over \in BOOLEAN, Unlock(o, over),
         orch[o].section # None, sections' = sections
  PROVE  /\ LockInv'
         /\ OwnedInv /\ Where(o) = "inside" => OwnedInv'
<1>1. PICK granted \in SUBSET lockRequests :
        /\ lockRequests' = lockRequests \ granted
        /\ orch' = [orch EXCEPT ![o] = Outside(over)]
        /\ \A r \in granted : \A e \in ToSet(r.lockSet) : entities'[e].lockedBy = r.section
        /\ \A e \in Entities :
             /\ entities[e].lockedBy \notin {None, orch[o].section} =>
                  entities'[e].lockedBy = entities[e].lockedBy
             /\ entities'[e].lockedBy # None =>
                  \/ \E r \in granted : /\ e \in ToSet(r.lockSet)
                                        /\ entities'[e].lockedBy = r.section
                  \/ /\ entities'[e].lockedBy = entities[e].lockedBy
                     /\ entities[e].lockedBy = orch[o].section =>
                          e \notin ToSet(orch[o].locks)
        /\ \A p \in Orchs : \A s \in GrantedTo(p)' :
             s \in GrantedTo(p) \/ \E r \in granted : r.parent = p /\ r.section = s
  BY UnlockEffect
<1>2. /\ orch'[o].section = None
      /\ \A p \in Orchs : p # o => orch'[p] = orch[p]
  BY <1>1, TypeFacts DEF Outside
<1>3. \A p \in Orchs : \A s \in GrantedTo(p) \union GrantedTo(p)' : s \in Section /\ s # None
  BY SectionFacts DEF GrantedTo
<1>4. \A r \in lockRequests : r.section \in Section /\ r.section # None /\ r.parent \in Orchs
  BY TypeFacts, SectionFacts
<1>5. ASSUME NEW p \in Orchs, p # o, orch[p].section # None, Holds(p)
      PROVE  Holds(p)'
  <2>1. orch[p].section # orch[o].section
    BY <1>5 DEF LockInv, Distinct
  <2> QED
    BY <1>1, <1>2, <1>5, <2>1, AskedType DEF Holds
<1>6. Distinct'
  BY <1>2 DEF LockInv, Distinct
<1>7. Numbered'
  <2>1. \A p \in Orchs : \A s \in GrantedTo(p)' : s <= sections
    BY <1>1 DEF LockInv, Numbered
  <2> QED
    BY <1>1, <1>2, <2>1 DEF LockInv, Numbered
<1>8. Requested'
  BY <1>1, <1>2, <1>4 DEF LockInv, Requested
<1>9. Told'
  <2>1. ASSUME NEW q \in Orchs, NEW p \in Orchs, orch'[p].section \in GrantedTo(q)'
        PROVE  q = p /\ Holds(p)'
    <3>1. p # o /\ orch'[p] = orch[p] /\ orch[p].section # None
      BY <1>2, <1>3, <2>1
    <3>2. CASE orch[p].section \in GrantedTo(q)
      BY <1>5, <3>1, <3>2 DEF LockInv, Told
    <3>3. CASE \E r \in granted : r.parent = q /\ r.section = orch[p].section
      <4>1. PICK r \in granted : r.parent = q /\ r.section = orch[p].section
        BY <3>3
      <4>2. q = p /\ r.lockSet = orch[p].asked
        BY <4>1 DEF LockInv, Requested
      <4> QED
        BY <1>1, <3>1, <4>1, <4>2 DEF Holds
    <3> QED
      BY <1>1, <2>1, <3>1, <3>2, <3>3
  <2> QED
    BY <2>1 DEF Told
<1>10. Inside'
  <2>1. ASSUME NEW p \in Orchs, IsInside(p)' PROVE Holds(p)'
    <3>1. p # o /\ IsInside(p) /\ orch[p].section # None
      BY <1>2, <2>1 DEF IsInside
    <3> QED
      BY <1>5, <3>1 DEF LockInv, Inside
  <2> QED
    BY <2>1 DEF Inside
<1>11. ASSUME OwnedInv, Where(o) = "inside" PROVE OwnedInv'
  <2>1. ~orch[o].waiting /\ ToSet(orch[o].asked) \subseteq ToSet(orch[o].locks)
    BY <1>11 DEF Where
  <2>2. \A r \in lockRequests : r.parent # o
    BY <1>11, <2>1 DEF OwnedInv, Waited
  <2>3. \A r \in lockRequests' : orch'[r.parent].section = r.section /\ orch'[r.parent].waiting
    BY <1>1, <1>2, <1>4, <1>11, <2>2 DEF OwnedInv, Waited
  <2>4. ASSUME NEW r \in lockRequests', NEW p \in Orchs PROVE r.section \notin GrantedTo(p)'
    <3>1. \A s \in granted : s.section # r.section
      BY <1>1 DEF LockInv, Requested
    <3> QED
      BY <1>1, <1>11, <3>1 DEF OwnedInv, Waited
  <2>5. ASSUME NEW e \in Entities, entities'[e].lockedBy # None
        PROVE  \E p \in Orchs : orch'[p].section = entities'[e].lockedBy
                                /\ e \in ToSet(orch'[p].asked)
    <3>1. CASE \E r \in granted : e \in ToSet(r.lockSet) /\ entities'[e].lockedBy = r.section
      <4>1. PICK r \in granted : e \in ToSet(r.lockSet) /\ entities'[e].lockedBy = r.section
        BY <3>1
      <4>2. r.parent \in Orchs /\ r.parent # o /\ orch[r.parent].section = r.section
        BY <1>4, <1>11, <2>2 DEF OwnedInv, Waited
      <4>3. r.lockSet = orch[r.parent].asked
        BY <4>2 DEF LockInv, Requested
      <4> QED
        BY <1>2, <4>1, <4>2, <4>3
    <3>2. CASE /\ entities'[e].lockedBy = entities[e].lockedBy
               /\ entities[e].lockedBy = orch[o].section => e \notin ToSet(orch[o].locks)
      <4>1. PICK p \in Orchs : orch[p].section = entities[e].lockedBy
                               /\ e \in ToSet(orch[p].asked)
        BY <1>11, <2>5, <3>2 DEF OwnedInv, LocksOwned
      <4>2. p # o
        BY <2>1, <3>2, <4>1
      <4> QED
        BY <1>2, <3>2, <4>1, <4>2
    <3> QED
      BY <1>1, <2>5, <3>1, <3>2
  <2> QED
    BY <2>3, <2>4, <2>5 DEF OwnedInv, Waited, LocksOwned
<1> QED
  BY <1>6, <1>7, <1>8, <1>9, <1>10, <1>11 DEF LockInv

-----------------------------------------------------------------------------
(* The invariant is inductive *)

LEMMA CleaningKeepsOut ==
  ASSUME Cleaning = {}
  PROVE  ~CleanEntityStorage
  BY DEF CleanEntityStorage

(* Operations and batches leave the locks alone. *)
LEMMA EntityStepKeepsLocks ==
  ASSUME TypeOK, LockInv, Cleaning = {}, EntityStep
  PROVE  LockInv' /\ (OwnedInv => OwnedInv')
<1>1. \A e \in Entities : entities[e] \in Entity
  BY TypeFacts
<1>2. UNCHANGED <<lockRequests, orch, sections>>
  BY CleaningKeepsOut
  DEF EntityStep, GetWorkItems, SignalEntity, CompleteEntityTask, AbandonTaskEntityWorkItem
<1>3. ASSUME NEW e \in Entities, CompleteEntityTask(e)
      PROVE  /\ \A f \in Entities : entities'[f].lockedBy = entities[f].lockedBy
             /\ \A o \in Orchs : GrantedTo(o)' \subseteq GrantedTo(o)
  <2>1. PICK k \in 1..Len(batches[e]), empty \in BOOLEAN, t \in Entities \union {None} :
          IF IsCurrent(e, k) THEN Commit(e, batches[e][k].ops, empty, t)
          ELSE UNCHANGED <<entities, inbox>>
    BY <1>3 DEF CompleteEntityTask
  <2>2. CASE ~IsCurrent(e, k)
    BY <2>1, <2>2 DEF GrantedTo
  <2>3. CASE IsCurrent(e, k)
    <3> DEFINE ops == batches[e][k].ops
               signal == [number |-> accepted[t] + 1, caller |-> None]
               after == [entities EXCEPT ![e] = Executed(@, empty)]
    <3>1. /\ entities' = IF t = None THEN after
                         ELSE [after EXCEPT ![t] = Receiving(@, signal)]
          /\ inbox' = Answered(e, ops)
      BY <2>1, <2>3 DEF Commit
    <3>2. \A f \in Entities : after[f] \in Entity /\ after[f].lockedBy = entities[f].lockedBy
      <4>1. after[e] = Executed(entities[e], empty) /\ Executed(entities[e], empty) \in Entity
        BY <1>1, TypeFacts, EntitySteps
      <4>2. Executed(entities[e], empty).lockedBy = entities[e].lockedBy
        BY <1>1 DEF Executed, Entity
      <4>3. \A f \in Entities : f # e => after[f] = entities[f]
        BY TypeFacts
      <4> HIDE DEF after
      <4> QED
        BY <1>1, <4>1, <4>2, <4>3
    <3>3. after \in [Entities -> Entity]
      BY <1>1, TypeFacts, EntitySteps
    <3> HIDE DEF after, signal
    <3>4. \A f \in Entities : entities'[f] \in {after[f], Receiving(after[f], signal)}
      BY <3>1, <3>3
    <3>5. \A f \in Entities : entities'[f].lockedBy = entities[f].lockedBy
      BY <3>2, <3>4 DEF Receiving, Entity
    <3>6. ops \in Seq(Operation)
      BY BatchType
    <3> HIDE DEF ops
    <3>7. ASSUME NEW o \in Orchs PROVE GrantedTo(o)' \subseteq GrantedTo(o)
      <4> DEFINE n == Cardinality({j \in DOMAIN ops : ops[j].caller = o})
                 ev == [kind |-> "result", entity |-> e]
      <4>1. inbox'[o] = inbox[o] \o [j \in 1..n |-> ev]
        BY <3>1 DEF Answered
      <4>2. n \in Nat
        <5> DEFINE S == {j \in DOMAIN ops : ops[j].caller = o}
        <5>1. S \in SUBSET (1..Len(ops)) /\ IsFiniteSet(1..Len(ops))
          BY <3>6, FS_Interval
        <5> HIDE DEF S
        <5>2. Cardinality(S) \in Nat
          BY <5>1, FS_Subset, FS_CardinalityType
        <5> QED
          BY <5>2 DEF S
      <4>3. ev.kind # "granted"
        OBVIOUS
      <4> HIDE DEF n, ev
      <4> QED
        BY <4>1, <4>2, <4>3, GrantsSeen
    <3> QED
      BY <3>5, <3>7
  <2> QED
    BY <2>2, <2>3
<1>4. ASSUME GetWorkItems \/ \E e \in Entities : SignalEntity(e) \/ AbandonTaskEntityWorkItem(e)
      PROVE  /\ \A f \in Entities : entities'[f].lockedBy = entities[f].lockedBy
             /\ \A o \in Orchs : GrantedTo(o)' \subseteq GrantedTo(o)
  <2>1. \A ent \in Entity : /\ \A operation : Receiving(ent, operation).lockedBy = ent.lockedBy
                            /\ Dispatching(ent).lockedBy = ent.lockedBy
                            /\ Restored(ent).lockedBy = ent.lockedBy
    BY DEF Receiving, Dispatching, Restored, Entity
  <2>2. inbox' = inbox
    BY <1>4 DEF GetWorkItems, SignalEntity, AbandonTaskEntityWorkItem
  <2>3. \/ entities' = entities
        \/ \E e : \/ \E operation : entities' = [entities EXCEPT ![e] = Receiving(@, operation)]
                  \/ entities' = [entities EXCEPT ![e] = Dispatching(@)]
                  \/ entities' = [entities EXCEPT ![e] = Restored(@)]
    BY <1>4 DEF GetWorkItems, SignalEntity, Accept, AbandonTaskEntityWorkItem
  <2>4. \A f \in Entities : entities'[f].lockedBy = entities[f].lockedBy
    BY <1>1, <2>1, <2>3, TypeFacts
  <2> QED
    BY <2>2, <2>4 DEF GrantedTo
<1>5. /\ \A f \in Entities : entities'[f].lockedBy = entities[f].lockedBy
      /\ \A o \in Orchs : GrantedTo(o)' \subseteq GrantedTo(o)
  BY <1>3, <1>4, CleaningKeepsOut DEF EntityStep
<1> QED
  BY <1>2, <1>5, LocksFrame

LEMMA OrchestrationStepKeepsLocks ==
  ASSUME TypeOK, LockInv, OrchestrationStep
  PROVE  LockInv' /\ (OwnedInv /\ Exits \subseteq {"inside"} => OwnedInv')
<1>1. PICK o \in Orchs :
        \/ SeeEvent(o) \/ LeaveSection(o) \/ End(o)
        \/ \E S \in LockSets : RequestLock(o, S)
        \/ \E e \in Entities : SignalFromOrchestration(o, e) \/ CallEntity(o, e)
  BY DEF OrchestrationStep
<1>2. CASE SeeEvent(o)
  BY <1>2, SeeEventKeepsLocks
<1>3. CASE \E S \in LockSets : RequestLock(o, S)
  BY <1>3, RequestKeepsLocks
<1>4. CASE /\ orch[o].section # None /\ Where(o) \in Exits /\ sections' = sections
           /\ \E over \in BOOLEAN : Unlock(o, over)
  <2>1. Exits \subseteq {"inside"} => Where(o) = "inside"
    BY <1>4
  <2> QED
    BY <1>4, <2>1, UnlockKeepsLocks
<1>5. CASE /\ orch[o].section = None /\ orch' = [orch EXCEPT ![o] = Outside(TRUE)]
           /\ UNCHANGED <<entities, lockRequests, inbox, sections>>
  <2>1. \A p \in Orchs : /\ orch'[p].section = orch[p].section
                         /\ orch[p].section # None => orch'[p] = orch[p]
    BY <1>5, TypeFacts DEF Outside
  <2>2. \A p \in Orchs : GrantedTo(p)' = GrantedTo(p)
    BY <1>5 DEF GrantedTo
  <2> QED
    BY <1>5, <2>1, <2>2, LocksFrame
<1>6. CASE LeaveSection(o) \/ End(o)
  <2>1. LeaveSection(o) => /\ orch[o].section # None /\ Where(o) \in Exits
                           /\ sections' = sections /\ Unlock(o, FALSE)
    BY DEF LeaveSection, IsInside
  <2>2. End(o) /\ orch[o].section # None =>
          Where(o) \in Exits /\ sections' = sections /\ Unlock(o, TRUE)
    BY DEF End
  <2>3. End(o) /\ orch[o].section = None =>
          /\ orch' = [orch EXCEPT ![o] = Outside(TRUE)]
          /\ UNCHANGED <<entities, lockRequests, inbox, sections>>
    BY DEF End, backend
  <2>4. CASE LeaveSection(o)
    BY <1>4, <2>1, <2>4
  <2>5. CASE End(o) /\ orch[o].section # None
    BY <1>4, <2>2, <2>5
  <2>6. CASE End(o) /\ orch[o].section = None
    BY <1>5, <2>3, <2>6
  <2> QED
    BY <1>6, <2>4, <2>5, <2>6
<1>7. ASSUME NEW e \in Entities, SignalFromOrchestration(o, e) \/ CallEntity(o, e)
      PROVE  LockInv' /\ (OwnedInv => OwnedInv')
  <2>1. \E operation : entities' = [entities EXCEPT ![e] = Receiving(@, operation)]
    BY <1>7 DEF SignalFromOrchestration, CallEntity, Accept
  <2>2. \A f \in Entities : entities[f] \in Entity
    BY TypeFacts
  <2>3. \A ent \in Entity : \A operation : Receiving(ent, operation).lockedBy = ent.lockedBy
    BY DEF Receiving, Entity
  <2>4. \A f \in Entities : entities'[f].lockedBy = entities[f].lockedBy
    BY <2>1, <2>2, <2>3, TypeFacts
  <2>5. \A ctx \in Context : /\ Lent(ctx, e).section = ctx.section
                             /\ Lent(ctx, e).asked = ctx.asked
                             /\ Lent(ctx, e).waiting = ctx.waiting
    BY DEF Lent, Context
  <2>6. orch' = orch \/ orch' = [orch EXCEPT ![o] = Lent(@, e)]
    BY <1>7 DEF SignalFromOrchestration, CallEntity
  <2>7. \A p \in Orchs : /\ orch'[p].section = orch[p].section
                         /\ orch'[p].asked = orch[p].asked
                         /\ orch'[p].waiting = orch[p].waiting
    BY <2>5, <2>6, TypeFacts
  <2>8. UNCHANGED <<inbox, lockRequests, sections>>
    BY <1>7 DEF SignalFromOrchestration, CallEntity
  <2>9. \A p \in Orchs : GrantedTo(p)' = GrantedTo(p)
    BY <2>8 DEF GrantedTo
  <2> QED
    BY <2>4, <2>7, <2>8, <2>9, LocksFrame
<1> QED
  BY <1>1, <1>2, <1>3, <1>6, <1>7

LEMMA LockStep ==
  ASSUME TypeOK, LockInv, [Next]_vars, Cleaning = {}
  PROVE  LockInv' /\ (OwnedInv /\ Exits \subseteq {"inside"} => OwnedInv')
<1>1. CASE UNCHANGED vars
  <2>1. \A p \in Orchs : GrantedTo(p)' = GrantedTo(p)
    BY <1>1 DEF GrantedTo, vars
  <2> QED
    BY <1>1, <2>1, LocksFrame DEF vars, backend
<1> QED
  BY <1>1, EntityStepKeepsLocks, OrchestrationStepKeepsLocks DEF Next

LEMMA LockInit == Init => LockInv /\ OwnedInv
<1> SUFFICES ASSUME Init PROVE LockInv /\ OwnedInv
  OBVIOUS
<1>1. /\ \A o \in Orchs : orch[o].section = None
      /\ \A e \in Entities : entities[e].lockedBy = None
      /\ lockRequests = {}
  BY DEF Init, Outside, NoEntity
<1>2. \A o \in Orchs : GrantedTo(o) = {}
  <2>1. \A o \in Orchs : inbox[o] = <<>>
    BY DEF Init
  <2> QED
    BY <2>1 DEF GrantedTo
<1> QED
  BY <1>1, <1>2 DEF LockInv, OwnedInv, Distinct, Numbered, Requested, Told, Inside, IsInside,
                    Waited, LocksOwned

(* Critical sections that are open at the same time share no entity,        *)
(* wherever orchestrations leave them or end, as long as no one cleans up   *)
(* the locks: a grant that comes too late is not taken for another.         *)
THEOREM ExclusionTheorem ==
  ASSUME Cleaning = {}
  PROVE  Spec => []LockExclusion
<1>1. Init => TypeOK /\ LockInv
  BY TypeInit, LockInit
<1>2. TypeOK /\ LockInv /\ [Next]_vars => (TypeOK /\ LockInv)'
  BY TypeStep, LockStep
<1>3. TypeOK /\ LockInv => LockExclusion
  <2> SUFFICES ASSUME TypeOK, LockInv, NEW o \in Orchs, NEW p \in Orchs, o # p,
                      IsInside(o), IsInside(p)
               PROVE  ToSet(orch[o].asked) \intersect ToSet(orch[p].asked) = {}
    BY DEF LockExclusion
  <2>1. Holds(o) /\ Holds(p) /\ orch[o].section # orch[p].section
    BY DEF LockInv, Inside, Distinct, IsInside
  <2> QED
    BY <2>1 DEF Holds
<1> QED
  BY <1>1, <1>2, <1>3, PTL DEF Spec

(* If critical sections are left only after their grant and with no call on *)
(* the way, every lock is that of a critical section whose orchestration    *)
(* has asked for the entity and will release it.                            *)
THEOREM OwnedTheorem ==
  ASSUME Cleaning = {}, Exits \subseteq {"inside"}
  PROVE  Spec => []LocksOwned
<1>1. Init => TypeOK /\ LockInv /\ OwnedInv
  BY TypeInit, LockInit
<1>2. TypeOK /\ LockInv /\ OwnedInv /\ [Next]_vars => (TypeOK /\ LockInv /\ OwnedInv)'
  BY TypeStep, LockStep
<1>3. OwnedInv => LocksOwned
  BY DEF OwnedInv
<1> QED
  BY <1>1, <1>2, <1>3, PTL DEF Spec

=============================================================================
