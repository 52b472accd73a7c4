---------------------------- MODULE EntityBackend ----------------------------
(***************************************************************************)
(* The entity half of InMemoryOrchestrationBackend                         *)
(* (durabletask/testing/in_memory_backend.py): operations of entities are  *)
(* queued, dispatched in batches, answered and abandoned, and orchestra-   *)
(* tions lock sets of entities for their critical sections.                *)
(*                                                                         *)
(* An orchestration is reduced to its OrchestrationEntityContext           *)
(* (durabletask/internal/orchestration_entity_context.py) and the events   *)
(* it has yet to see: it acts when it is dispatched for some event, and    *)
(* sends one message to an entity, or those that end its critical section. *)
(*                                                                         *)
(* Names, inputs and states are left out.  The operations of an entity are *)
(* numbered in the order in which they are accepted.  Completion tokens    *)
(* come from one counter and belong to one entity each; here they are      *)
(* counted per entity.                                                     *)
(***************************************************************************)
EXTENDS Integers, FiniteSets, Sequences, SequencesExt

CONSTANTS
  Entities,     \* entity ids
  Orchs,        \* orchestrations
  None,         \* no orchestration, no critical section, no entity
  LockSets,     \* what may be locked: sorted sequences of entities
  Exits,        \* states in which a critical section may be left
  Cleaning,     \* what clean_entity_storage is asked to do
  MaxOps,       \* bound: operations accepted per entity
  MaxSections,  \* bound: critical sections
  MaxAbandons   \* bound: abandoned batches

AllExits == {"waiting", "inside", "calling"}
AllCleaning == {"removeEmptyEntities", "releaseOrphanedLocks"}

ASSUME NoneAssumption == None \notin Entities \union Orchs \union Nat
ASSUME LockSetsAssumption ==
  \A S \in LockSets : S \in Seq(Entities) /\ S # <<>> /\ IsInjective(S)
ASSUME SwitchesAssumption == Exits \subseteq AllExits /\ Cleaning \subseteq AllCleaning
ASSUME BoundAssumption == {MaxOps, MaxSections, MaxAbandons} \subseteq Nat

VARIABLES
  entities,      \* _entities; token and exists say which incarnation it is
  entityQueue,   \* _entity_queue and _entity_queue_set
  inFlight,      \* _entity_in_flight
  lockRequests,  \* _pending_lock_requests, in the order of their sections
  batches,       \* entity work items a worker holds, per entity
  orch,          \* the entity context of an orchestration, and whether it is over
  inbox,         \* events for an orchestration that it has not seen
  accepted,      \* number of operations accepted, per entity
  executed,      \* number of operations whose batch was answered, per entity
  sections,      \* critical sections requested so far
  abandons       \* batches abandoned so far

backend == <<entities, entityQueue, inFlight, lockRequests>>
vars == <<backend, batches, orch, inbox, accepted, executed, sections, abandons>>

-----------------------------------------------------------------------------
(* Data *)

Section == 1..MaxSections

(* The number-th operation of an entity, called by an orchestration or not. *)
Operation == [number : Nat, caller : Orchs \union {None}]

Entity == [exists : BOOLEAN, empty : BOOLEAN, lockedBy : Section \union {None},
           pending : Seq(Operation), dispatched : Seq(Operation), token : Nat]

LockRequest == [section : Section, parent : Orchs, lockSet : LockSets]
Batch == [token : Nat, ops : Seq(Operation)]
Inbox == [kind : {"granted"}, section : Section]
           \union [kind : {"result"}, entity : Entities]

(* "waiting" is lock_acquisition_pending, "locks" critical_section_locks and *)
(* "available" available_locks; "asked" is what "locks" was to begin with.  *)
Context == [section : Section \union {None}, waiting : BOOLEAN, asked : LockSets \union {<<>>},
            locks : Seq(Entities), available : Seq(Entities), over : BOOLEAN]

Outside(over) == [section |-> None, waiting |-> FALSE, asked |-> <<>>, locks |-> <<>>,
                  available |-> <<>>, over |-> over]

(* An entity that does not exist, before its token-th incarnation. *)
NoEntity(token) ==
  [exists |-> FALSE, empty |-> TRUE, lockedBy |-> None, pending |-> <<>>,
   dispatched |-> <<>>, token |-> token]

Enqueue(q, e) ==
  IF e \in q.set THEN q
  ELSE [seq |-> Append(q.seq, e), set |-> q.set \union {e}]

(* _queue_entity_operation: an entity comes into being with its first one.  *)
Receiving(ent, operation) ==
  [ent EXCEPT !.exists = TRUE, !.pending = Append(ent.pending, operation)]

Accept(e, caller) ==
  /\ accepted[e] < MaxOps
  /\ accepted' = [accepted EXCEPT ![e] = @ + 1]
  /\ entities' = [entities EXCEPT ![e] =
                    Receiving(@, [number |-> accepted[e] + 1, caller |-> caller])]
  /\ entityQueue' = Enqueue(entityQueue, e)

-----------------------------------------------------------------------------
(* Operations and batches *)

SignalEntity(e) ==
  /\ Accept(e, None)
  /\ UNCHANGED <<inFlight, lockRequests, batches, orch, inbox, executed, sections,
                 abandons>>

(* Variant: the in-flight marks are not looked at. *)
NeverBusy(e) == FALSE

Busy(e) == e \in inFlight

HasWork(k) ==
  LET e == entityQueue.seq[k] IN entities[e].pending # <<>> /\ ~Busy(e)

Popped(q, k) ==
  [seq |-> SubSeq(q.seq, k + 1, Len(q.seq)), set |-> q.set \ ToSet(SubSeq(q.seq, 1, k))]

(* All the operations of an entity make a batch. *)
Dispatching(ent) == [ent EXCEPT !.dispatched = ent.pending, !.pending = <<>>]

(* Entities without operations and those in flight are dropped from the    *)
(* queue up to the first other one, which hands out all its operations.     *)
GetWorkItems ==
  /\ entityQueue.seq # <<>>
  /\ \/ \E k \in 1..Len(entityQueue.seq) :
          LET e == entityQueue.seq[k]
          IN  /\ HasWork(k) /\ \A j \in 1..(k - 1) : ~HasWork(j)
              /\ entityQueue' = Popped(entityQueue, k)
              /\ entities' = [entities EXCEPT ![e] = Dispatching(@)]
              /\ inFlight' = inFlight \union {e}
              /\ batches' = [batches EXCEPT ![e] =
                               Append(@, [token |-> entities[e].token,
                                          ops |-> entities[e].pending])]
     \/ /\ \A k \in 1..Len(entityQueue.seq) : ~HasWork(k)
        /\ entityQueue' = Popped(entityQueue, Len(entityQueue.seq))
        /\ UNCHANGED <<entities, inFlight, batches>>
  /\ UNCHANGED <<lockRequests, orch, inbox, accepted, executed, sections, abandons>>

(* The callers in ops hear of the results, in order. *)
Answered(e, ops) ==
  [o \in Orchs |->
     inbox[o] \o [k \in 1..Cardinality({j \in DOMAIN ops : ops[j].caller = o}) |->
                    [kind |-> "result", entity |-> e]]]

IsCurrent(e, k) == entities[e].exists /\ entities[e].token = batches[e][k].token

(* Variant: an entity with more to do is not put back into the queue. *)
QueuedOnce(q, e, more) == q

(* After an answer, an entity with more to do is put back into the queue. *)
Requeued(q, e, more) == IF more THEN Enqueue(q, e) ELSE q

(* The batch is over and the token another; the state is set or deleted. *)
Executed(ent, empty) ==
  [ent EXCEPT !.empty = empty, !.dispatched = <<>>, !.token = ent.token + 1]

(* A batch of e is done, and its operations may have signalled another      *)
(* entity, or e itself.                                                     *)
Commit(e, ops, empty, t) ==
  LET signal == [number |-> accepted[t] + 1, caller |-> None]
      after == [entities EXCEPT ![e] = Executed(@, empty)]
      q == IF t = None THEN entityQueue ELSE Enqueue(entityQueue, t)
  IN  /\ entities' = IF t = None THEN after
                     ELSE [after EXCEPT ![t] = Receiving(@, signal)]
      /\ accepted' = IF t = None THEN accepted ELSE [accepted EXCEPT ![t] = @ + 1]
      /\ inFlight' = inFlight \ {e}
      /\ inbox' = Answered(e, ops)
      /\ executed' = [executed EXCEPT ![e] = @ + Len(ops)]
      /\ entityQueue' = Requeued(q, e, entities'[e].pending # <<>>)

(* The k-th batch held of e is answered. *)
CompleteEntityTask(e) ==
  \E k \in 1..Len(batches[e]), empty \in BOOLEAN, t \in Entities \union {None} :
    /\ batches' = [batches EXCEPT ![e] = RemoveAt(@, k)]
    /\ t # None => accepted[t] < MaxOps
    /\ IF IsCurrent(e, k) THEN Commit(e, batches[e][k].ops, empty, t)
       ELSE UNCHANGED <<entities, accepted, inFlight, inbox, executed, entityQueue>>
    /\ UNCHANGED <<lockRequests, orch, sections, abandons>>

(* Variant: the operations come back behind those that arrived meanwhile. *)
RestoredLast(ent) ==
  [ent EXCEPT !.pending = ent.pending \o ent.dispatched, !.dispatched = <<>>]

Restored(ent) ==
  [ent EXCEPT !.pending = ent.dispatched \o ent.pending, !.dispatched = <<>>]

AbandonTaskEntityWorkItem(e) ==
  \E k \in 1..Len(batches[e]) :
    /\ abandons < MaxAbandons /\ abandons' = abandons + 1
    /\ batches' = [batches EXCEPT ![e] = RemoveAt(@, k)]
    /\ IF IsCurrent(e, k)
       THEN /\ entities' = [entities EXCEPT ![e] = Restored(entities[e])]
            /\ inFlight' = inFlight \ {e}
            /\ entityQueue' = Enqueue(entityQueue, e)
       ELSE UNCHANGED <<entities, inFlight, entityQueue>>
    /\ UNCHANGED <<lockRequests, orch, inbox, accepted, executed, sections>>

-----------------------------------------------------------------------------
(* Orchestrations: operations *)

IsInside(o) == orch[o].section # None /\ ~orch[o].waiting

SignalFromOrchestration(o, e) ==
  /\ ~orch[o].over
  /\ e \notin ToSet(orch[o].locks)
  /\ Accept(e, None)
  /\ UNCHANGED <<inFlight, lockRequests, batches, orch, inbox, executed, sections,
                 abandons>>

(* In a critical section a call takes its lock out of available_locks and   *)
(* its result puts it back.  Once the locks are granted critical_section_-  *)
(* locks is the same list.                                                  *)
Lent(ctx, e) ==
  IF ctx.section = None THEN ctx
  ELSE [ctx EXCEPT !.available = RemoveFirst(@, e),
                   !.locks = IF ctx.waiting THEN @ ELSE RemoveFirst(@, e)]

Returned(ctx, e) ==
  IF ctx.section = None THEN ctx
  ELSE [ctx EXCEPT !.available = Append(@, e),
                   !.locks = IF ctx.waiting THEN @ ELSE Append(@, e)]

CallEntity(o, e) ==
  /\ ~orch[o].over
  /\ orch[o].section # None => e \in ToSet(orch[o].available)
  /\ Accept(e, o)
  /\ orch' = [orch EXCEPT ![o] = Lent(@, e)]
  /\ UNCHANGED <<inFlight, lockRequests, batches, inbox, executed, sections, abandons>>

(* complete_acquire, unless the critical section is another by now. *)
Acquired(ctx, section) ==
  IF ctx.section # section THEN ctx
  ELSE [ctx EXCEPT !.available = ctx.locks, !.waiting = FALSE]

(* The orchestration sees its next event. *)
SeeEvent(o) ==
  /\ inbox[o] # <<>>
  /\ inbox' = [inbox EXCEPT ![o] = Tail(@)]
  /\ LET ev == Head(inbox[o])
     IN  orch' = [orch EXCEPT ![o] = IF ev.kind = "granted" THEN Acquired(@, ev.section)
                                     ELSE Returned(@, ev.entity)]
  /\ UNCHANGED <<backend, batches, accepted, executed, sections, abandons>>

-----------------------------------------------------------------------------
(* Locks *)

(* What locked_by says of an entity locked for a request. *)
Holder(r) == r.section

(* _grant_lock for some requests that share no entity: an entity comes into *)
(* being with its first lock.                                               *)
LockedFor(ents, granted) ==
  [e \in Entities |->
     IF \E r \in granted : e \in ToSet(r.lockSet)
     THEN [ents[e] EXCEPT !.exists = TRUE,
             !.lockedBy = Holder(CHOOSE r \in granted : e \in ToSet(r.lockSet))]
     ELSE ents[e]]

Notified(granted) ==
  [o \in Orchs |->
     IF \E r \in granted : r.parent = o
     THEN Append(inbox[o], [kind |-> "granted",
                            section |-> (CHOOSE r \in granted : r.parent = o).section])
     ELSE inbox[o]]

(* Variant: the locks are granted although some are taken. *)
IsFreeAnyway(e) == TRUE

IsFree(e) == entities[e].lockedBy = None

(* A lock request is granted at once if it can be, or waits for an unlock.  *)
RequestLock(o, lockSet) ==
  LET section == sections + 1
      request == [section |-> section, parent |-> o, lockSet |-> lockSet]
  IN  /\ ~orch[o].over /\ orch[o].section = None
      /\ section \in Section
      /\ sections' = section
      /\ orch' = [orch EXCEPT ![o] = [section |-> section, waiting |-> TRUE,
                                      asked |-> lockSet, locks |-> lockSet,
                                      available |-> <<>>, over |-> FALSE]]
      /\ IF \A e \in ToSet(lockSet) : IsFree(e)
         THEN /\ entities' = LockedFor(entities, {request})
              /\ inbox' = Notified({request})
              /\ UNCHANGED lockRequests
         ELSE /\ lockRequests' = lockRequests \union {request}
              /\ UNCHANGED <<entities, inbox>>
      /\ UNCHANGED <<entityQueue, inFlight, batches, accepted, executed, abandons>>

(* The unlock messages of a critical section are handled one after the      *)
(* other, and after each of them the waiting requests are gone through in   *)
(* their order.  g says which message gets a request granted, if any (zero  *)
(* if none): the first at which its entities are free and not taken by a    *)
(* request granted before.                                                  *)
GrantedBefore(g, s, t, r) ==
  g[s] # 0 /\ (g[s] < t \/ (g[s] = t /\ s.section < r.section))

CanGrant(section, unlocks, g, t, r) ==
  \A e \in ToSet(r.lockSet) :
    /\ \/ IsFree(e)
       \/ entities[e].lockedBy = section /\ \E m \in 1..t : unlocks[m] = e
    /\ \A s \in lockRequests :
         GrantedBefore(g, s, t, r) => e \notin ToSet(s.lockSet)

(* Variant: nobody is told of an unlock. *)
NoGrants(section, unlocks) == {[r \in lockRequests |-> 0]}

Grants(section, unlocks) ==
  {g \in [lockRequests -> 0..Len(unlocks)] :
     \A r \in lockRequests :
       /\ g[r] # 0 => CanGrant(section, unlocks, g, g[r], r)
       /\ \A t \in 1..Len(unlocks) :
            g[r] = 0 \/ t < g[r] => ~CanGrant(section, unlocks, g, t, r)}

(* Variant: one message is sent for all the locks of a critical section. *)
FirstLock(o) == SubSeq(orch[o].locks, 1, 1)

(* What the unlock messages of an orchestration are about. *)
Unlocked(o) == orch[o].locks

(* emit_lock_release_messages and their handling. *)
Unlock(o, over) ==
  LET section == orch[o].section
      unlocks == Unlocked(o)
      freed == [e \in Entities |->
                  IF e \in ToSet(unlocks) /\ entities[e].lockedBy = section
                  THEN [entities[e] EXCEPT !.lockedBy = None] ELSE entities[e]]
  IN  \E g \in Grants(section, unlocks) :
        LET granted == {r \in lockRequests : g[r] # 0}
        IN  /\ entities' = LockedFor(freed, granted)
            /\ inbox' = Notified(granted)
            /\ lockRequests' = lockRequests \ granted
            /\ orch' = [orch EXCEPT ![o] = Outside(over)]

(* Where an orchestration is with respect to its critical section. *)
Where(o) ==
  IF orch[o].waiting THEN "waiting"
  ELSE IF ToSet(orch[o].asked) \subseteq ToSet(orch[o].locks) THEN "inside"
  ELSE "calling"

(* The user code leaves the block of its critical section. *)
LeaveSection(o) ==
  /\ IsInside(o)
  /\ Where(o) \in Exits
  /\ Unlock(o, FALSE)
  /\ UNCHANGED <<entityQueue, inFlight, batches, accepted, executed, sections, abandons>>

(* The orchestration completes, fails or is terminated. *)
End(o) ==
  /\ ~orch[o].over
  /\ IF orch[o].section = None
     THEN orch' = [orch EXCEPT ![o] = Outside(TRUE)] /\ UNCHANGED <<backend, inbox>>
     ELSE Where(o) \in Exits /\ Unlock(o, TRUE) /\ UNCHANGED <<entityQueue, inFlight>>
  /\ UNCHANGED <<batches, accepted, executed, sections, abandons>>

(* CleanEntityStorage.  No instance id is a critical section's id, so every *)
(* lock counts as orphaned.  Entities without state and pending operations  *)
(* are removed, with what is dispatched and their lock.                     *)
CleanEntityStorage ==
  LET removed == {e \in Entities : /\ "removeEmptyEntities" \in Cleaning
                                   /\ entities[e].exists /\ entities[e].empty
                                   /\ entities[e].pending = <<>>}
  IN  /\ Cleaning # {}
      /\ entities' = [e \in Entities |->
           IF e \in removed THEN NoEntity(entities[e].token + 1)
           ELSE IF "releaseOrphanedLocks" \in Cleaning
                THEN [entities[e] EXCEPT !.lockedBy = None] ELSE entities[e]]
      /\ entityQueue' = [entityQueue EXCEPT !.set = @ \ removed]
      /\ UNCHANGED <<inFlight, lockRequests, batches, orch, inbox, accepted, executed,
                     sections, abandons>>

-----------------------------------------------------------------------------
(* The specification *)

Init ==
  /\ entities = [e \in Entities |-> NoEntity(1)]
  /\ entityQueue = [seq |-> <<>>, set |-> {}]
  /\ inFlight = {}
  /\ lockRequests = {}
  /\ batches = [e \in Entities |-> <<>>]
  /\ orch = [o \in Orchs |-> Outside(FALSE)]
  /\ inbox = [o \in Orchs |-> <<>>]
  /\ accepted = [e \in Entities |-> 0] /\ executed = [e \in Entities |-> 0]
  /\ sections = 0 /\ abandons = 0

EntityStep ==
  \/ GetWorkItems \/ CleanEntityStorage
  \/ \E e \in Entities : \/ SignalEntity(e) \/ CompleteEntityTask(e)
                         \/ AbandonTaskEntityWorkItem(e)

OrchestrationStep ==
  \E o \in Orchs :
    \/ SeeEvent(o) \/ LeaveSection(o) \/ End(o)
    \/ \E S \in LockSets : RequestLock(o, S)
    \/ \E e \in Entities : SignalFromOrchestration(o, e) \/ CallEntity(o, e)

Next == EntityStep \/ OrchestrationStep

Spec == Init /\ [][Next]_vars

(* A worker polls and answers what it holds, orchestrations are dispatched  *)
(* while they have events, and user code does not stay in its critical      *)
(* section for ever.                                                        *)
Fairness ==
  /\ WF_vars(GetWorkItems)
  /\ \A e \in Entities : WF_vars(CompleteEntityTask(e))
  /\ \A o \in Orchs : WF_vars(SeeEvent(o)) /\ WF_vars(LeaveSection(o))

FairSpec == Spec /\ Fairness

-----------------------------------------------------------------------------
(* Properties *)

TypeOK ==
  /\ entities \in [Entities -> Entity]
  /\ entityQueue \in [seq : Seq(Entities), set : SUBSET Entities]
  /\ inFlight \subseteq Entities
  /\ lockRequests \subseteq LockRequest
  /\ batches \in [Entities -> Seq(Batch)]
  /\ orch \in [Orchs -> Context]
  /\ inbox \in [Orchs -> Seq(Inbox)]
  /\ accepted \in [Entities -> Nat] /\ executed \in [Entities -> Nat]
  /\ sections \in Nat /\ abandons \in Nat

(* The operations of an entity that are not executed yet are the last ones  *)
(* accepted, each once and in the order of acceptance, whatever is          *)
(* abandoned, and a worker that answers the current batch has executed the  *)
(* next of them: no operation is lost, repeated or overtaken.               *)
OperationsInOrder ==
  \A e \in Entities :
    LET waiting == entities[e].dispatched \o entities[e].pending
    IN  /\ accepted[e] = executed[e] + Len(waiting)
        /\ \A k \in DOMAIN waiting : waiting[k].number = executed[e] + k
        /\ \A k \in DOMAIN batches[e] :
             IsCurrent(e, k) => batches[e][k].ops = entities[e].dispatched

(* An entity executes one batch at a time. *)
SerialExecution == \A e \in Entities : Len(batches[e]) <= 1

(* An entity with operations to execute is queued, or is in flight and with *)
(* a worker whose answer will put it back into the queue (GetWorkItems      *)
(* drops entities in flight from the queue).                                *)
NoEntityForgotten ==
  \A e \in Entities : entities[e].pending # <<>> =>
    \/ e \in entityQueue.set /\ e \in ToSet(entityQueue.seq)
    \/ e \in inFlight /\ \E k \in DOMAIN batches[e] : IsCurrent(e, k)

(* While an orchestration is in a critical section no other is in one that  *)
(* shares an entity with it.                                                *)
LockExclusion ==
  \A o, p \in Orchs :
    o # p /\ IsInside(o) /\ IsInside(p) =>
      ToSet(orch[o].asked) \intersect ToSet(orch[p].asked) = {}

(* An entity is locked only by a critical section that some orchestration   *)
(* is in or about to enter: nobody leaves a lock behind.                    *)
LocksOwned ==
  \A e \in Entities : entities[e].lockedBy # None =>
    \E o \in Orchs : orch[o].section = entities[e].lockedBy
                      /\ e \in ToSet(orch[o].asked)

(* Every operation that was accepted is executed in the end. *)
OperationsExecuted ==
  \A e \in Entities, n \in 1..MaxOps : accepted[e] = n ~> executed[e] >= n

(* Every lock request is granted in the end, unless the orchestration ends. *)
(* (Critical sections are finitely many here: a request for two entities    *)
(* can be overtaken for ever by requests for either of them.)               *)
LockGranted == \A o \in Orchs : orch[o].waiting ~> ~orch[o].waiting

=============================================================================
