------------------------ MODULE OrchestrationExecutor ------------------------
(***************************************************************************)
(* One execution of an orchestrator by the worker (durabletask/worker.py,  *)
(* _OrchestrationExecutor and _RuntimeOrchestrationContext, with the tasks *)
(* of durabletask/task.py): the history and the new events are replayed    *)
(* through the user's generator, which yields tasks and is resumed when    *)
(* they complete; what it asked for and nobody confirmed is returned.      *)
(*                                                                         *)
(* The generator is a sequence of statements.  A statement makes some      *)
(* calls on the context and awaits nothing, its one task, all of them or   *)
(* any of them; it may catch what is raised.  Results are numbers: -1 for  *)
(* a failure, 1 for a result, the value of an external event.  Names of    *)
(* external events are model values, entities are numbers in sort order.   *)
(***************************************************************************)
EXTENDS Integers, FiniteSets, Sequences, SequencesExt

CONSTANTS
  Names,     \* names of external events, casefolded
  None,      \* no retry policy, no critical section, no result
  Match,     \* VersionMatchStrategy of the worker
  Failure    \* VersionFailureStrategy of the worker

ASSUME StrategyAssumption ==
  Match \in {"none", "strict", "currentOrOlder"} /\ Failure \in {"none", "fail", "reject"}

-----------------------------------------------------------------------------
(* Programs and events *)

(* "target" is the name of an activity, a sub-orchestration or an event, an *)
(* entity, the entities to lock or the save_events of continue_as_new.      *)
Call(op, target, policy) == [op |-> op, target |-> target, policy |-> policy]
Statement(await, calls, catch) == [await |-> await, calls |-> calls, catch |-> catch]

RetryPolicy(attempts, first, backoff, cap, timeout) ==
  [attempts |-> attempts, first |-> first, backoff |-> backoff, cap |-> cap,
   timeout |-> timeout]

(* "about" is what the event names beside an id, "value" a value or a time. *)
Event(type, id, about, value) == [type |-> type, id |-> id, about |-> about, value |-> value]

(* What an execution asks for, with the same fields.                        *)
Action(id, kind, about, value) == [id |-> id, kind |-> kind, about |-> about, value |-> value]

(* The runtime context and the executor before the first event.             *)
Start(script, version, worker, clock) ==
  [script |-> script, version |-> version, worker |-> worker, clock |-> clock,
   pc |-> 0, generator |-> "none", status |-> "running", error |-> "", now |-> 0,
   seq |-> 0, uuids |-> 0, actions |-> <<>>, tasks |-> <<>>, pending |-> <<>>,
   groups |-> <<>>, received |-> [n \in Names |-> <<>>],
   waiting |-> [n \in Names |-> <<>>], taken |-> [n \in Names |-> <<>>],
   asked |-> <<>>, section |-> None, locks |-> <<>>, lockPending |-> FALSE,
   saved |-> FALSE, suspended |-> FALSE, buffer |-> <<>>, log |-> <<>>]

Throw(c, error) == [c EXCEPT !.error = error]
Counted(c) == [c EXCEPT !.seq = @ + 1]
Without(f, k) == [j \in DOMAIN f \ {k} |-> f[j]]

(* _pending_actions is a dict: an action that is there keeps its place.     *)
Act(c, id, kind, about, value) ==
  [c EXCEPT !.actions = IF \E k \in DOMAIN @ : @[k].id = id THEN @
                        ELSE Append(@, Action(id, kind, about, value))]

-----------------------------------------------------------------------------
(* Tasks (durabletask/task.py) *)

(* "id" and "kind" are those of its action; a task belongs to the statement *)
(* that made it, and a retry timer to the task "retryOf" it retries.        *)
Task(c, id, kind, about, policy, retryOf) ==
  [id |-> id, kind |-> kind, about |-> about, policy |-> policy, retryOf |-> retryOf,
   attempt |-> 1, start |-> c.now, group |-> IF retryOf = 0 THEN c.pc ELSE 0,
   done |-> FALSE, failed |-> FALSE, value |-> 0]

(* The task of action id, which waits for an answer.                        *)
Pend(c, id, task) ==
  [c EXCEPT !.tasks = Append(@, task), !.pending = (id :> Len(c.tasks) + 1) @@ @]

NewAction(c, kind, about, value, policy, retryOf) ==
  LET d == Counted(c)
  IN Act(Pend(d, d.seq, Task(d, d.seq, kind, about, policy, retryOf)),
         d.seq, kind, about, value)

(* Children that are complete already are counted, and WhenAllTask forgets  *)
(* that count when it is less than all of them.                             *)
NewGroup(c, await) ==
  LET children == {h \in DOMAIN c.tasks : c.tasks[h].group = c.pc}
      done == {h \in children : c.tasks[h].done}
      complete == CASE await = "none" -> TRUE
                    [] await = "all" -> children # {} /\ done = children
                    [] OTHER -> done # {}
  IN [c EXCEPT !.groups = Append(@, [await |-> await, size |-> Cardinality(children),
                                     count |-> 0, complete |-> complete,
                                     failed |-> FALSE])]

(* WhenAllTask.on_child_completed *)
AllChild(c, g, failed) ==
  LET group == c.groups[g]
      count == group.count + 1
      settled == [c EXCEPT !.groups[g].count = count,
                           !.groups[g].complete = failed \/ count = group.size,
                           !.groups[g].failed = failed]
  IN IF group.complete THEN Throw(c, "completed twice")
     ELSE IF failed /\ count = group.size THEN Throw(settled, "last child failed")
     ELSE settled

(* WhenAnyTask.on_child_completed *)
AnyChild(c, g) == [c EXCEPT !.groups[g].complete = TRUE]

(* A task that is awaited by itself, which is no composite in the code.     *)
OnlyChild(c, g, failed) ==
  [c EXCEPT !.groups[g].complete = TRUE, !.groups[g].failed = failed]

(* CompletableTask.complete and fail *)
Settle(c, h, value) ==
  LET failed == value = -1
      g == c.tasks[h].group
      d == [c EXCEPT !.tasks[h].done = TRUE, !.tasks[h].failed = failed,
                     !.tasks[h].value = value]
  IN IF g = 0 THEN d
     ELSE CASE c.groups[g].await = "none" -> d
            [] c.groups[g].await = "all" -> AllChild(d, g, failed)
            [] c.groups[g].await = "any" -> AnyChild(d, g)
            [] OTHER -> OnlyChild(d, g, failed)


(* RetryableTask.compute_next_delay, which reads the clock.                 *)
NextDelay(c, t) ==
  LET backoff == t.policy.first * t.policy.backoff ^ (t.attempt - 1)
  IN IF t.attempt >= t.policy.attempts \/ c.clock >= t.start + t.policy.timeout
     THEN None
     ELSE IF backoff < t.policy.cap THEN backoff ELSE t.policy.cap

-----------------------------------------------------------------------------
(* Critical sections: OrchestrationEntityContext *)

(* Once the locks are granted, available_locks and critical_section_locks   *)
(* are one and the same list; before that available_locks is empty.         *)
Inside(c) == c.section # None
Available(c) == IF c.lockPending THEN {} ELSE ToSet(c.locks)

(* validate_operation_transition, for a call and for a signal; a lock is    *)
(* lent to the call of its entity.                                          *)
MayCall(c, e) == Inside(c) => e \in Available(c)
MaySignal(c, e) == Inside(c) => e \notin ToSet(c.locks)
Lent(c, e) == IF Inside(c) THEN [c EXCEPT !.locks = RemoveFirst(@, e)] ELSE c

(* emit_acquire_message: the locks in their global order, each once.        *)
EmitAcquire(c, section, entities) ==
  [c EXCEPT !.section = section, !.lockPending = TRUE,
            !.locks = SetToSortSeq(entities, <)]

ExitCriticalSection(c) ==
  IF ~Inside(c) THEN c
  ELSE LET Unlock(d, e) == LET n == Counted(d)
                           IN Act(n, n.seq, "unlock", c.section, e)
       IN [FoldLeft(Unlock, c, c.locks) EXCEPT !.section = None, !.locks = <<>>]

CompleteAcquire(c, section) ==
  IF c.section # section THEN Throw(c, "unexpected lock") ELSE [c EXCEPT !.lockPending = FALSE]

RecoverLock(c, e) == IF Inside(c) THEN [c EXCEPT !.locks = Append(@, e)] ELSE c

-----------------------------------------------------------------------------
(* Completion *)

Finish(c, status) ==
  LET d == Counted(ExitCriticalSection(c))
  IN Act([d EXCEPT !.status = status], d.seq, "complete", status, 0)

SetComplete(c, status) == IF c.status # "running" THEN c ELSE Finish(c, status)
SetFailed(c) == IF c.status # "running" THEN c ELSE Finish(c, "failed")

SetContinuedAsNew(c, save) ==
  IF c.status # "running" THEN c
  ELSE [ExitCriticalSection(c) EXCEPT !.status = "continued", !.saved = save]

(* The action that continues as new comes after all others.                 *)
GetActions(c) ==
  IF c.status # "continued" THEN c.actions
  ELSE Append(c.actions, Action(c.seq + 1, "complete", "continued", 0))

(* The unprocessed events a new generation starts with; a value that is     *)
(* false in Python, here 0, is carried over as no value at all.             *)
Carryover(c) ==
  LET Encoded(v) == IF v = 0 THEN None ELSE v
      Of(n) == [k \in DOMAIN c.received[n] |->
                  Event("eventRaised", 0, n, Encoded(c.received[n][k]))]
  IN IF c.saved THEN FlattenSeq([k \in 1..Cardinality(Names) |-> Of(SetToSeq(Names)[k])])
     ELSE <<>>

-----------------------------------------------------------------------------
(* Calls of the generator on the context *)

CreateTimer(c, delay, retryOf) ==
  NewAction(c, "createTimer", "timer", c.now + delay, None, retryOf)

CallActivity(c, call) == NewAction(c, "scheduleTask", call.target, 0, call.policy, 0)
CallSubOrchestrator(c, call) == NewAction(c, "createSub", call.target, 0, call.policy, 0)

(* call_activity_function_helper for a task that is tried again: its action *)
(* gets the same id.                                                        *)
CallAgain(c, h) ==
  LET t == c.tasks[h]
  IN Act([c EXCEPT !.pending = (t.id :> h) @@ @], t.id, t.kind, t.about, 0)

(* The action carries the request id, a new uuid.                           *)
CallEntity(c, e) ==
  LET called == NewAction([c EXCEPT !.uuids = @ + 1], "callEntity", e, c.uuids + 1, None, 0)
  IN IF MayCall(c, e) THEN Lent(called, e) ELSE Throw(Counted(c), "refused")

SignalEntity(c, e) ==
  LET d == Counted(c)
  IN IF ~MaySignal(c, e) THEN Throw(d, "refused")
     ELSE Act([d EXCEPT !.uuids = @ + 1], d.seq, "signalEntity", e, 0)

LockEntities(c, entities) ==
  LET section == c.uuids + 1
      requested == NewAction([c EXCEPT !.uuids = section], "lockEntities", entities,
                             section, None, 0)
  IN IF Inside(c) \/ entities = {} THEN Throw(Counted(c), "refused")
     ELSE EmitAcquire(requested, section, entities)

WaitForExternalEvent(c, n) ==
  LET h == Len(c.tasks) + 1
      task == Task(c, 0, "event", n, None, 0)
  IN IF c.received[n] = <<>>
     THEN [c EXCEPT !.tasks = Append(@, task), !.waiting[n] = Append(@, h)]
     ELSE LET v == Head(c.received[n])
          IN [c EXCEPT !.received[n] = Tail(@), !.taken[n] = Append(@, v),
                !.tasks = Append(@, [task EXCEPT !.done = TRUE, !.value = v])]

(* A call that raises ends the calls of its statement.                      *)
Perform(c, call) ==
  IF c.error # "" THEN c
  ELSE CASE call.op = "timer" -> CreateTimer(c, call.target, 0)
         [] call.op = "activity" -> CallActivity(c, call)
         [] call.op = "sub" -> CallSubOrchestrator(c, call)
         [] call.op = "call" -> CallEntity(c, call.target)
         [] call.op = "signal" -> SignalEntity(c, call.target)
         [] call.op = "lock" -> LockEntities(c, call.target)
         [] call.op = "unlock" -> ExitCriticalSection(c)
         [] call.op = "event" -> WaitForExternalEvent(c, call.target)
         [] OTHER -> SetContinuedAsNew(c, call.target)

-----------------------------------------------------------------------------
(* The generator *)

Stopped(c, error) == [c EXCEPT !.error = error, !.generator = "done"]

(* What user code sees when it is resumed after its current statement.      *)
Observe(c) ==
  LET children == SelectSeq(c.tasks, LAMBDA t : t.group = c.pc)
  IN IF c.pc = 0 \/ c.script[c.pc].await = "none" THEN c
     ELSE [c EXCEPT !.log = Append(@, [pc |-> c.pc, values |->
                                       [k \in DOMAIN children |-> children[k].value]])]

(* The calls of statement s have been made; one may have raised.            *)
Yield(c, s) ==
  IF c.error = "" THEN NewGroup(c, s.await)
  ELSE IF s.catch THEN NewGroup(Throw(c, ""), "none")
  ELSE Stopped(c, "user")

(* From one yield to the next.                                              *)
RunStatement(c) ==
  LET s == c.script[c.pc + 1]
  IN Yield(FoldLeft(Perform, [c EXCEPT !.pc = @ + 1], s.calls), s)

Awaiting(c) == c.pc > 0 /\ ~c.groups[c.pc].complete

(* send and throw; StopIteration completes the orchestration.               *)
Continue(c) ==
  LET d == Observe(c)
  IN IF c.error # "" \/ c.generator = "done" \/ Awaiting(c) THEN c
     ELSE IF c.pc > 0 /\ c.groups[c.pc].failed /\ ~c.script[c.pc].catch
     THEN Stopped(d, "user")
     ELSE IF c.pc = Len(c.script) THEN SetComplete(Stopped(d, ""), "completed")
     ELSE RunStatement(d)

(* The loop of resume: no more turns than statements that are left.         *)
Resume(c) ==
  IF c.error # "" THEN c
  ELSE IF c.generator = "none" THEN Throw(c, "no generator")
  ELSE FoldLeft(LAMBDA d, k : Continue(d), c, [k \in 1..Len(c.script) + 1 |-> k])

Run(c) == Resume([c EXCEPT !.generator = "running"])

-----------------------------------------------------------------------------
(* Events: confirmations of actions *)

(* 0 stands for no version, which compares below every other one.           *)
CompareVersions(source, default) ==
  IF source = default THEN 0 ELSE IF source < default THEN -1 ELSE 1

VersionFits(c) ==
  CASE Match = "none" -> TRUE
    [] Match = "strict" -> CompareVersions(c.version, c.worker) = 0
    [] OTHER -> CompareVersions(c.version, c.worker) <= 0

OrchestratorStarted(c, e) == [c EXCEPT !.now = e.value]

ExecutionStarted(c) == IF VersionFits(c) THEN Run(c) ELSE Throw(c, "version")

(* Variant: a confirmed action stays. *)
Peek(c, id) == c

Pop(c, id) == [c EXCEPT !.actions = SelectSeq(@, LAMBDA a : a.id # id)]
Pending(c, id) == SelectSeq(c.actions, LAMBDA a : a.id = id)

Confirmed(c, id, kind) ==
  LET action == Pending(c, id)
  IN IF action = <<>> \/ action[1].kind # kind THEN Throw(c, "nondeterminism")
     ELSE Pop(c, id)

(* Variant: the names are not compared. *)
AnyName(c, e, kind) == Confirmed(c, e.id, kind)

ConfirmedByName(c, e, kind) ==
  LET action == Pending(c, e.id)
  IN IF action # <<>> /\ action[1].about # e.about THEN Throw(c, "nondeterminism")
     ELSE Confirmed(c, e.id, kind)

TimerCreated(c, e) == Confirmed(c, e.id, "createTimer")
TaskScheduled(c, e) == ConfirmedByName(c, e, "scheduleTask")
SubOrchestrationCreated(c, e) == ConfirmedByName(c, e, "createSub")

EntityOperationCalled(c, e) ==
  LET d == Confirmed(c, e.id, "callEntity")
  IN IF d.error # "" THEN d
     ELSE [d EXCEPT !.asked = (e.value :> [id |-> e.id, entity |-> e.about]) @@ @]

EntityOperationSignaled(c, e) == Confirmed(c, e.id, "signalEntity")

EntityLockRequested(c, e) ==
  LET d == Confirmed(c, e.id, "lockEntities")
  IN IF d.error # "" THEN d
     ELSE [d EXCEPT !.asked = (e.value :> [id |-> e.id, entity |-> None]) @@ @]

(* All the unlocks of the critical section at once.                         *)
EntityUnlockSent(c, e) ==
  [c EXCEPT !.actions = SelectSeq(@, LAMBDA a : ~(a.kind = "unlock" /\ a.about = e.about))]

(* The same confirmations from a host that speaks the old entity protocol.  *)
EventSent(c, e) ==
  LET action == Pending(c, e.id)
      d == Pop(c, e.id)
      entity == IF action[1].kind = "callEntity" THEN action[1].about ELSE None
  IN IF action = <<>> \/ action[1].kind \notin {"callEntity", "lockEntities"} THEN d
     ELSE [d EXCEPT !.asked = (e.value :> [id |-> e.id, entity |-> entity]) @@ @]

-----------------------------------------------------------------------------
(* Events: results *)

Answered(c, id) == [c EXCEPT !.pending = Without(@, id)]

(* Variant: an answer nobody waits for is an error. *)
CompletedOnce(c, id, value) ==
  IF id \notin DOMAIN c.pending THEN Throw(c, "unexpected answer")
  ELSE Resume(Settle(Answered(c, id), c.pending[id], value))

(* An answer nobody waits for is ignored.                                   *)
Completed(c, id, value) ==
  IF id \notin DOMAIN c.pending THEN c
  ELSE Resume(Settle(Answered(c, id), c.pending[id], value))

(* The next attempt is scheduled with a timer, or the task has failed.      *)
FailedAttempt(c, id) ==
  LET h == c.pending[id]
      t == c.tasks[h]
      delay == IF t.policy = None THEN None ELSE NextDelay(c, t)
  IN IF id \notin DOMAIN c.pending THEN c
     ELSE IF delay = None THEN Completed(c, id, -1)
     ELSE CreateTimer([Answered(c, id) EXCEPT !.tasks[h].attempt = @ + 1], delay, h)

TaskCompleted(c, e) == Completed(c, e.id, 1)
TaskFailed(c, e) == FailedAttempt(c, e.id)
SubOrchestrationCompleted(c, e) == Completed(c, e.id, 1)
SubOrchestrationFailed(c, e) == FailedAttempt(c, e.id)

(* A retry timer schedules the next attempt and resumes nobody.             *)
TimerFired(c, e) ==
  LET h == c.pending[e.id]
      parent == c.tasks[h].retryOf
  IN IF e.id \notin DOMAIN c.pending THEN c
     ELSE IF parent = 0 THEN Completed(c, e.id, 1)
     ELSE CallAgain(Settle(Answered(c, e.id), h, 1), parent)

EntityLockGranted(c, e) ==
  LET id == c.asked[e.value].id
      d == CompleteAcquire([c EXCEPT !.asked = Without(@, e.value)], e.value)
  IN IF e.value \notin DOMAIN c.asked THEN c
     ELSE IF id \notin DOMAIN c.pending THEN [c EXCEPT !.asked = Without(@, e.value)]
     ELSE IF d.error # "" THEN d ELSE Completed(d, id, 1)

(* A request that is unknown is an error, unlike other unexpected answers.  *)
EntityOperationAnswered(c, e, value) ==
  LET call == c.asked[e.value]
      d == [c EXCEPT !.asked = Without(@, e.value)]
  IN IF e.value \notin DOMAIN c.asked THEN Throw(c, "unknown request")
     ELSE IF call.id \notin DOMAIN c.pending THEN d
     ELSE Completed(RecoverLock(d, call.entity), call.id, value)

EntityOperationCompleted(c, e) == EntityOperationAnswered(c, e, 1)
EntityOperationFailed(c, e) == EntityOperationAnswered(c, e, -1)

(* _handle_entity_event_raised: an answer in the old protocol.              *)
EntityEventRaised(c, e) ==
  LET call == c.asked[e.about]
      d == IF call.entity = None THEN CompleteAcquire(c, e.about)
           ELSE RecoverLock(c, call.entity)
  IN IF call.id \notin DOMAIN c.pending THEN Throw(c, "unknown request")
     ELSE IF d.error # "" THEN d ELSE Completed(d, call.id, 1)

(* Variant: the generator is not resumed. *)
EventOnly(c, e) ==
  LET n == e.about
  IN IF n \in DOMAIN c.asked THEN EntityEventRaised(c, e)
     ELSE IF c.waiting[n] = <<>> THEN [c EXCEPT !.received[n] = Append(@, e.value)]
     ELSE Settle([c EXCEPT !.waiting[n] = Tail(@), !.taken[n] = Append(@, e.value)],
                 Head(c.waiting[n]), e.value)

(* An external event goes to the task that has waited longest for its name, *)
(* or is kept.                                                              *)
EventRaised(c, e) ==
  LET n == e.about
      d == [c EXCEPT !.waiting[n] = Tail(@), !.taken[n] = Append(@, e.value)]
  IN IF n \in DOMAIN c.asked THEN EntityEventRaised(c, e)
     ELSE IF c.waiting[n] = <<>> THEN [c EXCEPT !.received[n] = Append(@, e.value)]
     ELSE Resume(Settle(d, Head(c.waiting[n]), e.value))

-----------------------------------------------------------------------------
(* Suspension and termination *)

ExecutionSuspended(c) == [c EXCEPT !.suspended = TRUE]
ExecutionTerminated(c) == SetComplete(c, "terminated")

Handle(c, e) ==
  CASE e.type = "orchestratorStarted" -> OrchestratorStarted(c, e)
    [] e.type = "executionStarted" -> ExecutionStarted(c)
    [] e.type = "timerCreated" -> TimerCreated(c, e)
    [] e.type = "timerFired" -> TimerFired(c, e)
    [] e.type = "taskScheduled" -> TaskScheduled(c, e)
    [] e.type = "taskCompleted" -> TaskCompleted(c, e)
    [] e.type = "taskFailed" -> TaskFailed(c, e)
    [] e.type = "subOrchestrationInstanceCreated" -> SubOrchestrationCreated(c, e)
    [] e.type = "subOrchestrationInstanceCompleted" -> SubOrchestrationCompleted(c, e)
    [] e.type = "subOrchestrationInstanceFailed" -> SubOrchestrationFailed(c, e)
    [] e.type = "eventRaised" -> EventRaised(c, e)
    [] e.type = "executionSuspended" -> ExecutionSuspended(c)
    [] e.type = "executionTerminated" -> ExecutionTerminated(c)
    [] e.type = "entityOperationCalled" -> EntityOperationCalled(c, e)
    [] e.type = "entityOperationSignaled" -> EntityOperationSignaled(c, e)
    [] e.type = "entityLockRequested" -> EntityLockRequested(c, e)
    [] e.type = "entityUnlockSent" -> EntityUnlockSent(c, e)
    [] e.type = "entityLockGranted" -> EntityLockGranted(c, e)
    [] e.type = "entityOperationCompleted" -> EntityOperationCompleted(c, e)
    [] e.type = "entityOperationFailed" -> EntityOperationFailed(c, e)
    [] e.type = "eventSent" -> EventSent(c, e)
    [] OTHER -> Throw(c, "unknown event")

(* The events that were held back, in order.  If one of them suspends again *)
(* the next is appended to the very list the loop goes over, for ever.      *)
ExecutionResumed(c) ==
  LET Replayed(d, e) == IF d.error # "" THEN d
                        ELSE IF d.suspended THEN Throw(d, "endless") ELSE Handle(d, e)
  IN [FoldLeft(Replayed, [c EXCEPT !.suspended = FALSE], c.buffer) EXCEPT !.buffer = <<>>]

(* _is_suspendable *)
Suspendable(e) == e.type \notin {"executionResumed", "executionTerminated"}

HandledWhenSuspended(c, e) == Handle(c, e)

HeldBack(c, e) == [c EXCEPT !.buffer = Append(@, e)]

ProcessEvent(c, e) ==
  IF c.error # "" THEN c
  ELSE CASE c.suspended /\ Suspendable(e) -> HeldBack(c, e)
         [] c.suspended /\ e.type = "executionResumed" -> ExecutionResumed(c)
         [] OTHER -> Handle(c, e)

(* What raises fails the orchestration, but for versions that do not fit.   *)
Excepted(c) ==
  CASE c.error \in {"", "endless"} -> c
    [] c.error = "version" /\ Failure # "fail" -> c
    [] OTHER -> SetFailed(c)

(* An exception ends the loop over the events.                              *)
Execute(script, version, worker, clock, old, new) ==
  Excepted(FoldLeft(ProcessEvent, Start(script, version, worker, clock), old \o new))
=============================================================================
