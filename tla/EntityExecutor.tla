---------------------------- MODULE EntityExecutor ----------------------------
(***************************************************************************)
(* A batch of entity operations on a worker (durabletask/worker.py,        *)
(* _execute_entity_batch and _EntityExecutor): the operations are executed *)
(* one after the other on a StateShim, which is committed after each that  *)
(* returns and rolled back after each that raises.                         *)
(*                                                                         *)
(* The state of an entity is an object of user code: "heap" holds the      *)
(* objects by number, so that an object that is changed in place is told   *)
(* from one that is replaced.  Its values are numbers; None is no state,   *)
(* Unencodable one that JSON cannot express.  What a backend does with     *)
(* batches is in EntityBackend; here it keeps what the worker tells it.    *)
(***************************************************************************)
EXTENDS Integers, Sequences, SequencesExt

CONSTANTS
  None,
  Unencodable,
  Values,          \* states that user code sets
  Known,           \* operations whose entity and method exist
  InPlaceMayFail,  \* an operation may raise that changed the state to go back to
  MaxOps,          \* bound: operations that arrive
  MaxSteps,        \* bound: changes and actions of one operation
  MaxAbandons      \* bound: batches that are abandoned

Op == 1..MaxOps

ASSUME OperationsAssumption == Known \subseteq Op /\ InPlaceMayFail \in BOOLEAN
ASSUME ValuesAssumption == Values \subseteq Nat \union {Unencodable}
ASSUME BoundAssumption == {MaxOps, MaxSteps, MaxAbandons} \subseteq Nat

VARIABLES
  arrived,     \* operations so far
  waiting,     \* operations of the entity that are with no worker
  stored,      \* its state at the backend
  answers,     \* operations that were answered and whether they succeeded
  sent,        \* actions of answered batches
  batch,       \* operations of the batch that is executed
  results,     \* whether each of them succeeded, so far
  inside,      \* user code is executing the next one
  steps,       \* what it has done so far
  heap,        \* objects that are or were the state
  shim,        \* StateShim
  log,         \* what user code saw and did, in answered batches
  attempt,     \* and in this one
  abandons

backend == <<arrived, waiting, stored, answers, sent, log, abandons>>
vars == <<backend, batch, results, inside, steps, heap, shim, attempt>>

-----------------------------------------------------------------------------
(* StateShim: the current state and the one to go back to are references.   *)

StateShim(object) ==
  [current |-> object, checkpoint |-> object, actions |-> <<>>, committed |-> 0]

Content(object) == IF object = 0 THEN None ELSE heap[object]

GetState == Content(shim.current)

SetState(v) ==
  IF v = None THEN /\ shim' = [shim EXCEPT !.current = 0]
                   /\ UNCHANGED heap
  ELSE /\ heap' = Append(heap, v)
       /\ shim' = [shim EXCEPT !.current = Len(heap) + 1]

AddOperationAction(action) == shim' = [shim EXCEPT !.actions = Append(@, action)]

GetOperationActions == SubSeq(shim.actions, 1, shim.committed)

Commit == [shim EXCEPT !.checkpoint = shim.current, !.committed = Len(shim.actions)]

(* Variants: only the state, or only the actions go back. *)
RollbackState == [shim EXCEPT !.current = shim.checkpoint]
RollbackActions == [shim EXCEPT !.actions = GetOperationActions]

Rollback == [shim EXCEPT !.current = shim.checkpoint, !.actions = GetOperationActions]

-----------------------------------------------------------------------------
(* Executing a batch *)

Executing == batch # <<>>
Position == Len(results) + 1

(* A state that is encoded, or none: what is false in Python is no state.   *)
Encoded(v) == IF v = 0 THEN None ELSE v

(* An operation that a client signals or an orchestration calls.            *)
Arrive ==
  /\ arrived < MaxOps
  /\ arrived' = arrived + 1
  /\ waiting' = Append(waiting, arrived + 1)
  /\ UNCHANGED <<stored, answers, sent, log, abandons, batch, results, inside, steps, heap,
                 shim, attempt>>

(* A work item with the operations that wait.                               *)
ExecuteEntityBatch ==
  /\ ~Executing /\ waiting # <<>>
  /\ batch' = waiting /\ waiting' = <<>>
  /\ heap' = IF stored = None THEN <<>> ELSE <<stored>>
  /\ shim' = StateShim(Len(heap'))
  /\ results' = <<>> /\ attempt' = <<>>
  /\ UNCHANGED <<arrived, stored, answers, sent, log, abandons, inside, steps>>

(* Variant: the batch ends with the first operation that fails. *)
BatchFailed == Position > Len(batch) \/ FALSE \in ToSet(results)

BatchOver == Position > Len(batch)

(* _EntityExecutor.execute, up to user code.                                *)
Execute ==
  /\ Executing /\ ~inside /\ ~BatchOver
  /\ batch[Position] \in Known
  /\ inside' = TRUE
  /\ steps' = [saw |-> GetState, count |-> 0, actions |-> <<>>, inPlace |-> FALSE]
  /\ UNCHANGED <<backend, batch, results, heap, shim, attempt>>

Ended(saw, ok, actions) ==
  /\ results' = Append(results, ok)
  /\ attempt' = Append(attempt, [saw |-> saw, ok |-> ok, left |-> GetState,
                                 actions |-> actions])
  /\ shim' = IF ok THEN Commit ELSE Rollback

(* No such entity or method.                                                *)
Refuse ==
  /\ Executing /\ ~inside /\ ~BatchOver
  /\ batch[Position] \notin Known
  /\ Ended(GetState, FALSE, <<>>)
  /\ UNCHANGED <<backend, batch, inside, steps, heap>>

-----------------------------------------------------------------------------
(* User code: EntityContext and DurableEntity *)

Step(inPlace, actions) ==
  /\ inside /\ steps.count < MaxSteps
  /\ steps' = [steps EXCEPT !.count = @ + 1, !.inPlace = @ \/ inPlace,
                            !.actions = @ \o actions]
  /\ UNCHANGED <<backend, batch, results, inside, attempt>>

Set(v) == Step(FALSE, <<>>) /\ SetState(v)
Delete == Step(FALSE, <<>>) /\ SetState(None)

(* The object that get_state returns is changed, without set_state: it may  *)
(* be the one to go back to.                                                *)
ChangeInPlace(v) ==
  /\ shim.current # 0
  /\ Step(shim.current = shim.checkpoint, <<>>)
  /\ heap' = [heap EXCEPT ![shim.current] = v]
  /\ UNCHANGED shim

(* Actions are told apart by the operation and the step they come from.     *)
Action(kind) == <<kind, batch[Position], steps.count>>

SignalEntity ==
  /\ Step(FALSE, <<Action("signal")>>)
  /\ AddOperationAction(Action("signal")) /\ UNCHANGED heap

ScheduleNewOrchestration ==
  /\ Step(FALSE, <<Action("start")>>)
  /\ AddOperationAction(Action("start")) /\ UNCHANGED heap

Return ==
  /\ inside /\ inside' = FALSE
  /\ Ended(steps.saw, TRUE, steps.actions)
  /\ UNCHANGED <<backend, batch, steps, heap>>

(* User code raises, or its result cannot be encoded.                       *)
Raise ==
  /\ inside /\ inside' = FALSE
  /\ steps.inPlace => InPlaceMayFail
  /\ Ended(steps.saw, FALSE, steps.actions)
  /\ UNCHANGED <<backend, batch, steps, heap>>

-----------------------------------------------------------------------------
(* The answer *)

Closed == batch' = <<>> /\ results' = <<>> /\ attempt' = <<>>

CompleteEntityTask ==
  /\ Executing /\ ~inside /\ BatchOver
  /\ GetState # Unencodable
  /\ stored' = Encoded(GetState)
  /\ answers' = answers \o [k \in DOMAIN results |-> [op |-> batch[k], ok |-> results[k]]]
  /\ sent' = sent \o GetOperationActions
  /\ log' = log \o attempt
  /\ Closed
  /\ UNCHANGED <<arrived, waiting, abandons, inside, steps, heap, shim>>

(* The state cannot be encoded: the work item is abandoned, with all that   *)
(* its operations did, and given out again.                                 *)
CancelEntityBatch ==
  /\ Executing /\ ~inside /\ BatchOver
  /\ GetState = Unencodable
  /\ waiting' = batch \o waiting
  /\ abandons' = abandons + 1
  /\ Closed
  /\ UNCHANGED <<arrived, stored, answers, sent, log, inside, steps, heap, shim>>

-----------------------------------------------------------------------------
Init ==
  /\ arrived = 0 /\ waiting = <<>> /\ stored = None
  /\ answers = <<>> /\ sent = <<>> /\ log = <<>> /\ abandons = 0
  /\ batch = <<>> /\ results = <<>> /\ attempt = <<>>
  /\ inside = FALSE /\ heap = <<>> /\ shim = StateShim(0)
  /\ steps = [saw |-> None, count |-> 0, actions |-> <<>>, inPlace |-> FALSE]

(* User code leaves an unencodable state only so often.                     *)
Settable == IF abandons < MaxAbandons THEN Values ELSE Values \ {Unencodable}

Next ==
  \/ Arrive \/ ExecuteEntityBatch \/ Execute \/ Refuse
  \/ \E v \in Settable : Set(v) \/ ChangeInPlace(v)
  \/ Delete \/ SignalEntity \/ ScheduleNewOrchestration
  \/ Return \/ Raise
  \/ CompleteEntityTask \/ CancelEntityBatch

Spec == Init /\ [][Next]_vars

(* The worker goes on, and user code ends.                                  *)
Fairness ==
  /\ WF_vars(ExecuteEntityBatch \/ Execute \/ Refuse)
  /\ WF_vars(Return \/ Raise)
  /\ WF_vars(CompleteEntityTask \/ CancelEntityBatch)

FairSpec == Spec /\ Fairness

-----------------------------------------------------------------------------
(* Properties *)

TypeOK ==
  /\ waiting \in Seq(Op) /\ batch \in Seq(Op) /\ results \in Seq(BOOLEAN)
  /\ stored \in Values \union {None}
  /\ {shim.current, shim.checkpoint} \subseteq 0..Len(heap)
  /\ shim.committed \in 0..Len(shim.actions)

Executed == log \o attempt

(* Every operation sees the state that the last successful one left, in its *)
(* own batch or an answered one: an operation that fails, a batch that is   *)
(* abandoned and the way of the state to the backend and back change        *)
(* nothing.                                                                 *)
StateOfLastSuccess ==
  \A k \in DOMAIN Executed :
    Executed[k].saw = IF k = 1 THEN None
                      ELSE IF Executed[k - 1].ok THEN Executed[k - 1].left
                      ELSE Executed[k - 1].saw

(* The signals and orchestrations that the backend is told of are those of  *)
(* the operations that succeeded, each once and in order.                   *)
ActionsOfSuccess ==
  sent = FlattenSeq([k \in DOMAIN log |-> IF log[k].ok THEN log[k].actions ELSE <<>>])

(* Every operation is answered with its own outcome, however the ones       *)
(* before it end.                                                           *)
OperationsAnswered ==
  \A i \in Op :
    arrived >= i ~> \E k \in DOMAIN answers \intersect DOMAIN log :
                      answers[k] = [op |-> i, ok |-> log[k].ok]
=============================================================================
