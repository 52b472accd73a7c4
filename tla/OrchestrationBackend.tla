------------------------ MODULE OrchestrationBackend ------------------------
(***************************************************************************)
(* The orchestration half of InMemoryOrchestrationBackend                  *)
(* (durabletask/testing/in_memory_backend.py): the table of instances, the *)
(* queue of orchestrations, the activities, timers and sub-orchestration   *)
(* watchers, the requests of clients and the answers of workers.           *)
(*                                                                         *)
(* Every handler of the backend runs under one re-entrant lock, so one     *)
(* handler is one action.  What interleaves are the handlers: clients, the *)
(* GetWorkItems stream, the worker's answers, timer threads and watcher    *)
(* threads, and the wait of a watcher, which happens outside the lock.     *)
(*                                                                         *)
(* Payloads, names and versions are left out.  An event is its kind, the   *)
(* number that tells it from others of its kind and the completion token   *)
(* its action was processed under (zero when it has none).                 *)
(***************************************************************************)
EXTENDS Integers, FiniteSets, Sequences, SequencesExt

CONSTANTS
  Ids,          \* instance ids
  None,         \* "no sub-orchestration in this response"
  Requests,     \* client and test operations that may be used
  Replaceable,  \* replaceableStatus of the id reuse policy of start requests
  Outcomes,     \* what a response may say of the execution
  SubOrchs,     \* TRUE: orchestrators start sub-orchestrations
  ActionIds,    \* sequence numbers of tasks and timers
  HistoryLimit, \* _max_history_size
  Faults,       \* kinds of faults that may happen
  MaxCalls,     \* bound: client operations
  MaxFaults,    \* bound: faults
  MaxToken,     \* bound: continue-as-new and sub-orchestrations stop here
  MaxTasks,     \* bound: activities scheduled by one response
  MaxWakes,     \* bound: timers created by one response
  MaxEvents     \* bound: a longer history schedules nothing

AllRequests == {"Start", "Raise", "Terminate", "Suspend", "Resume", "Purge",
                "Restart", "Reset"}
AllFaults == {"abandon", "lostReply", "lostAnswer", "abandonActivity", "crash",
              "watchTimeout"}
Terminal == {"COMPLETED", "FAILED", "TERMINATED"}
Statuses == {"NONE", "PENDING", "RUNNING", "SUSPENDED"} \union Terminal

ASSUME IdsAssumption == None \notin Ids
ASSUME RequestsAssumption == Requests \subseteq AllRequests
ASSUME PolicyAssumption == Replaceable \subseteq Statuses \ {"NONE"}
ASSUME OutcomesAssumption ==
  /\ Outcomes \subseteq {"none", "CONTINUED", "raise"} \union Terminal
  /\ {"none", "TERMINATED"} \subseteq Outcomes
ASSUME ActionsAssumption == ActionIds \subseteq Nat
ASSUME SwitchAssumption == SubOrchs \in BOOLEAN
ASSUME FaultsAssumption == Faults \subseteq AllFaults
ASSUME BoundAssumption ==
  {HistoryLimit, MaxCalls, MaxFaults, MaxToken, MaxTasks, MaxWakes, MaxEvents}
    \subseteq Nat

VARIABLES
  inst,           \* _instances; an absent instance has status "NONE"
  orchQueue,      \* _orchestration_queue and _orchestration_queue_set
  inFlight,       \* _orchestration_in_flight
  nextToken,      \* _next_completion_token
  activityQueue,  \* _activity_queue
  out,            \* orchestrator work items a worker holds, per instance
  running,        \* activity work items a worker holds
  timers,         \* fire_timer threads that sleep
  watchers,       \* watch threads and, when "waiting", their StateWaiter
  resend,         \* abandon requests that will be delivered once more
  calls,          \* client operations so far
  faults          \* faults so far

vars == <<inst, orchQueue, inFlight, nextToken, activityQueue, out, running,
          timers, watchers, resend, calls, faults>>

-----------------------------------------------------------------------------
(* Events, instances and work items *)

Kinds == {"OrchestratorStarted", "ExecutionStarted", "Raised", "Terminated",
          "Suspended", "Resumed", "TaskScheduled", "TaskDone", "TimerCreated",
          "TimerFired", "SubCreated", "SubCompleted", "SubFailed"}

Event == [kind : Kinds, id : Nat, tok : Nat]
NewEvent(kind, id, tok) == [kind |-> kind, id |-> id, tok |-> tok]
OrchestratorStarted == NewEvent("OrchestratorStarted", 0, 0)
ExecutionStarted == NewEvent("ExecutionStarted", 0, 0)

HasKind(evs, kind) == \E k \in DOMAIN evs : evs[k].kind = kind

(* "finished" is what replaying the history makes of the execution: a      *)
(* worker that once reported a completion reports it on every later        *)
(* dispatch of the same execution (set_complete is the first to win).      *)
Instance ==
  [status : Statuses, pending : Seq(Event), dispatched : Seq(Event),
   history : Seq(Event), token : Nat, finished : {"none"} \union Terminal]

Absent ==
  [status |-> "NONE", pending |-> <<>>, dispatched |-> <<>>,
   history |-> <<>>, token |-> 0, finished |-> "none"]

(* Variant: a created instance takes the token that was given out last. *)
FreshUnderOldToken(token) ==
  [status |-> "PENDING", pending |-> <<OrchestratorStarted, ExecutionStarted>>,
   dispatched |-> <<>>, history |-> <<>>, token |-> token - 1, finished |-> "none"]

Fresh(token) ==
  [status |-> "PENDING", pending |-> <<OrchestratorStarted, ExecutionStarted>>,
   dispatched |-> <<>>, history |-> <<>>, token |-> token, finished |-> "none"]

Exists(i) == inst[i].status # "NONE"
IsTerminal(i) == inst[i].status \in Terminal

(* Variant: what happens to a suspended instance is dropped. *)
ReceivesUnlessSuspended(i) == Exists(i) /\ ~IsTerminal(i) /\ inst[i].status # "SUSPENDED"

(* Timers and sub-orchestrations report to an instance that is not over. *)
Receives(i) == Exists(i) /\ ~IsTerminal(i)

(* Variant: the marks of in-flight instances are not looked at. *)
NeverBusy(i) == FALSE

(* A worker has a work item of i. *)
Busy(i) == i \in inFlight

(* Variant: the mark is left behind. *)
NotReleased(i) == inFlight

(* The mark is taken away from i. *)
Released(i) == inFlight \ {i}

WorkItem == [token : Nat, past : Seq(Event), new : Seq(Event)]
Activity == [inst : Ids, id : Nat, tok : Nat]
Watcher == [parent : Ids, sub : Ids, id : Nat, tok : Nat,
            phase : {"starting", "waiting", "orphaned", "completed", "failed"}]

-----------------------------------------------------------------------------
(* The queue of orchestrations *)

Enqueue(q, i) ==
  IF i \in q.set THEN q
  ELSE [seq |-> Append(q.seq, i), set |-> q.set \union {i}]

(* The id leaves the set and stays in the deque. *)
Discard(q, i) == [q EXCEPT !.set = @ \ {i}]

(* Pops the first k ids. *)
Popped(q, k) ==
  [seq |-> SubSeq(q.seq, k + 1, Len(q.seq)),
   set |-> q.set \ {q.seq[j] : j \in 1..k}]

(* Puts event e into the mailbox of i and i into the queue. *)
Post(i, e) ==
  /\ inst' = [inst EXCEPT ![i].pending = Append(@, e)]
  /\ orchQueue' = Enqueue(orchQueue, i)

-----------------------------------------------------------------------------
(* Requests of clients *)

Call(op) == op \in Requests /\ calls < MaxCalls /\ calls' = calls + 1

WorkerSide == <<activityQueue, out, running, timers, resend, faults>>

StartInstance(i) ==
  /\ Call("Start")
  /\ inst[i].status \in {"NONE"} \union Replaceable
  /\ inst' = [inst EXCEPT ![i] = Fresh(nextToken)]
  /\ orchQueue' =
       Enqueue(IF Exists(i) THEN Discard(orchQueue, i) ELSE orchQueue, i)
  /\ nextToken' = nextToken + 1
  /\ UNCHANGED <<inFlight, watchers, WorkerSide>>

RaiseEvent(i) ==
  /\ Call("Raise")
  /\ Exists(i)
  /\ Post(i, NewEvent("Raised", calls + 1, 0))
  /\ UNCHANGED <<inFlight, nextToken, watchers, WorkerSide>>

TerminateInstance(i) ==
  /\ Call("Terminate")
  /\ Exists(i) /\ ~IsTerminal(i)
  /\ Post(i, NewEvent("Terminated", calls + 1, 0))
  /\ UNCHANGED <<inFlight, nextToken, watchers, WorkerSide>>

SuspendInstance(i) ==
  /\ Call("Suspend")
  /\ Exists(i) /\ inst[i].status # "SUSPENDED"
  /\ Post(i, NewEvent("Suspended", calls + 1, 0))
  /\ UNCHANGED <<inFlight, nextToken, watchers, WorkerSide>>

ResumeInstance(i) ==
  /\ Call("Resume")
  /\ Exists(i)
  /\ Post(i, NewEvent("Resumed", calls + 1, 0))
  /\ UNCHANGED <<inFlight, nextToken, watchers, WorkerSide>>

(* _state_waiters.pop: the waiters of S are forgotten, never set. *)
DropWaiters(S) ==
  watchers' = {IF w.sub \in S /\ w.phase = "waiting"
               THEN [w EXCEPT !.phase = "orphaned"] ELSE w : w \in watchers}

(* Purges one instance, or all those that a filter lets through. *)
PurgeInstances(S) ==
  /\ Call("Purge")
  /\ \A i \in S : IsTerminal(i)
  /\ inst' = [i \in Ids |-> IF i \in S THEN Absent ELSE inst[i]]
  /\ DropWaiters(S)
  /\ UNCHANGED <<orchQueue, inFlight, nextToken, WorkerSide>>

(* Restarts i under its own id (j = i) or under a new one. *)
RestartInstance(i, j) ==
  /\ Call("Restart")
  /\ IsTerminal(i)
  /\ j = i \/ ~Exists(j)
  /\ inst' = [inst EXCEPT ![j] = Fresh(nextToken)]
  /\ orchQueue' =
       Enqueue(IF j = i THEN Discard(orchQueue, i) ELSE orchQueue, j)
  /\ IF j = i THEN DropWaiters({i}) ELSE UNCHANGED watchers
  /\ nextToken' = nextToken + 1
  /\ UNCHANGED <<inFlight, WorkerSide>>

(* Waiters are woken without a result, so their watchers end.  Work items  *)
(* in the hands of a worker and sleeping timers are not recalled.          *)
Reset ==
  /\ Call("Reset")
  /\ inst' = [i \in Ids |-> Absent]
  /\ orchQueue' = [seq |-> <<>>, set |-> {}]
  /\ activityQueue' = <<>>
  /\ inFlight' = {}
  /\ watchers' = {w \in watchers : w.phase # "waiting"}
  /\ UNCHANGED <<nextToken, out, running, timers, resend, faults>>

-----------------------------------------------------------------------------
(* GetWorkItems: one turn of the stream's loop *)

(* Position k of the deque is the first with events to dispatch. *)
FirstReady(k) ==
  /\ inst[orchQueue.seq[k]].pending # <<>>
  /\ \A j \in 1..(k - 1) : inst[orchQueue.seq[j]].pending = <<>>

TakeActivity ==
  IF activityQueue = <<>> THEN UNCHANGED <<activityQueue, running>>
  ELSE /\ activityQueue' = Tail(activityQueue)
       /\ running' = running \union {Head(activityQueue)}

DispatchOrchestration ==
  \E k \in 1..Len(orchQueue.seq) :
    LET i == orchQueue.seq[k]
        new == IF inst[i].history = <<>> THEN inst[i].pending
               ELSE <<OrchestratorStarted>> \o inst[i].pending
        item == [token |-> inst[i].token, past |-> inst[i].history, new |-> new]
    IN  /\ FirstReady(k)
        /\ ~Busy(i)
        /\ inst' = [inst EXCEPT ![i] = [@ EXCEPT !.dispatched = new, !.pending = <<>>]]
        /\ orchQueue' = Popped(orchQueue, k)
        /\ inFlight' = inFlight \union {i}
        /\ out' = [out EXCEPT ![i] = Append(@, item)]
        /\ UNCHANGED <<nextToken, activityQueue, running, timers, watchers,
                       resend, calls, faults>>

(* Variant: the instance is not put back. *)
RequeueDropped ==
  \E k \in 1..Len(orchQueue.seq) :
    /\ FirstReady(k)
    /\ Busy(orchQueue.seq[k])
    /\ orchQueue' = Popped(orchQueue, k)
    /\ TakeActivity
    /\ UNCHANGED <<inst, inFlight, nextToken, out, timers, watchers, resend,
                   calls, faults>>

(* The instance is with a worker: it goes to the back of the deque. *)
RequeueInFlight ==
  \E k \in 1..Len(orchQueue.seq) :
    /\ FirstReady(k)
    /\ Busy(orchQueue.seq[k])
    /\ orchQueue' = Enqueue(Popped(orchQueue, k), orchQueue.seq[k])
    /\ TakeActivity
    /\ UNCHANGED <<inst, inFlight, nextToken, out, timers, watchers, resend,
                   calls, faults>>

NoOrchestrationReady ==
  /\ \A k \in 1..Len(orchQueue.seq) : inst[orchQueue.seq[k]].pending = <<>>
  /\ orchQueue' = Popped(orchQueue, Len(orchQueue.seq))
  /\ TakeActivity
  /\ UNCHANGED <<inst, inFlight, nextToken, out, timers, watchers, resend,
                 calls, faults>>

GetWorkItems ==
  DispatchOrchestration \/ RequeueInFlight \/ NoOrchestrationReady

-----------------------------------------------------------------------------
(* CompleteOrchestratorTask *)

(* What a worker answers: the activities and timers it schedules (actions  *)
(* of different kinds commute, so they are grouped by kind), the sub-       *)
(* orchestration it starts, and what became of the execution.  In outcome   *)
(* "raise" the thread of the last timer cannot be started.                  *)
IdSeqs(n) ==
  {s \in UNION {[1..m -> ActionIds] : m \in 0..n} : IsInjective(s)}

Responses ==
  [tasks : IdSeqs(MaxTasks), wakes : IdSeqs(MaxWakes),
   sub : IF SubOrchs THEN Ids \union {None} ELSE {None}, outcome : Outcomes]

Schedules(r) == r.tasks # <<>> \/ r.wakes # <<>> \/ r.sub # None

(* The answers the executor can give to new events, after the history of    *)
(* me: an execution that is over reports its end again, one that is         *)
(* suspended or sees no event to act on makes no progress, a terminated one *)
(* completes.  (A suspended one may schedule: the confirmations of its      *)
(* actions are buffered with the other events, so it sends them again.  So  *)
(* may a failed one, whose replay stops at the failure, before them, and a  *)
(* terminated one, which goes on processing events.)                        *)
Answerable(i, me, new, r) ==
  LET terminated == HasKind(new, "Terminated")
      progress ==
        /\ me.status = "SUSPENDED" => HasKind(new, "Resumed")
        /\ \E k \in DOMAIN new :
             /\ new[k].kind \notin {"OrchestratorStarted", "Suspended"}
             /\ \A j \in 1..k : new[j].kind # "Terminated"
  IN  /\ r.sub # i
      /\ r.outcome = "raise" => r.wakes # <<>>
      /\ IF me.finished # "none"
         THEN /\ r.outcome = me.finished
              /\ Schedules(r) => me.finished # "COMPLETED"
         ELSE /\ r.outcome = "TERMINATED" => terminated
              /\ r.outcome = "none" => ~terminated
              /\ r.outcome \in {"COMPLETED", "FAILED", "CONTINUED"} => progress
      /\ Schedules(r) => Len(me.history) + Len(me.dispatched) < MaxEvents
      /\ r.sub # None \/ r.outcome = "CONTINUED" => nextToken < MaxToken

(* Variant: every commit sets the status anew. *)
CommittedRunning(status, new) == IF HasKind(new, "Suspended") THEN "SUSPENDED" ELSE "RUNNING"

(* The status after the new events are committed, before any action: the   *)
(* last suspend or resume event among them decides.                        *)
CommittedStatus(status, new) ==
  LET marks == {k \in DOMAIN new : new[k].kind \in {"Suspended", "Resumed"}}
      last == CHOOSE k \in marks : \A j \in marks : j <= k
  IN  IF marks # {}
      THEN IF new[last].kind = "Suspended" THEN "SUSPENDED" ELSE "RUNNING"
      ELSE IF status = "PENDING" THEN "RUNNING" ELSE status

(* Variant: the status is whatever the response says. *)
FinalStatusVerbatim(status, outcome) == outcome

FinalStatus(status, outcome) ==
  CASE outcome = "none" -> status
    [] outcome = "CONTINUED" -> "PENDING"
    [] outcome = "raise" -> IF status \in Terminal THEN status ELSE "FAILED"
    [] OTHER -> outcome

(* The history events that confirm the actions of r. *)
Confirmations(r, tok) ==
  [k \in 1..Len(r.tasks) |-> NewEvent("TaskScheduled", r.tasks[k], tok)]
    \o [k \in 1..Len(r.wakes) |-> NewEvent("TimerCreated", r.wakes[k], tok)]
    \o IF r.sub = None THEN <<>> ELSE <<NewEvent("SubCreated", 0, tok)>>

(* Raised events without a taker, the carryover of a continue-as-new with  *)
(* save_events: some of those received, each once, grouped by their names  *)
(* and so in any order.                                                    *)
Carryovers(evs) ==
  LET raised == {evs[k] : k \in {j \in DOMAIN evs : evs[j].kind = "Raised"}}
  IN  {c \in UNION {[1..n -> raised] : n \in 0..Cardinality(raised)} :
         IsInjective(c)}

(* _create_instance_internal refuses an id whose instance is not over. *)
Creatable(j) == ~Exists(j) \/ IsTerminal(j)

(* Variant: a continue-as-new drops what arrived in the meantime. *)
MailboxWithoutArrivals(me, r, carry) ==
  IF r.outcome = "CONTINUED" THEN <<OrchestratorStarted, ExecutionStarted>> \o carry
  ELSE me.pending

(* The mailbox after r: a refused sub-orchestration is reported first; a   *)
(* continue-as-new restarts with the carryover and then the new arrivals.  *)
Mailbox(me, r, carry) ==
  LET arrived == IF r.sub = None \/ Creatable(r.sub) THEN me.pending
                 ELSE Append(me.pending, NewEvent("SubFailed", 0, me.token))
  IN  IF r.outcome = "CONTINUED"
      THEN <<OrchestratorStarted, ExecutionStarted>> \o carry \o arrived
      ELSE arrived

(* The instance after an accepted answer, with its next token. *)
Committed(me, r, carry, token) ==
  [status |-> FinalStatus(CommittedStatus(me.status, me.dispatched), r.outcome),
   pending |-> Mailbox(me, r, carry),
   dispatched |-> <<>>,
   history |-> IF r.outcome = "CONTINUED" THEN <<>>
               ELSE me.history \o me.dispatched \o Confirmations(r, me.token),
   token |-> token,
   finished |-> IF r.outcome \in Terminal THEN r.outcome
                ELSE IF r.outcome = "CONTINUED" THEN "none" ELSE me.finished]

(* How the parent sees the end of a sub-orchestration. *)
Ended(status) == IF status = "COMPLETED" THEN "completed" ELSE "failed"

(* Variant: the watchers of a sub-orchestration that failed are dropped. *)
NotifiedOfSuccess(ws, i, status) ==
  {IF w.sub = i /\ w.phase = "waiting" /\ status = "COMPLETED"
   THEN [w EXCEPT !.phase = "completed"]
   ELSE w : w \in {v \in ws : v.sub = i => status \notin Terminal \ {"COMPLETED"}}}

(* Variant: the waiters of a sub-orchestration that failed are not woken. *)
NotifiedWhenCompleted(ws, i, status) ==
  {IF w.sub = i /\ w.phase = "waiting" /\ status = "COMPLETED"
   THEN [w EXCEPT !.phase = "completed"] ELSE w : w \in ws}

(* _notify_waiters: i is now in status. *)
Notified(ws, i, status) ==
  {IF w.sub = i /\ w.phase = "waiting" /\ status \in Terminal
   THEN [w EXCEPT !.phase = Ended(status)]
   ELSE w : w \in ws}

(* The answer r is accepted: commit, process the actions, rotate the token, *)
(* notify the waiters and put the instance back into the queue.             *)
Accept(i, r, carry) ==
  LET me == inst[i]
      created == r.sub # None /\ Creatable(r.sub)
      token == IF created THEN nextToken + 1 ELSE nextToken
      next == Committed(me, r, carry, token)
      again == \/ next.pending # me.pending
               \/ next.pending # <<>> /\ next.status \notin Terminal \union {"SUSPENDED"}
      q == IF ~created THEN orchQueue
           ELSE Enqueue(IF Exists(r.sub) THEN Discard(orchQueue, r.sub) ELSE orchQueue,
                        r.sub)
      started == IF r.outcome = "raise" THEN Len(r.wakes) - 1 ELSE Len(r.wakes)
      watcher == [parent |-> i, sub |-> r.sub, id |-> 0, tok |-> me.token,
                  phase |-> "starting"]
  IN  /\ inst' = [j \in Ids |-> IF j = i THEN next
                                ELSE IF created /\ j = r.sub THEN Fresh(nextToken)
                                ELSE inst[j]]
      /\ orchQueue' = IF again THEN Enqueue(q, i) ELSE q
      /\ inFlight' = Released(i)
      /\ nextToken' = token + 1
      /\ activityQueue' = activityQueue \o
           [k \in 1..Len(r.tasks) |-> [inst |-> i, id |-> r.tasks[k], tok |-> me.token]]
      /\ timers' = timers \union
           {[inst |-> i, id |-> r.wakes[k], tok |-> me.token] : k \in 1..started}
      /\ watchers' = Notified(watchers, i, next.status)
                       \union IF created THEN {watcher} ELSE {}

(* The worker answers the k-th work item it holds of i.  The handler        *)
(* ignores an answer for an instance that is gone or under another token,   *)
(* and refuses one whose history would grow too long; each of them ends the *)
(* in-flight state.                                                         *)
Answer(i, k) ==
  /\ out' = [out EXCEPT ![i] = RemoveAt(@, k)]
  /\ UNCHANGED <<running, resend, calls, faults>>

IsCurrent(i, k) == Exists(i) /\ inst[i].token = out[i][k].token

IgnoredAnswer(i) ==
  \E k \in 1..Len(out[i]) :
    /\ Answer(i, k)
    /\ \/ ~IsCurrent(i, k)
       \/ Len(inst[i].history) + Len(inst[i].dispatched) > HistoryLimit
    /\ inFlight' = Released(i)
    /\ UNCHANGED <<inst, orchQueue, nextToken, activityQueue, timers, watchers>>

CompleteOrchestratorTask(i) ==
  \E k \in 1..Len(out[i]), r \in Responses :
    /\ IsCurrent(i, k)
    /\ Len(inst[i].history) + Len(inst[i].dispatched) <= HistoryLimit
    /\ Answerable(i, inst[i], out[i][k].new, r)
    /\ \E carry \in IF r.outcome = "CONTINUED"
                     THEN Carryovers(inst[i].history \o inst[i].dispatched)
                     ELSE {<<>>} : Accept(i, r, carry)
    /\ Answer(i, k)

-----------------------------------------------------------------------------
(* Abandons and crashes of workers *)

Fault(kind) == kind \in Faults /\ faults < MaxFaults /\ faults' = faults + 1

(* Variants: they stay dispatched too; they are lost. *)
RestoredTwice(me) == [me EXCEPT !.pending = me.dispatched \o me.pending]
RestoredLost(me) == [me EXCEPT !.dispatched = <<>>]

(* The dispatched events of me are pending again, before the others. *)
Restored(me) ==
  [me EXCEPT !.pending = me.dispatched \o me.pending, !.dispatched = <<>>]

(* AbandonTaskOrchestratorWorkItem looks for an in-flight instance with the *)
(* token of the request and gives it its events back.  The token stays.     *)
Abandon(i, token) ==
  IF Busy(i) /\ Exists(i) /\ inst[i].token = token
  THEN /\ inst' = [inst EXCEPT ![i] = Restored(inst[i])]
       /\ inFlight' = Released(i)
       /\ orchQueue' = Enqueue(orchQueue, i)
  ELSE UNCHANGED <<inst, inFlight, orchQueue>>

(* The worker gives up its k-th work item.  When the reply is lost,         *)
(* _cancel_orchestrator abandons the work item again.                       *)
AbandonTaskOrchestratorWorkItem(i) ==
  \E k \in 1..Len(out[i]) :
    /\ Fault("abandon")
    /\ Abandon(i, out[i][k].token)
    /\ out' = [out EXCEPT ![i] = RemoveAt(@, k)]
    /\ resend' \in {resend} \union
         IF "lostReply" \in Faults
         THEN {resend \union {[inst |-> i, token |-> out[i][k].token]}} ELSE {}
    /\ UNCHANGED <<nextToken, activityQueue, running, timers, watchers, calls>>

AbandonAgain ==
  \E a \in resend :
    /\ Abandon(a.inst, a.token)
    /\ resend' = resend \ {a}
    /\ UNCHANGED <<nextToken, activityQueue, out, running, timers, watchers,
                   calls, faults>>

(* The answer does not reach the backend; the worker logs that and goes on. *)
LoseAnswer(i) ==
  \E k \in 1..Len(out[i]) :
    /\ Fault("lostAnswer")
    /\ out' = [out EXCEPT ![i] = RemoveAt(@, k)]
    /\ UNCHANGED <<inst, orchQueue, inFlight, nextToken, activityQueue, running,
                   timers, watchers, resend, calls>>

(* AbandonTaskActivityWorkItem returns without doing anything.  The loss of *)
(* the answer of an activity is no different.                               *)
AbandonTaskActivityWorkItem ==
  \E a \in running :
    /\ Fault("abandonActivity")
    /\ running' = running \ {a}
    /\ UNCHANGED <<inst, orchQueue, inFlight, nextToken, activityQueue, out,
                   timers, watchers, resend, calls>>

(* The worker process dies with all it holds; the backend does not notice.  *)
WorkerCrash ==
  /\ Fault("crash")
  /\ out' = [i \in Ids |-> <<>>]
  /\ running' = {}
  /\ UNCHANGED <<inst, orchQueue, inFlight, nextToken, activityQueue, timers,
                 watchers, resend, calls>>

-----------------------------------------------------------------------------
(* Activities, timers and sub-orchestrations *)

(* Success and failure differ only in the payload. *)
CompleteActivityTask(a) ==
  /\ a \in running
  /\ running' = running \ {a}
  /\ IF Exists(a.inst) THEN Post(a.inst, NewEvent("TaskDone", a.id, a.tok))
     ELSE UNCHANGED <<inst, orchQueue>>
  /\ UNCHANGED <<inFlight, nextToken, activityQueue, out, timers, watchers,
                 resend, calls, faults>>

FireTimer(t) ==
  /\ t \in timers
  /\ timers' = timers \ {t}
  /\ IF Receives(t.inst)
     THEN Post(t.inst, NewEvent("TimerFired", t.id, t.tok))
     ELSE UNCHANGED <<inst, orchQueue>>
  /\ UNCHANGED <<inFlight, nextToken, activityQueue, out, running, watchers,
                 resend, calls, faults>>

(* The first half of _wait_for_state: the sub-orchestration is over, or the *)
(* thread waits for it.                                                     *)
StartWatching(w) ==
  /\ w \in watchers /\ w.phase = "starting"
  /\ watchers' = (watchers \ {w}) \union
       {[w EXCEPT !.phase = IF IsTerminal(w.sub) THEN Ended(inst[w.sub].status)
                            ELSE "waiting"]}
  /\ UNCHANGED <<inst, orchQueue, inFlight, nextToken, activityQueue, out, running,
                 timers, resend, calls, faults>>

(* The wait is over without a result: the thread returns. *)
WatcherTimeout(w) ==
  /\ Fault("watchTimeout")
  /\ w \in watchers /\ w.phase \in {"waiting", "orphaned"}
  /\ watchers' = watchers \ {w}
  /\ UNCHANGED <<inst, orchQueue, inFlight, nextToken, activityQueue, out, running,
                 timers, resend, calls>>

(* The second half of watch: report to the parent unless it is gone or over. *)
ReportSubOrchestration(w) ==
  /\ w \in watchers /\ w.phase \in {"completed", "failed"}
  /\ watchers' = watchers \ {w}
  /\ IF Receives(w.parent)
     THEN Post(w.parent, NewEvent(IF w.phase = "completed" THEN "SubCompleted"
                                  ELSE "SubFailed", w.id, w.tok))
     ELSE UNCHANGED <<inst, orchQueue>>
  /\ UNCHANGED <<inFlight, nextToken, activityQueue, out, running, timers, resend,
                 calls, faults>>

-----------------------------------------------------------------------------
(* The specification *)

Init ==
  /\ inst = [i \in Ids |-> Absent]
  /\ orchQueue = [seq |-> <<>>, set |-> {}]
  /\ inFlight = {}
  /\ nextToken = 1
  /\ activityQueue = <<>>
  /\ out = [i \in Ids |-> <<>>]
  /\ running = {} /\ timers = {} /\ watchers = {} /\ resend = {}
  /\ calls = 0 /\ faults = 0

Request ==
  \/ \E i \in Ids : \/ StartInstance(i) \/ RaiseEvent(i) \/ TerminateInstance(i)
                    \/ SuspendInstance(i) \/ ResumeInstance(i)
                    \/ \E j \in Ids : RestartInstance(i, j)
  \/ \E S \in SUBSET Ids \ {{}} : PurgeInstances(S)
  \/ Reset

Worker ==
  \/ \E i \in Ids : \/ CompleteOrchestratorTask(i) \/ IgnoredAnswer(i)
                    \/ AbandonTaskOrchestratorWorkItem(i) \/ LoseAnswer(i)
  \/ \E a \in running : CompleteActivityTask(a)
  \/ AbandonAgain \/ AbandonTaskActivityWorkItem \/ WorkerCrash

Background ==
  \/ \E t \in timers : FireTimer(t)
  \/ \E w \in watchers : StartWatching(w) \/ WatcherTimeout(w)
                           \/ ReportSubOrchestration(w)

Next == Request \/ GetWorkItems \/ Worker \/ Background

Spec == Init /\ [][Next]_vars

(* A connected worker keeps polling and answers what it holds; threads run.  *)
(* Nothing makes clients call or faults happen.                              *)
Fairness ==
  /\ WF_vars(GetWorkItems)
  /\ \A i \in Ids : WF_vars(CompleteOrchestratorTask(i) \/ IgnoredAnswer(i))
  /\ WF_vars(\E a \in running : CompleteActivityTask(a))
  /\ WF_vars(\E t \in timers : FireTimer(t))
  /\ WF_vars(\E w \in watchers : StartWatching(w) \/ ReportSubOrchestration(w))

FairSpec == Spec /\ Fairness

-----------------------------------------------------------------------------
(* Properties *)

TypeOK ==
  /\ inst \in [Ids -> Instance]
  /\ orchQueue \in [seq : Seq(Ids), set : SUBSET Ids]
  /\ inFlight \subseteq Ids
  /\ nextToken \in Nat
  /\ activityQueue \in Seq(Activity)
  /\ out \in [Ids -> Seq(WorkItem)]
  /\ running \subseteq Activity
  /\ timers \subseteq Activity
  /\ watchers \subseteq Watcher
  /\ resend \subseteq [inst : Ids, token : Nat]
  /\ calls \in Nat /\ faults \in Nat

(* An instance with events to process is in the set of queued ids, and the *)
(* deque holds every id of the set: _enqueue_orchestration, which looks at *)
(* the set only, never leaves out an instance the stream will not find.    *)
NoLostWakeup ==
  /\ \A i \in Ids : inst[i].pending # <<>> => i \in orchQueue.set
  /\ \A i \in orchQueue.set : \E k \in 1..Len(orchQueue.seq) : orchQueue.seq[k] = i

(* At most one worker holds a work item of an instance, the instance is    *)
(* then in flight, and when the item carries the current token the answer  *)
(* commits the very events the worker executed, after the history it       *)
(* replayed (dispatched_events is kept apart from the work item).          *)
ExclusiveDispatch ==
  \A i \in Ids :
    /\ Len(out[i]) <= 1
    /\ out[i] # <<>> => i \in inFlight
    /\ \A k \in 1..Len(out[i]) :
         IsCurrent(i, k) => /\ out[i][k].past = inst[i].history
                            /\ out[i][k].new = inst[i].dispatched

(* An instance in flight is with a worker: no path of the handlers leaves  *)
(* the mark behind, which would keep the instance from ever being          *)
(* dispatched again.                                                       *)
InFlightIsOwned == \A i \in inFlight : out[i] # <<>>

(* No two instances carry the same completion token, and none a token yet   *)
(* to be given out: an answer or an abandon is never taken for another's.   *)
TokensUnique ==
  \A i, j \in Ids :
    Exists(i) => /\ inst[i].token < nextToken
                 /\ Exists(j) /\ inst[i].token = inst[j].token => i = j

(* All events of an instance in the order it sees them. *)
Events(i) == inst[i].history \o inst[i].dispatched \o inst[i].pending

Has(i, kinds, e) ==
  \E k \in DOMAIN Events(i) :
    /\ Events(i)[k].kind \in kinds
    /\ Events(i)[k].id = e.id /\ Events(i)[k].tok = e.tok

ResultOf(kind) ==
  CASE kind = "TaskScheduled" -> {"TaskDone"}
    [] kind = "TimerCreated" -> {"TimerFired"}
    [] kind = "SubCreated" -> {"SubCompleted", "SubFailed"}
    [] OTHER -> {}

(* Every result follows the one event that scheduled it and there is one    *)
(* result at most: no activity, timer or sub-orchestration reports twice,   *)
(* reports to a later execution, or before its scheduling is in the history. *)
ResultsOnce ==
  \A i \in Ids : \A k \in DOMAIN Events(i) :
    LET e == Events(i)[k]
        same == {j \in DOMAIN Events(i) :
                   Events(i)[j].id = e.id /\ Events(i)[j].tok = e.tok}
    IN  e.kind \in {"TaskDone", "TimerFired", "SubCompleted", "SubFailed"} =>
          \E kind \in {"TaskScheduled", "TimerCreated", "SubCreated"} :
            /\ e.kind \in ResultOf(kind)
            /\ \E j \in same : j < k /\ Events(i)[j].kind = kind
            /\ \A j \in same : Events(i)[j].kind \in ResultOf(kind) => j = k

(* Whatever becomes of an id - restarted, replaced, purged, continued as new *)
(* or reset, and created again - no activity, timer or sub-orchestration     *)
(* reports twice to it, and none reports before what scheduled it is in the  *)
(* history: a late answer of an earlier execution is one stray event.        *)
NeverTwice ==
  \A i \in Ids : \A j, k \in DOMAIN Events(i) :
    LET d == Events(i)[j]
        e == Events(i)[k]
    IN  d.id = e.id /\ d.tok = e.tok =>
          \A kind \in {"TaskScheduled", "TimerCreated", "SubCreated"} :
            e.kind \in ResultOf(kind) =>
              (d.kind \in ResultOf(kind) => j = k) /\ (d.kind = kind => j < k)

(* Whatever the history says was scheduled is under way or has its result   *)
(* in the instance: the activity is queued or with a worker; the timer      *)
(* sleeps; a watcher follows the sub-orchestration.  (Timers and watchers   *)
(* of an instance that is over report nothing.)                             *)
TasksAccounted ==
  \A i \in Ids : \A k \in DOMAIN inst[i].history :
    LET e == inst[i].history[k]
        a == [inst |-> i, id |-> e.id, tok |-> e.tok]
    IN  e.kind = "TaskScheduled" =>
          a \in running \union ToSet(activityQueue) \/ Has(i, {"TaskDone"}, e)

TimersAccounted ==
  \A i \in Ids : \A k \in DOMAIN inst[i].history :
    LET e == inst[i].history[k]
    IN  e.kind = "TimerCreated" /\ ~IsTerminal(i) =>
          [inst |-> i, id |-> e.id, tok |-> e.tok] \in timers \/ Has(i, {"TimerFired"}, e)

SubOrchestrationsWatched ==
  \A i \in Ids : \A k \in DOMAIN inst[i].history :
    LET e == inst[i].history[k]
    IN  e.kind = "SubCreated" /\ ~IsTerminal(i) =>
          \/ \E w \in watchers : w.parent = i /\ w.id = e.id /\ w.tok = e.tok
          \/ Has(i, {"SubCompleted", "SubFailed"}, e)

(* A suspended instance stays so until a resume event is committed, it ends  *)
(* or it is created anew.                                                    *)
SuspendedUntilResumed ==
  [][\A i \in Ids :
       inst[i].status = "SUSPENDED" /\ inst'[i].status \in {"PENDING", "RUNNING"} =>
         HasKind(inst[i].dispatched, "Resumed") \/ inst'[i] = Fresh(nextToken)]_vars

Waiting(i, kind, n) == \E k \in DOMAIN inst[i].pending :
                         inst[i].pending[k] = NewEvent(kind, n, 0)
Logged(i, kind, n) == \E k \in DOMAIN inst[i].history :
                        inst[i].history[k] = NewEvent(kind, n, 0)


(* A terminate request that was accepted ends the instance. *)
TerminateTakesEffect ==
  \A i \in Ids, n \in 1..MaxCalls :
    Waiting(i, "Terminated", n) ~> IsTerminal(i) \/ ~Exists(i)

(* The parent of a sub-orchestration hears of its end, unless the parent is *)
(* over before.                                                             *)
SubOrchestrationIsReported ==
  \A i, j \in Ids :
    (\E w \in watchers : w.parent = i /\ w.sub = j) /\ IsTerminal(j)
      ~> IsTerminal(i) \/ HasKind(inst[i].history, "SubCompleted")
                       \/ HasKind(inst[i].history, "SubFailed")

=============================================================================
