------------------------- MODULE OrchestrationReplay -------------------------
(***************************************************************************)
(* An orchestration over its whole life: a backend that keeps its history  *)
(* and its new events, workers that execute it from the beginning for      *)
(* every batch of events (OrchestrationExecutor), and everything outside:  *)
(* activities, timers, sub-orchestrations and entities that answer once or *)
(* twice, external events, clients that suspend, resume and terminate it,  *)
(* and a new deployment of the orchestrator's code.                        *)
(*                                                                         *)
(* The backend is the one of OrchestrationBackend, reduced to what the     *)
(* executor can see of it.  A batch is any beginning of the new events:    *)
(* the rest arrived after its dispatch.  A work item that is abandoned or  *)
(* lost puts its events back and is left out.                              *)
(***************************************************************************)
EXTENDS OrchestrationExecutor

CONSTANTS
  Scenes,        \* what may happen to an orchestration: see Scene below
  Workers,       \* versions of the workers
  Version,       \* version of the orchestration
  SuspendApart,  \* suspend events open their batch
  FirstValue     \* value of the first event of each name

(* The code and the code deployed over it, as the statements of each of its *)
(* generations; the entity protocol of the host; what clients do; the kinds *)
(* of actions whose answer may arrive twice; and the bounds: how many       *)
(* external events of each name, suspensions, doubled answers and ticks of  *)
(* the clock that no timer makes.                                           *)
Scene(first, second, host, clients, doubled, bounds) ==
  [first |-> first, second |-> second, host |-> host, clients |-> clients,
   doubled |-> doubled, events |-> bounds[1], suspends |-> bounds[2],
   doubles |-> bounds[3], ticks |-> bounds[4]]

ASSUME ScenesAssumption ==
  \A s \in Scenes : /\ s.host \in {"old", "new"}
                    /\ s.clients \subseteq {"suspend", "terminate"}
                    /\ {s.events, s.suspends, s.doubles, s.ticks} \subseteq Nat
ASSUME ValueAssumption == FirstValue \in Nat /\ Version \in Workers

VARIABLES
  scene,       \* what may happen
  program,     \* the orchestrator's code
  generation,  \* its generation: continue_as_new starts the next
  history,     \* events that are committed
  mailbox,     \* events that are not
  open,        \* actions that will be answered
  status,      \* "running", "suspended" or how it ended
  sent,        \* how often each action id was sent, in this generation
  seen,        \* what user code has seen, in this generation
  taken,       \* external events handed to tasks of earlier generations
  raised,      \* number of external events of each name
  clock,       \* the time
  paused,      \* the last client that had a say asked for a suspension
  spent        \* what the bounds have been used up for

vars == <<scene, program, generation, history, mailbox, open, status, sent, seen, taken,
          raised, clock, paused, spent>>

code == <<scene, program, generation>>
world == <<raised, paused>>

-----------------------------------------------------------------------------
(* The backend *)

Running == status \in {"running", "suspended"}
Script == program[generation]

NewGeneration(time) ==
  <<Event("orchestratorStarted", 0, None, time), Event("executionStarted", 0, None, 0)>>

IsEntityAction(a) == a.kind \in {"callEntity", "signalEntity", "lockEntities", "unlock"}
InOldProtocol(a) == scene.host = "old" /\ IsEntityAction(a)

Confirmation(a) ==
  LET type == IF InOldProtocol(a) THEN "eventSent"
              ELSE CASE a.kind = "scheduleTask" -> "taskScheduled"
                     [] a.kind = "createTimer" -> "timerCreated"
                     [] a.kind = "createSub" -> "subOrchestrationInstanceCreated"
                     [] a.kind = "callEntity" -> "entityOperationCalled"
                     [] a.kind = "signalEntity" -> "entityOperationSignaled"
                     [] a.kind = "lockEntities" -> "entityLockRequested"
                     [] OTHER -> "entityUnlockSent"
  IN Event(type, a.id, a.about, a.value)

IsCompletion(a) == a.kind = "complete"
IsAnswered(a) == a.kind \notin {"complete", "signalEntity", "unlock"}

(* Suspended or not, after the events of a batch.                           *)
StatusAfter(batch) ==
  LET Next(s, e) == CASE e.type = "executionSuspended" -> "suspended"
                      [] e.type = "executionResumed" -> "running"
                      [] OTHER -> s
  IN FoldLeft(Next, status, batch)

(* A batch of new events; those that re-dispatch an instance are preceded   *)
(* by the time.                                                             *)
Dispatched(batch) ==
  (IF history = <<>> THEN <<>> ELSE <<Event("orchestratorStarted", 0, None, clock)>>) \o batch

Batches ==
  {k \in 1..Len(mailbox) :
     /\ history = <<>> => k > 1
     /\ SuspendApart => \A j \in 2..k : mailbox[j].type # "executionSuspended"}

(* CompleteOrchestratorTask for the answer r of an execution.               *)
Commit(k, r) ==
  LET batch == SubSeq(mailbox, 1, k)
      rest == SubSeq(mailbox, k + 1, Len(mailbox))
      actions == GetActions(r)
      others == SelectSeq(actions, LAMBDA a : ~IsCompletion(a))
      answered == {a \in ToSet(actions) : IsAnswered(a)}
      again == r.status = "continued"
  IN /\ history' = IF again THEN <<>>
                   ELSE history \o Dispatched(batch)
                          \o [j \in DOMAIN others |-> Confirmation(others[j])]
     /\ mailbox' = IF again THEN NewGeneration(clock) \o Carryover(r) \o rest ELSE rest
     /\ open' = open \union answered
     /\ status' = CASE again -> "running"
                    [] r.status = "running" -> StatusAfter(batch)
                    [] OTHER -> r.status
     /\ generation' = IF again THEN generation + 1 ELSE generation
     /\ seen' = IF again THEN <<>> ELSE r.log
     /\ sent' = IF again THEN <<>>
                ELSE [id \in DOMAIN sent \union {a.id : a \in ToSet(others)} |->
                        (IF id \in DOMAIN sent THEN sent[id] ELSE 0)
                          + Cardinality({j \in DOMAIN others : others[j].id = id})]
     /\ taken' = IF again THEN [n \in Names |-> taken[n] \o r.taken[n]] ELSE taken

(* A worker of version w gets a work item; one that rejects the version of  *)
(* the orchestration abandons it.                                           *)
WorkItem(w) ==
  /\ Running
  /\ \E k \in Batches :
       \E r \in {Execute(Script, Version, w, clock, history,
                         Dispatched(SubSeq(mailbox, 1, k)))} :
         /\ r.error # "endless"
         /\ ~(r.error = "version" /\ Failure = "reject")
         /\ Commit(k, r)
  /\ UNCHANGED <<scene, program, world, clock, spent>>

-----------------------------------------------------------------------------
(* Everything outside *)

Deliver(e) == mailbox' = Append(mailbox, e)
Later(time) == IF clock < time THEN time ELSE clock

(* What may come back for an action.                                        *)
Answers(a) ==
  LET About(types) == {Event(type, a.id, a.about, a.value) : type \in types}
  IN IF InOldProtocol(a) THEN {Event("eventRaised", 0, a.value, 1)}
     ELSE CASE a.kind = "scheduleTask" -> About({"taskCompleted", "taskFailed"})
            [] a.kind = "createSub" -> About({"subOrchestrationInstanceCompleted",
                                              "subOrchestrationInstanceFailed"})
            [] a.kind = "createTimer" -> About({"timerFired"})
            [] a.kind = "lockEntities" -> About({"entityLockGranted"})
            [] OTHER -> About({"entityOperationCompleted", "entityOperationFailed"})

Outside == <<code, history, status, sent, seen, taken>>

(* An answer; timers fire at their time or later.                           *)
Answer(a) ==
  /\ Running
  /\ \E e \in Answers(a) : Deliver(e)
  /\ open' = open \ {a}
  /\ clock' = IF a.kind = "createTimer" THEN Later(a.value) ELSE clock
  /\ UNCHANGED <<Outside, world, spent>>

AnswerTwice(a) ==
  /\ Running /\ a.kind \in scene.doubled
  /\ spent.doubles < scene.doubles
  /\ \E e \in Answers(a) : mailbox' = mailbox \o <<e, e>>
  /\ open' = open \ {a}
  /\ clock' = IF a.kind = "createTimer" THEN Later(a.value) ELSE clock
  /\ spent' = [spent EXCEPT !.doubles = @ + 1]
  /\ UNCHANGED <<Outside, world>>

RaiseEvent(n) ==
  /\ Running /\ raised[n] < scene.events
  /\ Deliver(Event("eventRaised", 0, n, FirstValue + raised[n]))
  /\ raised' = [raised EXCEPT ![n] = @ + 1]
  /\ UNCHANGED <<Outside, open, clock, paused, spent>>

Suspend ==
  /\ Running /\ "suspend" \in scene.clients
  /\ ~paused /\ spent.suspends < scene.suspends
  /\ Deliver(Event("executionSuspended", 0, None, 0))
  /\ paused' = TRUE
  /\ spent' = [spent EXCEPT !.suspends = @ + 1]
  /\ UNCHANGED <<Outside, open, clock, raised>>

ResumeInstance ==
  /\ Running /\ paused
  /\ Deliver(Event("executionResumed", 0, None, 0))
  /\ paused' = FALSE
  /\ UNCHANGED <<Outside, open, clock, raised, spent>>

Terminate ==
  /\ Running /\ "terminate" \in scene.clients
  /\ \A k \in DOMAIN mailbox : mailbox[k].type # "executionTerminated"
  /\ Deliver(Event("executionTerminated", 0, None, 0))
  /\ UNCHANGED <<Outside, open, clock, world, spent>>

Tick ==
  /\ Running /\ spent.ticks < scene.ticks
  /\ clock' = clock + 1
  /\ spent' = [spent EXCEPT !.ticks = @ + 1]
  /\ UNCHANGED <<Outside, open, mailbox, world>>

(* All workers run other code from now on.                                  *)
Deploy ==
  /\ Running /\ program # scene.second
  /\ program' = scene.second
  /\ UNCHANGED <<scene, generation, history, status, sent, seen, taken, open, mailbox,
                 clock, world, spent>>

-----------------------------------------------------------------------------
Init ==
  /\ scene \in Scenes /\ program = scene.first /\ generation = 1
  /\ history = <<>> /\ mailbox = NewGeneration(0)
  /\ open = {} /\ status = "running" /\ sent = <<>> /\ seen = <<>>
  /\ taken = [n \in Names |-> <<>>] /\ raised = [n \in Names |-> 0]
  /\ clock = 0 /\ paused = FALSE
  /\ spent = [suspends |-> 0, doubles |-> 0, ticks |-> 0]

Next ==
  \/ \E w \in Workers : WorkItem(w)
  \/ \E a \in open : Answer(a) \/ AnswerTwice(a)
  \/ \E n \in Names : RaiseEvent(n)
  \/ Suspend \/ ResumeInstance \/ Terminate
  \/ Tick \/ Deploy

Spec == Init /\ [][Next]_vars

(* Workers are dispatched what arrives, except to a suspended orchestration *)
(* that nobody resumes; activities, timers, entities and the senders of     *)
(* events do their part, and a client that suspends resumes.                *)
Wakes ==
  /\ Running /\ mailbox # <<>>
  /\ status = "running" \/ \E k \in DOMAIN mailbox : ~Suspendable(mailbox[k])

Fairness ==
  /\ <>[]Wakes => []<><<\E w \in Workers : WorkItem(w)>>_vars
  /\ WF_vars(\E a \in open : Answer(a))
  /\ \A n \in Names : WF_vars(RaiseEvent(n))
  /\ WF_vars(ResumeInstance)

FairSpec == Spec /\ Fairness

-----------------------------------------------------------------------------
(* Properties *)

(* What a worker rebuilds from the history alone.                           *)
Replay == Execute(Script, Version, Version, clock, history, <<>>)

(* No other code was deployed.                                              *)
SameCode == program = scene.first

Failures(id) ==
  {k \in DOMAIN history : history[k].id = id /\ history[k].type
                            \in {"taskFailed", "subOrchestrationInstanceFailed"}}

(* An action is sent once, and once more for every attempt that failed: no  *)
(* replay sends again what an earlier execution has already sent.           *)
AskedOnce ==
  SameCode => \A id \in DOMAIN sent : sent[id] <= 1 + Cardinality(Failures(id))

(* An orchestration fails only if user code does: a call that it does not   *)
(* catch failed, or was refused.  Its own history never makes it fail.      *)
CatchesAll == \A k \in DOMAIN Script : Script[k].catch
NeverFailsByItself == SameCode /\ CatchesAll => status # "failed"

(* Every external event is handed to a task or kept, in the order in which  *)
(* events of its name were raised, over batches, suspensions and            *)
(* generations.                                                             *)
Values(events, n) ==
  LET ofName == SelectSeq(events, LAMBDA e : e.type = "eventRaised" /\ e.about = n)
  IN [k \in DOMAIN ofName |-> ofName[k].value]


(* A task is completed by the answer to the call that made it, whatever     *)
(* code is deployed in between: the names and kinds of calls are compared   *)
(* with the history.                                                        *)
ByName == {"scheduleTask", "createSub", "createTimer"}

Fits(t) ==
  \E k \in DOMAIN history :
    /\ history[k].id = t.id /\ history[k].about = t.about
    /\ history[k].type = Confirmation([t EXCEPT !.value = 0]).type

ResultsFitCalls ==
  \A t \in ToSet(Replay.tasks) : t.done /\ t.kind \in ByName => Fits(t)


(* While it stays suspended an orchestration sees nothing and does nothing. *)
SuspendedRests ==
  [][status = "suspended" /\ status' = "suspended" => seen' = seen /\ sent' = sent]_vars

(* An orchestration whose calls are all answered, and to which all events   *)
(* are raised that it waits for, ends.                                      *)
Ends == <>~Running
=============================================================================
