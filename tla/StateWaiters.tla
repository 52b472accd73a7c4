---------------------------- MODULE StateWaiters ----------------------------
(***************************************************************************)
(* Clients that wait for one orchestration instance of the in-memory       *)
(* backend (WaitForInstanceStart, WaitForInstanceCompletion), against the  *)
(* handlers that change, purge, restart or reset the instance.             *)
(*                                                                         *)
(* A client's thread waits outside the lock, and builds its response from  *)
(* the live instance, outside the lock too.  So the assignments that a     *)
(* handler makes to the instance are steps of their own here.  Handlers    *)
(* hold the lock; instances that left the store are changed by nobody.     *)
(***************************************************************************)
EXTENDS Naturals

CONSTANTS
  Clients,      \* threads of the server that wait for the instance
  Starters,     \* those that wait for its start; the others for its end
  Requests,     \* handlers that are called: see AllRequests
  Outcomes,     \* ends that workers report
  Events,       \* events that a terminated instance may be sent
  MayRaise,     \* whether processing of actions may raise
  MaxInstances  \* bound: instances, one after the other

AllRequests == {"replace", "purge", "restart", "reset"}
Terminal == {"COMPLETED", "FAILED", "TERMINATED"}
Ends == Terminal \union {"CONTINUED"}
StatusEvents == {"executionSuspended", "executionResumed"}

ASSUME InputsAssumption ==
  /\ Starters \subseteq Clients /\ Requests \subseteq AllRequests
  /\ Outcomes \subseteq Ends /\ Events \subseteq StatusEvents /\ MayRaise \in BOOLEAN
ASSUME BoundAssumption == MaxInstances \in Nat \ {0}

VARIABLES
  current,   \* the instance in _instances, 0 if there is none
  created,   \* number of instances so far
  status,    \* of each instance
  output,    \* of each instance: the end that output and failure_details tell of
  failed,    \* instances that were failed by an exception
  handler,   \* what is left of CompleteOrchestratorTask, if it holds the lock
  waiters,   \* _state_waiters of the id
  client     \* each client: where it is and what it has read

vars == <<current, created, status, output, failed, handler, waiters, client>>
instances == <<current, created, status, output, failed>>

Instance == 1..MaxInstances
Status == {"PENDING", "RUNNING", "SUSPENDED"} \union Ends

IsOver(i) == status[i] \in Terminal

(* The predicates of the two requests. *)
Holds(c, s) == IF c \in Starters THEN s # "PENDING" ELSE s \in Terminal

Matches(c) == current # 0 /\ Holds(c, status[current])

Unlocked == handler.at = "none"

-----------------------------------------------------------------------------
(* Clients *)

(* _wait_for_state, the part in the lock. *)
Wait(c) ==
  /\ Unlocked /\ client[c].at = "idle"
  /\ IF Matches(c)
     THEN /\ client' = [client EXCEPT ![c].at = "reading", ![c].result = current]
          /\ UNCHANGED waiters
     ELSE /\ client' = [client EXCEPT ![c].at = "waiting"]
          /\ waiters' = waiters \union {c}
  /\ UNCHANGED <<instances, handler>>

(* The event was set: by a handler, or without a result by a reset.          *)
Wake(c) ==
  /\ client[c].at = "set"
  /\ client' = [client EXCEPT ![c].at = IF client[c].result = 0 THEN "absent" ELSE "reading"]
  /\ UNCHANGED <<instances, handler, waiters>>

(* The wait ends without the event; the lock is taken after that.           *)
TimeOut(c) ==
  /\ client[c].at = "waiting"
  /\ client' = [client EXCEPT ![c].at = "late"]
  /\ UNCHANGED <<instances, handler, waiters>>

(* The waiter is removed, if nobody did so meanwhile.  A result that came   *)
(* too late is not looked at.                                               *)
GiveUp(c) ==
  /\ Unlocked /\ client[c].at = "late"
  /\ client' = [client EXCEPT ![c].at = "absent"]
  /\ waiters' = waiters \ {c}
  /\ UNCHANGED <<instances, handler>>

(* _build_instance_response: the status first, then output and details.     *)
ReadStatus(c) ==
  /\ client[c].at = "reading"
  /\ client' = [client EXCEPT ![c].at = "half", ![c].status = status[client[c].result]]
  /\ UNCHANGED <<instances, handler, waiters>>

ReadOutput(c) ==
  /\ client[c].at = "half"
  /\ client' = [client EXCEPT ![c].at = "answered", ![c].output = output[client[c].result]]
  /\ UNCHANGED <<instances, handler, waiters>>

-----------------------------------------------------------------------------
(* Handlers of one step *)

Create ==
  /\ created < MaxInstances
  /\ created' = created + 1 /\ current' = created'
  /\ UNCHANGED <<status, output, failed, handler>>

(* An id in use is taken again when the policy allows its status, or, for a *)
(* sub-orchestration, when its instance is over.  Waiters stay.             *)
StartInstance ==
  /\ Unlocked
  /\ current = 0 \/ "replace" \in Requests
  /\ Create
  /\ UNCHANGED <<waiters, client>>

PurgeInstances ==
  /\ Unlocked /\ "purge" \in Requests
  /\ current # 0 /\ IsOver(current)
  /\ current' = 0 /\ waiters' = {}
  /\ UNCHANGED <<created, status, output, failed, handler, client>>

(* RestartInstance under the same id. *)
RestartInstance ==
  /\ Unlocked /\ "restart" \in Requests
  /\ current # 0 /\ IsOver(current)
  /\ Create
  /\ waiters' = {}
  /\ UNCHANGED client

(* The event of a waiter is set; a thread whose wait has just timed out     *)
(* does not notice.                                                         *)
SetEvents(S, result) ==
  client' = [c \in Clients |->
               IF c \in S /\ client[c].at = "waiting"
               THEN [client[c] EXCEPT !.at = "set", !.result = result] ELSE client[c]]

Reset ==
  /\ Unlocked /\ "reset" \in Requests
  /\ current' = 0
  /\ SetEvents(waiters, 0) /\ waiters' = {}
  /\ UNCHANGED <<created, status, output, failed, handler>>

-----------------------------------------------------------------------------
(* CompleteOrchestratorTask, assignment by assignment *)

(* Which end a worker may report: one that has ended reports it again.  The *)
(* instance that an exception failed goes on, for its worker.               *)
Reports(i) ==
  IF IsOver(i) /\ i \notin failed THEN {status[i]} ELSE Outcomes \union {"none"}

StatusAfter(s, event) ==
  CASE event = "executionSuspended" -> "SUSPENDED"
    [] event = "executionResumed" -> "RUNNING"
    [] OTHER -> IF s = "PENDING" THEN "RUNNING" ELSE s

(* The committed events change the status. *)
CommitEvents ==
  /\ Unlocked /\ current # 0
  /\ \E event \in {"none"} \union IF IsOver(current) THEN Events ELSE StatusEvents,
        end \in Reports(current) :
       /\ status' = [status EXCEPT ![current] = StatusAfter(@, event)]
       /\ handler' = [at |-> IF end = "none" THEN "notify" ELSE "status", end |-> end]
  /\ UNCHANGED <<current, created, output, failed, waiters, client>>

(* Variant: waiters are told as soon as there is a status. *)
SetStatusAndNotify ==
  /\ handler.at = "status"
  /\ status' = [status EXCEPT ![current] = handler.end]
  /\ handler' = [handler EXCEPT !.at = "output"]
  /\ LET told == {c \in waiters : Holds(c, handler.end)}
     IN  SetEvents(told, current) /\ waiters' = waiters \ told
  /\ UNCHANGED <<current, created, output, failed>>

(* _process_complete_orchestration_action, or the handler of an exception.  *)
SetStatus ==
  /\ handler.at = "status"
  /\ status' = [status EXCEPT ![current] = handler.end]
  /\ handler' = [handler EXCEPT !.at = "output"]
  /\ UNCHANGED <<current, created, output, failed, waiters, client>>

ProcessingRaises ==
  /\ MayRaise /\ handler.at \in {"status", "notify"} /\ ~IsOver(current)
  /\ status' = [status EXCEPT ![current] = "FAILED"]
  /\ failed' = failed \union {current}
  /\ handler' = [at |-> "output", end |-> "FAILED"]
  /\ UNCHANGED <<current, created, output, waiters, client>>

SetOutput ==
  /\ handler.at = "output"
  /\ output' = [output EXCEPT ![current] = handler.end]
  /\ handler' = [handler EXCEPT !.at = IF handler.end = "CONTINUED" THEN "renew" ELSE "notify"]
  /\ UNCHANGED <<current, created, status, failed, waiters, client>>

(* Continue-as-new resets the instance. *)
Renew ==
  /\ handler.at = "renew"
  /\ status' = [status EXCEPT ![current] = "PENDING"]
  /\ output' = [output EXCEPT ![current] = "none"]
  /\ handler' = [handler EXCEPT !.at = "notify"]
  /\ UNCHANGED <<current, created, failed, waiters, client>>

(* Variant: clients that wait for the start are told at the end. *)
MatchingEnds == {c \in waiters : Matches(c) /\ IsOver(current)}

Matching == {c \in waiters : Matches(c)}

NotifyWaiters ==
  /\ handler.at = "notify"
  /\ SetEvents(Matching, current) /\ waiters' = waiters \ Matching
  /\ handler' = [at |-> "none", end |-> "none"]
  /\ UNCHANGED instances

-----------------------------------------------------------------------------
Init ==
  /\ current = 0 /\ created = 0
  /\ status = [i \in Instance |-> "PENDING"]
  /\ output = [i \in Instance |-> "none"]
  /\ failed = {}
  /\ handler = [at |-> "none", end |-> "none"]
  /\ waiters = {}
  /\ client = [c \in Clients |-> [at |-> "idle", result |-> 0, status |-> "none", output |-> "none"]]

HandlerStep == SetStatus \/ SetOutput \/ Renew \/ NotifyWaiters

ClientStep(c) == Wake(c) \/ TimeOut(c) \/ GiveUp(c) \/ ReadStatus(c) \/ ReadOutput(c)

Next ==
  \/ StartInstance \/ PurgeInstances \/ RestartInstance \/ Reset
  \/ CommitEvents \/ ProcessingRaises \/ HandlerStep
  \/ \E c \in Clients : Wait(c) \/ ClientStep(c)

Spec == Init /\ [][Next]_vars

-----------------------------------------------------------------------------
(* Properties *)

Client ==
  [at : {"idle", "waiting", "set", "late", "reading", "half", "answered", "absent"},
   result : 0..MaxInstances, status : Status \union {"none"}, output : Ends \union {"none"}]

TypeOK ==
  /\ current \in 0..MaxInstances /\ created \in 0..MaxInstances
  /\ status \in [Instance -> Status]
  /\ output \in [Instance -> Ends \union {"none"}]
  /\ failed \subseteq Instance
  /\ handler \in [at : {"none", "status", "output", "renew", "notify"},
                  end : Ends \union {"none"}]
  /\ waiters \subseteq Clients
  /\ client \in [Clients -> Client]

(* The list of waiters is exact.  Once a handler is done, nobody in it      *)
(* waits for a state that the instance is in.  Who waits and was not told   *)
(* is in it: a purge or a restart, which drop the list and wake nobody,     *)
(* find it empty.  Who is in it waits, or is about to take itself off.      *)
ListIsExact ==
  /\ Unlocked => \A c \in waiters : ~Matches(c)
  /\ \A c \in Clients : client[c].at = "waiting" => c \in waiters
  /\ \A c \in waiters : client[c].at \in {"waiting", "late"}

(* A client that waits for the end of the instance is told of an end, and   *)
(* of the output of that end, though the instance is read while handlers    *)
(* change it (unless an exception failed it, which the worker knows not of).*)
CompletionIsWhole ==
  \A c \in Clients :
    client[c].at = "answered" /\ c \notin Starters /\ client[c].result \notin failed =>
      client[c].status \in Terminal /\ client[c].output = client[c].status
=============================================================================
