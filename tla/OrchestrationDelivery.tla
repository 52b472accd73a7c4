------------------------ MODULE OrchestrationDelivery ------------------------
(***************************************************************************)
(* OrchestrationBackend implements DurableMailbox.  The mailbox is what is *)
(* pending, the batch what is dispatched and not yet committed; the log is *)
(* the history.  The OrchestratorStarted events the backend adds at a dispatch *)
(* and the confirmations of actions it adds at a commit are no events of   *)
(* the mailbox.                                                            *)
(***************************************************************************)
EXTENDS OrchestrationBackend

Delivers(e) ==
  e.kind \notin {"OrchestratorStarted", "TaskScheduled", "TimerCreated", "SubCreated"}

Delivered(evs) ==
  LET first[n \in 0..Len(evs)] ==
        IF n = 0 THEN <<>>
        ELSE IF Delivers(evs[n]) THEN Append(first[n - 1], evs[n]) ELSE first[n - 1]
  IN  first[Len(evs)]

ModeOf(status) ==
  CASE status = "NONE" -> "absent"
    [] status \in Terminal -> "over"
    [] OTHER -> "live"

(* With the processing of instances that are over, which goes on. *)
Promise == INSTANCE DurableMailbox WITH
  Started <- ExecutionStarted,
  mode <- [i \in Ids |-> ModeOf(inst[i].status)],
  mail <- [i \in Ids |-> Delivered(inst[i].pending)],
  batch <- [i \in Ids |-> Delivered(inst[i].dispatched)],
  log <- [i \in Ids |-> Delivered(inst[i].history)]

(* Every accepted event is processed exactly once and in order: the abandon *)
(* of a work item, the arrival of events while a work item is out, stale    *)
(* answers and a continue-as-new neither lose, repeat nor reorder any.      *)
KeepsPromise == Promise!Spec

=============================================================================
