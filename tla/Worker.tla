-------------------------------- MODULE Worker --------------------------------
(***************************************************************************)
(* The worker process (durabletask/worker.py, TaskHubGrpcWorker and        *)
(* _AsyncWorkerManager): a run loop that keeps a stream of work items open,*)
(* a reader thread behind it, one queue with a semaphore per kind of work  *)
(* item, a thread pool that executes them, and a caller of start and stop. *)
(*                                                                         *)
(* The run loop, the consumers of the queues and the tasks of the work     *)
(* items are coroutines of one event loop: the others move only while the  *)
(* run loop awaits.  Connecting, the pauses between attempts and the       *)
(* shutdown of the thread pool do not await and hold up the event loop.    *)
(*                                                                         *)
(* Work items are numbered as they arrive, so that the first of a queue is *)
(* its smallest.  What they do is in OrchestrationExecutor and             *)
(* EntityExecutor; whether an answer reaches the backend is not modelled.  *)
(***************************************************************************)
EXTENDS Integers, FiniteSets

CONSTANTS
  Kinds,     \* kinds of work items that arrive
  Limit,     \* maximum_concurrent_..._work_items of each kind
  Threads,   \* maximum_thread_pool_workers
  Errors,    \* how a stream may end: see AllErrors
  Stops,     \* whether stop is called
  SlowAt,    \* other places where the run loop may spend 30 seconds
  MaxItems,  \* bound: work items
  MaxErrors  \* bound: streams and connections that fail

AllKinds == {"orchestration", "activity", "entity"}

(* A status code that invalidates the connection or does not, CANCELLED     *)
(* from the server, and no error at all.                                    *)
AllErrors == {"connection", "application", "cancelled", "end"}

ASSUME KindsAssumption == Kinds \subseteq AllKinds /\ Limit \in [Kinds -> Nat \ {0}]
ASSUME InputsAssumption == Errors \subseteq AllErrors /\ Stops \in BOOLEAN
ASSUME BoundAssumption == Threads \in Nat \ {0} /\ {MaxItems, MaxErrors} \subseteq Nat

VARIABLES
  loop,       \* where _async_run_loop is
  connected,  \* current_stub is there
  stream,     \* _response_stream: "none", "open" or over
  fault,      \* the exception behind the items of work_item_queue, if any
  items,      \* kind, place and fate of each work item
  manager,    \* whether the manager's run has begun and ended
  down,       \* the manager's _shutdown
  pool,       \* the thread pool accepts work
  stop,       \* where the caller of stop is
  stopped,    \* the _shutdown event of the worker
  errors      \* failures so far

conn == <<connected, stream, fault>>
vars == <<loop, conn, items, manager, down, pool, stop, stopped, errors>>

Item == 1..MaxItems

(* "inbox" is work_item_queue; "task" waits for its semaphore; "pool" and   *)
(* "thread" are in the thread pool, and "returned" and "raised" out of it   *)
(* before their coroutine knows.                                            *)
Places == {"server", "inbox", "queue", "task", "pool", "thread", "returned", "raised", "over"}
Fates == {"none", "answered", "abandoned", "dropped"}

At(place) == {i \in Item : items[i].at = place}
OfKind(k, place) == {i \in At(place) : items[i].kind = k}
First(S) == {i \in S : \A j \in S : i <= j}
Inside(k) == UNION {OfKind(k, p) : p \in {"pool", "thread", "returned", "raised"}}
Move(i, place) == items' = [items EXCEPT ![i].at = place]
End(i, fate) == items' = [items EXCEPT ![i].at = "over", ![i].fate = fate]

(* The items of a work_item_queue that is given up.                         *)
Discarded ==
  [i \in Item |-> IF items[i].at = "inbox" THEN [items[i] EXCEPT !.at = "over", !.fate = "dropped"]
                  ELSE items[i]]

-----------------------------------------------------------------------------
(* The run loop *)

Start ==
  /\ loop = "none" /\ stop = "none"
  /\ loop' = "top"
  /\ UNCHANGED <<conn, items, manager, down, pool, stop, stopped, errors>>

(* invalidate_connection: the stream is cancelled, its reader joined.       *)
Invalidate == connected' = FALSE /\ stream' = "none" /\ fault' = "none"

LoopTop ==
  /\ loop = "top"
  /\ loop' = IF stopped THEN "closing" ELSE IF connected THEN "open" ELSE "connect"
  /\ UNCHANGED <<conn, items, manager, down, pool, stop, stopped, errors>>

(* create_fresh_connection; a failure is followed by a pause.               *)
Connect ==
  /\ loop = "connect"
  /\ \/ connected' = TRUE /\ loop' = "open" /\ UNCHANGED errors
     \/ /\ "connection" \in Errors /\ errors < MaxErrors
        /\ errors' = errors + 1
        /\ connected' = FALSE /\ loop' = "pause"
  /\ UNCHANGED <<stream, fault, items, manager, down, pool, stop, stopped>>

(* The pause ends with its time or with the _shutdown event.                *)
Pause ==
  /\ loop = "pause"
  /\ loop' = "top"
  /\ UNCHANGED <<conn, items, manager, down, pool, stop, stopped, errors>>

(* A new stream with a new work_item_queue and a new reader thread.         *)
OpenStream ==
  /\ loop = "open"
  /\ stream' = "open" /\ fault' = "none"
  /\ items' = Discarded
  /\ loop' = "receive"
  /\ UNCHANGED <<connected, manager, down, pool, stop, stopped, errors>>

(* After stop the reader is joined and the outer loop ends.                 *)
Receive ==
  /\ loop = "receive"
  /\ loop' = IF stopped THEN "top" ELSE "get"
  /\ UNCHANGED <<conn, items, manager, down, pool, stop, stopped, errors>>

(* The queues belong to the event loop.  The first that needs them makes    *)
(* them, be it a submission or the manager's run, and keeps what is in the  *)
(* queues of before.                                                        *)
Enqueue(i) == Move(i, "queue")

(* submit_orchestration, submit_activity and submit_entity_batch, which     *)
(* raise when the manager is shut down.                                     *)
Submit ==
  /\ loop = "get"
  /\ \E i \in First(At("inbox")) :
        IF ~down
        THEN Enqueue(i) /\ loop' = "receive" /\ UNCHANGED conn
        ELSE items' = Discarded /\ loop' = "pause" /\ Invalidate
  /\ UNCHANGED <<manager, down, pool, stop, stopped, errors>>

(* Variant: every error ends the loop. *)
EndsForGood ==
  /\ loop = "get" /\ At("inbox") = {} /\ fault # "none"
  /\ loop' = "closing" /\ Invalidate
  /\ UNCHANGED <<items, manager, down, pool, stop, stopped, errors>>

(* The handlers of the exception that ended the stream.                     *)
StreamFailed ==
  /\ loop = "get" /\ At("inbox") = {} /\ fault # "none"
  /\ CASE fault = "cancelled" -> loop' = "closing" /\ Invalidate
       [] fault = "connection" -> loop' = "pause" /\ Invalidate
       [] OTHER -> loop' = "pause" /\ fault' = "none" /\ UNCHANGED <<connected, stream>>
  /\ UNCHANGED <<items, manager, down, pool, stop, stopped, errors>>

(* The end of the loop shuts the manager down, which waits for the pool.    *)
Close ==
  /\ loop = "closing"
  /\ Invalidate
  /\ down' = TRUE /\ pool' = FALSE
  /\ loop' = "shutdown"
  /\ items' = Discarded
  /\ UNCHANGED <<manager, stop, stopped, errors>>

Idle == At("pool") \union At("thread") = {}

PoolIsDown ==
  /\ loop = "shutdown" /\ Idle
  /\ loop' = "await"
  /\ UNCHANGED <<conn, items, manager, down, pool, stop, stopped, errors>>

LoopEnds ==
  /\ loop = "await" /\ manager = "over"
  /\ loop' = "done"
  /\ UNCHANGED <<conn, items, manager, down, pool, stop, stopped, errors>>

-----------------------------------------------------------------------------
(* The manager: coroutines of the event loop *)

Awaits == loop \in {"get", "await"}

(* run begins when the run loop first awaits, and takes back a shutdown.    *)
ManagerRuns ==
  /\ Awaits /\ manager = "none"
  /\ manager' = "running" /\ down' = FALSE
  /\ UNCHANGED <<loop, conn, items, pool, stop, stopped, errors>>

(* A consumer creates a task for each item of its queue.                    *)
Consume(k) ==
  /\ Awaits /\ manager = "running"
  /\ \E i \in First(OfKind(k, "queue")) : Move(i, "task")
  /\ UNCHANGED <<loop, conn, manager, down, pool, stop, stopped, errors>>

(* Consumers end when the manager is shut down and nothing is left.         *)
Alive(i) == items[i].at \in Places \ {"server", "inbox", "over"}

ManagerEnds ==
  /\ Awaits /\ manager = "running" /\ down
  /\ \A i \in Item : ~Alive(i)
  /\ manager' = "over"
  /\ UNCHANGED <<loop, conn, items, down, pool, stop, stopped, errors>>

(* Variant: the pool of the event loop, which nobody shuts down. *)
ToPool(i) == Move(i, "pool")

(* _run_func hands a function to the pool, and does nothing once the pool   *)
(* is down; when only the manager's flag was taken back, the pool raises.   *)
RunFunc(i) == IF pool THEN Move(i, "pool") ELSE End(i, "dropped")

(* Variant: no semaphore. *)
AnyNumber(k) == TRUE

Admitted(k) == Cardinality(Inside(k)) < Limit[k]

(* A task gets the semaphore of its kind and executes its item.             *)
Acquire(k) ==
  /\ Awaits /\ Admitted(k)
  /\ \E i \in First(OfKind(k, "task")) : RunFunc(i)
  /\ UNCHANGED <<loop, conn, manager, down, pool, stop, stopped, errors>>

(* Variant: what raises is not abandoned. *)
Forgotten(i) == End(i, "dropped")

(* What raised is abandoned with its cancellation function; if that raises  *)
(* too, the task ends with the exception.                                   *)
Cancelled(i) ==
  IF items[i].cancelling \/ ~pool THEN End(i, "dropped")
  ELSE items' = [items EXCEPT ![i].cancelling = TRUE, ![i].at = "pool"]


(* The coroutine goes on after its function, and lets the semaphore go.     *)
Release(i) ==
  /\ Awaits
  /\ \/ items[i].at = "returned" /\ Move(i, "over")
     \/ items[i].at = "raised" /\ Cancelled(i)
  /\ UNCHANGED <<loop, conn, manager, down, pool, stop, stopped, errors>>

-----------------------------------------------------------------------------
(* The thread pool *)

PoolStarts ==
  /\ Cardinality(At("thread")) < Threads
  /\ \E i \in First(At("pool")) : Move(i, "thread")
  /\ UNCHANGED <<loop, conn, manager, down, pool, stop, stopped, errors>>

(* How _execute_... and _cancel_... end: with an answer, with an abandon    *)
(* (AbandonOrchestrationError), or with an exception (an abandon that the   *)
(* backend does not take, a channel that was closed meanwhile, an entity id *)
(* that is none).                                                           *)
ExecuteOrchestrator == {"answered", "abandoned", "raised"}
ExecuteActivity == {"answered"}
ExecuteEntityBatch == {"answered", "raised"}
Cancel == {"abandoned", "raised"}

Outcomes(i) ==
  IF items[i].cancelling THEN Cancel
  ELSE CASE items[i].kind = "orchestration" -> ExecuteOrchestrator
         [] items[i].kind = "activity" -> ExecuteActivity
         [] OTHER -> ExecuteEntityBatch

PoolEnds(i) ==
  /\ items[i].at = "thread"
  /\ \E o \in Outcomes(i) :
       items' = IF o = "raised" THEN [items EXCEPT ![i].at = "raised"]
                ELSE [items EXCEPT ![i].at = "returned", ![i].fate = o]
  /\ UNCHANGED <<loop, conn, manager, down, pool, stop, stopped, errors>>

-----------------------------------------------------------------------------
(* The stream, its reader and its server *)

Arrive(k) ==
  /\ stream = "open" /\ fault = "none"
  /\ \E i \in First(At("server")) :
       items' = [items EXCEPT ![i].at = "inbox", ![i].kind = k]
  /\ UNCHANGED <<loop, conn, manager, down, pool, stop, stopped, errors>>

(* The reader puts an error behind the items; after a stream that ends      *)
(* without one it puts nothing.                                             *)
StreamEnds(e) ==
  /\ stream = "open" /\ fault = "none" /\ errors < MaxErrors
  /\ errors' = errors + 1
  /\ stream' = "over"
  /\ fault' = IF e = "end" THEN "none" ELSE e
  /\ UNCHANGED <<loop, connected, items, manager, down, pool, stop, stopped>>

-----------------------------------------------------------------------------
(* stop *)

StopCalled ==
  /\ Stops /\ stop = "none" /\ loop # "none"
  /\ stop' = "cancel" /\ stopped' = TRUE
  /\ UNCHANGED <<loop, conn, items, manager, down, pool, errors>>

(* Variant: the stream is left alone. *)
StopSignals ==
  /\ stop = "cancel"
  /\ stop' = "join"
  /\ UNCHANGED <<loop, conn, items, manager, down, pool, stopped, errors>>

StopCancels ==
  /\ stop = "cancel"
  /\ stop' = "join"
  /\ IF stream = "open" THEN stream' = "over" /\ fault' = "cancelled"
     ELSE UNCHANGED <<stream, fault>>
  /\ UNCHANGED <<loop, connected, items, manager, down, pool, stopped, errors>>

(* Where the run loop can be for long: it waits for a work item, for user   *)
(* code in the thread pool, or for the manager.                             *)
Blocked ==
  \/ loop = "get" /\ At("inbox") = {} /\ fault = "none"
  \/ loop = "shutdown" /\ ~Idle
  \/ loop = "await" /\ manager = "running"

(* The run loop has ended, or did not in 30 seconds.                        *)
StopJoined ==
  /\ stop = "join"
  /\ loop = "done" \/ Blocked \/ loop \in SlowAt
  /\ stop' = "wait" /\ down' = TRUE /\ pool' = FALSE
  /\ UNCHANGED <<loop, conn, items, manager, stopped, errors>>

StopReturns ==
  /\ stop = "wait" /\ Idle
  /\ stop' = "returned"
  /\ UNCHANGED <<loop, conn, items, manager, down, pool, stopped, errors>>

-----------------------------------------------------------------------------
Init ==
  /\ loop = "none" /\ connected = FALSE /\ stream = "none" /\ fault = "none"
  /\ items = [i \in Item |-> [kind |-> "none", at |-> "server", fate |-> "none",
                              cancelling |-> FALSE]]
  /\ manager = "none" /\ down = FALSE /\ pool = TRUE
  /\ stop = "none" /\ stopped = FALSE /\ errors = 0

LoopStep ==
  \/ LoopTop \/ Connect \/ Pause \/ OpenStream \/ Receive \/ Submit
  \/ StreamFailed \/ Close \/ PoolIsDown \/ LoopEnds

Coroutine(k) == Consume(k) \/ Acquire(k)

Next ==
  \/ Start \/ LoopStep
  \/ ManagerRuns \/ ManagerEnds
  \/ \E k \in Kinds : Coroutine(k) \/ Arrive(k)
  \/ \E i \in Item : Release(i) \/ PoolEnds(i)
  \/ PoolStarts
  \/ \E e \in Errors : StreamEnds(e)
  \/ StopCalled \/ StopCancels \/ StopJoined \/ StopReturns

Spec == Init /\ [][Next]_vars

(* Threads run, and the event loop gets round to each of its coroutines.    *)
Fairness ==
  /\ WF_vars(LoopStep) /\ WF_vars(ManagerRuns) /\ WF_vars(ManagerEnds)
  /\ \A k \in Kinds : SF_vars(Consume(k)) /\ SF_vars(Acquire(k))
  /\ \A i \in Item : SF_vars(Release(i)) /\ WF_vars(PoolEnds(i))
  /\ WF_vars(PoolStarts)
  /\ WF_vars(StopCancels) /\ WF_vars(StopJoined) /\ WF_vars(StopReturns)

FairSpec == Spec /\ Fairness

-----------------------------------------------------------------------------
(* Properties *)

TypeOK ==
  /\ loop \in {"none", "top", "connect", "pause", "open", "receive", "get", "closing",
               "shutdown", "await", "done"}
  /\ connected \in BOOLEAN
  /\ stream \in {"none", "open", "over"}
  /\ fault \in (AllErrors \ {"end"}) \union {"none"}
  /\ items \in [Item -> [kind : Kinds \union {"none"}, at : Places, fate : Fates,
                         cancelling : BOOLEAN]]
  /\ manager \in {"none", "running", "over"}
  /\ {down, pool, stopped} \subseteq BOOLEAN
  /\ stop \in {"none", "cancel", "join", "wait", "returned"}
  /\ errors \in 0..MaxErrors

(* A work item that was taken from the stream is answered or abandoned, but *)
(* for two cases: a worker that is being stopped may drop it, and an item   *)
(* that raised is given up when its abandon raises as well.  Neither errors *)
(* of the stream nor a full pool make a worker drop an item.                *)
NeverDropped ==
  \A i \in Item : items[i].fate = "dropped" => stopped \/ items[i].cancelling

(* What stop says of itself: pending work items are completed.              *)
StopCompletesWork ==
  \A i \in Item : items[i].fate # "dropped"

(* When stop has returned nothing is executed any more, not even when it    *)
(* gave up waiting for the run loop: no user code runs after it.            *)
StoppedIsIdle == stop = "returned" => At("pool") \union At("thread") = {}

(* An execution holds its semaphore until its coroutine knows the outcome,  *)
(* the abandoning included: no kind ever exceeds its limit.                 *)
WithinLimits == \A k \in Kinds : Cardinality(Inside(k)) <= Limit[k]


(* After an error on the stream the worker listens again, or is stopped.    *)
Reconnects == stream # "open" /\ loop # "none" ~> stream = "open" \/ stopped

(* stop ends the run loop and returns.                                      *)
StopEnds == stopped ~> stop = "returned" /\ loop = "done"
=============================================================================
