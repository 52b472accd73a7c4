----------------------------- MODULE WorkerProofs -----------------------------
(***************************************************************************)
(* The worker process for any kinds, limits, threads and numbers of items: *)
(* nothing is executed after stop has returned, an item taken from the     *)
(* stream is dropped only by a worker that is being stopped or when its    *)
(* abandon raises, and semaphores hold.                                    *)
(*                                                                         *)
(* Few actions give a work item a new place or fate, so the first proof    *)
(* has two halves: what a step can do to an item (Harmless), and what it   *)
(* can do to the run loop, the stream and the flags (Control).  The second *)
(* says what gets into the thread pool, the third counts: one action lets  *)
(* an item under a semaphore, and all others let items out.                *)
(***************************************************************************)
EXTENDS Worker, FiniteSetTheorems, TLAPS

Typed ==
  items \in [Item -> [kind : Kinds \union {"none"}, at : Places, fate : Fates,
                      cancelling : BOOLEAN]]

(* Only being stopped shuts anything down. *)
Orderly ==
  \/ stopped
  \/ /\ ~down /\ pool /\ stop = "none" /\ fault # "cancelled"
     /\ loop \notin {"closing", "shutdown", "await", "done"}

(* Between two streams nothing is left in work_item_queue. *)
Between ==
  loop \in {"none", "top", "connect", "pause", "open"} /\ ~stopped =>
    stream # "open" /\ At("inbox") = {}

(* Behind an error nothing arrives. *)
Behind == fault # "none" => stream # "open"

-----------------------------------------------------------------------------
(* What a step does to the work items *)

Harmless ==
  \A j \in Item :
    /\ items'[j].at = "inbox" => items[j].at = "inbox" \/ stream = "open"
    /\ items'[j].fate = "dropped" =>
         items[j].fate = "dropped" \/ stopped \/ items'[j].cancelling
    /\ items[j].cancelling => items'[j].cancelling

LEMMA MoveStep ==
  ASSUME Typed, NEW i, NEW place \in Places, Move(i, place),
         place = "inbox" => stream = "open"
  PROVE  Typed' /\ Harmless
<1>1. \A j \in Item :
        items'[j] = IF j = i THEN [items[j] EXCEPT !.at = place] ELSE items[j]
  BY DEF Move, Typed
<1>2. Typed'
  BY DEF Move, Typed
<1>3. ASSUME NEW j \in Item
      PROVE  /\ items'[j].fate = items[j].fate /\ items'[j].cancelling = items[j].cancelling
             /\ items'[j].at = IF j = i THEN place ELSE items[j].at
  BY <1>1 DEF Typed
<1> QED
  BY <1>2, <1>3 DEF Harmless, At

LEMMA EndStep ==
  ASSUME Typed, NEW i, NEW fate \in Fates, End(i, fate),
         fate = "dropped" => stopped \/ items[i].cancelling
  PROVE  Typed' /\ Harmless
<1>1. Typed'
  BY DEF End, Typed, Places
<1>2. ASSUME NEW j \in Item
      PROVE  /\ items'[j].cancelling = items[j].cancelling
             /\ \/ items'[j] = items[j]
                \/ j = i /\ items'[j].at = "over" /\ items'[j].fate = fate
  BY DEF End, Typed
<1> QED
  BY <1>1, <1>2 DEF Harmless, At

LEMMA DiscardedStep ==
  ASSUME Typed, items' = Discarded, stopped \/ At("inbox") = {}
  PROVE  Typed' /\ Harmless
<1>1. Typed'
  BY DEF Discarded, Typed, Places, Fates
<1>2. ASSUME NEW j \in Item
      PROVE  /\ items'[j].cancelling = items[j].cancelling
             /\ items'[j] = items[j] \/ (items'[j].at = "over" /\ stopped)
  BY DEF Discarded, Typed, At
<1> QED
  BY <1>1, <1>2 DEF Harmless, At

LEMMA SameStep ==
  ASSUME Typed, items' = items
  PROVE  Typed' /\ Harmless
BY DEF Typed, Harmless, At

LEMMA RunLoopItems ==
  ASSUME Typed, Orderly, Between, Start \/ LoopStep
  PROVE  Typed' /\ Harmless
<1>1. CASE Start \/ LoopTop \/ Connect \/ Pause \/ Receive \/ StreamFailed \/ PoolIsDown
           \/ LoopEnds
  BY <1>1, SameStep
     DEF Start, LoopTop, Connect, Pause, Receive, StreamFailed, PoolIsDown, LoopEnds
<1>2. CASE OpenStream
  BY <1>2, DiscardedStep DEF OpenStream, Between
<1>3. CASE Submit
  <2>1. CASE ~down
    BY <1>3, <2>1, MoveStep DEF Submit, First, Enqueue, Places
  <2>2. CASE down
    BY <1>3, <2>2, DiscardedStep DEF Submit, Orderly
  <2> QED
    BY <2>1, <2>2
<1>4. CASE Close
  BY <1>4, DiscardedStep DEF Close, Orderly
<1> QED
  BY <1>1, <1>2, <1>3, <1>4 DEF LoopStep

LEMMA CoroutineItems ==
  ASSUME Typed, Orderly, NEW k \in Kinds, Coroutine(k)
  PROVE  Typed' /\ Harmless
<1>1. CASE Consume(k)
  BY <1>1, MoveStep DEF Consume, First, Places
<1>2. CASE Acquire(k)
  BY <1>2, MoveStep, EndStep DEF Acquire, RunFunc, Orderly, Places, Fates
<1> QED
  BY <1>1, <1>2 DEF Coroutine

LEMMA ReleaseItems ==
  ASSUME Typed, Orderly, NEW i \in Item, Release(i)
  PROVE  Typed' /\ Harmless
<1>1. CASE items[i].at = "returned" /\ Move(i, "over")
  BY <1>1, MoveStep DEF Places
<1>2. CASE (items[i].cancelling \/ ~pool) /\ End(i, "dropped")
  BY <1>2, EndStep DEF Orderly, Fates
<1>3. CASE /\ pool
           /\ items' = [items EXCEPT ![i].cancelling = TRUE, ![i].at = "pool"]
  <2>1. Typed'
    BY <1>3 DEF Typed, Places
  <2>2. \A j \in Item : items'[j] = items[j] \/ /\ items'[j].at = "pool"
                                                /\ items'[j].fate = items[j].fate
                                                /\ items'[j].cancelling
    BY <1>3 DEF Typed
  <2> QED
    BY <1>3, <2>1, <2>2 DEF Harmless, At
<1> QED
  BY <1>1, <1>2, <1>3 DEF Release, Cancelled

LEMMA PoolItems ==
  ASSUME Typed, NEW i \in Item, PoolEnds(i)
  PROVE  Typed' /\ Harmless
<1>1. PICK o \in Outcomes(i) :
        items' = IF o = "raised" THEN [items EXCEPT ![i].at = "raised"]
                 ELSE [items EXCEPT ![i].at = "returned", ![i].fate = o]
  BY DEF PoolEnds
<1>2. o \in {"answered", "abandoned", "raised"}
  BY DEF Outcomes, Cancel, ExecuteOrchestrator, ExecuteActivity, ExecuteEntityBatch
<1>3. Typed'
  BY <1>1, <1>2 DEF Typed, Places, Fates
<1>4. ASSUME NEW j \in Item
      PROVE  /\ items'[j].at \in {"raised", "returned"} \/ items'[j] = items[j]
             /\ items'[j].fate # "dropped" \/ items'[j].fate = items[j].fate
             /\ items'[j].cancelling = items[j].cancelling
  BY <1>1, <1>2 DEF Typed
<1> QED
  BY <1>3, <1>4 DEF Harmless, At

LEMMA ArrivalItems ==
  ASSUME Typed, NEW k \in Kinds, Arrive(k)
  PROVE  Typed' /\ Harmless
<1>1. PICK i \in Item : /\ stream = "open"
                        /\ items' = [items EXCEPT ![i].at = "inbox", ![i].kind = k]
  BY DEF Arrive, First, At
<1>2. Typed'
  BY <1>1 DEF Typed, Places
<1>3. \A j \in Item : \/ items'[j] = items[j]
                      \/ /\ items'[j].at = "inbox" /\ items'[j].fate = items[j].fate
                         /\ items'[j].cancelling = items[j].cancelling
  BY <1>1 DEF Typed
<1> QED
  BY <1>1, <1>2, <1>3 DEF Harmless, At

LEMMA ItemsStep ==
  ASSUME Typed, Orderly, Between, [Next]_vars
  PROVE  Typed' /\ Harmless
<1>1. CASE UNCHANGED vars
  BY <1>1, SameStep DEF vars
<1>2. CASE Start \/ LoopStep
  BY <1>2, RunLoopItems
<1>3. CASE \E k \in Kinds : Coroutine(k) \/ Arrive(k)
  BY <1>3, CoroutineItems, ArrivalItems
<1>4. CASE \E i \in Item : Release(i) \/ PoolEnds(i)
  BY <1>4, ReleaseItems, PoolItems
<1>5. CASE PoolStarts
  BY <1>5, MoveStep DEF PoolStarts, First, Places, Idle
<1>6. CASE ManagerRuns \/ ManagerEnds \/ StopCalled \/ StopCancels \/ StopJoined \/ StopReturns
  BY <1>6, SameStep
     DEF ManagerRuns, ManagerEnds, StopCalled, StopCancels, StopJoined, StopReturns
<1>7. CASE \E e \in Errors : StreamEnds(e)
  BY <1>7, SameStep DEF StreamEnds
<1> QED
  BY <1>1, <1>2, <1>3, <1>4, <1>5, <1>6, <1>7 DEF Next

-----------------------------------------------------------------------------
(* What a step does to the loop, the stream and the flags *)

LEMMA TypeStep ==
  ASSUME TypeOK, Typed', [Next]_vars
  PROVE  TypeOK'
<1> USE DEF TypeOK, Typed, conn
<1>1. CASE UNCHANGED vars
  BY <1>1 DEF vars
<1>2. CASE Start \/ LoopTop \/ Pause \/ OpenStream \/ Receive \/ PoolIsDown \/ LoopEnds
  BY <1>2 DEF Start, LoopTop, Pause, OpenStream, Receive, PoolIsDown, LoopEnds
<1>3. CASE Connect
  <2>1. errors' \in 0..MaxErrors
    BY <1>3, BoundAssumption DEF Connect
  <2> QED
    BY <1>3, <2>1 DEF Connect
<1>4. CASE Submit \/ StreamFailed \/ Close
  BY <1>4 DEF Submit, StreamFailed, Close, Invalidate
<1>5. CASE ManagerRuns \/ ManagerEnds
  BY <1>5 DEF ManagerRuns, ManagerEnds
<1>6. ASSUME NEW k \in Kinds, Coroutine(k) \/ Arrive(k) PROVE TypeOK'
  BY <1>6 DEF Coroutine, Consume, Acquire, Arrive
<1>7. ASSUME NEW i \in Item, Release(i) \/ PoolEnds(i) PROVE TypeOK'
  BY <1>7 DEF Release, PoolEnds
<1>8. ASSUME NEW e \in Errors, StreamEnds(e) PROVE TypeOK'
  <2>1. errors' \in 0..MaxErrors
    BY <1>8, BoundAssumption DEF StreamEnds
  <2> QED
    BY <1>8, <2>1, InputsAssumption DEF StreamEnds
<1>9. CASE PoolStarts \/ StopCalled \/ StopCancels \/ StopJoined \/ StopReturns
  BY <1>9 DEF PoolStarts, StopCalled, StopCancels, StopJoined, StopReturns, AllErrors
<1> QED
  BY <1>1, <1>2, <1>3, <1>4, <1>5, <1>6, <1>7, <1>8, <1>9 DEF Next, LoopStep

Control == Orderly /\ Between /\ Behind

LEMMA ControlStep ==
  ASSUME "cancelled" \notin Errors, Control, Harmless, [Next]_vars
  PROVE  Control'
<1> USE DEF Control, Orderly, Behind, conn
<1>1. (At("inbox") = {} /\ stream # "open") => At("inbox")' = {}
  BY DEF Harmless, At
<1>2. CASE UNCHANGED vars
  BY <1>2 DEF vars, Between, At
<1>3. CASE Start \/ LoopTop \/ Connect \/ Pause \/ Receive \/ PoolIsDown \/ LoopEnds
  BY <1>1, <1>3 DEF Start, LoopTop, Connect, Pause, Receive, PoolIsDown, LoopEnds, Between
<1>4. CASE OpenStream \/ Submit \/ StreamFailed \/ Close
  BY <1>1, <1>4 DEF OpenStream, Submit, StreamFailed, Close, Invalidate, Between
<1>5. CASE ManagerRuns \/ ManagerEnds \/ PoolStarts
  BY <1>1, <1>5 DEF ManagerRuns, ManagerEnds, PoolStarts, Between
<1>6. ASSUME NEW k \in Kinds, Coroutine(k) \/ Arrive(k) PROVE Control'
  BY <1>1, <1>6 DEF Coroutine, Consume, Acquire, Arrive, Between
<1>7. ASSUME NEW i \in Item, Release(i) \/ PoolEnds(i) PROVE Control'
  BY <1>1, <1>7 DEF Release, PoolEnds, Between
<1>8. ASSUME NEW e \in Errors, StreamEnds(e) PROVE Control'
  BY <1>1, <1>8 DEF StreamEnds, Between
<1>9. CASE StopCalled \/ StopCancels \/ StopJoined \/ StopReturns
  BY <1>1, <1>9 DEF StopCalled, StopCancels, StopJoined, StopReturns, Between
<1> QED
  BY <1>2, <1>3, <1>4, <1>5, <1>6, <1>7, <1>8, <1>9 DEF Next, LoopStep

-----------------------------------------------------------------------------
Inv == TypeOK /\ Control /\ NeverDropped

(* Whatever fails, and whenever stop is called, a work item that was taken   *)
(* from the stream is dropped only by a worker that is being stopped, or     *)
(* after its abandon was tried and raised as well.  A server that cancels    *)
(* the stream makes the run loop end as stop does, hence the assumption.     *)
THEOREM WorkerTheorem ==
  ASSUME "cancelled" \notin Errors
  PROVE  Spec => [](TypeOK /\ NeverDropped)
<1>1. Init => Inv
  <2> SUFFICES ASSUME Init PROVE Inv
    OBVIOUS
  <2>1. TypeOK
    <3>1. errors \in 0..MaxErrors
      BY BoundAssumption DEF Init
    <3>2. Typed
      BY DEF Init, Typed, Places, Fates
    <3> QED
      BY <3>1, <3>2 DEF Init, TypeOK, Typed
  <2>2. NeverDropped /\ At("inbox") = {}
    BY DEF Init, NeverDropped, At
  <2>3. Control
    BY <2>2 DEF Init, Control, Orderly, Between, Behind
  <2> QED
    BY <2>1, <2>2, <2>3 DEF Inv
<1>2. Inv /\ [Next]_vars => Inv'
  <2> SUFFICES ASSUME Inv, [Next]_vars
               PROVE  Inv'
    OBVIOUS
  <2>1. Typed' /\ Harmless
    BY ItemsStep DEF Inv, TypeOK, Typed, Control
  <2>2. TypeOK'
    BY <2>1, TypeStep DEF Inv
  <2>3. Control'
    BY <2>1, ControlStep DEF Inv
  <2>4. NeverDropped'
    <3>1. stopped => stopped'
      BY DEF Inv, Next, vars, conn, Start, LoopStep, LoopTop, Connect, Pause, OpenStream,
             Receive, Submit, StreamFailed, Close, PoolIsDown, LoopEnds, ManagerRuns,
             ManagerEnds, Coroutine, Consume, Acquire, Arrive, Release, PoolEnds, PoolStarts,
             StreamEnds, StopCalled, StopCancels, StopJoined, StopReturns
    <3> QED
      BY <2>1, <3>1 DEF Inv, Harmless, NeverDropped
  <2> QED
    BY <2>2, <2>3, <2>4 DEF Inv
<1>3. Inv => TypeOK /\ NeverDropped
  BY DEF Inv
<1> QED
  BY <1>1, <1>2, <1>3, PTL DEF Spec

-----------------------------------------------------------------------------
(* Shutting down *)

(* Nothing comes into an empty pool that is down. *)
Confined ==
  \A j \in Item : items'[j].at \in {"pool", "thread"} => ~Idle \/ pool

LEMMA ConfinedStep ==
  ASSUME Typed, [Next]_vars
  PROVE  Typed' /\ Confined
<1> USE DEF Confined, Idle, At
<1>1. CASE items' = items
  BY <1>1 DEF Typed
<1>2. CASE items' = Discarded
  BY <1>2 DEF Discarded, Typed, Places, Fates
<1>3. ASSUME NEW i \in Item, NEW place \in Places, Move(i, place),
             place \in {"pool", "thread"} => ~Idle \/ pool
      PROVE  Typed' /\ Confined
  BY <1>3 DEF Move, Typed
<1>4. ASSUME NEW i \in Item, End(i, "dropped") PROVE Typed' /\ Confined
  BY <1>4 DEF End, Typed, Places, Fates
<1>5. ASSUME NEW k \in Kinds, Coroutine(k) PROVE Typed' /\ Confined
  BY <1>3, <1>4, <1>5 DEF Coroutine, Consume, Acquire, RunFunc, First, OfKind, Places
<1>6. ASSUME NEW k \in Kinds, Arrive(k) PROVE Typed' /\ Confined
  <2>1. PICK i \in Item : items' = [items EXCEPT ![i].at = "inbox", ![i].kind = k]
    BY <1>6 DEF Arrive, First
  <2> QED
    BY <2>1 DEF Typed, Places
<1>7. ASSUME NEW i \in Item, Release(i) PROVE Typed' /\ Confined
  <2>1. CASE Move(i, "over")
    BY <1>3, <2>1 DEF Places
  <2>2. CASE pool /\ items' = [items EXCEPT ![i].cancelling = TRUE, ![i].at = "pool"]
    BY <2>2 DEF Typed, Places
  <2> QED
    BY <1>4, <1>7, <2>1, <2>2 DEF Release, Cancelled
<1>8. ASSUME NEW i \in Item, PoolEnds(i) PROVE Typed' /\ Confined
  <2>1. PICK o \in {"answered", "abandoned", "raised"} :
          items' = IF o = "raised" THEN [items EXCEPT ![i].at = "raised"]
                   ELSE [items EXCEPT ![i].at = "returned", ![i].fate = o]
    BY <1>8 DEF PoolEnds, Outcomes, Cancel, ExecuteOrchestrator, ExecuteActivity,
                ExecuteEntityBatch
  <2> QED
    BY <2>1 DEF Typed, Places, Fates
<1>9. CASE PoolStarts
  BY <1>3, <1>9 DEF PoolStarts, First, Places
<1>10. CASE Submit
  BY <1>2, <1>3, <1>10 DEF Submit, First, Enqueue, Places
<1>11. CASE OpenStream \/ Close
  BY <1>2, <1>11 DEF OpenStream, Close
<1> QED
  BY <1>1, <1>5, <1>6, <1>7, <1>8, <1>9, <1>10, <1>11
     DEF Next, vars, Start, LoopStep, LoopTop, Connect, Pause, Receive, StreamFailed,
         PoolIsDown, LoopEnds, ManagerRuns, ManagerEnds, StreamEnds, StopCalled,
         StopCancels, StopJoined, StopReturns

(* The pool is down before stop waits for it. *)
PoolClosed == stop \in {"wait", "returned"} => ~pool

Shut == PoolClosed /\ StoppedIsIdle

LEMMA ShutStep ==
  ASSUME Shut, Confined, [Next]_vars
  PROVE  Shut'
<1> USE DEF Shut, PoolClosed, StoppedIsIdle, conn
<1>1. (Idle /\ ~pool) => Idle'
  BY DEF Confined, Idle, At
<1>2. CASE UNCHANGED <<stop, pool>>
  BY <1>1, <1>2 DEF Idle
<1>3. CASE Close
  BY <1>1, <1>3 DEF Close, Idle
<1>4. CASE StopCalled \/ StopCancels \/ StopJoined
  BY <1>4 DEF StopCalled, StopCancels, StopJoined
<1>5. CASE StopReturns
  BY <1>1, <1>5 DEF StopReturns, Idle
<1> QED
  BY <1>2, <1>3, <1>4, <1>5
     DEF Next, vars, Start, LoopStep, LoopTop, Connect, Pause, OpenStream, Receive, Submit,
         StreamFailed, PoolIsDown, LoopEnds, ManagerRuns, ManagerEnds, Coroutine, Consume,
         Acquire, Arrive, Release, PoolEnds, PoolStarts, StreamEnds

(* When stop has returned no user code runs any more and none is about to,   *)
(* not even when it gave up waiting for the run loop, and whatever ended the *)
(* streams: the pool is shut down first, and only then waited for.           *)
THEOREM StoppedTheorem == Spec => []StoppedIsIdle
<1>1. Init => Typed /\ Shut
  BY DEF Init, Typed, Places, Fates, Shut, PoolClosed, StoppedIsIdle
<1>2. Typed /\ Shut /\ [Next]_vars => Typed' /\ Shut'
  BY ConfinedStep, ShutStep
<1>3. Shut => StoppedIsIdle
  BY DEF Shut
<1> QED
  BY <1>1, <1>2, <1>3, PTL DEF Spec

-----------------------------------------------------------------------------
(* The semaphores *)

Busy == {"pool", "thread", "returned", "raised"}

(* No item comes under a semaphore in this step. *)
Staying ==
  \A j \in Item :
    items'[j].at \in Busy => items[j].at \in Busy /\ items'[j].kind = items[j].kind

LEMMA Residents ==
  ASSUME NEW k
  PROVE  Inside(k) = {i \in Item : items[i].at \in Busy /\ items[i].kind = k}
BY DEF Inside, OfKind, At, Busy

LEMMA InsideFinite ==
  ASSUME NEW k
  PROVE  IsFiniteSet(Inside(k)) /\ Cardinality(Inside(k)) \in Nat
<1>1. IsFiniteSet(Item)
  BY FS_Interval, BoundAssumption DEF Item
<1>2. Inside(k) \in SUBSET Item
  BY Residents
<1> QED
  BY <1>1, <1>2, FS_Subset, FS_CardinalityType

LEMMA GrownByOne ==
  ASSUME NEW S, IsFiniteSet(S), NEW i, NEW T \in SUBSET (S \union {i}), NEW n \in Nat,
         Cardinality(S) < n
  PROVE  Cardinality(T) <= n
<1>1. Cardinality(S) \in Nat
  BY FS_CardinalityType
<1>2. /\ IsFiniteSet(S \union {i})
      /\ Cardinality(S \union {i}) = IF i \in S THEN Cardinality(S) ELSE Cardinality(S) + 1
  BY FS_AddElement
<1>3. Cardinality(T) <= Cardinality(S \union {i}) /\ IsFiniteSet(T)
  BY <1>2, FS_Subset
<1>4. Cardinality(T) \in Nat
  BY <1>3, FS_CardinalityType
<1> QED
  BY <1>1, <1>2, <1>3, <1>4

LEMMA StayingLimits ==
  ASSUME WithinLimits, Staying
  PROVE  WithinLimits'
<1> SUFFICES ASSUME NEW k \in Kinds
             PROVE  Cardinality(Inside(k)') <= Limit[k]
  BY DEF WithinLimits
<1>1. Inside(k)' = {i \in Item : items'[i].at \in Busy /\ items'[i].kind = k}
  BY DEF Inside, OfKind, At, Busy
<1>2. Inside(k)' \in SUBSET Inside(k)
  BY <1>1, Residents DEF Staying
<1>3. Cardinality(Inside(k)') <= Cardinality(Inside(k)) /\ Cardinality(Inside(k)') \in Nat
  BY <1>2, InsideFinite, FS_Subset, FS_CardinalityType
<1>4. Cardinality(Inside(k)) <= Limit[k] /\ Limit[k] \in Nat
  BY KindsAssumption DEF WithinLimits
<1> QED
  BY <1>3, <1>4, InsideFinite

LEMMA AcquireLimits ==
  ASSUME Typed, WithinLimits, NEW m \in Kinds, Acquire(m)
  PROVE  Typed' /\ WithinLimits'
<1>1. PICK i \in Item : /\ items[i].kind = m
                        /\ Cardinality(Inside(m)) < Limit[m]
                        /\ Move(i, "pool") \/ End(i, "dropped")
  BY DEF Acquire, RunFunc, First, OfKind, At, Admitted
<1>2. CASE End(i, "dropped")
  <2>1. Typed'
    BY <1>2 DEF End, Typed, Places, Fates
  <2>2. Staying
    BY <1>2 DEF End, Typed, Staying, Busy
  <2> QED
    BY <2>1, <2>2, StayingLimits
<1>3. CASE Move(i, "pool")
  <2>1. Typed'
    BY <1>3 DEF Move, Typed, Places
  <2>2. \A j \in Item : /\ items'[j].kind = items[j].kind
                        /\ j # i => items'[j].at = items[j].at
    BY <1>3 DEF Move, Typed
  <2> SUFFICES ASSUME NEW k \in Kinds
               PROVE  Cardinality(Inside(k)') <= Limit[k]
    BY <2>1 DEF WithinLimits
  <2>3. Inside(k)' = {j \in Item : items'[j].at \in Busy /\ items'[j].kind = k}
    BY DEF Inside, OfKind, At, Busy
  <2>4. Limit[k] \in Nat /\ Limit[m] \in Nat /\ Cardinality(Inside(k)) <= Limit[k]
    BY KindsAssumption DEF WithinLimits
  <2>5. CASE k # m
    <3>1. \A j \in Item : items'[j].at \in Busy /\ items'[j].kind = k =>
                          items[j].at \in Busy /\ items[j].kind = k
      BY <1>1, <2>2, <2>5
    <3>2. Inside(k)' \in SUBSET Inside(k)
      BY <2>3, <3>1, Residents
    <3> QED
      BY <3>2, <2>4, InsideFinite, FS_Subset, FS_CardinalityType
  <2>6. CASE k = m
    <3>1. Inside(k)' \in SUBSET (Inside(k) \union {i})
      BY <2>2, <2>3, Residents
    <3>2. IsFiniteSet(Inside(k))
      BY InsideFinite
    <3>3. Cardinality(Inside(k)) < Limit[k]
      BY <1>1, <2>6
    <3> QED
      BY <2>4, <3>1, <3>2, <3>3, GrownByOne
  <2> QED
    BY <2>5, <2>6
<1> QED
  BY <1>1, <1>2, <1>3

(* Every other step. *)
LEMMA OtherSteps ==
  ASSUME Typed, [Next]_vars, \A k \in Kinds : ~Acquire(k)
  PROVE  Typed' /\ Staying
<1> USE DEF Staying, Busy
<1>1. CASE items' = items
  BY <1>1 DEF Typed
<1>2. CASE items' = Discarded
  BY <1>2 DEF Discarded, Typed, Places, Fates
<1>3. ASSUME NEW i \in Item, NEW place \in Places, Move(i, place),
             place \in Busy => items[i].at \in Busy
      PROVE  Typed' /\ Staying
  BY <1>3 DEF Move, Typed
<1>4. ASSUME NEW k \in Kinds, Consume(k) PROVE Typed' /\ Staying
  BY <1>3, <1>4 DEF Consume, First, OfKind, At, Places
<1>5. ASSUME NEW k \in Kinds, Arrive(k) PROVE Typed' /\ Staying
  <2>1. PICK i \in Item : items' = [items EXCEPT ![i].at = "inbox", ![i].kind = k]
    BY <1>5 DEF Arrive, First, At
  <2> QED
    BY <2>1 DEF Typed, Places
<1>6. ASSUME NEW i \in Item, Release(i) PROVE Typed' /\ Staying
  <2>1. CASE items[i].at = "returned" /\ Move(i, "over")
    BY <1>3, <2>1 DEF Places
  <2>2. CASE items[i].at = "raised" /\ Cancelled(i)
    BY <2>2 DEF Cancelled, End, Typed, Places, Fates
  <2> QED
    BY <1>6, <2>1, <2>2 DEF Release
<1>7. ASSUME NEW i \in Item, PoolEnds(i) PROVE Typed' /\ Staying
  <2>1. PICK o \in {"answered", "abandoned", "raised"} :
          items' = IF o = "raised" THEN [items EXCEPT ![i].at = "raised"]
                   ELSE [items EXCEPT ![i].at = "returned", ![i].fate = o]
    BY <1>7 DEF PoolEnds, Outcomes, Cancel, ExecuteOrchestrator, ExecuteActivity,
                ExecuteEntityBatch
  <2>2. items[i].at = "thread"
    BY <1>7 DEF PoolEnds
  <2> QED
    BY <2>1, <2>2 DEF Typed, Places, Fates
<1>8. CASE PoolStarts
  BY <1>3, <1>8 DEF PoolStarts, First, At, Places
<1>9. CASE Submit
  BY <1>2, <1>3, <1>9 DEF Submit, First, Enqueue, At, Places
<1>10. CASE OpenStream \/ Close
  BY <1>2, <1>10 DEF OpenStream, Close
<1> QED
  BY <1>1, <1>4, <1>5, <1>6, <1>7, <1>8, <1>9, <1>10
     DEF Next, vars, Start, LoopStep, LoopTop, Connect, Pause, Receive, StreamFailed,
         PoolIsDown, LoopEnds, ManagerRuns, ManagerEnds, Coroutine, StreamEnds, StopCalled,
         StopCancels, StopJoined, StopReturns

(* No kind of work item ever exceeds its limit, with any number of threads,  *)
(* and however executions and streams end: a semaphore is held through the   *)
(* queue of the pool, the execution and the abandoning after it.             *)
THEOREM LimitsTheorem == Spec => []WithinLimits
<1>1. Init => Typed /\ WithinLimits
  <2> SUFFICES ASSUME Init PROVE Typed /\ WithinLimits
    OBVIOUS
  <2>1. Typed
    BY DEF Init, Typed, Places, Fates
  <2>2. \A k \in Kinds : Inside(k) = {}
    BY DEF Init, Inside, OfKind, At
  <2>3. Cardinality({}) = 0
    BY FS_EmptySet
  <2> QED
    BY <2>1, <2>2, <2>3, KindsAssumption DEF WithinLimits
<1>2. Typed /\ WithinLimits /\ [Next]_vars => Typed' /\ WithinLimits'
  <2>1. CASE \E k \in Kinds : Acquire(k)
    BY <2>1, AcquireLimits
  <2>2. CASE \A k \in Kinds : ~Acquire(k)
    BY <2>2, OtherSteps, StayingLimits
  <2> QED
    BY <2>1, <2>2
<1> QED
  BY <1>1, <1>2, PTL DEF Spec
===============================================================================
