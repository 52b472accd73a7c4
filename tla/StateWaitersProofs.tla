-------------------------- MODULE StateWaitersProofs --------------------------
(***************************************************************************)
(* The list of waiters is exact for any clients, requests, reported ends   *)
(* and instances, and so is what a client is told of an end, if an         *)
(* orchestration that is over is not suspended or resumed.                 *)
(***************************************************************************)
EXTENDS StateWaiters, TLAPS

(* What is left of a handler goes with the instance it is about. *)
Handled ==
  /\ current <= created
  /\ \A i \in Instance : i > created => status[i] = "PENDING"
  /\ handler.at # "none" => current # 0
  /\ handler.at = "status" => handler.end \in Ends
  /\ handler.at \in {"output", "renew"} =>
       handler.end \in Ends /\ status[current] = handler.end
  /\ handler.at = "renew" => handler.end = "CONTINUED"

(* Only an instance is read. *)
Readable ==
  \A c \in Clients :
    client[c].at \in {"reading", "half", "answered"} => client[c].result \in Instance

Known == TypeOK /\ Handled /\ Readable /\ ListIsExact

-----------------------------------------------------------------------------
(* The list of waiters *)

LEMMA ClientSteps ==
  ASSUME Known, NEW c \in Clients, Wait(c) \/ ClientStep(c)
  PROVE  Known'
<1>1. UNCHANGED <<current, created, status, output, failed, handler>>
  BY DEF Wait, ClientStep, Wake, TimeOut, GiveUp, ReadStatus, ReadOutput, instances
<1>2. Handled'
  BY <1>1 DEF Known, Handled
<1>3. /\ client[c].at = "reading" => status[client[c].result] \in Status
      /\ client[c].at = "half" => output[client[c].result] \in Ends \union {"none"}
  BY DEF Known, TypeOK, Readable
<1>4. client' \in [Clients -> Client]
  <2> USE DEF Known, TypeOK, Client
  <2>1. CASE Wait(c)
    BY <2>1 DEF Wait
  <2>2. CASE Wake(c) \/ TimeOut(c) \/ GiveUp(c)
    BY <2>2 DEF Wake, TimeOut, GiveUp
  <2>3. CASE ReadStatus(c) \/ ReadOutput(c)
    BY <2>3, <1>3 DEF ReadStatus, ReadOutput
  <2> QED
    BY <2>1, <2>2, <2>3 DEF ClientStep
<1>5. \A d \in Clients \ {c} : client'[d] = client[d]
  BY DEF Known, TypeOK, Wait, ClientStep, Wake, TimeOut, GiveUp, ReadStatus, ReadOutput
<1>6. /\ client'[c].at \in {"reading", "half", "answered"} => client'[c].result \in Instance
      /\ waiters' \subseteq Clients
      /\ client'[c].at = "waiting" => c \in waiters'
      /\ c \in waiters' => client'[c].at \in {"waiting", "late"} /\ ~(Unlocked /\ Matches(c))
      /\ waiters' \ {c} = waiters \ {c}
  <2> USE DEF Known, TypeOK, Client, ListIsExact, Readable
  <2>1. CASE Wait(c)
    BY <2>1 DEF Wait, Matches, Instance
  <2>2. CASE Wake(c)
    BY <2>2 DEF Wake, Instance
  <2>3. CASE TimeOut(c) \/ GiveUp(c)
    BY <2>3 DEF TimeOut, GiveUp
  <2>4. CASE ReadStatus(c) \/ ReadOutput(c)
    BY <2>4 DEF ReadStatus, ReadOutput
  <2> QED
    BY <2>1, <2>2, <2>3, <2>4 DEF ClientStep
<1>7. TypeOK'
  BY <1>1, <1>4, <1>6 DEF Known, TypeOK
<1>8. Readable'
  BY <1>5, <1>6 DEF Known, Readable
<1>9. ListIsExact'
  BY <1>1, <1>5, <1>6 DEF Known, TypeOK, ListIsExact, Matches, Holds, Unlocked
<1> QED
  BY <1>2, <1>7, <1>8, <1>9 DEF Known

(* A new instance is pending, so nobody waits for its state. *)
LEMMA NewInstance ==
  ASSUME Known, StartInstance \/ PurgeInstances \/ RestartInstance
  PROVE  Known'
<1> USE BoundAssumption DEF Known, TypeOK, Create
<1>1. UNCHANGED <<status, output, failed, handler, client>> /\ Unlocked
  BY DEF StartInstance, PurgeInstances, RestartInstance
<1>2. /\ current' \in 0..MaxInstances /\ created' \in 0..MaxInstances
      /\ current' <= created' /\ created <= created'
  BY DEF StartInstance, PurgeInstances, RestartInstance, Handled
<1>3. waiters' \subseteq Clients
  BY DEF StartInstance, PurgeInstances, RestartInstance
<1>4. TypeOK' /\ Handled' /\ Readable'
  BY <1>1, <1>2, <1>3 DEF Handled, Readable, Unlocked, Instance
<1>5. CASE StartInstance
  <2>1. status[current'] = "PENDING"
    BY <1>5 DEF StartInstance, Handled, Instance
  <2> QED
    BY <1>1, <1>4, <1>5, <2>1 DEF StartInstance, ListIsExact, Matches, Holds, Terminal
<1>6. CASE PurgeInstances \/ RestartInstance
  <2>1. waiters = {}
    BY <1>1, <1>6 DEF PurgeInstances, RestartInstance, ListIsExact, Matches, Holds, IsOver, Terminal
  <2> QED
    BY <1>1, <1>4, <1>6, <2>1 DEF PurgeInstances, RestartInstance, ListIsExact
<1> QED
  BY <1>5, <1>6

LEMMA Told ==
  ASSUME TypeOK, Readable, NEW S \in SUBSET waiters, NEW r \in 0..MaxInstances, SetEvents(S, r)
  PROVE  /\ client' \in [Clients -> Client] /\ Readable'
         /\ \A c \in Clients :
              IF c \in S /\ client[c].at = "waiting" THEN client'[c].at = "set"
              ELSE client'[c] = client[c]
BY DEF TypeOK, SetEvents, Client, Readable

LEMMA ResetStep ==
  ASSUME Known, Reset
  PROVE  Known'
<1> USE DEF Known, TypeOK, Reset
<1>1. 0 \in 0..MaxInstances /\ waiters \in SUBSET waiters
  BY BoundAssumption
<1>2. TypeOK' /\ Readable'
  BY <1>1, Told
<1>3. Handled'
  BY DEF Handled, Unlocked
<1>4. ListIsExact'
  BY <1>1, Told DEF ListIsExact
<1> QED
  BY <1>2, <1>3, <1>4

LEMMA HandlerSteps ==
  ASSUME Known, CommitEvents \/ ProcessingRaises \/ HandlerStep
  PROVE  Known'
<1> USE DEF Known, TypeOK
<1>1. CASE CommitEvents
  <2>1. PICK event \in StatusEvents \union {"none"}, end \in Ends \union {"none"} :
          /\ status' = [status EXCEPT ![current] = StatusAfter(@, event)]
          /\ handler' = [at |-> IF end = "none" THEN "notify" ELSE "status", end |-> end]
    <3>1. Reports(current) \subseteq Ends \union {"none"}
      BY InputsAssumption DEF Reports, Ends, IsOver
    <3> QED
      BY <1>1, <3>1, InputsAssumption DEF CommitEvents
  <2>2. current \in Instance /\ current <= created
    BY <1>1 DEF CommitEvents, Instance, Handled
  <2>3. StatusAfter(status[current], event) \in Status
    BY <2>2 DEF StatusAfter, Status
  <2>4. TypeOK' /\ Readable'
    BY <1>1, <2>1, <2>2, <2>3 DEF CommitEvents, Readable
  <2>5. Handled'
    BY <1>1, <2>1, <2>2 DEF CommitEvents, Handled, Instance
  <2> QED
    BY <1>1, <2>1, <2>4, <2>5 DEF CommitEvents, ListIsExact, Unlocked
<1>2. CASE ProcessingRaises \/ SetStatus \/ Renew
  <2>1. current \in Instance /\ current <= created
    BY <1>2 DEF ProcessingRaises, SetStatus, Renew, Instance, Handled
  <2>2. TypeOK' /\ Readable'
    BY <1>2, <2>1
       DEF ProcessingRaises, SetStatus, Renew, Readable, Status, Ends, Terminal, Handled
  <2>3. Handled'
    <3>1. CASE ProcessingRaises
      BY <2>1, <3>1 DEF ProcessingRaises, Handled, Instance, Ends, Terminal
    <3>2. CASE SetStatus
      BY <2>1, <3>2 DEF SetStatus, Handled, Instance
    <3>3. CASE Renew
      BY <2>1, <3>3 DEF Renew, Handled, Instance
    <3> QED
      BY <1>2, <3>1, <3>2, <3>3
  <2> QED
    BY <1>2, <2>2, <2>3 DEF ProcessingRaises, SetStatus, Renew, ListIsExact, Unlocked
<1>3. CASE SetOutput
  BY <1>3 DEF SetOutput, Readable, Handled, ListIsExact, Unlocked
<1>4. CASE NotifyWaiters
  <2>1. current \in 0..MaxInstances /\ Matching \in SUBSET waiters
    BY DEF Matching
  <2>2. SetEvents(Matching, current)
    BY <1>4 DEF NotifyWaiters
  <2>3. TypeOK' /\ Readable'
    BY <1>4, <2>1, <2>2, Told DEF NotifyWaiters, instances
  <2>4. Handled'
    BY <1>4 DEF NotifyWaiters, instances, Handled
  <2>5. ListIsExact'
    BY <1>4, <2>1, <2>2, Told
       DEF NotifyWaiters, instances, ListIsExact, Matching, Matches, Holds
  <2> QED
    BY <2>3, <2>4, <2>5
<1> QED
  BY <1>1, <1>2, <1>3, <1>4 DEF HandlerStep

-----------------------------------------------------------------------------
(* What is told of an end *)

Final(i) == i \notin failed /\ IsOver(i)

(* An instance that is over keeps its status; its output follows.           *)
Steady ==
  \A i \in Instance : Final(i) =>
    /\ i = current /\ handler.at # "none" => handler.end = status[i]
    /\ output[i] = status[i] \/ (i = current /\ handler.at = "output")

(* What a client c has been handed, and what it has read of it.             *)
Informed(c) ==
  c \notin Starters /\ client[c].result \in Instance \ failed =>
    /\ client[c].at \in {"set", "reading", "half"} =>
         IsOver(client[c].result) /\ output[client[c].result] = status[client[c].result]
    /\ client[c].at = "half" => client[c].status = status[client[c].result]
    /\ client[c].at = "answered" =>
         client[c].status \in Terminal /\ client[c].output = client[c].status

Exact == Steady /\ \A c \in Clients : Informed(c)

(* No handler changes an instance that is over, but for one that an         *)
(* exception failed.                                                        *)
LEMMA SteadyStep ==
  ASSUME Events = {}, Known, Steady, [Next]_vars
  PROVE  /\ Steady'
         /\ \A i \in Instance : Final(i) =>
              /\ status'[i] = status[i]
              /\ output[i] = status[i] => output'[i] = status[i]
         /\ failed \subseteq failed'
<1> USE DEF Known, TypeOK, Final, IsOver
<1>1. CASE UNCHANGED <<current, status, output, failed, handler>>
  BY <1>1 DEF Steady
<1>2. CASE Unlocked /\ UNCHANGED <<status, output, failed, handler>>
  BY <1>2 DEF Steady, Unlocked
<1>3. CASE CommitEvents
  <2>1. PICK event \in StatusEvents \union {"none"}, end \in Reports(current) :
          /\ IsOver(current) => event = "none"
          /\ status' = [status EXCEPT ![current] = StatusAfter(@, event)]
          /\ handler' = [at |-> IF end = "none" THEN "notify" ELSE "status", end |-> end]
    BY <1>3 DEF CommitEvents
  <2>2. Unlocked /\ UNCHANGED <<current, output, failed>> /\ current \in Instance
    BY <1>3 DEF CommitEvents, Instance
  <2>3. IsOver(current) => StatusAfter(status[current], event) = status[current]
    BY <2>1 DEF StatusAfter, Terminal
  <2>4. ~IsOver(current) => StatusAfter(status[current], event) \notin Terminal
    BY DEF StatusAfter, Terminal
  <2>5. Final(current) => end = status[current]
    BY <2>1 DEF Reports
  <2>6. \A i \in Instance : /\ i # current => status'[i] = status[i]
                            /\ IsOver(i) <=> status'[i] \in Terminal
                            /\ IsOver(i) => status'[i] = status[i]
    BY <2>1, <2>2, <2>3, <2>4
  <2>7. handler'.at \in {"notify", "status"} /\ handler'.end = end
    BY <2>1
  <2> QED
    BY <2>2, <2>5, <2>6, <2>7 DEF Steady, Unlocked
<1>4. CASE SetStatus
  BY <1>4 DEF SetStatus, Steady, Instance, Handled
<1>5. CASE ProcessingRaises
  BY <1>5 DEF ProcessingRaises, Steady, Instance, Handled
<1>6. CASE SetOutput
  BY <1>6 DEF SetOutput, Steady, Instance, Handled
<1>7. CASE Renew
  BY <1>7 DEF Renew, Steady, Instance, Handled, Terminal
<1>8. CASE NotifyWaiters
  BY <1>8 DEF NotifyWaiters, instances, Steady
<1>9. CASE StartInstance \/ PurgeInstances \/ RestartInstance \/ Reset
  BY <1>2, <1>9 DEF StartInstance, PurgeInstances, RestartInstance, Reset, Create
<1>10. ASSUME NEW c \in Clients, Wait(c) \/ ClientStep(c)
       PROVE  UNCHANGED <<current, status, output, failed, handler>>
  BY <1>10 DEF Wait, ClientStep, Wake, TimeOut, GiveUp, ReadStatus, ReadOutput, instances
<1> QED
  BY <1>1, <1>3, <1>4, <1>5, <1>6, <1>7, <1>8, <1>9, <1>10 DEF Next, HandlerStep, vars

Lasting ==
  /\ failed \subseteq failed'
  /\ \A i \in Instance : Final(i) =>
       /\ status'[i] = status[i]
       /\ output[i] = status[i] => output'[i] = status[i]

(* A client whose record does not change stays informed. *)
LEMMA SameClient ==
  ASSUME NEW c \in Clients, Informed(c), client'[c] = client[c], Lasting
  PROVE  Informed(c)'
<1> DEFINE r == client[c].result
<1>1. SUFFICES ASSUME c \notin Starters, r \in Instance \ failed'
               PROVE  Informed(c)'
  BY DEF Informed
<1>2. r \in Instance \ failed
  BY <1>1 DEF Lasting
<1>3. ASSUME IsOver(r), output[r] = status[r]
      PROVE  status'[r] = status[r] /\ output'[r] = status[r] /\ IsOver(r)'
  BY <1>2, <1>3 DEF Lasting, Final, IsOver
<1> QED
  BY <1>1, <1>2, <1>3 DEF Informed

(* Whom a handler tells of an end is told after the last assignment. *)
LEMMA NotifySteps ==
  ASSUME Known, Exact, Lasting, NEW S \in SUBSET waiters,
         NEW n \in 0..MaxInstances, SetEvents(S, n),
         n # 0 => /\ UNCHANGED <<status, output, failed>>
                  /\ IsOver(n) /\ n \notin failed => output[n] = status[n]
                  /\ \A c \in S \ Starters : IsOver(n)
  PROVE  \A c \in Clients : Informed(c)'
<1> SUFFICES ASSUME NEW c \in Clients
             PROVE  Informed(c)'
  OBVIOUS
<1>1. CASE c \in S /\ client[c].at = "waiting"
  <2>1. client'[c].at = "set" /\ client'[c].result = n
    BY <1>1 DEF SetEvents, Known, TypeOK, Client
  <2>2. n \in Instance \ failed' /\ c \notin Starters =>
          IsOver(n)' /\ output'[n] = status'[n]
    BY <1>1 DEF Instance, IsOver
  <2> QED
    BY <2>1, <2>2 DEF Informed, IsOver
<1>2. CASE ~(c \in S /\ client[c].at = "waiting")
  <2>1. client'[c] = client[c]
    BY <1>2, Told DEF Known
  <2> QED
    BY <2>1, SameClient DEF Exact
<1> QED
  BY <1>1, <1>2

LEMMA ReadingSteps ==
  ASSUME Known, Exact, NEW c \in Clients, Wait(c) \/ ClientStep(c)
  PROVE  \A d \in Clients : Informed(d)'
<1>1. UNCHANGED <<current, created, status, output, failed, handler>>
  BY DEF Wait, ClientStep, Wake, TimeOut, GiveUp, ReadStatus, ReadOutput, instances
<1>2. \A d \in Clients \ {c} : client'[d] = client[d]
  BY DEF Known, TypeOK, Wait, ClientStep, Wake, TimeOut, GiveUp, ReadStatus, ReadOutput
<1>3. \A d \in Clients \ {c} : Informed(d)'
  BY <1>1, <1>2 DEF Exact, Informed, IsOver
<1>4. Informed(c)'
  <2> USE DEF Known, TypeOK, Client
  <2>1. Informed(c)
    BY DEF Exact
  <2>2. CASE Wait(c)
    <3>1. CASE Matches(c)
      <4>1. /\ client'[c].at = "reading" /\ client'[c].result = current
            /\ current \in Instance /\ Unlocked
        BY <2>2, <3>1 DEF Wait, Matches, Instance
      <4>2. c \notin Starters => IsOver(current)
        BY <3>1 DEF Matches, Holds, IsOver
      <4>3. c \notin Starters /\ current \notin failed => output[current] = status[current]
        BY <4>1, <4>2 DEF Exact, Steady, Final, Unlocked
      <4> QED
        BY <1>1, <4>1, <4>2, <4>3 DEF Informed, IsOver
    <3>2. CASE ~Matches(c)
      BY <1>1, <2>2, <3>2 DEF Wait, Informed
    <3> QED
      BY <3>1, <3>2
  <2>3. CASE Wake(c)
    BY <1>1, <2>1, <2>3 DEF Wake, Informed, IsOver
  <2>4. CASE TimeOut(c) \/ GiveUp(c)
    BY <1>1, <2>1, <2>4 DEF TimeOut, GiveUp, Informed
  <2>5. CASE ReadStatus(c)
    BY <1>1, <2>1, <2>5 DEF ReadStatus, Informed, IsOver
  <2>6. CASE ReadOutput(c)
    BY <1>1, <2>1, <2>6 DEF ReadOutput, Informed, IsOver
  <2> QED
    BY <2>2, <2>3, <2>4, <2>5, <2>6 DEF ClientStep
<1> QED
  BY <1>3, <1>4

LEMMA ExactStep ==
  ASSUME Events = {}, Known, Exact, [Next]_vars
  PROVE  Exact'
<1>1. Steady' /\ Lasting
  BY SteadyStep DEF Exact, Lasting
<1>2. CASE client' = client
  BY <1>1, <1>2, SameClient DEF Exact
<1>3. CASE Reset
  <2>1. 0 \in 0..MaxInstances /\ waiters \in SUBSET waiters
    BY BoundAssumption
  <2> QED
    BY <1>1, <1>3, <2>1, NotifySteps DEF Reset, Exact
<1>4. CASE NotifyWaiters
  <2>1. current \in Instance /\ Matching \in SUBSET waiters /\ current \in 0..MaxInstances
    BY <1>4 DEF NotifyWaiters, Known, TypeOK, Handled, Matching, Instance
  <2>2. \A c \in Matching \ Starters : IsOver(current)
    BY DEF Matching, Matches, Holds, IsOver
  <2>3. IsOver(current) /\ current \notin failed => output[current] = status[current]
    BY <1>4, <2>1 DEF NotifyWaiters, Exact, Steady, Final
  <2>4. SetEvents(Matching, current) /\ UNCHANGED <<current, status, output, failed>>
    BY <1>4 DEF NotifyWaiters, instances
  <2>5. \A c \in Clients : Informed(c)'
    BY <1>1, <2>1, <2>2, <2>3, <2>4, NotifySteps
  <2> QED
    BY <1>1, <2>5 DEF Exact
<1>5. CASE \E c \in Clients : Wait(c) \/ ClientStep(c)
  BY <1>1, <1>5, ReadingSteps DEF Exact
<1> QED
  BY <1>2, <1>3, <1>4, <1>5
     DEF Next, vars, StartInstance, PurgeInstances, RestartInstance, CommitEvents,
         ProcessingRaises, HandlerStep, SetStatus, SetOutput, Renew

-----------------------------------------------------------------------------
LEMMA InitKnown == Init => Known /\ Exact
BY BoundAssumption
   DEF Init, Known, TypeOK, Handled, Readable, ListIsExact, Exact, Steady, Informed, Final,
       IsOver, Status, Ends, Terminal, Client, Unlocked, Instance

LEMMA KnownStep == Known /\ [Next]_vars => Known'
<1>1. ASSUME Known, UNCHANGED vars PROVE Known'
  BY <1>1 DEF vars, Known, TypeOK, Handled, Readable, ListIsExact, Matches, Holds, Unlocked
<1> QED
  BY <1>1, ClientSteps, NewInstance, ResetStep, HandlerSteps DEF Next

(* Nobody who waits is forgotten: the list of waiters is exact, so a purge   *)
(* or a restart, which drop it and wake nobody, drop an empty list, however  *)
(* waits, time-outs, handlers and resets interleave.                         *)
THEOREM WaitersTheorem == Spec => [](TypeOK /\ ListIsExact)
<1>1. Init => Known
  BY InitKnown
<1>2. Known => TypeOK /\ ListIsExact
  BY DEF Known
<1> QED
  BY <1>1, <1>2, KnownStep, PTL DEF Spec

(* A client that waited for the end of an orchestration is told of an end    *)
(* and of its output, though it reads the instance outside the lock: a       *)
(* handler may write to an instance that is over, but only what is there.    *)
(* An instance that is suspended after its end is written to for a moment,   *)
(* hence the assumption.                                                     *)
THEOREM CompletionTheorem ==
  ASSUME Events = {}
  PROVE  Spec => []CompletionIsWhole
<1>1. Init => Known /\ Exact
  BY InitKnown
<1>2. Known /\ Exact /\ [Next]_vars => Known' /\ Exact'
  BY KnownStep, ExactStep
<1>3. Known /\ Exact => CompletionIsWhole
  <2> SUFFICES ASSUME Known, Exact, NEW c \in Clients,
                      client[c].at = "answered", c \notin Starters,
                      client[c].result \notin failed
               PROVE  client[c].status \in Terminal /\ client[c].output = client[c].status
    BY DEF CompletionIsWhole
  <2>1. client[c].result \in Instance
    BY DEF Known, Readable
  <2> QED
    BY <2>1 DEF Exact, Informed
<1> QED
  BY <1>1, <1>2, <1>3, PTL DEF Spec
===============================================================================
