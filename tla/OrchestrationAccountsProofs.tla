---------------------- MODULE OrchestrationAccountsProofs ----------------------
(***************************************************************************)
(* What the history of an instance says was scheduled is under way or has  *)
(* reported: proved of OrchestrationBackend for activities, timers and     *)
(* sub-orchestrations, with the invariant of OrchestrationDeliveryProofs.  *)
(* And nothing reports twice, or before what scheduled it.                 *)
(***************************************************************************)
EXTENDS OrchestrationDeliveryProofs

-----------------------------------------------------------------------------
(* Events as sets *)

Scheduling == {"TaskScheduled", "TimerCreated", "SubCreated"}

(* The events an instance has or will see; Has says the same of a sequence. *)
Seen(i) ==
  ToSet(inst[i].history) \union ToSet(inst[i].dispatched) \union ToSet(inst[i].pending)

(* Only a commit puts what was scheduled into an instance, at once into its  *)
(* history; what is not there has none.                                      *)
Plain(i) ==
  /\ \A e \in ToSet(inst[i].dispatched) \union ToSet(inst[i].pending) :
       e.kind \notin Scheduling
  /\ ~Exists(i) => inst[i].history = <<>>

PlainAll == \A i \in Ids : Plain(i)

(* The step takes nothing from the execution of i and adds New to its        *)
(* history, or begins another one.                                           *)
Extends(i, New) ==
  /\ ToSet(inst'[i].history) \subseteq
       ToSet(inst[i].history) \union ToSet(inst[i].dispatched) \union New
  /\ Seen(i) \subseteq Seen(i)'
  /\ "raise" \notin Outcomes /\ IsTerminal(i) => IsTerminal(i)'

Keeps(i, New) == Plain(i)' /\ (inst'[i].history = <<>> \/ Extends(i, New))

LEMMA SeenHas ==
  ASSUME Core, NEW i \in Ids, NEW d \in Seen(i), NEW kinds, NEW e,
         d.kind \in kinds, d.id = e.id, d.tok = e.tok
  PROVE  Has(i, kinds, e)
<1> DEFINE h == inst[i].history
           s == inst[i].dispatched
           p == inst[i].pending
<1>1. h \in Seq(Event) /\ s \in Seq(Event) /\ p \in Seq(Event)
  BY InstanceFields DEF Core
<1>2. Events(i) = (h \o s) \o p /\ d \in ToSet(h) \union ToSet(s) \union ToSet(p)
  BY DEF Events, Seen
<1> HIDE DEF h, s, p
<1>3. h \o s \in Seq(Event) /\ Joins(h, s)
  BY <1>1, ToSetConcat
<1> DEFINE hs == h \o s
<1>4. Joins(hs, p)
  <2>1. hs \in Seq(Event)
    BY <1>3
  <2> HIDE DEF hs
  <2> QED
    BY <1>1, <2>1, ToSetConcat
<1>5. d \in ToSet(Events(i))
  BY <1>2, <1>3, <1>4 DEF Joins
<1> QED
  BY <1>5 DEF Has, ToSet

-----------------------------------------------------------------------------
(* One instance *)

LEMMA SameKeeps ==
  ASSUME NEW i \in Ids, Plain(i), inst'[i] = inst[i]
  PROVE  Keeps(i, {})
  BY DEF Keeps, Plain, Extends, Seen, Exists, IsTerminal

LEMMA PostedKeeps ==
  ASSUME Core, NEW i \in Ids, Plain(i), NEW e \in Event, e.kind \notin Scheduling,
         Exists(i), inst'[i] = [inst[i] EXCEPT !.pending = Append(inst[i].pending, e)]
  PROVE  Keeps(i, {}) /\ e \in Seen(i)'
<1>1. /\ inst'[i].status = inst[i].status /\ inst'[i].history = inst[i].history
      /\ inst'[i].dispatched = inst[i].dispatched
      /\ inst'[i].pending = Append(inst[i].pending, e) /\ inst[i].pending \in Seq(Event)
  BY DEF Core, Instance
<1>2. ToSet(inst'[i].pending) = ToSet(inst[i].pending) \union {e}
  BY <1>1, ToSetAppend
<1> QED
  BY <1>1, <1>2 DEF Keeps, Plain, Extends, Seen, Exists, IsTerminal

LEMMA CreatedKeeps ==
  ASSUME NEW i \in Ids, NEW token, inst'[i] = Fresh(token)
  PROVE  Keeps(i, {})
<1>1. /\ inst'[i].status = "PENDING" /\ inst'[i].history = <<>>
      /\ inst'[i].dispatched = <<>>
      /\ inst'[i].pending = <<OrchestratorStarted, ExecutionStarted>>
  BY DEF Fresh
<1>2. ToSet(inst'[i].pending) = {OrchestratorStarted, ExecutionStarted}
  BY <1>1 DEF ToSet
<1>3. OrchestratorStarted.kind \notin Scheduling /\ ExecutionStarted.kind \notin Scheduling
  BY DEF OrchestratorStarted, ExecutionStarted, NewEvent, Scheduling
<1> QED
  BY <1>1, <1>2, <1>3, ToSetEmpty DEF Keeps, Plain

LEMMA GoneKeeps ==
  ASSUME NEW i \in Ids, inst'[i] = Absent
  PROVE  Keeps(i, {})
  BY ToSetEmpty DEF Absent, Keeps, Plain

LEMMA RestoredKeeps ==
  ASSUME Core, NEW i \in Ids, Plain(i), inst'[i] = Restored(inst[i])
  PROVE  Keeps(i, {})
<1>1. /\ inst'[i].status = inst[i].status /\ inst'[i].history = inst[i].history
      /\ inst'[i].dispatched = <<>>
      /\ inst'[i].pending = inst[i].dispatched \o inst[i].pending
      /\ inst[i].pending \in Seq(Event) /\ inst[i].dispatched \in Seq(Event)
  BY DEF Core, Instance, Restored
<1>2. ToSet(inst'[i].pending) = ToSet(inst[i].dispatched) \union ToSet(inst[i].pending)
  <2>1. Joins(inst[i].dispatched, inst[i].pending)
    BY <1>1, ToSetConcat
  <2> QED
    BY <1>1, <2>1 DEF Joins
<1> QED
  BY <1>1, <1>2, ToSetEmpty DEF Keeps, Plain, Extends, Seen, Exists, IsTerminal

LEMMA TakenKeeps ==
  ASSUME Core, NEW i \in Ids, Plain(i), NEW new,
         new = inst[i].pending \/ new = <<OrchestratorStarted>> \o inst[i].pending,
         inst[i].dispatched = <<>>,
         inst'[i] = [inst[i] EXCEPT !.dispatched = new, !.pending = <<>>]
  PROVE  Keeps(i, {})
<1>1. /\ inst'[i].status = inst[i].status /\ inst'[i].history = inst[i].history
      /\ inst'[i].dispatched = new /\ inst'[i].pending = <<>>
      /\ inst[i].pending \in Seq(Event)
  BY DEF Core, Instance
<1>2. /\ ToSet(inst[i].pending) \subseteq ToSet(new)
      /\ ToSet(new) \subseteq ToSet(inst[i].pending) \union {OrchestratorStarted}
  <2>1. <<OrchestratorStarted>> \in Seq(Event)
    BY StartEvents
  <2>2. ToSet(<<OrchestratorStarted>>) = {OrchestratorStarted}
    BY DEF ToSet
  <2>3. Joins(<<OrchestratorStarted>>, inst[i].pending)
    BY <1>1, <2>1, ToSetConcat
  <2> QED
    BY <2>2, <2>3 DEF Joins
<1>3. OrchestratorStarted.kind \notin Scheduling
  BY DEF OrchestratorStarted, NewEvent, Scheduling
<1> QED
  BY <1>1, <1>2, <1>3, ToSetEmpty DEF Keeps, Plain, Extends, Seen, Exists, IsTerminal

LEMMA ArrivedPlain ==
  ASSUME NEW me \in Instance, NEW r
  PROVE  /\ Arrived(me, r) \in Seq(Event)
         /\ ToSet(me.pending) \subseteq ToSet(Arrived(me, r))
         /\ ToSet(Arrived(me, r)) \subseteq
              ToSet(me.pending) \union {NewEvent("SubFailed", 0, me.token)}
         /\ r.sub # None /\ ~Creatable(r.sub) =>
              NewEvent("SubFailed", 0, me.token) \in ToSet(Arrived(me, r))
<1> DEFINE e == NewEvent("SubFailed", 0, me.token)
<1>1. e \in Event /\ me.pending \in Seq(Event)
  BY InstanceFields DEF NewEvent, Event, Kinds
<1>2. Append(me.pending, e) \in Seq(Event)
      /\ ToSet(Append(me.pending, e)) = ToSet(me.pending) \union {e}
  BY <1>1, ToSetAppend
<1>3. Arrived(me, r) = IF r.sub = None \/ Creatable(r.sub) THEN me.pending
                       ELSE Append(me.pending, e)
  BY DEF Arrived
<1> HIDE DEF e
<1>4. /\ Arrived(me, r) \in Seq(Event)
      /\ ToSet(me.pending) \subseteq ToSet(Arrived(me, r))
      /\ ToSet(Arrived(me, r)) \subseteq ToSet(me.pending) \union {e}
      /\ r.sub # None /\ ~Creatable(r.sub) => e \in ToSet(Arrived(me, r))
  BY <1>1, <1>2, <1>3
<1> QED
  BY <1>4 DEF e

LEMMA ContinuedPlain ==
  ASSUME NEW evs \in Seq(Event), NEW c \in Carryovers(evs), NEW a \in Seq(Event),
         \A e \in ToSet(a) : e.kind \notin Scheduling
  PROVE  \A e \in ToSet((<<OrchestratorStarted, ExecutionStarted>> \o c) \o a) :
           e.kind \notin Scheduling
<1> DEFINE s == <<OrchestratorStarted, ExecutionStarted>>
<1>1. s \in Seq(Event) /\ ToSet(s) = {OrchestratorStarted, ExecutionStarted}
  BY StartEvents DEF ToSet
<1>2. OrchestratorStarted.kind \notin Scheduling /\ ExecutionStarted.kind \notin Scheduling
  BY DEF OrchestratorStarted, ExecutionStarted, NewEvent, Scheduling
<1>3. c \in Seq(Event)
  BY CarryoverType
<1>4. ASSUME NEW e \in ToSet(c) PROVE e.kind \notin Scheduling
  <2> DEFINE raised == {evs[k] : k \in {j \in DOMAIN evs : evs[j].kind = "Raised"}}
  <2>1. PICK n \in 0..Cardinality(raised) : c \in [1..n -> raised]
    BY DEF Carryovers
  <2>2. e \in raised
    BY <1>4, <2>1 DEF ToSet
  <2>3. e.kind = "Raised"
    BY <2>2
  <2> QED
    BY <2>3 DEF Scheduling
<1> HIDE DEF s
<1> DEFINE sc == s \o c
<1>5. sc \in Seq(Event) /\ Joins(s, c)
  BY <1>1, <1>3, ToSetConcat
<1>6. Joins(sc, a)
  <2> HIDE DEF sc
  <2> QED
    BY <1>5, ToSetConcat
<1>7. ToSet((s \o c) \o a) = ToSet(s) \union ToSet(c) \union ToSet(a)
  BY <1>5, <1>6 DEF Joins
<1>8. \A e \in ToSet((s \o c) \o a) : e.kind \notin Scheduling
  BY <1>1, <1>2, <1>4, <1>7
<1> QED
  BY <1>8 DEF s

(* The new events and the confirmations of r are in the history, what has    *)
(* arrived stays in the mailbox, and what is over stays over.                *)
LEMMA CommittedKeeps ==
  ASSUME Core, NEW i \in Ids, Tidy(i), Plain(i), Exists(i),
         NEW r \in Responses, NEW new, Answerable(i, inst[i], new, r), NEW token,
         NEW carry \in IF r.outcome = "CONTINUED"
                       THEN Carryovers(inst[i].history \o inst[i].dispatched)
                       ELSE {<<>>},
         inst'[i] = Committed(inst[i], r, carry, token)
  PROVE  /\ Keeps(i, ToSet(Confirmations(r, inst[i].token)))
         /\ inst'[i].history # <<>> /\ r.sub # None /\ ~Creatable(r.sub) =>
              NewEvent("SubFailed", 0, inst[i].token) \in Seen(i)'
<1> DEFINE me == inst[i]
           conf == Confirmations(r, me.token)
           refusal == NewEvent("SubFailed", 0, me.token)
<1>1. /\ me \in Instance /\ me.token \in Nat
      /\ me.history \in Seq(Event) /\ me.dispatched \in Seq(Event)
      /\ me.finished \in {"none"} \union Terminal
  BY InstanceFields DEF Core
<1>2. Settled(me, r, carry, inst'[i])
  BY CommittedFields
<1>3. conf \in Seq(Event)
  BY <1>1, ConfirmationsStayOut
<1>4. r.outcome \in {"none", "CONTINUED", "raise"} \union Terminal
  BY ResponseFields, OutcomesAssumption
<1>5. /\ Arrived(me, r) \in Seq(Event)
      /\ ToSet(me.pending) \subseteq ToSet(Arrived(me, r))
      /\ ToSet(Arrived(me, r)) \subseteq ToSet(me.pending) \union {refusal}
      /\ r.sub # None /\ ~Creatable(r.sub) => refusal \in ToSet(Arrived(me, r))
  BY <1>1, ArrivedPlain
<1>6. \A e \in ToSet(Arrived(me, r)) : e.kind \notin Scheduling
  <2>1. refusal.kind \notin Scheduling
    BY DEF NewEvent, Scheduling
  <2> QED
    BY <1>5, <2>1 DEF Plain
<1>7. Exists(i)'
  <2>1. CommittedStatus(me.status, me.dispatched) # "NONE"
    BY DEF CommittedStatus, Exists
  <2> QED
    BY <1>2, <1>4, <2>1 DEF Settled, FinalStatus, Exists, Terminal
<1>8. CASE r.outcome = "CONTINUED"
  <2>1. /\ inst'[i].history = <<>> /\ inst'[i].dispatched = <<>>
        /\ inst'[i].pending = (<<OrchestratorStarted, ExecutionStarted>> \o carry)
                                \o Arrived(me, r)
    BY <1>2, <1>8 DEF Settled
  <2>2. me.history \o me.dispatched \in Seq(Event)
    BY <1>1, ConcatProperties
  <2>3. \A e \in ToSet(inst'[i].pending) : e.kind \notin Scheduling
    BY <1>5, <1>6, <1>8, <2>1, <2>2, ContinuedPlain
  <2> QED
    BY <2>1, <2>3, ToSetEmpty DEF Keeps, Plain
<1>9. CASE r.outcome # "CONTINUED"
  <2>1. /\ inst'[i].history = (me.history \o me.dispatched) \o conf
        /\ inst'[i].dispatched = <<>> /\ inst'[i].pending = Arrived(me, r)
        /\ inst'[i].status = FinalStatus(CommittedStatus(me.status, me.dispatched), r.outcome)
    BY <1>2, <1>9 DEF Settled
  <2>2. ToSet(inst'[i].history) = ToSet(me.history) \union ToSet(me.dispatched) \union ToSet(conf)
    <3> DEFINE h == me.history
               d == me.dispatched
               hd == h \o d
    <3>1. h \in Seq(Event) /\ d \in Seq(Event)
      BY <1>1
    <3> HIDE DEF h, d, conf
    <3>2. hd \in Seq(Event) /\ Joins(h, d)
      BY <3>1, ToSetConcat
    <3>3. Joins(hd, conf)
      <4> HIDE DEF hd
      <4> QED
        BY <1>3, <3>2, ToSetConcat
    <3>4. ToSet(hd \o conf) = ToSet(h) \union ToSet(d) \union ToSet(conf)
      BY <3>2, <3>3 DEF Joins
    <3>5. inst'[i].history = hd \o conf
      BY <2>1 DEF h, d
    <3> QED
      BY <3>4, <3>5 DEF h, d
  <2>3. Plain(i)'
    BY <1>6, <1>7, <2>1, ToSetEmpty DEF Plain
  <2>4. "raise" \notin Outcomes /\ IsTerminal(i) => IsTerminal(i)'
    <3>1. "raise" \notin Outcomes /\ IsTerminal(i) => r.outcome \in Terminal
      BY <1>1 DEF Tidy, Answerable
    <3> QED
      BY <2>1, <3>1 DEF FinalStatus, IsTerminal, Terminal
  <2> HIDE DEF conf, refusal
  <2>5. Seen(i) \subseteq Seen(i)' /\ ToSet(Arrived(me, r)) \subseteq Seen(i)'
    BY <1>5, <2>1, <2>2 DEF Seen
  <2>6. Keeps(i, ToSet(conf))
    BY <2>2, <2>3, <2>4, <2>5 DEF Keeps, Extends
  <2> QED
    BY <1>5, <2>5, <2>6 DEF conf, refusal
<1> QED
  BY <1>8, <1>9

-----------------------------------------------------------------------------
(* All instances *)

AllKeep == \A i \in Ids : Keeps(i, {})

LEMMA NothingKeeps ==
  ASSUME PlainAll, inst' = inst
  PROVE  AllKeep
  BY SameKeeps DEF PlainAll, AllKeep

LEMMA PostKeeps ==
  ASSUME Core, PlainAll, NEW i \in Ids, NEW e \in Event, e.kind \notin Scheduling,
         Exists(i), Post(i, e)
  PROVE  AllKeep /\ e \in Seen(i)'
<1>1. /\ inst'[i] = [inst[i] EXCEPT !.pending = Append(inst[i].pending, e)]
      /\ \A j \in Ids : j # i => inst'[j] = inst[j]
  BY DEF Post, Core
<1>2. Keeps(i, {}) /\ e \in Seen(i)'
  BY <1>1, PostedKeeps DEF PlainAll
<1>3. ASSUME NEW j \in Ids, j # i PROVE Keeps(j, {})
  BY <1>1, <1>3, SameKeeps DEF PlainAll
<1> QED
  BY <1>2, <1>3 DEF AllKeep

LEMMA CreateKeeps ==
  ASSUME Core, PlainAll, NEW i \in Ids, NEW token,
         inst' = [inst EXCEPT ![i] = Fresh(token)]
  PROVE  AllKeep
<1>1. inst'[i] = Fresh(token) /\ \A j \in Ids : j # i => inst'[j] = inst[j]
  BY DEF Core
<1> QED
  BY <1>1, CreatedKeeps, SameKeeps DEF PlainAll, AllKeep

LEMMA RequestKeeps ==
  ASSUME Core, Rest, PlainAll, Request
  PROVE  AllKeep
<1> USE DEF WorkerSide
<1>1. \A n \in Nat : \A kind \in {"Raised", "Terminated", "Suspended", "Resumed"} :
        NewEvent(kind, n, 0) \in Event /\ NewEvent(kind, n, 0).kind \notin Scheduling
  BY DEF NewEvent, Event, Kinds, Scheduling
<1>2. calls + 1 \in Nat
  BY DEF Rest
<1>3. ASSUME NEW i \in Ids, RaiseEvent(i) \/ TerminateInstance(i) \/ SuspendInstance(i)
                            \/ ResumeInstance(i)
      PROVE  AllKeep
  <2>1. PICK kind \in {"Raised", "Terminated", "Suspended", "Resumed"} :
          Exists(i) /\ Post(i, NewEvent(kind, calls + 1, 0))
    BY <1>3 DEF RaiseEvent, TerminateInstance, SuspendInstance, ResumeInstance
  <2> QED
    BY <1>1, <1>2, <2>1, PostKeeps
<1>4. ASSUME NEW i \in Ids, inst' = [inst EXCEPT ![i] = Fresh(nextToken)] PROVE AllKeep
  BY <1>4, CreateKeeps
<1>5. ASSUME NEW S, PurgeInstances(S) PROVE AllKeep
  <2>1. ASSUME NEW j \in Ids PROVE Keeps(j, {})
    <3>1. inst'[j] = IF j \in S THEN Absent ELSE inst[j]
      BY <1>5 DEF PurgeInstances
    <3> QED
      BY <3>1, GoneKeeps, SameKeeps DEF PlainAll
  <2> QED
    BY <2>1 DEF AllKeep
<1>6. CASE Reset
  BY <1>6, GoneKeeps DEF Reset, AllKeep
<1> QED
  BY <1>3, <1>4, <1>5, <1>6 DEF Request, StartInstance, RestartInstance

LEMMA GetWorkItemsKeeps ==
  ASSUME Core, TidyAll, PlainAll, GetWorkItems
  PROVE  AllKeep
<1>1. CASE DispatchOrchestration
  <2>0. PICK i \in Ids : \E new, item : Dispatches(i, new, item)
    BY <1>1, DispatchedInstance
  <2>1. PICK new, item : Dispatches(i, new, item)
    BY <2>0
  <2>2. /\ inst[i].pending # <<>> /\ i \notin inFlight
        /\ new = inst[i].pending \/ new = <<OrchestratorStarted>> \o inst[i].pending
        /\ inst' = [inst EXCEPT ![i] = [@ EXCEPT !.dispatched = new, !.pending = <<>>]]
    BY <2>1 DEF Dispatches
  <2>3. /\ inst'[i] = [inst[i] EXCEPT !.dispatched = new, !.pending = <<>>]
        /\ \A j \in Ids : j # i => inst'[j] = inst[j]
    BY <2>2 DEF Core
  <2>4. inst[i].dispatched = <<>>
    BY <2>2 DEF TidyAll, Tidy
  <2>5. Keeps(i, {})
    BY <2>2, <2>3, <2>4, TakenKeeps DEF PlainAll
  <2>6. ASSUME NEW j \in Ids, j # i PROVE Keeps(j, {})
    BY <2>3, <2>6, SameKeeps DEF PlainAll
  <2> QED
    BY <2>5, <2>6 DEF AllKeep
<1>2. CASE RequeueInFlight \/ NoOrchestrationReady
  BY <1>2, NothingKeeps DEF RequeueInFlight, NoOrchestrationReady
<1> QED
  BY <1>1, <1>2 DEF GetWorkItems

LEMMA AbandonKeeps ==
  ASSUME Core, PlainAll, NEW i \in Ids, NEW token, Abandon(i, token)
  PROVE  AllKeep
<1>1. CASE inst' = [inst EXCEPT ![i] = Restored(inst[i])]
  <2>1. inst'[i] = Restored(inst[i]) /\ \A j \in Ids : j # i => inst'[j] = inst[j]
    BY <1>1 DEF Core
  <2> QED
    BY <2>1, RestoredKeeps, SameKeeps DEF PlainAll, AllKeep
<1> QED
  BY <1>1, NothingKeeps DEF Abandon

(* An activity that is done is seen by its instance if there is one, a       *)
(* timer or a watcher by one that is not over.                               *)
LEMMA ActivityKeeps ==
  ASSUME Core, Rest, PlainAll, NEW a \in running, CompleteActivityTask(a)
  PROVE  /\ AllKeep /\ a.inst \in Ids
         /\ Exists(a.inst) => NewEvent("TaskDone", a.id, a.tok) \in Seen(a.inst)'
<1> DEFINE e == NewEvent("TaskDone", a.id, a.tok)
<1>1. a.inst \in Ids /\ e \in Event /\ e.kind \notin Scheduling
  BY DEF Rest, Activity, NewEvent, Event, Kinds, Scheduling
<1>2. IF Exists(a.inst) THEN Post(a.inst, e) ELSE UNCHANGED <<inst, orchQueue>>
  BY DEF CompleteActivityTask
<1> HIDE DEF e
<1>3. AllKeep /\ (Exists(a.inst) => e \in Seen(a.inst)')
  BY <1>1, <1>2, PostKeeps, NothingKeeps
<1> QED
  BY <1>1, <1>3 DEF e

LEMMA TimerKeeps ==
  ASSUME Core, Rest, PlainAll, NEW t \in timers, FireTimer(t)
  PROVE  /\ AllKeep /\ t.inst \in Ids
         /\ Receives(t.inst) => NewEvent("TimerFired", t.id, t.tok) \in Seen(t.inst)'
<1> DEFINE e == NewEvent("TimerFired", t.id, t.tok)
<1>1. t.inst \in Ids /\ e \in Event /\ e.kind \notin Scheduling
  BY DEF Rest, Activity, NewEvent, Event, Kinds, Scheduling
<1>2. IF Receives(t.inst) THEN Post(t.inst, e) ELSE UNCHANGED <<inst, orchQueue>>
  BY DEF FireTimer
<1> HIDE DEF e
<1>3. AllKeep /\ (Receives(t.inst) => e \in Seen(t.inst)')
  BY <1>1, <1>2, PostKeeps, NothingKeeps DEF Receives
<1> QED
  BY <1>1, <1>3 DEF e

LEMMA ReportKeeps ==
  ASSUME Core, Rest, PlainAll, NEW w \in watchers, ReportSubOrchestration(w)
  PROVE  /\ AllKeep /\ w.parent \in Ids
         /\ Receives(w.parent) =>
              \E kind \in {"SubCompleted", "SubFailed"} :
                NewEvent(kind, w.id, w.tok) \in Seen(w.parent)'
<1>1. w.parent \in Ids /\ w.id \in Nat /\ w.tok \in Nat
  BY DEF Rest, Watcher
<1>2. PICK kind \in {"SubCompleted", "SubFailed"} :
        IF Receives(w.parent) THEN Post(w.parent, NewEvent(kind, w.id, w.tok))
        ELSE UNCHANGED <<inst, orchQueue>>
  BY DEF ReportSubOrchestration
<1> DEFINE e == NewEvent(kind, w.id, w.tok)
<1>3. e \in Event /\ e.kind \notin Scheduling
  BY <1>1 DEF NewEvent, Event, Kinds, Scheduling
<1>4. IF Receives(w.parent) THEN Post(w.parent, e) ELSE UNCHANGED <<inst, orchQueue>>
  BY <1>2
<1> HIDE DEF e
<1>5. AllKeep /\ (Receives(w.parent) => e \in Seen(w.parent)')
  BY <1>1, <1>3, <1>4, PostKeeps, NothingKeeps DEF Receives
<1> QED
  BY <1>1, <1>5 DEF e

LEMMA OthersKeep ==
  ASSUME Core, Rest, resend = {}, TidyAll, PlainAll, Next,
         ~\E i \in Ids : CompleteOrchestratorTask(i)
  PROVE  AllKeep
<1>1. CASE Worker
  BY <1>1, NothingKeeps, AbandonKeeps, ActivityKeeps
     DEF Worker, IgnoredAnswer, AbandonTaskOrchestratorWorkItem, LoseAnswer, AbandonAgain,
         AbandonTaskActivityWorkItem, WorkerCrash
<1>2. CASE Background
  BY <1>2, NothingKeeps, TimerKeeps, ReportKeeps
     DEF Background, StartWatching, WatcherTimeout
<1> QED
  BY <1>1, <1>2, RequestKeeps, GetWorkItemsKeeps DEF Next

(* What an accepted answer r does to the instances. *)
Adopts(i, r) ==
  /\ Keeps(i, ToSet(Confirmations(r, inst[i].token)))
  /\ \A j \in Ids : j # i => Keeps(j, {})
  /\ inst'[i].history # <<>> /\ r.sub # None /\ ~Creatable(r.sub) =>
       NewEvent("SubFailed", 0, inst[i].token) \in Seen(i)'

LEMMA AnswerKeeps ==
  ASSUME Core, TidyAll, PlainAll, NEW i \in Ids, CompleteOrchestratorTask(i)
  PROVE  \E r \in Responses : Adopts(i, r) /\ \E carry : Accept(i, r, carry)
<1>1. PICK k \in 1..Len(out[i]), r \in Responses :
        /\ IsCurrent(i, k)
        /\ Answerable(i, inst[i], out[i][k].new, r)
        /\ \E carry \in IF r.outcome = "CONTINUED"
                         THEN Carryovers(inst[i].history \o inst[i].dispatched)
                         ELSE {<<>>} : Accept(i, r, carry)
  BY DEF CompleteOrchestratorTask
<1>2. PICK carry \in IF r.outcome = "CONTINUED"
                     THEN Carryovers(inst[i].history \o inst[i].dispatched)
                     ELSE {<<>>} : Accept(i, r, carry)
  BY <1>1
<1> DEFINE created == r.sub # None /\ Creatable(r.sub)
           token == IF created THEN nextToken + 1 ELSE nextToken
           next == Committed(inst[i], r, carry, token)
<1>3. inst' = [j \in Ids |-> IF j = i THEN next
                             ELSE IF created /\ j = r.sub THEN Fresh(nextToken)
                             ELSE inst[j]]
  BY <1>2 DEF Accept
<1> HIDE DEF created, token
<1>4. /\ Keeps(i, ToSet(Confirmations(r, inst[i].token)))
      /\ inst'[i].history # <<>> /\ r.sub # None /\ ~Creatable(r.sub) =>
           NewEvent("SubFailed", 0, inst[i].token) \in Seen(i)'
  <2>1. inst'[i] = next /\ Exists(i) /\ Tidy(i) /\ Plain(i)
    BY <1>1, <1>3 DEF IsCurrent, TidyAll, PlainAll
  <2> QED
    BY <1>1, <2>1, CommittedKeeps
<1>5. ASSUME NEW j \in Ids, j # i PROVE Keeps(j, {})
  <2>1. inst'[j] = Fresh(nextToken) \/ inst'[j] = inst[j]
    BY <1>3, <1>5
  <2> QED
    BY <2>1, CreatedKeeps, SameKeeps DEF PlainAll
<1> QED
  BY <1>2, <1>4, <1>5 DEF Adopts

LEMMA PlainStep ==
  ASSUME Core, Rest, resend = {}, TidyAll, PlainAll, [Next]_vars
  PROVE  PlainAll'
<1>1. CASE UNCHANGED vars
  BY <1>1, NothingKeeps DEF vars, AllKeep, Keeps, PlainAll
<1>2. ASSUME NEW i \in Ids, CompleteOrchestratorTask(i) PROVE PlainAll'
  BY <1>2, AnswerKeeps DEF Adopts, Keeps, PlainAll
<1> QED
  BY <1>1, <1>2, OthersKeep DEF AllKeep, Keeps, PlainAll

-----------------------------------------------------------------------------
(* Accounts *)

(* What stands for the action of i that event e confirms, while it is under  *)
(* way.                                                                      *)
Mark(i, e) == [inst |-> i, id |-> e.id, tok |-> e.tok]

Reported(seen, kind, e) ==
  \E d \in seen : d.kind \in ResultOf(kind) /\ d.id = e.id /\ d.tok = e.tok

(* All that history h of i has scheduled is under way or reported.           *)
Accounted(h, seen, i, kind, under) ==
  \A e \in ToSet(h) : e.kind = kind => Mark(i, e) \in under \/ Reported(seen, kind, e)

LEMMA ResultKinds ==
  /\ ResultOf("TaskScheduled") = {"TaskDone"}
  /\ ResultOf("TimerCreated") = {"TimerFired"}
  /\ ResultOf("SubCreated") = {"SubCompleted", "SubFailed"}
  BY DEF ResultOf

LEMMA NothingAccounted ==
  ASSUME NEW seen, NEW i, NEW kind, NEW under
  PROVE  Accounted(<<>>, seen, i, kind, under)
  BY ToSetEmpty DEF Accounted

(* The events of S are under way or reported, unless history h is empty.     *)
AccountedFor(S, h, seen, i, kind, under) ==
  h # <<>> => \A e \in S : e.kind = kind => Mark(i, e) \in under \/ Reported(seen, kind, e)

(* What history h of i has scheduled and is under way. *)
UnderWay(h, i, under) == {e \in ToSet(h) : Mark(i, e) \in under}

(* A step keeps the accounts if what it adds is under way, and what is no    *)
(* longer under way has reported.                                            *)
LEMMA AccountsKept ==
  ASSUME NEW i \in Ids, NEW kind \in Scheduling, NEW under, NEW next, NEW New,
         Plain(i), Keeps(i, New), Accounted(inst[i].history, Seen(i), i, kind, under),
         AccountedFor(New, inst'[i].history, Seen(i)', i, kind, next),
         AccountedFor(UnderWay(inst[i].history, i, under), inst'[i].history, Seen(i)', i, kind, next)
  PROVE  Accounted(inst'[i].history, Seen(i)', i, kind, next)
<1>1. CASE inst'[i].history = <<>>
  BY <1>1, NothingAccounted
<1>2. CASE inst'[i].history # <<>>
  <2> SUFFICES ASSUME NEW e \in ToSet(inst'[i].history), e.kind = kind
               PROVE  Mark(i, e) \in next \/ Reported(Seen(i)', kind, e)
    BY DEF Accounted
  <2>1. /\ e \in ToSet(inst[i].history) \union ToSet(inst[i].dispatched) \union New
        /\ Seen(i) \subseteq Seen(i)'
    BY <1>2 DEF Keeps, Extends
  <2>2. e \notin ToSet(inst[i].dispatched)
    BY DEF Plain
  <2>3. CASE e \in New
    BY <1>2, <2>3 DEF AccountedFor
  <2>4. CASE e \in ToSet(inst[i].history)
    <3>1. Mark(i, e) \in under \/ Reported(Seen(i), kind, e)
      BY <2>4 DEF Accounted
    <3>2. CASE Mark(i, e) \in under
      BY <1>2, <2>4, <3>2 DEF AccountedFor, UnderWay
    <3>3. CASE Reported(Seen(i), kind, e)
      BY <2>1, <3>3 DEF Reported
    <3> QED
      BY <3>1, <3>2, <3>3
  <2> QED
    BY <2>1, <2>2, <2>3, <2>4
<1> QED
  BY <1>1, <1>2

LEMMA ConfirmedKinds ==
  ASSUME NEW r \in Responses, NEW tok \in Nat, NEW e \in ToSet(Confirmations(r, tok))
  PROVE  \/ \E k \in 1..Len(r.tasks) : e = NewEvent("TaskScheduled", r.tasks[k], tok)
         \/ \E k \in 1..Len(r.wakes) : e = NewEvent("TimerCreated", r.wakes[k], tok)
         \/ r.sub # None /\ e = NewEvent("SubCreated", 0, tok)
<1> DEFINE t == [k \in 1..Len(r.tasks) |-> NewEvent("TaskScheduled", r.tasks[k], tok)]
           w == [k \in 1..Len(r.wakes) |-> NewEvent("TimerCreated", r.wakes[k], tok)]
           c == IF r.sub = None THEN <<>> ELSE <<NewEvent("SubCreated", 0, tok)>>
           tw == t \o w
<1>1. /\ Len(r.tasks) \in Nat /\ \A k \in 1..Len(r.tasks) : r.tasks[k] \in Nat
      /\ Len(r.wakes) \in Nat /\ \A k \in 1..Len(r.wakes) : r.wakes[k] \in Nat
  BY ResponseFields
<1>2. \A n \in Nat : \A kind \in Scheduling : NewEvent(kind, n, tok) \in Event
  BY DEF NewEvent, Event, Kinds, Scheduling
<1>3. t \in Seq(Event) /\ w \in Seq(Event) /\ c \in Seq(Event)
  BY <1>1, <1>2 DEF Scheduling
<1>4. /\ \A x \in ToSet(t) : \E k \in 1..Len(r.tasks) : x = NewEvent("TaskScheduled", r.tasks[k], tok)
      /\ \A x \in ToSet(w) : \E k \in 1..Len(r.wakes) : x = NewEvent("TimerCreated", r.wakes[k], tok)
      /\ \A x \in ToSet(c) : r.sub # None /\ x = NewEvent("SubCreated", 0, tok)
  <2>1. DOMAIN t = 1..Len(r.tasks) /\ DOMAIN w = 1..Len(r.wakes)
    OBVIOUS
  <2>2. ASSUME NEW x \in ToSet(t)
        PROVE  \E k \in 1..Len(r.tasks) : x = NewEvent("TaskScheduled", r.tasks[k], tok)
    <3>1. PICK k \in DOMAIN t : x = t[k]
      BY <2>2 DEF ToSet
    <3> QED
      BY <2>1, <3>1
  <2>3. ASSUME NEW x \in ToSet(w)
        PROVE  \E k \in 1..Len(r.wakes) : x = NewEvent("TimerCreated", r.wakes[k], tok)
    <3>1. PICK k \in DOMAIN w : x = w[k]
      BY <2>3 DEF ToSet
    <3> QED
      BY <2>1, <3>1
  <2>4. ASSUME NEW x \in ToSet(c) PROVE r.sub # None /\ x = NewEvent("SubCreated", 0, tok)
    BY <2>4, ToSetEmpty DEF ToSet
  <2> QED
    BY <2>2, <2>3, <2>4
<1>5. Confirmations(r, tok) = tw \o c
  BY DEF Confirmations
<1> HIDE DEF t, w, c
<1>6. tw \in Seq(Event) /\ Joins(t, w)
  BY <1>3, ToSetConcat
<1>7. Joins(tw, c)
  <2> HIDE DEF tw
  <2> QED
    BY <1>3, <1>6, ToSetConcat
<1>8. e \in ToSet(t) \union ToSet(w) \union ToSet(c)
  BY <1>5, <1>6, <1>7 DEF Joins
<1> QED
  BY <1>4, <1>8

(* A step that ends nothing and schedules nothing. *)
LEMMA AccountedThrough ==
  ASSUME NEW kind \in Scheduling, NEW under, NEW next, under \subseteq next,
         NEW i \in Ids, Plain(i), Keeps(i, {}),
         Accounted(inst[i].history, Seen(i), i, kind, under)
  PROVE  Accounted(inst'[i].history, Seen(i)', i, kind, next)
<1>1. AccountedFor({}, inst'[i].history, Seen(i)', i, kind, next)
  BY DEF AccountedFor
<1>2. AccountedFor(UnderWay(inst[i].history, i, under), inst'[i].history, Seen(i)', i, kind, next)
  BY DEF AccountedFor, UnderWay
<1> QED
  BY <1>1, <1>2, AccountsKept

-----------------------------------------------------------------------------
(* Activities *)

TaskMarks == running \union ToSet(activityQueue)

TaskInv ==
  \A i \in Ids : Accounted(inst[i].history, Seen(i), i, "TaskScheduled", TaskMarks)

LEMMA TasksTaken ==
  ASSUME Rest, TakeActivity
  PROVE  TaskMarks \subseteq TaskMarks'
<1>1. CASE activityQueue = <<>>
  BY <1>1 DEF TakeActivity, TaskMarks
<1>2. CASE activityQueue # <<>>
  <2>1. /\ activityQueue' = Tail(activityQueue)
        /\ running' = running \union {Head(activityQueue)}
    BY <1>2 DEF TakeActivity
  <2>2. ToSet(activityQueue) \subseteq {Head(activityQueue)} \union ToSet(Tail(activityQueue))
    <3>1. /\ activityQueue \in Seq(Activity) /\ Len(activityQueue) \in Nat
          /\ Tail(activityQueue) \in Seq(Activity)
          /\ Len(Tail(activityQueue)) = Len(activityQueue) - 1
          /\ Head(activityQueue) = activityQueue[1]
          /\ \A k \in 1..(Len(activityQueue) - 1) : Tail(activityQueue)[k] = activityQueue[k + 1]
      BY <1>2 DEF Rest
    <3>2. ASSUME NEW k \in 1..Len(activityQueue), k # 1
          PROVE  activityQueue[k] \in ToSet(Tail(activityQueue))
      <4>1. k - 1 \in 1..(Len(activityQueue) - 1) /\ (k - 1) + 1 = k
        BY <3>1, <3>2
      <4>2. Tail(activityQueue)[k - 1] = activityQueue[k] /\ k - 1 \in DOMAIN Tail(activityQueue)
        BY <3>1, <4>1
      <4> QED
        BY <4>2 DEF ToSet
    <3> QED
      BY <3>1, <3>2 DEF ToSet
  <2> QED
    BY <2>1, <2>2 DEF TaskMarks
<1> QED
  BY <1>1, <1>2

(* Apart from an answer that schedules activities and one that completes an  *)
(* activity, nothing happens to them.                                        *)
LEMMA TasksStay ==
  ASSUME Rest, Next, "Reset" \notin Requests,
         {"abandonActivity", "crash"} \intersect Faults = {},
         ~\E i \in Ids : CompleteOrchestratorTask(i),
         ~\E a \in running : CompleteActivityTask(a)
  PROVE  TaskMarks \subseteq TaskMarks'
<1> USE DEF WorkerSide
<1>1. CASE UNCHANGED <<running, activityQueue>>
  BY <1>1 DEF TaskMarks
<1>2. CASE Request
  BY <1>1, <1>2 DEF Request, StartInstance, RaiseEvent, TerminateInstance, SuspendInstance,
       ResumeInstance, RestartInstance, PurgeInstances, Reset, Call
<1>3. CASE GetWorkItems
  BY <1>1, <1>3, TasksTaken
     DEF GetWorkItems, DispatchOrchestration, RequeueInFlight, NoOrchestrationReady
<1>4. CASE Worker
  BY <1>1, <1>4 DEF Worker, IgnoredAnswer, Answer, AbandonTaskOrchestratorWorkItem, LoseAnswer,
       AbandonAgain, AbandonTaskActivityWorkItem, WorkerCrash, Fault
<1>5. CASE Background
  BY <1>1, <1>5 DEF Background, FireTimer, StartWatching, WatcherTimeout,
       ReportSubOrchestration
<1> QED
  BY <1>2, <1>3, <1>4, <1>5 DEF Next

LEMMA TasksAnswered ==
  ASSUME Core, Rest, NEW i \in Ids, NEW r \in Responses, NEW carry, Accept(i, r, carry)
  PROVE  /\ ToSet(activityQueue) \subseteq ToSet(activityQueue')
         /\ \A k \in 1..Len(r.tasks) :
              [inst |-> i, id |-> r.tasks[k], tok |-> inst[i].token] \in ToSet(activityQueue')
<1> DEFINE q == activityQueue
           new == [k \in 1..Len(r.tasks) |->
                     [inst |-> i, id |-> r.tasks[k], tok |-> inst[i].token]]
<1>1. activityQueue' = q \o new
  BY DEF Accept
<1>2. q \in Seq(Activity) /\ new \in Seq(Activity)
  BY ResponseFields, InstanceFields DEF Core, Rest, Activity
<1>3. \A k \in 1..Len(r.tasks) :
        [inst |-> i, id |-> r.tasks[k], tok |-> inst[i].token] \in ToSet(new)
  <2>1. DOMAIN new = 1..Len(r.tasks)
    OBVIOUS
  <2> QED
    BY <2>1 DEF ToSet
<1>4. ToSet(q) \subseteq ToSet(activityQueue') /\ ToSet(new) \subseteq ToSet(activityQueue')
  <2> HIDE DEF q, new
  <2>1. Joins(q, new)
    BY <1>2, ToSetConcat
  <2> QED
    BY <1>1, <2>1 DEF Joins
<1> QED
  BY <1>3, <1>4

LEMMA TasksConfirmed ==
  ASSUME Core, Rest, NEW i \in Ids, NEW r \in Responses, NEW carry, Accept(i, r, carry)
  PROVE  AccountedFor(ToSet(Confirmations(r, inst[i].token)), inst'[i].history, Seen(i)', i,
                 "TaskScheduled", TaskMarks')
<1> SUFFICES ASSUME NEW e \in ToSet(Confirmations(r, inst[i].token)),
                    e.kind = "TaskScheduled"
             PROVE  Mark(i, e) \in TaskMarks'
  BY DEF AccountedFor
<1>1. inst[i].token \in Nat
  BY InstanceFields DEF Core
<1>2. PICK k \in 1..Len(r.tasks) : e = NewEvent("TaskScheduled", r.tasks[k], inst[i].token)
  BY <1>1, ConfirmedKinds DEF NewEvent
<1>3. Mark(i, e) = [inst |-> i, id |-> r.tasks[k], tok |-> inst[i].token]
  BY <1>2 DEF Mark, NewEvent
<1> QED
  BY <1>3, TasksAnswered DEF TaskMarks

LEMMA TaskStep ==
  ASSUME Core, Rest, resend = {}, TidyAll, PlainAll, TaskInv, [Next]_vars,
         "Reset" \notin Requests, {"abandonActivity", "crash"} \intersect Faults = {}
  PROVE  TaskInv'
<1> DEFINE Fine(i) == Accounted(inst'[i].history, Seen(i)', i, "TaskScheduled", TaskMarks')
<1>1. \A i \in Ids : /\ Plain(i)
                     /\ Accounted(inst[i].history, Seen(i), i, "TaskScheduled", TaskMarks)
  BY DEF PlainAll, TaskInv
<1>2. "TaskScheduled" \in Scheduling
  BY DEF Scheduling
<1>3. ASSUME TaskMarks \subseteq TaskMarks', NEW i \in Ids, Keeps(i, {}) PROVE Fine(i)
  BY <1>1, <1>2, <1>3, AccountedThrough
<1>4. CASE UNCHANGED vars
  <2>1. TaskMarks \subseteq TaskMarks' /\ AllKeep
    BY <1>4, NothingKeeps DEF vars, TaskMarks
  <2> QED
    BY <1>3, <2>1 DEF AllKeep, TaskInv
<1>5. ASSUME NEW i \in Ids, CompleteOrchestratorTask(i) PROVE TaskInv'
  <2>1. PICK r \in Responses : Adopts(i, r) /\ \E carry : Accept(i, r, carry)
    BY <1>5, AnswerKeeps
  <2>2. PICK carry : Accept(i, r, carry)
    BY <2>1
  <2>3. TaskMarks \subseteq TaskMarks'
    BY <1>5, <2>2, TasksAnswered DEF CompleteOrchestratorTask, Answer, TaskMarks
  <2>4. AccountedFor(ToSet(Confirmations(r, inst[i].token)), inst'[i].history, Seen(i)', i,
                "TaskScheduled", TaskMarks')
    BY <2>2, TasksConfirmed
  <2>5. AccountedFor(UnderWay(inst[i].history, i, TaskMarks), inst'[i].history, Seen(i)', i,
                "TaskScheduled", TaskMarks')
    BY <2>3 DEF AccountedFor, UnderWay
  <2>6. Fine(i)
    BY <1>1, <1>2, <2>1, <2>4, <2>5, AccountsKept DEF Adopts
  <2>7. ASSUME NEW j \in Ids, j # i PROVE Fine(j)
    BY <1>3, <2>1, <2>3, <2>7 DEF Adopts
  <2> QED
    BY <2>6, <2>7 DEF TaskInv
<1>6. ASSUME NEW a \in running, CompleteActivityTask(a) PROVE TaskInv'
  <2>1. /\ AllKeep /\ a.inst \in Ids
        /\ Exists(a.inst) => NewEvent("TaskDone", a.id, a.tok) \in Seen(a.inst)'
    BY <1>6, ActivityKeeps
  <2>2. TaskMarks \subseteq TaskMarks' \union {a}
    BY <1>6 DEF CompleteActivityTask, TaskMarks
  <2>3. ASSUME NEW i \in Ids PROVE Fine(i)
    <3>1. Plain(i) /\ Keeps(i, {})
      BY <1>1, <2>1, <2>3 DEF AllKeep
    <3>2. AccountedFor({}, inst'[i].history, Seen(i)', i, "TaskScheduled", TaskMarks')
      BY DEF AccountedFor
    <3>3. AccountedFor(UnderWay(inst[i].history, i, TaskMarks), inst'[i].history, Seen(i)', i,
                  "TaskScheduled", TaskMarks')
      <4> SUFFICES ASSUME NEW e \in ToSet(inst[i].history), Mark(i, e) = a
                   PROVE  Reported(Seen(i)', "TaskScheduled", e)
        BY <2>2 DEF AccountedFor, UnderWay
      <4>1. a.inst = i /\ a.id = e.id /\ a.tok = e.tok
        BY DEF Mark
      <4>2. Exists(i)
        BY <1>1, ToSetEmpty DEF Plain
      <4>3. NewEvent("TaskDone", a.id, a.tok) \in Seen(i)'
        BY <2>1, <4>1, <4>2
      <4> QED
        BY <4>1, <4>3, ResultKinds DEF Reported, NewEvent
    <3> QED
      BY <1>1, <1>2, <3>1, <3>2, <3>3, AccountsKept
  <2> QED
    BY <2>3 DEF TaskInv
<1>7. CASE /\ Next /\ ~\E i \in Ids : CompleteOrchestratorTask(i)
           /\ ~\E a \in running : CompleteActivityTask(a)
  <2>1. TaskMarks \subseteq TaskMarks' /\ AllKeep
    BY <1>7, TasksStay, OthersKeep
  <2> QED
    BY <1>3, <2>1 DEF AllKeep, TaskInv
<1> QED
  BY <1>4, <1>5, <1>6, <1>7

LEMMA TasksHold ==
  ASSUME Core, TaskInv
  PROVE  TasksAccounted
<1> SUFFICES ASSUME NEW i \in Ids, NEW k \in DOMAIN inst[i].history,
                    inst[i].history[k].kind = "TaskScheduled"
             PROVE  \/ Mark(i, inst[i].history[k]) \in TaskMarks
                    \/ Has(i, {"TaskDone"}, inst[i].history[k])
  BY DEF TasksAccounted, TaskMarks, Mark
<1> DEFINE e == inst[i].history[k]
<1>1. e \in ToSet(inst[i].history)
  BY DEF ToSet
<1>2. Mark(i, e) \in TaskMarks \/ Reported(Seen(i), "TaskScheduled", e)
  BY <1>1 DEF TaskInv, Accounted
<1>3. CASE Reported(Seen(i), "TaskScheduled", e)
  <2>1. PICK d \in Seen(i) : d.kind \in {"TaskDone"} /\ d.id = e.id /\ d.tok = e.tok
    BY <1>3, ResultKinds DEF Reported
  <2> HIDE DEF e
  <2>2. Has(i, {"TaskDone"}, e)
    BY <2>1, SeenHas
  <2> QED
    BY <2>2 DEF e
<1> QED
  BY <1>2, <1>3

(* The invariant that all the accounts rest on. *)
Books == Dispatched /\ TidyAll /\ PlainAll

LEMMA BooksInit == Init => Books /\ \A i \in Ids : inst[i] = Absent
<1> SUFFICES ASSUME Init PROVE Books /\ \A i \in Ids : inst[i] = Absent
  OBVIOUS
<1>1. \A i \in Ids : inst[i] = Absent
  BY DEF Init
<1>2. PlainAll
  BY <1>1, ToSetEmpty DEF PlainAll, Plain, Absent
<1> QED
  BY <1>1, <1>2, DispatchedInit, InitPromises DEF Books

LEMMA BooksStep ==
  ASSUME Books, WithinHistory, [Next]_vars, "Reset" \notin Requests, "lostReply" \notin Faults
  PROVE  Books' /\ Core /\ Rest /\ resend = {} /\ TidyAll /\ PlainAll
<1>1. Core /\ Rest /\ resend = {} /\ TidyAll /\ PlainAll
  BY DEF Books, Dispatched, Owned
<1> QED
  BY <1>1, DispatchedStep, PromiseStep, PlainStep DEF Books

(* Whatever activity the history of an instance says was scheduled is queued *)
(* or with a worker, or its result is in the instance (save_events of        *)
(* CompleteOrchestratorTask, the activity queue, CompleteActivityTask).  The *)
(* backend never schedules an activity again: a worker that gives one up or  *)
(* dies takes it away (AbandonTaskActivityWorkItem returns at once), and so  *)
(* does reset.  An answer that is refused for the length of the history      *)
(* leaves events behind that the next dispatch overwrites, results among     *)
(* them: the behaviours are those without such an answer.                    *)
THEOREM TasksTheorem ==
  ASSUME "Reset" \notin Requests, "lostReply" \notin Faults,
         {"abandonActivity", "crash"} \intersect Faults = {}
  PROVE  Spec /\ []WithinHistory => []TasksAccounted
<1>1. Init => Books /\ TaskInv
  BY BooksInit, NothingAccounted DEF TaskInv, Absent
<1>2. Books /\ TaskInv /\ WithinHistory /\ [Next]_vars => Books' /\ TaskInv'
  BY BooksStep, TaskStep
<1>3. Books /\ TaskInv => TasksAccounted
  BY TasksHold DEF Books, Dispatched
<1> QED
  BY <1>1, <1>2, <1>3, PTL DEF Spec

-----------------------------------------------------------------------------
(* Timers and sub-orchestrations report to an instance that is not over *)

OpenAccounted(i, kind, under) ==
  ~IsTerminal(i) => Accounted(inst[i].history, Seen(i), i, kind, under)

(* When every thread starts, an instance that is over stays over or begins   *)
(* anew, with an empty history.                                              *)
LEMMA OpenKept ==
  ASSUME "raise" \notin Outcomes,
         NEW i \in Ids, NEW kind \in Scheduling, NEW under, NEW next, NEW New,
         Plain(i), Keeps(i, New),
         ~IsTerminal(i) => Accounted(inst[i].history, Seen(i), i, kind, under),
         ~IsTerminal(i) => AccountedFor(New, inst'[i].history, Seen(i)', i, kind, next),
         ~IsTerminal(i) =>
           AccountedFor(UnderWay(inst[i].history, i, under), inst'[i].history, Seen(i)', i, kind, next)
  PROVE  ~IsTerminal(i)' => Accounted(inst'[i].history, Seen(i)', i, kind, next)
<1> SUFFICES ASSUME ~IsTerminal(i)'
             PROVE  Accounted(inst'[i].history, Seen(i)', i, kind, next)
  OBVIOUS
<1>1. CASE inst'[i].history = <<>>
  BY <1>1, NothingAccounted
<1>2. CASE inst'[i].history # <<>>
  <2>1. ~IsTerminal(i)
    BY <1>2 DEF Keeps, Extends
  <2> QED
    BY <2>1, AccountsKept
<1> QED
  BY <1>1, <1>2

LEMMA OpenThrough ==
  ASSUME "raise" \notin Outcomes, NEW kind \in Scheduling, NEW under, NEW next,
         under \subseteq next, NEW i \in Ids, Plain(i), Keeps(i, {}),
         ~IsTerminal(i) => Accounted(inst[i].history, Seen(i), i, kind, under)
  PROVE  ~IsTerminal(i)' => Accounted(inst'[i].history, Seen(i)', i, kind, next)
<1>1. AccountedFor({}, inst'[i].history, Seen(i)', i, kind, next)
  BY DEF AccountedFor
<1>2. AccountedFor(UnderWay(inst[i].history, i, under), inst'[i].history, Seen(i)', i, kind, next)
  BY DEF AccountedFor, UnderWay
<1> QED
  BY <1>1, <1>2, OpenKept

-----------------------------------------------------------------------------
(* Timers *)

TimerInv == \A i \in Ids : OpenAccounted(i, "TimerCreated", timers)

LEMMA TimersStay ==
  ASSUME Next, ~\E t \in timers : FireTimer(t)
  PROVE  timers \subseteq timers'
<1> USE DEF WorkerSide
<1>1. CASE UNCHANGED timers
  BY <1>1
<1>2. CASE Request
  BY <1>1, <1>2 DEF Request, StartInstance, RaiseEvent, TerminateInstance, SuspendInstance,
       ResumeInstance, RestartInstance, PurgeInstances, Reset
<1>3. CASE GetWorkItems
  BY <1>1, <1>3
     DEF GetWorkItems, DispatchOrchestration, RequeueInFlight, NoOrchestrationReady
<1>4. CASE Worker
  <2>1. ASSUME NEW i \in Ids, CompleteOrchestratorTask(i) PROVE timers \subseteq timers'
    <3>1. PICK r \in Responses : \E carry : Accept(i, r, carry)
      BY <2>1 DEF CompleteOrchestratorTask
    <3>2. PICK carry : Accept(i, r, carry)
      BY <3>1
    <3> QED
      BY <3>2 DEF Accept
  <2> QED
    BY <1>1, <1>4, <2>1
       DEF Worker, IgnoredAnswer, AbandonTaskOrchestratorWorkItem, LoseAnswer, AbandonAgain,
           CompleteActivityTask, AbandonTaskActivityWorkItem, WorkerCrash
<1>5. CASE Background
  BY <1>1, <1>5 DEF Background, StartWatching, WatcherTimeout, ReportSubOrchestration
<1> QED
  BY <1>2, <1>3, <1>4, <1>5 DEF Next

LEMMA TimersConfirmed ==
  ASSUME Core, Rest, "raise" \notin Outcomes, NEW i \in Ids, NEW r \in Responses, NEW carry,
         Accept(i, r, carry)
  PROVE  AccountedFor(ToSet(Confirmations(r, inst[i].token)), inst'[i].history, Seen(i)', i,
                 "TimerCreated", timers')
<1> SUFFICES ASSUME NEW e \in ToSet(Confirmations(r, inst[i].token)),
                    e.kind = "TimerCreated"
             PROVE  Mark(i, e) \in timers'
  BY DEF AccountedFor
<1>1. inst[i].token \in Nat
  BY InstanceFields DEF Core
<1>2. PICK k \in 1..Len(r.wakes) : e = NewEvent("TimerCreated", r.wakes[k], inst[i].token)
  BY <1>1, ConfirmedKinds DEF NewEvent
<1>3. Mark(i, e) = [inst |-> i, id |-> r.wakes[k], tok |-> inst[i].token]
  BY <1>2 DEF Mark, NewEvent
<1>4. r.outcome # "raise"
  BY DEF Responses
<1>5. timers' = timers \union
        {[inst |-> i, id |-> r.wakes[j], tok |-> inst[i].token] : j \in 1..Len(r.wakes)}
  BY <1>4 DEF Accept
<1> QED
  BY <1>3, <1>5

LEMMA TimerStep ==
  ASSUME Core, Rest, resend = {}, TidyAll, PlainAll, TimerInv, [Next]_vars,
         "raise" \notin Outcomes
  PROVE  TimerInv'
<1> DEFINE Fine(i) == ~IsTerminal(i)' =>
                        Accounted(inst'[i].history, Seen(i)', i, "TimerCreated", timers')
<1>1. \A i \in Ids :
        /\ Plain(i)
        /\ ~IsTerminal(i) => Accounted(inst[i].history, Seen(i), i, "TimerCreated", timers)
  BY DEF PlainAll, TimerInv, OpenAccounted
<1>2. "TimerCreated" \in Scheduling
  BY DEF Scheduling
<1>3. ASSUME timers \subseteq timers', NEW i \in Ids, Keeps(i, {}) PROVE Fine(i)
  BY <1>1, <1>2, <1>3, OpenThrough
<1>4. ASSUME \A i \in Ids : Fine(i) PROVE TimerInv'
  BY <1>4 DEF TimerInv, OpenAccounted
<1>5. CASE UNCHANGED vars
  <2>1. timers \subseteq timers' /\ AllKeep
    BY <1>5, NothingKeeps DEF vars
  <2> QED
    BY <1>3, <1>4, <2>1 DEF AllKeep
<1>6. ASSUME NEW i \in Ids, CompleteOrchestratorTask(i) PROVE TimerInv'
  <2>1. PICK r \in Responses : Adopts(i, r) /\ \E carry : Accept(i, r, carry)
    BY <1>6, AnswerKeeps
  <2>2. PICK carry : Accept(i, r, carry)
    BY <2>1
  <2>3. timers \subseteq timers'
    BY <2>2 DEF Accept
  <2>4. AccountedFor(ToSet(Confirmations(r, inst[i].token)), inst'[i].history, Seen(i)', i,
                "TimerCreated", timers')
    BY <2>2, TimersConfirmed
  <2>5. AccountedFor(UnderWay(inst[i].history, i, timers), inst'[i].history, Seen(i)', i,
                "TimerCreated", timers')
    BY <2>3 DEF AccountedFor, UnderWay
  <2>6. Fine(i)
    BY <1>1, <1>2, <2>1, <2>4, <2>5, OpenKept DEF Adopts
  <2>7. ASSUME NEW j \in Ids, j # i PROVE Fine(j)
    BY <1>3, <2>1, <2>3, <2>7 DEF Adopts
  <2> QED
    BY <1>4, <2>6, <2>7
<1>7. ASSUME NEW t \in timers, FireTimer(t) PROVE TimerInv'
  <2>1. /\ AllKeep /\ t.inst \in Ids
        /\ Receives(t.inst) => NewEvent("TimerFired", t.id, t.tok) \in Seen(t.inst)'
    BY <1>7, TimerKeeps
  <2>2. timers \subseteq timers' \union {t}
    BY <1>7 DEF FireTimer
  <2>3. ASSUME NEW i \in Ids PROVE Fine(i)
    <3>1. Plain(i) /\ Keeps(i, {})
      BY <1>1, <2>1, <2>3 DEF AllKeep
    <3>2. AccountedFor({}, inst'[i].history, Seen(i)', i, "TimerCreated", timers')
      BY DEF AccountedFor
    <3>3. ~IsTerminal(i) =>
            AccountedFor(UnderWay(inst[i].history, i, timers), inst'[i].history, Seen(i)', i,
                    "TimerCreated", timers')
      <4> SUFFICES ASSUME ~IsTerminal(i), NEW e \in ToSet(inst[i].history), Mark(i, e) = t
                   PROVE  Reported(Seen(i)', "TimerCreated", e)
        BY <2>2 DEF AccountedFor, UnderWay
      <4>1. t.inst = i /\ t.id = e.id /\ t.tok = e.tok
        BY DEF Mark
      <4>2. Receives(i)
        BY <1>1, ToSetEmpty DEF Plain, Receives
      <4>3. NewEvent("TimerFired", t.id, t.tok) \in Seen(i)'
        BY <2>1, <4>1, <4>2
      <4> QED
        BY <4>1, <4>3, ResultKinds DEF Reported, NewEvent
    <3> QED
      BY <1>1, <1>2, <3>1, <3>2, <3>3, OpenKept
  <2> QED
    BY <1>4, <2>3
<1>8. CASE /\ Next /\ ~\E i \in Ids : CompleteOrchestratorTask(i)
           /\ ~\E t \in timers : FireTimer(t)
  <2>1. timers \subseteq timers' /\ AllKeep
    BY <1>8, TimersStay, OthersKeep
  <2> QED
    BY <1>3, <1>4, <2>1 DEF AllKeep
<1> QED
  BY <1>5, <1>6, <1>7, <1>8

LEMMA TimersHold ==
  ASSUME Core, TimerInv
  PROVE  TimersAccounted
<1> SUFFICES ASSUME NEW i \in Ids, NEW k \in DOMAIN inst[i].history,
                    inst[i].history[k].kind = "TimerCreated", ~IsTerminal(i)
             PROVE  \/ Mark(i, inst[i].history[k]) \in timers
                    \/ Has(i, {"TimerFired"}, inst[i].history[k])
  BY DEF TimersAccounted, Mark
<1> DEFINE e == inst[i].history[k]
<1>1. e \in ToSet(inst[i].history)
  BY DEF ToSet
<1>2. Mark(i, e) \in timers \/ Reported(Seen(i), "TimerCreated", e)
  BY <1>1 DEF TimerInv, OpenAccounted, Accounted
<1>3. CASE Reported(Seen(i), "TimerCreated", e)
  <2>1. PICK d \in Seen(i) : d.kind \in {"TimerFired"} /\ d.id = e.id /\ d.tok = e.tok
    BY <1>3, ResultKinds DEF Reported
  <2> HIDE DEF e
  <2>2. Has(i, {"TimerFired"}, e)
    BY <2>1, SeenHas
  <2> QED
    BY <2>2 DEF e
<1> QED
  BY <1>2, <1>3

(* Whatever timer the history of an instance that is not over says was       *)
(* created sleeps, or its firing is in the instance (fire_timer threads of   *)
(* _process_create_timer_action, which nothing but the end of the instance   *)
(* silences).  Where the thread of a timer cannot be started, the timer is   *)
(* in the history and nothing will fire it: the outcome "raise".             *)
THEOREM TimersTheorem ==
  ASSUME "Reset" \notin Requests, "lostReply" \notin Faults, "raise" \notin Outcomes
  PROVE  Spec /\ []WithinHistory => []TimersAccounted
<1>1. Init => Books /\ TimerInv
  BY BooksInit, NothingAccounted DEF TimerInv, OpenAccounted, Absent
<1>2. Books /\ TimerInv /\ WithinHistory /\ [Next]_vars => Books' /\ TimerInv'
  BY BooksStep, TimerStep
<1>3. Books /\ TimerInv => TimersAccounted
  BY TimersHold DEF Books, Dispatched
<1> QED
  BY <1>1, <1>2, <1>3, PTL DEF Spec

-----------------------------------------------------------------------------
(* Sub-orchestrations *)

WatchMarks == {Mark(w.parent, w) : w \in watchers}

SubInv == \A i \in Ids : OpenAccounted(i, "SubCreated", WatchMarks)

(* Dropping and waking waiters changes the phases of watchers only. *)
LEMMA DropKeepsMarks ==
  ASSUME NEW S, Rest, DropWaiters(S)
  PROVE  WatchMarks \subseteq WatchMarks'
<1> SUFFICES ASSUME NEW w \in watchers PROVE Mark(w.parent, w) \in WatchMarks'
  BY DEF WatchMarks
<1> DEFINE v == IF w.sub \in S /\ w.phase = "waiting" THEN [w EXCEPT !.phase = "orphaned"] ELSE w
<1>1. v \in watchers'
  BY DEF DropWaiters
<1>2. v.parent = w.parent /\ v.id = w.id /\ v.tok = w.tok
  BY DEF Rest, Watcher
<1>3. Mark(v.parent, v) = Mark(w.parent, w)
  BY <1>2 DEF Mark
<1> QED
  BY <1>1, <1>3 DEF WatchMarks

LEMMA NotifiedKeepsMarks ==
  ASSUME NEW i, NEW status, Rest, Notified(watchers, i, status) \subseteq watchers'
  PROVE  WatchMarks \subseteq WatchMarks'
<1> SUFFICES ASSUME NEW w \in watchers PROVE Mark(w.parent, w) \in WatchMarks'
  BY DEF WatchMarks
<1> DEFINE v == IF w.sub = i /\ w.phase = "waiting" /\ status \in Terminal
                THEN [w EXCEPT !.phase = Ended(status)] ELSE w
<1>1. v \in watchers'
  BY DEF Notified
<1>2. v.parent = w.parent /\ v.id = w.id /\ v.tok = w.tok
  BY DEF Rest, Watcher
<1>3. Mark(v.parent, v) = Mark(w.parent, w)
  BY <1>2 DEF Mark
<1> QED
  BY <1>1, <1>3 DEF WatchMarks

LEMMA StartKeepsMarks ==
  ASSUME NEW w \in watchers, Rest, StartWatching(w)
  PROVE  WatchMarks \subseteq WatchMarks'
<1> DEFINE v == [w EXCEPT !.phase = IF IsTerminal(w.sub) THEN Ended(inst[w.sub].status)
                                    ELSE "waiting"]
<1>1. watchers' = (watchers \ {w}) \union {v}
  BY DEF StartWatching
<1>2. v.parent = w.parent /\ v.id = w.id /\ v.tok = w.tok
  BY DEF Rest, Watcher
<1> HIDE DEF v
<1>3. Mark(v.parent, v) = Mark(w.parent, w)
  BY <1>2 DEF Mark
<1> QED
  BY <1>1, <1>3 DEF WatchMarks

LEMMA AcceptKeepsMarks ==
  ASSUME Rest, NEW i \in Ids, NEW r \in Responses, NEW carry, Accept(i, r, carry)
  PROVE  /\ WatchMarks \subseteq WatchMarks'
         /\ r.sub # None /\ Creatable(r.sub) =>
              [inst |-> i, id |-> 0, tok |-> inst[i].token] \in WatchMarks'
<1> DEFINE created == r.sub # None /\ Creatable(r.sub)
           watcher == [parent |-> i, sub |-> r.sub, id |-> 0, tok |-> inst[i].token,
                       phase |-> "starting"]
<1>1. PICK status : watchers' = Notified(watchers, i, status)
                                  \union IF created THEN {watcher} ELSE {}
  BY DEF Accept
<1>2. WatchMarks \subseteq WatchMarks'
  <2>1. Notified(watchers, i, status) \subseteq watchers'
    BY <1>1
  <2> QED
    BY <2>1, NotifiedKeepsMarks
<1>3. ASSUME created PROVE [inst |-> i, id |-> 0, tok |-> inst[i].token] \in WatchMarks'
  <2>1. watcher \in watchers'
    BY <1>1, <1>3
  <2>2. Mark(watcher.parent, watcher) = [inst |-> i, id |-> 0, tok |-> inst[i].token]
    BY DEF Mark
  <2> QED
    BY <2>1, <2>2 DEF WatchMarks
<1> QED
  BY <1>2, <1>3

LEMMA WatchersStay ==
  ASSUME Rest, Next, "Reset" \notin Requests, "watchTimeout" \notin Faults,
         ~\E i \in Ids : CompleteOrchestratorTask(i),
         ~\E w \in watchers : ReportSubOrchestration(w)
  PROVE  WatchMarks \subseteq WatchMarks'
<1> USE DEF WorkerSide
<1>1. CASE UNCHANGED watchers
  BY <1>1 DEF WatchMarks
<1>2. CASE Request
  BY <1>1, <1>2, DropKeepsMarks
     DEF Request, StartInstance, RaiseEvent, TerminateInstance, SuspendInstance,
         ResumeInstance, RestartInstance, PurgeInstances, Reset, Call
<1>3. CASE GetWorkItems
  BY <1>1, <1>3
     DEF GetWorkItems, DispatchOrchestration, RequeueInFlight, NoOrchestrationReady
<1>4. CASE Worker
  BY <1>1, <1>4
     DEF Worker, IgnoredAnswer, AbandonTaskOrchestratorWorkItem, LoseAnswer, AbandonAgain,
         CompleteActivityTask, AbandonTaskActivityWorkItem, WorkerCrash
<1>5. CASE Background
  BY <1>1, <1>5, StartKeepsMarks DEF Background, FireTimer, WatcherTimeout, Fault
<1> QED
  BY <1>2, <1>3, <1>4, <1>5 DEF Next

(* A sub-orchestration is created and watched, or its refusal is reported. *)
LEMMA SubConfirmed ==
  ASSUME Core, Rest, NEW i \in Ids, NEW r \in Responses, Adopts(i, r),
         NEW carry, Accept(i, r, carry)
  PROVE  AccountedFor(ToSet(Confirmations(r, inst[i].token)), inst'[i].history, Seen(i)', i,
                 "SubCreated", WatchMarks')
<1> SUFFICES ASSUME inst'[i].history # <<>>,
                    NEW e \in ToSet(Confirmations(r, inst[i].token)), e.kind = "SubCreated"
             PROVE  Mark(i, e) \in WatchMarks' \/ Reported(Seen(i)', "SubCreated", e)
  BY DEF AccountedFor
<1>1. inst[i].token \in Nat
  BY InstanceFields DEF Core
<1>2. r.sub # None /\ e = NewEvent("SubCreated", 0, inst[i].token)
  BY <1>1, ConfirmedKinds DEF NewEvent
<1>3. CASE Creatable(r.sub)
  <2>1. Mark(i, e) = [inst |-> i, id |-> 0, tok |-> inst[i].token]
    BY <1>2 DEF Mark, NewEvent
  <2> QED
    BY <1>2, <1>3, <2>1, AcceptKeepsMarks
<1>4. CASE ~Creatable(r.sub)
  <2>1. NewEvent("SubFailed", 0, inst[i].token) \in Seen(i)'
    BY <1>2, <1>4 DEF Adopts
  <2> QED
    BY <1>2, <2>1, ResultKinds DEF Reported, NewEvent
<1> QED
  BY <1>3, <1>4

LEMMA SubStep ==
  ASSUME Core, Rest, resend = {}, TidyAll, PlainAll, SubInv, [Next]_vars,
         "raise" \notin Outcomes, "Reset" \notin Requests, "watchTimeout" \notin Faults
  PROVE  SubInv'
<1> DEFINE Fine(i) == ~IsTerminal(i)' =>
                        Accounted(inst'[i].history, Seen(i)', i, "SubCreated", WatchMarks')
<1>1. \A i \in Ids :
        /\ Plain(i)
        /\ ~IsTerminal(i) => Accounted(inst[i].history, Seen(i), i, "SubCreated", WatchMarks)
  BY DEF PlainAll, SubInv, OpenAccounted
<1>2. "SubCreated" \in Scheduling
  BY DEF Scheduling
<1>3. ASSUME WatchMarks \subseteq WatchMarks', NEW i \in Ids, Keeps(i, {}) PROVE Fine(i)
  BY <1>1, <1>2, <1>3, OpenThrough
<1>4. ASSUME \A i \in Ids : Fine(i) PROVE SubInv'
  BY <1>4 DEF SubInv, OpenAccounted
<1>5. CASE UNCHANGED vars
  <2>1. WatchMarks \subseteq WatchMarks' /\ AllKeep
    BY <1>5, NothingKeeps DEF vars, WatchMarks
  <2> QED
    BY <1>3, <1>4, <2>1 DEF AllKeep
<1>6. ASSUME NEW i \in Ids, CompleteOrchestratorTask(i) PROVE SubInv'
  <2>1. PICK r \in Responses : Adopts(i, r) /\ \E carry : Accept(i, r, carry)
    BY <1>6, AnswerKeeps
  <2>2. PICK carry : Accept(i, r, carry)
    BY <2>1
  <2>3. WatchMarks \subseteq WatchMarks'
    BY <2>2, AcceptKeepsMarks
  <2>4. AccountedFor(ToSet(Confirmations(r, inst[i].token)), inst'[i].history, Seen(i)', i,
                "SubCreated", WatchMarks')
    BY <2>1, <2>2, SubConfirmed
  <2>5. AccountedFor(UnderWay(inst[i].history, i, WatchMarks), inst'[i].history, Seen(i)', i,
                "SubCreated", WatchMarks')
    BY <2>3 DEF AccountedFor, UnderWay
  <2>6. Fine(i)
    BY <1>1, <1>2, <2>1, <2>4, <2>5, OpenKept DEF Adopts
  <2>7. ASSUME NEW j \in Ids, j # i PROVE Fine(j)
    BY <1>3, <2>1, <2>3, <2>7 DEF Adopts
  <2> QED
    BY <1>4, <2>6, <2>7
<1>7. ASSUME NEW w \in watchers, ReportSubOrchestration(w) PROVE SubInv'
  <2>1. /\ AllKeep /\ w.parent \in Ids
        /\ Receives(w.parent) => \E kind \in {"SubCompleted", "SubFailed"} :
                                  NewEvent(kind, w.id, w.tok) \in Seen(w.parent)'
    BY <1>7, ReportKeeps
  <2>2. WatchMarks \subseteq WatchMarks' \union {Mark(w.parent, w)}
    BY <1>7 DEF ReportSubOrchestration, WatchMarks
  <2>3. ASSUME NEW i \in Ids PROVE Fine(i)
    <3>1. Plain(i) /\ Keeps(i, {})
      BY <1>1, <2>1, <2>3 DEF AllKeep
    <3>2. AccountedFor({}, inst'[i].history, Seen(i)', i, "SubCreated", WatchMarks')
      BY DEF AccountedFor
    <3>3. ~IsTerminal(i) =>
            AccountedFor(UnderWay(inst[i].history, i, WatchMarks), inst'[i].history, Seen(i)', i,
                    "SubCreated", WatchMarks')
      <4> SUFFICES ASSUME ~IsTerminal(i), NEW e \in ToSet(inst[i].history),
                          Mark(i, e) = Mark(w.parent, w)
                   PROVE  Reported(Seen(i)', "SubCreated", e)
        BY <2>2 DEF AccountedFor, UnderWay
      <4>1. w.parent = i /\ w.id = e.id /\ w.tok = e.tok
        BY DEF Mark
      <4>2. Receives(i)
        BY <1>1, ToSetEmpty DEF Plain, Receives
      <4>3. PICK kind \in {"SubCompleted", "SubFailed"} : NewEvent(kind, w.id, w.tok) \in Seen(i)'
        BY <2>1, <4>1, <4>2
      <4> QED
        BY <4>1, <4>3, ResultKinds DEF Reported, NewEvent
    <3> QED
      BY <1>1, <1>2, <3>1, <3>2, <3>3, OpenKept
  <2> QED
    BY <1>4, <2>3
<1>8. CASE /\ Next /\ ~\E i \in Ids : CompleteOrchestratorTask(i)
           /\ ~\E w \in watchers : ReportSubOrchestration(w)
  <2>1. WatchMarks \subseteq WatchMarks' /\ AllKeep
    BY <1>8, WatchersStay, OthersKeep
  <2> QED
    BY <1>3, <1>4, <2>1 DEF AllKeep
<1> QED
  BY <1>5, <1>6, <1>7, <1>8

LEMMA SubsHold ==
  ASSUME Core, SubInv
  PROVE  SubOrchestrationsWatched
<1> SUFFICES ASSUME NEW i \in Ids, NEW k \in DOMAIN inst[i].history,
                    inst[i].history[k].kind = "SubCreated", ~IsTerminal(i)
             PROVE  \/ Mark(i, inst[i].history[k]) \in WatchMarks
                    \/ Has(i, {"SubCompleted", "SubFailed"}, inst[i].history[k])
  BY DEF SubOrchestrationsWatched, WatchMarks, Mark
<1> DEFINE e == inst[i].history[k]
<1>1. e \in ToSet(inst[i].history)
  BY DEF ToSet
<1>2. Mark(i, e) \in WatchMarks \/ Reported(Seen(i), "SubCreated", e)
  BY <1>1 DEF SubInv, OpenAccounted, Accounted
<1>3. CASE Reported(Seen(i), "SubCreated", e)
  <2>1. PICK d \in Seen(i) :
          d.kind \in {"SubCompleted", "SubFailed"} /\ d.id = e.id /\ d.tok = e.tok
    BY <1>3, ResultKinds DEF Reported
  <2> HIDE DEF e
  <2>2. Has(i, {"SubCompleted", "SubFailed"}, e)
    BY <2>1, SeenHas
  <2> QED
    BY <2>2 DEF e
<1> QED
  BY <1>2, <1>3

(* Whatever sub-orchestration the history of an instance that is not over    *)
(* says was created has a watcher, or its end is in the instance, as is the  *)
(* refusal of one that cannot be created (the watch threads of               *)
(* _process_create_sub_orchestration_action).  A watcher whose wait times    *)
(* out reports nothing, and the waiters that reset wakes take their watchers *)
(* with them: neither happens here.                                          *)
THEOREM SubsTheorem ==
  ASSUME "Reset" \notin Requests, "lostReply" \notin Faults, "raise" \notin Outcomes,
         "watchTimeout" \notin Faults
  PROVE  Spec /\ []WithinHistory => []SubOrchestrationsWatched
<1>1. Init => Books /\ SubInv
  BY BooksInit, NothingAccounted DEF SubInv, OpenAccounted, Absent
<1>2. Books /\ SubInv /\ WithinHistory /\ [Next]_vars => Books' /\ SubInv'
  BY BooksStep, SubStep
<1>3. Books /\ SubInv => SubOrchestrationsWatched
  BY SubsHold DEF Books, Dispatched
<1> QED
  BY <1>1, <1>2, <1>3, PTL DEF Spec

-----------------------------------------------------------------------------
(* Results and the events that scheduled them: their causes *)

Results == {"TaskDone", "TimerFired", "SubCompleted", "SubFailed"}

CauseKind(kind) ==
  CASE kind = "TaskDone" -> "TaskScheduled"
    [] kind = "TimerFired" -> "TimerCreated"
    [] OTHER -> "SubCreated"

(* The event that scheduled what e is the result of. *)
Cause(e) == NewEvent(CauseKind(e.kind), e.id, e.tok)

Causes(S) == {Cause(e) : e \in {d \in S : d.kind \in Results}}

(* No two results in s have the same cause. *)
Single(s) ==
  \A j, k \in DOMAIN s :
    s[j].kind \in Results /\ s[k].kind \in Results /\ Cause(s[j]) = Cause(s[k]) => j = k

(* No result in s comes before its cause. *)
Late(s) ==
  \A j, k \in DOMAIN s : s[k].kind \in Results /\ s[j] = Cause(s[k]) => j < k

Disjoint(S, T) == S \intersect T = {}

LEMMA CauseFields ==
  ASSUME NEW e \in Event
  PROVE  /\ Cause(e) \in Event /\ Cause(e).tok = e.tok
         /\ e.kind \in Results => Cause(e).kind \in Scheduling
  BY DEF Cause, CauseKind, NewEvent, Event, Kinds, Results, Scheduling

LEMMA CausesJoin ==
  ASSUME NEW S, NEW T
  PROVE  Causes(S \union T) = Causes(S) \union Causes(T)
  BY DEF Causes

LEMMA CausesNone ==
  ASSUME NEW S, \A e \in S : e.kind \notin Results
  PROVE  Causes(S) = {}
  BY DEF Causes

LEMMA CausesLess ==
  ASSUME NEW S, NEW T, S \subseteq T
  PROVE  Causes(S) \subseteq Causes(T)
  BY DEF Causes

LEMMA CausesTokens ==
  ASSUME NEW S, S \subseteq Event, NEW c \in Causes(S)
  PROVE  c \in Event /\ c.kind \in Scheduling /\ \E e \in S : c.tok = e.tok
  BY CauseFields DEF Causes

(* Where the elements of a sequence of two parts come from. *)
Comes(a, b) ==
  \A k \in DOMAIN (a \o b) :
    \/ k \in DOMAIN a /\ (a \o b)[k] = a[k]
    \/ k > Len(a) /\ k - Len(a) \in DOMAIN b /\ (a \o b)[k] = b[k - Len(a)]

LEMMA ComesLemma ==
  ASSUME NEW S, NEW a \in Seq(S), NEW b \in Seq(S)
  PROVE  Comes(a, b) /\ DOMAIN (a \o b) \subseteq Nat /\ a \o b \in Seq(S)
<1> DEFINE c == a \o b
<1>1. /\ Len(a) \in Nat /\ Len(b) \in Nat /\ Len(c) = Len(a) + Len(b) /\ c \in Seq(S)
      /\ DOMAIN a = 1..Len(a) /\ DOMAIN b = 1..Len(b) /\ DOMAIN c = 1..Len(c)
      /\ \A k \in 1..Len(a) : c[k] = a[k]
      /\ \A k \in 1..Len(b) : c[Len(a) + k] = b[k]
  OBVIOUS
<1> HIDE DEF c
<1>2. ASSUME NEW k \in 1..Len(c)
      PROVE  \/ k \in 1..Len(a) /\ c[k] = a[k]
             \/ k > Len(a) /\ k - Len(a) \in 1..Len(b) /\ c[k] = b[k - Len(a)]
  <2>1. CASE k <= Len(a)
    BY <1>1, <2>1
  <2>2. CASE ~(k <= Len(a))
    <3>1. k - Len(a) \in 1..Len(b) /\ Len(a) + (k - Len(a)) = k /\ k > Len(a)
      BY <1>1, <2>2
    <3>2. c[Len(a) + (k - Len(a))] = b[k - Len(a)]
      BY <1>1, <3>1
    <3> QED
      BY <3>1, <3>2
  <2> QED
    BY <2>1, <2>2
<1>3. DOMAIN c \subseteq Nat
  BY <1>1
<1>4. \A k \in DOMAIN c : \/ k \in DOMAIN a /\ c[k] = a[k]
                          \/ k > Len(a) /\ k - Len(a) \in DOMAIN b /\ c[k] = b[k - Len(a)]
  BY <1>1, <1>2
<1> QED
  BY <1>1, <1>3, <1>4 DEF c, Comes

LEMMA SingleJoin ==
  ASSUME NEW a \in Seq(Event), NEW b \in Seq(Event), Single(a), Single(b),
         Disjoint(Causes(ToSet(a)), Causes(ToSet(b)))
  PROVE  Single(a \o b)
<1> DEFINE c == a \o b
<1>1. Comes(a, b) /\ DOMAIN c \subseteq Nat
  BY ComesLemma
<1>2. Len(a) \in Nat
  OBVIOUS
<1>3. ASSUME NEW j \in DOMAIN a, NEW k \in DOMAIN b, a[j].kind \in Results, b[k].kind \in Results
      PROVE  Cause(a[j]) # Cause(b[k])
  <2>1. Cause(a[j]) \in Causes(ToSet(a)) /\ Cause(b[k]) \in Causes(ToSet(b))
    BY <1>3 DEF Causes, ToSet
  <2> QED
    BY <2>1 DEF Disjoint
<1> SUFFICES ASSUME NEW j \in DOMAIN c, NEW k \in DOMAIN c,
                    c[j].kind \in Results, c[k].kind \in Results, Cause(c[j]) = Cause(c[k])
             PROVE  j = k
  BY DEF Single
<1> HIDE DEF c
<1>4. \/ j \in DOMAIN a /\ c[j] = a[j]
      \/ j > Len(a) /\ j - Len(a) \in DOMAIN b /\ c[j] = b[j - Len(a)]
  BY <1>1 DEF Comes, c
<1>5. \/ k \in DOMAIN a /\ c[k] = a[k]
      \/ k > Len(a) /\ k - Len(a) \in DOMAIN b /\ c[k] = b[k - Len(a)]
  BY <1>1 DEF Comes, c
<1>6. CASE j \in DOMAIN a /\ c[j] = a[j] /\ k \in DOMAIN a /\ c[k] = a[k]
  BY <1>6 DEF Single
<1>7. CASE /\ j > Len(a) /\ j - Len(a) \in DOMAIN b /\ c[j] = b[j - Len(a)]
           /\ k > Len(a) /\ k - Len(a) \in DOMAIN b /\ c[k] = b[k - Len(a)]
  <2>1. j - Len(a) = k - Len(a)
    BY <1>7 DEF Single
  <2>2. j \in Nat /\ k \in Nat
    BY <1>1
  <2> QED
    BY <1>2, <2>1, <2>2
<1> QED
  BY <1>3, <1>4, <1>5, <1>6, <1>7

LEMMA LateJoin ==
  ASSUME NEW a \in Seq(Event), NEW b \in Seq(Event), Late(a), Late(b),
         Disjoint(Causes(ToSet(a)), ToSet(b))
  PROVE  Late(a \o b)
<1> DEFINE c == a \o b
<1>1. Comes(a, b) /\ DOMAIN c \subseteq Nat
  BY ComesLemma
<1>2. Len(a) \in Nat /\ DOMAIN a = 1..Len(a) /\ DOMAIN b \subseteq Nat
  OBVIOUS
<1>3. ASSUME NEW j \in DOMAIN b, NEW k \in DOMAIN a, a[k].kind \in Results
      PROVE  b[j] # Cause(a[k])
  <2>1. Cause(a[k]) \in Causes(ToSet(a)) /\ b[j] \in ToSet(b)
    BY <1>3 DEF Causes, ToSet
  <2> QED
    BY <2>1 DEF Disjoint
<1> SUFFICES ASSUME NEW j \in DOMAIN c, NEW k \in DOMAIN c,
                    c[k].kind \in Results, c[j] = Cause(c[k])
             PROVE  j < k
  BY DEF Late
<1> HIDE DEF c
<1>4. \/ j \in DOMAIN a /\ c[j] = a[j]
      \/ j > Len(a) /\ j - Len(a) \in DOMAIN b /\ c[j] = b[j - Len(a)]
  BY <1>1 DEF Comes, c
<1>5. \/ k \in DOMAIN a /\ c[k] = a[k]
      \/ k > Len(a) /\ k - Len(a) \in DOMAIN b /\ c[k] = b[k - Len(a)]
  BY <1>1 DEF Comes, c
<1>6. j \in Nat /\ k \in Nat
  BY <1>1
<1>7. CASE j \in DOMAIN a /\ c[j] = a[j]
  <2>1. CASE k \in DOMAIN a /\ c[k] = a[k]
    BY <1>7, <2>1 DEF Late
  <2>2. CASE k > Len(a)
    BY <1>2, <1>6, <1>7, <2>2
  <2> QED
    BY <1>5, <2>1, <2>2
<1>8. CASE j > Len(a) /\ j - Len(a) \in DOMAIN b /\ c[j] = b[j - Len(a)]
  <2>1. k > Len(a) /\ k - Len(a) \in DOMAIN b /\ c[k] = b[k - Len(a)]
    BY <1>3, <1>5, <1>8
  <2>2. j - Len(a) < k - Len(a)
    BY <1>8, <2>1 DEF Late
  <2> QED
    BY <1>2, <1>6, <2>2
<1> QED
  BY <1>4, <1>7, <1>8

LEMMA SinglePlain ==
  ASSUME NEW s, \A e \in ToSet(s) : e.kind \notin Results
  PROVE  Single(s)
  BY DEF Single, ToSet

LEMMA LatePlain ==
  ASSUME NEW s \in Seq(Event),
         \/ \A e \in ToSet(s) : e.kind \notin Results
         \/ \A e \in ToSet(s) : e.kind \notin Scheduling
  PROVE  Late(s)
<1> SUFFICES ASSUME NEW j \in DOMAIN s, NEW k \in DOMAIN s,
                    s[k].kind \in Results, s[j] = Cause(s[k])
             PROVE  FALSE
  BY DEF Late
<1>1. s[j] \in ToSet(s) /\ s[k] \in ToSet(s) /\ s[k] \in Event
  BY DEF ToSet
<1> QED
  BY <1>1, CauseFields

-----------------------------------------------------------------------------
(* One instance and the causes D of the results under way for it *)

(* As Seen says of the instance of an id. *)
Sees(me) == ToSet(me.history) \union ToSet(me.dispatched) \union ToSet(me.pending)

(* No result is twice among the events of me, in or out of its history. *)
Singles(h, d, p) ==
  /\ Single(h) /\ Single(d) /\ Single(p)
  /\ Disjoint(Causes(ToSet(h)), Causes(ToSet(d)))
  /\ Disjoint(Causes(ToSet(h)), Causes(ToSet(p)))
  /\ Disjoint(Causes(ToSet(d)), Causes(ToSet(p)))

(* Only the history has what schedules, and that before its results. *)
Ordered(h, d, p) ==
  /\ Late(h)
  /\ \A e \in ToSet(d) \union ToSet(p) : e.kind \notin Scheduling

(* Completion tokens grow: what me has seen and what is under way is older   *)
(* than the token of its next answer.                                        *)
Older(S, token) == \A e \in S : e.tok < token

(* What is under way has not reported, and nothing has twice. *)
Once(me, D) ==
  /\ Singles(me.history, me.dispatched, me.pending)
  /\ Ordered(me.history, me.dispatched, me.pending)
  /\ Disjoint(D, Causes(Sees(me)))
  /\ Older(Sees(me), me.token)
  /\ me.status # "NONE" => me.token > 0 /\ Older(D, me.token)

LEMMA SeesType ==
  ASSUME NEW me \in Instance
  PROVE  Sees(me) \subseteq Event
  BY InstanceFields, ToSetType DEF Sees

LEMMA SeesCauses ==
  ASSUME NEW me
  PROVE  Causes(Sees(me)) = Causes(ToSet(me.history)) \union Causes(ToSet(me.dispatched))
                              \union Causes(ToSet(me.pending))
  BY DEF Causes, Sees

LEMMA OnceLess ==
  ASSUME NEW me, NEW D, Once(me, D), NEW E, E \subseteq D
  PROVE  Once(me, E)
  BY DEF Once, Disjoint, Older

(* What is older than a token has no result under it. *)
LEMMA OlderCauses ==
  ASSUME NEW S, S \subseteq Event, NEW token \in Nat, Older(S, token)
  PROVE  Older(Causes(S), token)
<1> SUFFICES ASSUME NEW c \in Causes(S) PROVE c.tok < token
  BY DEF Older
<1>1. PICK e \in S : c.tok = e.tok
  BY CausesTokens
<1> QED
  BY <1>1 DEF Older

LEMMA StartPlain ==
  ASSUME NEW e \in {OrchestratorStarted, ExecutionStarted}
  PROVE  e.kind \notin Results /\ e.kind \notin Scheduling /\ e.tok = 0
  BY DEF OrchestratorStarted, ExecutionStarted, NewEvent, Results, Scheduling

LEMMA EmptyPlain ==
  /\ ToSet(<<>>) = {} /\ Causes({}) = {} /\ Single(<<>>) /\ Late(<<>>)
  /\ \A S : Disjoint(S, {}) /\ Disjoint({}, S)
<1>1. ToSet(<<>>) = {}
  BY ToSetEmpty
<1>2. Causes({}) = {}
  BY DEF Causes
<1>3. <<>> \in Seq(Event)
  OBVIOUS
<1> QED
  BY <1>1, <1>2, <1>3, SinglePlain, LatePlain DEF Disjoint

LEMMA OnceAbsent ==
  ASSUME NEW D
  PROVE  Once(Absent, D)
<1>1. /\ Absent.history = <<>> /\ Absent.dispatched = <<>> /\ Absent.pending = <<>>
      /\ Absent.status = "NONE"
  BY DEF Absent
<1>2. Sees(Absent) = {}
  BY <1>1, EmptyPlain DEF Sees
<1> QED
  BY <1>1, <1>2, EmptyPlain DEF Once, Singles, Ordered, Older

LEMMA OnceFresh ==
  ASSUME NEW token \in Nat, token > 0, NEW D, Older(D, token)
  PROVE  Once(Fresh(token), D)
<1> DEFINE p == <<OrchestratorStarted, ExecutionStarted>>
           me == Fresh(token)
<1>1. /\ me.history = <<>> /\ me.dispatched = <<>> /\ me.pending = p /\ me.token = token
  BY DEF Fresh
<1>2. ToSet(p) = {OrchestratorStarted, ExecutionStarted}
  BY DEF ToSet
<1> HIDE DEF p, me
<1>3. Single(p) /\ Causes(ToSet(p)) = {}
  BY <1>2, StartPlain, SinglePlain, CausesNone
<1>4. Sees(me) = ToSet(p)
  BY <1>1, EmptyPlain DEF Sees
<1>5. Singles(me.history, me.dispatched, me.pending)
  BY <1>1, <1>3, EmptyPlain DEF Singles
<1>6. Ordered(me.history, me.dispatched, me.pending)
  BY <1>1, <1>2, EmptyPlain, StartPlain DEF Ordered
<1>7. Older(Sees(me), me.token)
  BY <1>1, <1>2, <1>4, StartPlain DEF Older
<1>8. Once(me, D)
  BY <1>1, <1>3, <1>4, <1>5, <1>6, <1>7, EmptyPlain DEF Once
<1> QED
  BY <1>8 DEF me

(* An event arrives: a result that was under way and no longer is, or one   *)
(* that is no result.                                                        *)
LEMMA OncePosted ==
  ASSUME NEW me \in Instance, me.status # "NONE", NEW D, Once(me, D),
         NEW E, E \subseteq D, NEW e \in Event, e.kind \notin Scheduling,
         \/ e.kind \notin Results /\ e.tok = 0
         \/ Cause(e) \in D /\ Cause(e) \notin E,
         NEW next, next = [me EXCEPT !.pending = Append(me.pending, e)]
  PROVE  Once(next, E)
<1> DEFINE h == me.history
           d == me.dispatched
           p == me.pending
           q == Append(p, e)
           C == Causes({e})
<1>1. h \in Seq(Event) /\ d \in Seq(Event) /\ p \in Seq(Event) /\ me.token \in Nat
  BY InstanceFields
<1>2. /\ next.history = h /\ next.dispatched = d /\ next.pending = q
      /\ next.token = me.token /\ next.status = me.status
  BY <1>1 DEF Instance
<1>3. q = p \o <<e>> /\ <<e>> \in Seq(Event)
  BY <1>1
<1>4. ToSet(q) = ToSet(p) \union {e} /\ ToSet(<<e>>) = {e}
  <2>1. ToSet(<<e>>) = {e}
    BY DEF ToSet
  <2> QED
    BY <1>1, <2>1, ToSetAppend
<1>5. /\ Singles(h, d, p) /\ Ordered(h, d, p) /\ Disjoint(D, Causes(Sees(me)))
      /\ Older(Sees(me), me.token) /\ me.token > 0 /\ Older(D, me.token)
  BY DEF Once
<1>6. Sees(next) = Sees(me) \union {e}
  BY <1>2, <1>4 DEF Sees
<1>7. C = IF e.kind \in Results THEN {Cause(e)} ELSE {}
  BY DEF Causes
<1>8. /\ Causes(ToSet(q)) = Causes(ToSet(p)) \union C
      /\ Causes(Sees(next)) = Causes(Sees(me)) \union C
  BY <1>4, <1>6, CausesJoin
<1>9. Disjoint(C, Causes(Sees(me))) /\ Disjoint(E, C) /\ e.tok < me.token
  <2> HIDE DEF C
  <2>1. CASE e.kind \notin Results /\ e.tok = 0
    BY <1>5, <1>7, <2>1 DEF Disjoint
  <2>2. CASE Cause(e) \in D /\ Cause(e) \notin E
    BY <1>5, <1>7, <2>2, CauseFields DEF Disjoint, Older
  <2> QED
    BY <2>1, <2>2
<1>10. /\ Disjoint(C, Causes(ToSet(h))) /\ Disjoint(C, Causes(ToSet(d)))
       /\ Disjoint(C, Causes(ToSet(p)))
  BY <1>9, SeesCauses DEF Disjoint
<1>11. Single(q)
  <2>1. Single(<<e>>)
    BY DEF Single
  <2>2. Disjoint(Causes(ToSet(p)), Causes(ToSet(<<e>>)))
    BY <1>4, <1>10 DEF Disjoint
  <2>3. Single(p \o <<e>>)
    BY <1>1, <1>3, <1>5, <2>1, <2>2, SingleJoin DEF Singles
  <2> QED
    BY <1>3, <2>3
<1> HIDE DEF h, d, p, q, C
<1>12. Singles(h, d, q)
  BY <1>5, <1>8, <1>10, <1>11 DEF Singles, Disjoint
<1>13. Ordered(h, d, q)
  BY <1>4, <1>5 DEF Ordered
<1>14. Disjoint(E, Causes(Sees(next))) /\ Older(Sees(next), me.token) /\ Older(E, me.token)
  BY <1>5, <1>6, <1>8, <1>9 DEF Disjoint, Older
<1> QED
  BY <1>2, <1>5, <1>12, <1>13, <1>14 DEF Once

LEMMA OnceRestored ==
  ASSUME NEW me \in Instance, NEW D, Once(me, D)
  PROVE  Once(Restored(me), D)
<1> DEFINE h == me.history
           d == me.dispatched
           p == me.pending
           q == d \o p
           next == Restored(me)
<1>1. h \in Seq(Event) /\ d \in Seq(Event) /\ p \in Seq(Event) /\ me.token \in Nat
  BY InstanceFields
<1>2. /\ next.history = h /\ next.dispatched = <<>> /\ next.pending = q
      /\ next.token = me.token /\ next.status = me.status
  BY <1>1 DEF Instance, Restored
<1>3. /\ Singles(h, d, p) /\ Ordered(h, d, p) /\ Disjoint(D, Causes(Sees(me)))
      /\ Older(Sees(me), me.token) /\ (me.status # "NONE" => me.token > 0 /\ Older(D, me.token))
  BY DEF Once
<1>4. ToSet(q) = ToSet(d) \union ToSet(p)
  <2>1. Joins(d, p)
    BY <1>1, ToSetConcat
  <2> QED
    BY <2>1 DEF Joins
<1>5. Single(q)
  BY <1>1, <1>3, SingleJoin DEF Singles
<1>6. Sees(next) = Sees(me)
  BY <1>2, <1>4, EmptyPlain DEF Sees
<1>7. Causes(ToSet(q)) = Causes(ToSet(d)) \union Causes(ToSet(p))
  BY <1>4, CausesJoin
<1> HIDE DEF h, d, p, q, next
<1>8. Singles(h, <<>>, q)
  BY <1>3, <1>5, <1>7, EmptyPlain DEF Singles, Disjoint
<1>9. Ordered(h, <<>>, q)
  BY <1>3, <1>4, EmptyPlain DEF Ordered
<1>10. Once(next, D)
  BY <1>2, <1>3, <1>6, <1>8, <1>9 DEF Once
<1> QED
  BY <1>10 DEF next

(* What was dispatched before, if an answer to it was refused, is lost. *)
LEMMA OnceTaken ==
  ASSUME NEW me \in Instance, NEW D, Once(me, D), me.token > 0,
         NEW new, new = me.pending \/ new = <<OrchestratorStarted>> \o me.pending,
         NEW next, next = [me EXCEPT !.dispatched = new, !.pending = <<>>]
  PROVE  Once(next, D)
<1> DEFINE h == me.history
           d == me.dispatched
           p == me.pending
           o == <<OrchestratorStarted>>
<1>1. h \in Seq(Event) /\ d \in Seq(Event) /\ p \in Seq(Event) /\ me.token \in Nat
  BY InstanceFields
<1>2. /\ next.history = h /\ next.dispatched = new /\ next.pending = <<>>
      /\ next.token = me.token /\ next.status = me.status
  BY <1>1 DEF Instance
<1>3. /\ Singles(h, d, p) /\ Ordered(h, d, p) /\ Disjoint(D, Causes(Sees(me)))
      /\ Older(Sees(me), me.token) /\ (me.status # "NONE" => me.token > 0 /\ Older(D, me.token))
  BY DEF Once
<1>4. o \in Seq(Event) /\ ToSet(o) = {OrchestratorStarted}
  BY StartEvents DEF ToSet
<1>5. Causes(ToSet(o)) = {} /\ Single(o)
  BY <1>4, StartPlain, CausesNone, SinglePlain
<1> HIDE DEF h, d, p, o
<1>6. /\ ToSet(new) \subseteq ToSet(p) \union {OrchestratorStarted}
      /\ Causes(ToSet(new)) = Causes(ToSet(p)) /\ Single(new)
  <2>1. CASE new = p
    BY <1>3, <2>1 DEF Singles
  <2>2. CASE new = o \o p
    <3>1. ToSet(new) = ToSet(o) \union ToSet(p)
      <4>1. Joins(o, p)
        BY <1>1, <1>4, ToSetConcat
      <4> QED
        BY <2>2, <4>1 DEF Joins
    <3>2. Causes(ToSet(new)) = Causes(ToSet(p))
      BY <1>5, <3>1 DEF Causes
    <3>3. Single(new)
      BY <1>1, <1>3, <1>4, <1>5, <2>2, EmptyPlain, SingleJoin DEF Singles
    <3> QED
      BY <1>4, <3>1, <3>2, <3>3
  <2> QED
    BY <2>1, <2>2 DEF o, p
<1>7. Singles(h, new, <<>>)
  BY <1>3, <1>6, EmptyPlain DEF Singles
<1>8. Ordered(h, new, <<>>)
  BY <1>3, <1>6, EmptyPlain, StartPlain DEF Ordered
<1>9. /\ Sees(next) \subseteq Sees(me) \union {OrchestratorStarted}
      /\ Causes(Sees(next)) \subseteq Causes(Sees(me))
  <2>1. Sees(next) = ToSet(h) \union ToSet(new)
    BY <1>2, EmptyPlain DEF Sees
  <2>2. Sees(me) = ToSet(h) \union ToSet(d) \union ToSet(p)
    BY DEF Sees, h, d, p
  <2>3. Causes(Sees(next)) = Causes(ToSet(h)) \union Causes(ToSet(p))
    BY <1>6, <2>1, CausesJoin
  <2>4. Causes(ToSet(h)) \subseteq Causes(Sees(me)) /\ Causes(ToSet(p)) \subseteq Causes(Sees(me))
    BY <2>2, CausesLess
  <2> QED
    BY <1>6, <2>1, <2>2, <2>3, <2>4
<1>10. Disjoint(D, Causes(Sees(next))) /\ Older(Sees(next), me.token)
  BY <1>3, <1>9, StartPlain DEF Disjoint, Older
<1> QED
  BY <1>2, <1>3, <1>7, <1>8, <1>10 DEF Once

Refused(r) == r.sub # None /\ ~Creatable(r.sub)

(* What the refusal of a sub-orchestration is the result of. *)
Creation(token) == NewEvent("SubCreated", 0, token)

LEMMA RefusalFields ==
  ASSUME NEW token \in Nat
  PROVE  LET e == NewEvent("SubFailed", 0, token)
         IN  /\ e \in Event /\ e.kind \notin Scheduling /\ e.kind \in Results /\ e.tok = token
             /\ Cause(e) = Creation(token)
  BY DEF Creation, Cause, CauseKind, NewEvent, Event, Kinds, Results, Scheduling

(* The mailbox after an answer has the refusal at most once more. *)
LEMMA ArrivedOnce ==
  ASSUME NEW me \in Instance, NEW r, Single(me.pending), Older(ToSet(me.pending), me.token)
  PROVE  /\ Arrived(me, r) \in Seq(Event) /\ Single(Arrived(me, r))
         /\ \A e \in ToSet(Arrived(me, r)) : e \in ToSet(me.pending) \/ e.tok = me.token
         /\ \A c \in Causes(ToSet(Arrived(me, r))) :
              c \in Causes(ToSet(me.pending)) \/ (Refused(r) /\ c = Creation(me.token))
<1> DEFINE e == NewEvent("SubFailed", 0, me.token)
           p == me.pending
           q == Append(p, e)
           a == Arrived(me, r)
<1>1. p \in Seq(Event) /\ me.token \in Nat /\ ToSet(p) \subseteq Event
  BY InstanceFields, ToSetType
<1>2. e \in Event /\ e.kind \in Results /\ e.tok = me.token /\ Cause(e) = Creation(me.token)
  BY <1>1, RefusalFields
<1>3. a = p \/ (Refused(r) /\ a = q)
  BY DEF Arrived, Refused
<1> HIDE DEF e, a
<1> DEFINE Good == /\ a \in Seq(Event) /\ Single(a)
                   /\ \A x \in ToSet(a) : x \in ToSet(p) \/ x.tok = me.token
                   /\ \A c \in Causes(ToSet(a)) :
                        c \in Causes(ToSet(p)) \/ (Refused(r) /\ c = Creation(me.token))
<1>4. ASSUME a = p PROVE Good
  BY <1>1, <1>4
<1>5. ASSUME Refused(r), a = q PROVE Good
  <2>1. ToSet(q) = ToSet(p) \union {e}
    BY <1>1, <1>2, ToSetAppend
  <2>2. Causes(ToSet(q)) = Causes(ToSet(p)) \union {Creation(me.token)}
    BY <1>2, <2>1 DEF Causes
  <2>3. q = p \o <<e>> /\ <<e>> \in Seq(Event)
    BY <1>1, <1>2
  <2>4. Single(<<e>>)
    BY DEF Single
  <2>5. Disjoint(Causes(ToSet(p)), Causes(ToSet(<<e>>)))
    <3>1. ToSet(<<e>>) = {e}
      BY DEF ToSet
    <3>2. Causes(ToSet(<<e>>)) = {Creation(me.token)}
      BY <1>2, <3>1 DEF Causes
    <3>3. Creation(me.token).tok = me.token
      BY DEF Creation, NewEvent
    <3>4. Older(Causes(ToSet(p)), me.token)
      BY <1>1, OlderCauses
    <3>5. Creation(me.token) \notin Causes(ToSet(p))
      BY <1>1, <3>3, <3>4 DEF Older
    <3> QED
      BY <3>2, <3>5 DEF Disjoint
  <2>6. Single(q) /\ q \in Seq(Event)
    <3>1. Single(p \o <<e>>)
      BY <1>1, <2>3, <2>4, <2>5, SingleJoin
    <3>2. q \in Seq(Event)
      BY <1>1, <1>2
    <3> HIDE DEF q
    <3> QED
      BY <2>3, <3>1, <3>2
  <2> HIDE DEF q
  <2>7. \A x \in ToSet(q) : x \in ToSet(p) \/ x.tok = me.token
    BY <1>2, <2>1
  <2>8. \A c \in Causes(ToSet(q)) :
          c \in Causes(ToSet(p)) \/ (Refused(r) /\ c = Creation(me.token))
    BY <1>5, <2>2
  <2> QED
    BY <1>5, <2>6, <2>7, <2>8
<1>6. Good
  BY <1>3, <1>4, <1>5
<1> QED
  BY <1>6 DEF a

(* A continue-as-new carries raised events over, which are no results. *)
LEMMA ContinuedOnce ==
  ASSUME NEW evs \in Seq(Event), NEW c \in Carryovers(evs), NEW a \in Seq(Event), Single(a),
         NEW token, token > 0, Older(ToSet(evs), token)
  PROVE  LET q == (<<OrchestratorStarted, ExecutionStarted>> \o c) \o a
         IN  /\ Single(q) /\ Causes(ToSet(q)) = Causes(ToSet(a))
             /\ \A e \in ToSet(q) : e \in ToSet(a) \/ e.tok < token
<1> DEFINE s == <<OrchestratorStarted, ExecutionStarted>>
           sc == s \o c
           q == sc \o a
<1>1. s \in Seq(Event) /\ ToSet(s) = {OrchestratorStarted, ExecutionStarted}
  BY StartEvents DEF ToSet
<1>2. c \in Seq(Event)
  BY CarryoverType
<1>3. ASSUME NEW e \in ToSet(c) PROVE e.kind \notin Results /\ e.tok < token
  <2> DEFINE raised == {evs[k] : k \in {j \in DOMAIN evs : evs[j].kind = "Raised"}}
  <2>1. PICK n \in 0..Cardinality(raised) : c \in [1..n -> raised]
    BY DEF Carryovers
  <2>2. e \in raised
    BY <1>3, <2>1 DEF ToSet
  <2>3. e.kind = "Raised" /\ e \in ToSet(evs)
    BY <2>2 DEF ToSet
  <2> QED
    BY <2>3 DEF Results, Older
<1>4. \A e \in ToSet(s) : e.kind \notin Results /\ e.tok < token
  BY <1>1, StartPlain
<1> HIDE DEF s
<1>5. sc \in Seq(Event) /\ Joins(s, c)
  BY <1>1, <1>2, ToSetConcat
<1>6. \A e \in ToSet(sc) : e.kind \notin Results /\ e.tok < token
  BY <1>3, <1>4, <1>5 DEF Joins
<1> HIDE DEF sc
<1>7. Joins(sc, a)
  BY <1>5, ToSetConcat
<1>8. Single(sc) /\ Causes(ToSet(sc)) = {}
  BY <1>6, SinglePlain, CausesNone
<1>9. Single(q)
  BY <1>5, <1>8, EmptyPlain, SingleJoin
<1>10. Causes(ToSet(q)) = Causes(ToSet(a))
  BY <1>6, <1>7 DEF Joins, Causes
<1>11. \A e \in ToSet(q) : e \in ToSet(a) \/ e.tok < token
  BY <1>6, <1>7 DEF Joins
<1> QED
  BY <1>9, <1>10, <1>11 DEF s, sc

LEMMA ConfirmationFields ==
  ASSUME NEW r \in Responses, NEW token \in Nat
  PROVE  \A e \in ToSet(Confirmations(r, token)) :
           e.kind \in Scheduling /\ e.kind \notin Results /\ e.tok = token
<1> SUFFICES ASSUME NEW e \in ToSet(Confirmations(r, token))
             PROVE  e.kind \in Scheduling /\ e.kind \notin Results /\ e.tok = token
  OBVIOUS
<1>1. \E kind \in Scheduling : \E n : e = NewEvent(kind, n, token)
  BY ConfirmedKinds DEF Scheduling
<1> QED
  BY <1>1 DEF NewEvent, Scheduling, Results

(* History g is h, then the new events d and then the confirmations c. *)
GoesOnWith(g, h, d, c) ==
  /\ g \in Seq(Event) /\ Single(g) /\ Late(g)
  /\ ToSet(g) = ToSet(h) \union ToSet(d) \union ToSet(c)
  /\ Causes(ToSet(g)) = Causes(ToSet(h)) \union Causes(ToSet(d))

LEMMA HistoryOnce ==
  ASSUME NEW h \in Seq(Event), NEW d \in Seq(Event), NEW c \in Seq(Event), NEW token \in Nat,
         Late(h), Single(h), Single(d), Disjoint(Causes(ToSet(h)), Causes(ToSet(d))),
         \A e \in ToSet(d) : e.kind \notin Scheduling,
         Older(ToSet(h), token), Older(ToSet(d), token),
         \A e \in ToSet(c) : e.kind \notin Results /\ e.tok = token
  PROVE  GoesOnWith((h \o d) \o c, h, d, c)
<1> DEFINE hd == h \o d
           g == hd \o c
<1>0. ToSet(h) \subseteq Event /\ ToSet(d) \subseteq Event
  BY ToSetType
<1>1. hd \in Seq(Event) /\ Joins(h, d)
  BY ToSetConcat
<1>2. Single(hd)
  BY SingleJoin
<1>3. Late(hd)
  <2>1. Late(d)
    BY LatePlain
  <2>2. \A x \in Causes(ToSet(h)) : x.kind \in Scheduling
    BY <1>0, CausesTokens
  <2>3. Disjoint(Causes(ToSet(h)), ToSet(d))
    BY <2>2 DEF Disjoint
  <2> QED
    BY <2>1, <2>3, LateJoin
<1>4. Older(ToSet(hd), token) /\ ToSet(hd) \subseteq Event
  BY <1>0, <1>1 DEF Older, Joins
<1>5. Causes(ToSet(hd)) = Causes(ToSet(h)) \union Causes(ToSet(d))
  BY <1>1 DEF Joins, Causes
<1>6. Causes(ToSet(c)) = {} /\ Single(c) /\ Late(c)
  BY CausesNone, SinglePlain, LatePlain
<1> HIDE DEF hd
<1>7. g \in Seq(Event) /\ Joins(hd, c)
  BY <1>1, ToSetConcat
<1>8. Single(g)
  BY <1>1, <1>2, <1>6, EmptyPlain, SingleJoin
<1>9. Late(g)
  <2>1. Older(Causes(ToSet(hd)), token)
    BY <1>4, OlderCauses
  <2>2. Causes(ToSet(hd)) \subseteq Event
    BY <1>4, CausesTokens
  <2>3. Disjoint(Causes(ToSet(hd)), ToSet(c))
    BY <2>1, <2>2 DEF Disjoint, Older
  <2> QED
    BY <1>1, <1>3, <1>6, <2>3, LateJoin
<1>10. ToSet(g) = ToSet(h) \union ToSet(d) \union ToSet(c)
  BY <1>1, <1>7 DEF Joins, hd
<1>11. Causes(ToSet(g)) = Causes(ToSet(h)) \union Causes(ToSet(d))
  BY <1>5, <1>6, <1>7 DEF Joins, Causes
<1> QED
  BY <1>7, <1>8, <1>9, <1>10, <1>11 DEF GoesOnWith, hd

(* What is under way after answer r of me was so before, or was scheduled    *)
(* now and not refused.                                                      *)
Scheduled(E, D, me, r) ==
  \A c \in E : \/ c \in D
               \/ c.tok = me.token /\ ~(Refused(r) /\ c = Creation(me.token))

LEMMA OnceCommitted ==
  ASSUME NEW me \in Instance, me.status # "NONE", NEW D, D \subseteq Event, Once(me, D),
         NEW r \in Responses, NEW token \in Nat, me.token < token,
         NEW carry \in IF r.outcome = "CONTINUED"
                       THEN Carryovers(me.history \o me.dispatched) ELSE {<<>>},
         NEW E, Scheduled(E, D, me, r)
  PROVE  Once(Committed(me, r, carry, token), E)
<1> DEFINE h == me.history
           d == me.dispatched
           p == me.pending
           a == Arrived(me, r)
           conf == Confirmations(r, me.token)
           next == Committed(me, r, carry, token)
<1>1. /\ h \in Seq(Event) /\ d \in Seq(Event) /\ p \in Seq(Event) /\ me.token \in Nat
      /\ ToSet(h) \subseteq Event /\ ToSet(d) \subseteq Event /\ ToSet(p) \subseteq Event
  BY InstanceFields, ToSetType
<1>2. Settled(me, r, carry, next) /\ next.token = token
  BY CommittedFields DEF Committed
<1>3. /\ Singles(h, d, p) /\ Ordered(h, d, p) /\ Disjoint(D, Causes(Sees(me)))
      /\ Older(Sees(me), me.token) /\ me.token > 0 /\ Older(D, me.token)
  BY DEF Once
<1>4. /\ Older(ToSet(h), me.token) /\ Older(ToSet(d), me.token) /\ Older(ToSet(p), me.token)
  BY <1>3 DEF Older, Sees
<1>5. /\ a \in Seq(Event) /\ Single(a)
      /\ \A e \in ToSet(a) : e \in ToSet(p) \/ e.tok = me.token
      /\ \A c \in Causes(ToSet(a)) :
           c \in Causes(ToSet(p)) \/ (Refused(r) /\ c = Creation(me.token))
  BY <1>3, <1>4, ArrivedOnce DEF Singles
<1>6. \A e \in ToSet(a) : e.kind \notin Scheduling
  <2> DEFINE refusal == NewEvent("SubFailed", 0, me.token)
  <2>1. ToSet(a) \subseteq ToSet(p) \union {refusal}
    BY ArrivedPlain
  <2>2. refusal.kind \notin Scheduling
    BY DEF NewEvent, Scheduling
  <2> HIDE DEF refusal, a
  <2> QED
    BY <1>3, <2>1, <2>2 DEF Ordered
<1>7. /\ Older(Causes(ToSet(h)), me.token) /\ Older(Causes(ToSet(d)), me.token)
      /\ Older(Causes(ToSet(p)), me.token)
  BY <1>1, <1>4, OlderCauses
<1>8. /\ Causes(ToSet(h)) \subseteq Event /\ Causes(ToSet(d)) \subseteq Event
      /\ Causes(ToSet(p)) \subseteq Event
  BY <1>1, CausesTokens
<1>9. Creation(me.token).tok = me.token
  BY DEF Creation, NewEvent
<1>10. \A c \in Causes(ToSet(a)) : c \in Causes(ToSet(p)) \/ c.tok = me.token
  BY <1>5, <1>9
<1>11. Disjoint(Causes(ToSet(h)), Causes(ToSet(a))) /\ Disjoint(Causes(ToSet(d)), Causes(ToSet(a)))
  <2>1. /\ Disjoint(Causes(ToSet(h)), Causes(ToSet(p)))
        /\ Disjoint(Causes(ToSet(d)), Causes(ToSet(p)))
    BY <1>3 DEF Singles
  <2> HIDE DEF h, d, p, a
  <2> QED
    BY <1>1, <1>7, <1>8, <1>10, <2>1 DEF Disjoint, Older
<1>12. Disjoint(E, Causes(ToSet(h)) \union Causes(ToSet(d)) \union Causes(ToSet(a)))
  <2> SUFFICES ASSUME NEW c \in E,
                      c \in Causes(ToSet(h)) \union Causes(ToSet(d)) \union Causes(ToSet(a))
               PROVE  FALSE
    BY DEF Disjoint
  <2>1. \/ c \in D
        \/ c.tok = me.token /\ ~(Refused(r) /\ c = Creation(me.token))
    BY DEF Scheduled
  <2>2. \/ c \in Causes(Sees(me)) /\ c.tok < me.token
        \/ Refused(r) /\ c = Creation(me.token)
    <3>1. Causes(Sees(me)) = Causes(ToSet(h)) \union Causes(ToSet(d)) \union Causes(ToSet(p))
      BY SeesCauses
    <3> HIDE DEF h, d, p, a
    <3> QED
      BY <1>5, <1>7, <3>1 DEF Older
  <2>3. CASE c \in Causes(Sees(me)) /\ c.tok < me.token
    BY <1>1, <1>3, <2>1, <2>3 DEF Disjoint
  <2>4. CASE Refused(r) /\ c = Creation(me.token)
    <3>1. c.tok = me.token /\ c \in D
      BY <1>9, <2>1, <2>4
    <3> QED
      BY <1>1, <1>3, <3>1 DEF Older
  <2> QED
    BY <2>2, <2>3, <2>4
<1>13. Older(E, token)
  <2> SUFFICES ASSUME NEW c \in E PROVE c.tok < token
    BY DEF Older
  <2>1. c \in D \/ c.tok = me.token
    BY DEF Scheduled
  <2>2. c \in D => c.tok \in Nat /\ c.tok < me.token
    BY <1>3 DEF Older, Event
  <2> QED
    BY <1>1, <2>1, <2>2
<1>14. \A e \in ToSet(a) : e.tok < token
  <2> SUFFICES ASSUME NEW e \in ToSet(a) PROVE e.tok < token
    OBVIOUS
  <2>1. e \in ToSet(p) \/ e.tok = me.token
    BY <1>5
  <2>2. e \in ToSet(p) => e.tok \in Nat /\ e.tok < me.token
    BY <1>1, <1>4 DEF Older, Event
  <2> QED
    BY <1>1, <2>1, <2>2
<1>15. token > 0
  BY <1>1
<1>16. CASE r.outcome = "CONTINUED"
  <2> DEFINE q == (<<OrchestratorStarted, ExecutionStarted>> \o carry) \o a
             hd == h \o d
  <2>1. next.history = <<>> /\ next.dispatched = <<>> /\ next.pending = q
    BY <1>2, <1>16 DEF Settled
  <2>2. hd \in Seq(Event) /\ Joins(h, d) /\ carry \in Carryovers(hd)
    BY <1>1, <1>16, ToSetConcat
  <2> HIDE DEF a
  <2>3. Older(ToSet(hd), me.token)
    BY <1>4, <2>2 DEF Joins, Older
  <2> HIDE DEF hd
  <2>4. /\ Single(q) /\ Causes(ToSet(q)) = Causes(ToSet(a))
        /\ \A e \in ToSet(q) : e \in ToSet(a) \/ e.tok < me.token
    BY <1>3, <1>5, <2>2, <2>3, ContinuedOnce
  <2>5. \A e \in ToSet(q) : e.kind \notin Scheduling
    BY <1>5, <1>6, <2>2, ContinuedPlain
  <2>6. q \in Seq(Event)
    <3>1. carry \in Seq(Event)
      BY <2>2, CarryoverType
    <3> QED
      BY <1>5, <3>1, StartEvents, ConcatProperties
  <2>7. ToSet(q) \subseteq Event
    BY <2>6, ToSetType
  <2> HIDE DEF q, next, h, d, p
  <2>8. Sees(next) = ToSet(q)
    BY <2>1, EmptyPlain DEF Sees
  <2>9. Singles(<<>>, <<>>, q) /\ Ordered(<<>>, <<>>, q)
    BY <2>4, <2>5, EmptyPlain DEF Singles, Ordered
  <2>10. Older(ToSet(q), token)
    BY <1>1, <1>14, <2>4, <2>7 DEF Older, Event
  <2>11. Disjoint(E, Causes(ToSet(q)))
    BY <1>12, <2>4 DEF Disjoint
  <2>12. Once(next, E)
    BY <1>2, <1>13, <1>15, <2>1, <2>8, <2>9, <2>10, <2>11 DEF Once
  <2> QED
    BY <2>12 DEF next
<1>17. CASE r.outcome # "CONTINUED"
  <2> DEFINE g == (h \o d) \o conf
  <2>1. next.history = g /\ next.dispatched = <<>> /\ next.pending = a
    BY <1>2, <1>17 DEF Settled
  <2>2. conf \in Seq(Event) /\ \A e \in ToSet(conf) : e.kind \notin Results /\ e.tok = me.token
    BY <1>1, ConfirmationsType, ConfirmationFields
  <2> HIDE DEF a, conf, next
  <2> HIDE DEF h, d, p
  <2>a. GoesOnWith(g, h, d, conf)
    <3>1. /\ Single(h) /\ Single(d) /\ Disjoint(Causes(ToSet(h)), Causes(ToSet(d)))
          /\ Late(h) /\ \A e \in ToSet(d) : e.kind \notin Scheduling
      BY <1>3 DEF Singles, Ordered
    <3> QED
      BY <1>1, <1>4, <2>2, <3>1, HistoryOnce
  <2> HIDE DEF g
  <2>3. /\ g \in Seq(Event) /\ Single(g) /\ Late(g)
        /\ ToSet(g) = ToSet(h) \union ToSet(d) \union ToSet(conf)
        /\ Causes(ToSet(g)) = Causes(ToSet(h)) \union Causes(ToSet(d))
    BY <2>a DEF GoesOnWith
  <2>4. Sees(next) = ToSet(g) \union ToSet(a)
    BY <2>1, EmptyPlain DEF Sees
  <2>5. Causes(Sees(next)) = Causes(ToSet(g)) \union Causes(ToSet(a))
    BY <2>4 DEF Causes
  <2>6. Disjoint(Causes(ToSet(g)), Causes(ToSet(a)))
    BY <1>11, <2>3 DEF Disjoint
  <2>7. Singles(g, <<>>, a) /\ Ordered(g, <<>>, a)
    BY <1>5, <1>6, <2>3, <2>6, EmptyPlain DEF Singles, Ordered
  <2>8. Disjoint(E, Causes(Sees(next)))
    BY <1>12, <2>3, <2>5 DEF Disjoint
  <2>9. Older(Sees(next), token)
    <3> SUFFICES ASSUME NEW e \in Sees(next) PROVE e.tok < token
      BY DEF Older
    <3>1. e \in ToSet(h) \union ToSet(d) \/ e \in ToSet(conf) \/ e \in ToSet(a)
      BY <2>3, <2>4
    <3>2. e \in ToSet(h) \union ToSet(d) => e.tok \in Nat /\ e.tok < me.token
      BY <1>1, <1>4 DEF Older, Event
    <3> QED
      BY <1>1, <1>14, <2>2, <3>1, <3>2
  <2>10. Once(next, E)
    BY <1>2, <1>13, <1>15, <2>1, <2>7, <2>8, <2>9 DEF Once
  <2> QED
    BY <2>10 DEF next
<1> QED
  BY <1>16, <1>17

-----------------------------------------------------------------------------
(* All instances and what is under way *)

(* What the activities T, the timers M and the watchers W that are under way *)
(* will report to i.                                                         *)
DueFor(i, T, M, W) ==
  {c \in Event : \/ c.kind = "TaskScheduled" /\ Mark(i, c) \in T
                 \/ c.kind = "TimerCreated" /\ Mark(i, c) \in M
                 \/ c.kind = "SubCreated" /\ Mark(i, c) \in W}

Due(i) == DueFor(i, TaskMarks, timers, WatchMarks)

OnceInv == \A i \in Ids : Once(inst[i], Due(i))

(* Everything under way is so under a token that was given out. *)
Recent == \A a \in TaskMarks \union timers \union WatchMarks : a.tok < nextToken

Fewer ==
  TaskMarks' \subseteq TaskMarks /\ timers' \subseteq timers /\ WatchMarks' \subseteq WatchMarks

LEMMA FewerDue ==
  ASSUME Fewer, NEW i \in Ids
  PROVE  Due(i)' \subseteq Due(i)
  BY DEF Fewer, Due, DueFor

LEMMA DueType ==
  ASSUME NEW i \in Ids
  PROVE  Due(i) \subseteq Event
  BY DEF Due, DueFor

LEMMA DueRecent ==
  ASSUME Recent, NEW i \in Ids
  PROVE  Older(Due(i), nextToken)
<1> SUFFICES ASSUME NEW c \in Due(i) PROVE c.tok < nextToken
  BY DEF Older
<1>1. Mark(i, c) \in TaskMarks \union timers \union WatchMarks
  BY DEF Due, DueFor
<1>2. Mark(i, c).tok = c.tok
  BY DEF Mark
<1> QED
  BY <1>1, <1>2 DEF Recent

(* What most steps do to an instance. *)
Ordinary(i) ==
  \/ inst'[i] = inst[i]
  \/ inst'[i] = Absent
  \/ inst'[i] = Fresh(nextToken)
  \/ inst'[i] = Restored(inst[i])
  \/ \E new : /\ new = inst[i].pending \/ new = <<OrchestratorStarted>> \o inst[i].pending
              /\ inst[i].token > 0
              /\ inst'[i] = [inst[i] EXCEPT !.dispatched = new, !.pending = <<>>]
  \/ \E e \in Event : /\ Exists(i) /\ e.kind \notin Scheduling /\ e.kind \notin Results /\ e.tok = 0
                      /\ inst'[i] = [inst[i] EXCEPT !.pending = Append(inst[i].pending, e)]

LEMMA OrdinaryOnce ==
  ASSUME Core, Rest, Tokens, Recent, OnceInv, NEW i \in Ids, Ordinary(i), Due(i)' \subseteq Due(i)
  PROVE  Once(inst'[i], Due(i)')
<1> DEFINE me == inst[i]
           D == Due(i)
           E == Due(i)'
<1>1. Once(me, D) /\ me \in Instance /\ nextToken \in Nat /\ nextToken > 0
  BY DEF OnceInv, Core, Rest, Tokens
<1>2. Once(me, E)
  BY <1>1, OnceLess
<1>3. Older(E, nextToken)
  BY DueRecent DEF Older
<1> HIDE DEF E, D
<1>4. CASE inst'[i] = inst[i]
  BY <1>2, <1>4 DEF E
<1>5. CASE inst'[i] = Absent
  BY <1>5, OnceAbsent
<1>6. CASE inst'[i] = Fresh(nextToken)
  BY <1>1, <1>3, <1>6, OnceFresh DEF E
<1>7. CASE inst'[i] = Restored(inst[i])
  BY <1>1, <1>2, <1>7, OnceRestored DEF E
<1>8. ASSUME NEW new, new = me.pending \/ new = <<OrchestratorStarted>> \o me.pending,
             me.token > 0, inst'[i] = [me EXCEPT !.dispatched = new, !.pending = <<>>]
      PROVE  Once(inst'[i], E)
  BY <1>1, <1>2, <1>8, OnceTaken
<1>9. ASSUME NEW e \in Event, Exists(i), e.kind \notin Scheduling, e.kind \notin Results,
             e.tok = 0, inst'[i] = [me EXCEPT !.pending = Append(me.pending, e)]
      PROVE  Once(inst'[i], E)
  BY <1>1, <1>2, <1>9, OncePosted DEF Exists
<1> QED
  BY <1>4, <1>5, <1>6, <1>7, <1>8, <1>9 DEF Ordinary, E

-----------------------------------------------------------------------------
(* Ordinary steps *)

AllOrdinary == Fewer /\ \A i \in Ids : Ordinary(i)

LEMMA TakenFewer ==
  ASSUME Rest, TakeActivity
  PROVE  TaskMarks' \subseteq TaskMarks
<1>1. CASE activityQueue = <<>>
  BY <1>1 DEF TakeActivity, TaskMarks
<1>2. CASE activityQueue # <<>>
  <2>1. /\ activityQueue' = Tail(activityQueue)
        /\ running' = running \union {Head(activityQueue)}
    BY <1>2 DEF TakeActivity
  <2>2. ToSet(Tail(activityQueue)) \subseteq ToSet(activityQueue)
        /\ Head(activityQueue) \in ToSet(activityQueue)
    <3>1. /\ activityQueue \in Seq(Activity) /\ Len(activityQueue) \in Nat
          /\ Len(activityQueue) >= 1
          /\ DOMAIN Tail(activityQueue) = 1..(Len(activityQueue) - 1)
          /\ DOMAIN activityQueue = 1..Len(activityQueue)
          /\ Head(activityQueue) = activityQueue[1]
          /\ \A k \in 1..(Len(activityQueue) - 1) : Tail(activityQueue)[k] = activityQueue[k + 1]
      BY <1>2 DEF Rest
    <3>2. \A k \in 1..(Len(activityQueue) - 1) : k + 1 \in 1..Len(activityQueue)
      BY <3>1
    <3>3. 1 \in 1..Len(activityQueue)
      BY <3>1
    <3> QED
      BY <3>1, <3>2, <3>3 DEF ToSet
  <2> QED
    BY <2>1, <2>2 DEF TaskMarks
<1> QED
  BY <1>1, <1>2

LEMMA DropFewer ==
  ASSUME NEW S, Rest, DropWaiters(S)
  PROVE  WatchMarks' \subseteq WatchMarks
<1> SUFFICES ASSUME NEW v \in watchers' PROVE Mark(v.parent, v) \in WatchMarks
  BY DEF WatchMarks
<1>1. PICK w \in watchers : v = IF w.sub \in S /\ w.phase = "waiting"
                                THEN [w EXCEPT !.phase = "orphaned"] ELSE w
  BY DEF DropWaiters
<1>2. v.parent = w.parent /\ v.id = w.id /\ v.tok = w.tok
  BY <1>1 DEF Rest, Watcher
<1>3. Mark(v.parent, v) = Mark(w.parent, w)
  BY <1>2 DEF Mark
<1> QED
  BY <1>3 DEF WatchMarks

LEMMA StartFewer ==
  ASSUME NEW w \in watchers, Rest, StartWatching(w)
  PROVE  WatchMarks' \subseteq WatchMarks
<1> DEFINE v == [w EXCEPT !.phase = IF IsTerminal(w.sub) THEN Ended(inst[w.sub].status)
                                    ELSE "waiting"]
<1>1. watchers' = (watchers \ {w}) \union {v}
  BY DEF StartWatching
<1>2. v.parent = w.parent /\ v.id = w.id /\ v.tok = w.tok
  BY DEF Rest, Watcher
<1> HIDE DEF v
<1>3. Mark(v.parent, v) = Mark(w.parent, w)
  BY <1>2 DEF Mark
<1> QED
  BY <1>1, <1>3 DEF WatchMarks

LEMMA SameFewer ==
  ASSUME running' \subseteq running, activityQueue' = activityQueue, timers' \subseteq timers,
         watchers' \subseteq watchers
  PROVE  Fewer
  BY DEF Fewer, TaskMarks, WatchMarks

LEMMA PostOrdinary ==
  ASSUME Core, NEW i \in Ids, NEW e \in Event, e.kind \notin Scheduling, e.kind \notin Results,
         e.tok = 0, Exists(i), Post(i, e), NEW j \in Ids
  PROVE  Ordinary(j)
<1>1. /\ inst'[i] = [inst[i] EXCEPT !.pending = Append(inst[i].pending, e)]
      /\ \A k \in Ids : k # i => inst'[k] = inst[k]
  BY DEF Post, Core
<1> QED
  BY <1>1 DEF Ordinary

LEMMA CreateOrdinary ==
  ASSUME Core, NEW i \in Ids, inst' = [inst EXCEPT ![i] = Fresh(nextToken)], NEW j \in Ids
  PROVE  Ordinary(j)
<1>1. inst'[i] = Fresh(nextToken) /\ \A k \in Ids : k # i => inst'[k] = inst[k]
  BY DEF Core
<1> QED
  BY <1>1 DEF Ordinary

LEMMA RequestOrdinary ==
  ASSUME Core, Rest, Request
  PROVE  AllOrdinary
<1> USE DEF WorkerSide
<1>1. \A n \in Nat : \A kind \in {"Raised", "Terminated", "Suspended", "Resumed"} :
        /\ NewEvent(kind, n, 0) \in Event /\ NewEvent(kind, n, 0).kind \notin Scheduling
        /\ NewEvent(kind, n, 0).kind \notin Results /\ NewEvent(kind, n, 0).tok = 0
  BY DEF NewEvent, Event, Kinds, Scheduling, Results
<1>2. calls + 1 \in Nat
  BY DEF Rest
<1>3. ASSUME NEW i \in Ids, RaiseEvent(i) \/ TerminateInstance(i) \/ SuspendInstance(i)
                            \/ ResumeInstance(i)
      PROVE  AllOrdinary
  <2>1. PICK kind \in {"Raised", "Terminated", "Suspended", "Resumed"} :
          Exists(i) /\ Post(i, NewEvent(kind, calls + 1, 0))
    BY <1>3 DEF RaiseEvent, TerminateInstance, SuspendInstance, ResumeInstance
  <2>2. Fewer
    BY <1>3, SameFewer DEF RaiseEvent, TerminateInstance, SuspendInstance, ResumeInstance
  <2> QED
    BY <1>1, <1>2, <2>1, <2>2, PostOrdinary DEF AllOrdinary
<1>4. ASSUME NEW i \in Ids, StartInstance(i) PROVE AllOrdinary
  <2>1. Fewer
    BY <1>4, SameFewer DEF StartInstance
  <2> QED
    BY <1>4, <2>1, CreateOrdinary DEF StartInstance, AllOrdinary
<1>5. ASSUME NEW i \in Ids, NEW j \in Ids, RestartInstance(i, j) PROVE AllOrdinary
  <2>1. WatchMarks' \subseteq WatchMarks
    BY <1>5, DropFewer DEF RestartInstance, WatchMarks
  <2>2. Fewer
    BY <1>5, <2>1 DEF RestartInstance, Fewer, TaskMarks
  <2> QED
    BY <1>5, <2>2, CreateOrdinary DEF RestartInstance, AllOrdinary
<1>6. ASSUME NEW S, PurgeInstances(S) PROVE AllOrdinary
  <2>1. Fewer
    BY <1>6, DropFewer DEF PurgeInstances, Fewer, TaskMarks
  <2>2. \A j \in Ids : inst'[j] = Absent \/ inst'[j] = inst[j]
    BY <1>6 DEF PurgeInstances
  <2> QED
    BY <2>1, <2>2 DEF AllOrdinary, Ordinary
<1>7. CASE Reset
  <2>1. Fewer
    BY <1>7, ToSetEmpty DEF Reset, Fewer, TaskMarks, WatchMarks
  <2> QED
    BY <1>7, <2>1 DEF Reset, AllOrdinary, Ordinary
<1> QED
  BY <1>3, <1>4, <1>5, <1>6, <1>7 DEF Request

LEMMA GetWorkItemsOrdinary ==
  ASSUME Core, Rest, OnceInv, GetWorkItems
  PROVE  AllOrdinary
<1>1. CASE DispatchOrchestration
  <2>0. PICK i \in Ids : \E new, item : Dispatches(i, new, item)
    BY <1>1, DispatchedInstance
  <2>1. PICK new, item : Dispatches(i, new, item)
    BY <2>0
  <2>2. /\ inst'[i] = [inst[i] EXCEPT !.dispatched = new, !.pending = <<>>]
        /\ new = inst[i].pending \/ new = <<OrchestratorStarted>> \o inst[i].pending
        /\ inst[i].pending # <<>>
        /\ \A j \in Ids : j # i => inst'[j] = inst[j]
    BY <2>1 DEF Dispatches, Core
  <2>3. inst[i].token > 0
    <3>1. inst[i].pending \in Seq(Event) /\ inst[i].token \in Nat
      BY InstanceFields DEF Core
    <3>2. inst[i].pending[1] \in ToSet(inst[i].pending) /\ inst[i].pending[1] \in Event
      BY <2>2, <3>1 DEF ToSet
    <3>3. inst[i].pending[1].tok < inst[i].token
      BY <3>2 DEF OnceInv, Once, Older, Sees
    <3> QED
      BY <3>1, <3>2, <3>3 DEF Event
  <2>4. Fewer
    BY <1>1, SameFewer DEF DispatchOrchestration
  <2> QED
    BY <2>2, <2>3, <2>4 DEF AllOrdinary, Ordinary
<1>2. CASE RequeueInFlight \/ NoOrchestrationReady
  <2>1. Fewer
    BY <1>2, TakenFewer DEF RequeueInFlight, NoOrchestrationReady, Fewer, WatchMarks
  <2> QED
    BY <1>2, <2>1 DEF RequeueInFlight, NoOrchestrationReady, AllOrdinary, Ordinary
<1> QED
  BY <1>1, <1>2 DEF GetWorkItems

LEMMA AbandonOrdinary ==
  ASSUME Core, NEW i \in Ids, NEW token, Abandon(i, token), NEW j \in Ids
  PROVE  Ordinary(j)
<1>1. CASE inst' = [inst EXCEPT ![i] = Restored(inst[i])]
  <2>1. inst'[i] = Restored(inst[i]) /\ \A k \in Ids : k # i => inst'[k] = inst[k]
    BY <1>1 DEF Core
  <2> QED
    BY <2>1 DEF Ordinary
<1> QED
  BY <1>1 DEF Abandon, Ordinary

LEMMA WorkerOrdinary ==
  ASSUME Core, Rest, Worker, ~\E i \in Ids : CompleteOrchestratorTask(i),
         ~\E a \in running : CompleteActivityTask(a)
  PROVE  AllOrdinary
<1>1. running' \subseteq running /\ UNCHANGED <<activityQueue, timers, watchers>>
  BY DEF Worker, IgnoredAnswer, Answer, AbandonTaskOrchestratorWorkItem, LoseAnswer,
         AbandonAgain, AbandonTaskActivityWorkItem, WorkerCrash
<1>2. Fewer
  BY <1>1, SameFewer
<1>3. ASSUME inst' = inst PROVE AllOrdinary
  BY <1>2, <1>3 DEF AllOrdinary, Ordinary
<1>4. ASSUME NEW i \in Ids, NEW token, Abandon(i, token) PROVE AllOrdinary
  BY <1>2, <1>4, AbandonOrdinary DEF AllOrdinary
<1>5. CASE AbandonAgain
  BY <1>4, <1>5 DEF AbandonAgain, Rest
<1> QED
  BY <1>3, <1>4, <1>5 DEF Worker, IgnoredAnswer, AbandonTaskOrchestratorWorkItem, LoseAnswer,
       AbandonTaskActivityWorkItem, WorkerCrash

LEMMA BackgroundOrdinary ==
  ASSUME Core, Rest, Background, ~\E t \in timers : FireTimer(t),
         ~\E w \in watchers : ReportSubOrchestration(w)
  PROVE  AllOrdinary
<1>1. inst' = inst /\ UNCHANGED <<running, activityQueue, timers>>
  BY DEF Background, StartWatching, WatcherTimeout
<1>2. WatchMarks' \subseteq WatchMarks
  BY StartFewer DEF Background, WatcherTimeout, WatchMarks
<1> QED
  BY <1>1, <1>2 DEF AllOrdinary, Ordinary, Fewer, TaskMarks

-----------------------------------------------------------------------------
(* Steps that report a result *)

LEMMA ResultOnce ==
  ASSUME Core, Rest, Tokens, Recent, OnceInv, Fewer, NEW i \in Ids, NEW e \in Event,
         e.kind \notin Scheduling, Cause(e) \in Due(i), Cause(e) \notin Due(i)',
         (Exists(i) /\ Post(i, e)) \/ inst' = inst
  PROVE  OnceInv'
<1>1. CASE inst' = inst
  <2>1. \A j \in Ids : Ordinary(j)
    BY <1>1 DEF Ordinary
  <2> QED
    BY <2>1, FewerDue, OrdinaryOnce DEF OnceInv
<1>2. CASE Exists(i) /\ Post(i, e)
  <2>1. /\ inst'[i] = [inst[i] EXCEPT !.pending = Append(inst[i].pending, e)]
        /\ \A j \in Ids : j # i => inst'[j] = inst[j]
    BY <1>2 DEF Post, Core
  <2>2. Once(inst'[i], Due(i)')
    <3>1. inst[i] \in Instance /\ Once(inst[i], Due(i)) /\ inst[i].status # "NONE"
      BY <1>2 DEF Core, OnceInv, Exists
    <3>2. Due(i)' \subseteq Due(i)
      BY FewerDue
    <3> DEFINE D == Due(i)
               E == Due(i)'
               next == inst'[i]
    <3> HIDE DEF D, E, next
    <3>3. Once(next, E)
      <4>1. /\ Once(inst[i], D) /\ E \subseteq D /\ Cause(e) \in D /\ Cause(e) \notin E
            /\ next = [inst[i] EXCEPT !.pending = Append(inst[i].pending, e)]
        BY <2>1, <3>1, <3>2 DEF D, E, next
      <4> QED
        BY <3>1, <4>1, OncePosted
    <3> QED
      BY <3>3 DEF E, next
  <2>3. ASSUME NEW j \in Ids, j # i PROVE Once(inst'[j], Due(j)')
    <3>1. Ordinary(j)
      BY <2>1, <2>3 DEF Ordinary
    <3> QED
      BY <3>1, FewerDue, OrdinaryOnce
  <2> QED
    BY <2>2, <2>3 DEF OnceInv
<1> QED
  BY <1>1, <1>2

(* No activity is under way twice, and no sub-orchestration watched twice. *)
TasksApart == IsInjective(activityQueue) /\ Disjoint(running, ToSet(activityQueue))

WatchersApart ==
  \A v, w \in watchers : Mark(v.parent, v) = Mark(w.parent, w) => v = w

LEMMA ActivityOnce ==
  ASSUME Core, Rest, Tokens, Recent, OnceInv, TasksApart, NEW a \in running,
         CompleteActivityTask(a)
  PROVE  Fewer /\ OnceInv'
<1> DEFINE e == NewEvent("TaskDone", a.id, a.tok)
           c == NewEvent("TaskScheduled", a.id, a.tok)
<1>1. a.inst \in Ids /\ a.id \in Nat /\ a.tok \in Nat
      /\ a = [inst |-> a.inst, id |-> a.id, tok |-> a.tok]
  BY DEF Rest, Activity
<1>2. e \in Event /\ e.kind \notin Scheduling /\ Cause(e) = c /\ c \in Event
  BY <1>1 DEF NewEvent, Event, Kinds, Scheduling, Cause, CauseKind
<1>3. Mark(a.inst, c) = a /\ c.kind = "TaskScheduled"
  BY <1>1 DEF Mark, NewEvent
<1>4. Fewer
  BY SameFewer DEF CompleteActivityTask
<1>5. a \in TaskMarks /\ a \notin TaskMarks'
  BY DEF CompleteActivityTask, TaskMarks, TasksApart, Disjoint
<1>6. (Exists(a.inst) /\ Post(a.inst, e)) \/ inst' = inst
  BY DEF CompleteActivityTask
<1> HIDE DEF e, c
<1>7. c \in Due(a.inst) /\ c \notin Due(a.inst)'
  BY <1>2, <1>3, <1>5 DEF Due, DueFor
<1> QED
  BY <1>1, <1>2, <1>4, <1>6, <1>7, ResultOnce

LEMMA TimerOnce ==
  ASSUME Core, Rest, Tokens, Recent, OnceInv, NEW t \in timers, FireTimer(t)
  PROVE  Fewer /\ OnceInv'
<1> DEFINE e == NewEvent("TimerFired", t.id, t.tok)
           c == NewEvent("TimerCreated", t.id, t.tok)
<1>1. t.inst \in Ids /\ t.id \in Nat /\ t.tok \in Nat
      /\ t = [inst |-> t.inst, id |-> t.id, tok |-> t.tok]
  BY DEF Rest, Activity
<1>2. e \in Event /\ e.kind \notin Scheduling /\ Cause(e) = c /\ c \in Event
  BY <1>1 DEF NewEvent, Event, Kinds, Scheduling, Cause, CauseKind
<1>3. Mark(t.inst, c) = t /\ c.kind = "TimerCreated"
  BY <1>1 DEF Mark, NewEvent
<1>4. Fewer
  BY SameFewer DEF FireTimer
<1>5. t \notin timers'
  BY DEF FireTimer
<1>6. (Exists(t.inst) /\ Post(t.inst, e)) \/ inst' = inst
  BY DEF FireTimer, Receives
<1> HIDE DEF e, c
<1>7. c \in Due(t.inst) /\ c \notin Due(t.inst)'
  BY <1>2, <1>3, <1>5 DEF Due, DueFor
<1> QED
  BY <1>1, <1>2, <1>4, <1>6, <1>7, ResultOnce

LEMMA ReportOnce ==
  ASSUME Core, Rest, Tokens, Recent, OnceInv, WatchersApart, NEW w \in watchers,
         ReportSubOrchestration(w)
  PROVE  Fewer /\ OnceInv'
<1> DEFINE c == NewEvent("SubCreated", w.id, w.tok)
<1>1. w.parent \in Ids /\ w.id \in Nat /\ w.tok \in Nat
  BY DEF Rest, Watcher
<1>2. PICK kind \in {"SubCompleted", "SubFailed"} :
        (Exists(w.parent) /\ Post(w.parent, NewEvent(kind, w.id, w.tok))) \/ inst' = inst
  BY DEF ReportSubOrchestration, Receives
<1> DEFINE e == NewEvent(kind, w.id, w.tok)
<1>3. e \in Event /\ e.kind \notin Scheduling /\ Cause(e) = c /\ c \in Event
  BY <1>1 DEF NewEvent, Event, Kinds, Scheduling, Cause, CauseKind
<1>4. Mark(w.parent, c) = Mark(w.parent, w) /\ c.kind = "SubCreated"
  BY DEF Mark, NewEvent
<1>5. Fewer
  BY SameFewer DEF ReportSubOrchestration
<1>6. Mark(w.parent, w) \in WatchMarks /\ Mark(w.parent, w) \notin WatchMarks'
  BY DEF ReportSubOrchestration, WatchMarks, WatchersApart
<1>7. (Exists(w.parent) /\ Post(w.parent, e)) \/ inst' = inst
  BY <1>2
<1> HIDE DEF e, c
<1>8. c \in Due(w.parent) /\ c \notin Due(w.parent)'
  BY <1>3, <1>4, <1>6 DEF Due, DueFor
<1> QED
  BY <1>1, <1>3, <1>5, <1>7, <1>8, ResultOnce

-----------------------------------------------------------------------------
(* An accepted answer *)

(* What i schedules by its next answer, under numbers S. *)
Begun(i, S) == {[inst |-> i, id |-> n, tok |-> inst[i].token] : n \in S}

Own(i) == Begun(i, Nat)

(* Answer r adds to what is under way the activities, the timers and the     *)
(* sub-orchestration that it names, if that is not refused.                  *)
Adds(i, r) ==
  /\ TaskMarks' \subseteq TaskMarks \union Begun(i, ToSet(r.tasks))
  /\ timers' \subseteq timers \union Begun(i, ToSet(r.wakes))
  /\ WatchMarks' \subseteq
       WatchMarks \union IF r.sub = None \/ Refused(r) THEN {} ELSE Begun(i, {0})

LEMMA AcceptAdds ==
  ASSUME Core, Rest, NEW i \in Ids, NEW r \in Responses, NEW carry, Accept(i, r, carry),
         running' = running
  PROVE  Adds(i, r)
<1> DEFINE new == [k \in 1..Len(r.tasks) |->
                     [inst |-> i, id |-> r.tasks[k], tok |-> inst[i].token]]
           created == r.sub # None /\ Creatable(r.sub)
           watcher == [parent |-> i, sub |-> r.sub, id |-> 0, tok |-> inst[i].token,
                       phase |-> "starting"]
<1>1. /\ r.tasks \in Seq(Nat) /\ r.wakes \in Seq(Nat) /\ inst[i].token \in Nat
      /\ DOMAIN r.tasks = 1..Len(r.tasks) /\ DOMAIN r.wakes = 1..Len(r.wakes)
      /\ Len(r.wakes) \in Nat
  BY ResponseFields, InstanceFields DEF Core
<1>2. TaskMarks' \subseteq TaskMarks \union Begun(i, ToSet(r.tasks))
  <2>1. activityQueue' = activityQueue \o new
    BY DEF Accept
  <2>2. activityQueue \in Seq(Activity) /\ new \in Seq(Activity)
    BY <1>1 DEF Rest, Activity
  <2>3. ToSet(new) \subseteq Begun(i, ToSet(r.tasks))
    <3>1. DOMAIN new = 1..Len(r.tasks) /\ \A k \in DOMAIN r.tasks : r.tasks[k] \in ToSet(r.tasks)
      BY DEF ToSet
    <3>2. \A k \in DOMAIN new : new[k] \in Begun(i, ToSet(r.tasks))
      BY <1>1, <3>1 DEF Begun
    <3> HIDE DEF new
    <3> QED
      BY <3>2 DEF ToSet
  <2> HIDE DEF new
  <2>4. Joins(activityQueue, new)
    BY <2>2, ToSetConcat
  <2> QED
    BY <2>1, <2>3, <2>4 DEF TaskMarks, Joins
<1>3. timers' \subseteq timers \union Begun(i, ToSet(r.wakes))
  <2>1. timers' \subseteq timers \union
          {[inst |-> i, id |-> r.wakes[k], tok |-> inst[i].token] : k \in 1..Len(r.wakes)}
    BY <1>1 DEF Accept
  <2>2. \A k \in 1..Len(r.wakes) : r.wakes[k] \in ToSet(r.wakes)
    BY <1>1 DEF ToSet
  <2> QED
    BY <2>1, <2>2 DEF Begun
<1>4. WatchMarks' \subseteq
        WatchMarks \union IF r.sub = None \/ Refused(r) THEN {} ELSE Begun(i, {0})
  <2>1. PICK status : watchers' = Notified(watchers, i, status)
                                    \union IF created THEN {watcher} ELSE {}
    BY DEF Accept
  <2>2. created => ~(r.sub = None \/ Refused(r))
    BY DEF Refused
  <2>3. Mark(watcher.parent, watcher) \in Begun(i, {0})
    BY DEF Mark, Begun
  <2> HIDE DEF created, watcher
  <2>4. ASSUME NEW v \in Notified(watchers, i, status) PROVE Mark(v.parent, v) \in WatchMarks
    <3>1. PICK w \in watchers : v = IF w.sub = i /\ w.phase = "waiting" /\ status \in Terminal
                                    THEN [w EXCEPT !.phase = Ended(status)] ELSE w
      BY <2>4 DEF Notified
    <3>2. v.parent = w.parent /\ v.id = w.id /\ v.tok = w.tok
      BY <3>1 DEF Rest, Watcher
    <3>3. Mark(v.parent, v) = Mark(w.parent, w)
      BY <3>2 DEF Mark
    <3> QED
      BY <3>3 DEF WatchMarks
  <2> SUFFICES ASSUME NEW v \in watchers'
               PROVE  Mark(v.parent, v) \in
                        WatchMarks \union IF r.sub = None \/ Refused(r) THEN {} ELSE Begun(i, {0})
    BY DEF WatchMarks
  <2>5. v \in Notified(watchers, i, status) \/ (created /\ v = watcher)
    BY <2>1
  <2> QED
    BY <2>2, <2>3, <2>4, <2>5
<1> QED
  BY <1>2, <1>3, <1>4 DEF Adds

LEMMA AddsOwn ==
  ASSUME NEW i \in Ids, NEW r \in Responses, Adds(i, r)
  PROVE  /\ TaskMarks' \subseteq TaskMarks \union Own(i)
         /\ timers' \subseteq timers \union Own(i)
         /\ WatchMarks' \subseteq WatchMarks \union IF Refused(r) THEN {} ELSE Own(i)
<1>1. ToSet(r.tasks) \subseteq Nat /\ ToSet(r.wakes) \subseteq Nat
  BY ResponseFields, ToSetType
<1>2. \A S : S \subseteq Nat => Begun(i, S) \subseteq Own(i)
  BY DEF Begun, Own
<1>3. /\ Begun(i, ToSet(r.tasks)) \subseteq Own(i) /\ Begun(i, ToSet(r.wakes)) \subseteq Own(i)
      /\ Begun(i, {0}) \subseteq Own(i)
  BY <1>1, <1>2
<1> QED
  BY <1>3 DEF Adds

LEMMA AcceptOnce ==
  ASSUME Core, Rest, Tokens, Recent, OnceInv, NEW i \in Ids, Exists(i), NEW r \in Responses,
         NEW carry \in IF r.outcome = "CONTINUED"
                       THEN Carryovers(inst[i].history \o inst[i].dispatched) ELSE {<<>>},
         Accept(i, r, carry), running' = running
  PROVE  OnceInv'
<1> DEFINE created == r.sub # None /\ Creatable(r.sub)
           token == IF created THEN nextToken + 1 ELSE nextToken
           me == inst[i]
<1>1. inst' = [j \in Ids |-> IF j = i THEN Committed(me, r, carry, token)
                             ELSE IF created /\ j = r.sub THEN Fresh(nextToken)
                             ELSE inst[j]]
  BY DEF Accept
<1>2. /\ TaskMarks' \subseteq TaskMarks \union Own(i)
      /\ timers' \subseteq timers \union Own(i)
      /\ WatchMarks' \subseteq WatchMarks \union IF Refused(r) THEN {} ELSE Own(i)
  BY AcceptAdds, AddsOwn
<1>3. nextToken \in Nat /\ me.token \in Nat /\ me.token < nextToken /\ me \in Instance
  BY InstanceFields DEF Core, Rest, Tokens
<1>4. token \in Nat /\ me.token < token
  BY <1>3
<1> HIDE DEF token, created
<1>5. ASSUME NEW c, Mark(i, c) \in Own(i) PROVE c.tok = me.token
  BY <1>5 DEF Mark, Own, Begun
<1>6. Once(inst'[i], Due(i)')
  <2> DEFINE D == Due(i)
             E == Due(i)'
  <2>1. Scheduled(E, D, me, r)
    <3> SUFFICES ASSUME NEW c \in Due(i)', c \notin Due(i)
                 PROVE  c.tok = me.token /\ ~(Refused(r) /\ c = Creation(me.token))
      BY DEF Scheduled
    <3>1. c \in Event /\ \/ c.kind = "TaskScheduled" /\ Mark(i, c) \in TaskMarks'
                         \/ c.kind = "TimerCreated" /\ Mark(i, c) \in timers'
                         \/ c.kind = "SubCreated" /\ Mark(i, c) \in WatchMarks'
      BY DEF Due, DueFor
    <3>2. /\ Mark(i, c) \in Own(i)
          /\ c.kind = "SubCreated" => ~Refused(r)
      BY <1>2, <3>1 DEF Due, DueFor
    <3>3. Creation(me.token).kind = "SubCreated"
      BY DEF Creation, NewEvent
    <3> QED
      BY <1>5, <3>2, <3>3
  <2>2. Once(me, D) /\ D \subseteq Event /\ me.status # "NONE"
    BY DueType DEF OnceInv, Exists
  <2>3. inst'[i] = Committed(me, r, carry, token)
    BY <1>1
  <2> HIDE DEF D, E, me
  <2>4. carry \in IF r.outcome = "CONTINUED" THEN Carryovers(me.history \o me.dispatched)
                  ELSE {<<>>}
    BY DEF me
  <2>5. Once(Committed(me, r, carry, token), E)
    BY <1>3, <1>4, <2>1, <2>2, <2>4, OnceCommitted
  <2> QED
    BY <2>3, <2>5 DEF E
<1>7. ASSUME NEW j \in Ids, j # i PROVE Once(inst'[j], Due(j)')
  <2>1. Due(j)' \subseteq Due(j)
    <3>1. \A c : Mark(j, c) \notin Own(i)
      BY <1>7 DEF Mark, Own, Begun
    <3> QED
      BY <1>2, <3>1 DEF Due, DueFor
  <2>2. Ordinary(j)
    BY <1>1, <1>7 DEF Ordinary
  <2> QED
    BY <2>1, <2>2, OrdinaryOnce
<1> QED
  BY <1>6, <1>7 DEF OnceInv

-----------------------------------------------------------------------------
(* Nothing is under way twice *)

LEMMA InjectiveJoin ==
  ASSUME NEW S, NEW a \in Seq(S), NEW b \in Seq(S), IsInjective(a), IsInjective(b),
         Disjoint(ToSet(a), ToSet(b))
  PROVE  IsInjective(a \o b)
<1> DEFINE c == a \o b
<1>1. Comes(a, b) /\ DOMAIN c \subseteq Nat
  BY ComesLemma
<1>2. Len(a) \in Nat
  OBVIOUS
<1>3. ASSUME NEW j \in DOMAIN a, NEW k \in DOMAIN b PROVE a[j] # b[k]
  BY DEF Disjoint, ToSet
<1> SUFFICES ASSUME NEW j \in DOMAIN c, NEW k \in DOMAIN c, c[j] = c[k]
             PROVE  j = k
  BY DEF IsInjective
<1> HIDE DEF c
<1>4. \/ j \in DOMAIN a /\ c[j] = a[j]
      \/ j > Len(a) /\ j - Len(a) \in DOMAIN b /\ c[j] = b[j - Len(a)]
  BY <1>1 DEF Comes, c
<1>5. \/ k \in DOMAIN a /\ c[k] = a[k]
      \/ k > Len(a) /\ k - Len(a) \in DOMAIN b /\ c[k] = b[k - Len(a)]
  BY <1>1 DEF Comes, c
<1>6. CASE j \in DOMAIN a /\ c[j] = a[j] /\ k \in DOMAIN a /\ c[k] = a[k]
  BY <1>6 DEF IsInjective
<1>7. CASE /\ j > Len(a) /\ j - Len(a) \in DOMAIN b /\ c[j] = b[j - Len(a)]
           /\ k > Len(a) /\ k - Len(a) \in DOMAIN b /\ c[k] = b[k - Len(a)]
  <2>1. j - Len(a) = k - Len(a)
    BY <1>7 DEF IsInjective
  <2>2. j \in Nat /\ k \in Nat
    BY <1>1
  <2> QED
    BY <1>2, <2>1, <2>2
<1> QED
  BY <1>3, <1>4, <1>5, <1>6, <1>7

LEMMA TakenApart ==
  ASSUME Rest, TasksApart, TakeActivity
  PROVE  TasksApart'
<1>1. CASE activityQueue = <<>>
  BY <1>1 DEF TakeActivity, TasksApart
<1>2. CASE activityQueue # <<>>
  <2> DEFINE q == activityQueue
             t == Tail(activityQueue)
  <2>1. q' = t /\ running' = running \union {Head(q)}
    BY <1>2 DEF TakeActivity
  <2>2. /\ Len(q) \in Nat /\ Len(q) >= 1
        /\ DOMAIN q = 1..Len(q) /\ DOMAIN t = 1..(Len(q) - 1) /\ Head(q) = q[1]
        /\ \A k \in 1..(Len(q) - 1) : t[k] = q[k + 1]
    BY <1>2 DEF Rest
  <2>3. \A j, k \in DOMAIN q : q[j] = q[k] => j = k
    BY DEF TasksApart, IsInjective
  <2>4. \A x \in ToSet(q) : x \notin running
    BY DEF TasksApart, Disjoint
  <2> HIDE DEF q, t
  <2>5. \A k \in DOMAIN t : k + 1 \in DOMAIN q /\ k \in Nat /\ k + 1 # 1
    BY <2>2
  <2>6. 1 \in DOMAIN q
    BY <2>2
  <2>7. IsInjective(t)
    <3> SUFFICES ASSUME NEW j \in DOMAIN t, NEW k \in DOMAIN t, t[j] = t[k] PROVE j = k
      BY DEF IsInjective
    <3>1. j + 1 = k + 1
      BY <2>2, <2>3, <2>5
    <3> QED
      BY <2>5, <3>1
  <2>8. ASSUME NEW x \in ToSet(t) PROVE x \in ToSet(q) /\ x # Head(q)
    <3>1. PICK k \in DOMAIN t : x = t[k]
      BY <2>8 DEF ToSet
    <3>2. x = q[k + 1] /\ k + 1 \in DOMAIN q /\ k + 1 # 1
      BY <2>2, <2>5, <3>1
    <3> QED
      BY <2>2, <2>3, <2>6, <3>2 DEF ToSet
  <2>9. Disjoint(running', ToSet(t))
    BY <2>1, <2>4, <2>8 DEF Disjoint
  <2> QED
    BY <2>1, <2>7, <2>9 DEF TasksApart, q
<1> QED
  BY <1>1, <1>2

(* The activities that i schedules are under a token with nothing under way. *)
LEMMA OwnFresh ==
  ASSUME Core, Rest, OnceInv, NEW i \in Ids, Exists(i), NEW a \in Own(i)
  PROVE  a \notin TaskMarks /\ a \notin WatchMarks
<1>1. inst[i].token \in Nat
  BY InstanceFields DEF Core
<1>2. PICK n \in Nat : a = [inst |-> i, id |-> n, tok |-> inst[i].token]
  BY DEF Own, Begun
<1> DEFINE c(kind) == NewEvent(kind, n, inst[i].token)
<1>3. ASSUME NEW kind \in Scheduling
      PROVE  /\ c(kind) \in Event /\ c(kind).kind = kind /\ c(kind).tok = inst[i].token
             /\ Mark(i, c(kind)) = a
  BY <1>1, <1>2 DEF Scheduling, NewEvent, Event, Kinds, Mark
<1>4. ASSUME NEW kind \in Scheduling PROVE c(kind) \notin Due(i)
  <2>1. Older(Due(i), inst[i].token)
    BY DEF OnceInv, Once, Exists
  <2> HIDE DEF c
  <2> QED
    BY <1>1, <1>3, <2>1 DEF Older
<1>5. c("TaskScheduled") \notin Due(i) /\ c("SubCreated") \notin Due(i)
  BY <1>4 DEF Scheduling
<1> HIDE DEF c
<1> QED
  BY <1>3, <1>5 DEF Due, DueFor, Scheduling

LEMMA AcceptTasksApart ==
  ASSUME Core, Rest, OnceInv, TasksApart, NEW i \in Ids, Exists(i), NEW r \in Responses,
         NEW carry, Accept(i, r, carry), running' = running
  PROVE  TasksApart'
<1> DEFINE new == [k \in 1..Len(r.tasks) |->
                     [inst |-> i, id |-> r.tasks[k], tok |-> inst[i].token]]
           q == activityQueue
<1>1. r.tasks \in Seq(Nat) /\ inst[i].token \in Nat /\ IsInjective(r.tasks)
  <2>1. IsInjective(r.tasks)
    BY DEF Responses, IdSeqs
  <2> QED
    BY <2>1, ResponseFields, InstanceFields DEF Core
<1>2. activityQueue' = q \o new
  BY DEF Accept
<1>3. q \in Seq(Activity) /\ new \in Seq(Activity)
  BY <1>1 DEF Rest, Activity
<1>4. DOMAIN new = 1..Len(r.tasks) /\ DOMAIN r.tasks = 1..Len(r.tasks)
      /\ \A k \in 1..Len(r.tasks) :
           new[k] \in Own(i) /\ new[k].id = r.tasks[k]
  BY <1>1 DEF Own, Begun
<1> HIDE DEF new
<1>5. IsInjective(new)
  BY <1>1, <1>4 DEF IsInjective
<1>6. \A a \in ToSet(new) : a \notin TaskMarks
  BY <1>4, OwnFresh DEF ToSet
<1>7. IsInjective(q) /\ Disjoint(running, ToSet(q))
  BY DEF TasksApart
<1>8. Disjoint(ToSet(q), ToSet(new)) /\ Disjoint(running, ToSet(new))
  BY <1>6 DEF TaskMarks, Disjoint
<1> HIDE DEF q
<1>9. IsInjective(q \o new) /\ Joins(q, new)
  BY <1>3, <1>5, <1>7, <1>8, InjectiveJoin, ToSetConcat
<1>10. Disjoint(running, ToSet(q \o new))
  BY <1>7, <1>8, <1>9 DEF Joins, Disjoint
<1> QED
  BY <1>2, <1>9, <1>10 DEF TasksApart

LEMMA AcceptWatchersApart ==
  ASSUME Core, Rest, OnceInv, WatchersApart, NEW i \in Ids, Exists(i), NEW r \in Responses,
         NEW carry, Accept(i, r, carry)
  PROVE  WatchersApart'
<1> DEFINE created == r.sub # None /\ Creatable(r.sub)
           watcher == [parent |-> i, sub |-> r.sub, id |-> 0, tok |-> inst[i].token,
                       phase |-> "starting"]
<1>1. PICK status : watchers' = Notified(watchers, i, status)
                                  \union IF created THEN {watcher} ELSE {}
  BY DEF Accept
<1>2. Mark(watcher.parent, watcher) \in Own(i)
  BY DEF Mark, Own, Begun
<1>3. Mark(watcher.parent, watcher) \notin WatchMarks
  BY <1>2, OwnFresh
<1> HIDE DEF created, watcher
<1> DEFINE Turned(w) == IF w.sub = i /\ w.phase = "waiting" /\ status \in Terminal
                        THEN [w EXCEPT !.phase = Ended(status)] ELSE w
<1>4. \A w \in watchers : Mark(Turned(w).parent, Turned(w)) = Mark(w.parent, w)
  <2> SUFFICES ASSUME NEW w \in watchers
               PROVE  Mark(Turned(w).parent, Turned(w)) = Mark(w.parent, w)
    OBVIOUS
  <2>1. Turned(w).parent = w.parent /\ Turned(w).id = w.id /\ Turned(w).tok = w.tok
    BY DEF Rest, Watcher
  <2> HIDE DEF Turned
  <2> QED
    BY <2>1 DEF Mark
<1>5. \A v \in watchers' : (\E w \in watchers : v = Turned(w)) \/ v = watcher
  BY <1>1 DEF Notified
<1> HIDE DEF Turned
<1>6. \A w \in watchers : Mark(w.parent, w) \in WatchMarks
  BY DEF WatchMarks
<1> QED
  BY <1>3, <1>4, <1>5, <1>6 DEF WatchersApart

LEMMA DropApart ==
  ASSUME Rest, WatchersApart, NEW S, DropWaiters(S)
  PROVE  WatchersApart'
<1> DEFINE Turned(w) == IF w.sub \in S /\ w.phase = "waiting"
                        THEN [w EXCEPT !.phase = "orphaned"] ELSE w
<1>1. \A w \in watchers : Mark(Turned(w).parent, Turned(w)) = Mark(w.parent, w)
  <2> SUFFICES ASSUME NEW w \in watchers
               PROVE  Mark(Turned(w).parent, Turned(w)) = Mark(w.parent, w)
    OBVIOUS
  <2>1. Turned(w).parent = w.parent /\ Turned(w).id = w.id /\ Turned(w).tok = w.tok
    BY DEF Rest, Watcher
  <2> HIDE DEF Turned
  <2> QED
    BY <2>1 DEF Mark
<1>2. \A v \in watchers' : \E w \in watchers : v = Turned(w)
  BY DEF DropWaiters
<1> HIDE DEF Turned
<1> QED
  BY <1>1, <1>2 DEF WatchersApart

LEMMA StartApart ==
  ASSUME Rest, WatchersApart, NEW w \in watchers, StartWatching(w)
  PROVE  WatchersApart'
<1> DEFINE v == [w EXCEPT !.phase = IF IsTerminal(w.sub) THEN Ended(inst[w.sub].status)
                                    ELSE "waiting"]
<1>1. watchers' = (watchers \ {w}) \union {v}
  BY DEF StartWatching
<1>2. v.parent = w.parent /\ v.id = w.id /\ v.tok = w.tok
  BY DEF Rest, Watcher
<1> HIDE DEF v
<1>3. Mark(v.parent, v) = Mark(w.parent, w)
  BY <1>2 DEF Mark
<1> QED
  BY <1>1, <1>3 DEF WatchersApart

-----------------------------------------------------------------------------
(* The invariant *)

Apart == TasksApart /\ WatchersApart

OnceHolds == Core /\ Rest /\ Tokens /\ Recent /\ Apart /\ OnceInv

LEMMA OnceStep ==
  ASSUME OnceHolds, [Next]_vars
  PROVE  OnceInv'
<1> USE DEF OnceHolds
<1>1. ASSUME AllOrdinary PROVE OnceInv'
  BY <1>1, FewerDue, OrdinaryOnce DEF AllOrdinary, OnceInv
<1>2. CASE UNCHANGED vars
  BY <1>1, <1>2, SameFewer DEF vars, AllOrdinary, Ordinary
<1>3. CASE Request
  BY <1>1, <1>3, RequestOrdinary
<1>4. CASE GetWorkItems
  BY <1>1, <1>4, GetWorkItemsOrdinary
<1>5. CASE Worker
  <2>1. ASSUME NEW i \in Ids, CompleteOrchestratorTask(i) PROVE OnceInv'
    <3>1. PICK k \in 1..Len(out[i]), r \in Responses :
            /\ IsCurrent(i, k)
            /\ \E carry \in IF r.outcome = "CONTINUED"
                             THEN Carryovers(inst[i].history \o inst[i].dispatched)
                             ELSE {<<>>} : Accept(i, r, carry)
      BY <2>1 DEF CompleteOrchestratorTask
    <3>2. Exists(i) /\ running' = running
      BY <2>1, <3>1 DEF CompleteOrchestratorTask, Answer, IsCurrent
    <3> QED
      BY <3>1, <3>2, AcceptOnce
  <2>2. ASSUME NEW a \in running, CompleteActivityTask(a) PROVE OnceInv'
    BY <2>2, ActivityOnce DEF Apart
  <2> QED
    BY <1>1, <1>5, <2>1, <2>2, WorkerOrdinary
<1>6. CASE Background
  <2>1. ASSUME NEW t \in timers, FireTimer(t) PROVE OnceInv'
    BY <2>1, TimerOnce
  <2>2. ASSUME NEW w \in watchers, ReportSubOrchestration(w) PROVE OnceInv'
    BY <2>2, ReportOnce DEF Apart
  <2> QED
    BY <1>1, <1>6, <2>1, <2>2, BackgroundOrdinary
<1> QED
  BY <1>2, <1>3, <1>4, <1>5, <1>6 DEF Next

(* An answer that is accepted, with what it says. *)
LEMMA Accepted ==
  ASSUME NEW i \in Ids, CompleteOrchestratorTask(i)
  PROVE  /\ Exists(i) /\ running' = running
         /\ \E r \in Responses : \E carry : Accept(i, r, carry)
<1>1. PICK k \in 1..Len(out[i]), r \in Responses :
        IsCurrent(i, k) /\ \E carry : Accept(i, r, carry)
  BY DEF CompleteOrchestratorTask
<1> QED
  BY <1>1 DEF CompleteOrchestratorTask, Answer, IsCurrent

(* Any other step leaves the next token or adds one. *)
LEMMA TokenGrows ==
  ASSUME Rest, Next, ~\E i \in Ids : CompleteOrchestratorTask(i)
  PROVE  nextToken' \in {nextToken, nextToken + 1}
<1> USE DEF WorkerSide
<1>1. CASE Request
  BY <1>1 DEF Request, StartInstance, RaiseEvent, TerminateInstance, SuspendInstance,
       ResumeInstance, RestartInstance, PurgeInstances, Reset
<1>2. CASE GetWorkItems
  BY <1>2 DEF GetWorkItems, DispatchOrchestration, RequeueInFlight, NoOrchestrationReady
<1>3. CASE Worker
  BY <1>3 DEF Worker, IgnoredAnswer, AbandonTaskOrchestratorWorkItem, LoseAnswer,
       CompleteActivityTask, AbandonAgain, AbandonTaskActivityWorkItem, WorkerCrash
<1>4. CASE Background
  BY <1>4 DEF Background, FireTimer, StartWatching, WatcherTimeout, ReportSubOrchestration
<1> QED
  BY <1>1, <1>2, <1>3, <1>4 DEF Next

LEMMA MarkTokens ==
  ASSUME Rest, NEW a \in TaskMarks \union timers \union WatchMarks
  PROVE  a.tok \in Nat
<1>1. TaskMarks \subseteq Activity
  BY ToSetType DEF Rest, TaskMarks
<1>2. \A w \in watchers : Mark(w.parent, w).tok \in Nat
  BY DEF Rest, Watcher, Mark
<1> QED
  BY <1>1, <1>2 DEF Rest, Activity, WatchMarks

LEMMA RecentStep ==
  ASSUME OnceHolds, [Next]_vars
  PROVE  Recent'
<1> USE DEF OnceHolds
<1>0. nextToken \in Nat
  BY DEF Rest
<1>1. ASSUME Fewer, nextToken' \in {nextToken, nextToken + 1} PROVE Recent'
  <2> SUFFICES ASSUME NEW a \in TaskMarks' \union timers' \union WatchMarks'
               PROVE  a.tok < nextToken'
    BY DEF Recent
  <2>1. a \in TaskMarks \union timers \union WatchMarks
    BY <1>1 DEF Fewer
  <2>2. a.tok \in Nat /\ a.tok < nextToken
    BY <2>1, MarkTokens DEF Recent
  <2> QED
    BY <1>0, <1>1, <2>2
<1>2. ASSUME UNCHANGED vars PROVE Recent'
  BY <1>1, <1>2, SameFewer DEF vars
<1>3. ASSUME NEW i \in Ids, CompleteOrchestratorTask(i) PROVE Recent'
  <2>1. PICK r \in Responses : \E carry : Accept(i, r, carry)
    BY <1>3, Accepted
  <2>2. TaskMarks' \union timers' \union WatchMarks'
          \subseteq TaskMarks \union timers \union WatchMarks \union Own(i)
    <3>1. Adds(i, r)
      BY <1>3, <2>1, Accepted, AcceptAdds
    <3> QED
      BY <3>1, AddsOwn
  <2>3. nextToken' \in Nat /\ nextToken < nextToken'
    BY <1>0, <2>1 DEF Accept
  <2>4. inst[i].token \in Nat /\ inst[i].token < nextToken
    BY InstanceFields DEF Core, Tokens
  <2> SUFFICES ASSUME NEW a \in TaskMarks' \union timers' \union WatchMarks'
               PROVE  a.tok < nextToken'
    BY DEF Recent
  <2>5. CASE a \in Own(i)
    <3>1. a.tok = inst[i].token
      BY <2>5 DEF Own, Begun
    <3> QED
      BY <1>0, <2>3, <2>4, <3>1
  <2>6. CASE a \in TaskMarks \union timers \union WatchMarks
    <3>1. a.tok \in Nat /\ a.tok < nextToken
      BY <2>6, MarkTokens DEF Recent
    <3> QED
      BY <1>0, <2>3, <3>1
  <2> QED
    BY <2>2, <2>5, <2>6
<1>4. ASSUME Next, ~\E i \in Ids : CompleteOrchestratorTask(i) PROVE Recent'
  <2>1. Fewer
    <3>1. CASE Request \/ GetWorkItems
      BY <3>1, RequestOrdinary, GetWorkItemsOrdinary DEF AllOrdinary
    <3>2. CASE Worker
      BY <1>4, <3>2, WorkerOrdinary, ActivityOnce DEF AllOrdinary, Apart
    <3>3. CASE Background
      BY <3>3, BackgroundOrdinary, TimerOnce, ReportOnce DEF AllOrdinary, Apart
    <3> QED
      BY <1>4, <3>1, <3>2, <3>3 DEF Next
  <2> QED
    BY <1>1, <1>4, <2>1, TokenGrows
<1> QED
  BY <1>2, <1>3, <1>4

LEMMA ApartStep ==
  ASSUME OnceHolds, [Next]_vars
  PROVE  Apart'
<1> USE DEF OnceHolds, Apart, WorkerSide
<1>1. ASSUME activityQueue' = activityQueue, running' \subseteq running PROVE TasksApart'
  BY <1>1 DEF TasksApart, Disjoint
<1>2. ASSUME watchers' \subseteq watchers PROVE WatchersApart'
  BY <1>2 DEF WatchersApart
<1>3. CASE UNCHANGED vars
  BY <1>1, <1>2, <1>3 DEF vars
<1>4. CASE Request
  <2>1. TasksApart'
    <3>1. CASE Reset
      <4>1. activityQueue' = <<>>
        BY <3>1 DEF Reset
      <4> QED
        BY <4>1, ToSetEmpty DEF TasksApart, IsInjective, Disjoint
    <3> QED
      BY <1>1, <1>4, <3>1 DEF Request, StartInstance, RaiseEvent, TerminateInstance,
           SuspendInstance, ResumeInstance, RestartInstance, PurgeInstances
  <2>2. WatchersApart'
    BY <1>2, <1>4, DropApart DEF Request, StartInstance, RaiseEvent, TerminateInstance,
         SuspendInstance, ResumeInstance, RestartInstance, PurgeInstances, Reset
  <2> QED
    BY <2>1, <2>2
<1>5. CASE GetWorkItems
  BY <1>1, <1>2, <1>5, TakenApart
     DEF GetWorkItems, DispatchOrchestration, RequeueInFlight, NoOrchestrationReady
<1>6. CASE Worker
  <2>1. ASSUME NEW i \in Ids, CompleteOrchestratorTask(i) PROVE Apart'
    <3>1. Exists(i) /\ running' = running /\ \E r \in Responses : \E carry : Accept(i, r, carry)
      BY <2>1, Accepted
    <3>2. PICK r \in Responses : \E carry : Accept(i, r, carry)
      BY <3>1
    <3> QED
      BY <3>1, <3>2, AcceptTasksApart, AcceptWatchersApart
  <2> QED
    BY <1>1, <1>2, <1>6, <2>1
       DEF Worker, IgnoredAnswer, Answer, AbandonTaskOrchestratorWorkItem, LoseAnswer,
           CompleteActivityTask, AbandonAgain, AbandonTaskActivityWorkItem, WorkerCrash
<1>7. CASE Background
  BY <1>1, <1>2, <1>7, StartApart
     DEF Background, FireTimer, StartWatching, WatcherTimeout, ReportSubOrchestration
<1> QED
  BY <1>3, <1>4, <1>5, <1>6, <1>7 DEF Next

LEMMA OnceInit == Init => OnceHolds
<1> SUFFICES ASSUME Init PROVE OnceHolds
  OBVIOUS
<1>1. Core /\ Rest /\ Tokens
  BY InitHolds DEF Init, Tokens, Absent, Exists
<1>2. TaskMarks = {} /\ timers = {} /\ WatchMarks = {}
  BY ToSetEmpty DEF Init, TaskMarks, WatchMarks
<1>3. Recent
  BY <1>2 DEF Recent
<1>4. Apart
  BY ToSetEmpty DEF Init, Apart, TasksApart, WatchersApart, IsInjective, Disjoint
<1>5. OnceInv
  BY OnceAbsent DEF Init, OnceInv
<1> QED
  BY <1>1, <1>3, <1>4, <1>5 DEF OnceHolds

-----------------------------------------------------------------------------
(* What it says of the events of an instance *)

(* All events of me in order, as Events has them. *)
AllOf(me) == me.history \o me.dispatched \o me.pending

LEMMA AllOnce ==
  ASSUME NEW me \in Instance, NEW D, Once(me, D)
  PROVE  /\ AllOf(me) \in Seq(Event) /\ Single(AllOf(me)) /\ Late(AllOf(me))
         /\ ToSet(AllOf(me)) = Sees(me)
<1> DEFINE h == me.history
           d == me.dispatched
           p == me.pending
           hd == h \o d
<1>1. /\ h \in Seq(Event) /\ d \in Seq(Event) /\ p \in Seq(Event)
      /\ ToSet(h) \subseteq Event /\ ToSet(d) \subseteq Event
  BY InstanceFields, ToSetType
<1>2. Singles(h, d, p) /\ Ordered(h, d, p)
  BY DEF Once
<1>3. AllOf(me) = hd \o p /\ Sees(me) = ToSet(h) \union ToSet(d) \union ToSet(p)
  BY DEF AllOf, Sees
<1> HIDE DEF h, d, p
<1>4. hd \in Seq(Event) /\ Joins(h, d)
  BY <1>1, ToSetConcat
<1>5. Single(hd)
  BY <1>1, <1>2, SingleJoin DEF Singles
<1>6. Late(d) /\ Late(p)
  BY <1>1, <1>2, LatePlain DEF Ordered
<1>7. /\ \A c \in Causes(ToSet(h)) : c.kind \in Scheduling
      /\ \A c \in Causes(ToSet(d)) : c.kind \in Scheduling
  BY <1>1, CausesTokens
<1>8. Late(hd)
  <2>1. Disjoint(Causes(ToSet(h)), ToSet(d))
    BY <1>2, <1>7 DEF Ordered, Disjoint
  <2> QED
    BY <1>1, <1>2, <1>6, <2>1, LateJoin DEF Ordered
<1>9. Causes(ToSet(hd)) = Causes(ToSet(h)) \union Causes(ToSet(d))
  BY <1>4 DEF Joins, Causes
<1> HIDE DEF hd
<1>10. Single(hd \o p)
  <2>1. Disjoint(Causes(ToSet(hd)), Causes(ToSet(p)))
    BY <1>2, <1>9 DEF Singles, Disjoint
  <2> QED
    BY <1>1, <1>2, <1>4, <1>5, <2>1, SingleJoin DEF Singles
<1>11. Late(hd \o p)
  <2>1. Disjoint(Causes(ToSet(hd)), ToSet(p))
    BY <1>2, <1>7, <1>9 DEF Ordered, Disjoint
  <2> QED
    BY <1>1, <1>4, <1>6, <1>8, <2>1, LateJoin
<1>12. hd \o p \in Seq(Event) /\ Joins(hd, p)
  BY <1>1, <1>4, ToSetConcat
<1>13. ToSet(hd \o p) = ToSet(h) \union ToSet(d) \union ToSet(p)
  BY <1>4, <1>12 DEF Joins, hd
<1> QED
  BY <1>3, <1>10, <1>11, <1>12, <1>13

LEMMA ResultCause ==
  ASSUME NEW d \in Event, NEW e \in Event, d.id = e.id, d.tok = e.tok, NEW kind \in Scheduling,
         e.kind \in ResultOf(kind)
  PROVE  /\ e.kind \in Results /\ Cause(e) = NewEvent(kind, e.id, e.tok)
         /\ d.kind \in ResultOf(kind) => d.kind \in Results /\ Cause(d) = Cause(e)
         /\ d.kind = kind => d = Cause(e)
<1>1. kind = "TaskScheduled" \/ kind = "TimerCreated" \/ kind = "SubCreated"
  BY DEF Scheduling
<1>2. ASSUME NEW f \in Event, f.kind \in ResultOf(kind)
      PROVE  f.kind \in Results /\ Cause(f) = NewEvent(kind, f.id, f.tok)
  BY <1>1, <1>2, ResultKinds DEF Results, Cause, CauseKind
<1>3. d = NewEvent(d.kind, d.id, d.tok)
  BY DEF Event, NewEvent
<1> QED
  BY <1>2, <1>3

LEMMA OnceNeverTwice ==
  ASSUME Core, OnceInv
  PROVE  NeverTwice
<1> SUFFICES ASSUME NEW i \in Ids, NEW j \in DOMAIN Events(i), NEW k \in DOMAIN Events(i),
                    Events(i)[j].id = Events(i)[k].id, Events(i)[j].tok = Events(i)[k].tok,
                    NEW kind \in Scheduling, Events(i)[k].kind \in ResultOf(kind)
             PROVE  /\ (Events(i)[j].kind \in ResultOf(kind) => j = k)
                    /\ (Events(i)[j].kind = kind => j < k)
  BY DEF NeverTwice, Scheduling
<1> DEFINE s == Events(i)
<1>1. s \in Seq(Event) /\ Single(s) /\ Late(s)
  BY AllOnce DEF Core, OnceInv, Events, AllOf
<1> HIDE DEF s
<1>2. s[j] \in Event /\ s[k] \in Event /\ j \in DOMAIN s /\ k \in DOMAIN s
  BY <1>1 DEF s
<1>3. /\ s[k].kind \in Results
      /\ s[j].kind \in ResultOf(kind) => s[j].kind \in Results /\ Cause(s[j]) = Cause(s[k])
      /\ s[j].kind = kind => s[j] = Cause(s[k])
  BY <1>2, ResultCause DEF s
<1>4. /\ (s[j].kind \in ResultOf(kind) => j = k)
      /\ (s[j].kind = kind => j < k)
  BY <1>1, <1>2, <1>3 DEF Single, Late
<1> QED
  BY <1>4 DEF s

LEMMA OnceTheorem == Spec => []OnceHolds
<1>1. OnceHolds /\ [Next]_vars => OnceHolds'
  BY StateStep, TokensStep, RecentStep, ApartStep, OnceStep DEF OnceHolds
<1> QED
  BY <1>1, OnceInit, PTL DEF Spec

(* Whatever requests, answers and faults do to an id and to its executions,  *)
(* no result enters an instance twice and none before what scheduled it      *)
(* (CompleteActivityTask, fire_timer and watch post each once; an abandon    *)
(* moves dispatched events back and leaves no copy; an answer rotates the    *)
(* completion token, so that what it schedules is told from all before).     *)
THEOREM NeverTwiceTheorem == Spec => []NeverTwice
<1>1. OnceHolds => NeverTwice
  BY OnceNeverTwice DEF OnceHolds
<1> QED
  BY <1>1, OnceTheorem, PTL

-----------------------------------------------------------------------------
(* What scheduled a result is in the history *)

(* No execution with a history gives way to another one or is taken away. *)
Lasting == \A i \in Ids : inst[i].history # <<>> => inst'[i].history # <<>>

(* The history of me has what scheduled D and every result me has seen. *)
Known(me, D) == D \union Causes(Sees(me)) \subseteq ToSet(me.history)

KnownInv == \A i \in Ids : Known(inst[i], Due(i))

LEMMA KnownLess ==
  ASSUME NEW me, NEW D, Known(me, D), NEW E, E \subseteq D
  PROVE  Known(me, E)
  BY DEF Known

LEMMA KnownNone ==
  ASSUME NEW me, NEW D, Known(me, D), me.history = <<>>
  PROVE  D = {}
  BY EmptyPlain DEF Known

LEMMA KnownAbsent == Known(Absent, {})
<1>1. Absent.history = <<>> /\ Absent.dispatched = <<>> /\ Absent.pending = <<>>
  BY DEF Absent
<1>2. Sees(Absent) = {}
  BY <1>1, EmptyPlain DEF Sees
<1> QED
  BY <1>2, EmptyPlain DEF Known

LEMMA KnownFresh ==
  ASSUME NEW token
  PROVE  Known(Fresh(token), {})
<1> DEFINE p == <<OrchestratorStarted, ExecutionStarted>>
           me == Fresh(token)
<1>1. me.history = <<>> /\ me.dispatched = <<>> /\ me.pending = p
  BY DEF Fresh
<1>2. ToSet(p) = {OrchestratorStarted, ExecutionStarted}
  BY DEF ToSet
<1> HIDE DEF p, me
<1>3. Sees(me) = ToSet(p)
  BY <1>1, EmptyPlain DEF Sees
<1>4. Causes(Sees(me)) = {}
  BY <1>2, <1>3, StartPlain, CausesNone
<1>5. Known(me, {})
  BY <1>4 DEF Known
<1> QED
  BY <1>5 DEF me

LEMMA KnownPosted ==
  ASSUME NEW me \in Instance, NEW D, Known(me, D), NEW E, E \subseteq D, NEW e \in Event,
         e.kind \notin Results \/ Cause(e) \in D,
         NEW next, next = [me EXCEPT !.pending = Append(me.pending, e)]
  PROVE  Known(next, E)
<1>1. /\ next.history = me.history /\ next.dispatched = me.dispatched
      /\ next.pending = Append(me.pending, e) /\ me.pending \in Seq(Event)
  BY InstanceFields DEF Instance
<1>2. ToSet(Append(me.pending, e)) = ToSet(me.pending) \union {e}
  BY <1>1, ToSetAppend
<1>3. Sees(next) = Sees(me) \union {e}
  BY <1>1, <1>2 DEF Sees
<1>4. Causes(Sees(next)) \subseteq Causes(Sees(me)) \union D
  BY <1>3 DEF Causes
<1> QED
  BY <1>1, <1>4 DEF Known

(* Events move within me, and nothing is added but its start. *)
LEMMA KnownMoved ==
  ASSUME NEW me, NEW D, Known(me, D), NEW next, next.history = me.history,
         Sees(next) \subseteq Sees(me) \union {OrchestratorStarted}
  PROVE  Known(next, D)
<1>1. Causes(Sees(next)) \subseteq Causes(Sees(me))
  BY StartPlain DEF Causes
<1> QED
  BY <1>1 DEF Known

LEMMA KnownRestored ==
  ASSUME NEW me \in Instance, NEW D, Known(me, D)
  PROVE  Known(Restored(me), D)
<1> DEFINE next == Restored(me)
<1>1. me.dispatched \in Seq(Event) /\ me.pending \in Seq(Event)
  BY InstanceFields
<1>2. /\ next.history = me.history /\ next.dispatched = <<>>
      /\ next.pending = me.dispatched \o me.pending
  BY DEF Instance, Restored
<1>3. Joins(me.dispatched, me.pending)
  BY <1>1, ToSetConcat
<1> HIDE DEF next
<1>4. Sees(next) = Sees(me)
  BY <1>2, <1>3, EmptyPlain DEF Sees, Joins
<1>5. Known(next, D)
  BY <1>2, <1>4, KnownMoved
<1> QED
  BY <1>5 DEF next

LEMMA KnownTaken ==
  ASSUME NEW me \in Instance, NEW D, Known(me, D),
         NEW new, new = me.pending \/ new = <<OrchestratorStarted>> \o me.pending,
         NEW next, next = [me EXCEPT !.dispatched = new, !.pending = <<>>]
  PROVE  Known(next, D)
<1> DEFINE o == <<OrchestratorStarted>>
<1>1. me.pending \in Seq(Event)
  BY InstanceFields
<1>2. next.history = me.history /\ next.dispatched = new /\ next.pending = <<>>
  BY DEF Instance
<1>3. o \in Seq(Event) /\ ToSet(o) = {OrchestratorStarted}
  BY StartEvents DEF ToSet
<1> HIDE DEF o
<1>4. Joins(o, me.pending)
  BY <1>1, <1>3, ToSetConcat
<1>5. ToSet(new) \subseteq ToSet(me.pending) \union {OrchestratorStarted}
  BY <1>3, <1>4 DEF Joins, o
<1>6. Sees(next) \subseteq Sees(me) \union {OrchestratorStarted}
  BY <1>2, <1>5, EmptyPlain DEF Sees
<1> QED
  BY <1>2, <1>6, KnownMoved

LEMMA OrdinaryKnown ==
  ASSUME Core, KnownInv, Lasting, NEW i \in Ids, Ordinary(i), Due(i)' \subseteq Due(i)
  PROVE  Known(inst'[i], Due(i)')
<1> DEFINE me == inst[i]
           E == Due(i)'
<1>1. me \in Instance /\ Known(me, E) /\ (me.history # <<>> => inst'[i].history # <<>>)
  BY KnownLess DEF Core, KnownInv, Lasting
<1> HIDE DEF E
<1>2. ASSUME inst'[i] = Absent \/ inst'[i] = Fresh(nextToken)
      PROVE  E = {}
  <2>1. inst'[i].history = <<>>
    BY <1>2 DEF Absent, Fresh
  <2> QED
    BY <1>1, <2>1, KnownNone
<1>3. CASE inst'[i] = me
  BY <1>1, <1>3 DEF E
<1>4. CASE inst'[i] = Absent
  BY <1>2, <1>4, KnownAbsent DEF E
<1>5. CASE inst'[i] = Fresh(nextToken)
  BY <1>2, <1>5, KnownFresh DEF E
<1>6. CASE inst'[i] = Restored(me)
  BY <1>1, <1>6, KnownRestored DEF E
<1>7. ASSUME NEW new, new = me.pending \/ new = <<OrchestratorStarted>> \o me.pending,
             inst'[i] = [me EXCEPT !.dispatched = new, !.pending = <<>>]
      PROVE  Known(inst'[i], E)
  BY <1>1, <1>7, KnownTaken
<1>8. ASSUME NEW e \in Event, e.kind \notin Results,
             inst'[i] = [me EXCEPT !.pending = Append(me.pending, e)]
      PROVE  Known(inst'[i], E)
  BY <1>1, <1>8, KnownPosted
<1> QED
  BY <1>3, <1>4, <1>5, <1>6, <1>7, <1>8 DEF Ordinary, E

LEMMA ResultKnown ==
  ASSUME Core, KnownInv, Lasting, Fewer, NEW i \in Ids, NEW e \in Event, Cause(e) \in Due(i),
         (Exists(i) /\ Post(i, e)) \/ inst' = inst
  PROVE  KnownInv'
<1>1. CASE inst' = inst
  <2>1. \A j \in Ids : Ordinary(j)
    BY <1>1 DEF Ordinary
  <2> QED
    BY <2>1, FewerDue, OrdinaryKnown DEF KnownInv
<1>2. CASE Exists(i) /\ Post(i, e)
  <2>1. /\ inst'[i] = [inst[i] EXCEPT !.pending = Append(inst[i].pending, e)]
        /\ \A j \in Ids : j # i => inst'[j] = inst[j]
    BY <1>2 DEF Post, Core
  <2>2. Known(inst'[i], Due(i)')
    BY <2>1, FewerDue, KnownPosted DEF Core, KnownInv
  <2>3. ASSUME NEW j \in Ids, j # i PROVE Known(inst'[j], Due(j)')
    <3>1. Ordinary(j)
      BY <2>1, <2>3 DEF Ordinary
    <3> QED
      BY <3>1, FewerDue, OrdinaryKnown
  <2> QED
    BY <2>2, <2>3 DEF KnownInv
<1> QED
  BY <1>1, <1>2

(* The history confirms each action of r. *)
Confirms(S, r, token) ==
  /\ \A n \in ToSet(r.tasks) : NewEvent("TaskScheduled", n, token) \in S
  /\ \A n \in ToSet(r.wakes) : NewEvent("TimerCreated", n, token) \in S
  /\ r.sub # None => Creation(token) \in S

LEMMA AllConfirmed ==
  ASSUME NEW r \in Responses, NEW token \in Nat
  PROVE  Confirms(ToSet(Confirmations(r, token)), r, token)
<1> DEFINE t == [k \in 1..Len(r.tasks) |-> NewEvent("TaskScheduled", r.tasks[k], token)]
           w == [k \in 1..Len(r.wakes) |-> NewEvent("TimerCreated", r.wakes[k], token)]
           c == IF r.sub = None THEN <<>> ELSE <<NewEvent("SubCreated", 0, token)>>
           tw == t \o w
<1>1. /\ Len(r.tasks) \in Nat /\ \A k \in 1..Len(r.tasks) : r.tasks[k] \in Nat
      /\ Len(r.wakes) \in Nat /\ \A k \in 1..Len(r.wakes) : r.wakes[k] \in Nat
      /\ DOMAIN r.tasks = 1..Len(r.tasks) /\ DOMAIN r.wakes = 1..Len(r.wakes)
  BY ResponseFields
<1>2. \A n \in Nat : \A kind \in Scheduling : NewEvent(kind, n, token) \in Event
  BY DEF NewEvent, Event, Kinds, Scheduling
<1>3. t \in Seq(Event) /\ w \in Seq(Event) /\ c \in Seq(Event)
  BY <1>1, <1>2 DEF Scheduling
<1>4. ASSUME NEW n \in ToSet(r.tasks) PROVE NewEvent("TaskScheduled", n, token) \in ToSet(t)
  <2>1. PICK k \in 1..Len(r.tasks) : n = r.tasks[k]
    BY <1>1, <1>4 DEF ToSet
  <2>2. k \in DOMAIN t /\ t[k] = NewEvent("TaskScheduled", n, token)
    BY <2>1
  <2> HIDE DEF t
  <2> QED
    BY <2>2 DEF ToSet
<1>5. ASSUME NEW n \in ToSet(r.wakes) PROVE NewEvent("TimerCreated", n, token) \in ToSet(w)
  <2>1. PICK k \in 1..Len(r.wakes) : n = r.wakes[k]
    BY <1>1, <1>5 DEF ToSet
  <2>2. k \in DOMAIN w /\ w[k] = NewEvent("TimerCreated", n, token)
    BY <2>1
  <2> HIDE DEF w
  <2> QED
    BY <2>2 DEF ToSet
<1>6. r.sub # None => Creation(token) \in ToSet(c)
  BY DEF Creation, ToSet
<1>7. Confirmations(r, token) = tw \o c
  BY DEF Confirmations
<1> HIDE DEF t, w, c
<1>8. tw \in Seq(Event) /\ Joins(t, w)
  BY <1>3, ToSetConcat
<1>9. Joins(tw, c)
  <2> HIDE DEF tw
  <2> QED
    BY <1>3, <1>8, ToSetConcat
<1>10. ToSet(Confirmations(r, token)) = ToSet(t) \union ToSet(w) \union ToSet(c)
  BY <1>7, <1>8, <1>9 DEF Joins
<1> QED
  BY <1>4, <1>5, <1>6, <1>10 DEF Confirms

LEMMA KnownCommitted ==
  ASSUME NEW me \in Instance, NEW D, Known(me, D), Once(me, D), NEW r \in Responses,
         r.outcome # "CONTINUED", NEW token, NEW carry,
         NEW E, E \subseteq D \union ToSet(Confirmations(r, me.token))
  PROVE  Known(Committed(me, r, carry, token), E)
<1> DEFINE h == me.history
           d == me.dispatched
           p == me.pending
           a == Arrived(me, r)
           conf == Confirmations(r, me.token)
           g == (h \o d) \o conf
           next == Committed(me, r, carry, token)
<1>1. /\ h \in Seq(Event) /\ d \in Seq(Event) /\ p \in Seq(Event) /\ me.token \in Nat
      /\ conf \in Seq(Event)
  BY InstanceFields, ConfirmationsType
<1>2. Settled(me, r, carry, next)
  BY CommittedFields
<1>3. next.history = g /\ next.dispatched = <<>> /\ next.pending = a
  BY <1>2 DEF Settled
<1>4. Single(p) /\ Older(ToSet(p), me.token)
  BY DEF Once, Singles, Older, Sees
<1>5. \A c \in Causes(ToSet(a)) : c \in Causes(ToSet(p)) \/ (Refused(r) /\ c = Creation(me.token))
  BY <1>4, ArrivedOnce
<1>6. D \subseteq ToSet(h) /\ Causes(Sees(me)) \subseteq ToSet(h)
  BY DEF Known
<1>7. \A e \in ToSet(conf) : e.kind \notin Results
  BY <1>1, ConfirmationFields
<1>8. Refused(r) => Creation(me.token) \in ToSet(conf)
  BY <1>1, AllConfirmed DEF Confirms, Refused
<1>9. Causes(ToSet(h)) \union Causes(ToSet(d)) \union Causes(ToSet(p)) \subseteq Causes(Sees(me))
  BY SeesCauses
<1>10. Joins(h, d) /\ h \o d \in Seq(Event)
  BY <1>1, ToSetConcat
<1> HIDE DEF h, d, p, a, conf
<1>11. Joins(h \o d, conf)
  BY <1>1, <1>10, ToSetConcat
<1>12. ToSet(g) = ToSet(h) \union ToSet(d) \union ToSet(conf)
  BY <1>10, <1>11 DEF Joins
<1> HIDE DEF g, next
<1>13. Sees(next) = ToSet(g) \union ToSet(a)
  BY <1>3, EmptyPlain DEF Sees
<1> SUFFICES ASSUME NEW c \in E \union Causes(Sees(next))
             PROVE  c \in ToSet(h) \union ToSet(conf)
  BY <1>3, <1>12 DEF Known, next
<1>14. CASE c \in E
  BY <1>6, <1>14 DEF conf
<1>15. CASE c \in Causes(Sees(next))
  <2>1. \/ c \in Causes(ToSet(h)) \union Causes(ToSet(d)) \union Causes(ToSet(a))
    BY <1>7, <1>12, <1>13, <1>15 DEF Causes
  <2> QED
    BY <1>5, <1>6, <1>8, <1>9, <2>1
<1> QED
  BY <1>14, <1>15

LEMMA AcceptKnown ==
  ASSUME Core, Rest, OnceInv, KnownInv, Lasting, NEW i \in Ids, NEW r \in Responses,
         r.outcome # "CONTINUED", NEW carry, Accept(i, r, carry), running' = running
  PROVE  KnownInv'
<1> DEFINE created == r.sub # None /\ Creatable(r.sub)
           token == IF created THEN nextToken + 1 ELSE nextToken
           me == inst[i]
           conf == Confirmations(r, me.token)
<1>1. inst' = [j \in Ids |-> IF j = i THEN Committed(me, r, carry, token)
                             ELSE IF created /\ j = r.sub THEN Fresh(nextToken)
                             ELSE inst[j]]
  BY DEF Accept
<1>2. Adds(i, r)
  BY AcceptAdds
<1>3. me \in Instance /\ me.token \in Nat
  BY InstanceFields DEF Core
<1> HIDE DEF token, created
<1>4. Known(inst'[i], Due(i)')
  <2> DEFINE D == Due(i)
             E == Due(i)'
  <2>1. E \subseteq D \union ToSet(conf)
    <3> SUFFICES ASSUME NEW c \in Due(i)', c \notin Due(i)
                 PROVE  c \in ToSet(conf)
      OBVIOUS
    <3>1. c \in Event /\ \/ c.kind = "TaskScheduled" /\ Mark(i, c) \in TaskMarks'
                         \/ c.kind = "TimerCreated" /\ Mark(i, c) \in timers'
                         \/ c.kind = "SubCreated" /\ Mark(i, c) \in WatchMarks'
      BY DEF Due, DueFor
    <3>2. \/ c.kind = "TaskScheduled" /\ Mark(i, c) \in Begun(i, ToSet(r.tasks))
          \/ c.kind = "TimerCreated" /\ Mark(i, c) \in Begun(i, ToSet(r.wakes))
          \/ c.kind = "SubCreated" /\ r.sub # None /\ Mark(i, c) \in Begun(i, {0})
      BY <1>2, <3>1 DEF Due, DueFor, Adds
    <3>3. ASSUME NEW S, Mark(i, c) \in Begun(i, S)
          PROVE  c.id \in S /\ c = NewEvent(c.kind, c.id, me.token)
      <4>1. c.id \in S /\ c.tok = me.token
        BY <3>3 DEF Mark, Begun
      <4> QED
        BY <3>1, <4>1 DEF Event, NewEvent
    <3>4. Confirms(ToSet(conf), r, me.token)
      BY <1>3, AllConfirmed
    <3> HIDE DEF conf
    <3> QED
      BY <3>2, <3>3, <3>4 DEF Confirms, Creation
  <2>2. Once(me, D) /\ Known(me, D)
    BY DEF OnceInv, KnownInv
  <2>3. inst'[i] = Committed(me, r, carry, token)
    BY <1>1
  <2> HIDE DEF D, E, me
  <2>4. Known(Committed(me, r, carry, token), E)
    BY <1>3, <2>1, <2>2, KnownCommitted
  <2> QED
    BY <2>3, <2>4 DEF E
<1>5. ASSUME NEW j \in Ids, j # i PROVE Known(inst'[j], Due(j)')
  <2>1. Due(j)' \subseteq Due(j)
    <3>1. \A c : Mark(j, c) \notin Own(i)
      BY <1>5 DEF Mark, Own, Begun
    <3> QED
      BY <1>2, <3>1, AddsOwn DEF Due, DueFor
  <2>2. Ordinary(j)
    BY <1>1, <1>5 DEF Ordinary
  <2> QED
    BY <2>1, <2>2, OrdinaryKnown
<1> QED
  BY <1>4, <1>5 DEF KnownInv

LEMMA ActivityKnown ==
  ASSUME Core, Rest, KnownInv, Lasting, NEW a \in running, CompleteActivityTask(a)
  PROVE  KnownInv'
<1> DEFINE e == NewEvent("TaskDone", a.id, a.tok)
           c == NewEvent("TaskScheduled", a.id, a.tok)
<1>1. a.inst \in Ids /\ a.id \in Nat /\ a.tok \in Nat
      /\ a = [inst |-> a.inst, id |-> a.id, tok |-> a.tok]
  BY DEF Rest, Activity
<1>2. e \in Event /\ Cause(e) = c /\ c \in Event
  BY <1>1 DEF NewEvent, Event, Kinds, Cause, CauseKind
<1>3. Mark(a.inst, c) = a /\ c.kind = "TaskScheduled"
  BY <1>1 DEF Mark, NewEvent
<1>4. Fewer
  BY SameFewer DEF CompleteActivityTask
<1>5. (Exists(a.inst) /\ Post(a.inst, e)) \/ inst' = inst
  BY DEF CompleteActivityTask
<1> HIDE DEF e, c
<1>6. c \in Due(a.inst)
  BY <1>2, <1>3 DEF Due, DueFor, TaskMarks
<1> QED
  BY <1>1, <1>2, <1>4, <1>5, <1>6, ResultKnown

LEMMA TimerKnown ==
  ASSUME Core, Rest, KnownInv, Lasting, NEW t \in timers, FireTimer(t)
  PROVE  KnownInv'
<1> DEFINE e == NewEvent("TimerFired", t.id, t.tok)
           c == NewEvent("TimerCreated", t.id, t.tok)
<1>1. t.inst \in Ids /\ t.id \in Nat /\ t.tok \in Nat
      /\ t = [inst |-> t.inst, id |-> t.id, tok |-> t.tok]
  BY DEF Rest, Activity
<1>2. e \in Event /\ Cause(e) = c /\ c \in Event
  BY <1>1 DEF NewEvent, Event, Kinds, Cause, CauseKind
<1>3. Mark(t.inst, c) = t /\ c.kind = "TimerCreated"
  BY <1>1 DEF Mark, NewEvent
<1>4. Fewer
  BY SameFewer DEF FireTimer
<1>5. (Exists(t.inst) /\ Post(t.inst, e)) \/ inst' = inst
  BY DEF FireTimer, Receives
<1> HIDE DEF e, c
<1>6. c \in Due(t.inst)
  BY <1>2, <1>3 DEF Due, DueFor
<1> QED
  BY <1>1, <1>2, <1>4, <1>5, <1>6, ResultKnown

LEMMA ReportKnown ==
  ASSUME Core, Rest, KnownInv, Lasting, NEW w \in watchers, ReportSubOrchestration(w)
  PROVE  KnownInv'
<1> DEFINE c == NewEvent("SubCreated", w.id, w.tok)
<1>1. w.parent \in Ids /\ w.id \in Nat /\ w.tok \in Nat
  BY DEF Rest, Watcher
<1>2. PICK kind \in {"SubCompleted", "SubFailed"} :
        (Exists(w.parent) /\ Post(w.parent, NewEvent(kind, w.id, w.tok))) \/ inst' = inst
  BY DEF ReportSubOrchestration, Receives
<1> DEFINE e == NewEvent(kind, w.id, w.tok)
<1>3. e \in Event /\ Cause(e) = c /\ c \in Event
  BY <1>1 DEF NewEvent, Event, Kinds, Cause, CauseKind
<1>4. Mark(w.parent, c) = Mark(w.parent, w) /\ c.kind = "SubCreated"
  BY DEF Mark, NewEvent
<1>5. Fewer
  BY SameFewer DEF ReportSubOrchestration
<1>6. (Exists(w.parent) /\ Post(w.parent, e)) \/ inst' = inst
  BY <1>2
<1> HIDE DEF e, c
<1>7. c \in Due(w.parent)
  BY <1>3, <1>4 DEF Due, DueFor, WatchMarks
<1> QED
  BY <1>1, <1>3, <1>5, <1>6, <1>7, ResultKnown

LEMMA KnownStep ==
  ASSUME OnceHolds, KnownInv, "CONTINUED" \notin Outcomes, Lasting, [Next]_vars
  PROVE  KnownInv'
<1> USE DEF OnceHolds
<1>1. ASSUME AllOrdinary PROVE KnownInv'
  BY <1>1, FewerDue, OrdinaryKnown DEF AllOrdinary, KnownInv
<1>2. CASE UNCHANGED vars
  BY <1>1, <1>2, SameFewer DEF vars, AllOrdinary, Ordinary
<1>3. CASE Request
  BY <1>1, <1>3, RequestOrdinary
<1>4. CASE GetWorkItems
  BY <1>1, <1>4, GetWorkItemsOrdinary
<1>5. CASE Worker
  <2>1. ASSUME NEW i \in Ids, CompleteOrchestratorTask(i) PROVE KnownInv'
    <3>1. PICK r \in Responses : \E carry : Accept(i, r, carry)
      BY <2>1, Accepted
    <3>2. running' = running /\ r.outcome # "CONTINUED"
      BY <2>1, Accepted DEF Responses
    <3> QED
      BY <3>1, <3>2, AcceptKnown
  <2>2. ASSUME NEW a \in running, CompleteActivityTask(a) PROVE KnownInv'
    BY <2>2, ActivityKnown
  <2> QED
    BY <1>1, <1>5, <2>1, <2>2, WorkerOrdinary
<1>6. CASE Background
  BY <1>1, <1>6, TimerKnown, ReportKnown, BackgroundOrdinary
<1> QED
  BY <1>2, <1>3, <1>4, <1>5, <1>6 DEF Next

LEMMA KnownInit == Init => KnownInv
<1> SUFFICES ASSUME Init PROVE KnownInv
  OBVIOUS
<1>1. TaskMarks = {} /\ timers = {} /\ WatchMarks = {}
  BY ToSetEmpty DEF Init, TaskMarks, WatchMarks
<1>2. \A i \in Ids : Due(i) = {}
  BY <1>1 DEF Due, DueFor
<1> QED
  BY <1>2, KnownAbsent DEF Init, KnownInv

LEMMA KnownResults ==
  ASSUME Core, OnceInv, KnownInv
  PROVE  ResultsOnce
<1> SUFFICES ASSUME NEW i \in Ids, NEW k \in DOMAIN Events(i),
                    Events(i)[k].kind \in Results
             PROVE  \E kind \in Scheduling :
                      /\ Events(i)[k].kind \in ResultOf(kind)
                      /\ \E j \in DOMAIN Events(i) :
                           /\ Events(i)[j].id = Events(i)[k].id
                           /\ Events(i)[j].tok = Events(i)[k].tok
                           /\ j < k /\ Events(i)[j].kind = kind
                      /\ \A j \in DOMAIN Events(i) :
                           /\ Events(i)[j].id = Events(i)[k].id
                           /\ Events(i)[j].tok = Events(i)[k].tok
                           /\ Events(i)[j].kind \in ResultOf(kind)
                           => j = k
  BY DEF ResultsOnce, Results, Scheduling
<1> DEFINE s == Events(i)
           e == s[k]
           kind == CauseKind(e.kind)
<1>1. /\ s \in Seq(Event) /\ Single(s) /\ Late(s) /\ ToSet(s) = Sees(inst[i])
  BY AllOnce DEF Core, OnceInv, Events, AllOf
<1> HIDE DEF s
<1>2. e \in Event /\ k \in DOMAIN s /\ e.kind \in Results
  BY <1>1 DEF s
<1>3. kind \in Scheduling /\ e.kind \in ResultOf(kind)
  BY <1>2, ResultKinds DEF Results, Scheduling, CauseKind
<1>4. PICK j \in DOMAIN s : s[j] = Cause(e)
  <2>1. Cause(e) \in Causes(Sees(inst[i]))
    BY <1>1, <1>2 DEF Causes, ToSet
  <2>2. Cause(e) \in Sees(inst[i])
    BY <2>1 DEF KnownInv, Known, Sees
  <2> QED
    BY <1>1, <2>2 DEF ToSet
<1>5. j < k /\ s[j].id = e.id /\ s[j].tok = e.tok /\ s[j].kind = kind
  BY <1>1, <1>2, <1>4 DEF Late, Cause, NewEvent
<1>6. ASSUME NEW m \in DOMAIN s, s[m].id = e.id, s[m].tok = e.tok, s[m].kind \in ResultOf(kind)
      PROVE  m = k
  <2>1. s[m] \in Event
    BY <1>1
  <2>2. s[m].kind \in Results /\ Cause(s[m]) = Cause(e)
    BY <1>2, <1>3, <1>6, <2>1, ResultCause
  <2> QED
    BY <1>1, <1>2, <2>2 DEF Single
<1> QED
  BY <1>3, <1>5, <1>6 DEF s

(* Every result has its cause before it in the history and is the only one   *)
(* of that cause, in the behaviours where an execution that has a history    *)
(* keeps it: an id that is started, restarted or created anew, purged or     *)
(* reset drops the history, and late activities, timers and watchers of the  *)
(* execution before report to the new one (CompleteActivityTask looks at the *)
(* id alone).  So they do after a continue-as-new, which is why that is left *)
(* out.                                                                      *)
THEOREM ResultsOnceTheorem ==
  ASSUME "CONTINUED" \notin Outcomes
  PROVE  Spec /\ [][Lasting]_vars => []ResultsOnce
<1>1. Init => KnownInv
  BY KnownInit
<1>2. UNCHANGED vars => Lasting
  BY DEF vars, Lasting
<1>3. OnceHolds /\ KnownInv /\ [Next]_vars /\ [Lasting]_vars => KnownInv'
  BY <1>2, KnownStep
<1>4. OnceHolds /\ KnownInv => ResultsOnce
  BY KnownResults DEF OnceHolds
<1> QED
  BY <1>1, <1>3, <1>4, OnceTheorem, PTL DEF Spec

(* No id is used for a second execution. *)
Unreplaced ==
  /\ Replaceable = {} /\ {"Purge", "Restart", "Reset"} \intersect Requests = {}
  /\ ~SubOrchs /\ "CONTINUED" \notin Outcomes

GoneEmpty == \A i \in Ids : ~Exists(i) => inst[i].history = <<>>

LEMMA LastingStep ==
  ASSUME Core, Rest, Unreplaced, GoneEmpty, [Next]_vars
  PROVE  Lasting /\ GoneEmpty'
<1> DEFINE Same(i) == inst'[i].history = inst[i].history /\ inst'[i].status = inst[i].status
<1>1. ASSUME \A i \in Ids : Same(i) PROVE Lasting /\ GoneEmpty'
  BY <1>1 DEF Lasting, GoneEmpty, Exists
<1>2. ASSUME inst' = inst PROVE Lasting /\ GoneEmpty'
  BY <1>1, <1>2
<1>3. ASSUME NEW i \in Ids, NEW e, Post(i, e) PROVE Lasting /\ GoneEmpty'
  <2>1. Same(i)
    BY <1>3, InstanceFields DEF Post, Core, Instance
  <2>2. \A j \in Ids : j # i => inst'[j] = inst[j]
    BY <1>3 DEF Post, Core
  <2> QED
    BY <1>1, <2>1, <2>2
<1>4. ASSUME NEW i \in Ids, StartInstance(i) PROVE Lasting /\ GoneEmpty'
  <2>1. ~Exists(i) /\ inst'[i] = Fresh(nextToken) /\ \A j \in Ids : j # i => inst'[j] = inst[j]
    BY <1>4 DEF StartInstance, Unreplaced, Exists, Core
  <2>2. inst[i].history = <<>> /\ Exists(i)'
    BY <2>1 DEF GoneEmpty, Exists, Fresh
  <2> QED
    BY <2>1, <2>2 DEF Lasting, GoneEmpty, Exists
<1>5. CASE Request
  BY <1>3, <1>4, <1>5 DEF Request, Call, Unreplaced, RaiseEvent, TerminateInstance,
       SuspendInstance, ResumeInstance, RestartInstance, PurgeInstances, Reset
<1>6. CASE GetWorkItems
  <2>1. CASE DispatchOrchestration
    <3>0. PICK i \in Ids : \E new, item : Dispatches(i, new, item)
      BY <2>1, DispatchedInstance
    <3>1. PICK new, item : Dispatches(i, new, item)
      BY <3>0
    <3>2. /\ inst'[i] = [inst[i] EXCEPT !.dispatched = new, !.pending = <<>>]
          /\ \A j \in Ids : j # i => inst'[j] = inst[j]
      BY <3>1 DEF Dispatches, Core
    <3>3. Same(i)
      BY <3>2 DEF Core, Instance
    <3> QED
      BY <1>1, <3>2, <3>3
  <2> QED
    BY <1>2, <1>6, <2>1 DEF GetWorkItems, RequeueInFlight, NoOrchestrationReady
<1>7. ASSUME NEW i \in Ids, NEW token, Abandon(i, token) PROVE Lasting /\ GoneEmpty'
  <2>1. CASE inst' = [inst EXCEPT ![i] = Restored(inst[i])]
    <3>1. inst'[i] = Restored(inst[i]) /\ \A j \in Ids : j # i => inst'[j] = inst[j]
      BY <2>1 DEF Core
    <3>2. Same(i)
      BY <3>1 DEF Core, Instance, Restored
    <3> QED
      BY <1>1, <3>1, <3>2
  <2> QED
    BY <1>2, <1>7, <2>1 DEF Abandon
<1>8. ASSUME NEW i \in Ids, CompleteOrchestratorTask(i) PROVE Lasting /\ GoneEmpty'
  <2>1. PICK r \in Responses : \E carry : Accept(i, r, carry)
    BY <1>8, Accepted
  <2>2. PICK carry : Accept(i, r, carry)
    BY <2>1
  <2>3. /\ r.sub = None /\ r.outcome # "CONTINUED"
        /\ r.outcome \in {"none", "CONTINUED", "raise"} \union Terminal
    BY ResponseFields, OutcomesAssumption DEF Responses, Unreplaced
  <2>4. PICK token : inst'[i] = Committed(inst[i], r, carry, token)
    BY <2>2 DEF Accept
  <2>5. \A j \in Ids : j # i => inst'[j] = inst[j]
    BY <2>2, <2>3 DEF Accept
  <2>6. Settled(inst[i], r, carry, inst'[i])
    BY <2>4, CommittedFields
  <2>7. Exists(i)'
    <3>1. CommittedStatus(inst[i].status, inst[i].dispatched) # "NONE"
      BY <1>8, Accepted DEF CommittedStatus, Exists
    <3> QED
      BY <2>3, <2>6, <3>1 DEF Settled, FinalStatus, Exists, Terminal
  <2>8. inst[i].history # <<>> => inst'[i].history # <<>>
    <3> DEFINE h == inst[i].history
               d == inst[i].dispatched
               c == Confirmations(r, inst[i].token)
    <3>1. inst'[i].history = (h \o d) \o c
      BY <2>3, <2>6 DEF Settled
    <3>2. h \in Seq(Event) /\ d \in Seq(Event) /\ c \in Seq(Event)
      BY InstanceFields, ConfirmationsType DEF Core
    <3> HIDE DEF h, d, c
    <3>3. h \o d \in Seq(Event) /\ (h # <<>> => h \o d # <<>>)
      BY <3>2
    <3>4. h # <<>> => (h \o d) \o c # <<>>
      <4> DEFINE hd == h \o d
      <4>1. hd \in Seq(Event) /\ (h # <<>> => hd # <<>>)
        BY <3>3
      <4> HIDE DEF hd
      <4>2. h # <<>> => hd \o c # <<>>
        BY <3>2, <4>1
      <4> QED
        BY <4>2 DEF hd
    <3> QED
      BY <3>1, <3>4 DEF h
  <2> QED
    BY <2>5, <2>7, <2>8 DEF Lasting, GoneEmpty, Exists
<1>9. CASE Worker
  <2>1. ASSUME NEW a \in running, CompleteActivityTask(a) PROVE Lasting /\ GoneEmpty'
    BY <1>2, <1>3, <2>1 DEF CompleteActivityTask, Rest, Activity
  <2>2. CASE AbandonAgain
    BY <1>7, <2>2 DEF AbandonAgain, Rest
  <2> QED
    BY <1>2, <1>7, <1>8, <1>9, <2>1, <2>2
       DEF Worker, IgnoredAnswer, AbandonTaskOrchestratorWorkItem, LoseAnswer,
           AbandonTaskActivityWorkItem, WorkerCrash
<1>10. CASE Background
  <2>1. ASSUME NEW t \in timers, FireTimer(t) PROVE Lasting /\ GoneEmpty'
    BY <1>2, <1>3, <2>1 DEF FireTimer, Rest, Activity
  <2>2. ASSUME NEW w \in watchers, ReportSubOrchestration(w) PROVE Lasting /\ GoneEmpty'
    BY <1>2, <1>3, <2>2 DEF ReportSubOrchestration, Rest, Watcher
  <2> QED
    BY <1>2, <1>10, <2>1, <2>2 DEF Background, StartWatching, WatcherTimeout
<1> QED
  BY <1>2, <1>5, <1>6, <1>9, <1>10 DEF Next, vars

(* With ids that are never used again every history lasts, so ResultsOnce    *)
(* holds without any assumption on behaviours, whatever workers and faults   *)
(* do (StartInstance refuses an id in use when no status is replaceable).    *)
COROLLARY UnreplacedCorollary ==
  ASSUME Unreplaced
  PROVE  Spec => []ResultsOnce
<1>1. Init => GoneEmpty
  BY DEF Init, GoneEmpty, Absent
<1>2. OnceHolds /\ GoneEmpty /\ [Next]_vars => GoneEmpty' /\ Lasting
  BY LastingStep DEF OnceHolds
<1>3. Spec => [][Lasting]_vars
  BY <1>1, <1>2, OnceTheorem, PTL DEF Spec
<1>4. Spec /\ [][Lasting]_vars => []ResultsOnce
  BY ResultsOnceTheorem DEF Unreplaced
<1> QED
  BY <1>3, <1>4, PTL

=============================================================================
