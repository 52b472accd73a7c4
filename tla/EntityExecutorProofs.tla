-------------------------- MODULE EntityExecutorProofs --------------------------
(***************************************************************************)
(* What a batch of entity operations leaves behind, proved of              *)
(* EntityExecutor: the signals and orchestrations that the backend is told *)
(* of, and the state that the next operation sees.                         *)
(***************************************************************************)
EXTENDS EntityExecutor, SequenceFacts

States == Values \union {None}
Actions == {"signal", "start"} \X Op \X Nat
Entries == [saw : States, ok : BOOLEAN, left : States, actions : Seq(Actions)]

(* What the code that maintains the shim takes for granted. *)
Shapes ==
  /\ TypeOK
  /\ heap \in Seq(Values)
  /\ shim \in [current : Nat, checkpoint : Nat, actions : Seq(Actions), committed : Nat]
  /\ steps \in [saw : States, count : Nat, actions : Seq(Actions), inPlace : BOOLEAN]
  /\ log \in Seq(Entries) /\ attempt \in Seq(Entries) /\ sent \in Seq(Actions)
  /\ arrived \in 0..MaxOps /\ inside \in BOOLEAN
  /\ inside => Executing /\ Position <= Len(batch)

(* The actions of the operations of E that succeeded. *)
Chosen(E) == [k \in DOMAIN E |-> IF E[k].ok THEN E[k].actions ELSE <<>>]
Done(E) == FlattenSeq(Chosen(E))

ActionsInv ==
  /\ sent = Done(log)
  /\ Executing => GetOperationActions = Done(attempt)
  /\ inside => shim.actions = GetOperationActions \o steps.actions
  /\ Executing /\ ~inside => shim.actions = GetOperationActions

(* The state after the operations E. *)
After(E) == IF E = <<>> THEN None
            ELSE IF E[Len(E)].ok THEN E[Len(E)].left ELSE E[Len(E)].saw

StateInv ==
  /\ StateOfLastSuccess
  /\ stored = After(log)
  /\ ~Executing => attempt = <<>>
  /\ Executing /\ ~inside => shim.current = shim.checkpoint /\ GetState = After(Executed)
  /\ inside => /\ steps.saw = After(Executed)
               /\ ~steps.inPlace => Content(shim.checkpoint) = steps.saw

-----------------------------------------------------------------------------
(* Shapes *)

LEMMA ContentType ==
  ASSUME heap \in Seq(Values), NEW k \in 0..Len(heap)
  PROVE  Content(k) \in States
  BY DEF Content, States

LEMMA ShapesInit ==
  ASSUME Init
  PROVE  Shapes
<1>1. <<>> \in Seq(Op) /\ <<>> \in Seq(BOOLEAN) /\ <<>> \in Seq(Values)
      /\ <<>> \in Seq(Actions) /\ <<>> \in Seq(Entries) /\ Len(<<>>) = 0
  OBVIOUS
<1>2. 0 \in 0..MaxOps
  BY BoundAssumption
<1>3. steps \in [saw : States, count : Nat, actions : Seq(Actions), inPlace : BOOLEAN]
  BY <1>1 DEF Init, States
<1>4. shim = [current |-> 0, checkpoint |-> 0, actions |-> <<>>, committed |-> 0]
  BY DEF Init, StateShim
<1>5. shim \in [current : Nat, checkpoint : Nat, actions : Seq(Actions), committed : Nat]
  BY <1>1, <1>4
<1>6. TypeOK
  BY <1>1, <1>4 DEF Init, TypeOK
<1> QED
  BY <1>1, <1>2, <1>3, <1>5, <1>6 DEF Init, Shapes

Shim == [current : Nat, checkpoint : Nat, actions : Seq(Actions), committed : Nat]

(* A shim whose references are to objects of h. *)
Fits(s, h) ==
  /\ s \in Shim
  /\ {s.current, s.checkpoint} \subseteq 0..Len(h)
  /\ s.committed \in 0..Len(s.actions)

LEMMA ShimFits ==
  ASSUME Shapes
  PROVE  /\ Fits(shim, heap)
         /\ GetState \in States
         /\ GetOperationActions \in Seq(Actions)
<1>1. Fits(shim, heap)
  BY DEF Shapes, TypeOK, Fits, Shim
<1>2. shim.actions \in Seq(Actions) /\ shim.committed \in 0..Len(shim.actions)
  BY <1>1 DEF Fits, Shim
<1>3. GetOperationActions \in Seq(Actions)
  BY <1>2 DEF GetOperationActions
<1> QED
  BY <1>1, <1>3, ContentType DEF Shapes, TypeOK, GetState

LEMMA EndedShapes ==
  ASSUME Shapes, NEW saw \in States, NEW ok \in BOOLEAN, NEW actions \in Seq(Actions),
         Ended(saw, ok, actions)
  PROVE  /\ results' \in Seq(BOOLEAN) /\ attempt' \in Seq(Entries)
         /\ Fits(shim', heap)
<1>1. Fits(shim, heap) /\ GetState \in States /\ GetOperationActions \in Seq(Actions)
  BY ShimFits
<1>2. results' \in Seq(BOOLEAN)
  BY DEF Ended, Shapes, TypeOK
<1>3. attempt' \in Seq(Entries)
  <2>1. [saw |-> saw, ok |-> ok, left |-> GetState, actions |-> actions] \in Entries
    BY <1>1 DEF Entries
  <2> QED
    BY <2>1 DEF Ended, Shapes
<1>4. /\ shim \in Shim
      /\ shim.current \in 0..Len(heap) /\ shim.checkpoint \in 0..Len(heap)
      /\ shim.committed \in 0..Len(shim.actions)
      /\ shim.actions \in Seq(Actions) /\ Len(shim.actions) \in Nat
  BY <1>1 DEF Fits, Shim
<1>5. CASE ok
  <2>1. shim' = [shim EXCEPT !.checkpoint = shim.current, !.committed = Len(shim.actions)]
    BY <1>5 DEF Ended, Commit
  <2>2. /\ shim' \in Shim
        /\ shim'.current = shim.current /\ shim'.checkpoint = shim.current
        /\ shim'.committed = Len(shim.actions) /\ shim'.actions = shim.actions
    BY <1>4, <2>1 DEF Shim
  <2> QED
    BY <1>2, <1>3, <1>4, <2>2 DEF Fits
<1>6. CASE ~ok
  <2>1. shim' = [shim EXCEPT !.current = shim.checkpoint, !.actions = GetOperationActions]
    BY <1>6 DEF Ended, Rollback
  <2>2. /\ shim' \in Shim
        /\ shim'.current = shim.checkpoint /\ shim'.checkpoint = shim.checkpoint
        /\ shim'.committed = shim.committed /\ shim'.actions = GetOperationActions
    BY <1>1, <1>4, <2>1 DEF Shim
  <2>3. Len(GetOperationActions) = shim.committed
    BY <1>4 DEF GetOperationActions
  <2> QED
    BY <1>2, <1>3, <1>4, <2>2, <2>3 DEF Fits
<1> QED
  BY <1>5, <1>6

LEMMA ShapesFrom ==
  ASSUME Fits(shim', heap'), heap' \in Seq(Values),
         waiting' \in Seq(Op), batch' \in Seq(Op), results' \in Seq(BOOLEAN),
         stored' \in States,
         steps' \in [saw : States, count : Nat, actions : Seq(Actions), inPlace : BOOLEAN],
         log' \in Seq(Entries), attempt' \in Seq(Entries), sent' \in Seq(Actions),
         arrived' \in 0..MaxOps, inside' \in BOOLEAN,
         inside' => Executing' /\ Position' <= Len(batch')
  PROVE  Shapes'
<1>1. TypeOK'
  BY DEF TypeOK, Fits, States
<1>2. shim' \in [current : Nat, checkpoint : Nat, actions : Seq(Actions), committed : Nat]
  BY DEF Fits, Shim
<1> QED
  BY <1>1, <1>2 DEF Shapes

LEMMA ShapesNow ==
  ASSUME Shapes
  PROVE  /\ Fits(shim, heap) /\ heap \in Seq(Values)
         /\ waiting \in Seq(Op) /\ batch \in Seq(Op) /\ results \in Seq(BOOLEAN)
         /\ stored \in States
         /\ steps \in [saw : States, count : Nat, actions : Seq(Actions),
                       inPlace : BOOLEAN]
         /\ log \in Seq(Entries) /\ attempt \in Seq(Entries) /\ sent \in Seq(Actions)
         /\ arrived \in 0..MaxOps /\ inside \in BOOLEAN
         /\ inside => Executing /\ Position <= Len(batch)
  BY ShimFits DEF Shapes, TypeOK, States

LEMMA ArriveShapes ==
  ASSUME Shapes, Arrive
  PROVE  Shapes'
<1>1. arrived + 1 \in Op /\ arrived + 1 \in 0..MaxOps
  BY ShapesNow, BoundAssumption DEF Arrive, Op
<1>2. waiting' \in Seq(Op) /\ arrived' \in 0..MaxOps
  BY <1>1, ShapesNow DEF Arrive
<1>3. Fits(shim', heap') /\ (inside' => Executing' /\ Position' <= Len(batch'))
  BY ShapesNow DEF Arrive, Executing, Position
<1> QED
  BY <1>2, <1>3, ShapesNow, ShapesFrom DEF Arrive

LEMMA ExecuteEntityBatchShapes ==
  ASSUME Shapes, ExecuteEntityBatch
  PROVE  Shapes'
<1>1. heap' \in Seq(Values) /\ Len(heap') \in Nat
  BY ShapesNow DEF ExecuteEntityBatch, States
<1>2. Fits(shim', heap')
  <2>1. shim' = [current |-> Len(heap'), checkpoint |-> Len(heap'), actions |-> <<>>,
                 committed |-> 0]
    BY DEF ExecuteEntityBatch, StateShim
  <2>2. <<>> \in Seq(Actions) /\ Len(<<>>) = 0
    OBVIOUS
  <2> QED
    BY <1>1, <2>1, <2>2 DEF Fits, Shim
<1>3. <<>> \in Seq(Op) /\ <<>> \in Seq(BOOLEAN) /\ <<>> \in Seq(Entries)
  OBVIOUS
<1>4. ~inside
  BY ShapesNow DEF ExecuteEntityBatch
<1> QED
  BY <1>1, <1>2, <1>3, <1>4, ShapesNow, ShapesFrom DEF ExecuteEntityBatch

LEMMA ExecuteShapes ==
  ASSUME Shapes, Execute
  PROVE  Shapes'
<1>1. steps' \in [saw : States, count : Nat, actions : Seq(Actions), inPlace : BOOLEAN]
  BY ShimFits DEF Execute
<1>2. Executing' /\ Position' <= Len(batch')
  <2>1. Len(results) \in Nat /\ Len(batch) \in Nat
    BY ShapesNow
  <2> QED
    BY <2>1 DEF Execute, Executing, Position, BatchOver
<1>3. Fits(shim', heap') /\ inside' \in BOOLEAN
  BY ShapesNow DEF Execute
<1> QED
  BY <1>1, <1>2, <1>3, ShapesNow, ShapesFrom DEF Execute, backend

LEMMA RefuseShapes ==
  ASSUME Shapes, Refuse
  PROVE  Shapes'
<1>1. <<>> \in Seq(Actions) /\ GetState \in States
  BY ShimFits
<1>2. Ended(GetState, FALSE, <<>>)
  BY DEF Refuse
<1>3. /\ results' \in Seq(BOOLEAN) /\ attempt' \in Seq(Entries)
      /\ Fits(shim', heap)
  BY <1>1, <1>2, EndedShapes
<1>4. ~inside' /\ inside' \in BOOLEAN
  BY ShapesNow DEF Refuse
<1> QED
  BY <1>3, <1>4, ShapesNow, ShapesFrom DEF Refuse, backend

LEMMA EndShapes ==
  ASSUME Shapes, Return \/ Raise
  PROVE  Shapes'
<1>1. steps.saw \in States /\ steps.actions \in Seq(Actions)
  BY ShapesNow
<1>2. Ended(steps.saw, TRUE, steps.actions) \/ Ended(steps.saw, FALSE, steps.actions)
  BY DEF Return, Raise
<1>3. /\ results' \in Seq(BOOLEAN) /\ attempt' \in Seq(Entries)
      /\ Fits(shim', heap)
  BY <1>1, <1>2, EndedShapes
<1> QED
  BY <1>3, ShapesNow, ShapesFrom DEF Return, Raise, backend

(* Whatever user code does, it goes on inside. *)
LEMMA StepShapes ==
  ASSUME Shapes, NEW inPlace \in BOOLEAN, NEW actions \in Seq(Actions),
         Step(inPlace, actions), Fits(shim', heap'), heap' \in Seq(Values)
  PROVE  Shapes'
<1>1. steps \in [saw : States, count : Nat, actions : Seq(Actions), inPlace : BOOLEAN]
  BY ShapesNow
<1>2. /\ steps.count + 1 \in Nat /\ (steps.inPlace \/ inPlace) \in BOOLEAN
      /\ steps.actions \o actions \in Seq(Actions)
  BY <1>1
<1>3. steps' \in [saw : States, count : Nat, actions : Seq(Actions), inPlace : BOOLEAN]
  BY <1>1, <1>2 DEF Step
<1>4. inside' => Executing' /\ Position' <= Len(batch')
  BY ShapesNow DEF Step, Executing, Position
<1> QED
  BY <1>3, <1>4, ShapesNow, ShapesFrom DEF Step, backend

LEMMA SetStateFits ==
  ASSUME Shapes, NEW v \in States, SetState(v)
  PROVE  Fits(shim', heap') /\ heap' \in Seq(Values)
<1>1. /\ shim \in Shim /\ heap \in Seq(Values) /\ Len(heap) \in Nat
      /\ shim.current \in 0..Len(heap) /\ shim.checkpoint \in 0..Len(heap)
      /\ shim.committed \in 0..Len(shim.actions)
  BY ShapesNow DEF Fits, Shim
<1>2. CASE v = None
  <2>1. shim' = [shim EXCEPT !.current = 0] /\ heap' = heap
    BY <1>2 DEF SetState
  <2>2. /\ shim' \in Shim /\ shim'.current = 0 /\ shim'.checkpoint = shim.checkpoint
        /\ shim'.committed = shim.committed /\ shim'.actions = shim.actions
    BY <1>1, <2>1 DEF Shim
  <2> QED
    BY <1>1, <2>1, <2>2 DEF Fits
<1>3. CASE v # None
  <2>1. shim' = [shim EXCEPT !.current = Len(heap) + 1] /\ heap' = Append(heap, v)
    BY <1>3 DEF SetState
  <2>2. v \in Values
    BY <1>3 DEF States
  <2>3. heap' \in Seq(Values) /\ Len(heap') = Len(heap) + 1
    BY <1>1, <2>1, <2>2
  <2>4. /\ shim' \in Shim /\ shim'.current = Len(heap) + 1
        /\ shim'.checkpoint = shim.checkpoint
        /\ shim'.committed = shim.committed /\ shim'.actions = shim.actions
    BY <1>1, <2>1 DEF Shim
  <2> QED
    BY <1>1, <2>3, <2>4 DEF Fits
<1> QED
  BY <1>2, <1>3

LEMMA SetShapes ==
  ASSUME Shapes, NEW v \in States, Set(v)
  PROVE  Shapes'
<1>1. <<>> \in Seq(Actions) /\ FALSE \in BOOLEAN
  OBVIOUS
<1>2. Step(FALSE, <<>>) /\ SetState(v)
  BY Zenon DEF Set
<1>3. Fits(shim', heap') /\ heap' \in Seq(Values)
  BY <1>2, SetStateFits
<1> QED
  BY <1>1, <1>2, <1>3, StepShapes

LEMMA DeleteIsSet ==
  ASSUME Delete
  PROVE  Set(None) /\ None \in States
  BY DEF Delete, Set, States

LEMMA ChangeInPlaceShapes ==
  ASSUME Shapes, NEW v \in Values, ChangeInPlace(v)
  PROVE  Shapes'
<1>1. heap \in Seq(Values) /\ Len(heap) \in Nat /\ shim.current \in 1..Len(heap)
      /\ shim.checkpoint \in 0..Len(heap) /\ Fits(shim, heap)
  BY ShapesNow DEF Fits, Shim, ChangeInPlace
<1>2. heap' = [heap EXCEPT ![shim.current] = v] /\ shim' = shim
  BY DEF ChangeInPlace
<1>3. heap' \in Seq(Values) /\ Len(heap') = Len(heap)
  BY <1>1, <1>2
<1>4. Fits(shim', heap')
  BY <1>1, <1>2, <1>3 DEF Fits
<1>5. /\ (shim.current = shim.checkpoint) \in BOOLEAN /\ <<>> \in Seq(Actions)
      /\ Step(shim.current = shim.checkpoint, <<>>)
  BY DEF ChangeInPlace
<1> QED
  BY <1>3, <1>4, <1>5, StepShapes

(* A signal or a new orchestration. *)
Acts(a) == /\ Step(FALSE, <<a>>)
           /\ AddOperationAction(a) /\ UNCHANGED heap

LEMMA ActsIsAction ==
  ASSUME Shapes, SignalEntity \/ ScheduleNewOrchestration
  PROVE  \E a \in Actions : Acts(a)
<1>1. inside /\ (Acts(Action("signal")) \/ Acts(Action("start")))
  BY DEF SignalEntity, ScheduleNewOrchestration, Acts, Step
<1>2. batch \in Seq(Op) /\ Position \in 1..Len(batch) /\ steps.count \in Nat
  <2>1. Position <= Len(batch) /\ Len(results) \in Nat
    BY <1>1, ShapesNow
  <2>2. batch \in Seq(Op) /\ steps.count \in Nat
    BY ShapesNow
  <2> QED
    BY <2>1, <2>2 DEF Position
<1>3. Action("signal") \in Actions /\ Action("start") \in Actions
  BY <1>2 DEF Action, Actions
<1> QED
  BY <1>1, <1>3

LEMMA AddOperationActionFits ==
  ASSUME Shapes, NEW a \in Actions, AddOperationAction(a)
  PROVE  /\ Fits(shim', heap)
         /\ shim'.actions = shim.actions \o <<a>>
         /\ shim'.committed = shim.committed
         /\ shim'.current = shim.current /\ shim'.checkpoint = shim.checkpoint
<1>1. /\ shim \in Shim /\ Len(heap) \in Nat
      /\ shim.current \in 0..Len(heap) /\ shim.checkpoint \in 0..Len(heap)
      /\ shim.committed \in 0..Len(shim.actions) /\ shim.actions \in Seq(Actions)
  BY ShapesNow DEF Fits, Shim
<1>2. shim' = [shim EXCEPT !.actions = Append(shim.actions, a)]
  BY DEF AddOperationAction
<1>3. /\ Append(shim.actions, a) \in Seq(Actions)
      /\ Append(shim.actions, a) = shim.actions \o <<a>>
      /\ Len(Append(shim.actions, a)) = Len(shim.actions) + 1
  BY <1>1
<1>4. /\ shim' \in Shim
      /\ shim'.current = shim.current /\ shim'.checkpoint = shim.checkpoint
      /\ shim'.committed = shim.committed /\ shim'.actions = Append(shim.actions, a)
  BY <1>1, <1>2, <1>3 DEF Shim
<1>5. shim'.committed \in 0..Len(shim'.actions)
  BY <1>1, <1>3, <1>4
<1> QED
  BY <1>1, <1>3, <1>4, <1>5 DEF Fits

LEMMA ActsShapes ==
  ASSUME Shapes, NEW a \in Actions, Acts(a)
  PROVE  Shapes'
<1>1. <<a>> \in Seq(Actions) /\ FALSE \in BOOLEAN
  OBVIOUS
<1>2. Step(FALSE, <<a>>) /\ AddOperationAction(a) /\ heap' = heap
  BY DEF Acts
<1>3. Fits(shim', heap') /\ heap' \in Seq(Values)
  BY <1>2, AddOperationActionFits, ShapesNow
<1> QED
  BY <1>1, <1>2, <1>3, StepShapes

LEMMA CompleteShapes ==
  ASSUME Shapes, CompleteEntityTask
  PROVE  Shapes'
<1>1. stored' \in States
  BY ShimFits DEF CompleteEntityTask, Encoded, States
<1>2. sent' \in Seq(Actions) /\ log' \in Seq(Entries)
  BY ShimFits, ShapesNow DEF CompleteEntityTask
<1>3. batch' \in Seq(Op) /\ results' \in Seq(BOOLEAN) /\ attempt' \in Seq(Entries)
  BY DEF CompleteEntityTask, Closed
<1>4. ~inside' /\ inside' \in BOOLEAN
  BY ShapesNow DEF CompleteEntityTask
<1> QED
  BY <1>1, <1>2, <1>3, <1>4, ShapesNow, ShapesFrom DEF CompleteEntityTask

LEMMA CancelShapes ==
  ASSUME Shapes, CancelEntityBatch
  PROVE  Shapes'
<1>1. waiting' \in Seq(Op)
  BY ShapesNow DEF CancelEntityBatch
<1>2. batch' \in Seq(Op) /\ results' \in Seq(BOOLEAN) /\ attempt' \in Seq(Entries)
  BY DEF CancelEntityBatch, Closed
<1>3. ~inside' /\ inside' \in BOOLEAN
  BY ShapesNow DEF CancelEntityBatch
<1> QED
  BY <1>1, <1>2, <1>3, ShapesNow, ShapesFrom DEF CancelEntityBatch

LEMMA ShapesStep ==
  ASSUME Shapes, [Next]_vars
  PROVE  Shapes'
<1>1. CASE UNCHANGED vars
  BY <1>1 DEF vars, backend, Shapes, TypeOK, Executing, Position
<1>2. CASE \E v \in Settable : Set(v) \/ ChangeInPlace(v)
  <2>1. PICK v \in Settable : Set(v) \/ ChangeInPlace(v)
    BY <1>2
  <2>2. v \in Values /\ v \in States
    BY DEF Settable, States
  <2> QED
    BY <2>1, <2>2, SetShapes, ChangeInPlaceShapes
<1>3. CASE SignalEntity \/ ScheduleNewOrchestration
  BY <1>3, ActsIsAction, ActsShapes
<1>4. CASE Delete
  BY <1>4, DeleteIsSet, SetShapes
<1> QED
  BY <1>1, <1>2, <1>3, <1>4, ArriveShapes, ExecuteEntityBatchShapes, ExecuteShapes,
     RefuseShapes, EndShapes, CompleteShapes, CancelShapes DEF Next

LEMMA ShapesHold ==
  Spec => []Shapes
<1>1. Init => Shapes
  BY ShapesInit
<1>2. Shapes /\ [Next]_vars => Shapes'
  BY ShapesStep
<1> QED
  BY <1>1, <1>2, PTL DEF Spec

(* The references of a shim are to objects, and it is never committed up to *)
(* an action it does not hold; what the backend stores is a state.          *)
THEOREM TypeTheorem == Spec => []TypeOK
<1>1. Shapes => TypeOK
  BY DEF Shapes
<1> QED
  BY <1>1, ShapesHold, PTL

-----------------------------------------------------------------------------
(* Actions *)

LEMMA ChosenType ==
  ASSUME NEW E \in Seq(Entries)
  PROVE  Chosen(E) \in Seq(Seq(Actions))
<1> DEFINE F == [k \in DOMAIN E |-> IF E[k].ok THEN E[k].actions ELSE <<>>]
<1>1. DOMAIN E = 1..Len(E) /\ Len(E) \in Nat
  OBVIOUS
<1>2. ASSUME NEW k \in 1..Len(E) PROVE F[k] \in Seq(Actions)
  <2>1. E[k] \in Entries /\ k \in DOMAIN E
    BY <1>1
  <2>2. E[k].actions \in Seq(Actions) /\ <<>> \in Seq(Actions)
    BY <2>1 DEF Entries
  <2> QED
    BY <2>1, <2>2
<1>3. F = [k \in 1..Len(E) |-> F[k]]
  BY <1>1
<1> HIDE DEF F
<1>4. [k \in 1..Len(E) |-> F[k]] \in Seq(Seq(Actions))
  BY <1>1, <1>2
<1>5. F \in Seq(Seq(Actions))
  BY <1>3, <1>4
<1> QED
  BY <1>5 DEF F, Chosen

LEMMA ChosenConcat ==
  ASSUME NEW E \in Seq(Entries), NEW F \in Seq(Entries)
  PROVE  /\ Chosen(E) \in Seq(Seq(Actions)) /\ Chosen(F) \in Seq(Seq(Actions))
         /\ Chosen(E \o F) = Chosen(E) \o Chosen(F)
<1>1. /\ DOMAIN E = 1..Len(E) /\ DOMAIN F = 1..Len(F) /\ Len(E) \in Nat /\ Len(F) \in Nat
      /\ E \o F \in Seq(Entries) /\ Len(E \o F) = Len(E) + Len(F)
      /\ DOMAIN (E \o F) = 1..(Len(E) + Len(F))
  OBVIOUS
<1>2. /\ Chosen(E) \in Seq(Seq(Actions)) /\ Chosen(F) \in Seq(Seq(Actions))
      /\ Chosen(E \o F) \in Seq(Seq(Actions))
  BY <1>1, ChosenType
<1>3. /\ Len(Chosen(E)) = Len(E) /\ Len(Chosen(F)) = Len(F)
      /\ Len(Chosen(E \o F)) = Len(E) + Len(F)
  <2>1. /\ DOMAIN Chosen(E) = 1..Len(E) /\ DOMAIN Chosen(F) = 1..Len(F)
        /\ DOMAIN Chosen(E \o F) = 1..(Len(E) + Len(F))
    BY <1>1 DEF Chosen
  <2> QED
    BY <1>1, <1>2, <2>1, LenProperties
<1>4. Chosen(E) \o Chosen(F) \in Seq(Seq(Actions))
      /\ Len(Chosen(E) \o Chosen(F)) = Len(E) + Len(F)
  BY <1>2, <1>3, ConcatProperties
<1>5. ASSUME NEW k \in 1..(Len(E) + Len(F))
      PROVE  Chosen(E \o F)[k] = (Chosen(E) \o Chosen(F))[k]
  <2>1. CASE k \in 1..Len(E)
    <3>1. (E \o F)[k] = E[k] /\ (Chosen(E) \o Chosen(F))[k] = Chosen(E)[k]
      BY <1>1, <1>2, <1>3, <2>1
    <3>2. Chosen(E \o F)[k] = Chosen(E)[k]
      BY <1>1, <2>1, <3>1 DEF Chosen
    <3> QED
      BY <3>1, <3>2
  <2>2. CASE k \notin 1..Len(E)
    <3>1. k - Len(E) \in 1..Len(F)
      BY <1>1, <2>2
    <3>2. /\ (E \o F)[k] = F[k - Len(E)]
          /\ (Chosen(E) \o Chosen(F))[k] = Chosen(F)[k - Len(E)]
      BY <1>1, <1>2, <1>3, <2>2
    <3>3. Chosen(E \o F)[k] = Chosen(F)[k - Len(E)]
      BY <1>1, <3>1, <3>2 DEF Chosen
    <3> QED
      BY <3>2, <3>3
  <2> QED
    BY <2>1, <2>2
<1>6. Chosen(E \o F) = Chosen(E) \o Chosen(F)
  BY <1>2, <1>3, <1>4, <1>5, SeqEqual
<1> QED
  BY <1>2, <1>6

LEMMA DoneConcat ==
  ASSUME NEW E \in Seq(Entries), NEW F \in Seq(Entries)
  PROVE  Done(E) \in Seq(Actions) /\ Done(E \o F) = Done(E) \o Done(F)
  BY ChosenConcat, FlattenConcat DEF Done

LEMMA DoneOne ==
  ASSUME NEW e \in Entries
  PROVE  /\ Done(<<e>>) = IF e.ok THEN e.actions ELSE <<>>
         /\ Done(<<>>) = <<>>
<1> DEFINE a == IF e.ok THEN e.actions ELSE <<>>
<1>1. a \in Seq(Actions) /\ <<>> \in Seq(Actions)
  BY DEF Entries
<1>2. Chosen(<<e>>) = <<a>>
  <2>1. DOMAIN <<e>> = {1} /\ <<e>>[1] = e
    OBVIOUS
  <2>2. Chosen(<<e>>) = [k \in {1} |-> a]
    BY <2>1 DEF Chosen
  <2>3. <<a>> = [k \in {1} |-> a]
    OBVIOUS
  <2> QED
    BY <2>2, <2>3
<1>3. Chosen(<<>>) = <<>>
  BY DEF Chosen
<1> HIDE DEF a
<1>4. FlattenSeq(<<a>>) = a /\ FlattenSeq(<<>>) = <<>>
  BY <1>1, FlattenOne
<1>5. Done(<<e>>) = a /\ Done(<<>>) = <<>>
  BY <1>2, <1>3, <1>4 DEF Done
<1> QED
  BY <1>5 DEF a

LEMMA DoneNone ==
  Done(<<>>) = <<>>
<1>1. Chosen(<<>>) = <<>>
  BY DEF Chosen
<1>2. <<>> \in Seq(Actions)
  OBVIOUS
<1>3. FlattenSeq(<<>>) = <<>>
  BY <1>2, FlattenOne
<1> QED
  BY <1>1, <1>3 DEF Done

LEMMA ActionsNow ==
  ASSUME Shapes
  PROVE  /\ shim.actions \in Seq(Actions) /\ shim.committed \in 0..Len(shim.actions)
         /\ shim \in Shim
         /\ GetOperationActions = SubSeq(shim.actions, 1, shim.committed)
         /\ GetOperationActions \in Seq(Actions)
         /\ Len(GetOperationActions) = shim.committed
         /\ steps.actions \in Seq(Actions)
<1>1. shim.actions \in Seq(Actions) /\ shim.committed \in 0..Len(shim.actions)
      /\ shim \in Shim
  BY ShapesNow DEF Fits, Shim
<1> QED
  BY <1>1, ShapesNow DEF GetOperationActions

(* The end of an operation: all that the shim holds is committed. *)
LEMMA EndedActions ==
  ASSUME Shapes, Executing, ActionsInv,
         NEW saw \in States, NEW ok \in BOOLEAN, NEW actions \in Seq(Actions),
         Ended(saw, ok, actions),
         ok => shim.actions = GetOperationActions \o actions
  PROVE  /\ GetOperationActions' = Done(attempt')
         /\ shim'.actions = GetOperationActions'
<1> DEFINE e == [saw |-> saw, ok |-> ok, left |-> GetState, actions |-> actions]
<1>1. e \in Entries /\ attempt \in Seq(Entries) /\ attempt' = Append(attempt, e)
  BY ShimFits, ShapesNow DEF Entries, Ended
<1>2. Done(attempt') = Done(attempt) \o (IF ok THEN actions ELSE <<>>)
  <2>1. e.ok = ok /\ e.actions = actions
    OBVIOUS
  <2> HIDE DEF e
  <2>2. attempt' = attempt \o <<e>> /\ <<e>> \in Seq(Entries)
    BY <1>1
  <2>3. Done(attempt') = Done(attempt) \o Done(<<e>>)
    BY <1>1, <2>2, DoneConcat
  <2>4. Done(<<e>>) = IF ok THEN actions ELSE <<>>
    BY <1>1, <2>1, DoneOne
  <2> QED
    BY <2>3, <2>4
<1>3. Done(attempt) = GetOperationActions
  BY DEF ActionsInv
<1>4. CASE ok
  <2>1. shim' = [shim EXCEPT !.checkpoint = shim.current, !.committed = Len(shim.actions)]
    BY <1>4 DEF Ended, Commit
  <2>2. shim'.actions = shim.actions /\ shim'.committed = Len(shim.actions)
    BY <2>1, ActionsNow DEF Shim
  <2>3. SubSeq(shim.actions, 1, Len(shim.actions)) = shim.actions
    BY ActionsNow
  <2>4. GetOperationActions' = shim.actions
    BY <2>2, <2>3 DEF GetOperationActions
  <2> QED
    BY <1>2, <1>3, <1>4, <2>2, <2>4
<1>5. CASE ~ok
  <2>1. shim' = [shim EXCEPT !.current = shim.checkpoint, !.actions = GetOperationActions]
    BY <1>5 DEF Ended, Rollback
  <2>2. shim'.actions = GetOperationActions /\ shim'.committed = shim.committed
    BY <2>1, ActionsNow DEF Shim
  <2>3. SubSeq(GetOperationActions, 1, shim.committed) = GetOperationActions
    BY ActionsNow
  <2>4. GetOperationActions' = GetOperationActions
    BY <2>2, <2>3 DEF GetOperationActions
  <2>5. GetOperationActions \o <<>> = GetOperationActions
    BY ActionsNow
  <2> QED
    BY <1>2, <1>3, <1>5, <2>2, <2>4, <2>5
<1> QED
  BY <1>4, <1>5

(* A step of user code that neither signals nor starts anything. *)
LEMMA QuietActions ==
  ASSUME Shapes, ActionsInv, NEW inPlace \in BOOLEAN, Step(inPlace, <<>>),
         shim'.actions = shim.actions, shim'.committed = shim.committed
  PROVE  ActionsInv'
<1>1. steps'.actions = steps.actions
  <2>1. steps \in [saw : States, count : Nat, actions : Seq(Actions), inPlace : BOOLEAN]
    BY ShapesNow
  <2>2. steps'.actions = steps.actions \o <<>>
    BY <2>1 DEF Step
  <2> QED
    BY <2>2, ActionsNow
<1>2. GetOperationActions' = GetOperationActions
  BY DEF GetOperationActions
<1> QED
  BY <1>1, <1>2 DEF ActionsInv, Step, backend, Executing

LEMMA SetActions ==
  ASSUME Shapes, ActionsInv, NEW v \in States, Set(v)
  PROVE  ActionsInv'
<1>1. Step(FALSE, <<>>) /\ SetState(v)
  BY Zenon DEF Set
<1>2. shim'.actions = shim.actions /\ shim'.committed = shim.committed
  BY <1>1, ActionsNow DEF SetState, Shim
<1> QED
  BY <1>1, <1>2, QuietActions

LEMMA ActsActions ==
  ASSUME Shapes, ActionsInv, NEW a \in Actions, Acts(a)
  PROVE  ActionsInv'
<1>1. Step(FALSE, <<a>>) /\ AddOperationAction(a)
  BY DEF Acts
<1>2. shim'.actions = shim.actions \o <<a>> /\ shim'.committed = shim.committed
  BY <1>1, AddOperationActionFits
<1>3. GetOperationActions' = GetOperationActions
  <2>1. SubSeq(shim.actions \o <<a>>, 1, shim.committed)
          = SubSeq(shim.actions, 1, shim.committed)
    <3> DEFINE s == shim.actions
               n == shim.committed
    <3>1. s \in Seq(Actions) /\ n \in 0..Len(s)
      BY ActionsNow
    <3> HIDE DEF s, n
    <3>2. SubSeq(s \o <<a>>, 1, n) = SubSeq(s, 1, n)
      BY <3>1
    <3> QED
      BY <3>2 DEF s, n
  <2> QED
    BY <1>2, <2>1 DEF GetOperationActions
<1>4. steps'.actions = steps.actions \o <<a>>
  <2>1. steps \in [saw : States, count : Nat, actions : Seq(Actions), inPlace : BOOLEAN]
    BY ShapesNow
  <2> QED
    BY <1>1, <2>1 DEF Step
<1>5. shim.actions = GetOperationActions \o steps.actions
  BY <1>1 DEF Step, ActionsInv
<1>6. (GetOperationActions \o steps.actions) \o <<a>>
        = GetOperationActions \o (steps.actions \o <<a>>)
  <2>1. <<a>> \in Seq(Actions)
    OBVIOUS
  <2>2. Associate(GetOperationActions, steps.actions, <<a>>)
    BY <2>1, ActionsNow, ConcatTwice
  <2> QED
    BY <2>2 DEF Associate
<1> QED
  BY <1>1, <1>2, <1>3, <1>4, <1>5, <1>6 DEF ActionsInv, Step, backend, Executing

LEMMA ActionsInit ==
  ASSUME Init
  PROVE  ActionsInv
  BY DoneNone DEF Init, ActionsInv, Executing

LEMMA ActionsStep ==
  ASSUME Shapes, ActionsInv, [Next]_vars
  PROVE  ActionsInv'
<1>1. CASE UNCHANGED vars
  BY <1>1 DEF vars, backend, ActionsInv, Executing, GetOperationActions
<1>2. CASE Arrive
  BY <1>2 DEF Arrive, ActionsInv, Executing, GetOperationActions
<1>3. CASE ExecuteEntityBatch
  <2>1. shim'.actions = <<>> /\ shim'.committed = 0 /\ attempt' = <<>>
    BY <1>3 DEF ExecuteEntityBatch, StateShim
  <2>2. GetOperationActions' = <<>>
    BY <2>1 DEF GetOperationActions
  <2>3. ~inside' /\ sent' = sent /\ log' = log
    BY <1>3, ShapesNow DEF ExecuteEntityBatch
  <2> QED
    BY <2>1, <2>2, <2>3, DoneNone DEF ActionsInv
<1>4. CASE Execute
  <2>1. steps'.actions = <<>>
    BY <1>4 DEF Execute
  <2>2. shim.actions = GetOperationActions
    BY <1>4 DEF Execute, ActionsInv
  <2>3. GetOperationActions \o <<>> = GetOperationActions
    BY ActionsNow
  <2>4. GetOperationActions' = GetOperationActions /\ shim' = shim
    BY <1>4 DEF Execute, GetOperationActions
  <2> QED
    BY <1>4, <2>1, <2>2, <2>3, <2>4 DEF ActionsInv, Execute, backend, Executing
<1>5. CASE Refuse
  <2>1. Executing /\ Ended(GetState, FALSE, <<>>)
    BY <1>5 DEF Refuse
  <2>2. GetState \in States /\ <<>> \in Seq(Actions)
    BY ShimFits
  <2>3. GetOperationActions' = Done(attempt') /\ shim'.actions = GetOperationActions'
    BY <2>1, <2>2, EndedActions
  <2>4. ~inside' /\ sent' = sent /\ log' = log
    BY <1>5 DEF Refuse, backend
  <2> QED
    BY <2>3, <2>4 DEF ActionsInv
<1>6. CASE \E v \in Settable : Set(v) \/ ChangeInPlace(v)
  <2>1. PICK v \in Settable : Set(v) \/ ChangeInPlace(v)
    BY <1>6
  <2>2. v \in States
    BY DEF Settable, States
  <2>3. CASE ChangeInPlace(v)
    <3>1. /\ (shim.current = shim.checkpoint) \in BOOLEAN /\ shim' = shim
          /\ Step(shim.current = shim.checkpoint, <<>>)
      BY <2>3 DEF ChangeInPlace
    <3> QED
      BY <3>1, QuietActions
  <2> QED
    BY <2>1, <2>2, <2>3, SetActions
<1>7. CASE Delete
  BY <1>7, DeleteIsSet, SetActions
<1>8. CASE SignalEntity \/ ScheduleNewOrchestration
  BY <1>8, ActsIsAction, ActsActions
<1>9. CASE Return \/ Raise
  <2>1. inside /\ Executing /\ steps.saw \in States /\ steps.actions \in Seq(Actions)
    BY <1>9, ShapesNow DEF Return, Raise
  <2>2. shim.actions = GetOperationActions \o steps.actions
    BY <2>1 DEF ActionsInv
  <2>3. Ended(steps.saw, TRUE, steps.actions) \/ Ended(steps.saw, FALSE, steps.actions)
    BY <1>9 DEF Return, Raise
  <2>4. GetOperationActions' = Done(attempt') /\ shim'.actions = GetOperationActions'
    BY <2>1, <2>2, <2>3, EndedActions
  <2>5. ~inside' /\ sent' = sent /\ log' = log
    BY <1>9 DEF Return, Raise, backend
  <2> QED
    BY <2>4, <2>5 DEF ActionsInv
<1>10. CASE CompleteEntityTask
  <2>1. sent' = sent \o GetOperationActions /\ log' = log \o attempt
        /\ batch' = <<>> /\ ~inside' /\ Executing
    BY <1>10 DEF CompleteEntityTask, Closed
  <2>2. Done(log') = Done(log) \o Done(attempt)
    BY <2>1, ShapesNow, DoneConcat
  <2> QED
    BY <2>1, <2>2 DEF ActionsInv, Executing
<1>11. CASE CancelEntityBatch
  <2>1. sent' = sent /\ log' = log /\ batch' = <<>> /\ ~inside'
    BY <1>11 DEF CancelEntityBatch, Closed
  <2> QED
    BY <2>1 DEF ActionsInv, Executing
<1> QED
  BY <1>1, <1>2, <1>3, <1>4, <1>5, <1>6, <1>7, <1>8, <1>9, <1>10, <1>11 DEF Next

(* The backend is told of the signals and orchestrations of the operations  *)
(* that succeeded and of no other, each once and in order, whatever user    *)
(* code does and however often a batch is abandoned.                        *)
THEOREM ActionsTheorem == Spec => []ActionsOfSuccess
<1>1. Init => Shapes /\ ActionsInv
  BY ShapesInit, ActionsInit
<1>2. Shapes /\ ActionsInv /\ [Next]_vars => (Shapes /\ ActionsInv)'
  BY ShapesStep, ActionsStep
<1>3. Shapes /\ ActionsInv => ActionsOfSuccess
  BY DEF ActionsInv, ActionsOfSuccess, Done, Chosen
<1> QED
  BY <1>1, <1>2, <1>3, PTL DEF Spec

-----------------------------------------------------------------------------
(* States *)

(* Every operation of E saw what the last successful one left. *)
Consistent(E) ==
  \A k \in DOMAIN E :
    E[k].saw = IF k = 1 THEN None
               ELSE IF E[k - 1].ok THEN E[k - 1].left ELSE E[k - 1].saw

LEMMA ConsistentAppend ==
  ASSUME NEW E \in Seq(Entries), NEW e \in Entries, Consistent(E), e.saw = After(E)
  PROVE  /\ Consistent(Append(E, e))
         /\ After(Append(E, e)) = IF e.ok THEN e.left ELSE e.saw
<1> DEFINE G == Append(E, e)
<1>1. /\ Len(E) \in Nat /\ DOMAIN E = 1..Len(E) /\ DOMAIN G = 1..(Len(E) + 1)
      /\ Len(G) = Len(E) + 1 /\ G[Len(E) + 1] = e /\ G # <<>>
      /\ \A k \in 1..Len(E) : G[k] = E[k]
  OBVIOUS
<1> HIDE DEF G
<1>2. ASSUME NEW k \in DOMAIN G
      PROVE  G[k].saw = IF k = 1 THEN None
                        ELSE IF G[k - 1].ok THEN G[k - 1].left ELSE G[k - 1].saw
  <2>1. CASE k \in 1..Len(E)
    <3>1. G[k] = E[k] /\ (k # 1 => G[k - 1] = E[k - 1])
      BY <1>1, <2>1
    <3>2. E[k].saw = IF k = 1 THEN None
                     ELSE IF E[k - 1].ok THEN E[k - 1].left ELSE E[k - 1].saw
      BY <1>1, <2>1 DEF Consistent
    <3> QED
      BY <3>1, <3>2
  <2>2. CASE k \notin 1..Len(E)
    <3>1. k = Len(E) + 1 /\ G[k] = e
      BY <1>1, <2>2
    <3>2. CASE Len(E) = 0
      <4>1. E = <<>> /\ k = 1
        BY <3>1, <3>2
      <4> QED
        BY <3>1, <4>1 DEF After
    <3>3. CASE Len(E) # 0
      <4>1. E # <<>> /\ k # 1 /\ k - 1 = Len(E) /\ G[k - 1] = E[Len(E)]
        BY <1>1, <3>1, <3>3
      <4> QED
        BY <3>1, <4>1 DEF After
    <3> QED
      BY <3>2, <3>3
  <2> QED
    BY <2>1, <2>2
<1>3. Consistent(G)
  BY <1>2 DEF Consistent
<1>4. After(G) = IF e.ok THEN e.left ELSE e.saw
  BY <1>1 DEF After
<1> QED
  BY <1>3, <1>4 DEF G

LEMMA ConsistentPrefix ==
  ASSUME NEW E \in Seq(Entries), NEW F \in Seq(Entries), Consistent(E \o F)
  PROVE  Consistent(E)
<1> DEFINE G == E \o F
<1>1. /\ Len(E) \in Nat /\ DOMAIN E = 1..Len(E)
      /\ \A k \in 1..Len(E) : k \in DOMAIN G /\ G[k] = E[k]
  OBVIOUS
<1>2. Consistent(G)
  OBVIOUS
<1> HIDE DEF G
<1>3. ASSUME NEW k \in DOMAIN E
      PROVE  E[k].saw = IF k = 1 THEN None
                        ELSE IF E[k - 1].ok THEN E[k - 1].left ELSE E[k - 1].saw
  <2>1. k \in DOMAIN G /\ G[k] = E[k] /\ (k # 1 => G[k - 1] = E[k - 1])
    BY <1>1
  <2>2. G[k].saw = IF k = 1 THEN None
                   ELSE IF G[k - 1].ok THEN G[k - 1].left ELSE G[k - 1].saw
    BY <1>2, <2>1 DEF Consistent
  <2> QED
    BY <2>1, <2>2
<1> QED
  BY <1>3 DEF Consistent

LEMMA ExecutedType ==
  ASSUME Shapes
  PROVE  Executed \in Seq(Entries) /\ (StateOfLastSuccess <=> Consistent(Executed))
<1>1. Executed \in Seq(Entries)
  BY ShapesNow DEF Executed
<1> QED
  BY <1>1 DEF StateOfLastSuccess, Consistent

(* The end of an operation: the next one sees what it left, or what it saw. *)
LEMMA EndedState ==
  ASSUME Shapes, StateOfLastSuccess,
         NEW saw \in States, NEW ok \in BOOLEAN, NEW actions \in Seq(Actions),
         Ended(saw, ok, actions), UNCHANGED <<log, heap>>,
         saw = After(Executed), ~ok => Content(shim.checkpoint) = saw
  PROVE  /\ Consistent(Executed')
         /\ shim'.current = shim'.checkpoint /\ GetState' = After(Executed')
<1> DEFINE e == [saw |-> saw, ok |-> ok, left |-> GetState, actions |-> actions]
<1>1. e \in Entries /\ attempt \in Seq(Entries) /\ log \in Seq(Entries)
      /\ attempt' = Append(attempt, e) /\ log' = log
  BY ShimFits, ShapesNow DEF Entries, Ended
<1>2. e.saw = saw /\ e.ok = ok /\ e.left = GetState
  OBVIOUS
<1> HIDE DEF e
<1>3. Executed' = Append(Executed, e)
  BY <1>1 DEF Executed
<1>4. Consistent(Executed') /\ After(Executed') = IF ok THEN GetState ELSE saw
  BY <1>1, <1>2, <1>3, ExecutedType, ConsistentAppend
<1>5. CASE ok
  <2>1. shim' = [shim EXCEPT !.checkpoint = shim.current, !.committed = Len(shim.actions)]
    BY <1>5 DEF Ended, Commit
  <2>2. shim'.current = shim.current /\ shim'.checkpoint = shim.current
    BY <2>1, ActionsNow DEF Shim
  <2>3. GetState' = GetState
    BY <2>2 DEF GetState, Content
  <2> QED
    BY <1>4, <1>5, <2>2, <2>3
<1>6. CASE ~ok
  <2>1. shim' = [shim EXCEPT !.current = shim.checkpoint, !.actions = GetOperationActions]
    BY <1>6 DEF Ended, Rollback
  <2>2. shim'.current = shim.checkpoint /\ shim'.checkpoint = shim.checkpoint
    BY <2>1, ActionsNow DEF Shim
  <2>3. GetState' = Content(shim.checkpoint)
    BY <2>2 DEF GetState, Content
  <2> QED
    BY <1>4, <1>6, <2>2, <2>3
<1> QED
  BY <1>5, <1>6

(* A step of user code that leaves the state to go back to as it is. *)
LEMMA StepState ==
  ASSUME Shapes, StateInv, NEW inPlace \in BOOLEAN, NEW actions, Step(inPlace, actions),
         ~inPlace => Content(shim.checkpoint)' = Content(shim.checkpoint)
  PROVE  StateInv'
<1>1. /\ inside /\ inside' = inside /\ log' = log /\ attempt' = attempt /\ stored' = stored
      /\ batch' = batch
  BY DEF Step, backend
<1>2. /\ steps'.saw = steps.saw
      /\ steps'.inPlace = (steps.inPlace \/ inPlace)
  <2>1. steps \in [saw : States, count : Nat, actions : Seq(Actions), inPlace : BOOLEAN]
    BY ShapesNow
  <2> QED
    BY <2>1 DEF Step
<1>3. Executed' = Executed
  BY <1>1 DEF Executed
<1>4. ~steps'.inPlace => Content(shim.checkpoint)' = steps'.saw
  BY <1>1, <1>2 DEF StateInv
<1>5. StateOfLastSuccess'
  BY <1>3 DEF StateInv, StateOfLastSuccess
<1> QED
  BY <1>1, <1>2, <1>3, <1>4, <1>5 DEF StateInv, Executing

LEMMA SetKeeps ==
  ASSUME Shapes, NEW v \in States, SetState(v)
  PROVE  Content(shim.checkpoint)' = Content(shim.checkpoint)
<1>1. /\ shim \in Shim /\ heap \in Seq(Values) /\ Len(heap) \in Nat
      /\ shim.checkpoint \in 0..Len(heap)
  BY ShapesNow DEF Fits, Shim
<1>2. shim'.checkpoint = shim.checkpoint
  BY <1>1 DEF SetState, Shim
<1>3. shim.checkpoint # 0 => heap'[shim.checkpoint] = heap[shim.checkpoint]
  <2>1. CASE v = None
    BY <2>1 DEF SetState
  <2>2. CASE v # None
    <3>1. heap' = Append(heap, v) /\ v \in Values
      BY <2>2 DEF SetState, States
    <3> QED
      BY <1>1, <3>1
  <2> QED
    BY <2>1, <2>2
<1> QED
  BY <1>2, <1>3 DEF Content

LEMMA StateInit ==
  ASSUME Init
  PROVE  StateInv
<1>1. Executed = <<>> /\ DOMAIN Executed = {}
  BY DEF Init, Executed
<1>2. StateOfLastSuccess
  BY <1>1 DEF StateOfLastSuccess
<1>3. stored = After(log) /\ ~Executing /\ attempt = <<>> /\ ~inside
  BY DEF Init, After, Executing
<1> QED
  BY <1>2, <1>3 DEF StateInv

LEMMA ExecuteEntityBatchState ==
  ASSUME Shapes, StateInv, ExecuteEntityBatch
  PROVE  StateInv'
<1>1. log' = log /\ stored' = stored /\ attempt = <<>> /\ attempt' = <<>> /\ ~inside'
  BY ShapesNow DEF ExecuteEntityBatch, StateInv
<1>2. Executed' = Executed /\ Executed = log
  BY <1>1, ShapesNow DEF Executed
<1>3. StateOfLastSuccess'
  BY <1>2 DEF StateInv, StateOfLastSuccess
<1>4. shim'.current = Len(heap') /\ shim'.checkpoint = Len(heap')
  BY DEF ExecuteEntityBatch, StateShim
<1>5. GetState' = stored
  <2>1. CASE stored = None
    <3>1. Len(heap') = 0
      BY <2>1 DEF ExecuteEntityBatch
    <3> QED
      BY <1>4, <2>1, <3>1 DEF GetState, Content
  <2>2. CASE stored # None
    <3>1. Len(heap') = 1 /\ heap'[1] = stored
      BY <2>2 DEF ExecuteEntityBatch
    <3> QED
      BY <1>4, <3>1 DEF GetState, Content
  <2> QED
    BY <2>1, <2>2
<1>6. Executing'
  BY DEF ExecuteEntityBatch, Executing
<1>7. stored = After(log)
  BY DEF StateInv
<1> QED
  BY <1>1, <1>2, <1>3, <1>4, <1>5, <1>6, <1>7 DEF StateInv

LEMMA ExecuteState ==
  ASSUME Shapes, StateInv, Execute
  PROVE  StateInv'
<1>1. /\ log' = log /\ attempt' = attempt /\ stored' = stored /\ shim' = shim /\ heap' = heap
      /\ batch' = batch /\ inside' /\ Executing /\ ~inside
  BY DEF Execute, backend
<1>2. Executed' = Executed
  BY <1>1 DEF Executed
<1>3. StateOfLastSuccess'
  BY <1>2 DEF StateInv, StateOfLastSuccess
<1>4. steps'.saw = GetState /\ ~steps'.inPlace
  BY DEF Execute
<1>5. shim.current = shim.checkpoint /\ GetState = After(Executed)
  BY <1>1 DEF StateInv
<1>6. Content(shim.checkpoint)' = GetState
  BY <1>1, <1>5 DEF GetState, Content
<1>7. stored' = After(log')
  BY <1>1 DEF StateInv
<1>8. Executing'
  BY <1>1 DEF Executing
<1> QED
  BY <1>1, <1>2, <1>3, <1>4, <1>5, <1>6, <1>7, <1>8 DEF StateInv

LEMMA RefuseState ==
  ASSUME Shapes, StateInv, Refuse
  PROVE  StateInv'
<1>1. Executing /\ ~inside /\ Ended(GetState, FALSE, <<>>) /\ UNCHANGED <<log, heap>>
      /\ stored' = stored /\ ~inside' /\ Executing'
  BY DEF Refuse, backend, Executing
<1>2. GetState \in States /\ <<>> \in Seq(Actions)
  BY ShimFits
<1>3. GetState = After(Executed) /\ Content(shim.checkpoint) = GetState
  BY <1>1 DEF StateInv, GetState
<1>4. /\ Consistent(Executed')
      /\ shim'.current = shim'.checkpoint /\ GetState' = After(Executed')
  <2>1. StateOfLastSuccess
    BY DEF StateInv
  <2> QED
    BY <1>1, <1>2, <1>3, <2>1, EndedState
<1>5. StateOfLastSuccess'
  BY <1>4 DEF StateOfLastSuccess, Consistent
<1>6. stored' = After(log')
  BY <1>1 DEF StateInv
<1> QED
  BY <1>1, <1>4, <1>5, <1>6 DEF StateInv

LEMMA EndState ==
  ASSUME Shapes, StateInv, Return \/ Raise, ~InPlaceMayFail
  PROVE  StateInv'
<1>1. inside /\ Executing /\ UNCHANGED <<log, heap>>
      /\ stored' = stored /\ ~inside' /\ Executing'
  BY ShapesNow DEF Return, Raise, backend, Executing
<1>2. steps.saw \in States /\ steps.actions \in Seq(Actions)
  BY ShapesNow
<1>3. StateOfLastSuccess /\ steps.saw = After(Executed)
  BY <1>1 DEF StateInv
<1>4. /\ Consistent(Executed')
      /\ shim'.current = shim'.checkpoint /\ GetState' = After(Executed')
  <2>1. CASE Return
    <3>1. Ended(steps.saw, TRUE, steps.actions)
      BY <2>1 DEF Return
    <3> QED
      BY <1>1, <1>2, <1>3, <3>1, EndedState
  <2>2. CASE Raise
    <3>1. Ended(steps.saw, FALSE, steps.actions) /\ ~steps.inPlace
      BY <2>2 DEF Raise
    <3>2. Content(shim.checkpoint) = steps.saw
      BY <1>1, <3>1 DEF StateInv
    <3> QED
      BY <1>1, <1>2, <1>3, <3>1, <3>2, EndedState
  <2> QED
    BY <2>1, <2>2
<1>5. StateOfLastSuccess'
  BY <1>4 DEF StateOfLastSuccess, Consistent
<1>6. stored' = After(log')
  BY <1>1 DEF StateInv
<1> QED
  BY <1>1, <1>4, <1>5, <1>6 DEF StateInv

LEMMA ChangeInPlaceState ==
  ASSUME Shapes, StateInv, NEW v \in Values, ChangeInPlace(v)
  PROVE  StateInv'
<1>1. /\ (shim.current = shim.checkpoint) \in BOOLEAN
      /\ Step(shim.current = shim.checkpoint, <<>>)
  BY DEF ChangeInPlace
<1>2. shim.current # shim.checkpoint
        => Content(shim.checkpoint)' = Content(shim.checkpoint)
  BY ShapesNow DEF ChangeInPlace, Content
<1> QED
  BY <1>1, <1>2, StepState

LEMMA SetsState ==
  ASSUME Shapes, StateInv, NEW v \in States, Set(v)
  PROVE  StateInv'
<1>1. Step(FALSE, <<>>) /\ SetState(v)
  BY Zenon DEF Set
<1>2. Content(shim.checkpoint)' = Content(shim.checkpoint)
  BY <1>1, SetKeeps
<1> QED
  BY <1>1, <1>2, StepState

LEMMA ActsState ==
  ASSUME Shapes, StateInv, NEW a \in Actions, Acts(a)
  PROVE  StateInv'
<1>1. Step(FALSE, <<a>>) /\ AddOperationAction(a) /\ heap' = heap
  BY DEF Acts
<1>2. shim'.checkpoint = shim.checkpoint
  BY <1>1, AddOperationActionFits
<1>3. Content(shim.checkpoint)' = Content(shim.checkpoint)
  BY <1>1, <1>2 DEF Content
<1> QED
  BY <1>1, <1>3, StepState

LEMMA AnswerState ==
  ASSUME Shapes, StateInv, 0 \notin Values, CompleteEntityTask \/ CancelEntityBatch
  PROVE  StateInv'
<1>1. Executing /\ ~inside /\ ~Executing' /\ ~inside' /\ attempt' = <<>>
  BY DEF CompleteEntityTask, CancelEntityBatch, Closed, Executing
<1>2. /\ log \in Seq(Entries) /\ attempt \in Seq(Entries) /\ GetState \in States
      /\ Consistent(Executed) /\ Executed = log \o attempt
  BY ShapesNow, ShimFits, ExecutedType DEF StateInv, Executed
<1>3. Executed' = log'
  <2>1. log' \in Seq(Entries)
    BY Zenon, CompleteShapes, CancelShapes DEF Shapes
  <2> QED
    BY <1>1, <2>1 DEF Executed
<1>4. CASE CompleteEntityTask
  <2>1. stored' = Encoded(GetState) /\ log' = Executed
    BY <1>2, <1>4 DEF CompleteEntityTask
  <2>2. Encoded(GetState) = GetState
    BY <1>2 DEF Encoded, States
  <2>3. GetState = After(Executed)
    BY <1>1 DEF StateInv
  <2>4. Consistent(Executed')
    BY <1>2, <1>3, <2>1
  <2>5. StateOfLastSuccess'
    BY <2>4 DEF StateOfLastSuccess, Consistent
  <2> QED
    BY <1>1, <2>1, <2>2, <2>3, <2>5 DEF StateInv
<1>5. CASE CancelEntityBatch
  <2>1. stored' = stored /\ log' = log
    BY <1>5 DEF CancelEntityBatch
  <2>2. Consistent(log)
    BY <1>2, ConsistentPrefix
  <2>3. Consistent(Executed')
    BY <1>3, <2>1, <2>2
  <2>4. StateOfLastSuccess'
    BY <2>3 DEF StateOfLastSuccess, Consistent
  <2>5. stored' = After(log')
    BY <2>1 DEF StateInv
  <2> QED
    BY <1>1, <2>4, <2>5 DEF StateInv
<1> QED
  BY <1>4, <1>5

LEMMA StateStep ==
  ASSUME Shapes, StateInv, [Next]_vars, ~InPlaceMayFail, 0 \notin Values
  PROVE  StateInv'
<1>1. CASE UNCHANGED vars \/ Arrive
  <2>1. UNCHANGED <<stored, log, attempt, batch, inside, steps, heap, shim>>
    BY <1>1 DEF vars, backend, Arrive
  <2>2. Executed' = Executed /\ GetState' = GetState /\ Executing' = Executing
    BY <2>1 DEF Executed, Executing, GetState, Content
  <2>3. Content(shim.checkpoint)' = Content(shim.checkpoint)
    BY <2>1 DEF Content
  <2>4. StateOfLastSuccess'
    BY <2>2 DEF StateInv, StateOfLastSuccess
  <2> QED
    BY <2>1, <2>2, <2>3, <2>4 DEF StateInv
<1>2. CASE \E v \in Settable : Set(v) \/ ChangeInPlace(v)
  <2>1. PICK v \in Settable : Set(v) \/ ChangeInPlace(v)
    BY <1>2
  <2>2. v \in Values /\ v \in States
    BY DEF Settable, States
  <2> QED
    BY <2>1, <2>2, SetsState, ChangeInPlaceState
<1>3. CASE Delete
  BY <1>3, DeleteIsSet, SetsState
<1>4. CASE SignalEntity \/ ScheduleNewOrchestration
  BY <1>4, ActsIsAction, ActsState
<1> QED
  BY <1>1, <1>2, <1>3, <1>4, ExecuteEntityBatchState, ExecuteState, RefuseState, EndState,
     AnswerState DEF Next

(* Every operation sees the state that the last successful one left, across *)
(* batches, failures and abandoned work items, if no operation fails that   *)
(* changed the state it was given in place (InPlaceMayFail), and no state   *)
(* is false in Python and so not stored (0).                                *)
THEOREM StateTheorem ==
  ASSUME ~InPlaceMayFail, 0 \notin Values
  PROVE  Spec => []StateOfLastSuccess
<1>1. Init => Shapes /\ StateInv
  BY ShapesInit, StateInit
<1>2. Shapes /\ StateInv /\ [Next]_vars => (Shapes /\ StateInv)'
  BY ShapesStep, StateStep
<1>3. Shapes /\ StateInv => StateOfLastSuccess
  BY DEF StateInv
<1> QED
  BY <1>1, <1>2, <1>3, PTL DEF Spec

=============================================================================
