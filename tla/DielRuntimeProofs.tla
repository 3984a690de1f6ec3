--------------------------- MODULE DielRuntimeProofs ---------------------------
(***************************************************************************)
(* Theorems about the event loop DielRuntime, for every set of engines and *)
(* outputs, every plan and every bound: the types are right, the queues of *)
(* the engines stay in order although rendering functions insert events    *)
(* and bind outputs in the middle of another event, what is bound shows    *)
(* what is current, and a timestep ships what its own event needs.  In its *)
(* second part the loop is a user of the engines: what DbEngine promises   *)
(* its one caller, snapshots, wake-ups and serial answers, it still gives a*)
(* main thread that renders, nests calls and binds outputs, and with these *)
(* an output never goes back to an earlier answer.                         *)
(***************************************************************************)
EXTENDS DielRuntime, DbEngineProofs

-----------------------------------------------------------------------------
(***************************************************************************)
(* The calls in progress, as a stack.                                      *)
(***************************************************************************)
LEMMA Push ==
  ASSUME NEW S, NEW s \in Seq(S), NEW f \in S
  PROVE  LET p == <<f>> \o s
         IN  /\ p \in Seq(S) /\ p # <<>> /\ Len(p) = Len(s) + 1
             /\ 1 \in DOMAIN p /\ p[1] = f
             /\ \A i \in DOMAIN s : i + 1 \in DOMAIN p /\ p[i + 1] = s[i]
             /\ \A i \in DOMAIN p : i = 1 \/ (i - 1 \in DOMAIN s /\ p[i] = s[i - 1])
<1>1. <<f>> \in Seq(S) /\ Len(<<f>>) = 1 /\ <<f>>[1] = f
  OBVIOUS
<1> DEFINE p == <<f>> \o s
<1>2. p \in Seq(S) /\ Len(p) = Len(s) + 1
  BY <1>1, ConcatProperties
<1>3. \A i \in 1..Len(p) : p[i] = IF i <= 1 THEN f ELSE s[i - 1]
  BY <1>1, <1>2, ConcatProperties
<1>4. DOMAIN p = 1..Len(p) /\ DOMAIN s = 1..Len(s) /\ Len(s) \in Nat
  BY <1>2
<1> HIDE DEF p
<1>5. p # <<>>
  BY <1>2, <1>4
<1>6. 1 \in DOMAIN p /\ p[1] = f
  BY <1>2, <1>3, <1>4
<1>7. \A i \in DOMAIN s : i + 1 \in DOMAIN p /\ p[i + 1] = s[i]
  BY <1>2, <1>3, <1>4
<1>8. \A i \in DOMAIN p : i = 1 \/ (i - 1 \in DOMAIN s /\ p[i] = s[i - 1])
  BY <1>2, <1>3, <1>4
<1> QED  BY <1>2, <1>5, <1>6, <1>7, <1>8 DEF p

\* One turn of the loop of the innermost call.
NextTurn(s, renders) ==
  [s EXCEPT ![1].outputs = Tail(@), ![1].callback = renders]

LEMMA NextTurnIs ==
  ASSUME NEW s \in Seq(Frame), s # <<>>, Head(s).outputs # <<>>, NEW renders \in BOOLEAN
  PROVE  LET p == NextTurn(s, renders)
         IN  /\ p \in Seq(Frame) /\ p # <<>> /\ Len(p) = Len(s) /\ DOMAIN p = DOMAIN s
             /\ 1 \in DOMAIN s /\ Head(s) = s[1] /\ s[1].outputs \in Seq(Output)
             /\ p[1].event = s[1].event /\ p[1].outputs = Tail(s[1].outputs)
             /\ \A i \in DOMAIN s : i # 1 => p[i] = s[i]
<1>1. /\ 1 \in DOMAIN s /\ Head(s) = s[1] /\ s[1] \in Frame /\ DOMAIN s = 1..Len(s)
      /\ Len(s) \in Nat
  BY ElementOfSeq
<1> DEFINE f == [s[1] EXCEPT !.outputs = Tail(@), !.callback = renders]
           p == NextTurn(s, renders)
<1>2. s[1].outputs \in Seq(Output) /\ Tail(s[1].outputs) \in Seq(Output)
  BY <1>1, TailType DEF Frame
<1>3. f \in Frame /\ f.event = s[1].event /\ f.outputs = Tail(s[1].outputs)
  BY <1>1, <1>2 DEF Frame
<1>4. p = [s EXCEPT ![1] = f]
  BY <1>1 DEF NextTurn
<1> HIDE DEF f, p
<1>5. /\ DOMAIN p = DOMAIN s /\ p[1] = f /\ \A i \in DOMAIN s : i # 1 => p[i] = s[i]
      /\ p \in [1..Len(s) -> Frame]
  <2>1. s \in [1..Len(s) -> Frame]
    OBVIOUS
  <2> QED  BY <1>1, <1>3, <1>4, <2>1
<1>6. p \in Seq(Frame) /\ Len(p) = Len(s)
  BY <1>1, <1>5
<1>7. p # <<>>
  BY <1>1, <1>6
<1> QED  BY <1>1, <1>2, <1>3, <1>5, <1>6, <1>7 DEF p

\* Every call that is left once the innermost one returns was there before.
LEMMA Pop ==
  ASSUME NEW S, NEW s \in Seq(S), s # <<>>
  PROVE  /\ Tail(s) \in Seq(S) /\ Head(s) \in S
         /\ 1 \in DOMAIN s /\ Head(s) = s[1] /\ Len(Tail(s)) = Len(s) - 1
         /\ \A i \in DOMAIN Tail(s) : i + 1 \in DOMAIN s /\ Tail(s)[i] = s[i + 1]
         /\ \A i \in DOMAIN s : i = 1 \/ (i - 1 \in DOMAIN Tail(s) /\ Tail(s)[i - 1] = s[i])
<1>1. Tail(s) \in Seq(S) /\ Head(s) \in S
  BY TailType
<1>2. Len(Tail(s)) = Len(s) - 1
  OBVIOUS
<1> QED  BY <1>1, <1>2, TailElements
-----------------------------------------------------------------------------
(***************************************************************************)
(* The inductive invariant of the engines in the event loop.  While a call *)
(* is in progress that is about an event, the latest timestep has an event *)
(* and no engine has evaluated it: the handlers that evaluate wait until   *)
(* all calls have returned.                                                *)
(***************************************************************************)
Ticking ==
  (\E i \in DOMAIN frames : frames[i].event # NoEvent) =>
    /\ timestep \in DOMAIN eventByTimestep
    /\ \A d \in Engine : \A i \in DOMAIN engine[d].evaluated :
         engine[d].evaluated[i] < timestep

UiTypeOK ==
  /\ frames \in Seq(Frame)
  /\ bound \in Seq(Output)
  /\ rows \in [Event -> Row]
  /\ shown \in [Output -> Row]
  /\ nested \subseteq Nat /\ IsFiniteSet(nested) /\ Cardinality(nested) <= MaxCallbacks

LoopInv == IInv /\ UiTypeOK /\ Ticking

LEMMA RowType ==
  /\ NoRow \in Row
  /\ \A t, r \in Nat, v \in BOOLEAN :
       [timestep |-> t, requestTimestep |-> r, visible |-> v] \in Row
BY DEF NoRow, Row

LEMMA InitLoopInv == RuntimeInit => LoopInv
<1> SUFFICES ASSUME RuntimeInit PROVE LoopInv
  OBVIOUS
<1>1. IInv
  BY InitIInv DEF RuntimeInit
<1>2. frames = <<>> /\ bound = <<>> /\ <<>> \in Seq(Frame) /\ <<>> \in Seq(Output)
  BY DEF RuntimeInit
<1>3. DOMAIN frames = {}
  BY <1>2
<1>4. nested = {} /\ IsFiniteSet(nested) /\ Cardinality(nested) = 0
  BY FS_EmptySet DEF RuntimeInit
<1> QED  BY <1>1, <1>2, <1>3, <1>4, RowType, OutputAssumption
         DEF LoopInv, UiTypeOK, Ticking, RuntimeInit

\* An event begins: the engines, as of the new timestep.
LEMMA BeginTickEngines ==
  ASSUME IInv, NEW e \in Event, NEW r, BeginTick(e, r), engine' = engine
  PROVE  /\ timestep' = timestep + 1 /\ timestep' \in Nat \ {NoHead}
         /\ IsMap(eventByTimestep', Event) /\ timestep' \in DOMAIN eventByTimestep'
         /\ \A d \in Engine : QueueOK(engine'[d], timestep')
         /\ \A d \in Engine : \A i \in DOMAIN engine'[d].evaluated :
              engine'[d].evaluated[i] < timestep'
<1>1. timestep \in Nat \ {NoHead} /\ timestep' = timestep + 1
      /\ eventByTimestep' = MapSet(eventByTimestep, timestep + 1, e)
  BY DEF IInv, TypeOK, BeginTick
<1>2. timestep' \in Nat \ {NoHead}
  BY <1>1 DEF NoHead
<1>3. IsMap(eventByTimestep', Event)
  BY <1>1, <1>2, MapSetType DEF IInv, TypeOK
<1>4. timestep' \in DOMAIN eventByTimestep'
  BY <1>1 DEF MapSet
<1>5. \A d \in Engine : QueueOK(engine'[d], timestep')
  BY <1>1, LaterOK DEF IInv, TypeOK
<1>6. ASSUME NEW d \in Engine, NEW i \in DOMAIN engine[d].evaluated
      PROVE  engine[d].evaluated[i] < timestep'
  <2>1. engine[d].evaluated \in Seq(Nat)
    BY DEF IInv, TypeOK, IsEngine
  <2>2. engine[d].evaluated[i] \in Nat
    BY <2>1, ElementOfSeq
  <2>3. engine[d].evaluated[i] <= timestep
    BY DEF IInv, QueueOK, UpTo
  <2> QED  BY <1>1, <2>2, <2>3
<1> QED  BY <1>1, <1>2, <1>3, <1>4, <1>5, <1>6

\* An event begins: the call is on the stack, and the row is in the database.
LEMMA BeginTickUi ==
  ASSUME LoopInv, NEW e \in Event, NEW r \in Nat, BeginTick(e, r),
         engine' = engine, nested' \subseteq Nat, IsFiniteSet(nested'),
         Cardinality(nested') <= MaxCallbacks
  PROVE  UiTypeOK' /\ Ticking'
<1>1. timestep' \in Nat
      /\ timestep' = timestep + 1
      /\ timestep' \in DOMAIN eventByTimestep'
      /\ \A d \in Engine : \A i \in DOMAIN engine'[d].evaluated :
           engine'[d].evaluated[i] < timestep'
  BY BeginTickEngines DEF LoopInv
<1>2. Call(e, bound) \in Frame
  BY DEF Call, Frame, LoopInv, UiTypeOK
<1>3. frames' \in Seq(Frame)
  BY <1>2, Push DEF BeginTick, LoopInv, UiTypeOK
<1>4. PICK v \in BOOLEAN :
        rows' = [rows EXCEPT ![e] = [timestep |-> timestep + 1,
                                     requestTimestep |-> r, visible |-> v]]
  BY DEF BeginTick
<1>5. rows' \in [Event -> Row]
  BY <1>1, <1>4, RowType DEF LoopInv, UiTypeOK
<1> QED  BY <1>1, <1>3, <1>5 DEF BeginTick, LoopInv, UiTypeOK, Ticking

LEMMA UserInputLoop ==
  ASSUME LoopInv, NEW e \in Input, UserInput(e)
  PROVE  LoopInv'
<1>1. e \in Event /\ timestep \in Nat /\ BeginTick(e, timestep) /\ engine' = engine
      /\ nested' = nested /\ sending' = sending /\ sending = <<>>
  BY PlanAssumption DEF UserInput, Quiet, Idle, BeginTick, LoopInv, IInv, TypeOK
<1>2. /\ timestep' \in Nat \ {NoHead}
      /\ IsMap(eventByTimestep', Event)
      /\ \A d \in Engine : QueueOK(engine'[d], timestep')
  BY <1>1, BeginTickEngines DEF LoopInv
<1>3. inputs' \in 0..MaxInputs
  BY BoundAssumption DEF UserInput, LoopInv, IInv, TypeOK
<1>4. IInv'
  BY <1>1, <1>2, <1>3
     DEF LoopInv, IInv, TypeOK, Sending, UserInput, remoteVars, historyVars
<1>5. UiTypeOK' /\ Ticking'
  BY <1>1, BeginTickUi DEF LoopInv, UiTypeOK
<1> QED  BY <1>4, <1>5 DEF LoopInv

LEMMA CallbackInputLoop ==
  ASSUME LoopInv, NEW e \in Input, CallbackInput(e)
  PROVE  LoopInv'
<1>1. e \in Event /\ timestep \in Nat /\ BeginTick(e, timestep) /\ engine' = engine
      /\ sending' = sending /\ sending = <<>>
  BY PlanAssumption DEF CallbackInput, InCallback, Idle, BeginTick, LoopInv, IInv, TypeOK
<1>2. /\ timestep' \in Nat \ {NoHead}
      /\ IsMap(eventByTimestep', Event)
      /\ \A d \in Engine : QueueOK(engine'[d], timestep')
  BY <1>1, BeginTickEngines DEF LoopInv
<1>3. nested' \subseteq Nat /\ IsFiniteSet(nested') /\ Cardinality(nested') <= MaxCallbacks
  <2>1. /\ nested' = nested \cup {timestep + 1} /\ Cardinality(nested) < MaxCallbacks
        /\ nested \subseteq Nat /\ IsFiniteSet(nested) /\ MaxCallbacks \in Nat
    BY OutputAssumption DEF CallbackInput, LoopInv, UiTypeOK
  <2>2. /\ IsFiniteSet(nested') /\ Cardinality(nested) \in Nat
        /\ Cardinality(nested') = Cardinality(nested) \/ Cardinality(nested') = Cardinality(nested) + 1
    BY <2>1, FS_AddElement, FS_CardinalityType
  <2> QED  BY <1>1, <2>1, <2>2
<1>4. IInv'
  BY <1>1, <1>2
     DEF LoopInv, IInv, TypeOK, Sending, CallbackInput, remoteVars, boundVars, historyVars
<1>5. UiTypeOK' /\ Ticking'
  BY <1>1, <1>3, BeginTickUi
<1> QED  BY <1>4, <1>5 DEF LoopInv

\* The results of a view are the next event.
LEMMA ResultsInputLoop ==
  ASSUME LoopInv, NEW d \in Engine, ResultsInput(d)
  PROVE  LoopInv'
<1> DEFINE reply == Head(toClient[d])
           m     == reply.msg
<1>1. reply \in Answered /\ toClient' \in [Engine -> Seq(Answered)]
  BY TakeReplyType DEF ResultsInput, Quiet, CanHandle, LoopInv
<1>2. /\ m.remoteAction = "ShipRelation"
      /\ BeginTick(m.relationName, m.requestTimestep)
      /\ delivered' = [delivered EXCEPT ![d] = @ \cup
           {[requestTimestep |-> m.requestTimestep, view |-> m.relationName,
             results |-> reply.results]}]
      /\ engine' = engine /\ sending = <<>> /\ nested' = nested
  BY DEF ResultsInput, Quiet, Idle
<1>3. sending' = sending
  BY <1>2 DEF BeginTick
<1> HIDE DEF reply
<1>4. m \in Message /\ reply.results \in Content
  BY <1>1 DEF Answered
<1> HIDE DEF m
<1>5. m.relationName \in Event /\ m.requestTimestep \in Nat
  BY <1>2, <1>4 DEF Message
<1>6. /\ timestep' \in Nat \ {NoHead}
      /\ IsMap(eventByTimestep', Event)
      /\ \A x \in Engine : QueueOK(engine'[x], timestep')
  BY <1>2, <1>5, BeginTickEngines DEF LoopInv
<1>7. delivered' \in
        [Engine -> SUBSET [requestTimestep : Nat, view : Event, results : Content]]
  BY <1>2, <1>4, <1>5 DEF LoopInv, IInv, TypeOK
<1>8. IInv'
  BY <1>1, <1>2, <1>3, <1>6, <1>7 DEF LoopInv, IInv, TypeOK, Sending, ResultsInput, boundVars
<1>9. UiTypeOK' /\ Ticking'
  BY <1>2, <1>5, BeginTickUi DEF LoopInv, UiTypeOK
<1> QED  BY <1>8, <1>9 DEF LoopInv

\* What is rendered changes nothing but the user interface.
LEMMA SameEnginesIInv ==
  ASSUME IInv, UNCHANGED vars
  PROVE  IInv'
BY DEF IInv, TypeOK, Sending, vars, mainVars, remoteVars, boundVars, historyVars

LEMMA RunOutputIs ==
  ASSUME LoopInv, RunOutput
  PROVE  \E o \in Output, renders \in BOOLEAN :
           /\ Head(frames).outputs # <<>> /\ o = Head(Head(frames).outputs)
           /\ renders <=> Concerns(Head(frames).event, o) /\ rows[Source[o]].visible
           /\ frames' = NextTurn(frames, renders)
           /\ shown' = IF renders THEN [shown EXCEPT ![o] = rows[Source[o]]] ELSE shown
<1> DEFINE o == Head(Head(frames).outputs)
           renders == Concerns(Head(frames).event, o) /\ rows[Source[o]].visible
<1>1. frames \in Seq(Frame) /\ frames # <<>> /\ Head(frames).outputs # <<>>
  BY DEF LoopInv, UiTypeOK, RunOutput
<1>2. Head(frames).outputs \in Seq(Output)
  <2>1. Head(frames) \in Frame
    BY <1>1, Pop
  <2> QED  BY <2>1 DEF Frame
<1>3. o \in Output
  BY <1>1, <1>2, TailType
<1>4. renders \in BOOLEAN
  OBVIOUS
<1>5. /\ frames' = NextTurn(frames, renders)
      /\ shown' = IF renders THEN [shown EXCEPT ![o] = rows[Source[o]]] ELSE shown
  BY DEF RunOutput, NextTurn
<1> HIDE DEF o
<1>6. renders <=> Concerns(Head(frames).event, o) /\ rows[Source[o]].visible
  OBVIOUS
<1> HIDE DEF renders
<1> QED  BY <1>1, <1>3, <1>4, <1>5, <1>6 DEF o

LEMMA RunOutputLoop ==
  ASSUME LoopInv, RunOutput
  PROVE  LoopInv'
<1>1. PICK o \in Output, renders \in BOOLEAN :
        /\ Head(frames).outputs # <<>>
        /\ frames' = NextTurn(frames, renders)
        /\ shown' = IF renders THEN [shown EXCEPT ![o] = rows[Source[o]]] ELSE shown
  BY RunOutputIs
<1>2. frames \in Seq(Frame) /\ frames # <<>> /\ rows[Source[o]] \in Row
  BY OutputAssumption DEF LoopInv, UiTypeOK, RunOutput
<1>3. /\ frames' \in Seq(Frame) /\ DOMAIN frames' = DOMAIN frames
      /\ \A i \in DOMAIN frames : frames'[i].event = frames[i].event
  BY <1>1, <1>2, NextTurnIs
<1>4. shown' \in [Output -> Row]
  BY <1>1, <1>2 DEF LoopInv, UiTypeOK
<1>5. IInv' /\ engine' = engine /\ timestep' = timestep
      /\ eventByTimestep' = eventByTimestep
  BY SameEnginesIInv DEF RunOutput, LoopInv, vars, mainVars
<1>6. Ticking'
  BY <1>3, <1>5 DEF LoopInv, Ticking
<1> QED  BY <1>3, <1>4, <1>5, <1>6 DEF LoopInv, UiTypeOK, RunOutput

LEMMA FinishCallLoop ==
  ASSUME LoopInv, FinishCall
  PROVE  LoopInv'
<1>1. frames \in Seq(Frame) /\ frames # <<>> /\ frames' = Tail(frames)
  BY DEF LoopInv, UiTypeOK, FinishCall
<1>2. /\ frames' \in Seq(Frame) /\ Head(frames) \in Frame
      /\ 1 \in DOMAIN frames /\ Head(frames) = frames[1]
      /\ \A i \in DOMAIN frames' : i + 1 \in DOMAIN frames /\ frames'[i] = frames[i + 1]
  BY <1>1, Pop
<1>3. /\ engine' = engine /\ timestep' = timestep /\ eventByTimestep' = eventByTimestep
      /\ sending' = IF Head(frames).event = NoEvent THEN <<>>
                    ELSE ShipForEvent[Head(frames).event]
  BY DEF FinishCall
<1>4. Head(frames).event \in Event \cup {NoEvent}
  BY <1>2 DEF Frame
<1>5. sending' \in Seq(Shipment)
  <2>1. CASE Head(frames).event = NoEvent
    BY <1>3, <2>1
  <2>2. CASE Head(frames).event # NoEvent
    <3> DEFINE e == Head(frames).event
    <3>1. e \in Event /\ sending' = ShipForEvent[e]
      BY <1>3, <1>4, <2>2
    <3> HIDE DEF e
    <3> QED  BY <3>1, PlanAssumption DEF Shipment
  <2> QED  BY <2>1, <2>2
<1>6. Sending'
  BY <1>2, <1>3 DEF Sending, Ticking, LoopInv
<1>7. IInv'
  BY <1>3, <1>5, <1>6
     DEF LoopInv, IInv, TypeOK, FinishCall, remoteVars, boundVars, historyVars
<1>8. Ticking'
  BY <1>2, <1>3 DEF Ticking, LoopInv
<1> QED  BY <1>2, <1>7, <1>8 DEF LoopInv, UiTypeOK, FinishCall

\* A step of the engines while the user interface rests, which evaluates
\* nothing or comes when no call is in progress.
LEMMA EngineStepLoop ==
  ASSUME LoopInv, IInv', UNCHANGED uiVars, timestep' = timestep,
         eventByTimestep' = eventByTimestep,
         \/ frames = <<>>
         \/ \A d \in Engine : engine'[d].evaluated = engine[d].evaluated
  PROVE  LoopInv'
<1>1. UiTypeOK' /\ frames' = frames
  BY DEF LoopInv, UiTypeOK, uiVars
<1>2. frames = <<>> => DOMAIN frames = {}
  OBVIOUS
<1>3. Ticking'
  BY <1>1, <1>2 DEF LoopInv, Ticking
<1> QED  BY <1>1, <1>3 DEF LoopInv

LEMMA ShipLoop ==
  ASSUME LoopInv, Ship
  PROVE  LoopInv'
<1>1. CASE ShipWorkerInput
  <2>1. IInv'
    BY <1>1, ShipWorkerInputIInv DEF LoopInv
  <2> DEFINE d == Head(sending).destination
             r == Head(sending).relation
  <2>2. Head(sending) \in Shipment
    BY <1>1, TailType DEF ShipWorkerInput, LoopInv, IInv, TypeOK
  <2>3. d \in Engine /\ r \in Relation
    BY <2>2 DEF Shipment
  <2>4. engine' = [engine EXCEPT ![d] = SendUpdate(engine[d], timestep, r, Plan(d, timestep))]
    BY <1>1 DEF ShipWorkerInput
  <2> HIDE DEF d, r
  <2>5. /\ IsEngine(engine[d]) /\ QueueOK(engine[d], timestep)
        /\ timestep \in Nat \ {NoHead}
        /\ \A i \in DOMAIN engine[d].evaluated : engine[d].evaluated[i] < timestep
    BY <1>1, <2>3 DEF LoopInv, IInv, TypeOK, Sending, ShipWorkerInput
  <2>6. SendUpdate(engine[d], timestep, r, Plan(d, timestep)).evaluated = engine[d].evaluated
    BY <2>5, SendUpdateOK
  <2>7. \A x \in Engine : engine'[x].evaluated = engine[x].evaluated
    BY <2>3, <2>4, <2>6 DEF LoopInv, IInv, TypeOK
  <2> QED  BY <1>1, <2>1, <2>7, EngineStepLoop DEF Ship, ShipWorkerInput
<1>2. CASE SkipEmptyRelation
  <2>1. IInv'
    BY <1>2, SkipEmptyRelationIInv DEF LoopInv
  <2> QED  BY <1>2, <2>1, EngineStepLoop DEF Ship, SkipEmptyRelation
<1> QED  BY <1>1, <1>2 DEF Ship

LEMMA DatabaseLoop ==
  ASSUME LoopInv, NEW d \in Engine, Database(d)
  PROVE  LoopInv'
<1>1. IInv'
  BY ExecuteUpdateIInv, ExecuteShipIInv DEF LoopInv, Database
<1>2. PICK reply, content : Execute(d, reply, content)
  BY DEF Database, ExecuteUpdate, ExecuteShip
<1>3. \A x \in Engine : engine'[x].evaluated = engine[x].evaluated
  BY <1>2 DEF Execute, LoopInv, IInv, TypeOK, IsEngine
<1> QED  BY <1>1, <1>2, <1>3, EngineStepLoop DEF Database, Execute, mainVars

LEMMA OtherReplyLoop ==
  ASSUME LoopInv, NEW d \in Engine, OtherReply(d)
  PROVE  LoopInv'
<1>1. IInv'
  BY HandleUpdateIInv, DropShipIInv DEF LoopInv, OtherReply
<1> QED  BY <1>1, EngineStepLoop DEF OtherReply, HandleUpdate, DropShip, mainVars

\* What BindOutput posts goes behind what is posted, and to no queue.
Asked(o, d) == [i \in 1..Len(StaticShip[o][d]) |-> StaticMsg(StaticShip[o][d][i])]

LEMMA AskedType ==
  ASSUME LoopInv, NEW o \in Output, NEW d \in Engine
  PROVE  /\ Asked(o, d) \in Seq(Message)
         /\ \A i \in DOMAIN Asked(o, d) : ~IsUpdate(Asked(o, d)[i])
<1> DEFINE ships == StaticShip[o][d]
<1>1. ships \in Seq(Event) /\ timestep \in Nat
  BY OutputAssumption DEF LoopInv, IInv, TypeOK
<1> HIDE DEF ships
<1>2. ASSUME NEW i \in 1..Len(ships)
      PROVE  StaticMsg(ships[i]) \in Message /\ ~IsUpdate(StaticMsg(ships[i]))
  <2>1. ships[i] \in Event
    BY <1>1
  <2> QED  BY <1>1, <2>1 DEF StaticMsg, ShipMsg, Message, IsUpdate
<1>3. Len(ships) \in Nat
  BY <1>1
<1> DEFINE s == [i \in 1..Len(ships) |-> StaticMsg(ships[i])]
<1>4. s \in Seq(Message) /\ DOMAIN s = 1..Len(ships)
  BY <1>2, <1>3, FunctionIsSeq
<1> QED  BY <1>2, <1>4 DEF Asked, ships

LEMMA PostStaticIs ==
  ASSUME LoopInv, NEW o \in Output, NEW d \in Engine
  PROVE  /\ PostStatic(o)[d] =
              [engine[d] EXCEPT !.toRemote = engine[d].toRemote \o Asked(o, d)]
         /\ engine[d].toRemote \o Asked(o, d) \in Seq(Message)
<1>1. engine[d].toRemote \in Seq(Message) /\ Asked(o, d) \in Seq(Message)
  BY AskedType DEF LoopInv, IInv, TypeOK, IsEngine
<1>2. engine[d].toRemote \o Asked(o, d) \in Seq(Message)
  BY <1>1, ConcatProperties
<1> QED  BY <1>2 DEF PostStatic, Asked

LEMMA BindOutputIInv ==
  ASSUME LoopInv, NEW o \in Output, BindOutput(o)
  PROVE  /\ IInv'
         /\ \A d \in Engine : engine'[d].evaluated = engine[d].evaluated
<1>1. ASSUME NEW d \in Engine
      PROVE  IsEngine(engine'[d]) /\ QueueOK(engine'[d], timestep)
             /\ engine'[d].evaluated = engine[d].evaluated
  <2>1. IsEngine(engine[d]) /\ QueueOK(engine[d], timestep)
    BY DEF LoopInv, IInv, TypeOK
  <2>2. CASE engine' = engine
    BY <2>1, <2>2
  <2>3. CASE engine' = PostStatic(o)
    <3> DEFINE s == engine[d].toRemote \o Asked(o, d)
    <3>1. engine'[d] = [engine[d] EXCEPT !.toRemote = s] /\ s \in Seq(Message)
      BY <2>3, PostStaticIs
    <3> HIDE DEF s
    <3> DEFINE q == engine[d]
               p == [q EXCEPT !.toRemote = s]
    <3>2. IsEngine(p) /\ QueueOK(p, timestep) /\ p.evaluated = q.evaluated
      <4> HIDE DEF q
      <4> QED  BY <2>1, <3>1, ToRemoteOK DEF q
    <3> QED  BY <3>1, <3>2
  <2> QED  BY <2>2, <2>3 DEF BindOutput
<1>2. DOMAIN engine' = Engine
  BY DEF BindOutput, PostStatic, LoopInv, IInv, TypeOK
<1>3. timestep' = timestep /\ sending' = sending /\ eventByTimestep' = eventByTimestep
  BY DEF BindOutput, mainVars
<1>4. TypeOK'
  BY <1>1, <1>2 DEF LoopInv, IInv, TypeOK, BindOutput, mainVars, remoteVars,
                    boundVars, historyVars
<1>5. Sending'
  BY <1>1, <1>3 DEF LoopInv, IInv, Sending
<1> QED  BY <1>1, <1>3, <1>4, <1>5 DEF IInv

LEMMA BindOutputLoop ==
  ASSUME LoopInv, NEW o \in Output, BindOutput(o)
  PROVE  LoopInv'
<1>1. IInv' /\ \A d \in Engine : engine'[d].evaluated = engine[d].evaluated
  BY BindOutputIInv
<1>2. /\ frames' = <<Call(NoEvent, <<o>>)>> \o frames
      /\ bound' = Append(bound, o) /\ timestep' = timestep
      /\ eventByTimestep' = eventByTimestep
  BY DEF BindOutput, mainVars
<1>3. Call(NoEvent, <<o>>) \in Frame /\ Call(NoEvent, <<o>>).event = NoEvent
  BY DEF Call, Frame
<1> DEFINE f == Call(NoEvent, <<o>>)
<1> HIDE DEF f
<1>4. /\ frames' \in Seq(Frame) /\ frames'[1] = f
      /\ \A i \in DOMAIN frames' : i = 1 \/ (i - 1 \in DOMAIN frames
                                              /\ frames'[i] = frames[i - 1])
  BY <1>2, <1>3, Push DEF LoopInv, UiTypeOK, f
<1>5. Ticking'
  <2>1. \A i \in DOMAIN frames' : frames'[i].event # NoEvent =>
          \E j \in DOMAIN frames : frames[j].event # NoEvent
    BY <1>3, <1>4 DEF f
  <2> QED  BY <1>1, <1>2, <2>1 DEF LoopInv, Ticking
<1>6. bound' \in Seq(Output)
  BY <1>2, AppendProperties DEF LoopInv, UiTypeOK
<1> QED  BY <1>1, <1>4, <1>5, <1>6 DEF LoopInv, UiTypeOK, BindOutput

LEMMA NextLoopInv == LoopInv /\ [RuntimeNext]_allVars => LoopInv'
<1> SUFFICES ASSUME LoopInv, [RuntimeNext]_allVars PROVE LoopInv'
  OBVIOUS
<1>1. ASSUME NEW e \in Input, UserInput(e) \/ CallbackInput(e) PROVE LoopInv'
  BY <1>1, UserInputLoop, CallbackInputLoop
<1>2. ASSUME NEW o \in Output, BindOutput(o) PROVE LoopInv'
  BY <1>2, BindOutputLoop
<1>3. CASE RunOutput
  BY <1>3, RunOutputLoop
<1>4. CASE FinishCall
  BY <1>4, FinishCallLoop
<1>5. CASE Ship
  BY <1>5, ShipLoop
<1>6. ASSUME NEW d \in Engine, ResultsInput(d) \/ OtherReply(d) \/ Database(d) PROVE LoopInv'
  BY <1>6, ResultsInputLoop, OtherReplyLoop, DatabaseLoop
<1>7. CASE UNCHANGED allVars
  <2>1. IInv'
    BY <1>7, SameEnginesIInv DEF allVars, LoopInv
  <2> QED  BY <1>7, <2>1 DEF allVars, uiVars, vars, mainVars, LoopInv, UiTypeOK, Ticking
<1> QED  BY <1>1, <1>2, <1>3, <1>4, <1>5, <1>6, <1>7 DEF RuntimeNext

LEMMA LoopInvariance == RuntimeSpec => []LoopInv
BY InitLoopInv, NextLoopInv, PTL DEF RuntimeSpec
-----------------------------------------------------------------------------
(***************************************************************************)
(* The state of the event loop has its type: in particular the call that   *)
(* newInputHelper returns from, the output it renders and the plan of the  *)
(* event it ships exist, whatever rendering functions do in between.       *)
(***************************************************************************)
THEOREM RuntimeTypeCorrect == RuntimeSpec => []RuntimeTypeOK
<1>1. LoopInv => RuntimeTypeOK
  BY DEF LoopInv, UiTypeOK, IInv, RuntimeTypeOK
<1> QED  BY <1>1, LoopInvariance, PTL

(***************************************************************************)
(* The queues of the engines (DbEngine.SendMsg, nextQueue and evaluate-    *)
(* QueueOnUpdateHandler) keep their order when events are inserted in the  *)
(* middle of other events and static triggers bypass the queue: the head is*)
(* the lowest timestep, evaluation is in order and at most once, and what  *)
(* waits in an entry is all the entry has received.                        *)
(***************************************************************************)
THEOREM QueuesStayInOrder ==
  RuntimeSpec => [](HeadIsLowest /\ EvaluatedInOrder /\ WaitingValuesComplete)
<1>1. LoopInv => HeadIsLowest /\ EvaluatedInOrder /\ WaitingValuesComplete
  BY DEF LoopInv, IInv, QueueOK, HeadIsLowest, EvaluatedInOrder, WaitingValuesComplete
<1> QED  BY <1>1, LoopInvariance, PTL
-----------------------------------------------------------------------------
(***************************************************************************)
(* What is shown.  OutputsCurrent speaks of the free main thread; in the   *)
(* middle of calls, an output that is not current is still to be rendered  *)
(* by one of them.                                                         *)
(***************************************************************************)
Pending(fs, o) ==
  \E k \in DOMAIN fs : \E j \in DOMAIN fs[k].outputs :
    fs[k].outputs[j] = o /\ Concerns(fs[k].event, o)

Rendered ==
  \A i \in DOMAIN bound :
    LET row == rows[Source[bound[i]]]
    IN  row.visible => shown[bound[i]] = row \/ Pending(frames, bound[i])

\* What is pending stays so when a call is put on top.
LEMMA PendingBelow ==
  ASSUME NEW fs \in Seq(Frame), NEW f \in Frame, NEW o, Pending(fs, o)
  PROVE  Pending(<<f>> \o fs, o)
<1> DEFINE p == <<f>> \o fs
<1>1. \A i \in DOMAIN fs : i + 1 \in DOMAIN p /\ p[i + 1] = fs[i]
  BY Push
<1> HIDE DEF p
<1>2. Pending(p, o)
  BY <1>1 DEF Pending
<1> QED  BY <1>2 DEF p

\* The outputs of the call that is put on top are pending.
LEMMA PendingOnTop ==
  ASSUME NEW fs \in Seq(Frame), NEW f \in Frame, NEW j \in DOMAIN f.outputs,
         Concerns(f.event, f.outputs[j])
  PROVE  Pending(<<f>> \o fs, f.outputs[j])
<1> DEFINE p == <<f>> \o fs
<1>1. 1 \in DOMAIN p /\ p[1] = f
  BY Push
<1> HIDE DEF p
<1>2. Pending(p, f.outputs[j])
  BY <1>1 DEF Pending
<1> QED  BY <1>2 DEF p

LEMMA BeginTickRendered ==
  ASSUME LoopInv, Rendered, NEW e \in Event, NEW r, BeginTick(e, r)
  PROVE  Rendered'
<1>1. /\ frames' = <<Call(e, bound)>> \o frames /\ bound' = bound /\ shown' = shown
      /\ \A x \in Event : x # e => rows'[x] = rows[x]
  BY DEF BeginTick, LoopInv, UiTypeOK
<1>2. /\ frames \in Seq(Frame) /\ Call(e, bound) \in Frame /\ bound \in Seq(Output)
      /\ Call(e, bound).outputs = bound /\ Call(e, bound).event = e
  BY DEF Call, Frame, LoopInv, UiTypeOK
<1>3. ASSUME NEW i \in DOMAIN bound, rows'[Source[bound[i]]].visible
      PROVE  \/ shown[bound[i]] = rows'[Source[bound[i]]]
             \/ Pending(<<Call(e, bound)>> \o frames, bound[i])
  <2>1. bound[i] \in Output
    BY <1>2
  <2>2. Source[bound[i]] \in Event /\ Source[bound[i]] \in RunsOn[bound[i]]
    BY <2>1, OutputAssumption
  <2>3. CASE Source[bound[i]] = e
    <3>1. Concerns(e, bound[i])
      BY <2>2, <2>3 DEF Concerns
    <3> DEFINE f == Call(e, bound)
    <3> HIDE DEF f
    <3>2. Pending(<<f>> \o frames, f.outputs[i])
      BY <1>2, <3>1, PendingOnTop DEF f
    <3> QED  BY <1>2, <3>2 DEF f
  <2>4. CASE Source[bound[i]] # e
    BY <1>1, <1>2, <1>3, <2>2, <2>4, PendingBelow DEF Rendered
  <2> QED  BY <2>3, <2>4
<1> QED  BY <1>1, <1>3 DEF Rendered

LEMMA RunOutputRendered ==
  ASSUME LoopInv, Rendered, RunOutput
  PROVE  Rendered'
<1>1. PICK o \in Output, renders \in BOOLEAN :
        /\ Head(frames).outputs # <<>> /\ o = Head(Head(frames).outputs)
        /\ renders <=> Concerns(Head(frames).event, o) /\ rows[Source[o]].visible
        /\ frames' = NextTurn(frames, renders)
        /\ shown' = IF renders THEN [shown EXCEPT ![o] = rows[Source[o]]] ELSE shown
  BY RunOutputIs
<1>2. /\ frames \in Seq(Frame) /\ frames # <<>> /\ bound \in Seq(Output)
      /\ bound' = bound /\ rows' = rows /\ shown \in [Output -> Row]
  BY DEF RunOutput, LoopInv, UiTypeOK
<1> DEFINE p == NextTurn(frames, renders)
<1>3. /\ DOMAIN p = DOMAIN frames
      /\ 1 \in DOMAIN frames /\ Head(frames) = frames[1]
      /\ frames[1].outputs \in Seq(Output)
      /\ p[1].event = frames[1].event /\ p[1].outputs = Tail(frames[1].outputs)
      /\ \A i \in DOMAIN frames : i # 1 => p[i] = frames[i]
  BY <1>1, <1>2, NextTurnIs
<1> HIDE DEF p
<1> DEFINE s == frames[1].outputs
<1>4. /\ s # <<>> /\ s[1] = o
      /\ \A j \in DOMAIN s : j = 1 \/ (j - 1 \in DOMAIN Tail(s) /\ Tail(s)[j - 1] = s[j])
  <2>1. s \in Seq(Output) /\ s # <<>> /\ o = Head(s)
    BY <1>1, <1>3
  <2> HIDE DEF s
  <2> QED  BY <2>1, Pop
\* Another output stays pending, and o does unless this was its turn.
<1>5. ASSUME NEW b, Pending(frames, b),
             ~(b = o /\ Concerns(frames[1].event, o))
      PROVE  Pending(p, b)
  <2>1. PICK k \in DOMAIN frames : \E j \in DOMAIN frames[k].outputs :
          frames[k].outputs[j] = b /\ Concerns(frames[k].event, b)
    BY <1>5 DEF Pending
  <2>2. PICK j \in DOMAIN frames[k].outputs :
          frames[k].outputs[j] = b /\ Concerns(frames[k].event, b)
    BY <2>1
  <2>3. CASE k # 1
    BY <1>3, <2>2, <2>3 DEF Pending
  <2>4. CASE k = 1
    <3>1. j # 1
      BY <1>4, <1>5, <2>2, <2>4
    <3>2. j - 1 \in DOMAIN p[1].outputs /\ p[1].outputs[j - 1] = b
      BY <1>3, <1>4, <2>2, <2>4, <3>1
    <3> QED  BY <1>3, <2>2, <2>4, <3>2 DEF Pending
  <2> QED  BY <2>3, <2>4
<1>6. ASSUME NEW i \in DOMAIN bound, rows[Source[bound[i]]].visible
      PROVE  shown'[bound[i]] = rows[Source[bound[i]]] \/ Pending(p, bound[i])
  <2>1. bound[i] \in Output
    BY <1>2
  <2>2. CASE bound[i] = o /\ Concerns(frames[1].event, o)
    <3>1. renders
      BY <1>1, <1>3, <1>6, <2>2
    <3> QED  BY <1>1, <1>2, <2>2, <3>1
  <2>3. CASE ~(bound[i] = o /\ Concerns(frames[1].event, o))
    <3>1. CASE shown[bound[i]] = rows[Source[bound[i]]]
      BY <1>1, <1>2, <2>1, <3>1
    <3>2. CASE Pending(frames, bound[i])
      BY <1>5, <2>3, <3>2
    <3> QED  BY <1>6, <3>1, <3>2 DEF Rendered
  <2> QED  BY <2>2, <2>3
<1> QED  BY <1>1, <1>2, <1>6 DEF Rendered, p

LEMMA FinishCallRendered ==
  ASSUME LoopInv, Rendered, FinishCall
  PROVE  Rendered'
<1>1. /\ frames \in Seq(Frame) /\ frames # <<>> /\ Head(frames).outputs = <<>>
      /\ frames' = Tail(frames) /\ bound' = bound /\ rows' = rows /\ shown' = shown
  BY DEF FinishCall, LoopInv, UiTypeOK
<1>2. /\ 1 \in DOMAIN frames /\ Head(frames) = frames[1]
      /\ \A i \in DOMAIN frames :
           i = 1 \/ (i - 1 \in DOMAIN frames' /\ frames'[i - 1] = frames[i])
  BY <1>1, Pop
<1>3. \A o : Pending(frames, o) => Pending(frames', o)
  <2>1. DOMAIN frames[1].outputs = {}
    BY <1>1, <1>2
  <2> QED  BY <1>2, <2>1 DEF Pending
<1> QED  BY <1>1, <1>3 DEF Rendered

LEMMA BindOutputRendered ==
  ASSUME LoopInv, Rendered, NEW o \in Output, BindOutput(o)
  PROVE  Rendered'
<1>1. /\ frames' = <<Call(NoEvent, <<o>>)>> \o frames
      /\ bound' = Append(bound, o) /\ rows' = rows /\ shown' = shown
  BY DEF BindOutput
<1> DEFINE f == Call(NoEvent, <<o>>)
<1>2. /\ frames \in Seq(Frame) /\ f \in Frame /\ bound \in Seq(Output)
      /\ 1 \in DOMAIN f.outputs /\ f.outputs[1] = o /\ f.event = NoEvent
  BY DEF Call, Frame, LoopInv, UiTypeOK
<1> HIDE DEF f
<1>3. Pending(<<f>> \o frames, o)
  BY <1>2, PendingOnTop DEF Concerns
<1>4. \A b : Pending(frames, b) => Pending(<<f>> \o frames, b)
  BY <1>2, PendingBelow
<1>5. \A i \in DOMAIN bound' : bound'[i] = o \/ (i \in DOMAIN bound /\ bound'[i] = bound[i])
  BY <1>1, <1>2
<1>6. frames' = <<f>> \o frames
  BY <1>1 DEF f
<1> QED  BY <1>1, <1>3, <1>4, <1>5, <1>6 DEF Rendered

\* An event view's results are an event.
LEMMA ResultsInputIs ==
  ASSUME LoopInv, NEW d \in Engine, ResultsInput(d)
  PROVE  \E e \in Event, r \in Nat : BeginTick(e, r)
<1> DEFINE m == Head(toClient[d]).msg
<1>1. BeginTick(m.relationName, m.requestTimestep) /\ m.remoteAction = "ShipRelation"
  BY DEF ResultsInput
<1>2. Head(toClient[d]) \in Answered
  BY TakeReplyType DEF ResultsInput, Quiet, CanHandle, LoopInv
<1>3. m \in Message
  BY <1>2 DEF Answered
<1> HIDE DEF m
<1>4. m.relationName \in Event /\ m.requestTimestep \in Nat
  BY <1>1, <1>3 DEF Message
<1> QED  BY <1>1, <1>4

LEMMA NextRendered == LoopInv /\ Rendered /\ [RuntimeNext]_allVars => Rendered'
<1> SUFFICES ASSUME LoopInv, Rendered, [RuntimeNext]_allVars PROVE Rendered'
  OBVIOUS
<1>1. ASSUME NEW e \in Input, UserInput(e) \/ CallbackInput(e) PROVE Rendered'
  BY <1>1, PlanAssumption, BeginTickRendered DEF UserInput, CallbackInput
<1>2. ASSUME NEW o \in Output, BindOutput(o) PROVE Rendered'
  BY <1>2, BindOutputRendered
<1>3. CASE RunOutput
  BY <1>3, RunOutputRendered
<1>4. CASE FinishCall
  BY <1>4, FinishCallRendered
<1>5. ASSUME NEW d \in Engine, ResultsInput(d) PROVE Rendered'
  BY <1>5, ResultsInputIs, BeginTickRendered
<1>6. CASE UNCHANGED uiVars
  BY <1>6 DEF uiVars, Rendered
<1> QED  BY <1>1, <1>2, <1>3, <1>4, <1>5, <1>6
         DEF RuntimeNext, allVars, Ship, OtherReply, Database

(***************************************************************************)
(* Whenever no call of newInputHelper or BindOutput is in progress, every  *)
(* bound output was last rendered with its current row, if it has one,     *)
(* however calls were nested (runOutputsGivenNewInputForEvent).            *)
(***************************************************************************)
THEOREM OutputsAreCurrent == RuntimeSpec => []OutputsCurrent
<1>1. RuntimeInit => Rendered
  BY DEF RuntimeInit, Rendered
<1>2. Rendered => OutputsCurrent
  <2>1. frames = <<>> => \A o : ~Pending(frames, o)
    BY DEF Pending
  <2> QED  BY <2>1 DEF Rendered, OutputsCurrent, Quiet
<1> QED  BY <1>1, <1>2, NextRendered, LoopInvariance, PTL DEF RuntimeSpec
-----------------------------------------------------------------------------
(***************************************************************************)
(* What a timestep ships when no rendering function inserts events: at most*)
(* the outermost call in progress is about an event, that event is the one *)
(* of the latest timestep, and what is still to be sent is part of what it *)
(* ships.                                                                  *)
(***************************************************************************)
Planned(e, x) == \E j \in DOMAIN ShipForEvent[e] : ShipForEvent[e][j] = x

OneEvent ==
  /\ \A i \in DOMAIN frames : i < Len(frames) => frames[i].event = NoEvent
  /\ frames # <<>> => sending = <<>>
  /\ \A i \in DOMAIN frames : frames[i].event # NoEvent =>
       timestep \in DOMAIN eventByTimestep /\ frames[i].event = eventByTimestep[timestep]
  /\ \A i \in DOMAIN sending : Planned(eventByTimestep[timestep], sending[i])

Clock ==
  /\ \A t \in DOMAIN eventByTimestep : t <= timestep
  /\ \A d \in Engine : \A x \in submitted[d] : x[1] \in DOMAIN eventByTimestep

OwnInv == OneEvent /\ Clock

LEMMA InitOwnInv == RuntimeInit => OwnInv
<1> SUFFICES ASSUME RuntimeInit PROVE OwnInv
  OBVIOUS
<1>1. /\ frames = <<>> /\ sending = <<>> /\ DOMAIN eventByTimestep = {}
      /\ \A d \in Engine : submitted[d] = {}
  BY DEF RuntimeInit, Init, EmptyMap
<1>2. DOMAIN frames = {} /\ DOMAIN sending = {}
  BY <1>1
<1> QED  BY <1>1, <1>2 DEF OwnInv, OneEvent, Clock

\* An event begins when no call is in progress.
LEMMA BeginTickOwn ==
  ASSUME LoopInv, OwnInv, NEW e \in Event, NEW r, BeginTick(e, r), frames = <<>>,
         sending = <<>>, submitted' = submitted
  PROVE  OwnInv'
<1>1. /\ timestep \in Nat /\ timestep' = timestep + 1 /\ sending' = <<>>
      /\ eventByTimestep' = MapSet(eventByTimestep, timestep + 1, e)
      /\ frames' = <<Call(e, bound)>> \o frames
  BY DEF BeginTick, LoopInv, IInv, TypeOK
<1> DEFINE f == Call(e, bound)
<1>2. f.event = e /\ f \in Frame /\ frames \in Seq(Frame)
  BY DEF Call, Frame, LoopInv, UiTypeOK
<1> HIDE DEF f
<1>3. frames' = <<f>> \o <<>>
  BY <1>1 DEF f
<1>4. Len(frames') = 1 /\ frames'[1] = f /\ DOMAIN frames' = {1}
  BY <1>2, <1>3
<1>5. /\ DOMAIN eventByTimestep' = DOMAIN eventByTimestep \cup {timestep'}
      /\ eventByTimestep'[timestep'] = e
      /\ \A t \in DOMAIN eventByTimestep : t # timestep' => eventByTimestep'[t] = eventByTimestep[t]
  BY <1>1 DEF MapSet
<1>6. \A t \in DOMAIN eventByTimestep : t \in Nat /\ t <= timestep /\ t # timestep'
  BY <1>1 DEF OwnInv, Clock, LoopInv, IInv, TypeOK, IsMap
<1>7. OneEvent'
  <2>1. DOMAIN sending' = {}
    BY <1>1
  <2> QED  BY <1>1, <1>2, <1>4, <1>5, <2>1 DEF OneEvent
<1>8. Clock'
  <2>1. \A t \in DOMAIN eventByTimestep' : t <= timestep'
    BY <1>1, <1>5, <1>6
  <2> QED  BY <1>5, <2>1 DEF OwnInv, Clock
<1> QED  BY <1>7, <1>8 DEF OwnInv

\* A step that sends nothing and leaves the clock alone.
LEMMA SameClockOwn ==
  ASSUME OwnInv, timestep' = timestep, eventByTimestep' = eventByTimestep,
         submitted' = submitted, OneEvent'
  PROVE  OwnInv'
BY DEF OwnInv, Clock

LEMMA RunOutputOwn ==
  ASSUME LoopInv, OwnInv, RunOutput
  PROVE  OwnInv'
<1>1. PICK o \in Output, renders \in BOOLEAN :
        /\ Head(frames).outputs # <<>>
        /\ frames' = NextTurn(frames, renders)
  BY RunOutputIs
<1>2. frames \in Seq(Frame) /\ frames # <<>> /\ UNCHANGED vars
  BY DEF LoopInv, UiTypeOK, RunOutput
<1>3. /\ Len(frames') = Len(frames) /\ DOMAIN frames' = DOMAIN frames
      /\ \A i \in DOMAIN frames : frames'[i].event = frames[i].event
  BY <1>1, <1>2, NextTurnIs
<1>4. OneEvent'
  BY <1>2, <1>3 DEF OwnInv, OneEvent, vars, mainVars
<1> QED  BY <1>2, <1>4, SameClockOwn DEF vars, mainVars, historyVars

LEMMA FinishCallOwn ==
  ASSUME LoopInv, OwnInv, FinishCall
  PROVE  OwnInv'
<1>1. /\ frames \in Seq(Frame) /\ frames # <<>> /\ frames' = Tail(frames)
      /\ timestep' = timestep /\ eventByTimestep' = eventByTimestep
      /\ submitted' = submitted
  BY DEF LoopInv, UiTypeOK, FinishCall, historyVars
<1> DEFINE e == Head(frames).event
<1>2. /\ 1 \in DOMAIN frames /\ e = frames[1].event /\ Head(frames) \in Frame
      /\ Len(frames') = Len(frames) - 1 /\ Len(frames) \in Nat
      /\ \A i \in DOMAIN frames' : i \in Nat /\ i + 1 \in DOMAIN frames /\ frames'[i] = frames[i + 1]
  BY <1>1, Pop
<1>3. sending' = IF e = NoEvent THEN <<>> ELSE ShipForEvent[e]
  BY DEF FinishCall
<1> HIDE DEF e
<1>4. frames' # <<>> => Len(frames) > 1
  BY <1>1
<1>5. frames' # <<>> => e = NoEvent
  BY <1>2, <1>4 DEF OwnInv, OneEvent
<1>6. \A i \in DOMAIN frames' : i < Len(frames') => frames'[i].event = NoEvent
  BY <1>2 DEF OwnInv, OneEvent
<1>7. \A i \in DOMAIN frames' : frames'[i].event # NoEvent =>
        timestep \in DOMAIN eventByTimestep /\ frames'[i].event = eventByTimestep[timestep]
  BY <1>2 DEF OwnInv, OneEvent
<1>8. ASSUME NEW i \in DOMAIN sending'
      PROVE  Planned(eventByTimestep[timestep], sending'[i])
  <2>1. e # NoEvent
    BY <1>3, <1>8
  <2>2. e = eventByTimestep[timestep]
    BY <1>2, <2>1 DEF OwnInv, OneEvent
  <2>3. sending' = ShipForEvent[e]
    BY <1>3, <2>1
  <2> QED  BY <1>8, <2>2, <2>3 DEF Planned
<1>9. frames' # <<>> => sending' = <<>>
  BY <1>3, <1>5
<1>10. OneEvent'
  BY <1>1, <1>6, <1>7, <1>8, <1>9 DEF OneEvent
<1> QED  BY <1>1, <1>10, SameClockOwn

LEMMA BindOutputOwn ==
  ASSUME LoopInv, OwnInv, NEW o \in Output, BindOutput(o)
  PROVE  OwnInv'
<1>1. /\ frames' = <<Call(NoEvent, <<o>>)>> \o frames /\ sending = <<>>
      /\ timestep' = timestep /\ eventByTimestep' = eventByTimestep
      /\ sending' = sending /\ submitted' = submitted
  BY DEF BindOutput, Quiet, InCallback, Idle, mainVars, historyVars
<1> DEFINE f == Call(NoEvent, <<o>>)
<1>2. f.event = NoEvent /\ f \in Frame /\ frames \in Seq(Frame)
  BY DEF Call, Frame, LoopInv, UiTypeOK
<1> HIDE DEF f
<1>3. frames' = <<f>> \o frames
  BY <1>1 DEF f
<1>4. /\ Len(frames') = Len(frames) + 1 /\ frames'[1] = f /\ Len(frames) \in Nat
      /\ \A i \in DOMAIN frames' : i \in Nat /\ (i = 1 \/ (i - 1 \in DOMAIN frames
                                              /\ frames'[i] = frames[i - 1]))
  BY <1>2, <1>3, Push
<1>5. OneEvent'
  <2>1. \A i \in DOMAIN frames' : i < Len(frames') => frames'[i].event = NoEvent
    BY <1>2, <1>4 DEF OwnInv, OneEvent
  <2>2. \A i \in DOMAIN frames' : frames'[i].event # NoEvent =>
          timestep \in DOMAIN eventByTimestep /\ frames'[i].event = eventByTimestep[timestep]
    BY <1>2, <1>4 DEF OwnInv, OneEvent
  <2> QED  BY <1>1, <2>1, <2>2 DEF OwnInv, OneEvent
<1> QED  BY <1>1, <1>5, SameClockOwn

LEMMA ShipOwn ==
  ASSUME LoopInv, OwnInv, Ship
  PROVE  OwnInv'
<1>1. /\ sending \in Seq(Shipment) /\ sending # <<>> /\ sending' = Tail(sending)
      /\ timestep' = timestep /\ eventByTimestep' = eventByTimestep /\ frames' = frames
  BY DEF Ship, ShipWorkerInput, SkipEmptyRelation, LoopInv, IInv, TypeOK, uiVars
<1>2. /\ 1 \in DOMAIN sending /\ Head(sending) = sending[1]
      /\ \A i \in DOMAIN sending' : i + 1 \in DOMAIN sending /\ sending'[i] = sending[i + 1]
  BY <1>1, Pop
<1>3. frames = <<>> /\ DOMAIN frames = {}
  BY <1>1 DEF OwnInv, OneEvent
<1>4. OneEvent'
  BY <1>1, <1>2, <1>3 DEF OwnInv, OneEvent
<1>5. CASE SkipEmptyRelation
  BY <1>1, <1>4, <1>5, SameClockOwn DEF SkipEmptyRelation, historyVars
<1>6. CASE ShipWorkerInput
  <2> DEFINE d == Head(sending).destination
             r == Head(sending).relation
             now == timestep
  <2>1. submitted' = [submitted EXCEPT ![d] = @ \cup {<<now, r>>}]
    BY <1>6 DEF ShipWorkerInput
  <2> HIDE DEF d, r
  <2>4. timestep \in DOMAIN eventByTimestep
    BY <1>1 DEF LoopInv, IInv, Sending
  <2>5. ASSUME NEW x \in Engine, NEW y \in submitted'[x]
        PROVE  y \in submitted[x] \/ (x = d /\ y[1] = timestep /\ y[2] = r)
    BY <2>1 DEF LoopInv, IInv, TypeOK
  <2>6. Clock'
    BY <1>1, <2>4, <2>5 DEF OwnInv, Clock
  <2> QED  BY <1>4, <2>6 DEF OwnInv
<1> QED  BY <1>5, <1>6 DEF Ship

LEMMA NextOwnInv ==
  ASSUME MaxCallbacks = 0, LoopInv, OwnInv, [RuntimeNext]_allVars
  PROVE  OwnInv'
<1>1. ASSUME NEW e \in Input, UserInput(e) PROVE OwnInv'
  BY <1>1, PlanAssumption, BeginTickOwn DEF UserInput, Quiet, Idle, historyVars
<1>2. ASSUME NEW e \in Input, CallbackInput(e) PROVE OwnInv'
  BY <1>2, FS_CardinalityType DEF CallbackInput, LoopInv, UiTypeOK
<1>3. ASSUME NEW o \in Output, BindOutput(o) PROVE OwnInv'
  BY <1>3, BindOutputOwn
<1>4. CASE RunOutput
  BY <1>4, RunOutputOwn
<1>5. CASE FinishCall
  BY <1>5, FinishCallOwn
<1>6. CASE Ship
  BY <1>6, ShipOwn
<1>7. ASSUME NEW d \in Engine, ResultsInput(d) PROVE OwnInv'
  <2>1. PICK e, r : e \in Event /\ BeginTick(e, r)
    BY <1>7, ResultsInputIs
  <2> QED  BY <1>7, <2>1, BeginTickOwn DEF ResultsInput, Quiet, Idle
<1>8. CASE UNCHANGED <<mainVars, historyVars, frames>>
  BY <1>8 DEF OwnInv, OneEvent, Clock, mainVars, historyVars
<1>9. ASSUME NEW d \in Engine, OtherReply(d) \/ Database(d)
      PROVE  UNCHANGED <<mainVars, historyVars, frames>>
  BY <1>9 DEF OtherReply, HandleUpdate, DropShip, Database, ExecuteUpdate, ExecuteShip,
              Execute, uiVars
<1> QED  BY <1>1, <1>2, <1>3, <1>4, <1>5, <1>6, <1>7, <1>8, <1>9
         DEF RuntimeNext, allVars, vars, uiVars

-----------------------------------------------------------------------------
(***************************************************************************)
(* What is shipped when rendering functions do insert events.  What is left*)
(* to do for an event is in the calls in progress and in what they still   *)
(* have to send; only nested events came after it.                         *)
(***************************************************************************)
EventsIn(fs) == {fs[i].event : i \in DOMAIN fs} \ {NoEvent}

Elements(s) == {s[i] : i \in DOMAIN s}

\* Only nested events, at the timesteps of n, come after t up to u.
After(n, t, u) == t <= u /\ (t + 1)..u \subseteq n

Behind(t, s) ==
  /\ Interrupted(t, timestep)
  /\ s \in Elements(sending) \/ eventByTimestep[t] \in EventsIn(frames)

NothingForgotten ==
  \A t \in DOMAIN eventByTimestep : \A i \in DOMAIN ShipForEvent[eventByTimestep[t]] :
    LET s == ShipForEvent[eventByTimestep[t]][i]
    IN  s.relation \in MayBeEmpty \/ ShippedFor(t, s) \/ Behind(t, s)

NothingForOthers ==
  \A d \in Engine : \A x \in submitted[d] : \E t \in DOMAIN eventByTimestep :
    Interrupted(t, x[1]) /\ ShipsTo(eventByTimestep[t], d, x[2])

InProgress ==
  /\ \A e \in EventsIn(frames) : \E t \in DOMAIN eventByTimestep :
       Interrupted(t, timestep) /\ eventByTimestep[t] = e
  /\ \A s \in Elements(sending) : \E t \in DOMAIN eventByTimestep :
       Interrupted(t, timestep) /\ ShipsTo(eventByTimestep[t], s.destination, s.relation)

Dated ==
  /\ timestep \in Nat /\ \A t \in DOMAIN eventByTimestep : t \in Nat /\ t <= timestep
  /\ \A d \in Engine : \A x \in submitted[d] : x[1] \in Nat /\ x[1] <= timestep

NestInv == NothingForgotten /\ NothingForOthers /\ InProgress /\ Dated

LEMMA InitNestInv == RuntimeInit => NestInv
<1> SUFFICES ASSUME RuntimeInit PROVE NestInv
  OBVIOUS
<1>1. /\ frames = <<>> /\ sending = <<>> /\ DOMAIN eventByTimestep = {} /\ timestep \in Nat
      /\ \A d \in Engine : submitted[d] = {}
  BY DEF RuntimeInit, Init, EmptyMap, INIT_TIMESTEP
<1>2. EventsIn(frames) = {} /\ Elements(sending) = {}
  <2>1. DOMAIN frames = {} /\ DOMAIN sending = {}
    BY <1>1
  <2> QED  BY <2>1 DEF EventsIn, Elements
<1> QED  BY <1>1, <1>2 DEF NestInv, NothingForgotten, NothingForOthers, InProgress, Dated

LEMMA PushEvents ==
  ASSUME NEW fs \in Seq(Frame), NEW f \in Frame
  PROVE  EventsIn(<<f>> \o fs) = EventsIn(fs) \cup ({f.event} \ {NoEvent})
<1> DEFINE p == <<f>> \o fs
<1>1. /\ 1 \in DOMAIN p /\ p[1] = f
      /\ \A i \in DOMAIN fs : i + 1 \in DOMAIN p /\ p[i + 1] = fs[i]
      /\ \A i \in DOMAIN p : i = 1 \/ (i - 1 \in DOMAIN fs /\ p[i] = fs[i - 1])
  BY Push
<1> HIDE DEF p
<1>2. {p[i].event : i \in DOMAIN p} = {fs[i].event : i \in DOMAIN fs} \cup {f.event}
  BY <1>1
<1> QED  BY <1>2 DEF EventsIn, p

LEMMA PopEvents ==
  ASSUME NEW fs \in Seq(Frame), fs # <<>>
  PROVE  EventsIn(fs) = EventsIn(Tail(fs)) \cup ({Head(fs).event} \ {NoEvent})
<1> DEFINE p == Tail(fs)
<1>1. /\ 1 \in DOMAIN fs /\ fs[1] = Head(fs)
      /\ \A i \in DOMAIN p : i + 1 \in DOMAIN fs /\ p[i] = fs[i + 1]
      /\ \A i \in DOMAIN fs : i = 1 \/ (i - 1 \in DOMAIN p /\ p[i - 1] = fs[i])
  BY Pop
<1> HIDE DEF p
<1>2. {fs[i].event : i \in DOMAIN fs} = {p[i].event : i \in DOMAIN p} \cup {Head(fs).event}
  BY <1>1
<1> QED  BY <1>2 DEF EventsIn, p

LEMMA PopElements ==
  ASSUME NEW S, NEW s \in Seq(S), s # <<>>
  PROVE  Elements(s) = Elements(Tail(s)) \cup {Head(s)}
<1> DEFINE p == Tail(s)
<1>1. /\ 1 \in DOMAIN s /\ s[1] = Head(s)
      /\ \A i \in DOMAIN p : i + 1 \in DOMAIN s /\ p[i] = s[i + 1]
      /\ \A i \in DOMAIN s : i = 1 \/ (i - 1 \in DOMAIN p /\ p[i - 1] = s[i])
  BY Pop
<1> HIDE DEF p
<1>2. {s[i] : i \in DOMAIN s} = {p[i] : i \in DOMAIN p} \cup {Head(s)}
  BY <1>1
<1> QED  BY <1>2 DEF Elements, p

LEMMA NoElements == EventsIn(<<>>) = {} /\ Elements(<<>>) = {}
<1>1. DOMAIN <<>> = {}
  OBVIOUS
<1> QED  BY <1>1 DEF EventsIn, Elements

\* A step that takes no time and gives the engines nothing.
LEMMA SameTimeNest ==
  ASSUME NestInv, UNCHANGED <<timestep, eventByTimestep, submitted, nested>>,
         NothingForgotten', InProgress'
  PROVE  NestInv'
BY DEF NestInv, NothingForOthers, Dated, Interrupted

LEMMA SameWorkNest ==
  ASSUME NestInv, UNCHANGED <<timestep, eventByTimestep, submitted, nested, sending>>,
         EventsIn(frames') = EventsIn(frames)
  PROVE  NestInv'
<1>1. NothingForgotten'
  BY DEF NestInv, NothingForgotten, ShippedFor, Behind, Interrupted
<1>2. InProgress'
  BY DEF NestInv, InProgress, Interrupted
<1> QED  BY <1>1, <1>2, SameTimeNest

(***************************************************************************)
(* An event begins: either nothing else is in progress, or it is nested in *)
(* what is.                                                                *)
(***************************************************************************)
LEMMA BeginTickNest ==
  ASSUME LoopInv, NestInv, NEW e \in Event, NEW r, BeginTick(e, r), sending = <<>>,
         submitted' = submitted,
         \/ frames = <<>> /\ nested' = nested
         \/ nested' = nested \cup {timestep + 1}
  PROVE  NestInv'
<1>1. /\ timestep \in Nat /\ timestep' = timestep + 1 /\ sending' = sending
      /\ eventByTimestep' = MapSet(eventByTimestep, timestep + 1, e)
      /\ frames' = <<Call(e, bound)>> \o frames
  BY DEF BeginTick, LoopInv, IInv, TypeOK
<1>2. /\ Call(e, bound).event = e /\ Call(e, bound) \in Frame /\ frames \in Seq(Frame)
      /\ e # NoEvent
  BY OutputAssumption DEF Call, Frame, LoopInv, UiTypeOK
<1>3. EventsIn(frames') = EventsIn(frames) \cup {e}
  BY <1>1, <1>2, PushEvents
<1>4. Elements(sending) = {} /\ Elements(sending') = {}
  BY <1>1, NoElements
<1>5. /\ DOMAIN eventByTimestep' = DOMAIN eventByTimestep \cup {timestep'}
      /\ eventByTimestep'[timestep'] = e
      /\ \A t \in DOMAIN eventByTimestep : t # timestep' => eventByTimestep'[t] = eventByTimestep[t]
  BY <1>1 DEF MapSet
<1>6. \A t \in DOMAIN eventByTimestep :
        t \in Nat /\ t <= timestep /\ t # timestep' /\ eventByTimestep'[t] = eventByTimestep[t]
  BY <1>1, <1>5 DEF NestInv, Dated
<1>7. ASSUME NEW t, NEW u, Interrupted(t, u) PROVE After(nested', t, u)
  BY <1>7 DEF Interrupted, After
<1>8. After(nested', timestep', timestep')
  <2>1. (timestep' + 1)..timestep' = {} /\ timestep' <= timestep'
    BY <1>1
  <2> QED  BY <2>1 DEF After
<1>9. ASSUME NEW t \in DOMAIN eventByTimestep, Interrupted(t, timestep), frames # <<>>
      PROVE  After(nested', t, timestep')
  <2>1. t \in Nat /\ t <= timestep /\ (t + 1)..timestep \subseteq nested /\ nested' = nested \cup {timestep + 1}
    BY <1>6, <1>9 DEF Interrupted
  <2>2. (t + 1)..(timestep + 1) = ((t + 1)..timestep) \cup {timestep + 1}
    BY <1>1, <2>1
  <2>3. (t + 1)..timestep' \subseteq nested' /\ t <= timestep'
    BY <1>1, <2>1, <2>2
  <2> QED  BY <2>3 DEF After
<1>10. frames = <<>> => EventsIn(frames) = {}
  BY NoElements
<1>11. Dated'
  <2>1. \A t \in DOMAIN eventByTimestep' : t \in Nat /\ t <= timestep'
    BY <1>1, <1>5, <1>6
  <2>2. \A d \in Engine : \A x \in submitted'[d] : x[1] \in Nat /\ x[1] <= timestep'
    BY <1>1 DEF NestInv, Dated
  <2> QED  BY <1>1, <2>1, <2>2 DEF Dated
<1>12. NothingForOthers'
  <2> SUFFICES ASSUME NEW d \in Engine, NEW x \in submitted[d]
               PROVE  \E t \in DOMAIN eventByTimestep' :
                        After(nested', t, x[1]) /\ ShipsTo(eventByTimestep'[t], d, x[2])
    BY DEF NothingForOthers, Interrupted, After
  <2>1. PICK t \in DOMAIN eventByTimestep : Interrupted(t, x[1]) /\ ShipsTo(eventByTimestep[t], d, x[2])
    BY DEF NestInv, NothingForOthers
  <2> QED  BY <2>1, <1>5, <1>6, <1>7
<1>13. InProgress'
  <2> SUFFICES ASSUME NEW f \in EventsIn(frames')
               PROVE  \E t \in DOMAIN eventByTimestep' :
                        After(nested', t, timestep') /\ eventByTimestep'[t] = f
    BY <1>4 DEF InProgress, Interrupted, After
  <2>1. CASE f = e
    BY <2>1, <1>5, <1>8
  <2>2. CASE f # e
    <3>1. f \in EventsIn(frames) /\ frames # <<>>
      BY <2>2, <1>3, <1>10
    <3>2. PICK t \in DOMAIN eventByTimestep : Interrupted(t, timestep) /\ eventByTimestep[t] = f
      BY <3>1 DEF NestInv, InProgress
    <3> QED  BY <3>1, <3>2, <1>5, <1>6, <1>9
  <2> QED  BY <2>1, <2>2
<1>14. NothingForgotten'
  <2> SUFFICES ASSUME NEW t \in DOMAIN eventByTimestep',
                      NEW i \in DOMAIN ShipForEvent[eventByTimestep'[t]],
                      NEW s, s = ShipForEvent[eventByTimestep'[t]][i],
                      s.relation \notin MayBeEmpty,
                      \A u \in DOMAIN eventByTimestep' : After(nested', t, u) =>
                        <<u, s.relation>> \notin submitted[s.destination]
               PROVE  After(nested', t, timestep') /\ eventByTimestep'[t] \in EventsIn(frames')
    BY DEF NothingForgotten, ShippedFor, Behind, Interrupted, After
  <2>1. CASE t = timestep'
    BY <2>1, <1>3, <1>5, <1>8
  <2>2. CASE t # timestep'
    <3>1. t \in DOMAIN eventByTimestep /\ eventByTimestep'[t] = eventByTimestep[t]
      BY <2>2, <1>5, <1>6
    <3>2. ~ShippedFor(t, s)
      <4> SUFFICES ASSUME NEW u \in DOMAIN eventByTimestep, Interrupted(t, u),
                          <<u, s.relation>> \in submitted[s.destination]
                   PROVE  FALSE
        BY DEF ShippedFor
      <4> QED  BY <1>5, <1>7
    <3>3. Behind(t, s)
      BY <3>1, <3>2 DEF NestInv, NothingForgotten
    <3>4. eventByTimestep[t] \in EventsIn(frames) /\ frames # <<>> /\ Interrupted(t, timestep)
      BY <3>3, <1>4, <1>10 DEF Behind
    <3>5. After(nested', t, timestep')
      BY <3>1, <3>4, <1>9
    <3> QED  BY <3>1, <3>4, <3>5, <1>3
  <2> QED  BY <2>1, <2>2
<1> QED  BY <1>11, <1>12, <1>13, <1>14 DEF NestInv

\* A call returns, and what its event ships is to be sent.
LEMMA FinishCallNest ==
  ASSUME LoopInv, NestInv, FinishCall
  PROVE  NestInv'
<1>1. /\ frames \in Seq(Frame) /\ frames # <<>> /\ frames' = Tail(frames) /\ sending = <<>>
      /\ UNCHANGED <<timestep, eventByTimestep, submitted, nested>>
  BY DEF LoopInv, UiTypeOK, FinishCall, historyVars, Idle
<1> DEFINE e == Head(frames).event
<1>2. sending' = IF e = NoEvent THEN <<>> ELSE ShipForEvent[e]
  BY DEF FinishCall
<1>3. EventsIn(frames) = EventsIn(frames') \cup ({e} \ {NoEvent})
  BY <1>1, PopEvents
<1>4. e \in Event \cup {NoEvent}
  <2>1. Head(frames) \in Frame
    BY <1>1, Pop
  <2> QED  BY <2>1 DEF Frame
<1> HIDE DEF e
<1>5. Elements(sending) = {} /\ (e = NoEvent => Elements(sending') = {})
  BY <1>1, <1>2, NoElements
<1>6. InProgress'
  <2>1. ASSUME NEW f \in EventsIn(frames')
        PROVE  \E t \in DOMAIN eventByTimestep : Interrupted(t, timestep) /\ eventByTimestep[t] = f
    BY <1>3 DEF NestInv, InProgress
  <2>2. ASSUME NEW s \in Elements(sending')
        PROVE  \E t \in DOMAIN eventByTimestep :
                 Interrupted(t, timestep) /\ ShipsTo(eventByTimestep[t], s.destination, s.relation)
    <3>1. e # NoEvent /\ e \in EventsIn(frames) /\ e \in Event
      BY <1>3, <1>4, <1>5
    <3>2. PICK t \in DOMAIN eventByTimestep : Interrupted(t, timestep) /\ eventByTimestep[t] = e
      BY <3>1 DEF NestInv, InProgress
    <3>3. PICK i \in DOMAIN ShipForEvent[e] : s = ShipForEvent[e][i]
      BY <3>1, <1>2 DEF Elements
    <3>4. s \in Shipment
      <4>1. ShipForEvent[e] \in Seq(Shipment)
        BY <3>1, PlanAssumption DEF Shipment
      <4> QED  BY <3>3, <4>1, ElementOfSeq
    <3>5. s = [destination |-> s.destination, relation |-> s.relation]
      BY <3>4 DEF Shipment
    <3> QED  BY <3>2, <3>3, <3>5 DEF ShipsTo
  <2> QED  BY <1>1, <2>1, <2>2 DEF InProgress, Interrupted
<1>7. NothingForgotten'
  <2> SUFFICES ASSUME NEW t \in DOMAIN eventByTimestep,
                      NEW i \in DOMAIN ShipForEvent[eventByTimestep[t]],
                      NEW s, s = ShipForEvent[eventByTimestep[t]][i],
                      s.relation \notin MayBeEmpty, ~ShippedFor(t, s)
               PROVE  Behind(t, s)'
    BY <1>1 DEF NothingForgotten, ShippedFor, Interrupted
  <2>1. Interrupted(t, timestep) /\ eventByTimestep[t] \in EventsIn(frames)
    BY <1>5 DEF NestInv, NothingForgotten, Behind
  <2>2. CASE eventByTimestep[t] = e /\ e # NoEvent
    <3>1. s \in Elements(sending')
      BY <2>2, <1>2 DEF Elements
    <3> QED  BY <3>1, <2>1, <1>1 DEF Behind, Interrupted
  <2>3. CASE ~(eventByTimestep[t] = e /\ e # NoEvent)
    <3>1. eventByTimestep[t] \in EventsIn(frames')
      BY <2>1, <2>3, <1>3
    <3> QED  BY <3>1, <2>1, <1>1 DEF Behind, Interrupted
  <2> QED  BY <2>2, <2>3
<1> QED  BY <1>1, <1>6, <1>7, SameTimeNest

LEMMA ShipNest ==
  ASSUME LoopInv, NestInv, Ship
  PROVE  NestInv'
<1>1. /\ sending \in Seq(Shipment) /\ sending # <<>> /\ sending' = Tail(sending)
      /\ UNCHANGED <<timestep, eventByTimestep, frames, nested>>
      /\ timestep \in DOMAIN eventByTimestep
  BY DEF Ship, ShipWorkerInput, SkipEmptyRelation, LoopInv, IInv, TypeOK, uiVars, Sending
<1> DEFINE h == Head(sending)
<1>2. Elements(sending) = Elements(sending') \cup {h}
  BY <1>1, PopElements
<1>3. h \in Elements(sending) /\ h \in Shipment
  BY <1>1, <1>2, Pop
<1>4. \/ SkipEmptyRelation /\ h.relation \in MayBeEmpty /\ submitted' = submitted
      \/ /\ ShipWorkerInput
         /\ submitted' = [submitted EXCEPT ![h.destination] = @ \cup {<<timestep, h.relation>>}]
  BY DEF Ship, SkipEmptyRelation, ShipWorkerInput, historyVars
<1> HIDE DEF h
<1>5. h.destination \in Engine /\ submitted \in [Engine -> SUBSET (Nat \X Relation)]
  BY <1>3 DEF Shipment, LoopInv, IInv, TypeOK
<1>6. ASSUME NEW d \in Engine
      PROVE  /\ submitted[d] \subseteq submitted'[d]
             /\ \A x \in submitted'[d] : x \in submitted[d] \/ (d = h.destination /\ x = <<timestep, h.relation>>)
  BY <1>4, <1>5
<1>7. InProgress'
  BY <1>1, <1>2 DEF NestInv, InProgress, Interrupted
<1>8. Interrupted(timestep, timestep)
  <2>1. timestep \in Nat /\ (timestep + 1)..timestep = {}
    BY DEF NestInv, Dated
  <2> QED  BY <2>1 DEF Interrupted
<1>9. NothingForgotten'
  <2> SUFFICES ASSUME NEW t \in DOMAIN eventByTimestep,
                      NEW i \in DOMAIN ShipForEvent[eventByTimestep[t]],
                      NEW s, s = ShipForEvent[eventByTimestep[t]][i],
                      s.relation \notin MayBeEmpty, ~ShippedFor(t, s)'
               PROVE  Behind(t, s)'
    BY <1>1 DEF NothingForgotten
  <2>0. s \in Shipment
    <3>1. eventByTimestep[t] \in Event
      BY DEF LoopInv, IInv, TypeOK, IsMap
    <3>2. ShipForEvent[eventByTimestep[t]] \in Seq(Shipment)
      BY <3>1, PlanAssumption DEF Shipment
    <3> QED  BY <3>2, ElementOfSeq
  <2>1. s.destination \in Engine
    BY <2>0 DEF Shipment
  <2>2. ~ShippedFor(t, s)
    BY <2>1, <1>1, <1>6 DEF ShippedFor, Interrupted
  <2>3. Behind(t, s)
    BY <2>2 DEF NestInv, NothingForgotten
  <2>4. CASE eventByTimestep[t] \in EventsIn(frames)
    BY <2>3, <2>4, <1>1 DEF Behind, Interrupted
  <2>5. CASE s \in Elements(sending')
    BY <2>3, <2>5, <1>1 DEF Behind, Interrupted
  <2>6. CASE s = h
    <3>1. ShipWorkerInput
      BY <2>6, <1>4
    <3>2. submitted' = [submitted EXCEPT ![h.destination] = @ \cup {<<timestep, h.relation>>}]
      BY <3>1, <2>6, <1>4
    <3>3. <<timestep, s.relation>> \in submitted'[s.destination]
      BY <3>2, <2>6, <1>5
    <3>4. ShippedFor(t, s)'
      BY <3>3, <2>3, <1>1 DEF ShippedFor, Behind, Interrupted
    <3> QED  BY <3>4
  <2> QED  BY <2>3, <2>4, <2>5, <2>6, <1>2 DEF Behind
<1>10. NothingForOthers'
  <2> SUFFICES ASSUME NEW d \in Engine, NEW x \in submitted'[d]
               PROVE  \E t \in DOMAIN eventByTimestep :
                        Interrupted(t, x[1]) /\ ShipsTo(eventByTimestep[t], d, x[2])
    BY <1>1 DEF NothingForOthers, Interrupted
  <2>1. CASE x \in submitted[d]
    BY <2>1 DEF NestInv, NothingForOthers
  <2>2. CASE d = h.destination /\ x = <<timestep, h.relation>>
    <3>1. x[1] = timestep /\ x[2] = h.relation
      BY <2>2
    <3> QED  BY <2>2, <3>1, <1>3 DEF NestInv, InProgress
  <2> QED  BY <2>1, <2>2, <1>6
<1>11. Dated'
  <2>1. \A d \in Engine : \A x \in submitted'[d] : x[1] \in Nat /\ x[1] <= timestep
    BY <1>6 DEF NestInv, Dated
  <2> QED  BY <1>1, <2>1 DEF NestInv, Dated
<1> QED  BY <1>7, <1>9, <1>10, <1>11 DEF NestInv

LEMMA NextNestInv ==
  ASSUME LoopInv, NestInv, [RuntimeNext]_allVars
  PROVE  NestInv'
<1>1. ASSUME NEW e \in Input, UserInput(e) \/ CallbackInput(e) PROVE NestInv'
  <2>1. e \in Event /\ BeginTick(e, timestep) /\ sending = <<>> /\ submitted' = submitted
    BY <1>1, PlanAssumption DEF UserInput, CallbackInput, Quiet, InCallback, Idle, historyVars
  <2>2. (frames = <<>> /\ nested' = nested) \/ nested' = nested \cup {timestep + 1}
    BY <1>1 DEF UserInput, CallbackInput, Quiet
  <2> QED  BY <2>1, <2>2, BeginTickNest
<1>2. ASSUME NEW d \in Engine, ResultsInput(d) PROVE NestInv'
  <2>1. PICK e \in Event, r \in Nat : BeginTick(e, r)
    BY <1>2, ResultsInputIs
  <2>2. frames = <<>> /\ sending = <<>> /\ nested' = nested /\ submitted' = submitted
    BY <1>2 DEF ResultsInput, Quiet, Idle
  <2> QED  BY <2>1, <2>2, BeginTickNest
<1>3. ASSUME NEW o \in Output, BindOutput(o) PROVE NestInv'
  <2>1. /\ UNCHANGED <<timestep, eventByTimestep, submitted, nested, sending>>
        /\ frames' = <<Call(NoEvent, <<o>>)>> \o frames
    BY <1>3 DEF BindOutput, mainVars, historyVars
  <2> DEFINE f == Call(NoEvent, <<o>>)
  <2>2. f.event = NoEvent /\ f \in Frame /\ frames \in Seq(Frame) /\ frames' = <<f>> \o frames
    BY <2>1 DEF Call, Frame, LoopInv, UiTypeOK
  <2> HIDE DEF f
  <2>3. EventsIn(frames') = EventsIn(frames)
    <3>1. EventsIn(<<f>> \o frames) = EventsIn(frames) \cup ({f.event} \ {NoEvent})
      BY <2>2, PushEvents
    <3> QED  BY <2>2, <3>1
  <2> QED  BY <2>1, <2>3, SameWorkNest
<1>4. CASE RunOutput
  <2>1. PICK o \in Output, renders \in BOOLEAN :
          /\ Head(frames).outputs # <<>>
          /\ frames' = NextTurn(frames, renders)
    BY <1>4, RunOutputIs
  <2>2. frames \in Seq(Frame) /\ frames # <<>> /\ UNCHANGED vars /\ nested' = nested
    BY <1>4 DEF LoopInv, UiTypeOK, RunOutput
  <2>3. /\ DOMAIN frames' = DOMAIN frames
        /\ \A i \in DOMAIN frames : frames'[i].event = frames[i].event
    BY <2>1, <2>2, NextTurnIs
  <2>4. EventsIn(frames') = EventsIn(frames)
    BY <2>3 DEF EventsIn
  <2> QED  BY <2>2, <2>4, SameWorkNest DEF vars, mainVars, historyVars
<1>5. CASE FinishCall
  BY <1>5, FinishCallNest
<1>6. CASE Ship
  BY <1>6, ShipNest
<1>7. CASE UNCHANGED <<mainVars, historyVars, frames, nested>>
  BY <1>7, SameWorkNest DEF mainVars, historyVars
<1>8. ASSUME NEW d \in Engine, OtherReply(d) \/ Database(d)
      PROVE  UNCHANGED <<mainVars, historyVars, frames, nested>>
  BY <1>8 DEF OtherReply, HandleUpdate, DropShip, Database, ExecuteUpdate, ExecuteShip,
              Execute, uiVars
<1> QED  BY <1>1, <1>2, <1>3, <1>4, <1>5, <1>6, <1>7, <1>8
         DEF RuntimeNext, allVars, vars, uiVars

(***************************************************************************)
(* Whatever rendering functions insert and bind: no event is forgotten and *)
(* none is shipped for another.  Each update an engine is given is planned *)
(* for an event that only nested events separate from its timestep, and    *)
(* once the main thread is free everything that is planned for an event was*)
(* given to the engines in this way.  Where no events are nested, it is the*)
(* event of the timestep itself (newInputHelper and shipWorkerInput,       *)
(* DielRuntime.ts:287 and :612).                                           *)
(***************************************************************************)
THEOREM EventsShipWithinNesting == RuntimeSpec => []ShippedWithinNesting
<1>1. LoopInv /\ NestInv /\ [RuntimeNext]_allVars => NestInv'
  BY NextNestInv
<1>2. NestInv => ShippedWithinNesting
  <2> SUFFICES ASSUME NestInv PROVE ShippedWithinNesting
    OBVIOUS
  <2>1. Quiet => EventsIn(frames) = {} /\ Elements(sending) = {}
    BY NoElements DEF Quiet, Idle
  <2>2. ASSUME Quiet, NEW t \in DOMAIN eventByTimestep,
               NEW i \in DOMAIN ShipForEvent[eventByTimestep[t]]
        PROVE  LET s == ShipForEvent[eventByTimestep[t]][i]
               IN  s.relation \in MayBeEmpty \/ ShippedFor(t, s)
    BY <2>1, <2>2 DEF NestInv, NothingForgotten, Behind
  <2>3. \A d \in Engine : \A x \in submitted[d] : \E t \in DOMAIN eventByTimestep :
          Interrupted(t, x[1]) /\ ShipsTo(eventByTimestep[t], d, x[2])
    BY DEF NestInv, NothingForOthers
  <2> HIDE DEF Quiet
  <2> QED  BY <2>2, <2>3 DEF ShippedWithinNesting
<1> QED  BY <1>1, <1>2, InitNestInv, LoopInvariance, PTL DEF RuntimeSpec

-----------------------------------------------------------------------------
(***************************************************************************)
(* What the steps of the event loop are to the engines.                    *)
(***************************************************************************)
\* No output asks an engine for anything when it is bound: what it shows is
\* computed from events (getStaticTriggers finds nothing to post).
NoStaticTriggers == \A o \in Output, d \in Engine : StaticShip[o][d] = <<>>

\* An engine's handler, a database or shipWorkerInput, as in DbEngine.
LEMMA EngineSteps ==
  ASSUME NEW d \in Engine, Ship \/ OtherReply(d) \/ Database(d)
  PROVE  Next
BY DEF Ship, OtherReply, Database, Next, MainNext, RemoteNext, HandleNext, Handle

LEMMA ResultsInputTakes ==
  ASSUME LoopInv, NEW d \in Engine, ResultsInput(d)
  PROVE  TakesAnswer(d) /\ HandsOver(d) /\ timestep' = timestep + 1
BY DEF ResultsInput, BeginTick, Quiet, TakesAnswer, HandsOver, CanHandle, boundVars

\* The steps that the engines do not notice.
LEMMA UnnoticedSteps ==
  ASSUME \/ \E e \in Input : UserInput(e) \/ CallbackInput(e)
         \/ RunOutput \/ FinishCall \/ UNCHANGED allVars
  PROVE  UNCHANGED <<engine, remoteVars, errors, historyVars>>
BY DEF UserInput, CallbackInput, RunOutput, FinishCall, allVars, vars, boundVars

\* What BindOutput posts is all it does to an engine.
LEMMA BindOutputPosts ==
  ASSUME LoopInv, NEW o \in Output, BindOutput(o), NEW d \in Engine
  PROVE  /\ UNCHANGED <<timestep, remoteVars, errors, historyVars>>
         /\ \E s \in Seq(Message) :
              /\ \A i \in DOMAIN s : ~IsUpdate(s[i])
              /\ NoStaticTriggers => s = <<>>
              /\ engine'[d] = [engine[d] EXCEPT !.toRemote = engine[d].toRemote \o s]
<1>1. UNCHANGED <<timestep, remoteVars, errors, historyVars>>
  BY DEF BindOutput, mainVars, boundVars
<1>2. IsEngine(engine[d]) /\ engine[d].toRemote \in Seq(Message)
  BY DEF LoopInv, IInv, TypeOK, IsEngine
<1>3. CASE engine' = engine
  <2>1. engine[d].toRemote \o <<>> = engine[d].toRemote
    BY <1>2, ConcatEmptySeq
  <2>2. engine'[d] = [engine[d] EXCEPT !.toRemote = engine[d].toRemote \o <<>>]
    BY <1>2, <1>3, <2>1 DEF IsEngine
  <2>3. <<>> \in Seq(Message) /\ DOMAIN <<>> = {}
    OBVIOUS
  <2> QED  BY <1>1, <2>2, <2>3
<1>4. CASE engine' = PostStatic(o)
  <2> DEFINE s == Asked(o, d)
  <2>1. /\ s \in Seq(Message) /\ \A i \in DOMAIN s : ~IsUpdate(s[i])
        /\ engine'[d] = [engine[d] EXCEPT !.toRemote = engine[d].toRemote \o s]
    BY <1>4, AskedType, PostStaticIs
  <2>2. NoStaticTriggers => s = <<>>
    BY DEF NoStaticTriggers, Asked
  <2> HIDE DEF s
  <2> QED  BY <1>1, <2>1, <2>2
<1> QED  BY <1>3, <1>4 DEF BindOutput

\* Without static triggers it does nothing to the engines.
LEMMA BindOutputSilent ==
  ASSUME LoopInv, NEW o \in Output, BindOutput(o), NoStaticTriggers
  PROVE  /\ \A d \in Engine : engine'[d] = engine[d]
         /\ UNCHANGED <<timestep, remoteVars, errors, historyVars>>
<1> SUFFICES ASSUME NEW d \in Engine
             PROVE  engine'[d] = engine[d] /\ UNCHANGED <<timestep, remoteVars, errors, historyVars>>
  BY DEF BindOutput, mainVars, boundVars
<1>1. /\ UNCHANGED <<timestep, remoteVars, errors, historyVars>>
      /\ engine'[d] = [engine[d] EXCEPT !.toRemote = engine[d].toRemote \o <<>>]
  BY BindOutputPosts
<1>2. IsEngine(engine[d]) /\ engine[d].toRemote \in Seq(Message)
  BY DEF LoopInv, IInv, TypeOK, IsEngine
<1>3. engine[d].toRemote \o <<>> = engine[d].toRemote
  BY <1>2, ConcatEmptySeq
<1> QED  BY <1>1, <1>2, <1>3 DEF IsEngine

-----------------------------------------------------------------------------
(***************************************************************************)
(* Wake-ups.                                                               *)
(***************************************************************************)
LEMMA BindOutputAwake ==
  ASSUME LoopInv, WakeInv, NEW o \in Output, BindOutput(o)
  PROVE  WakeInv'
<1> SUFFICES ASSUME NEW d \in Engine, connected[d]
             PROVE  Awake(engine'[d], toClient[d])
  BY DEF WakeInv, BindOutput, remoteVars
<1>1. IsEngine(engine[d]) /\ engine[d].toRemote \in Seq(Message)
      /\ Awake(engine[d], toClient[d])
  BY DEF LoopInv, IInv, TypeOK, IsEngine, WakeInv
<1>2. PICK s \in Seq(Message) :
        engine'[d] = [engine[d] EXCEPT !.toRemote = engine[d].toRemote \o s]
  BY BindOutputPosts
<1> DEFINE c == engine[d].toRemote \o s
<1>3. \A i \in DOMAIN engine[d].toRemote : i \in DOMAIN c /\ c[i] = engine[d].toRemote[i]
  BY <1>1, ConcatElements
<1> HIDE DEF c
<1>4. /\ engine'[d].queueMap = engine[d].queueMap
      /\ engine'[d].currentQueueHead = engine[d].currentQueueHead
      /\ engine'[d].toRemote = c
  BY <1>1, <1>2 DEF IsEngine, c
<1> QED  BY <1>1, <1>3, <1>4 DEF Awake, Resting, Blocked, HasUpdate

LEMMA NextWakeLoop == LoopInv /\ WakeInv /\ [RuntimeNext]_allVars => WakeInv'
<1> SUFFICES ASSUME LoopInv, WakeInv, [RuntimeNext]_allVars PROVE WakeInv'
  OBVIOUS
<1>1. CASE \/ \E e \in Input : UserInput(e) \/ CallbackInput(e)
           \/ RunOutput \/ FinishCall \/ UNCHANGED allVars
  BY <1>1, UnnoticedSteps DEF WakeInv, remoteVars
<1>2. ASSUME NEW o \in Output, BindOutput(o) PROVE WakeInv'
  BY <1>2, BindOutputAwake
<1>3. ASSUME NEW d \in Engine, ResultsInput(d) PROVE WakeInv'
  BY <1>3, ResultsInputTakes, TakesAnswerAwake DEF LoopInv
<1>4. ASSUME Next PROVE WakeInv'
  BY <1>4, NextWakeInv DEF LoopInv
<1>5. CASE Ship
  BY <1>4, <1>5 DEF Ship, Next, MainNext
<1>6. ASSUME NEW d \in Engine, OtherReply(d) \/ Database(d) PROVE WakeInv'
  BY <1>4, <1>6, EngineSteps
<1> QED  BY <1>1, <1>2, <1>3, <1>5, <1>6 DEF RuntimeNext

(***************************************************************************)
(* No lost wake-up in the event loop: with events inserted by rendering    *)
(* functions, outputs bound in between and static triggers that bypass the *)
(* queue, an engine that has an entry it could evaluate has the reply to   *)
(* an update coming (DbEngine.evaluateQueueOnUpdateHandler).               *)
(***************************************************************************)
THEOREM NoLostWakeUpInLoop == RuntimeSpec => []WakeUpPending
<1>1. RuntimeInit => WakeInv
  BY DEF RuntimeInit, Init, WakeInv, Awake, Resting, NewEngine
<1>2. LoopInv /\ WakeInv => WakeUpPending
  BY AwakeIsPending DEF LoopInv
<1> QED  BY <1>1, <1>2, NextWakeLoop, LoopInvariance, PTL DEF RuntimeSpec
-----------------------------------------------------------------------------
(***************************************************************************)
(* Snapshots.  A static trigger is answered from whatever its database     *)
(* holds, so that these theorems are about programs without any.           *)
(***************************************************************************)
LEMMA NextSnapLoop ==
  ASSUME NoStaticTriggers, LoopInv, SnapInv, [RuntimeNext]_allVars
  PROVE  SnapInv'
<1>1. CASE \/ \E e \in Input : UserInput(e) \/ CallbackInput(e)
           \/ RunOutput \/ FinishCall \/ UNCHANGED allVars
  BY <1>1, UnnoticedSteps DEF SnapInv, remoteVars, historyVars
<1>2. ASSUME NEW o \in Output, BindOutput(o) PROVE SnapInv'
  BY <1>2, BindOutputSilent DEF SnapInv, remoteVars, historyVars
<1>3. ASSUME NEW d \in Engine, ResultsInput(d) PROVE SnapInv'
  BY <1>3, ResultsInputTakes, TakesAnswerSnap DEF LoopInv
<1>4. ASSUME Next PROVE SnapInv'
  BY <1>4, NextSnapInv DEF LoopInv
<1>5. CASE Ship
  BY <1>4, <1>5 DEF Ship, Next, MainNext
<1>6. ASSUME NEW d \in Engine, OtherReply(d) \/ Database(d) PROVE SnapInv'
  BY <1>4, <1>6, EngineSteps
<1> QED  BY <1>1, <1>2, <1>3, <1>5, <1>6 DEF RuntimeNext

LEMMA SnapInvarianceInLoop ==
  ASSUME NoStaticTriggers
  PROVE  RuntimeSpec => []SnapInv
<1>1. LoopInv /\ SnapInv /\ [RuntimeNext]_allVars => SnapInv'
  BY NextSnapLoop
<1>2. RuntimeInit => SnapInv
  BY InitSnapInv DEF RuntimeInit
<1> QED  BY <1>1, <1>2, LoopInvariance, PTL DEF RuntimeSpec

(***************************************************************************)
(* Isolation in the event loop: in a program without static triggers, the  *)
(* rows an engine ships for a timestep are computed from every update up to*)
(* it and none after it, also when rendering functions insert events before*)
(* the event around them has shipped (newInputHelper, DielRuntime.ts:287). *)
(***************************************************************************)
THEOREM SnapshotIsolationInLoop ==
  ASSUME NoStaticTriggers
  PROVE  RuntimeSpec => []SnapshotAtTimestep
BY SnapInvarianceInLoop, SnapIsIsolation, PTL
-----------------------------------------------------------------------------
(***************************************************************************)
(* The engines behind the event loop are serial databases.                 *)
(***************************************************************************)
LEMMA NoErrors == RuntimeSpec => [](errors = 0)
<1>1. RuntimeInit => errors = 0
  BY DEF RuntimeInit, Init
<1>2. errors = 0 /\ [RuntimeNext]_allVars => (errors = 0)'
  BY DEF RuntimeNext, UserInput, CallbackInput, BindOutput, RunOutput, FinishCall, Ship,
         ShipWorkerInput, SkipEmptyRelation, ResultsInput, OtherReply, HandleUpdate,
         DropShip, Database, ExecuteUpdate, ExecuteShip, boundVars, vars, allVars
<1> QED  BY <1>1, <1>2, PTL DEF RuntimeSpec

\* Every step of the event loop is a step of the serial databases, or invisible.
LEMMA SerialLoop ==
  ASSUME NoStaticTriggers, LoopInv, SnapInv, errors = 0, errors' = 0, [RuntimeNext]_allVars
  PROVE  Serial!Next \/ UNCHANGED Serial!vars
<1>1. ASSUME NEW e \in Input, UserInput(e) \/ CallbackInput(e) PROVE Serial!Next
  <2>1. timestep' = timestep + 1 /\ UNCHANGED <<engine, historyVars>>
    BY <1>1, UnnoticedSteps DEF UserInput, CallbackInput, BeginTick
  <2>2. Serial!Tick
    BY <2>1 DEF Serial!Tick, historyVars
  <2> QED  BY <2>2 DEF Serial!Next
<1>2. CASE RunOutput \/ FinishCall \/ UNCHANGED allVars
  <2>1. timestep' = timestep /\ UNCHANGED <<engine, historyVars>>
    BY <1>2, UnnoticedSteps DEF RunOutput, FinishCall, allVars, vars, mainVars
  <2> QED  BY <2>1 DEF Serial!vars, historyVars
<1>3. ASSUME NEW o \in Output, BindOutput(o) PROVE UNCHANGED Serial!vars
  <2>1. /\ \A d \in Engine : engine'[d] = engine[d]
        /\ timestep' = timestep /\ UNCHANGED historyVars
    BY <1>3, BindOutputSilent
  <2> QED  BY <2>1 DEF Serial!vars, historyVars
<1>4. ASSUME NEW d \in Engine, ResultsInput(d) PROVE Serial!Next
  BY <1>4, ResultsInputTakes, SerialAnswer DEF LoopInv
<1>5. ASSUME Next PROVE Serial!Next \/ UNCHANGED Serial!vars
  BY <1>5, SerialNext DEF LoopInv
<1>6. CASE Ship
  BY <1>5, <1>6 DEF Ship, Next, MainNext
<1>7. ASSUME NEW d \in Engine, OtherReply(d) \/ Database(d) PROVE Next
  BY <1>7, EngineSteps
<1> QED  BY <1>1, <1>2, <1>3, <1>4, <1>5, <1>6, <1>7 DEF RuntimeNext

(***************************************************************************)
(* Refinement: to the event loop, with its nested events and its outputs,  *)
(* the engines are serial databases: an event is a tick of the clock, each *)
(* engine takes up its timesteps in order and once, and the event that     *)
(* carries an answer was computed from the updates up to its timestep.     *)
(***************************************************************************)
THEOREM LoopImplementsSerial ==
  ASSUME NoStaticTriggers
  PROVE  RuntimeSpec => Serial!SafeSpec
<1>1. LoopInv /\ SnapInv /\ errors = 0 /\ (errors = 0)' /\ [RuntimeNext]_allVars
        => [Serial!Next]_(Serial!vars)
  BY SerialLoop
<1>2. RuntimeInit => Serial!Init
  BY SerialInit DEF RuntimeInit
<1> QED  BY <1>1, <1>2, LoopInvariance, SnapInvarianceInLoop, NoErrors, PTL
         DEF RuntimeSpec, Serial!SafeSpec
-----------------------------------------------------------------------------
(***************************************************************************)
(* The event loop is the main thread of DbEngine.  An event ships, to      *)
(* DbEngine, as soon as it is inserted; in the event loop it ships when its*)
(* call, the outermost one, returns.                                       *)
(***************************************************************************)
\* The instance of DbEngine has operators of its own, which are the same.
LEMMA SameMaps ==
  /\ \A m, t, v : Engines!MapSet(m, t, v) = MapSet(m, t, v)
  /\ \A m, t : Engines!MapDelete(m, t) = MapDelete(m, t)
  /\ Engines!EmptyMap = EmptyMap
  /\ Engines!NewEngine = NewEngine
  /\ Engines!NoHead = NoHead
BY DEF Engines!MapSet, MapSet, Engines!MapDelete, MapDelete, Engines!EmptyMap, EmptyMap,
       Engines!NewEngine, NewEngine, Engines!NoHead, NoHead

LEMMA SameSendUpdate ==
  \A q, t, r, plan : Engines!SendUpdate(q, t, r, plan) = SendUpdate(q, t, r, plan)
BY DEF Engines!SendUpdate, SendUpdate, Engines!JoinEntry, JoinEntry, Engines!MapSet, MapSet,
       Engines!NoHead, NoHead, Engines!UpdateMsg, UpdateMsg

LEMMA SameNextQueue == \A q : Engines!NextQueue(q) = NextQueue(q)
BY DEF Engines!NextQueue, NextQueue, Engines!MapDelete, MapDelete, Engines!MapSet, MapSet,
       Engines!NoHead, NoHead, Engines!UpdateMsg, UpdateMsg, Engines!Min, Min

LEMMA SameEvaluate == \A q : Engines!Evaluate(q) = Evaluate(q)
<1> SUFFICES ASSUME NEW q PROVE Engines!Evaluate(q) = Evaluate(q)
  OBVIOUS
<1> DEFINE head == HeadOf(q)
           p    == Shipped(q, head)
           item == q.queueMap[head]
<1>1. Evaluate(q) =
        CASE head \notin DOMAIN q.queueMap -> q
          [] head \in DOMAIN q.queueMap /\ ~IsSetIdentical(item.received, item.deps) ->
               [q EXCEPT !.currentQueueHead = head]
          [] head \in DOMAIN q.queueMap /\ IsSetIdentical(item.received, item.deps) ->
               NextQueue(p)
  BY DEF Evaluate, HeadOf, Shipped
<1>2. Engines!Evaluate(q) =
        CASE head \notin DOMAIN q.queueMap -> q
          [] head \in DOMAIN q.queueMap /\ ~Engines!IsSetIdentical(item.received, item.deps) ->
               [q EXCEPT !.currentQueueHead = head]
          [] head \in DOMAIN q.queueMap /\ Engines!IsSetIdentical(item.received, item.deps) ->
               Engines!NextQueue(p)
  BY DEF Engines!Evaluate, HeadOf, Shipped, Engines!Min, Min, Engines!NoHead, NoHead,
         Engines!ShipMsg, ShipMsg
<1> HIDE DEF head, p, item
<1>3. IsSetIdentical(item.received, item.deps) <=>
        Engines!IsSetIdentical(item.received, item.deps)
  BY DEF Engines!IsSetIdentical, IsSetIdentical
<1>4. Engines!NextQueue(p) = NextQueue(p)
  BY SameNextQueue
<1> QED  BY <1>1, <1>2, <1>3, <1>4

LEMMA SameHandleUpdateReply ==
  \A q, m, failed : Engines!HandleUpdateReply(q, m, failed) = HandleUpdateReply(q, m, failed)
<1>1. \A q, m, failed : Engines!SettlePromise(q, m, failed) = SettlePromise(q, m, failed)
  BY DEF Engines!SettlePromise, SettlePromise, Engines!MapDelete, MapDelete
<1>2. \A q, m, failed : Engines!CompletesBatch(q, m, failed) <=> CompletesBatch(q, m, failed)
  BY DEF Engines!CompletesBatch, CompletesBatch
<1> QED  BY <1>1, <1>2, SameEvaluate, Zenon
         DEF Engines!HandleUpdateReply, HandleUpdateReply

\* What DbEngine sees as still to be sent: all of it while the call of the
\* event is in progress.
ToSend(fs, s) ==
  IF fs # <<>> /\ fs[Len(fs)].event # NoEvent THEN ShipForEvent[fs[Len(fs)].event] ELSE s

LEMMA ToSendNothing == \A s : ToSend(<<>>, s) = s
BY DEF ToSend

LEMMA ToSendOnTop ==
  ASSUME NEW fs \in Seq(Frame), NEW f \in Frame, NEW s
  PROVE  ToSend(<<f>> \o fs, s) =
           IF fs # <<>> THEN ToSend(fs, s)
           ELSE IF f.event # NoEvent THEN ShipForEvent[f.event] ELSE s
<1> DEFINE p == <<f>> \o fs
<1>1. /\ p # <<>> /\ Len(p) = Len(fs) + 1 /\ p[1] = f /\ Len(fs) \in Nat
      /\ \A i \in DOMAIN fs : p[i + 1] = fs[i]
  BY Push
<1>2. CASE fs = <<>>
  <2>1. Len(p) = 1
    BY <1>1, <1>2
  <2> HIDE DEF p
  <2> QED  BY <1>1, <1>2, <2>1 DEF ToSend, p
<1>3. CASE fs # <<>>
  <2>1. Len(fs) \in DOMAIN fs
    BY <1>3
  <2>2. p[Len(p)] = fs[Len(fs)]
    BY <1>1, <2>1
  <2> HIDE DEF p
  <2> QED  BY <1>1, <1>3, <2>2 DEF ToSend, p
<1> QED  BY <1>2, <1>3

LEMMA ToSendReturn ==
  ASSUME NEW fs \in Seq(Frame), fs # <<>>, NEW s
  PROVE  ToSend(fs, s) = IF Tail(fs) # <<>> THEN ToSend(Tail(fs), s)
                         ELSE IF Head(fs).event # NoEvent THEN ShipForEvent[Head(fs).event]
                              ELSE s
<1>1. /\ Head(fs) = fs[1] /\ Len(Tail(fs)) = Len(fs) - 1 /\ Tail(fs) \in Seq(Frame)
      /\ \A i \in DOMAIN Tail(fs) : Tail(fs)[i] = fs[i + 1]
      /\ Len(fs) \in Nat
  BY Pop
<1> DEFINE p == Tail(fs)
<1> HIDE DEF p
<1>2. CASE p = <<>>
  <2>1. Len(fs) = 1
    BY <1>1, <1>2 DEF p
  <2> QED  BY <1>1, <1>2, <2>1 DEF ToSend, p
<1>3. CASE p # <<>>
  <2>1. Len(p) \in DOMAIN p /\ Len(p) + 1 = Len(fs)
    BY <1>1, <1>3 DEF p
  <2>2. p[Len(p)] = fs[Len(fs)]
    BY <1>1, <2>1 DEF p
  <2> QED  BY <1>3, <2>2 DEF ToSend, p
<1> QED  BY <1>2, <1>3 DEF p

LEMMA ToSendTurn ==
  ASSUME NEW fs \in Seq(Frame), fs # <<>>, NEW p \in Seq(Frame), p # <<>>, Len(p) = Len(fs),
         \A i \in DOMAIN fs : p[i].event = fs[i].event, NEW s
  PROVE  ToSend(p, s) = ToSend(fs, s)
<1>1. Len(fs) \in DOMAIN fs
  OBVIOUS
<1> QED  BY <1>1 DEF ToSend

\* The engines are a function of their names, and nothing else.
EnginesAreMap == engine = [d \in Engine |-> engine[d]]

LEMMA NextEnginesAreMap == LoopInv /\ EnginesAreMap /\ [RuntimeNext]_allVars => EnginesAreMap'
<1> SUFFICES ASSUME LoopInv, EnginesAreMap, [RuntimeNext]_allVars PROVE EnginesAreMap'
  OBVIOUS
<1>1. CASE engine' = engine
  BY <1>1 DEF EnginesAreMap
<1>2. ASSUME NEW d, NEW p, engine' = [engine EXCEPT ![d] = p]
      PROVE  EnginesAreMap'
  <2>1. DOMAIN engine = Engine
    BY DEF LoopInv, IInv, TypeOK
  <2> QED  BY <1>2, <2>1 DEF EnginesAreMap
<1>3. ASSUME NEW o \in Output, engine' = PostStatic(o) PROVE EnginesAreMap'
  BY <1>3 DEF EnginesAreMap, PostStatic
<1>4. ASSUME NEW o \in Output, BindOutput(o) PROVE EnginesAreMap'
  BY <1>1, <1>3, <1>4 DEF BindOutput
<1>5. CASE Ship
  BY <1>1, <1>2, <1>5 DEF Ship, ShipWorkerInput, SkipEmptyRelation
<1>6. ASSUME NEW d \in Engine, OtherReply(d) PROVE EnginesAreMap'
  BY <1>1, <1>2, <1>6 DEF OtherReply, HandleUpdate, DropShip
<1>7. ASSUME NEW d \in Engine, Database(d) PROVE EnginesAreMap'
  <2>1. PICK reply, content : Execute(d, reply, content)
    BY <1>7 DEF Database, ExecuteUpdate, ExecuteShip
  <2> QED  BY <1>2, <2>1 DEF Execute
<1>8. ASSUME NEW d \in Engine, ResultsInput(d) PROVE EnginesAreMap'
  BY <1>1, <1>8 DEF ResultsInput
<1> QED  BY <1>1, <1>4, <1>5, <1>6, <1>7, <1>8, UnnoticedSteps DEF RuntimeNext

\* A new event, for DbEngine: what it ships is to be sent.
LEMMA BeginTickStarts ==
  ASSUME LoopInv, NEW e \in Event, NEW r, BeginTick(e, r), frames = <<>>, sending = <<>>
  PROVE  /\ timestep' = timestep + 1
         /\ eventByTimestep' = MapSet(eventByTimestep, timestep + 1, e)
         /\ ToSend(frames, sending) = <<>>
         /\ ToSend(frames', sending') = ShipForEvent[e]
<1> DEFINE f == Call(e, bound)
<1>1. /\ timestep' = timestep + 1
      /\ eventByTimestep' = MapSet(eventByTimestep, timestep + 1, e)
      /\ frames' = <<f>> \o frames /\ sending' = <<>>
  BY DEF BeginTick
<1>2. f \in Frame /\ f.event = e /\ e # NoEvent
  BY OutputAssumption DEF Call, Frame, LoopInv, UiTypeOK
<1> HIDE DEF f
<1>3. frames' = <<f>> \o <<>> /\ <<>> \in Seq(Frame)
  BY <1>1
<1>4. ToSend(<<f>> \o <<>>, <<>>) = ShipForEvent[e]
  BY <1>2, <1>3, ToSendOnTop
<1> QED  BY <1>1, <1>3, <1>4, ToSendNothing

LEMMA UserInputStarts ==
  ASSUME LoopInv, NEW e \in Input, UserInput(e)
  PROVE  Engines!NewInput(e)
<1>1. /\ frames = <<>> /\ sending = <<>> /\ BeginTick(e, timestep) /\ e \in Event
      /\ inputs < MaxInputs /\ inputs' = inputs + 1
      /\ UNCHANGED <<engine, remoteVars, errors, historyVars>>
  BY PlanAssumption DEF UserInput, Quiet, Idle
<1>2. /\ timestep' = timestep + 1
      /\ eventByTimestep' = Engines!MapSet(eventByTimestep, timestep + 1, e)
      /\ ToSend(frames, sending) = <<>>
      /\ ToSend(frames', sending') = ShipForEvent[e]
  BY <1>1, BeginTickStarts, SameMaps
<1> QED  BY <1>1, <1>2
         DEF Engines!NewInput, Engines!Idle, Engines!StartTick, Engines!remoteVars,
             Engines!historyVars, remoteVars, historyVars, ToSend

LEMMA ResultsInputStarts ==
  ASSUME LoopInv, NEW d \in Engine, ResultsInput(d)
  PROVE  Engines!HandleShip(d)
<1> DEFINE m == Head(toClient[d]).msg
<1>1. /\ frames = <<>> /\ sending = <<>> /\ m.remoteAction = "ShipRelation"
      /\ BeginTick(m.relationName, m.requestTimestep)
  BY DEF ResultsInput, Quiet, Idle
<1>2. Head(toClient[d]) \in Answered
  BY TakeReplyType DEF ResultsInput, Quiet, CanHandle, LoopInv
<1>3. m \in Message
  BY <1>2 DEF Answered
<1>4. m.relationName \in Event
  <2> HIDE DEF m
  <2> QED  BY <1>1, <1>3 DEF Message
<1> DEFINE e == m.relationName
<1>5. /\ timestep' = timestep + 1
      /\ eventByTimestep' = Engines!MapSet(eventByTimestep, timestep + 1, e)
      /\ ToSend(frames, sending) = <<>>
      /\ ToSend(frames', sending') = ShipForEvent[e]
  BY <1>1, <1>4, BeginTickStarts, SameMaps
<1> QED  BY <1>5 DEF ResultsInput, TakeReply, boundVars, ToSend,
         Engines!HandleShip, Engines!CanHandle, Engines!Idle, Engines!StartTick,
         Engines!TakeReply, Engines!boundVars

\* Rendering, returning from a call and binding an output are invisible.
LEMMA RunOutputHidden ==
  ASSUME LoopInv, RunOutput
  PROVE  UNCHANGED Engines!vars
<1>1. PICK o \in Output, renders \in BOOLEAN :
        Head(frames).outputs # <<>> /\ frames' = NextTurn(frames, renders)
  BY RunOutputIs
<1>2. frames \in Seq(Frame) /\ frames # <<>> /\ UNCHANGED vars
  BY DEF LoopInv, UiTypeOK, RunOutput
<1>3. /\ frames' \in Seq(Frame) /\ frames' # <<>> /\ Len(frames') = Len(frames)
      /\ \A i \in DOMAIN frames : frames'[i].event = frames[i].event
  BY <1>1, <1>2, NextTurnIs
<1>4. ToSend(frames', sending') = ToSend(frames, sending)
  <2>1. sending' = sending
    BY <1>2 DEF vars, mainVars
  <2> QED  BY <1>2, <1>3, <2>1, ToSendTurn
<1> QED  BY <1>2, <1>4 DEF ToSend, vars, mainVars, remoteVars, boundVars, historyVars,
         Engines!vars, Engines!mainVars, Engines!remoteVars, Engines!boundVars,
         Engines!historyVars

LEMMA FinishCallHidden ==
  ASSUME LoopInv, OwnInv, FinishCall
  PROVE  UNCHANGED Engines!vars
<1> DEFINE e == Head(frames).event
<1>1. /\ frames \in Seq(Frame) /\ frames # <<>> /\ frames' = Tail(frames)
      /\ sending' = IF e = NoEvent THEN <<>> ELSE ShipForEvent[e]
      /\ sending = <<>>
  BY DEF LoopInv, UiTypeOK, FinishCall, Idle
<1>2. Tail(frames) # <<>> => e = NoEvent
  <2>1. /\ 1 \in DOMAIN frames /\ Head(frames) = frames[1]
        /\ Len(Tail(frames)) = Len(frames) - 1 /\ Tail(frames) \in Seq(Frame)
        /\ Len(frames) \in Nat
    BY <1>1, Pop
  <2>2. Tail(frames) # <<>> => 1 < Len(frames)
    BY <2>1
  <2> QED  BY <2>1, <2>2 DEF OwnInv, OneEvent
<1> HIDE DEF e
<1>3. ToSend(frames, sending) =
        IF Tail(frames) # <<>> THEN ToSend(Tail(frames), sending)
        ELSE IF e # NoEvent THEN ShipForEvent[e] ELSE sending
  BY <1>1, ToSendReturn DEF e
<1>4. ToSend(frames', sending') = ToSend(frames, sending)
  <2>1. CASE Tail(frames) # <<>>
    BY <1>1, <1>2, <1>3, <2>1
  <2>2. CASE Tail(frames) = <<>>
    BY <1>1, <1>3, <2>2, ToSendNothing
  <2> QED  BY <2>1, <2>2
<1>5. UNCHANGED <<timestep, eventByTimestep, engine, remoteVars, boundVars, historyVars>>
  BY DEF FinishCall
<1> QED  BY <1>4, <1>5 DEF ToSend, remoteVars, boundVars, historyVars,
         Engines!vars, Engines!mainVars, Engines!remoteVars, Engines!boundVars,
         Engines!historyVars

LEMMA BindOutputHidden ==
  ASSUME NoStaticTriggers, LoopInv, EnginesAreMap, EnginesAreMap',
         NEW o \in Output, BindOutput(o)
  PROVE  UNCHANGED Engines!vars
<1> DEFINE f == Call(NoEvent, <<o>>)
<1>1. /\ frames \in Seq(Frame) /\ f \in Frame /\ f.event = NoEvent
      /\ frames' = <<f>> \o frames /\ sending' = sending
  BY DEF Call, Frame, LoopInv, UiTypeOK, BindOutput, mainVars
<1> HIDE DEF f
<1>2. ToSend(frames', sending') = ToSend(frames, sending)
  BY <1>1, ToSendOnTop, ToSendNothing
<1>3. engine' = engine
  BY BindOutputSilent DEF EnginesAreMap
<1>4. UNCHANGED <<timestep, eventByTimestep, remoteVars, boundVars, historyVars>>
  BY DEF BindOutput, mainVars
<1> QED  BY <1>2, <1>3, <1>4 DEF ToSend, remoteVars, boundVars, historyVars,
         Engines!vars, Engines!mainVars, Engines!remoteVars, Engines!boundVars,
         Engines!historyVars

\* The steps the two have in common.
LEMMA ShipAlike ==
  ASSUME OwnInv, Ship
  PROVE  Engines!ShipWorkerInput \/ Engines!SkipEmptyRelation
<1>1. sending # <<>> /\ frames = <<>> /\ frames' = frames
  BY DEF Ship, ShipWorkerInput, SkipEmptyRelation, uiVars, OwnInv, OneEvent
<1>2. ToSend(frames, sending) = sending /\ ToSend(frames', sending') = sending'
  BY <1>1, ToSendNothing
<1>3. CASE ShipWorkerInput
  <2>1. \A d, t : Engines!Plan(d, t) = Plan(d, t)
    BY DEF Engines!Plan, Plan
  <2> QED  BY <1>1, <1>2, <1>3, <2>1, SameSendUpdate
           DEF ShipWorkerInput, Engines!ShipWorkerInput, ToSend, remoteVars, boundVars,
               Engines!remoteVars, Engines!boundVars
<1>4. CASE SkipEmptyRelation
  BY <1>1, <1>2, <1>4
     DEF SkipEmptyRelation, Engines!SkipEmptyRelation, ToSend, remoteVars, boundVars,
         historyVars, Engines!remoteVars, Engines!boundVars, Engines!historyVars
<1> QED  BY <1>3, <1>4 DEF Ship

LEMMA DatabaseAlike ==
  ASSUME NEW d \in Engine, Database(d)
  PROVE  Engines!ExecuteUpdate(d) \/ Engines!ExecuteShip(d)
<1>1. /\ UNCHANGED <<timestep, eventByTimestep, connected, inputs, historyVars>>
      /\ ToSend(frames', sending') = ToSend(frames, sending)
  BY DEF Database, ExecuteUpdate, ExecuteShip, Execute, mainVars, uiVars
<1>2. /\ \A m, err, results, r : Engines!Reply(m, err, results, r) = Reply(m, err, results, r)
      /\ Engines!NoResults = NoResults
  BY SameMaps DEF Engines!Reply, Reply, Engines!NoResults, NoResults
<1>3. ASSUME NEW reply, NEW content, Execute(d, reply, content)
      PROVE  Engines!Execute(d, reply, content)
  BY <1>1, <1>3 DEF Execute, Engines!Execute, Engines!mainVars, Engines!historyVars,
     historyVars, ToSend
<1>4. CASE ExecuteUpdate(d)
  BY <1>2, <1>3, <1>4 DEF ExecuteUpdate, Engines!ExecuteUpdate, CanExecute, Engines!CanExecute
<1>5. CASE ExecuteShip(d)
  BY <1>2, <1>3, <1>5 DEF ExecuteShip, Engines!ExecuteShip, CanExecute, Engines!CanExecute
<1> QED  BY <1>4, <1>5 DEF Database

LEMMA OtherReplyAlike ==
  ASSUME NEW d \in Engine, OtherReply(d)
  PROVE  Engines!HandleUpdate(d) \/ Engines!DropShip(d)
<1>1. frames = <<>> /\ frames' = frames /\ sending = <<>> /\ sending' = sending
  BY DEF OtherReply, HandleUpdate, DropShip, CanHandle, Idle, mainVars, uiVars
<1>2. ToSend(frames, sending) = <<>> /\ ToSend(frames', sending') = <<>>
  BY <1>1, ToSendNothing
<1>3. CASE HandleUpdate(d)
  BY <1>2, <1>3, SameHandleUpdateReply
     DEF HandleUpdate, Engines!HandleUpdate, CanHandle, Engines!CanHandle, Engines!Idle,
         TakeReply, Engines!TakeReply, ToSend, mainVars, boundVars, historyVars,
         Engines!mainVars, Engines!boundVars, Engines!historyVars
<1>4. CASE DropShip(d)
  BY <1>2, <1>4
     DEF DropShip, Engines!DropShip, CanHandle, Engines!CanHandle, Engines!Idle,
         TakeReply, Engines!TakeReply, ToSend, mainVars, boundVars, historyVars,
         Engines!mainVars, Engines!boundVars, Engines!historyVars
<1> QED  BY <1>3, <1>4 DEF OtherReply

LEMMA EnginesInit == RuntimeInit => Engines!Init
<1> SUFFICES ASSUME RuntimeInit PROVE Engines!Init
  OBVIOUS
<1>1. frames = <<>> /\ sending = <<>>
  BY DEF RuntimeInit, Init
<1>2. ToSend(frames, sending) = <<>>
  BY <1>1, ToSendNothing
<1>3. Engines!INIT_TIMESTEP = INIT_TIMESTEP
  BY DEF Engines!INIT_TIMESTEP, INIT_TIMESTEP
<1> QED  BY <1>2, <1>3, SameMaps DEF RuntimeInit, Init, Engines!Init, ToSend

LEMMA EnginesNext ==
  ASSUME MaxCallbacks = 0, NoStaticTriggers, LoopInv, OwnInv,
         EnginesAreMap, EnginesAreMap', [RuntimeNext]_allVars
  PROVE  Engines!Next \/ UNCHANGED Engines!vars
<1>1. ASSUME NEW e \in Input, UserInput(e) PROVE Engines!Next
  BY <1>1, UserInputStarts DEF Engines!Next, Engines!MainNext
<1>2. ASSUME NEW e \in Input PROVE ~CallbackInput(e)
  BY FS_CardinalityType DEF CallbackInput, LoopInv, UiTypeOK
<1>3. ASSUME NEW o \in Output, BindOutput(o) PROVE UNCHANGED Engines!vars
  BY <1>3, BindOutputHidden
<1>4. CASE RunOutput
  BY <1>4, RunOutputHidden
<1>5. CASE FinishCall
  BY <1>5, FinishCallHidden
<1>6. CASE Ship
  BY <1>6, ShipAlike DEF Engines!Next, Engines!MainNext
<1>7. ASSUME NEW d \in Engine, ResultsInput(d) PROVE Engines!Next
  BY <1>7, ResultsInputStarts DEF Engines!Next, Engines!HandleNext, Engines!Handle
<1>8. ASSUME NEW d \in Engine, OtherReply(d) PROVE Engines!Next
  BY <1>8, OtherReplyAlike DEF Engines!Next, Engines!HandleNext, Engines!Handle
<1>9. ASSUME NEW d \in Engine, Database(d) PROVE Engines!Next
  BY <1>9, DatabaseAlike DEF Engines!Next, Engines!RemoteNext
<1>10. CASE UNCHANGED allVars
  BY <1>10 DEF allVars, uiVars, vars, mainVars, remoteVars, boundVars, historyVars,
     Engines!vars, Engines!mainVars, Engines!remoteVars, Engines!boundVars, Engines!historyVars
<1> QED  BY <1>1, <1>2, <1>3, <1>4, <1>5, <1>6, <1>7, <1>8, <1>9, <1>10 DEF RuntimeNext

(***************************************************************************)
(* Refinement: in a program without static triggers whose rendering        *)
(* functions insert no events, the event loop is the main thread of        *)
(* DbEngine, which ships an event in the task that inserts it.  Rendering  *)
(* before shipping (newInputHelper) makes no difference to the engines.    *)
(***************************************************************************)
THEOREM LoopImplementsDbEngine ==
  ASSUME MaxCallbacks = 0, NoStaticTriggers
  PROVE  RuntimeSpec => ImplementsDbEngine
<1>1. LoopInv /\ OwnInv /\ EnginesAreMap /\ EnginesAreMap' /\ [RuntimeNext]_allVars
        => [Engines!Next]_(Engines!vars)
  BY EnginesNext
<1>2. RuntimeInit => EnginesAreMap
  BY DEF RuntimeInit, Init, EnginesAreMap
<1>3. LoopInv /\ OwnInv /\ [RuntimeNext]_allVars => OwnInv'
  BY NextOwnInv
<1> QED  BY <1>1, <1>2, <1>3, EnginesInit, InitOwnInv, NextEnginesAreMap, LoopInvariance, PTL
         DEF RuntimeSpec, ImplementsDbEngine, Engines!Spec
-----------------------------------------------------------------------------
(***************************************************************************)
(* An output never goes back to the answer to an earlier request.  Answers *)
(* are only ordered by their arrival, and the default policy shows the     *)
(* latest arrival (asyncPolicies.ts): what makes this right is that every  *)
(* ship of a view on its way is for a timestep at least as late as the one *)
(* the rows of the view are the answer to.                                 *)
(***************************************************************************)

\* v is among the event views that engine d computes and ships.
ShipsView(d, v) ==
  \E e \in Event : \E i \in DOMAIN RelationsToShip[d][e] : RelationsToShip[d][e][i] = v

\* The physical execution places an event view at one database, and the user
\* interface inserts event tables only.
OneSource ==
  \A d \in Engine, v \in Event : ShipsView(d, v) =>
    v \notin Input /\ \A x \in Engine : ShipsView(x, v) => x = d

-----------------------------------------------------------------------------
(***************************************************************************)
(* The ships of engine d on their way, of state q, to the database and, in *)
(* c, back, where r are the rows of the main database.                     *)
(***************************************************************************)
NotEarlier(m, n) == IsUpdate(m) \/ IsUpdate(n) \/ m.requestTimestep <= n.requestTimestep

Due(d, q, r, m) ==
  IsUpdate(m) \/ (/\ IsEvaluated(q, m.requestTimestep)
                  /\ ShipsView(d, m.relationName)
                  /\ r[m.relationName].requestTimestep <= m.requestTimestep)

PlansViews(d, q) ==
  \A t \in DOMAIN q.queueMap : \A i \in DOMAIN q.queueMap[t].relationsToShip :
    ShipsView(d, q.queueMap[t].relationsToShip[i])

AllDue(d, q, c, r) ==
  /\ \A i \in DOMAIN q.toRemote : Due(d, q, r, q.toRemote[i])
  /\ \A i \in DOMAIN c : Due(d, q, r, c[i].msg)

ShipsInOrder(s, c) ==
  /\ \A i, j \in DOMAIN s : i < j => NotEarlier(s[i], s[j])
  /\ \A i, j \in DOMAIN c : i < j => NotEarlier(c[i].msg, c[j].msg)
  /\ \A i \in DOMAIN c, j \in DOMAIN s : NotEarlier(c[i].msg, s[j])

RowsAnswered(d, q, r) ==
  \A v \in Event : ShipsView(d, v) =>
    r[v].requestTimestep = 0 \/ IsEvaluated(q, r[v].requestTimestep)

Arriving(d, q, c, r) ==
  /\ PlansViews(d, q)
  /\ AllDue(d, q, c, r)
  /\ ShipsInOrder(q.toRemote, c)
  /\ RowsAnswered(d, q, r)

\* The invariant.  The timestep of a request is one that has been.
OrderInv ==
  /\ \A d \in Engine : Arriving(d, engine[d], toClient[d], rows)
  /\ \A e \in Event : rows[e].requestTimestep <= timestep
  /\ \A o \in Output : shown[o].requestTimestep <= rows[Source[o]].requestTimestep

\* Only three fields of an engine matter.
LEMMA SameArriving ==
  ASSUME NEW d, NEW q, NEW p, NEW c, NEW r, Arriving(d, q, c, r),
         p.queueMap = q.queueMap, p.toRemote = q.toRemote, p.evaluated = q.evaluated
  PROVE  Arriving(d, p, c, r)
BY DEF Arriving, PlansViews, AllDue, Due, ShipsInOrder, RowsAnswered, IsEvaluated

\* Posting more messages: ships are for timesteps later than what had been
\* evaluated, so that they are later than the ships already on their way.
LEMMA PostArriving ==
  ASSUME NEW d, NEW q, NEW p, NEW c, NEW r \in [Event -> Row], Arriving(d, q, c, r),
         q.toRemote \in Seq(Message), q.evaluated \in Seq(Nat), NEW msgs \in Seq(Message),
         p.toRemote = q.toRemote \o msgs,
         \A t : IsEvaluated(q, t) => IsEvaluated(p, t),
         PlansViews(d, p),
         \A j \in DOMAIN msgs :
           IsUpdate(msgs[j]) \/ (/\ IsEvaluated(p, msgs[j].requestTimestep)
                                 /\ ShipsView(d, msgs[j].relationName)
                                 /\ \A t : IsEvaluated(q, t) => t < msgs[j].requestTimestep),
         \A i, j \in DOMAIN msgs : NotEarlier(msgs[i], msgs[j])
  PROVE  Arriving(d, p, c, r)
<1> DEFINE a == q.toRemote
           s == p.toRemote
           n == Len(a)
<1>1. /\ \A k \in DOMAIN s :
           \/ k \in DOMAIN a /\ s[k] = a[k]
           \/ k > n /\ k - n \in DOMAIN msgs /\ s[k] = msgs[k - n]
      /\ \A i \in DOMAIN a : i \in Nat /\ i <= n
      /\ n \in Nat
      /\ \A k \in DOMAIN s : k \in Nat
  <2>1. /\ a \o msgs \in Seq(Message)
        /\ \A k \in DOMAIN (a \o msgs) :
              \/ k \in DOMAIN a /\ (a \o msgs)[k] = a[k]
              \/ k > Len(a) /\ k - Len(a) \in DOMAIN msgs /\ (a \o msgs)[k] = msgs[k - Len(a)]
    BY ConcatElements
  <2>2. s \in Seq(Message)
    BY <2>1
  <2> QED  BY <2>1, <2>2
<1> HIDE DEF s, n
<1>2. ASSUME NEW j \in DOMAIN msgs, ~IsUpdate(msgs[j])
      PROVE  /\ msgs[j].requestTimestep \in Nat
             /\ IsEvaluated(p, msgs[j].requestTimestep)
             /\ ShipsView(d, msgs[j].relationName) /\ msgs[j].relationName \in Event
             /\ \A t : IsEvaluated(q, t) => t < msgs[j].requestTimestep
  <2>1. msgs[j] \in Message
    OBVIOUS
  <2>2. msgs[j].requestTimestep \in Nat /\ msgs[j].relationName \in Event
    BY <1>2, <2>1 DEF Message, IsUpdate
  <2> QED  BY <1>2, <2>2
<1>3. RowsAnswered(d, p, r)
  BY DEF Arriving, RowsAnswered
<1>4. ASSUME NEW m, Due(d, q, r, m)
      PROVE  Due(d, p, r, m)
  BY <1>4 DEF Due
<1>5. ASSUME NEW j \in DOMAIN msgs
      PROVE  Due(d, p, r, msgs[j])
  <2>1. CASE IsUpdate(msgs[j])
    BY <2>1 DEF Due
  <2>2. CASE ~IsUpdate(msgs[j])
    <3> DEFINE v == msgs[j].relationName
    <3>1. /\ msgs[j].requestTimestep \in Nat
          /\ IsEvaluated(p, msgs[j].requestTimestep)
          /\ ShipsView(d, v) /\ v \in Event
          /\ \A t : IsEvaluated(q, t) => t < msgs[j].requestTimestep
      BY <1>2, <2>2
    <3>2. r[v].requestTimestep \in Nat
      BY <3>1 DEF Row
    <3>3. r[v].requestTimestep = 0 \/ r[v].requestTimestep < msgs[j].requestTimestep
      BY <3>1 DEF Arriving, RowsAnswered
    <3>4. r[v].requestTimestep <= msgs[j].requestTimestep
      BY <3>1, <3>2, <3>3
    <3> QED  BY <3>1, <3>4 DEF Due
  <2> QED  BY <2>1, <2>2
<1>6. AllDue(d, p, c, r)
  <2>1. \A i \in DOMAIN c : Due(d, p, r, c[i].msg)
    BY <1>4 DEF Arriving, AllDue
  <2>2. \A k \in DOMAIN s : Due(d, p, r, s[k])
    BY <1>1, <1>4, <1>5 DEF Arriving, AllDue
  <2> QED  BY <2>1, <2>2 DEF AllDue, s
\* What is on its way is not later than what is posted.
<1>7. ASSUME NEW m, Due(d, q, r, m), NEW j \in DOMAIN msgs
      PROVE  NotEarlier(m, msgs[j])
  <2>1. CASE IsUpdate(m) \/ IsUpdate(msgs[j])
    BY <2>1 DEF NotEarlier
  <2>2. CASE ~IsUpdate(m) /\ ~IsUpdate(msgs[j])
    <3>1. m.requestTimestep \in Nat
      BY <1>7, <2>2, ElementOfSeq DEF Due, IsEvaluated
    <3>2. m.requestTimestep < msgs[j].requestTimestep /\ msgs[j].requestTimestep \in Nat
      BY <1>2, <1>7, <2>2 DEF Due
    <3> QED  BY <3>1, <3>2 DEF NotEarlier
  <2> QED  BY <2>1, <2>2
<1>8. ShipsInOrder(s, c)
  <2>1. \A i, j \in DOMAIN s : i < j => NotEarlier(s[i], s[j])
    <3> SUFFICES ASSUME NEW i \in DOMAIN s, NEW j \in DOMAIN s, i < j
                 PROVE  NotEarlier(s[i], s[j])
      OBVIOUS
    <3>1. CASE j \in DOMAIN a /\ s[j] = a[j]
      <4>1. i \in DOMAIN a /\ s[i] = a[i]
        BY <1>1, <3>1
      <4> QED  BY <3>1, <4>1 DEF Arriving, ShipsInOrder
    <3>2. CASE j > n /\ j - n \in DOMAIN msgs /\ s[j] = msgs[j - n]
      <4>1. CASE i \in DOMAIN a /\ s[i] = a[i]
        BY <1>7, <3>2, <4>1 DEF Arriving, AllDue
      <4>2. CASE i > n /\ i - n \in DOMAIN msgs /\ s[i] = msgs[i - n]
        BY <3>2, <4>2
      <4> QED  BY <1>1, <4>1, <4>2
    <3> QED  BY <1>1, <3>1, <3>2
  <2>2. \A i \in DOMAIN c, j \in DOMAIN s : NotEarlier(c[i].msg, s[j])
    <3> SUFFICES ASSUME NEW i \in DOMAIN c, NEW j \in DOMAIN s
                 PROVE  NotEarlier(c[i].msg, s[j])
      OBVIOUS
    <3>1. CASE j \in DOMAIN a /\ s[j] = a[j]
      BY <3>1 DEF Arriving, ShipsInOrder
    <3>2. CASE j - n \in DOMAIN msgs /\ s[j] = msgs[j - n]
      BY <1>7, <3>2 DEF Arriving, AllDue
    <3> QED  BY <1>1, <3>1, <3>2
  <2> QED  BY <2>1, <2>2 DEF Arriving, ShipsInOrder
<1> QED  BY <1>3, <1>6, <1>8 DEF Arriving, s

\* An evaluation posts ships for the head, which comes after everything that
\* was evaluated, and updates for the entry that is the head next.
LEMMA EvaluateArriving ==
  ASSUME NEW d, NEW q, IsEngine(q), LowestHead(q), InOrder(q), WaitingComplete(q),
         NEW c, NEW r \in [Event -> Row], Arriving(d, q, c, r)
  PROVE  Arriving(d, Evaluate(q), c, r)
<1>1. CASE Evaluate(q) = q
  BY <1>1
<1>2. ASSUME q.currentQueueHead \in DOMAIN q.queueMap,
             Evaluate(q) = NextQueue(Shipped(q, q.currentQueueHead))
      PROVE  Arriving(d, Evaluate(q), c, r)
  <2> DEFINE head == q.currentQueueHead
             ship == q.queueMap[head].relationsToShip
             msgs == [i \in 1..Len(ship) |-> ShipMsg(head, ship[i])]
             s    == Shipped(q, head)
             p    == NextQueue(s)
  <2>1. /\ head \in Nat \ {NoHead} /\ q.queueMap[head] \in Entry
        /\ q.toRemote \in Seq(Message) /\ q.evaluated \in Seq(Nat)
        /\ \A t : IsEvaluated(q, t) => t < head
    BY <1>2 DEF IsEngine, IsMap, InOrder, IsEvaluated
  <2>2. /\ s.queueMap = q.queueMap /\ s.currentQueueHead = head
        /\ s.evaluated = Append(q.evaluated, head) /\ s.toRemote = q.toRemote \o msgs
    BY DEF Shipped, IsEngine
  <2>3. ship \in Seq(Event) /\ \A i \in DOMAIN ship : ShipsView(d, ship[i])
    BY <1>2, <2>1 DEF Entry, Arriving, PlansViews
  <2>4. IsEngine(s) /\ WaitingComplete(s)
    BY <1>2, ShippedType, ShippedWaiting
  <2> HIDE DEF ship, s
  <2>5. /\ msgs \in Seq(Message)
        /\ \A j \in DOMAIN msgs : msgs[j].requestTimestep = head
                                  /\ ShipsView(d, msgs[j].relationName)
    <3>1. ASSUME NEW j \in 1..Len(ship)
          PROVE  /\ ShipMsg(head, ship[j]) \in Message
                 /\ ShipMsg(head, ship[j]).requestTimestep = head
                 /\ ShipsView(d, ShipMsg(head, ship[j]).relationName)
      <4>1. ship[j] \in Event /\ j \in DOMAIN ship
        BY <2>3, ElementOfSeq
      <4>2. ShipMsg(head, ship[j]) \in Message
        BY <2>1, <4>1, ShipMsgType
      <4> QED  BY <2>3, <4>1, <4>2 DEF ShipMsg
    <3>2. Len(ship) \in Nat
      BY <2>3
    <3> QED  BY <3>1, <3>2, FunctionIsSeq
  <2>6. IsEvaluated(s, head) /\ \A t : IsEvaluated(q, t) => IsEvaluated(s, t)
    BY <2>1, <2>2, AppendEvaluated
  <2> HIDE DEF msgs, head
  <2>7. Arriving(d, s, c, r)
    <3>1. PlansViews(d, s)
      BY <2>2 DEF Arriving, PlansViews
    <3>2. \A j \in DOMAIN msgs :
            IsUpdate(msgs[j]) \/ (/\ IsEvaluated(s, msgs[j].requestTimestep)
                                  /\ ShipsView(d, msgs[j].relationName)
                                  /\ \A t : IsEvaluated(q, t) => t < msgs[j].requestTimestep)
      BY <2>1, <2>5, <2>6
    <3>3. \A i, j \in DOMAIN msgs : NotEarlier(msgs[i], msgs[j])
      BY <2>1, <2>5 DEF NotEarlier
    <3> QED  BY <2>1, <2>2, <2>5, <2>6, <3>1, <3>2, <3>3, PostArriving
  <2>8. /\ p.evaluated = s.evaluated
        /\ \A t \in DOMAIN p.queueMap : t \in DOMAIN s.queueMap /\ p.queueMap[t] = s.queueMap[t]
        /\ \E loads \in Seq(Message) :
             p.toRemote = s.toRemote \o loads /\ \A j \in DOMAIN loads : IsUpdate(loads[j])
    <3> DEFINE rest == DOMAIN s.queueMap \ {s.currentQueueHead}
               next == p.currentQueueHead
    <3>1. /\ p.evaluated = s.evaluated
          /\ DOMAIN p.queueMap = rest
          /\ \A t \in rest : p.queueMap[t] = s.queueMap[t]
          /\ rest = {} => p.toRemote = s.toRemote
          /\ rest # {} =>
               \E loads : /\ p.toRemote = s.toRemote \o loads
                          /\ Loads(loads, next, s.queueMap[next].received)
      BY <2>4, NextQueueLoads
    <3> HIDE DEF p, next
    <3>2. CASE rest = {}
      <4>1. s.toRemote \o <<>> = s.toRemote /\ <<>> \in Seq(Message) /\ DOMAIN <<>> = {}
        BY <2>4, ConcatEmptySeq DEF IsEngine
      <4> QED  BY <3>1, <3>2, <4>1
    <3>3. CASE rest # {}
      BY <3>1, <3>3 DEF Loads
    <3> QED  BY <3>1, <3>2, <3>3
  <2> HIDE DEF p
  <2>9. PICK loads \in Seq(Message) :
          p.toRemote = s.toRemote \o loads /\ \A j \in DOMAIN loads : IsUpdate(loads[j])
    BY <2>8
  <2>10. PlansViews(d, p) /\ \A t : IsEvaluated(s, t) => IsEvaluated(p, t)
    BY <2>7, <2>8 DEF Arriving, PlansViews, IsEvaluated
  <2>11. \A i, j \in DOMAIN loads : NotEarlier(loads[i], loads[j])
    BY <2>9 DEF NotEarlier
  <2>12. s.toRemote \in Seq(Message) /\ s.evaluated \in Seq(Nat)
    BY <2>4 DEF IsEngine
  <2>13. Arriving(d, p, c, r)
    BY <2>7, <2>9, <2>10, <2>11, <2>12, PostArriving
  <2> QED  BY <1>2, <2>13 DEF p, s, head
<1> QED  BY <1>1, <1>2, EvaluateRests

LEMMA HandleUpdateReplyArriving ==
  ASSUME NEW d, NEW q, IsEngine(q), NEW now \in Nat, QueueOK(q, now),
         NEW m \in Message, NEW failed \in BOOLEAN,
         NEW c, NEW r \in [Event -> Row], Arriving(d, q, c, r)
  PROVE  Arriving(d, HandleUpdateReply(q, m, failed), c, r)
<1> DEFINE settled   == SettlePromise(q, m, failed)
           evaluated == Evaluate(settled)
<1>1. /\ IsEngine(settled) /\ QueueOK(settled, now)
      /\ settled.queueMap = q.queueMap /\ settled.evaluated = q.evaluated
  <2>1. m.requestTimestep \in Nat /\ m.isPromise \in BOOLEAN
    BY DEF Message
  <2> QED  BY <2>1, SettlePromiseType, SameQueueOK
<1>2. settled.toRemote = q.toRemote
  BY DEF SettlePromise, IsEngine
<1> HIDE DEF settled
<1>3. Arriving(d, settled, c, r)
  BY <1>1, <1>2, SameArriving
<1>4. IsEngine(evaluated) /\ QueueOK(evaluated, now)
  BY <1>1, EvaluateType, EvaluateOK DEF QueueOK
<1>5. Arriving(d, evaluated, c, r)
  BY <1>1, <1>3, EvaluateArriving DEF QueueOK
<1> HIDE DEF evaluated
<1>6. Arriving(d, Evaluate(evaluated), c, r)
  BY <1>4, <1>5, EvaluateArriving DEF QueueOK
<1> QED  BY <1>5, <1>6 DEF HandleUpdateReply, evaluated, settled

\* The update of the latest timestep, whose entry has the plan of its event.
LEMMA SendUpdateArriving ==
  ASSUME NEW d, NEW q, IsEngine(q), NEW t \in Nat \ {NoHead}, NEW v \in Relation,
         NEW plan, \A i \in DOMAIN plan.relationsToShip : ShipsView(d, plan.relationsToShip[i]),
         NEW c, NEW r \in [Event -> Row], Arriving(d, q, c, r)
  PROVE  Arriving(d, SendUpdate(q, t, v, plan), c, r)
<1> DEFINE entry == JoinEntry(q, t, v, plan)
           later == [entry EXCEPT !.receivedValues = Append(@, v)]
           p     == SendUpdate(q, t, v, plan)
<1>1. \A i \in DOMAIN entry.relationsToShip : ShipsView(d, entry.relationsToShip[i])
  <2>1. CASE t \in DOMAIN q.queueMap
    <3>1. q.queueMap[t] \in Entry
      BY <2>1 DEF IsEngine, IsMap
    <3>2. entry.relationsToShip = q.queueMap[t].relationsToShip
      BY <2>1, <3>1 DEF JoinEntry, Entry
    <3> QED  BY <2>1, <3>2 DEF Arriving, PlansViews
  <2>2. CASE t \notin DOMAIN q.queueMap
    BY <2>2 DEF JoinEntry
  <2> QED  BY <2>1, <2>2
<1>2. later.relationsToShip = entry.relationsToShip
  <2>1. entry = [deps |-> entry.deps, received |-> entry.received,
                 receivedValues |-> entry.receivedValues,
                 relationsToShip |-> entry.relationsToShip]
    <3>1. CASE t \in DOMAIN q.queueMap
      <4>1. q.queueMap[t] \in Entry
        BY <3>1 DEF IsEngine, IsMap
      <4> QED  BY <3>1, <4>1 DEF JoinEntry, Entry
    <3>2. CASE t \notin DOMAIN q.queueMap
      BY <3>2 DEF JoinEntry
    <3> QED  BY <3>1, <3>2
  <2> HIDE DEF entry
  <2> QED  BY <2>1
<1>3. /\ p.evaluated = q.evaluated
      /\ \/ p.queueMap = MapSet(q.queueMap, t, entry)
         \/ p.queueMap = MapSet(q.queueMap, t, later)
      /\ p.toRemote = q.toRemote \/ p.toRemote = Append(q.toRemote, UpdateMsg(t, v, FALSE))
  <2> HIDE DEF entry
  <2> QED  BY DEF SendUpdate, IsEngine, entry
<1> HIDE DEF entry, later, p
<1>4. PlansViews(d, p)
  BY <1>1, <1>2, <1>3 DEF MapSet, Arriving, PlansViews
<1>5. \A x : IsEvaluated(q, x) => IsEvaluated(p, x)
  BY <1>3 DEF IsEvaluated
<1>6. q.toRemote \in Seq(Message) /\ q.evaluated \in Seq(Nat)
  BY DEF IsEngine
<1>7. PICK msgs \in Seq(Message) :
        p.toRemote = q.toRemote \o msgs /\ \A j \in DOMAIN msgs : IsUpdate(msgs[j])
  <2>1. CASE p.toRemote = q.toRemote
    <3>1. q.toRemote \o <<>> = q.toRemote /\ <<>> \in Seq(Message) /\ DOMAIN <<>> = {}
      BY <1>6, ConcatEmptySeq
    <3> QED  BY <2>1, <3>1
  <2>2. CASE p.toRemote = Append(q.toRemote, UpdateMsg(t, v, FALSE))
    <3> DEFINE m == UpdateMsg(t, v, FALSE)
    <3>1. m \in Message /\ IsUpdate(m)
      BY UpdateMsgType DEF UpdateMsg, IsUpdate
    <3> HIDE DEF m
    <3>2. Append(q.toRemote, m) = q.toRemote \o <<m>> /\ <<m>> \in Seq(Message)
          /\ \A j \in DOMAIN <<m>> : <<m>>[j] = m
      BY <1>6, <3>1, AppendIsConcat
    <3> QED  BY <2>2, <3>1, <3>2 DEF m
  <2> QED  BY <1>3, <2>1, <2>2
<1>8. \A i, j \in DOMAIN msgs : NotEarlier(msgs[i], msgs[j])
  BY <1>7 DEF NotEarlier
<1>9. Arriving(d, p, c, r)
  BY <1>4, <1>5, <1>6, <1>7, <1>8, PostArriving
<1> QED  BY <1>9 DEF p

\* The first message leaves, and its answer arrives behind the others.
LEMMA ExecuteArriving ==
  ASSUME NEW d, NEW q, IsEngine(q), q.toRemote # <<>>,
         NEW c \in Seq(Answered), NEW reply \in Answered, reply.msg = Head(q.toRemote),
         NEW r, Arriving(d, q, c, r)
  PROVE  Arriving(d, [q EXCEPT !.toRemote = Tail(@)], Append(c, reply), r)
<1> DEFINE s  == Tail(q.toRemote)
           p  == [q EXCEPT !.toRemote = s]
           c2 == Append(c, reply)
           m  == reply.msg
<1>1. p.toRemote = s /\ p.queueMap = q.queueMap /\ p.evaluated = q.evaluated
  BY DEF IsEngine
<1>2. /\ 1 \in DOMAIN q.toRemote /\ m = q.toRemote[1]
      /\ \A k \in DOMAIN s :
           k \in Nat /\ 1 < k + 1 /\ k + 1 \in DOMAIN q.toRemote /\ s[k] = q.toRemote[k + 1]
  <2>1. q.toRemote \in Seq(Message)
    BY DEF IsEngine
  <2> QED  BY <2>1, TailElements
<1>3. \A i \in DOMAIN c2 :
        (i \in DOMAIN c /\ c2[i] = c[i] /\ i <= Len(c)) \/ (i = Len(c) + 1 /\ c2[i] = reply)
  OBVIOUS
<1>4. \A i \in DOMAIN c2 : i \in Nat /\ Len(c) \in Nat
  OBVIOUS
<1> HIDE DEF s, p, c2, m
<1>5. \A x : Due(d, q, r, x) => Due(d, p, r, x)
  BY <1>1 DEF Due, IsEvaluated
<1>6. PlansViews(d, p) /\ RowsAnswered(d, p, r)
  BY <1>1 DEF Arriving, PlansViews, RowsAnswered, IsEvaluated
<1>7. AllDue(d, p, c2, r)
  BY <1>1, <1>2, <1>3, <1>5 DEF Arriving, AllDue, m
<1>8. ShipsInOrder(s, c2)
  <2>1. \A i, j \in DOMAIN s : i < j => NotEarlier(s[i], s[j])
    BY <1>2 DEF Arriving, ShipsInOrder
  <2>2. \A i \in DOMAIN c2, j \in DOMAIN s : NotEarlier(c2[i].msg, s[j])
    BY <1>2, <1>3 DEF Arriving, ShipsInOrder, m
  <2>3. \A i, j \in DOMAIN c2 : i < j => NotEarlier(c2[i].msg, c2[j].msg)
    <3> SUFFICES ASSUME NEW i \in DOMAIN c2, NEW j \in DOMAIN c2, i < j
                 PROVE  NotEarlier(c2[i].msg, c2[j].msg)
      OBVIOUS
    <3>1. i \in DOMAIN c /\ c2[i] = c[i]
      BY <1>3, <1>4
    <3> QED  BY <1>2, <1>3, <3>1 DEF Arriving, ShipsInOrder, m
  <2> QED  BY <2>1, <2>2, <2>3 DEF ShipsInOrder
<1>9. Arriving(d, p, c2, r)
  BY <1>1, <1>6, <1>7, <1>8 DEF Arriving
<1> QED  BY <1>9 DEF p, s, c2

\* A reply is taken.
LEMMA TakeArriving ==
  ASSUME NEW d, NEW q, NEW c \in Seq(Answered), c # <<>>, NEW r, Arriving(d, q, c, r)
  PROVE  Arriving(d, q, Tail(c), r)
<1> DEFINE s == Tail(c)
<1>1. \A k \in DOMAIN s : k \in Nat /\ k + 1 \in DOMAIN c /\ s[k] = c[k + 1]
  BY TailElements
<1> HIDE DEF s
<1>2. AllDue(d, q, s, r) /\ ShipsInOrder(q.toRemote, s)
  BY <1>1 DEF Arriving, AllDue, ShipsInOrder
<1> QED  BY <1>2 DEF Arriving, s

\* The row of e changes: no ship on its way may be for an earlier request.
LEMMA RowArriving ==
  ASSUME NEW d \in Engine, NEW q, NEW c, NEW r, Arriving(d, q, c, r),
         NEW e, NEW s, \A v \in Event \ {e} : s[v] = r[v],
         ShipsView(d, e) =>
           /\ IsEvaluated(q, s[e].requestTimestep)
           /\ \A i \in DOMAIN q.toRemote :
                IsUpdate(q.toRemote[i]) \/ s[e].requestTimestep <= q.toRemote[i].requestTimestep
           /\ \A i \in DOMAIN c :
                IsUpdate(c[i].msg) \/ s[e].requestTimestep <= c[i].msg.requestTimestep
  PROVE  Arriving(d, q, c, s)
<1>1. \A v : ShipsView(d, v) => v \in Event
  BY PlanAssumption, ElementOfSeq DEF ShipsView
<1>2. AllDue(d, q, c, s)
  BY <1>1 DEF Arriving, AllDue, Due
<1>3. RowsAnswered(d, q, s)
  BY DEF Arriving, RowsAnswered
<1> QED  BY <1>2, <1>3 DEF Arriving

-----------------------------------------------------------------------------
(***************************************************************************)
(* The steps of the event loop.                                            *)
(***************************************************************************)
LEMMA InitOrder == RuntimeInit => OrderInv
<1> SUFFICES ASSUME RuntimeInit PROVE OrderInv
  OBVIOUS
<1>1. /\ \A d \in Engine : engine[d] = NewEngine /\ toClient[d] = <<>>
      /\ \A e \in Event : rows[e] = NoRow
      /\ \A o \in Output : shown[o] = NoRow
      /\ timestep = 1
  BY DEF RuntimeInit, Init, INIT_TIMESTEP
<1>2. /\ NewEngine.toRemote = <<>> /\ DOMAIN NewEngine.queueMap = {} /\ DOMAIN <<>> = {}
      /\ NoRow.requestTimestep = 0
  BY DEF NewEngine, EmptyMap, NoRow
<1>3. \A d \in Engine : Arriving(d, NewEngine, <<>>, rows)
  BY <1>1, <1>2 DEF Arriving, PlansViews, AllDue, ShipsInOrder, RowsAnswered
<1>4. \A o \in Output : Source[o] \in Event
  BY OutputAssumption
<1> QED  BY <1>1, <1>2, <1>3, <1>4 DEF OrderInv

\* A new row of e, whose request has been and is not before that of the old one.
LEMMA TickOrder ==
  ASSUME LoopInv, OrderInv, NEW e \in Event, NEW t \in Nat, BeginTick(e, t),
         t <= timestep, rows[e].requestTimestep <= t,
         \A d \in Engine :
           /\ engine'[d] = engine[d]
           /\ Arriving(d, engine[d], toClient'[d], rows)
           /\ ShipsView(d, e) =>
                /\ IsEvaluated(engine[d], t)
                /\ \A i \in DOMAIN engine[d].toRemote :
                     IsUpdate(engine[d].toRemote[i])
                       \/ t <= engine[d].toRemote[i].requestTimestep
                /\ \A i \in DOMAIN toClient'[d] :
                     IsUpdate(toClient'[d][i].msg)
                       \/ t <= toClient'[d][i].msg.requestTimestep
  PROVE  OrderInv'
<1>1. /\ \A v \in Event \ {e} : rows'[v] = rows[v]
      /\ rows'[e].requestTimestep = t
      /\ timestep' = timestep + 1 /\ timestep \in Nat /\ shown' = shown
  BY DEF BeginTick, LoopInv, UiTypeOK, IInv, TypeOK
<1>2. \A v \in Event : rows[v].requestTimestep \in Nat
  BY DEF LoopInv, UiTypeOK, Row
<1>3. ASSUME NEW d \in Engine
      PROVE  Arriving(d, engine'[d], toClient'[d], rows')
  BY <1>1, RowArriving
<1>4. \A v \in Event : rows'[v].requestTimestep <= timestep'
  BY <1>1, <1>2 DEF OrderInv
<1>5. \A v \in Event : /\ rows[v].requestTimestep <= rows'[v].requestTimestep
                       /\ rows'[v].requestTimestep \in Nat
  BY <1>1, <1>2
<1>6. \A o \in Output : Source[o] \in Event /\ shown[o].requestTimestep \in Nat
  BY OutputAssumption DEF LoopInv, UiTypeOK, Row
<1>7. \A o \in Output : shown'[o].requestTimestep <= rows'[Source[o]].requestTimestep
  BY <1>1, <1>2, <1>5, <1>6 DEF OrderInv
<1> QED  BY <1>3, <1>4, <1>7 DEF OrderInv

\* An event of the user interface is not shipped back to it.
LEMMA InputOrder ==
  ASSUME OneSource, LoopInv, OrderInv, NEW e \in Input, UserInput(e) \/ CallbackInput(e)
  PROVE  OrderInv'
<1>1. BeginTick(e, timestep) /\ engine' = engine /\ toClient' = toClient
  BY DEF UserInput, CallbackInput, remoteVars
<1>2. e \in Event /\ timestep \in Nat /\ \A d \in Engine : ~ShipsView(d, e)
  BY PlanAssumption DEF OneSource, LoopInv, IInv, TypeOK
<1>3. rows[e].requestTimestep <= timestep
  BY <1>2 DEF OrderInv
<1>4. \A d \in Engine : Arriving(d, engine[d], toClient'[d], rows)
  BY <1>1 DEF OrderInv
<1> QED  BY <1>1, <1>2, <1>3, <1>4, TickOrder

\* An answer: the ships behind it, all those of its view, are for later requests.
LEMMA ResultsInputOrder ==
  ASSUME OneSource, LoopInv, OrderInv, NEW d \in Engine, ResultsInput(d)
  PROVE  OrderInv'
<1> DEFINE q == engine[d]
           c == toClient[d]
           m == Head(c).msg
           e == m.relationName
           t == m.requestTimestep
<1>1. /\ BeginTick(e, t) /\ engine' = engine /\ CanHandle(d) /\ TakeReply(d)
      /\ ~IsUpdate(m)
  BY DEF ResultsInput, CanHandle, Quiet, IsUpdate
<1>2. /\ c \in Seq(Answered) /\ c # <<>> /\ toClient'[d] = Tail(c)
      /\ \A x \in Engine \ {d} : toClient'[x] = toClient[x]
      /\ Head(c) = c[1] /\ 1 \in DOMAIN c
  BY <1>1, TakeReplyRest DEF CanHandle, LoopInv, IInv, TypeOK
<1>3. Head(c) \in Answered
  BY <1>1, TakeReplyType DEF LoopInv
<1> HIDE DEF c
<1>4. m \in Message
  BY <1>3 DEF Answered
<1>5. Arriving(d, q, c, rows) /\ QueueOK(q, timestep) /\ IsEngine(q)
  BY DEF OrderInv, LoopInv, IInv, TypeOK, c
<1>6. Due(d, q, rows, m)
  BY <1>2, <1>5 DEF Arriving, AllDue
<1>7. /\ \A k \in DOMAIN Tail(c) : k + 1 \in DOMAIN c /\ Tail(c)[k] = c[k + 1] /\ 1 < k + 1
      /\ Arriving(d, q, Tail(c), rows)
  BY <1>2, <1>5, TailElements, TakeArriving
<1>8. /\ \A i \in DOMAIN q.toRemote : NotEarlier(m, q.toRemote[i])
      /\ \A i \in DOMAIN Tail(c) : NotEarlier(m, Tail(c)[i].msg)
  BY <1>2, <1>5, <1>7 DEF Arriving, ShipsInOrder
<1> HIDE DEF m
<1>9. e \in Event /\ t \in Nat
  BY <1>1, <1>4 DEF Message, IsUpdate
<1>10. IsEvaluated(q, t) /\ ShipsView(d, e) /\ rows[e].requestTimestep <= t
  BY <1>1, <1>6 DEF Due
<1>11. t <= timestep
  BY <1>5, <1>10 DEF QueueOK, UpTo, IsEvaluated
<1>12. /\ \A i \in DOMAIN q.toRemote :
            IsUpdate(q.toRemote[i]) \/ t <= q.toRemote[i].requestTimestep
       /\ \A i \in DOMAIN Tail(c) :
            IsUpdate(Tail(c)[i].msg) \/ t <= Tail(c)[i].msg.requestTimestep
  BY <1>1, <1>8 DEF NotEarlier
<1> HIDE DEF e, t
<1>13. ASSUME NEW x \in Engine, x # d
       PROVE  ~ShipsView(x, e) /\ Arriving(x, engine[x], toClient'[x], rows)
  BY <1>2, <1>9, <1>10, <1>13 DEF OneSource, OrderInv
<1>14. ASSUME NEW x \in Engine
       PROVE  /\ engine'[x] = engine[x]
              /\ Arriving(x, engine[x], toClient'[x], rows)
              /\ ShipsView(x, e) =>
                   /\ IsEvaluated(engine[x], t)
                   /\ \A i \in DOMAIN engine[x].toRemote :
                        IsUpdate(engine[x].toRemote[i])
                          \/ t <= engine[x].toRemote[i].requestTimestep
                   /\ \A i \in DOMAIN toClient'[x] :
                        IsUpdate(toClient'[x][i].msg)
                          \/ t <= toClient'[x][i].msg.requestTimestep
  <2>1. CASE x = d
    BY <1>1, <1>2, <1>7, <1>10, <1>12, <2>1
  <2>2. CASE x # d
    BY <1>1, <1>13, <2>2
  <2> QED  BY <2>1, <2>2
<1>15. BeginTick(e, t)
  BY <1>1 DEF e, t
<1> QED  BY <1>9, <1>10, <1>11, <1>14, <1>15, TickOrder

\* The user interface stands still, and one engine or its replies change.
LEMMA EngineOrder ==
  ASSUME OrderInv, UNCHANGED uiVars, timestep' = timestep, NEW d \in Engine,
         \A x \in Engine \ {d} : engine'[x] = engine[x] /\ toClient'[x] = toClient[x],
         Arriving(d, engine'[d], toClient'[d], rows)
  PROVE  OrderInv'
<1>1. rows' = rows /\ shown' = shown
  BY DEF uiVars
<1>2. \A x \in Engine : Arriving(x, engine'[x], toClient'[x], rows)
  BY DEF OrderInv
<1> QED  BY <1>1, <1>2 DEF OrderInv

LEMMA ShipOrder ==
  ASSUME LoopInv, OrderInv, Ship
  PROVE  OrderInv'
<1>1. CASE ShipWorkerInput
  <2> DEFINE d == Head(sending).destination
             r == Head(sending).relation
             plan == Plan(d, timestep)
  <2>1. Head(sending) \in Shipment
    BY <1>1, TailType DEF ShipWorkerInput, LoopInv, IInv, TypeOK
  <2>2. d \in Engine /\ r \in Relation
    BY <2>1 DEF Shipment
  <2>3. /\ engine' = [engine EXCEPT ![d] = SendUpdate(engine[d], timestep, r, plan)]
        /\ toClient' = toClient /\ timestep' = timestep
    BY <1>1 DEF ShipWorkerInput, remoteVars
  <2>4. eventByTimestep[timestep] \in Event
    BY <1>1 DEF LoopInv, IInv, TypeOK, IsMap, Sending, ShipWorkerInput
  <2> HIDE DEF d, r
  <2>5. \A i \in DOMAIN plan.relationsToShip : ShipsView(d, plan.relationsToShip[i])
    BY <2>4 DEF Plan, ShipsView
  <2> HIDE DEF plan
  <2>6. IsEngine(engine[d]) /\ timestep \in Nat \ {NoHead} /\ rows \in [Event -> Row]
        /\ Arriving(d, engine[d], toClient[d], rows)
    BY <2>2 DEF LoopInv, UiTypeOK, IInv, TypeOK, OrderInv
  <2>7. Arriving(d, SendUpdate(engine[d], timestep, r, plan), toClient[d], rows)
    BY <2>2, <2>5, <2>6, SendUpdateArriving
  <2>8. /\ Arriving(d, engine'[d], toClient'[d], rows)
        /\ \A x \in Engine \ {d} : engine'[x] = engine[x] /\ toClient'[x] = toClient[x]
    BY <2>2, <2>3, <2>7 DEF LoopInv, IInv, TypeOK
  <2> QED  BY <2>2, <2>3, <2>8, EngineOrder DEF Ship
<1>2. CASE SkipEmptyRelation
  BY <1>2 DEF Ship, SkipEmptyRelation, OrderInv, uiVars, remoteVars
<1> QED  BY <1>1, <1>2 DEF Ship

LEMMA DatabaseOrder ==
  ASSUME LoopInv, OrderInv, NEW d \in Engine, Database(d)
  PROVE  OrderInv'
<1> DEFINE q == engine[d]
           c == toClient[d]
           m == Head(q.toRemote)
<1>1. PICK reply, content : reply \in Answered /\ Execute(d, reply, content) /\ reply.msg = m
  <2>1. CASE ExecuteUpdate(d)
    <3> DEFINE reply == Reply(m, FALSE, NoResults, FALSE)
    <3>1. /\ CanExecute(d)
          /\ Execute(d, reply, [remote[d] EXCEPT ![m.relationName] = m.requestTimestep])
      BY <2>1 DEF ExecuteUpdate
    <3>2. reply \in Answered
      BY <3>1, ReplyType DEF Content, LoopInv
    <3>3. reply.msg = m
      BY DEF Reply
    <3> QED  BY <3>1, <3>2, <3>3
  <2>2. CASE ExecuteShip(d)
    <3>1. PICK some \in BOOLEAN : Execute(d, Reply(m, FALSE, remote[d], some), remote[d])
      BY <2>2 DEF ExecuteShip
    <3> DEFINE reply == Reply(m, FALSE, remote[d], some)
    <3>2. remote[d] \in Content /\ CanExecute(d)
      BY <2>2 DEF ExecuteShip, Content, LoopInv, IInv, TypeOK
    <3>3. reply \in Answered
      BY <3>2, ReplyType DEF LoopInv
    <3>4. reply.msg = m
      BY DEF Reply
    <3> QED  BY <3>1, <3>3, <3>4
  <2> QED  BY <2>1, <2>2 DEF Database
<1>2. /\ IsEngine(q) /\ q.toRemote # <<>> /\ c \in Seq(Answered)
      /\ Arriving(d, q, c, rows)
  BY DEF Database, ExecuteUpdate, ExecuteShip, CanExecute, LoopInv, IInv, TypeOK, OrderInv
<1>3. Arriving(d, [q EXCEPT !.toRemote = Tail(@)], Append(c, reply), rows)
  <2> HIDE DEF q, c
  <2> QED  BY <1>1, <1>2, ExecuteArriving
<1>4. /\ engine' = [engine EXCEPT ![d].toRemote = Tail(@)]
      /\ toClient' = [toClient EXCEPT ![d] = Append(@, reply)]
      /\ timestep' = timestep
  BY <1>1 DEF Execute, mainVars
<1>5. /\ engine'[d] = [q EXCEPT !.toRemote = Tail(@)]
      /\ toClient'[d] = Append(c, reply)
      /\ \A x \in Engine \ {d} : engine'[x] = engine[x] /\ toClient'[x] = toClient[x]
  BY <1>4 DEF LoopInv, IInv, TypeOK
<1>6. Arriving(d, engine'[d], toClient'[d], rows)
  BY <1>3, <1>5
<1> QED  BY <1>4, <1>5, <1>6, EngineOrder DEF Database

LEMMA OtherReplyOrder ==
  ASSUME LoopInv, OrderInv, NEW d \in Engine, OtherReply(d)
  PROVE  OrderInv'
<1> DEFINE q == engine[d]
           c == toClient[d]
<1>1. CanHandle(d) /\ TakeReply(d) /\ timestep' = timestep /\ UNCHANGED uiVars
  BY DEF OtherReply, HandleUpdate, DropShip, mainVars
<1>2. /\ IsEngine(q) /\ QueueOK(q, timestep) /\ timestep \in Nat
      /\ c \in Seq(Answered) /\ c # <<>> /\ rows \in [Event -> Row]
      /\ Arriving(d, q, c, rows) /\ toClient'[d] = Tail(c)
      /\ \A x \in Engine \ {d} : toClient'[x] = toClient[x]
  BY <1>1, TakeReplyRest DEF CanHandle, LoopInv, UiTypeOK, IInv, TypeOK, OrderInv
<1>3. CASE HandleUpdate(d)
  <2> DEFINE m == Head(c).msg
             failed == Head(c).err
  <2>1. engine' = [engine EXCEPT ![d] = HandleUpdateReply(q, m, failed)]
    BY <1>3 DEF HandleUpdate
  <2>2. m \in Message /\ failed \in BOOLEAN
    BY <1>1, TakeReplyType DEF LoopInv, Answered
  <2> HIDE DEF m, failed
  <2>3. /\ engine'[d] = HandleUpdateReply(q, m, failed)
        /\ \A x \in Engine \ {d} : engine'[x] = engine[x]
    BY <2>1 DEF LoopInv, IInv, TypeOK
  <2> HIDE DEF q, c
  <2>4. Arriving(d, HandleUpdateReply(q, m, failed), c, rows)
    BY <1>2, <2>2, HandleUpdateReplyArriving
  <2>5. Arriving(d, HandleUpdateReply(q, m, failed), Tail(c), rows)
    BY <1>2, <2>4, TakeArriving
  <2> QED  BY <1>1, <1>2, <2>3, <2>5, EngineOrder
<1>4. CASE DropShip(d)
  <2>1. engine' = engine
    BY <1>4 DEF DropShip
  <2>2. Arriving(d, q, Tail(c), rows)
    BY <1>2, TakeArriving
  <2>3. Arriving(d, engine'[d], toClient'[d], rows)
    BY <1>2, <2>1, <2>2
  <2> QED  BY <1>1, <1>2, <2>1, <2>3, EngineOrder
<1> QED  BY <1>3, <1>4 DEF OtherReply

\* Rendering shows the row there is.
LEMMA RunOutputOrder ==
  ASSUME LoopInv, OrderInv, RunOutput
  PROVE  /\ OrderInv'
         /\ \A o \in Output : shown'[o].requestTimestep >= shown[o].requestTimestep
<1>1. PICK o \in Output, renders \in BOOLEAN :
        shown' = IF renders THEN [shown EXCEPT ![o] = rows[Source[o]]] ELSE shown
  BY RunOutputIs
<1>2. UNCHANGED vars /\ rows' = rows
  BY DEF RunOutput
<1>3. \A x \in Output : /\ shown'[x] = shown[x] \/ shown'[x] = rows[Source[x]]
                        /\ shown[x].requestTimestep \in Nat
                        /\ rows[Source[x]].requestTimestep \in Nat
  BY <1>1, OutputAssumption DEF LoopInv, UiTypeOK, Row
<1>4. \A x \in Output : /\ shown'[x].requestTimestep <= rows[Source[x]].requestTimestep
                        /\ shown'[x].requestTimestep >= shown[x].requestTimestep
  BY <1>3 DEF OrderInv
<1> QED  BY <1>2, <1>4 DEF OrderInv, vars, mainVars, remoteVars

LEMMA NextOrder ==
  ASSUME NoStaticTriggers, OneSource, LoopInv, OrderInv, [RuntimeNext]_allVars
  PROVE  /\ OrderInv'
         /\ \A o \in Output : shown'[o].requestTimestep >= shown[o].requestTimestep
<1>1. CASE RunOutput
  BY <1>1, RunOutputOrder
<1>2. CASE ~RunOutput
  <2>1. OrderInv'
    <3>1. ASSUME NEW e \in Input, UserInput(e) \/ CallbackInput(e) PROVE OrderInv'
      BY <3>1, InputOrder
    <3>2. ASSUME NEW o \in Output, BindOutput(o) PROVE OrderInv'
      <4>1. /\ \A d \in Engine : engine'[d] = engine[d]
            /\ timestep' = timestep /\ toClient' = toClient
        BY <3>2, BindOutputSilent DEF remoteVars
      <4>2. rows' = rows /\ shown' = shown
        BY <3>2 DEF BindOutput
      <4> QED  BY <4>1, <4>2 DEF OrderInv
    <3>3. CASE FinishCall \/ UNCHANGED allVars
      <4>1. UNCHANGED <<engine, toClient, timestep, rows, shown>>
        BY <3>3 DEF FinishCall, allVars, vars, uiVars, mainVars, remoteVars
      <4> QED  BY <4>1 DEF OrderInv
    <3>4. CASE Ship
      BY <3>4, ShipOrder
    <3>5. ASSUME NEW d \in Engine, ResultsInput(d) \/ OtherReply(d) \/ Database(d)
          PROVE  OrderInv'
      BY <3>5, ResultsInputOrder, OtherReplyOrder, DatabaseOrder
    <3> QED  BY <1>2, <3>1, <3>2, <3>3, <3>4, <3>5 DEF RuntimeNext
  <2>2. shown' = shown
    BY <1>2 DEF RuntimeNext, UserInput, CallbackInput, BeginTick, BindOutput, FinishCall,
                Ship, ResultsInput, OtherReply, Database, uiVars, allVars
  <2>3. \A o \in Output : shown[o].requestTimestep \in Nat
    BY DEF LoopInv, UiTypeOK, Row
  <2>4. \A o \in Output : shown'[o].requestTimestep >= shown[o].requestTimestep
    BY <2>2, <2>3
  <2> QED  BY <2>1, <2>4
<1> QED  BY <1>1, <1>2

(***************************************************************************)
(* An output never goes back to the answer to an earlier request: the      *)
(* updates and ships of an engine are pipelined, several requests are      *)
(* under way at a time, rendering functions insert events of their own, and*)
(* still "the latest answer that arrived" (asyncPolicies.ts) is the answer *)
(* to the latest request that was answered.                                *)
(***************************************************************************)
THEOREM AnswersNeverGoBack ==
  ASSUME NoStaticTriggers, OneSource
  PROVE  RuntimeSpec => AnswersInOrder
<1>1. LoopInv /\ OrderInv /\ [RuntimeNext]_allVars => OrderInv'
  BY NextOrder
<1>2. LoopInv /\ OrderInv /\ [RuntimeNext]_allVars =>
        [\A o \in Output : shown'[o].requestTimestep >= shown[o].requestTimestep]_allVars
  BY NextOrder
<1> QED  BY <1>1, <1>2, InitOrder, LoopInvariance, PTL DEF RuntimeSpec, AnswersInOrder
=============================================================================
