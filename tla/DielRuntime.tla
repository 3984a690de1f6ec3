----------------------------- MODULE DielRuntime -----------------------------
(***************************************************************************)
(* The event loop of class DielRuntime in full: outputs are bound to       *)
(* rendering functions of the user interface, an event is inserted in the  *)
(* local database, the outputs that depend on it are rendered, and only    *)
(* then is what it needs shipped.  A rendering function is the user's code *)
(* and may insert events itself, so calls of newInputHelper nest.  The     *)
(* engines, the remote databases and the plan are those of DbEngine.       *)
(*                                                                         *)
(* An output shows the latest row of one relation (the default policy of   *)
(* asynchronous outputs, asyncPolicies.ts, or a local LATEST); a row is    *)
(* abstracted to its two timesteps and to whether the output's query lets  *)
(* it through.                                                             *)
(***************************************************************************)
EXTENDS DbEngine

CONSTANTS
  Output,
  Source,        \* [Output -> Event], the relation whose latest row is shown
  RunsOn,        \* [Output -> SUBSET Event], what the output depends on
  StaticShip,    \* [Output -> [Engine -> Seq(Event)]], static triggers
  MayHide,       \* events whose latest row an output may filter out
  MaxCallbacks,  \* bound on the events inserted by rendering functions
  MaxBinds       \* bound on the calls of BindOutput

\* What a call of BindOutput is about.
NoEvent == "none"

ASSUME OutputAssumption ==
  /\ NoEvent \notin Event
  /\ Source \in [Output -> Event]
  /\ RunsOn \in [Output -> SUBSET Event]
  /\ \A o \in Output : Source[o] \in RunsOn[o]
  /\ StaticShip \in [Output -> [Engine -> Seq(Event)]]
  /\ MayHide \subseteq Event
  /\ MaxCallbacks \in Nat /\ MaxBinds \in Nat

VARIABLES
  frames,     \* the calls in progress of newInputHelper and BindOutput, innermost first
  bound,      \* DielRuntime.boundFns, in the order of BindOutput
  rows,       \* the local database: the latest row of each event relation
  shown,      \* what the rendering function of each output was last called with
  nested      \* history: the timesteps of the events that rendering functions inserted

uiVars == <<frames, bound, rows, shown, nested>>
allVars == <<vars, uiVars>>

NoRow == [timestep |-> 0, requestTimestep |-> 0, visible |-> FALSE]

RuntimeInit ==
  /\ Init
  /\ frames = <<>>
  /\ bound = <<>>
  /\ rows = [e \in Event |-> NoRow]
  /\ shown = [o \in Output |-> NoRow]
  /\ nested = {}

-----------------------------------------------------------------------------
\* Nothing runs on the main thread.
Quiet == Idle /\ frames = <<>>

\* A rendering function is running, and may call the runtime.
InCallback == Idle /\ frames # <<>> /\ Head(frames).callback

(***************************************************************************)
(* newInputHelper up to the outputs: a new timestep, the row of the event, *)
(* and the loop over the outputs that are bound at this point.             *)
(***************************************************************************)
Call(e, outputs) == [event |-> e, outputs |-> outputs, callback |-> FALSE]

\* Mutant: an event inserted by a rendering function ends the call around it.
BeginTickNotReentrant(e, requestTimestep) ==
  /\ timestep' = timestep + 1
  /\ eventByTimestep' = MapSet(eventByTimestep, timestep + 1, e)
  /\ rows' = [rows EXCEPT ![e] = [timestep        |-> timestep + 1,
                                  requestTimestep |-> requestTimestep,
                                  visible         |-> TRUE]]
  /\ frames' = <<Call(e, bound)>>
  /\ UNCHANGED <<sending, bound, shown>>

BeginTick(e, requestTimestep) ==
  /\ timestep' = timestep + 1
  /\ eventByTimestep' = MapSet(eventByTimestep, timestep + 1, e)
  /\ \E visible \in {TRUE} \cup {e \notin MayHide} :
       rows' = [rows EXCEPT ![e] = [timestep        |-> timestep + 1,
                                    requestTimestep |-> requestTimestep,
                                    visible         |-> visible]]
  /\ frames' = <<Call(e, bound)>> \o frames
  /\ UNCHANGED <<sending, bound, shown>>

\* The user interface calls NewInput, from its own task or while rendering.
UserInput(e) ==
  /\ Quiet
  /\ inputs < MaxInputs
  /\ inputs' = inputs + 1
  /\ BeginTick(e, timestep)
  /\ UNCHANGED <<engine, remoteVars, errors, historyVars, nested>>

CallbackInput(e) ==
  /\ InCallback
  /\ Cardinality(nested) < MaxCallbacks
  /\ nested' = nested \cup {timestep + 1}
  /\ BeginTick(e, timestep)
  /\ UNCHANGED <<engine, remoteVars, boundVars, historyVars>>

\* Does the call for e run output o?  BindOutput runs the one it was given.
Concerns(e, o) == e = NoEvent \/ e \in RunsOn[o]

\* One turn of the loop; runOutput does not render an output without rows.
RunOutput ==
  /\ Idle /\ frames # <<>> /\ Head(frames).outputs # <<>>
  /\ LET o       == Head(Head(frames).outputs)
         row     == rows[Source[o]]
         renders == Concerns(Head(frames).event, o) /\ row.visible
     IN  /\ frames' = [frames EXCEPT ![1].outputs  = Tail(@),
                                     ![1].callback = renders]
         /\ shown' = IF renders THEN [shown EXCEPT ![o] = row] ELSE shown
  /\ UNCHANGED <<vars, bound, rows, nested>>

\* Mutant: the event is forgotten once its outputs are rendered.
FinishCallWithoutShipping ==
  /\ Idle /\ frames # <<>> /\ Head(frames).outputs = <<>>
  /\ frames' = Tail(frames)
  /\ UNCHANGED <<vars, bound, rows, shown, nested>>

\* The end of newInputHelper, or of BindOutput, which ships nothing.
FinishCall ==
  /\ Idle /\ frames # <<>> /\ Head(frames).outputs = <<>>
  /\ frames' = Tail(frames)
  /\ sending' = IF Head(frames).event = NoEvent THEN <<>>
                ELSE ShipForEvent[Head(frames).event]
  /\ UNCHANGED <<timestep, eventByTimestep, engine, remoteVars, boundVars, historyVars,
                 bound, rows, shown, nested>>

Ship == (ShipWorkerInput \/ SkipEmptyRelation) /\ UNCHANGED uiVars

(***************************************************************************)
(* BindOutput: remember the rendering function; the first time, ask the    *)
(* engines for the event views behind the output, without going through    *)
(* their queues; then render what there is.                                *)
(***************************************************************************)
StaticMsg(v) == [ShipMsg(timestep, v) EXCEPT !.isPromise = FALSE]

\* Mutant: the engine is asked for the output, not for the views behind it.
PostStaticOutput(o) ==
  [d \in Engine |->
     [engine[d] EXCEPT !.toRemote =
        @ \o [i \in 1..Len(StaticShip[o][d]) |-> StaticMsg(o)]]]

PostStatic(o) ==
  [d \in Engine |->
     [engine[d] EXCEPT !.toRemote =
        @ \o [i \in 1..Len(StaticShip[o][d]) |-> StaticMsg(StaticShip[o][d][i])]]]

BindOutput(o) ==
  /\ Quiet \/ InCallback
  /\ Len(bound) < MaxBinds
  /\ bound' = Append(bound, o)
  /\ engine' = IF \E i \in DOMAIN bound : bound[i] = o THEN engine ELSE PostStatic(o)
  /\ frames' = <<Call(NoEvent, <<o>>)>> \o frames
  /\ UNCHANGED <<mainVars, remoteVars, boundVars, historyVars, rows, shown, nested>>

-----------------------------------------------------------------------------
\* NewInputMany, called by an engine's handler with the rows of a view.
ResultsInput(d) ==
  /\ Quiet /\ toClient[d] # <<>>
  /\ LET reply == Head(toClient[d])
     IN  /\ reply.msg.remoteAction = "ShipRelation"
         /\ ~reply.err /\ reply.rows
         /\ BeginTick(reply.msg.relationName, reply.msg.requestTimestep)
         /\ delivered' = [delivered EXCEPT ![d] = @ \cup
              {[requestTimestep |-> reply.msg.requestTimestep,
                view            |-> reply.msg.relationName,
                results         |-> reply.results]}]
  /\ TakeReply(d)
  /\ UNCHANGED <<engine, connected, remote, boundVars, submitted, nested>>

OtherReply(d) == frames = <<>> /\ (HandleUpdate(d) \/ DropShip(d)) /\ UNCHANGED uiVars

Database(d) == (ExecuteUpdate(d) \/ ExecuteShip(d)) /\ UNCHANGED uiVars

RuntimeNext ==
  \/ \E e \in Input : UserInput(e) \/ CallbackInput(e)
  \/ \E o \in Output : BindOutput(o)
  \/ RunOutput \/ FinishCall \/ Ship
  \/ \E d \in Engine : ResultsInput(d) \/ OtherReply(d) \/ Database(d)

\* The main thread runs on, and so do the databases; nobody has to call the runtime.
RuntimeFairness ==
  /\ WF_allVars(RunOutput) /\ WF_allVars(FinishCall) /\ WF_allVars(Ship)
  /\ \A d \in Engine : /\ WF_allVars(ResultsInput(d) \/ OtherReply(d))
                       /\ WF_allVars(Database(d))

RuntimeSpec     == RuntimeInit /\ [][RuntimeNext]_allVars
RuntimeFairSpec == RuntimeSpec /\ RuntimeFairness
-----------------------------------------------------------------------------
(***************************************************************************)
(* Properties.                                                             *)
(***************************************************************************)
Frame == [event : Event \cup {NoEvent}, outputs : Seq(Output), callback : BOOLEAN]

Row == [timestep : Nat, requestTimestep : Nat, visible : BOOLEAN]

\* The state of the event loop has its type, that of the engines included.
RuntimeTypeOK ==
  /\ TypeOK
  /\ frames \in Seq(Frame)
  /\ bound \in Seq(Output)
  /\ rows \in [Event -> Row]
  /\ shown \in [Output -> Row]
  /\ nested \subseteq Nat /\ IsFiniteSet(nested) /\ Cardinality(nested) <= MaxCallbacks

(***************************************************************************)
(* When the main thread is free, the rendering function of every bound     *)
(* output was last called with the current result of the output, however   *)
(* events nested in rendering functions and bindings followed each other   *)
(* ("invokes the visualization's rendering function with the result",      *)
(* src/docs/events.md).  An output without rows is not rendered at all.    *)
(***************************************************************************)
OutputsCurrent ==
  Quiet => \A i \in DOMAIN bound :
             LET row == rows[Source[bound[i]]]
             IN  row.visible => shown[bound[i]] = row

(***************************************************************************)
(* shipWorkerInput runs after the outputs are rendered and ships under the *)
(* timestep of that moment, so an event during which rendering functions   *)
(* insert others is shipped under the timestep of the last of these, and   *)
(* with their rows (src/docs/events.md:37 promises "a single logical       *)
(* time").  Still no event is forgotten and none is shipped for another:   *)
(* when the main thread is free, all that the event of a timestep ships has*)
(* been given to the engines (or has no rows), under its own timestep or   *)
(* one that only nested events separate from it; and nothing but what such *)
(* an event ships is ever given to them under a timestep.                  *)
(***************************************************************************)
Interrupted(t, u) == t <= u /\ (t + 1)..u \subseteq nested

ShippedFor(t, s) ==
  \E u \in DOMAIN eventByTimestep :
    Interrupted(t, u) /\ <<u, s.relation>> \in submitted[s.destination]

ShipsTo(e, d, r) ==
  \E i \in DOMAIN ShipForEvent[e] : ShipForEvent[e][i] = [destination |-> d, relation |-> r]

ShippedWithinNesting ==
  /\ Quiet => \A t \in DOMAIN eventByTimestep :
       LET plan == ShipForEvent[eventByTimestep[t]]
       IN  \A i \in DOMAIN plan : plan[i].relation \in MayBeEmpty \/ ShippedFor(t, plan[i])
  /\ \A d \in Engine : \A x \in submitted[d] : \E t \in DOMAIN eventByTimestep :
       Interrupted(t, x[1]) /\ ShipsTo(eventByTimestep[t], d, x[2])

(***************************************************************************)
(* With the default policy an output never goes back to the answer to an   *)
(* earlier request, although answers are only ordered by their arrival.    *)
(***************************************************************************)
AnswersInOrder ==
  [][\A o \in Output : shown'[o].requestTimestep >= shown[o].requestTimestep]_allVars

(***************************************************************************)
(* End to end: once the user stops, every bound output comes to show the   *)
(* answer to the last request that concerns it, through shipping, queues,  *)
(* evaluation and the event of the answer.                                 *)
(***************************************************************************)
Requests(v) ==
  {x[1] : x \in UNION {{y \in submitted[d] :
     \E i \in DOMAIN RelationsToShip[d][eventByTimestep[y[1]]] :
       RelationsToShip[d][eventByTimestep[y[1]]][i] = v} : d \in Engine}}

EventuallyAnswered ==
  \A o \in Output :
    Source[o] \notin Input =>
      <>[](\A i \in DOMAIN bound : bound[i] = o =>
             shown[o].requestTimestep = Max({0} \cup Requests(Source[o])))

(***************************************************************************)
(* Without events inserted by rendering functions and without static       *)
(* triggers, the event loop with its outputs is the main thread of         *)
(* DbEngine, where an event ships as soon as it is inserted: rendering in  *)
(* between makes no difference to the engines.                             *)
(***************************************************************************)
Engines == INSTANCE DbEngine WITH
  sending <- IF frames # <<>> /\ frames[Len(frames)].event # NoEvent
             THEN ShipForEvent[frames[Len(frames)].event] ELSE sending

ImplementsDbEngine == Engines!Spec
=============================================================================
