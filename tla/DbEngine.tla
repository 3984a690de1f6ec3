------------------------------- MODULE DbEngine -------------------------------
(***************************************************************************)
(* The engines of a DIEL runtime at work: the main thread takes events and *)
(* ships what they need to the remote databases (DielRuntime.newInputHelper*)
(* and shipWorkerInput), each engine queues and evaluates (EngineQueue),   *)
(* and the results come back as new events (NewInputMany).  The remote     *)
(* databases themselves and the channels to them (a Worker or a WebSocket, *)
(* both FIFO) are external: a database executes one message at a time.     *)
(*                                                                         *)
(* What the compiler planned enters as constants: which relations an event *)
(* ships where, what an engine waits for and what it ships back.  A row is *)
(* abstracted to the timestep of the event that wrote it.                  *)
(***************************************************************************)
EXTENDS EngineQueue

CONSTANTS
  Engine,           \* the remote databases
  Relation,         \* names of relations kept in a remote database
  Event,            \* event tables and event views: what a timestep can be about
  Input,            \* the events the user interface inserts
  ShipForEvent,     \* [Event -> Seq([destination: Engine, relation: Relation])]
  Deps,             \* [Engine -> [Event -> SUBSET Relation]]
  RelationsToShip,  \* [Engine -> [Event -> Seq(Event)]], to the main database
  MayBeEmpty,       \* relations whose query can return no row
  MaxInputs,        \* bound on the user's events
  MaxErrors,        \* bound on the messages a remote database fails to execute
  MaxLosses         \* bound on the connections that go away

ASSUME PlanAssumption ==
  /\ Input \subseteq Event
  /\ Event \subseteq Relation
  /\ MayBeEmpty \subseteq Relation
  /\ ShipForEvent \in [Event -> Seq([destination: Engine, relation: Relation])]
  /\ Deps \in [Engine -> [Event -> SUBSET Relation]]
  /\ RelationsToShip \in [Engine -> [Event -> Seq(Event)]]

ASSUME BoundAssumption ==
  MaxInputs \in Nat /\ MaxErrors \in Nat /\ MaxLosses \in Nat

VARIABLES
  timestep,         \* DielRuntime.timestep
  eventByTimestep,  \* DielRuntime.eventByTimestep
  sending,          \* what shipWorkerInput still has to send in this macrotask
  engine,           \* the client side of each engine, see EngineQueue
  connected,        \* is the connection to the engine alive?
  remote,           \* for each engine and relation, the timestep of its content
  toClient,         \* replies on their way to the engine's handler, in order
  inputs, errors,   \* how often the bounds have been used
  submitted,        \* history: the updates given to each engine
  delivered         \* history: the results given to relationShippingCallback

mainVars    == <<timestep, eventByTimestep, sending>>
remoteVars  == <<connected, remote, toClient>>
boundVars   == <<inputs, errors>>
historyVars == <<submitted, delivered>>
vars == <<mainVars, engine, remoteVars, boundVars, historyVars>>

INIT_TIMESTEP == 1

Init ==
  /\ timestep = INIT_TIMESTEP
  /\ eventByTimestep = EmptyMap
  /\ sending = <<>>
  /\ engine = [d \in Engine |-> NewEngine]
  /\ connected = [d \in Engine |-> TRUE]
  /\ remote = [d \in Engine |-> [r \in Relation |-> 0]]
  /\ toClient = [d \in Engine |-> <<>>]
  /\ inputs = 0
  /\ errors = 0
  /\ submitted = [d \in Engine |-> {}]
  /\ delivered = [d \in Engine |-> {}]

-----------------------------------------------------------------------------
(***************************************************************************)
(* The main thread.  A JavaScript macrotask runs to completion: no reply   *)
(* and no user event is handled while shipWorkerInput is sending.          *)
(***************************************************************************)
Idle == sending = <<>>

\* newInputHelper: a new timestep for event e, and what e has to ship.
StartTick(e) ==
  /\ timestep' = timestep + 1
  /\ eventByTimestep' = MapSet(eventByTimestep, timestep + 1, e)
  /\ sending' = ShipForEvent[e]

NewInput(e) ==
  /\ Idle
  /\ inputs < MaxInputs
  /\ StartTick(e)
  /\ inputs' = inputs + 1
  /\ UNCHANGED <<engine, remoteVars, errors, historyVars>>

Plan(d, t) ==
  [deps            |-> Deps[d][eventByTimestep[t]],
   relationsToShip |-> RelationsToShip[d][eventByTimestep[t]]]

\* One turn of shipWorkerInput's loop: the relation's rows go to SendMsg.
ShipWorkerInput ==
  /\ sending # <<>>
  /\ LET d == Head(sending).destination
         r == Head(sending).relation
     IN  /\ engine' = [engine EXCEPT ![d] =
                         SendUpdate(@, timestep, r, Plan(d, timestep))]
         /\ submitted' = [submitted EXCEPT ![d] = @ \cup {<<timestep, r>>}]
  /\ sending' = Tail(sending)
  /\ UNCHANGED <<timestep, eventByTimestep, remoteVars, boundVars, delivered>>

\* The other turn: the query for the relation has no result, and it is skipped.
SkipEmptyRelation ==
  /\ sending # <<>>
  /\ Head(sending).relation \in MayBeEmpty
  /\ sending' = Tail(sending)
  /\ UNCHANGED <<timestep, eventByTimestep, engine, remoteVars, boundVars, historyVars>>

-----------------------------------------------------------------------------
(***************************************************************************)
(* The remote databases (external).                                        *)
(***************************************************************************)
NoResults == EmptyMap

Reply(m, err, results, rows) ==
  [msg |-> m, err |-> err, results |-> results, rows |-> rows]

\* The next message of d is executed with the given reply and content.
Execute(d, reply, content) ==
  /\ engine' = [engine EXCEPT ![d].toRemote = Tail(@)]
  /\ toClient' = [toClient EXCEPT ![d] = Append(@, reply)]
  /\ remote' = [remote EXCEPT ![d] = content]
  /\ UNCHANGED <<mainVars, connected, inputs, historyVars>>

CanExecute(d) == connected[d] /\ engine[d].toRemote # <<>>

\* DELETE from r; INSERT INTO r VALUES ...
ExecuteUpdate(d) ==
  /\ CanExecute(d)
  /\ LET m == Head(engine[d].toRemote)
     IN  /\ m.remoteAction = "UpdateRelation"
         /\ Execute(d, Reply(m, FALSE, NoResults, FALSE),
                    [remote[d] EXCEPT ![m.relationName] = m.requestTimestep])
  /\ UNCHANGED errors

\* select * from r
ExecuteShip(d) ==
  /\ CanExecute(d)
  /\ LET m == Head(engine[d].toRemote)
     IN  /\ m.remoteAction = "ShipRelation"
         /\ \E rows \in BOOLEAN :
              /\ rows \/ m.relationName \in MayBeEmpty
              /\ Execute(d, Reply(m, FALSE, remote[d], rows), remote[d])
  /\ UNCHANGED errors

\* The database reports an error; an update's DELETE may already have run.
ExecuteFails(d) ==
  /\ CanExecute(d)
  /\ errors < MaxErrors
  /\ errors' = errors + 1
  /\ LET m       == Head(engine[d].toRemote)
         emptied == [remote[d] EXCEPT ![m.relationName] = 0]
     IN  \E content \in {remote[d]} \cup
                        (IF m.remoteAction = "UpdateRelation" THEN {emptied} ELSE {}) :
           Execute(d, Reply(m, TRUE, NoResults, FALSE), content)

\* The connection goes away with whatever has not reached the client.
LoseConnection(d) ==
  /\ connected[d]
  /\ Cardinality({x \in Engine : ~connected[x]}) < MaxLosses
  /\ connected' = [connected EXCEPT ![d] = FALSE]
  /\ \E n \in 0..Len(toClient[d]) :
       toClient' = [toClient EXCEPT ![d] = SubSeq(@, 1, n)]
  /\ UNCHANGED <<mainVars, engine, remote, boundVars, historyVars>>

-----------------------------------------------------------------------------
(***************************************************************************)
(* The engine's handler (getHandleMsgForRemote), one reply at a time.      *)
(***************************************************************************)
CanHandle(d) == Idle /\ toClient[d] # <<>>

TakeReply(d) == toClient' = [toClient EXCEPT ![d] = Tail(@)]

HandleUpdate(d) ==
  /\ CanHandle(d)
  /\ LET reply == Head(toClient[d])
     IN  /\ reply.msg.remoteAction = "UpdateRelation"
         /\ engine' = [engine EXCEPT ![d] = HandleUpdateReply(@, reply.msg, reply.err)]
  /\ TakeReply(d)
  /\ UNCHANGED <<mainVars, connected, remote, boundVars, historyVars>>

\* Rows come back as a new event of the view they belong to.
HandleShip(d) ==
  /\ CanHandle(d)
  /\ LET reply == Head(toClient[d])
     IN  /\ reply.msg.remoteAction = "ShipRelation"
         /\ ~reply.err /\ reply.rows
         /\ StartTick(reply.msg.relationName)
         /\ delivered' = [delivered EXCEPT ![d] = @ \cup
              {[requestTimestep |-> reply.msg.requestTimestep,
                view            |-> reply.msg.relationName,
                results         |-> reply.results]}]
  /\ TakeReply(d)
  /\ UNCHANGED <<engine, connected, remote, boundVars, submitted>>

\* A result without rows, or an error, goes no further.
DropShip(d) ==
  /\ CanHandle(d)
  /\ LET reply == Head(toClient[d])
     IN  /\ reply.msg.remoteAction = "ShipRelation"
         /\ reply.err \/ ~reply.rows
  /\ TakeReply(d)
  /\ UNCHANGED <<mainVars, engine, connected, remote, boundVars, historyVars>>

Handle(d) == HandleUpdate(d) \/ HandleShip(d) \/ DropShip(d)

-----------------------------------------------------------------------------
MainNext   == (\E e \in Input : NewInput(e)) \/ ShipWorkerInput \/ SkipEmptyRelation
RemoteNext == \E d \in Engine : ExecuteUpdate(d) \/ ExecuteShip(d)
FaultNext  == \E d \in Engine : ExecuteFails(d) \/ LoseConnection(d)
HandleNext == \E d \in Engine : Handle(d)

Next == MainNext \/ RemoteNext \/ FaultNext \/ HandleNext

\* The event loop keeps running its tasks and a connected database keeps
\* executing; nobody promises that the user acts, or that anything fails.
Fairness ==
  /\ WF_vars(ShipWorkerInput \/ SkipEmptyRelation)
  /\ \A d \in Engine : /\ WF_vars(ExecuteUpdate(d) \/ ExecuteShip(d) \/ ExecuteFails(d))
                       /\ WF_vars(Handle(d))

Spec     == Init /\ [][Next]_vars
FairSpec == Spec /\ Fairness
-----------------------------------------------------------------------------
(***************************************************************************)
(* Properties.                                                             *)
(***************************************************************************)
Shipment == [destination : Engine, relation : Relation]

Message ==
  [remoteAction : {"UpdateRelation"}, requestTimestep : Nat,
   relationName : Relation, isPromise : BOOLEAN] \cup
  [remoteAction : {"ShipRelation"}, requestTimestep : Nat,
   relationName : Event, isPromise : BOOLEAN]

Content == {NoResults} \cup [Relation -> Nat]

Answered == [msg : Message, err : BOOLEAN, results : Content, rows : BOOLEAN]

Entry ==
  [deps : SUBSET Relation, received : SUBSET Relation,
   receivedValues : Seq(Relation), relationsToShip : Seq(Event)]

IsMap(m, S) == DOMAIN m \subseteq Nat \ {NoHead} /\ m \in [DOMAIN m -> S]

IsEngine(q) ==
  /\ q = [queueMap |-> q.queueMap, currentQueueHead |-> q.currentQueueHead,
          batches |-> q.batches, toRemote |-> q.toRemote, evaluated |-> q.evaluated]
  /\ IsMap(q.queueMap, Entry)
  /\ q.currentQueueHead \in Nat
  /\ IsMap(q.batches, Nat \ {0})
  /\ q.toRemote \in Seq(Message)
  /\ q.evaluated \in Seq(Nat)

TypeOK ==
  /\ timestep \in Nat \ {NoHead}
  /\ IsMap(eventByTimestep, Event)
  /\ sending \in Seq(Shipment)
  /\ DOMAIN engine = Engine /\ \A d \in Engine : IsEngine(engine[d])
  /\ connected \in [Engine -> BOOLEAN]
  /\ remote \in [Engine -> [Relation -> Nat]]
  /\ toClient \in [Engine -> Seq(Answered)]
  /\ inputs \in 0..MaxInputs
  /\ errors \in 0..MaxErrors
  /\ submitted \in [Engine -> SUBSET (Nat \X Relation)]
  /\ delivered \in
       [Engine -> SUBSET [requestTimestep : Nat, view : Event, results : Content]]

(***************************************************************************)
(* The head of a non-empty queue is the lowest timestep in it, and there   *)
(* is a head exactly when there is an entry: an engine never works ahead   *)
(* of an older timestep and never looks for an entry that is gone.         *)
(***************************************************************************)
LowestHead(q) ==
  IF q.currentQueueHead = NoHead
  THEN DOMAIN q.queueMap = {}
  ELSE /\ q.currentQueueHead \in DOMAIN q.queueMap
       /\ \A t \in DOMAIN q.queueMap : q.currentQueueHead <= t

HeadIsLowest == \A d \in Engine : LowestHead(engine[d])

(***************************************************************************)
(* The timesteps of an engine are evaluated in order, each at most once,   *)
(* and none is skipped over: what waits is later than what was evaluated.  *)
(***************************************************************************)
InOrder(q) ==
  /\ \A i, j \in DOMAIN q.evaluated : i < j => q.evaluated[i] < q.evaluated[j]
  /\ \A i \in DOMAIN q.evaluated, t \in DOMAIN q.queueMap : q.evaluated[i] < t

EvaluatedInOrder == \A d \in Engine : InOrder(engine[d])

(***************************************************************************)
(* What an entry holds back is what it received: an update is either posted*)
(* (its timestep is the head) or waits in receivedValues, never both.      *)
(***************************************************************************)
WaitingComplete(q) ==
  \A t \in DOMAIN q.queueMap :
    LET e == q.queueMap[t]
    IN  /\ e.received # {}
        /\ t # q.currentQueueHead =>
             {e.receivedValues[i] : i \in DOMAIN e.receivedValues} = e.received

WaitingValuesComplete == \A d \in Engine : WaitingComplete(engine[d])

(***************************************************************************)
(* Isolation.  The rows an engine ships for timestep t are computed from   *)
(* every update it was given up to t and from none after t, although the   *)
(* updates of several timesteps are on their way at the same time and an   *)
(* evaluation is set off by the reply to any of them.  (Once a database has*)
(* failed to execute an update, the rows of that relation are missing.)    *)
(***************************************************************************)
LastSubmitted(d, r, t) ==
  Max({0} \cup {x[1] : x \in {y \in submitted[d] : y[2] = r /\ y[1] <= t}})

SnapshotAtTimestep ==
  errors = 0 => \A d \in Engine : \A x \in delivered[d] : \A r \in Relation :
    x.results[r] = LastSubmitted(d, r, x.requestTimestep)

(***************************************************************************)
(* No lost wake-up.  An entry is only looked at when some update is        *)
(* replied to, so as long as an engine has work it could do, the reply to  *)
(* an update must be on its way.                                           *)
(***************************************************************************)
IsUpdate(m) == m.remoteAction = "UpdateRelation"

Blocked(q) ==
  LET item == q.queueMap[q.currentQueueHead]
  IN  ~IsSetIdentical(item.received, item.deps)

WakeUpPending ==
  \A d \in Engine :
    LET q == engine[d]
    IN  (DOMAIN q.queueMap # {} /\ ~Blocked(q) /\ connected[d]) =>
          \/ \E i \in DOMAIN q.toRemote : IsUpdate(q.toRemote[i])
          \/ \E i \in DOMAIN toClient[d] : IsUpdate(toClient[d][i].msg)

(***************************************************************************)
(* The queue of an engine whose connection stays up is empty again and     *)
(* again: neither a failed update nor an entry loaded while the replies to *)
(* the previous one are still coming in leaves it stuck.                   *)
(***************************************************************************)
QueueDrains ==
  \A d \in Engine :
    []<>(~connected[d] \/ DOMAIN engine[d].queueMap = {})

(***************************************************************************)
(* The engines implement serial databases: pipelined updates, replies that *)
(* set off evaluations of other timesteps, and reloads by nextQueue are    *)
(* invisible in what is taken up and answered.                             *)
(***************************************************************************)
Serial == INSTANCE SerialEngine WITH
  now      <- timestep,
  given    <- submitted,
  waiting  <- [d \in Engine |-> DOMAIN engine[d].queueMap],
  taken    <- [d \in Engine |-> engine[d].evaluated],
  answered <- delivered

ImplementsSerialEngine == Serial!Spec
=============================================================================
