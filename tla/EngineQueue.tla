----------------------------- MODULE EngineQueue -----------------------------
(***************************************************************************)
(* The client side of one remote database: the timestep queue of class     *)
(* DbEngine (src/src/runtime/DbEngine.ts) and the messages it posts on its *)
(* ConnectionWrapper.  Everything here is a function from the state of one *)
(* engine to its next state, so that modules with one engine or several,   *)
(* with or without the runtime's event loop, share one translation.        *)
(*                                                                         *)
(* The state of an engine is a record                                      *)
(*   queueMap          the Map of DbEngine: timestep -> entry              *)
(*   currentQueueHead  the timestep being worked on, or NoHead             *)
(*   batches           for each head loaded by nextQueue whose Promise.all *)
(*                     is still pending, how many replies it waits for     *)
(*   toRemote          the messages posted and not yet executed, in order  *)
(*   evaluated         history: the timesteps whose results were asked for *)
(***************************************************************************)
EXTENDS Integers, Sequences, FiniteSetsExt

\* A definition marked "Mutant" is a mistake one could make in the definition
\* that follows it; nothing uses it but the runs that show a property notices.

\* null and undefined, which `if (!this.currentQueueHead)` does not tell apart.
NoHead == 0

UpdateMsg(t, r, promise) ==
  [remoteAction |-> "UpdateRelation", requestTimestep |-> t,
   relationName |-> r, isPromise |-> promise]

ShipMsg(t, r) ==
  [remoteAction |-> "ShipRelation", requestTimestep |-> t,
   relationName |-> r, isPromise |-> TRUE]

EmptyMap == [t \in {} |-> {}]

MapSet(m, t, v) == [s \in DOMAIN m \cup {t} |-> IF s = t THEN v ELSE m[s]]

MapDelete(m, t) == [s \in DOMAIN m \ {t} |-> m[s]]

NewEngine ==
  [queueMap         |-> EmptyMap,
   currentQueueHead |-> NoHead,
   batches          |-> EmptyMap,
   toRemote         |-> <<>>,
   evaluated        |-> <<>>]

-----------------------------------------------------------------------------
\* The comparison the queue is gated by: whatever its name says, it only asks
\* that nothing of A is missing from B.
IsSetIdentical(A, B) == A \ B = {}

(***************************************************************************)
(* SendMsg(UpdateRelation): the update joins the entry of its timestep,    *)
(* which is created from the plan of the event of that timestep if there   *)
(* is none, then goes out at once if that timestep is the head of the      *)
(* queue (an idle queue takes it as its head) and waits in the entry       *)
(* otherwise.                                                              *)
(***************************************************************************)
JoinEntry(q, t, r, plan) ==
  IF t \in DOMAIN q.queueMap
  THEN [q.queueMap[t] EXCEPT !.received = @ \cup {r}]
  ELSE [deps            |-> plan.deps,
        received        |-> {r},
        receivedValues  |-> <<>>,
        relationsToShip |-> plan.relationsToShip]

\* Mutant: only the update that creates the entry is kept for later.
SendUpdateKeepsFirst(q, t, r, plan) ==
  LET entry == JoinEntry(q, t, r, plan)
      head  == IF q.currentQueueHead = NoHead THEN t ELSE q.currentQueueHead
  IN  IF t = head
      THEN [q EXCEPT !.queueMap         = MapSet(@, t, entry),
                     !.currentQueueHead = head,
                     !.toRemote         = Append(@, UpdateMsg(t, r, FALSE))]
      ELSE [q EXCEPT !.queueMap =
              MapSet(@, t, [entry EXCEPT !.receivedValues = IF @ = <<>> THEN <<r>> ELSE @])]

\* Mutant: an update never waits for its timestep to become the head.
SendUpdateAtOnce(q, t, r, plan) ==
  [q EXCEPT !.queueMap         = MapSet(@, t, JoinEntry(q, t, r, plan)),
            !.currentQueueHead = IF @ = NoHead THEN t ELSE @,
            !.toRemote         = Append(@, UpdateMsg(t, r, FALSE))]

SendUpdate(q, t, r, plan) ==
  LET entry == JoinEntry(q, t, r, plan)
      head  == IF q.currentQueueHead = NoHead THEN t ELSE q.currentQueueHead
  IN  IF t = head
      THEN [q EXCEPT !.queueMap         = MapSet(@, t, entry),
                     !.currentQueueHead = head,
                     !.toRemote         = Append(@, UpdateMsg(t, r, FALSE))]
      ELSE [q EXCEPT !.queueMap =
              MapSet(@, t, [entry EXCEPT !.receivedValues = Append(@, r)])]

(***************************************************************************)
(* nextQueue: drop the head, make the lowest remaining timestep the head,  *)
(* and post the updates that waited in its entry, each with a promise.     *)
(***************************************************************************)
\* Mutant: the latest timestep comes next.
NextQueueLatest(q) ==
  LET rest == MapDelete(q.queueMap, q.currentQueueHead)
      head == Max(DOMAIN rest)
  IN  IF DOMAIN rest = {}
      THEN [q EXCEPT !.queueMap = rest, !.currentQueueHead = NoHead]
      ELSE LET values == rest[head].receivedValues
           IN  [q EXCEPT
                  !.queueMap         = rest,
                  !.currentQueueHead = head,
                  !.toRemote         = @ \o [i \in 1..Len(values) |->
                                               UpdateMsg(head, values[i], TRUE)],
                  !.batches          = MapSet(@, head, Len(values))]

\* Mutant: the next entry becomes the head, and its updates stay in it.
NextQueueUnloaded(q) ==
  LET rest == MapDelete(q.queueMap, q.currentQueueHead)
  IN  [q EXCEPT !.queueMap         = rest,
                !.currentQueueHead = IF DOMAIN rest = {} THEN NoHead ELSE Min(DOMAIN rest)]

\* Mutant: the entry that has been evaluated stays in the queue.
NextQueueKeeps(q) ==
  [q EXCEPT !.currentQueueHead = IF DOMAIN q.queueMap = {} THEN NoHead ELSE Min(DOMAIN q.queueMap)]

\* Mutant: an engine whose queue has become empty does not become idle.
NextQueueStops(q) ==
  LET rest == MapDelete(q.queueMap, q.currentQueueHead)
  IN  IF DOMAIN rest = {}
      THEN [q EXCEPT !.queueMap = rest]
      ELSE LET head   == Min(DOMAIN rest)
               values == rest[head].receivedValues
           IN  [q EXCEPT
                  !.queueMap         = rest,
                  !.currentQueueHead = head,
                  !.toRemote         = @ \o [i \in 1..Len(values) |->
                                               UpdateMsg(head, values[i], TRUE)],
                  !.batches          = MapSet(@, head, Len(values))]

NextQueue(q) ==
  LET rest == MapDelete(q.queueMap, q.currentQueueHead)
  IN  IF DOMAIN rest = {}
      THEN [q EXCEPT !.queueMap = rest, !.currentQueueHead = NoHead]
      ELSE LET head   == Min(DOMAIN rest)
               values == rest[head].receivedValues
           IN  [q EXCEPT
                  !.queueMap         = rest,
                  !.currentQueueHead = head,
                  !.toRemote         = @ \o [i \in 1..Len(values) |->
                                               UpdateMsg(head, values[i], TRUE)],
                  !.batches          = MapSet(@, head, Len(values))]

(***************************************************************************)
(* evaluateQueueOnUpdateHandler: find the head if there is none; if        *)
(* nothing it received is foreign to its dependencies, ask for every       *)
(* relation to ship and move on to the next entry.  A head without an entry*)
(* is an internal error, which is logged.                                  *)
(***************************************************************************)
Evaluate(q) ==
  LET head == IF q.currentQueueHead = NoHead /\ DOMAIN q.queueMap # {}
              THEN Min(DOMAIN q.queueMap) ELSE q.currentQueueHead
      item == q.queueMap[head]
      ship == item.relationsToShip
  IN  CASE head \notin DOMAIN q.queueMap -> q
        [] head \in DOMAIN q.queueMap /\ ~IsSetIdentical(item.received, item.deps) ->
             [q EXCEPT !.currentQueueHead = head]
        [] head \in DOMAIN q.queueMap /\ IsSetIdentical(item.received, item.deps) ->
             NextQueue([q EXCEPT
               !.currentQueueHead = head,
               !.toRemote  = @ \o [i \in 1..Len(ship) |-> ShipMsg(head, ship[i])],
               !.evaluated = Append(@, head)])

(***************************************************************************)
(* The reply to an update: ConnectionWrapper settles the message's promise *)
(* and then calls the engine's handler, which evaluates the queue.  A      *)
(* promise that completes the Promise.all of nextQueue makes nextQueue     *)
(* evaluate the queue too: its continuation takes more microtasks than the *)
(* handler's evaluation and none of another reply, so it comes second in   *)
(* the same step.  A rejected promise rejects the Promise.all for good,    *)
(* while the handler evaluates all the same.                               *)
(***************************************************************************)
\* Mutant: the count runs down to zero.
SettlePromiseToZero(q, m, failed) ==
  LET t == m.requestTimestep
  IN  IF m.isPromise /\ t \in DOMAIN q.batches
      THEN IF failed \/ q.batches[t] = 0
           THEN [q EXCEPT !.batches = MapDelete(@, t)]
           ELSE [q EXCEPT !.batches[t] = @ - 1]
      ELSE q

SettlePromise(q, m, failed) ==
  LET t == m.requestTimestep
  IN  IF m.isPromise /\ t \in DOMAIN q.batches
      THEN IF failed \/ q.batches[t] = 1
           THEN [q EXCEPT !.batches = MapDelete(@, t)]
           ELSE [q EXCEPT !.batches[t] = @ - 1]
      ELSE q

CompletesBatch(q, m, failed) ==
  /\ m.isPromise
  /\ ~failed
  /\ m.requestTimestep \in DOMAIN q.batches
  /\ q.batches[m.requestTimestep] = 1

\* Mutant: only an update that succeeded sets off an evaluation.
HandleSuccessOnly(q, m, failed) ==
  IF failed THEN SettlePromise(q, m, failed) ELSE Evaluate(SettlePromise(q, m, failed))

HandleUpdateReply(q, m, failed) ==
  LET evaluated == Evaluate(SettlePromise(q, m, failed))
  IN  IF CompletesBatch(q, m, failed) THEN Evaluate(evaluated) ELSE evaluated
=============================================================================
