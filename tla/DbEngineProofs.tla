---------------------------- MODULE DbEngineProofs ----------------------------
(***************************************************************************)
(* Theorems about DbEngine, for every set of engines, every plan and every *)
(* bound: the types are right, the head of a queue is its lowest timestep  *)
(* and the timesteps of an engine are evaluated in order, each once.  In   *)
(* its second part isolation and progress: the rows that are shipped for a *)
(* timestep are those of that timestep, an engine with work to do has a    *)
(* reply coming, and every step of the engines is one of the serial        *)
(* databases of SerialEngine.                                              *)
(***************************************************************************)
EXTENDS DbEngine, WellFoundedInduction, SequenceTheorems, FiniteSetTheorems, TLAPS

-----------------------------------------------------------------------------
(***************************************************************************)
(* Maps and minima.                                                        *)
(***************************************************************************)

\* The lowest timestep of a non-empty set of timesteps exists.
LEMMA MinOfNat ==
  ASSUME NEW S \in SUBSET Nat, S # {}
  PROVE  Min(S) \in S /\ \A x \in S : Min(S) <= x
<1> DEFINE Less == {ss \in Nat \X Nat : ss[1] < ss[2]}
<1>1. IsWellFoundedOn(Less, Nat)
  BY NatLessThanWellFounded DEF OpToRel
<1>2. PICK x \in S : \A y \in S : <<y, x>> \notin Less
  <2> HIDE DEF Less
  <2> QED  BY <1>1, WFMin
<1>3. ASSUME NEW y \in S
      PROVE  x <= y
  <2>1. ~(y < x)
    BY <1>2
  <2> QED  BY <2>1
<1> QED  BY <1>3 DEF Min

LEMMA MapSetType ==
  ASSUME NEW S, NEW m, IsMap(m, S), NEW t \in Nat \ {NoHead}, NEW v \in S
  PROVE  IsMap(MapSet(m, t, v), S)
BY DEF IsMap, MapSet

LEMMA MapDeleteType ==
  ASSUME NEW S, NEW m, IsMap(m, S), NEW t
  PROVE  IsMap(MapDelete(m, t), S)
BY DEF IsMap, MapDelete

LEMMA EmptyMapType ==
  ASSUME NEW S
  PROVE  IsMap(EmptyMap, S)
BY DEF IsMap, EmptyMap
-----------------------------------------------------------------------------
(***************************************************************************)
(* Types of the operations on one engine.                                  *)
(***************************************************************************)
LEMMA NewEngineType == IsEngine(NewEngine)
BY EmptyMapType DEF IsEngine, NewEngine, NoHead

LEMMA UpdateMsgType ==
  ASSUME NEW t \in Nat, NEW r \in Relation, NEW p \in BOOLEAN
  PROVE  UpdateMsg(t, r, p) \in Message
BY DEF UpdateMsg, Message

LEMMA ShipMsgType ==
  ASSUME NEW t \in Nat, NEW r \in Event
  PROVE  ShipMsg(t, r) \in Message
BY DEF ShipMsg, Message

\* A function on 1..n is a sequence.
LEMMA FunctionIsSeq ==
  ASSUME NEW S, NEW n \in Nat, NEW f \in [1..n -> S]
  PROVE  f \in Seq(S)
OBVIOUS

LEMMA SendUpdateType ==
  ASSUME NEW q, IsEngine(q), NEW t \in Nat \ {NoHead}, NEW r \in Relation,
         NEW plan, plan.deps \in SUBSET Relation, plan.relationsToShip \in Seq(Event)
  PROVE  IsEngine(SendUpdate(q, t, r, plan))
<1> DEFINE entry == JoinEntry(q, t, r, plan)
           later == [entry EXCEPT !.receivedValues = Append(@, r)]
           head  == IF q.currentQueueHead = NoHead THEN t ELSE q.currentQueueHead
<1>1. entry \in Entry
  <2>1. CASE t \in DOMAIN q.queueMap
    <3>1. q.queueMap[t] \in Entry
      BY <2>1 DEF IsEngine, IsMap
    <3> QED  BY <2>1, <3>1 DEF JoinEntry, Entry
  <2>2. CASE t \notin DOMAIN q.queueMap
    <3>1. <<>> \in Seq(Relation)
      OBVIOUS
    <3> QED  BY <2>2, <3>1 DEF JoinEntry, Entry
  <2> QED  BY <2>1, <2>2
<1>2. later \in Entry
  <2> HIDE DEF entry
  <2>1. entry.receivedValues \in Seq(Relation)
    BY <1>1 DEF Entry
  <2>2. Append(entry.receivedValues, r) \in Seq(Relation)
    BY <2>1
  <2> QED  BY <1>1, <2>2 DEF Entry
<1>3. CASE t = head
  <2>1. IsMap(MapSet(q.queueMap, t, entry), Entry)
    BY <1>1, MapSetType DEF IsEngine
  <2>2. Append(q.toRemote, UpdateMsg(t, r, FALSE)) \in Seq(Message)
    <3>1. q.toRemote \in Seq(Message)
      BY DEF IsEngine
    <3>2. UpdateMsg(t, r, FALSE) \in Message
      BY UpdateMsgType
    <3> QED  BY <3>1, <3>2, AppendProperties
  <2> HIDE DEF entry
  <2> QED  BY <1>3, <2>1, <2>2 DEF SendUpdate, IsEngine, entry
<1>4. CASE t # head
  <2>1. IsMap(MapSet(q.queueMap, t, later), Entry)
    BY <1>2, MapSetType DEF IsEngine
  <2> QED  BY <1>4, <2>1 DEF SendUpdate, IsEngine
<1> QED  BY <1>3, <1>4

LEMMA NextQueueType ==
  ASSUME NEW q, IsEngine(q), WaitingComplete(q)
  PROVE  IsEngine(NextQueue(q))
<1> DEFINE rest   == MapDelete(q.queueMap, q.currentQueueHead)
           head   == Min(DOMAIN rest)
           values == rest[head].receivedValues
           loaded == [i \in 1..Len(values) |-> UpdateMsg(head, values[i], TRUE)]
<1>1. IsMap(rest, Entry)
  BY MapDeleteType DEF IsEngine
<1>2. CASE DOMAIN rest = {}
  BY <1>1, <1>2 DEF NextQueue, IsEngine, NoHead
<1>3. CASE DOMAIN rest # {}
  <2>1. head \in DOMAIN rest /\ head \in Nat \ {NoHead}
    BY <1>1, <1>3, MinOfNat DEF IsMap
  <2>2. values \in Seq(Relation)
    BY <1>1, <2>1 DEF IsMap, Entry
  <2>3. loaded \in Seq(Message)
    <3> HIDE DEF values, head
    <3>1. ASSUME NEW i \in 1..Len(values)
          PROVE  UpdateMsg(head, values[i], TRUE) \in Message
      <4>1. values[i] \in Relation /\ head \in Nat /\ TRUE \in BOOLEAN
        BY <2>1, <2>2, ElementOfSeq
      <4> QED  BY <4>1, UpdateMsgType
    <3>2. Len(values) \in Nat
      BY <2>2
    <3> QED  BY <3>1, <3>2, FunctionIsSeq
  <2>4. q.toRemote \o loaded \in Seq(Message)
    <3> HIDE DEF loaded
    <3>1. q.toRemote \in Seq(Message)
      BY DEF IsEngine
    <3> QED  BY <3>1, <2>3, ConcatProperties
  <2>5. Len(values) \in Nat \ {0}
    <3>1. head \in DOMAIN q.queueMap /\ head # q.currentQueueHead
          /\ rest[head] = q.queueMap[head]
      <4> HIDE DEF head
      <4> QED  BY <2>1 DEF MapDelete
    <3>2. q.queueMap[head].received # {}
          /\ {values[i] : i \in DOMAIN values} = q.queueMap[head].received
      <4> HIDE DEF head
      <4> QED  BY <3>1 DEF WaitingComplete
    <3>3. DOMAIN values # {}
      BY <3>2
    <3> QED  BY <2>2, <3>3
  <2>6. IsMap(MapSet(q.batches, head, Len(values)), Nat \ {0})
    <3> HIDE DEF head, values
    <3>1. IsMap(q.batches, Nat \ {0})
      BY DEF IsEngine
    <3> QED  BY <2>1, <2>5, <3>1, MapSetType
  <2> HIDE DEF rest, head
  <2> QED  BY <1>1, <1>3, <2>1, <2>4, <2>6 DEF NextQueue, IsEngine, rest, head
<1> QED  BY <1>2, <1>3

\* The state in which evaluateQueueOnUpdateHandler calls nextQueue.
Shipped(q, head) ==
  LET ship == q.queueMap[head].relationsToShip
  IN  [q EXCEPT
         !.currentQueueHead = head,
         !.toRemote  = @ \o [i \in 1..Len(ship) |-> ShipMsg(head, ship[i])],
         !.evaluated = Append(@, head)]

HeadOf(q) ==
  IF q.currentQueueHead = NoHead /\ DOMAIN q.queueMap # {}
  THEN Min(DOMAIN q.queueMap) ELSE q.currentQueueHead

\* What an evaluation does: nothing, settle the head, or ship and go on.
LEMMA EvaluateCases ==
  ASSUME NEW q
  PROVE  \/ Evaluate(q) = q
         \/ /\ ~(q.currentQueueHead = NoHead /\ DOMAIN q.queueMap = {})
            /\ \/ Evaluate(q) = [q EXCEPT !.currentQueueHead = HeadOf(q)]
               \/ Evaluate(q) = NextQueue(Shipped(q, HeadOf(q)))
BY DEF Evaluate, Shipped, HeadOf

LEMMA HeadOfIsEntry ==
  ASSUME NEW q, IsEngine(q), LowestHead(q),
         ~(q.currentQueueHead = NoHead /\ DOMAIN q.queueMap = {})
  PROVE  HeadOf(q) = q.currentQueueHead /\ HeadOf(q) \in DOMAIN q.queueMap
BY DEF HeadOf, LowestHead

LEMMA ShippedType ==
  ASSUME NEW q, IsEngine(q), NEW head \in DOMAIN q.queueMap
  PROVE  IsEngine(Shipped(q, head))
<1> DEFINE ship == q.queueMap[head].relationsToShip
           msgs == [i \in 1..Len(ship) |-> ShipMsg(head, ship[i])]
<1>1. head \in Nat \ {NoHead} /\ q.queueMap[head] \in Entry
  BY DEF IsEngine, IsMap
<1>2. ship \in Seq(Event)
  BY <1>1 DEF Entry
<1>3. msgs \in Seq(Message)
  <2> HIDE DEF ship
  <2>1. ASSUME NEW i \in 1..Len(ship)
        PROVE  ShipMsg(head, ship[i]) \in Message
    <3>1. ship[i] \in Event
      BY <1>2, ElementOfSeq
    <3> QED  BY <1>1, <3>1, ShipMsgType
  <2>2. Len(ship) \in Nat
    BY <1>2
  <2> QED  BY <2>1, <2>2, FunctionIsSeq
<1>4. q.toRemote \o msgs \in Seq(Message)
  <2> HIDE DEF msgs
  <2>1. q.toRemote \in Seq(Message)
    BY DEF IsEngine
  <2> QED  BY <2>1, <1>3, ConcatProperties
<1>5. Append(q.evaluated, head) \in Seq(Nat)
  BY <1>1, AppendProperties DEF IsEngine
<1>6. Shipped(q, head) = [q EXCEPT !.currentQueueHead = head,
                                   !.toRemote = q.toRemote \o msgs,
                                   !.evaluated = Append(q.evaluated, head)]
  BY DEF Shipped
<1> HIDE DEF msgs
<1> QED  BY <1>1, <1>4, <1>5, <1>6 DEF IsEngine

\* Shipping leaves the queue as it is: its head is about to be dropped.
LEMMA ShippedWaiting ==
  ASSUME NEW q, IsEngine(q), WaitingComplete(q), NEW head, head = q.currentQueueHead
  PROVE  WaitingComplete(Shipped(q, head))
BY DEF Shipped, IsEngine, WaitingComplete

LEMMA EvaluateType ==
  ASSUME NEW q, IsEngine(q), LowestHead(q), WaitingComplete(q)
  PROVE  IsEngine(Evaluate(q))
<1>1. CASE Evaluate(q) = q
  BY <1>1
<1>2. CASE Evaluate(q) # q
  <2>1. HeadOf(q) = q.currentQueueHead /\ HeadOf(q) \in DOMAIN q.queueMap
    BY <1>2, EvaluateCases, HeadOfIsEntry
  <2>2. IsEngine([q EXCEPT !.currentQueueHead = HeadOf(q)])
    BY <2>1 DEF IsEngine
  <2>3. IsEngine(NextQueue(Shipped(q, HeadOf(q))))
    BY <2>1, ShippedType, ShippedWaiting, NextQueueType
  <2> QED  BY <1>2, <2>2, <2>3, EvaluateCases
<1> QED  BY <1>1, <1>2

LEMMA SettlePromiseType ==
  ASSUME NEW q, IsEngine(q), NEW m, NEW failed \in BOOLEAN,
         m.requestTimestep \in Nat, m.isPromise \in BOOLEAN
  PROVE  /\ IsEngine(SettlePromise(q, m, failed))
         /\ SettlePromise(q, m, failed).queueMap = q.queueMap
         /\ SettlePromise(q, m, failed).currentQueueHead = q.currentQueueHead
         /\ SettlePromise(q, m, failed).evaluated = q.evaluated
<1> DEFINE t == m.requestTimestep
<1>1. CASE m.isPromise /\ t \in DOMAIN q.batches /\ (failed \/ q.batches[t] = 1)
  <2>1. IsMap(MapDelete(q.batches, t), Nat \ {0})
    BY MapDeleteType DEF IsEngine
  <2> QED  BY <1>1, <2>1 DEF SettlePromise, IsEngine
<1>2. CASE m.isPromise /\ t \in DOMAIN q.batches /\ ~(failed \/ q.batches[t] = 1)
  <2>1. IsMap([q.batches EXCEPT ![t] = @ - 1], Nat \ {0})
    <3>1. q.batches[t] \in Nat \ {0, 1}
      BY <1>2 DEF IsEngine, IsMap
    <3> QED  BY <1>2, <3>1 DEF IsEngine, IsMap
  <2> QED  BY <1>2, <2>1 DEF SettlePromise, IsEngine
<1>3. CASE ~(m.isPromise /\ t \in DOMAIN q.batches)
  BY <1>3 DEF SettlePromise
<1> QED  BY <1>1, <1>2, <1>3

-----------------------------------------------------------------------------
(***************************************************************************)
(* What holds of a queue between two steps, as of the logical clock `now`. *)
(* The bounds by `now` are the strengthening: the update of a new timestep *)
(* goes to the end of the queue because nothing in it is later.            *)
(***************************************************************************)
UpTo(q, now) ==
  /\ \A t \in DOMAIN q.queueMap : t <= now
  /\ \A i \in DOMAIN q.evaluated : q.evaluated[i] <= now

QueueOK(q, now) ==
  /\ LowestHead(q)
  /\ InOrder(q)
  /\ WaitingComplete(q)
  /\ UpTo(q, now)

LEMMA NewEngineOK ==
  ASSUME NEW now \in Nat
  PROVE  QueueOK(NewEngine, now)
BY DEF QueueOK, NewEngine, EmptyMap, NoHead, LowestHead, InOrder, WaitingComplete, UpTo

\* Time passes.
LEMMA LaterOK ==
  ASSUME NEW q, IsEngine(q), NEW now \in Nat, QueueOK(q, now)
  PROVE  QueueOK(q, now + 1)
<1>1. /\ \A t \in DOMAIN q.queueMap : t \in Nat
      /\ \A i \in DOMAIN q.evaluated : q.evaluated[i] \in Nat
  BY ElementOfSeq DEF IsEngine, IsMap
<1> QED  BY <1>1 DEF QueueOK, UpTo

\* Only the four fields but toRemote and batches matter.
LEMMA SameQueueOK ==
  ASSUME NEW q, NEW p, NEW now, QueueOK(q, now),
         p.queueMap = q.queueMap, p.currentQueueHead = q.currentQueueHead,
         p.evaluated = q.evaluated
  PROVE  QueueOK(p, now)
BY DEF QueueOK, LowestHead, InOrder, WaitingComplete, UpTo

\* An update of the current timestep, which has not been evaluated.
LEMMA SendUpdateOK ==
  ASSUME NEW q, IsEngine(q), NEW t \in Nat \ {NoHead}, NEW r, NEW plan,
         QueueOK(q, t), \A i \in DOMAIN q.evaluated : q.evaluated[i] < t
  PROVE  LET p == SendUpdate(q, t, r, plan)
         IN  QueueOK(p, t) /\ p.evaluated = q.evaluated
<1> DEFINE entry == JoinEntry(q, t, r, plan)
           later == [entry EXCEPT !.receivedValues = Append(@, r)]
           head  == IF q.currentQueueHead = NoHead THEN t ELSE q.currentQueueHead
           p     == SendUpdate(q, t, r, plan)
<1>1. /\ \A s \in DOMAIN q.queueMap : s \in Nat /\ q.queueMap[s] \in Entry
      /\ q.currentQueueHead \in Nat
  BY DEF IsEngine, IsMap
<1>2. entry.received # {}
  BY <1>1 DEF JoinEntry, Entry
<1>3. /\ p.evaluated = q.evaluated
      /\ p.currentQueueHead = head
      /\ p.queueMap = MapSet(q.queueMap, t, IF t = head THEN entry ELSE later)
  <2> HIDE DEF entry
  <2> QED  BY DEF SendUpdate, IsEngine, entry
<1>4. DOMAIN p.queueMap = DOMAIN q.queueMap \cup {t}
  <2> HIDE DEF p, head, entry, later
  <2> QED  BY <1>3 DEF MapSet
<1>5. \A s \in DOMAIN q.queueMap : s # t => p.queueMap[s] = q.queueMap[s]
  <2> HIDE DEF p, head, entry, later
  <2> QED  BY <1>3 DEF MapSet
<1>6. p.queueMap[t] = IF t = head THEN entry ELSE later
  <2> HIDE DEF p, head, entry, later
  <2> QED  BY <1>3 DEF MapSet
<1>7. LowestHead(p)
  <2> HIDE DEF p
  <2> QED  BY <1>1, <1>3, <1>4 DEF QueueOK, LowestHead, UpTo
<1>8. InOrder(p)
  <2> HIDE DEF p
  <2> QED  BY <1>3, <1>4 DEF QueueOK, InOrder
<1>9. UpTo(p, t)
  <2> HIDE DEF p
  <2> QED  BY <1>3, <1>4 DEF QueueOK, UpTo
<1>10. WaitingComplete(p)
  <2>1. CASE t = head
    <3> HIDE DEF p, entry
    <3>1. q.currentQueueHead = head \/ DOMAIN q.queueMap = {}
      BY DEF QueueOK, LowestHead
    <3> QED  BY <2>1, <3>1, <1>2, <1>3, <1>4, <1>5, <1>6 DEF QueueOK, WaitingComplete
  <2>2. CASE t # head
    <3>1. /\ later.received = entry.received
          /\ {later.receivedValues[i] : i \in DOMAIN later.receivedValues} = entry.received
      <4>1. CASE t \in DOMAIN q.queueMap
        <5> DEFINE values == q.queueMap[t].receivedValues
        <5>1. /\ entry.received = q.queueMap[t].received \cup {r}
              /\ entry.receivedValues = values
              /\ later.received = entry.received
              /\ later.receivedValues = Append(values, r)
          BY <4>1, <1>1 DEF JoinEntry, Entry
        <5>2. {values[i] : i \in DOMAIN values} = q.queueMap[t].received
          <6>1. t # q.currentQueueHead
            BY <2>2
          <6> QED  BY <4>1, <6>1 DEF QueueOK, WaitingComplete
        <5>3. values \in Seq(Relation)
          BY <4>1, <1>1 DEF Entry
        <5> HIDE DEF values, later, entry
        <5>4. /\ DOMAIN Append(values, r) = DOMAIN values \cup {Len(values) + 1}
              /\ \A i \in DOMAIN values : Append(values, r)[i] = values[i]
              /\ Append(values, r)[Len(values) + 1] = r
          BY <5>3
        <5>5. {Append(values, r)[i] : i \in DOMAIN Append(values, r)}
                = {values[i] : i \in DOMAIN values} \cup {r}
          BY <5>4
        <5> QED  BY <5>1, <5>2, <5>5
      <4>2. CASE t \notin DOMAIN q.queueMap
        <5>1. /\ entry.received = {r} /\ later.received = {r}
              /\ later.receivedValues = Append(<<>>, r)
          BY <4>2 DEF JoinEntry
        <5>2. Append(<<>>, r) = <<r>> /\ DOMAIN <<r>> = {1} /\ <<r>>[1] = r
          OBVIOUS
        <5> HIDE DEF later, entry
        <5> QED  BY <5>1, <5>2
      <4> QED  BY <4>1, <4>2
    <3> HIDE DEF p, entry, later
    <3>2. q.currentQueueHead = head
      BY <2>2
    <3> QED  BY <2>2, <3>1, <3>2, <1>2, <1>3, <1>4, <1>5, <1>6 DEF QueueOK, WaitingComplete
  <2> QED  BY <2>1, <2>2
<1> HIDE DEF p
<1> QED  BY <1>3, <1>7, <1>8, <1>9, <1>10 DEF QueueOK, p
\* nextQueue, called when the head has just been evaluated.
LEMMA NextQueueOK ==
  ASSUME NEW q, IsEngine(q), NEW now \in Nat,
         WaitingComplete(q), UpTo(q, now),
         \A i, j \in DOMAIN q.evaluated : i < j => q.evaluated[i] < q.evaluated[j],
         \A i \in DOMAIN q.evaluated, t \in DOMAIN q.queueMap \ {q.currentQueueHead} :
           q.evaluated[i] < t
  PROVE  QueueOK(NextQueue(q), now)
<1> DEFINE rest == MapDelete(q.queueMap, q.currentQueueHead)
           head == IF DOMAIN rest = {} THEN NoHead ELSE Min(DOMAIN rest)
           p    == NextQueue(q)
<1>1. /\ DOMAIN rest = DOMAIN q.queueMap \ {q.currentQueueHead}
      /\ \A t \in DOMAIN rest : t \in Nat \ {NoHead} /\ rest[t] = q.queueMap[t]
  BY DEF MapDelete, IsEngine, IsMap
<1>2. p.queueMap = rest /\ p.currentQueueHead = head /\ p.evaluated = q.evaluated
  <2> HIDE DEF rest
  <2> QED  BY DEF NextQueue, IsEngine, rest
<1>3. DOMAIN rest # {} =>
        /\ head \in DOMAIN rest /\ head # NoHead
        /\ \A t \in DOMAIN rest : head <= t
  <2> HIDE DEF rest
  <2>1. DOMAIN rest \in SUBSET Nat
    BY <1>1
  <2> QED  BY <1>1, <2>1, MinOfNat
<1> HIDE DEF p, head, rest
<1>4. LowestHead(p)
  BY <1>2, <1>3 DEF LowestHead, head
<1>5. InOrder(p)
  BY <1>1, <1>2 DEF InOrder
<1>6. WaitingComplete(p)
  BY <1>1, <1>2 DEF WaitingComplete
<1>7. UpTo(p, now)
  BY <1>1, <1>2 DEF UpTo
<1> QED  BY <1>4, <1>5, <1>6, <1>7 DEF QueueOK, p

LEMMA EvaluateOK ==
  ASSUME NEW q, IsEngine(q), NEW now \in Nat, QueueOK(q, now)
  PROVE  QueueOK(Evaluate(q), now)
<1>1. CASE Evaluate(q) = q
  BY <1>1
<1>2. CASE Evaluate(q) # q
  <2> DEFINE head == q.currentQueueHead
             p    == Shipped(q, head)
  <2>1. HeadOf(q) = head /\ head \in DOMAIN q.queueMap /\ head \in Nat
        /\ \A t \in DOMAIN q.queueMap : t \in Nat /\ head <= t
    BY <1>2, EvaluateCases, HeadOfIsEntry DEF QueueOK, LowestHead, IsEngine, IsMap, NoHead
  <2>2. QueueOK([q EXCEPT !.currentQueueHead = HeadOf(q)], now)
    BY <2>1, SameQueueOK DEF IsEngine
  <2>3. p.queueMap = q.queueMap /\ p.currentQueueHead = head
        /\ p.evaluated = Append(q.evaluated, head)
    BY DEF Shipped, IsEngine
  <2>4. IsEngine(p) /\ WaitingComplete(p)
    BY <2>1, ShippedType, ShippedWaiting DEF QueueOK
  <2> HIDE DEF p
  <2> DEFINE n == Len(q.evaluated)
  <2>5. /\ n \in Nat /\ DOMAIN q.evaluated = 1..n /\ DOMAIN p.evaluated = 1..(n + 1)
        /\ \A i \in 1..n : p.evaluated[i] = q.evaluated[i] /\ q.evaluated[i] \in Nat
        /\ p.evaluated[n + 1] = head
    BY <2>3, <2>1 DEF IsEngine
  <2> HIDE DEF n, head
  <2>6. \A i \in 1..n : \A t \in DOMAIN q.queueMap : q.evaluated[i] < t
    BY <2>5 DEF QueueOK, InOrder
  <2>7. \A i, j \in DOMAIN p.evaluated : i < j => p.evaluated[i] < p.evaluated[j]
    BY <2>1, <2>5, <2>6 DEF QueueOK, InOrder
  <2>8. \A i \in DOMAIN p.evaluated, t \in DOMAIN p.queueMap \ {p.currentQueueHead} :
          p.evaluated[i] < t
    BY <2>1, <2>3, <2>5, <2>6
  <2>9. UpTo(p, now)
    BY <2>1, <2>3, <2>5 DEF QueueOK, UpTo
  <2>10. QueueOK(NextQueue(p), now)
    BY <2>4, <2>7, <2>8, <2>9, NextQueueOK
  <2> QED  BY <1>2, <2>1, <2>2, <2>10, EvaluateCases DEF p
<1> QED  BY <1>1, <1>2

\* The reply to an update, whatever it says.
LEMMA HandleUpdateReplyOK ==
  ASSUME NEW q, IsEngine(q), NEW now \in Nat, QueueOK(q, now),
         NEW m \in Message, NEW failed \in BOOLEAN
  PROVE  LET p == HandleUpdateReply(q, m, failed)
         IN  IsEngine(p) /\ QueueOK(p, now)
<1> DEFINE settled   == SettlePromise(q, m, failed)
           evaluated == Evaluate(settled)
<1>1. m.requestTimestep \in Nat /\ m.isPromise \in BOOLEAN
  BY DEF Message
<1>2. IsEngine(settled) /\ QueueOK(settled, now)
  BY <1>1, SettlePromiseType, SameQueueOK
<1> HIDE DEF settled
<1>3. IsEngine(evaluated) /\ QueueOK(evaluated, now)
  BY <1>2, EvaluateType, EvaluateOK DEF QueueOK
<1> HIDE DEF evaluated
<1>4. IsEngine(Evaluate(evaluated)) /\ QueueOK(Evaluate(evaluated), now)
  BY <1>3, EvaluateType, EvaluateOK DEF QueueOK
<1> QED  BY <1>3, <1>4 DEF HandleUpdateReply, evaluated, settled
-----------------------------------------------------------------------------
(***************************************************************************)
(* The inductive invariant.  While the relations of an event are being     *)
(* sent, its timestep is the latest and no engine has evaluated it: the    *)
(* replies that set off evaluations wait for the macrotask to end.         *)
(***************************************************************************)
Sending ==
  sending # <<>> =>
    /\ timestep \in DOMAIN eventByTimestep
    /\ \A d \in Engine : \A i \in DOMAIN engine[d].evaluated :
         engine[d].evaluated[i] < timestep

IInv ==
  /\ TypeOK
  /\ \A d \in Engine : QueueOK(engine[d], timestep)
  /\ Sending
LEMMA InitIInv == Init => IInv
<1> SUFFICES ASSUME Init PROVE IInv
  OBVIOUS
<1>1. \A d \in Engine : IsEngine(engine[d]) /\ QueueOK(engine[d], timestep)
  BY NewEngineType, NewEngineOK DEF Init, INIT_TIMESTEP
<1>2. TypeOK
  <2>1. IsMap(eventByTimestep, Event)
    BY EmptyMapType DEF Init
  <2>2. <<>> \in Seq(Shipment) /\ <<>> \in Seq(Answered)
    OBVIOUS
  <2> QED  BY <1>1, <2>1, <2>2, BoundAssumption DEF Init, TypeOK, INIT_TIMESTEP, NoHead
<1> QED  BY <1>1, <1>2 DEF IInv, Sending, Init

\* A new timestep for event e.
LEMMA StartTickIInv ==
  ASSUME IInv, NEW e \in Event, StartTick(e), engine' = engine
  PROVE  /\ timestep' \in Nat \ {NoHead}
         /\ IsMap(eventByTimestep', Event)
         /\ sending' \in Seq(Shipment)
         /\ \A d \in Engine : QueueOK(engine'[d], timestep')
         /\ Sending'
<1>1. timestep \in Nat \ {NoHead} /\ timestep' = timestep + 1
  BY DEF IInv, TypeOK, StartTick
<1>2. timestep' \in Nat \ {NoHead}
  BY <1>1 DEF NoHead
<1>3. IsMap(eventByTimestep', Event)
  BY <1>1, <1>2, MapSetType DEF IInv, TypeOK, StartTick
<1>4. sending' \in Seq(Shipment)
  BY PlanAssumption DEF StartTick, Shipment
<1>5. \A d \in Engine : QueueOK(engine'[d], timestep')
  BY <1>1, LaterOK DEF IInv, TypeOK
<1>6. timestep' \in DOMAIN eventByTimestep'
  BY <1>1 DEF StartTick, MapSet
<1>7. ASSUME NEW d \in Engine, NEW i \in DOMAIN engine[d].evaluated
      PROVE  engine[d].evaluated[i] < timestep'
  <2>1. engine[d].evaluated \in Seq(Nat)
    BY DEF IInv, TypeOK, IsEngine
  <2>2. engine[d].evaluated[i] \in Nat
    BY <2>1, ElementOfSeq
  <2>3. engine[d].evaluated[i] <= timestep
    BY DEF IInv, QueueOK, UpTo
  <2> QED  BY <1>1, <2>2, <2>3
<1> QED  BY <1>2, <1>3, <1>4, <1>5, <1>6, <1>7 DEF Sending

\* The invariant when only one engine changes.
LEMMA OneEngineOK ==
  ASSUME IInv, NEW d \in Engine, NEW q, IsEngine(q), QueueOK(q, timestep),
         engine' = [engine EXCEPT ![d] = q], timestep' = timestep
  PROVE  /\ DOMAIN engine' = Engine
         /\ \A x \in Engine : IsEngine(engine'[x]) /\ QueueOK(engine'[x], timestep')
BY DEF IInv, TypeOK

\* The same, of one sequence of replies.
LEMMA TailType ==
  ASSUME NEW S, NEW s \in Seq(S), s # <<>>
  PROVE  Tail(s) \in Seq(S) /\ Head(s) \in S
BY HeadTailProperties

LEMMA NewInputIInv ==
  ASSUME IInv, NEW e \in Input, NewInput(e)
  PROVE  IInv'
<1>1. /\ timestep' \in Nat \ {NoHead}
      /\ IsMap(eventByTimestep', Event)
      /\ sending' \in Seq(Shipment)
      /\ \A d \in Engine : QueueOK(engine'[d], timestep')
      /\ Sending'
  BY StartTickIInv, PlanAssumption DEF NewInput
<1>2. inputs' \in 0..MaxInputs
  BY BoundAssumption DEF NewInput, IInv, TypeOK
<1> QED  BY <1>1, <1>2 DEF IInv, TypeOK, NewInput, remoteVars, historyVars

LEMMA ShipWorkerInputIInv ==
  ASSUME IInv, ShipWorkerInput
  PROVE  IInv'
<1> DEFINE d == Head(sending).destination
           r == Head(sending).relation
           q == engine[d]
           p == SendUpdate(q, timestep, r, Plan(d, timestep))
<1>1. /\ Head(sending) \in Shipment
      /\ sending' = Tail(sending) /\ sending' \in Seq(Shipment)
  BY TailType DEF ShipWorkerInput, IInv, TypeOK
<1>2. d \in Engine /\ r \in Relation
  BY <1>1 DEF Shipment
<1>3. Plan(d, timestep).deps \in SUBSET Relation
      /\ Plan(d, timestep).relationsToShip \in Seq(Event)
  <2>1. timestep \in DOMAIN eventByTimestep
    BY DEF IInv, Sending, ShipWorkerInput
  <2>2. eventByTimestep[timestep] \in Event
    BY <2>1 DEF IInv, TypeOK, IsMap
  <2> HIDE DEF d
  <2> QED  BY <1>2, <2>2, PlanAssumption DEF Plan
<1>4. engine' = [engine EXCEPT ![d] = p] /\ timestep' = timestep
      /\ submitted' = [submitted EXCEPT ![d] = @ \cup {<<timestep, r>>}]
  BY DEF ShipWorkerInput
<1> HIDE DEF d, r
<1>5. /\ IsEngine(q) /\ QueueOK(q, timestep) /\ timestep \in Nat \ {NoHead}
      /\ \A i \in DOMAIN q.evaluated : q.evaluated[i] < timestep
  BY <1>2 DEF IInv, TypeOK, Sending, ShipWorkerInput
<1> HIDE DEF q
<1>6. IsEngine(p) /\ QueueOK(p, timestep) /\ p.evaluated = q.evaluated
  BY <1>2, <1>3, <1>5, SendUpdateType, SendUpdateOK
<1> HIDE DEF p
<1>7. /\ DOMAIN engine' = Engine
      /\ \A x \in Engine : IsEngine(engine'[x]) /\ QueueOK(engine'[x], timestep')
  BY <1>2, <1>4, <1>6, OneEngineOK
<1>8. submitted' \in [Engine -> SUBSET (Nat \X Relation)]
  BY <1>2, <1>4, <1>5 DEF IInv, TypeOK
<1>9. Sending'
  <2>1. \A x \in Engine : engine'[x].evaluated = engine[x].evaluated
    BY <1>2, <1>4, <1>6 DEF IInv, TypeOK, q
  <2> QED  BY <2>1 DEF IInv, Sending, ShipWorkerInput
<1> QED  BY <1>1, <1>7, <1>8, <1>9
         DEF IInv, TypeOK, ShipWorkerInput, remoteVars, boundVars

LEMMA SkipEmptyRelationIInv ==
  ASSUME IInv, SkipEmptyRelation
  PROVE  IInv'
<1>1. sending' \in Seq(Shipment)
  BY TailType DEF SkipEmptyRelation, IInv, TypeOK
<1> QED  BY <1>1 DEF IInv, TypeOK, Sending, SkipEmptyRelation,
                     remoteVars, boundVars, historyVars

\* What is on its way to the database does not concern the queue.
LEMMA ToRemoteOK ==
  ASSUME NEW q, IsEngine(q), NEW now, QueueOK(q, now), NEW s \in Seq(Message)
  PROVE  LET p == [q EXCEPT !.toRemote = s]
         IN  IsEngine(p) /\ QueueOK(p, now) /\ p.evaluated = q.evaluated
<1> DEFINE p == [q EXCEPT !.toRemote = s]
<1>1. IsEngine(p) /\ p.evaluated = q.evaluated
  BY DEF IsEngine
<1>2. p.queueMap = q.queueMap /\ p.currentQueueHead = q.currentQueueHead
  BY DEF IsEngine
<1> HIDE DEF p
<1>3. QueueOK(p, now)
  BY <1>1, <1>2, SameQueueOK
<1> QED  BY <1>1, <1>3 DEF p

\* A message leaves toRemote, and its answer joins toClient.
LEMMA ExecuteIInv ==
  ASSUME IInv, NEW d \in Engine, CanExecute(d), NEW reply \in Answered,
         NEW content \in [Relation -> Nat], Execute(d, reply, content),
         errors' \in 0..MaxErrors
  PROVE  IInv'
<1> DEFINE q == engine[d]
           p == [q EXCEPT !.toRemote = Tail(q.toRemote)]
<1>1. IsEngine(q) /\ QueueOK(q, timestep) /\ q.toRemote # <<>>
  BY DEF IInv, TypeOK, CanExecute
<1>2. engine' = [engine EXCEPT ![d] = p] /\ timestep' = timestep
  BY DEF Execute, mainVars
<1> HIDE DEF q
<1>3. Tail(q.toRemote) \in Seq(Message)
  BY <1>1, TailType DEF IsEngine
<1>4. IsEngine(p) /\ p.evaluated = q.evaluated /\ QueueOK(p, timestep)
  BY <1>1, <1>3, ToRemoteOK
<1> HIDE DEF p
<1>6. /\ DOMAIN engine' = Engine
      /\ \A x \in Engine : IsEngine(engine'[x]) /\ QueueOK(engine'[x], timestep')
  BY <1>2, <1>4, OneEngineOK
<1>7. toClient' \in [Engine -> Seq(Answered)]
  BY AppendProperties DEF IInv, TypeOK, Execute
<1>8. remote' \in [Engine -> [Relation -> Nat]]
  BY DEF IInv, TypeOK, Execute
<1>9. \A x \in Engine : engine'[x].evaluated = engine[x].evaluated
  BY <1>2, <1>4 DEF IInv, TypeOK, q
<1>10. Sending'
  BY <1>9 DEF IInv, Sending, Execute, mainVars
<1> QED  BY <1>6, <1>7, <1>8, <1>10 DEF IInv, TypeOK, Execute, mainVars, historyVars
\* What the database makes of a message is an answer to it.
LEMMA ReplyType ==
  ASSUME IInv, NEW d \in Engine, CanExecute(d), NEW err \in BOOLEAN,
         NEW results \in Content, NEW rows \in BOOLEAN
  PROVE  LET m == Head(engine[d].toRemote)
         IN  m \in Message /\ Reply(m, err, results, rows) \in Answered
<1> DEFINE m == Head(engine[d].toRemote)
<1>1. m \in Message
  BY TailType DEF IInv, TypeOK, IsEngine, CanExecute
<1> HIDE DEF m
<1> QED  BY <1>1 DEF Reply, Answered, m

LEMMA ExecuteUpdateIInv ==
  ASSUME IInv, NEW d \in Engine, ExecuteUpdate(d)
  PROVE  IInv'
<1> DEFINE m == Head(engine[d].toRemote)
           content == [remote[d] EXCEPT ![m.relationName] = m.requestTimestep]
<1>1. CanExecute(d) /\ Execute(d, Reply(m, FALSE, NoResults, FALSE), content)
      /\ errors' = errors
  BY DEF ExecuteUpdate
<1>2. m \in Message /\ Reply(m, FALSE, NoResults, FALSE) \in Answered
  BY <1>1, ReplyType DEF Content
<1>3. content \in [Relation -> Nat]
  <2>1. m.requestTimestep \in Nat
    BY <1>2 DEF Message
  <2> HIDE DEF m
  <2> QED  BY <2>1 DEF IInv, TypeOK
<1>4. errors' \in 0..MaxErrors
  BY <1>1 DEF IInv, TypeOK
<1> HIDE DEF m, content
<1> QED  BY <1>1, <1>2, <1>3, <1>4, ExecuteIInv

LEMMA ExecuteShipIInv ==
  ASSUME IInv, NEW d \in Engine, ExecuteShip(d)
  PROVE  IInv'
<1> DEFINE m == Head(engine[d].toRemote)
<1>1. PICK rows \in BOOLEAN : Execute(d, Reply(m, FALSE, remote[d], rows), remote[d])
  BY DEF ExecuteShip
<1>2. CanExecute(d) /\ errors' \in 0..MaxErrors
  BY DEF ExecuteShip, IInv, TypeOK
<1>3. remote[d] \in [Relation -> Nat]
  BY DEF IInv, TypeOK
<1>4. Reply(m, FALSE, remote[d], rows) \in Answered
  BY <1>2, <1>3, ReplyType DEF Content
<1> HIDE DEF m
<1> QED  BY <1>1, <1>2, <1>3, <1>4, ExecuteIInv

LEMMA ExecuteFailsIInv ==
  ASSUME IInv, NEW d \in Engine, ExecuteFails(d)
  PROVE  IInv'
<1> DEFINE m == Head(engine[d].toRemote)
           emptied == [remote[d] EXCEPT ![m.relationName] = 0]
<1>1. PICK content \in {remote[d]} \cup
                       (IF m.remoteAction = "UpdateRelation" THEN {emptied} ELSE {}) :
        Execute(d, Reply(m, TRUE, NoResults, FALSE), content)
  BY DEF ExecuteFails
<1>2. CanExecute(d) /\ errors' \in 0..MaxErrors
  BY BoundAssumption DEF ExecuteFails, IInv, TypeOK
<1>3. Reply(m, TRUE, NoResults, FALSE) \in Answered
  BY <1>2, ReplyType DEF Content
<1> HIDE DEF m
<1>4. content \in [Relation -> Nat]
  BY <1>1 DEF IInv, TypeOK
<1> QED  BY <1>1, <1>2, <1>3, <1>4, ExecuteIInv

LEMMA LoseConnectionIInv ==
  ASSUME IInv, NEW d \in Engine, LoseConnection(d)
  PROVE  IInv'
<1>1. PICK n \in 0..Len(toClient[d]) :
        toClient' = [toClient EXCEPT ![d] = SubSeq(@, 1, n)]
  BY DEF LoseConnection
<1>2. SubSeq(toClient[d], 1, n) \in Seq(Answered)
  <2>1. toClient[d] \in Seq(Answered)
    BY DEF IInv, TypeOK
  <2>2. n \in 1..Len(toClient[d]) + 1 \/ n = 0
    BY <2>1
  <2> QED  BY <2>1, <2>2, SubSeqProperties
<1>3. toClient' \in [Engine -> Seq(Answered)]
  BY <1>1, <1>2 DEF IInv, TypeOK
<1>4. connected' \in [Engine -> BOOLEAN]
  BY DEF LoseConnection, IInv, TypeOK
<1> QED  BY <1>3, <1>4 DEF IInv, TypeOK, Sending, LoseConnection,
                           mainVars, boundVars, historyVars

\* The reply that a handler takes.
LEMMA TakeReplyType ==
  ASSUME IInv, NEW d \in Engine, CanHandle(d), TakeReply(d)
  PROVE  Head(toClient[d]) \in Answered /\ toClient' \in [Engine -> Seq(Answered)]
<1>1. Head(toClient[d]) \in Answered /\ Tail(toClient[d]) \in Seq(Answered)
  BY TailType DEF IInv, TypeOK, CanHandle
<1> QED  BY <1>1 DEF IInv, TypeOK, TakeReply

LEMMA HandleUpdateIInv ==
  ASSUME IInv, NEW d \in Engine, HandleUpdate(d)
  PROVE  IInv'
<1> DEFINE reply == Head(toClient[d])
           p     == HandleUpdateReply(engine[d], reply.msg, reply.err)
<1>1. reply \in Answered /\ toClient' \in [Engine -> Seq(Answered)]
  BY TakeReplyType DEF HandleUpdate
<1>2. reply.msg \in Message /\ reply.err \in BOOLEAN
  BY <1>1 DEF Answered
<1>3. engine' = [engine EXCEPT ![d] = p] /\ timestep' = timestep /\ sending = <<>>
      /\ sending' = sending
  BY DEF HandleUpdate, CanHandle, Idle, mainVars
<1> HIDE DEF reply
<1>4. timestep \in Nat /\ IsEngine(engine[d]) /\ QueueOK(engine[d], timestep)
  BY DEF IInv, TypeOK
<1>5. IsEngine(p) /\ QueueOK(p, timestep)
  BY <1>2, <1>4, HandleUpdateReplyOK
<1> HIDE DEF p
<1>6. /\ DOMAIN engine' = Engine
      /\ \A x \in Engine : IsEngine(engine'[x]) /\ QueueOK(engine'[x], timestep')
  BY <1>3, <1>5, OneEngineOK
<1> QED  BY <1>1, <1>3, <1>6
         DEF IInv, TypeOK, Sending, HandleUpdate, mainVars, boundVars, historyVars

LEMMA HandleShipIInv ==
  ASSUME IInv, NEW d \in Engine, HandleShip(d)
  PROVE  IInv'
<1> DEFINE reply == Head(toClient[d])
           m     == reply.msg
<1>1. reply \in Answered /\ toClient' \in [Engine -> Seq(Answered)]
  BY TakeReplyType DEF HandleShip
<1>2. /\ m.remoteAction = "ShipRelation"
      /\ StartTick(m.relationName)
      /\ delivered' = [delivered EXCEPT ![d] = @ \cup
           {[requestTimestep |-> m.requestTimestep, view |-> m.relationName,
             results |-> reply.results]}]
      /\ engine' = engine
  BY DEF HandleShip
<1> HIDE DEF reply
<1>3. m \in Message /\ reply.results \in Content
  BY <1>1 DEF Answered
<1> HIDE DEF m
<1>4. m.relationName \in Event /\ m.requestTimestep \in Nat
  BY <1>2, <1>3 DEF Message
<1>5. /\ timestep' \in Nat \ {NoHead}
      /\ IsMap(eventByTimestep', Event)
      /\ sending' \in Seq(Shipment)
      /\ \A x \in Engine : QueueOK(engine'[x], timestep')
      /\ Sending'
  BY <1>2, <1>4, StartTickIInv
<1>6. delivered' \in
        [Engine -> SUBSET [requestTimestep : Nat, view : Event, results : Content]]
  BY <1>2, <1>3, <1>4 DEF IInv, TypeOK
<1> QED  BY <1>1, <1>5, <1>6 DEF IInv, TypeOK, HandleShip, boundVars

LEMMA DropShipIInv ==
  ASSUME IInv, NEW d \in Engine, DropShip(d)
  PROVE  IInv'
<1>1. toClient' \in [Engine -> Seq(Answered)]
  BY TakeReplyType DEF DropShip
<1> QED  BY <1>1 DEF IInv, TypeOK, Sending, DropShip, mainVars, boundVars, historyVars
LEMMA NextIInv == IInv /\ [Next]_vars => IInv'
<1> SUFFICES ASSUME IInv, [Next]_vars PROVE IInv'
  OBVIOUS
<1>1. ASSUME NEW e \in Input, NewInput(e) PROVE IInv'
  BY <1>1, NewInputIInv
<1>2. CASE ShipWorkerInput
  BY <1>2, ShipWorkerInputIInv
<1>3. CASE SkipEmptyRelation
  BY <1>3, SkipEmptyRelationIInv
<1>4. ASSUME NEW d \in Engine, ExecuteUpdate(d) \/ ExecuteShip(d) PROVE IInv'
  BY <1>4, ExecuteUpdateIInv, ExecuteShipIInv
<1>5. ASSUME NEW d \in Engine, ExecuteFails(d) \/ LoseConnection(d) PROVE IInv'
  BY <1>5, ExecuteFailsIInv, LoseConnectionIInv
<1>6. ASSUME NEW d \in Engine, Handle(d) PROVE IInv'
  BY <1>6, HandleUpdateIInv, HandleShipIInv, DropShipIInv DEF Handle
<1>7. CASE UNCHANGED vars
  BY <1>7 DEF IInv, TypeOK, Sending, vars, mainVars, remoteVars, boundVars, historyVars
<1> QED  BY <1>1, <1>2, <1>3, <1>4, <1>5, <1>6, <1>7
         DEF Next, MainNext, RemoteNext, FaultNext, HandleNext

LEMMA Invariance == Spec => []IInv
BY InitIInv, NextIInv, PTL DEF Spec
-----------------------------------------------------------------------------
(***************************************************************************)
(* The state of the runtime, of the engines' queues and of the messages    *)
(* has its type: in particular the entry and the plan that SendMsg looks   *)
(* up by timestep exist.                                                   *)
(***************************************************************************)
THEOREM TypeCorrect == Spec => []TypeOK
<1>1. IInv => TypeOK
  BY DEF IInv
<1> QED  BY <1>1, Invariance, PTL

(***************************************************************************)
(* With any number of events, engines, failed updates and lost connections,*)
(* the head of a queue is its lowest timestep, so an engine never looks for*)
(* an entry that is gone (evaluateQueueOnUpdateHandler's internal error).  *)
(***************************************************************************)
THEOREM HeadLowest == Spec => []HeadIsLowest
<1>1. IInv => HeadIsLowest
  BY DEF IInv, QueueOK, HeadIsLowest
<1> QED  BY <1>1, Invariance, PTL

(***************************************************************************)
(* evaluateQueueOnUpdateHandler asks for the results of each timestep at   *)
(* most once and in order, however often the replies to updates and the    *)
(* promises of nextQueue set it off.                                       *)
(***************************************************************************)
THEOREM EvaluationInOrder == Spec => []EvaluatedInOrder
<1>1. IInv => EvaluatedInOrder
  BY DEF IInv, QueueOK, EvaluatedInOrder
<1> QED  BY <1>1, Invariance, PTL

(***************************************************************************)
(* Every update SendMsg was given for a timestep that is not yet the head  *)
(* waits in the entry of that timestep: when nextQueue loads the entry, all*)
(* of them are posted.                                                     *)
(***************************************************************************)
THEOREM NothingLostInQueue == Spec => []WaitingValuesComplete
<1>1. IInv => WaitingValuesComplete
  BY DEF IInv, QueueOK, WaitingValuesComplete
<1> QED  BY <1>1, Invariance, PTL

-----------------------------------------------------------------------------
(***************************************************************************)
(* The pipeline between an engine and its database: which updates, of those*)
(* given (S), are in the database (rem), posted, or waiting in the queue.  *)
(***************************************************************************)
IsEvaluated(q, t) == \E i \in DOMAIN q.evaluated : q.evaluated[i] = t

Started(q, t) ==
  (q.currentQueueHead # NoHead /\ t = q.currentQueueHead) \/ IsEvaluated(q, t)

\* The updates of a timestep are posted before its ships.
Before(m, n) ==
  \/ m.requestTimestep < n.requestTimestep
  \/ m.requestTimestep = n.requestTimestep /\ (IsUpdate(m) \/ ~IsUpdate(n))

Ordered(s) == \A i, j \in DOMAIN s : i < j => Before(s[i], s[j])

Updates(s, x) ==
  \E i \in DOMAIN s :
    IsUpdate(s[i]) /\ s[i].requestTimestep = x[1] /\ s[i].relationName = x[2]

Waits(q, x) ==
  /\ x[1] \in DOMAIN q.queueMap /\ x[1] # q.currentQueueHead
  /\ x[2] \in q.queueMap[x[1]].received

PostedStarted(q) ==
  \A i \in DOMAIN q.toRemote :
    IF IsUpdate(q.toRemote[i]) THEN Started(q, q.toRemote[i].requestTimestep)
                               ELSE IsEvaluated(q, q.toRemote[i].requestTimestep)

Accounted(q, S, rem) ==
  \A x \in S : x[1] <= rem[x[2]] \/ Updates(q.toRemote, x) \/ Waits(q, x)

Genuine(q, S, rem) ==
  /\ \A r \in Relation : rem[r] = 0 \/ <<rem[r], r>> \in S
  /\ \A i \in DOMAIN q.toRemote :
       IsUpdate(q.toRemote[i]) =>
         <<q.toRemote[i].requestTimestep, q.toRemote[i].relationName>> \in S
  /\ \A t \in DOMAIN q.queueMap : \A r \in q.queueMap[t].received : <<t, r>> \in S

NotAhead(q, rem) ==
  \A r \in Relation :
    /\ \A i \in DOMAIN q.toRemote : rem[r] <= q.toRemote[i].requestTimestep
    /\ rem[r] = 0 \/ Started(q, rem[r])

Pipeline(q, S, rem) ==
  /\ Ordered(q.toRemote)
  /\ PostedStarted(q)
  /\ Accounted(q, S, rem)
  /\ Genuine(q, S, rem)
  /\ NotAhead(q, rem)

LEMMA ConcatElements ==
  ASSUME NEW T, NEW a \in Seq(T), NEW b \in Seq(T)
  PROVE  /\ a \o b \in Seq(T)
         /\ \A k \in DOMAIN (a \o b) :
              \/ k \in DOMAIN a /\ (a \o b)[k] = a[k]
              \/ k > Len(a) /\ k - Len(a) \in DOMAIN b /\ (a \o b)[k] = b[k - Len(a)]
         /\ \A i \in DOMAIN a : i \in DOMAIN (a \o b) /\ (a \o b)[i] = a[i] /\ i <= Len(a)
         /\ \A j \in DOMAIN b : j + Len(a) \in DOMAIN (a \o b) /\ (a \o b)[j + Len(a)] = b[j]
<1>1. /\ Len(a) \in Nat /\ Len(b) \in Nat
      /\ DOMAIN a = 1..Len(a) /\ DOMAIN b = 1..Len(b)
  BY LenProperties
<1>2. /\ a \o b \in Seq(T)
      /\ DOMAIN (a \o b) = 1..(Len(a) + Len(b))
      /\ \A i \in 1..(Len(a) + Len(b)) : (a \o b)[i] = IF i <= Len(a) THEN a[i] ELSE b[i - Len(a)]
  BY ConcatProperties, LenProperties
<1> DEFINE s == a \o b
<1> HIDE DEF s
<1>3. /\ s \in Seq(T)
      /\ DOMAIN s = 1..(Len(a) + Len(b))
      /\ \A i \in 1..(Len(a) + Len(b)) : s[i] = IF i <= Len(a) THEN a[i] ELSE b[i - Len(a)]
  BY <1>2 DEF s
<1>4. \A k \in DOMAIN s :
        \/ k \in DOMAIN a /\ s[k] = a[k]
        \/ k > Len(a) /\ k - Len(a) \in DOMAIN b /\ s[k] = b[k - Len(a)]
  BY <1>1, <1>3
<1>5. \A i \in DOMAIN a : i \in DOMAIN s /\ s[i] = a[i] /\ i <= Len(a)
  BY <1>1, <1>3
<1>6. \A j \in DOMAIN b : j + Len(a) \in DOMAIN s /\ s[j + Len(a)] = b[j]
  BY <1>1, <1>3
<1> QED  BY <1>3, <1>4, <1>5, <1>6 DEF s

\* What posting more messages, with the changes to the queue that go with it,
\* has to respect.
LEMMA PostMore ==
  ASSUME NEW q, NEW p, NEW S, NEW S2, NEW rem, NEW msgs \in Seq(Message),
         q.toRemote \in Seq(Message), p.toRemote = q.toRemote \o msgs,
         S \subseteq S2,
         Pipeline(q, S, rem),
         Ordered(msgs),
         \A i \in DOMAIN q.toRemote, j \in DOMAIN msgs : Before(q.toRemote[i], msgs[j]),
         \A t : (Started(q, t) => Started(p, t)) /\ (IsEvaluated(q, t) => IsEvaluated(p, t)),
         \A j \in DOMAIN msgs :
           IF IsUpdate(msgs[j])
           THEN /\ Started(p, msgs[j].requestTimestep)
                /\ <<msgs[j].requestTimestep, msgs[j].relationName>> \in S2
           ELSE IsEvaluated(p, msgs[j].requestTimestep),
         \A x \in S2 : (x \in S /\ ~Waits(q, x)) \/ Waits(p, x) \/ Updates(msgs, x),
         \A t \in DOMAIN p.queueMap : \A r \in p.queueMap[t].received : <<t, r>> \in S2,
         \A r \in Relation, j \in DOMAIN msgs : rem[r] <= msgs[j].requestTimestep
  PROVE  Pipeline(p, S2, rem)
<1> DEFINE a == q.toRemote
           s == p.toRemote
           n == Len(a)
<1>1. /\ \A k \in DOMAIN s :
           \/ k \in DOMAIN a /\ s[k] = a[k]
           \/ k > n /\ k - n \in DOMAIN msgs /\ s[k] = msgs[k - n]
      /\ \A i \in DOMAIN a : i \in DOMAIN s /\ s[i] = a[i] /\ i <= n
      /\ \A j \in DOMAIN msgs : j + n \in DOMAIN s /\ s[j + n] = msgs[j]
  BY ConcatElements
<1>2. /\ n \in Nat
      /\ \A i \in DOMAIN a : i \in Nat
      /\ \A i \in DOMAIN s : i \in Nat
      /\ \A i \in DOMAIN msgs : i \in Nat
  <2>1. a \in Seq(Message) /\ s \in Seq(Message)
    BY ConcatElements
  <2> QED  BY <2>1, LenProperties
<1>3. Ordered(s)
  <2> SUFFICES ASSUME NEW i \in DOMAIN s, NEW j \in DOMAIN s, i < j
               PROVE  Before(s[i], s[j])
    BY DEF Ordered
  <2>1. CASE j \in DOMAIN a /\ s[j] = a[j]
    <3>1. i \in DOMAIN a /\ s[i] = a[i]
      BY <1>1, <1>2, <2>1
    <3> QED  BY <2>1, <3>1 DEF Pipeline, Ordered
  <2>2. CASE j - n \in DOMAIN msgs /\ s[j] = msgs[j - n]
    <3>1. CASE i \in DOMAIN a /\ s[i] = a[i]
      BY <2>2, <3>1
    <3>2. CASE i > n /\ i - n \in DOMAIN msgs /\ s[i] = msgs[i - n]
      <4>1. i - n < j - n
        BY <1>2
      <4> HIDE DEF n, s
      <4> QED  BY <2>2, <3>2, <4>1 DEF Ordered
    <3> QED  BY <1>1, <3>1, <3>2
  <2> QED  BY <1>1, <2>1, <2>2
<1>4. PostedStarted(p)
  <2> SUFFICES ASSUME NEW k \in DOMAIN s
               PROVE  IF IsUpdate(s[k]) THEN Started(p, s[k].requestTimestep)
                                        ELSE IsEvaluated(p, s[k].requestTimestep)
    BY DEF PostedStarted
  <2>1. CASE k \in DOMAIN a /\ s[k] = a[k]
    BY <2>1 DEF Pipeline, PostedStarted
  <2>2. CASE k - n \in DOMAIN msgs /\ s[k] = msgs[k - n]
    BY <2>2
  <2> QED  BY <1>1, <2>1, <2>2
<1>5. \A x : Updates(a, x) \/ Updates(msgs, x) => Updates(s, x)
  <2> SUFFICES ASSUME NEW x, Updates(a, x) \/ Updates(msgs, x) PROVE Updates(s, x)
    OBVIOUS
  <2>1. CASE Updates(a, x)
    <3>1. PICK i \in DOMAIN a :
            IsUpdate(a[i]) /\ a[i].requestTimestep = x[1] /\ a[i].relationName = x[2]
      BY <2>1 DEF Updates
    <3>2. i \in DOMAIN s /\ s[i] = a[i]
      BY <1>1
    <3> HIDE DEF a, s
    <3> QED  BY <3>1, <3>2 DEF Updates
  <2>2. CASE Updates(msgs, x)
    <3>1. PICK j \in DOMAIN msgs :
            /\ IsUpdate(msgs[j])
            /\ msgs[j].requestTimestep = x[1] /\ msgs[j].relationName = x[2]
      BY <2>2 DEF Updates
    <3>2. j + n \in DOMAIN s /\ s[j + n] = msgs[j]
      BY <1>1
    <3> HIDE DEF n, s
    <3> QED  BY <3>1, <3>2 DEF Updates
  <2> QED  BY <2>1, <2>2
<1>6. Accounted(p, S2, rem)
  BY <1>5 DEF Pipeline, Accounted
<1>7. Genuine(p, S2, rem)
  <2>1. ASSUME NEW k \in DOMAIN s, IsUpdate(s[k])
        PROVE  <<s[k].requestTimestep, s[k].relationName>> \in S2
    <3>1. CASE k \in DOMAIN a /\ s[k] = a[k]
      BY <2>1, <3>1 DEF Pipeline, Genuine
    <3>2. CASE k - n \in DOMAIN msgs /\ s[k] = msgs[k - n]
      BY <2>1, <3>2
    <3> QED  BY <1>1, <3>1, <3>2
  <2> QED  BY <2>1 DEF Pipeline, Genuine
<1>8. NotAhead(p, rem)
  <2>1. ASSUME NEW r \in Relation, NEW k \in DOMAIN s
        PROVE  rem[r] <= s[k].requestTimestep
    <3>1. CASE k \in DOMAIN a /\ s[k] = a[k]
      BY <3>1 DEF Pipeline, NotAhead
    <3>2. CASE k - n \in DOMAIN msgs /\ s[k] = msgs[k - n]
      BY <3>2
    <3> QED  BY <1>1, <3>1, <3>2
  <2> QED  BY <2>1 DEF Pipeline, NotAhead
<1> QED  BY <1>3, <1>4, <1>6, <1>7, <1>8 DEF Pipeline

LEMMA QueueTimes ==
  ASSUME NEW q, IsEngine(q)
  PROVE  /\ q.currentQueueHead \in Nat
         /\ \A s \in DOMAIN q.queueMap : s \in Nat /\ s # NoHead
         /\ \A i \in DOMAIN q.evaluated : q.evaluated[i] \in Nat
         /\ q.toRemote \in Seq(Message)
         /\ \A i \in DOMAIN q.toRemote :
              q.toRemote[i] \in Message /\ q.toRemote[i].requestTimestep \in Nat
<1>1. \A m \in Message : m.requestTimestep \in Nat
  BY DEF Message
<1>2. q.evaluated \in Seq(Nat) /\ q.toRemote \in Seq(Message)
  BY DEF IsEngine
<1> QED  BY <1>1, <1>2, ElementOfSeq, LenProperties DEF IsEngine, IsMap

\* What is posted is at most as late as the head, which has not been evaluated.
LEMMA PostedUpToHead ==
  ASSUME NEW q, IsEngine(q), LowestHead(q), InOrder(q), PostedStarted(q),
         DOMAIN q.queueMap # {}, NEW i \in DOMAIN q.toRemote
  PROVE  LET m == q.toRemote[i]
         IN  \/ m.requestTimestep < q.currentQueueHead
             \/ m.requestTimestep = q.currentQueueHead /\ IsUpdate(m)
<1>1. q.currentQueueHead \in DOMAIN q.queueMap
  BY DEF LowestHead
<1>2. \A x : IsEvaluated(q, x) => x < q.currentQueueHead
  BY <1>1 DEF IsEvaluated, InOrder
<1> QED  BY <1>2 DEF PostedStarted, Started

(***************************************************************************)
(* SendMsg(UpdateRelation) of the current timestep.                        *)
(***************************************************************************)
LEMMA SendUpdatePipeline ==
  ASSUME NEW q, IsEngine(q), NEW t \in Nat \ {NoHead}, NEW r \in Relation, NEW plan,
         QueueOK(q, t), \A i \in DOMAIN q.evaluated : q.evaluated[i] < t,
         NEW S, NEW rem \in [Relation -> Nat], Pipeline(q, S, rem)
  PROVE  Pipeline(SendUpdate(q, t, r, plan), S \cup {<<t, r>>}, rem)
<1> DEFINE entry == JoinEntry(q, t, r, plan)
           later == [entry EXCEPT !.receivedValues = Append(@, r)]
           head  == IF q.currentQueueHead = NoHead THEN t ELSE q.currentQueueHead
           p     == SendUpdate(q, t, r, plan)
           msgs  == IF t = head THEN <<UpdateMsg(t, r, FALSE)>> ELSE <<>>
           S2    == S \cup {<<t, r>>}
<1>1. /\ \A s \in DOMAIN q.queueMap : s \in Nat /\ s # NoHead /\ q.queueMap[s] \in Entry
      /\ q.currentQueueHead \in Nat
      /\ q.toRemote \in Seq(Message)
      /\ \A i \in DOMAIN q.toRemote : q.toRemote[i].requestTimestep \in Nat
  BY QueueTimes DEF IsEngine, IsMap
<1>2. /\ entry.received = (IF t \in DOMAIN q.queueMap THEN q.queueMap[t].received ELSE {}) \cup {r}
      /\ later.received = entry.received
  BY <1>1 DEF JoinEntry, Entry
<1>3. UpdateMsg(t, r, FALSE) \in Message
  BY UpdateMsgType
<1>4. /\ p.evaluated = q.evaluated
      /\ p.currentQueueHead = head
      /\ p.queueMap = MapSet(q.queueMap, t, IF t = head THEN entry ELSE later)
      /\ p.toRemote = q.toRemote \o msgs
  <2> HIDE DEF entry
  <2>1. Append(q.toRemote, UpdateMsg(t, r, FALSE)) = q.toRemote \o <<UpdateMsg(t, r, FALSE)>>
    BY <1>1, <1>3, AppendIsConcat
  <2>2. q.toRemote = q.toRemote \o <<>>
    BY <1>1, ConcatEmptySeq
  <2> QED  BY <2>1, <2>2 DEF SendUpdate, IsEngine, entry
<1>5. /\ msgs \in Seq(Message)
      /\ \A j \in DOMAIN msgs : msgs[j] = UpdateMsg(t, r, FALSE) /\ j = 1 /\ t = head
      /\ t = head => 1 \in DOMAIN msgs
  <2>1. \A m \in Message : <<m>> \in Seq(Message)
    OBVIOUS
  <2>2. \A m : DOMAIN <<m>> = {1} /\ <<m>>[1] = m
    OBVIOUS
  <2>3. <<>> \in Seq(Message) /\ DOMAIN <<>> = {}
    OBVIOUS
  <2>4. CASE t = head
    BY <1>3, <2>1, <2>2, <2>4 DEF UpdateMsg
  <2>5. CASE t # head
    BY <2>3, <2>5
  <2> QED  BY <2>4, <2>5
<1>6. UpdateMsg(t, r, FALSE).requestTimestep = t /\ UpdateMsg(t, r, FALSE).relationName = r
      /\ IsUpdate(UpdateMsg(t, r, FALSE))
  BY DEF UpdateMsg, IsUpdate
<1> HIDE DEF entry, later, p, msgs
<1>7. /\ DOMAIN p.queueMap = DOMAIN q.queueMap \cup {t}
      /\ \A s \in DOMAIN q.queueMap \ {t} : p.queueMap[s] = q.queueMap[s]
      /\ p.queueMap[t].received
           = (IF t \in DOMAIN q.queueMap THEN q.queueMap[t].received ELSE {}) \cup {r}
  BY <1>2, <1>4 DEF MapSet
<1>8. \A x : /\ IsEvaluated(q, x) => IsEvaluated(p, x) /\ x < t
             /\ Started(q, x) => Started(p, x) /\ x <= t
  BY <1>1, <1>4 DEF IsEvaluated, Started, QueueOK, UpTo, LowestHead
<1>9. Ordered(msgs)
  <2> SUFFICES ASSUME NEW i \in DOMAIN msgs, NEW j \in DOMAIN msgs, i < j PROVE FALSE
    BY DEF Ordered
  <2>1. i = 1 /\ j = 1
    BY <1>5
  <2> QED  BY <2>1
<1>10. \A i \in DOMAIN q.toRemote, j \in DOMAIN msgs : Before(q.toRemote[i], msgs[j])
  <2> SUFFICES ASSUME NEW i \in DOMAIN q.toRemote, NEW j \in DOMAIN msgs
               PROVE  Before(q.toRemote[i], msgs[j])
    OBVIOUS
  <2>1. msgs[j].requestTimestep = t /\ IsUpdate(msgs[j])
    BY <1>5, <1>6
  <2> DEFINE u == q.toRemote[i].requestTimestep
  <2>2. u \in Nat
    BY <1>1
  <2>3. CASE IsUpdate(q.toRemote[i])
    <3>1. u <= t
      BY <1>8, <2>3 DEF Pipeline, PostedStarted
    <3> QED  BY <2>1, <2>2, <2>3, <3>1 DEF Before
  <2>4. CASE ~IsUpdate(q.toRemote[i])
    <3>1. u < t
      BY <1>8, <2>4 DEF Pipeline, PostedStarted
    <3> QED  BY <2>1, <3>1 DEF Before
  <2> QED  BY <2>3, <2>4
<1>11. \A j \in DOMAIN msgs :
         /\ IsUpdate(msgs[j]) /\ Started(p, msgs[j].requestTimestep)
         /\ <<msgs[j].requestTimestep, msgs[j].relationName>> \in S2
  BY <1>4, <1>5, <1>6 DEF Started
<1>12. \A x \in S2 : (x \in S /\ ~Waits(q, x)) \/ Waits(p, x) \/ Updates(msgs, x)
  <2> SUFFICES ASSUME NEW x \in S2, x \in S => Waits(q, x)
               PROVE  Waits(p, x) \/ Updates(msgs, x)
    OBVIOUS
  <2>1. CASE x = <<t, r>> /\ t = head
    <3>1. Updates(msgs, x)
      BY <1>5, <1>6, <2>1 DEF Updates
    <3> QED  BY <3>1
  <2>2. CASE x = <<t, r>> /\ t # head
    BY <1>4, <1>7, <2>2 DEF Waits
  <2>3. CASE Waits(q, x)
    <3>1. DOMAIN q.queueMap # {} /\ head = q.currentQueueHead
      BY <2>3 DEF Waits, QueueOK, LowestHead
    <3> QED  BY <1>4, <1>7, <2>3, <3>1 DEF Waits
  <2> QED  BY <2>1, <2>2, <2>3
<1>13. \A s \in DOMAIN p.queueMap : \A y \in p.queueMap[s].received : <<s, y>> \in S2
  BY <1>7 DEF Pipeline, Genuine
<1>14. \A y \in Relation, j \in DOMAIN msgs : rem[y] <= msgs[j].requestTimestep
  <2> SUFFICES ASSUME NEW y \in Relation, NEW j \in DOMAIN msgs
               PROVE  rem[y] <= msgs[j].requestTimestep
    OBVIOUS
  <2>1. msgs[j].requestTimestep = t
    BY <1>5, <1>6
  <2>2. rem[y] = 0 \/ rem[y] <= t
    BY <1>8 DEF Pipeline, NotAhead
  <2> QED  BY <2>1, <2>2
<1> HIDE DEF head
<1>15. S \subseteq S2
  OBVIOUS
<1>16. \A j \in DOMAIN msgs :
         IF IsUpdate(msgs[j])
         THEN /\ Started(p, msgs[j].requestTimestep)
              /\ <<msgs[j].requestTimestep, msgs[j].relationName>> \in S2
         ELSE IsEvaluated(p, msgs[j].requestTimestep)
  BY <1>11
<1>17. /\ msgs \in Seq(Message) /\ q.toRemote \in Seq(Message)
       /\ p.toRemote = q.toRemote \o msgs
       /\ \A x : (Started(q, x) => Started(p, x)) /\ (IsEvaluated(q, x) => IsEvaluated(p, x))
  BY <1>1, <1>4, <1>5, <1>8
<1> HIDE DEF S2
<1>18. Pipeline(p, S2, rem)
  BY <1>9, <1>10, <1>12, <1>13, <1>14, <1>15, <1>16, <1>17, PostMore
<1> QED  BY <1>18 DEF p, S2

(***************************************************************************)
(* evaluateQueueOnUpdateHandler asks for what the head ships.              *)
(***************************************************************************)
LEMMA ShippedPipeline ==
  ASSUME NEW q, IsEngine(q), LowestHead(q), InOrder(q), DOMAIN q.queueMap # {},
         NEW S, NEW rem \in [Relation -> Nat], Pipeline(q, S, rem)
  PROVE  LET p == Shipped(q, q.currentQueueHead)
         IN  Pipeline(p, S, rem) /\ IsEvaluated(p, q.currentQueueHead)
<1> DEFINE head == q.currentQueueHead
           ship == q.queueMap[head].relationsToShip
           msgs == [i \in 1..Len(ship) |-> ShipMsg(head, ship[i])]
           p    == Shipped(q, head)
<1>1. /\ head \in DOMAIN q.queueMap /\ head \in Nat \ {NoHead}
      /\ q.queueMap[head] \in Entry
      /\ q.toRemote \in Seq(Message) /\ q.evaluated \in Seq(Nat)
      /\ \A i \in DOMAIN q.toRemote : q.toRemote[i].requestTimestep \in Nat
  BY QueueTimes DEF IsEngine, IsMap, LowestHead
<1>2. p.queueMap = q.queueMap /\ p.currentQueueHead = head
      /\ p.evaluated = Append(q.evaluated, head) /\ p.toRemote = q.toRemote \o msgs
  BY DEF Shipped, IsEngine
<1>3. ship \in Seq(Event)
  BY <1>1 DEF Entry
<1> HIDE DEF ship, p, head
<1>4. /\ msgs \in Seq(Message)
      /\ \A j \in DOMAIN msgs : msgs[j].requestTimestep = head /\ ~IsUpdate(msgs[j])
  <2>1. ASSUME NEW j \in 1..Len(ship)
        PROVE  ShipMsg(head, ship[j]) \in Message
    <3>1. ship[j] \in Event
      BY <1>3, ElementOfSeq
    <3> QED  BY <1>1, <3>1, ShipMsgType
  <2>2. Len(ship) \in Nat
    BY <1>3
  <2>3. msgs \in Seq(Message)
    BY <2>1, <2>2, FunctionIsSeq
  <2> QED  BY <2>3 DEF ShipMsg, IsUpdate
<1> HIDE DEF msgs
<1>5. (\A x : IsEvaluated(q, x) => IsEvaluated(p, x)) /\ IsEvaluated(p, head)
  <2>1. /\ Len(q.evaluated) + 1 \in DOMAIN Append(q.evaluated, head)
        /\ Append(q.evaluated, head)[Len(q.evaluated) + 1] = head
        /\ \A i \in DOMAIN q.evaluated : i \in DOMAIN Append(q.evaluated, head)
             /\ Append(q.evaluated, head)[i] = q.evaluated[i]
    BY <1>1
  <2> QED  BY <1>2, <2>1 DEF IsEvaluated
<1>6. \A x : Started(q, x) => Started(p, x)
  BY <1>2, <1>5 DEF Started, head
<1>7. \A x : IsEvaluated(q, x) => x < head
  BY <1>1 DEF IsEvaluated, InOrder
<1>8. Ordered(msgs)
  <2> SUFFICES ASSUME NEW i \in DOMAIN msgs, NEW j \in DOMAIN msgs
               PROVE  Before(msgs[i], msgs[j])
    BY DEF Ordered
  <2> QED  BY <1>4 DEF Before
<1>9. \A i \in DOMAIN q.toRemote, j \in DOMAIN msgs : Before(q.toRemote[i], msgs[j])
  <2> SUFFICES ASSUME NEW i \in DOMAIN q.toRemote, NEW j \in DOMAIN msgs
               PROVE  Before(q.toRemote[i], msgs[j])
    OBVIOUS
  <2>1. q.toRemote[i].requestTimestep < head \/ q.toRemote[i].requestTimestep = head
    BY PostedUpToHead DEF Pipeline, head
  <2> QED  BY <1>4, <2>1 DEF Before
<1>10. \A r \in Relation, j \in DOMAIN msgs : rem[r] <= msgs[j].requestTimestep
  <2> SUFFICES ASSUME NEW r \in Relation PROVE rem[r] <= head
    BY <1>4
  <2>1. rem[r] = 0 \/ Started(q, rem[r])
    BY DEF Pipeline, NotAhead
  <2>2. rem[r] = 0 \/ rem[r] = head \/ rem[r] < head
    BY <1>7, <2>1 DEF Started, head
  <2> QED  BY <1>1, <2>2
<1>11. \A x \in S : (x \in S /\ ~Waits(q, x)) \/ Waits(p, x) \/ Updates(msgs, x)
  BY <1>2 DEF Waits, head
<1>12. \A s \in DOMAIN p.queueMap : \A r \in p.queueMap[s].received : <<s, r>> \in S
  BY <1>2 DEF Pipeline, Genuine
<1>13. \A j \in DOMAIN msgs :
         IF IsUpdate(msgs[j])
         THEN /\ Started(p, msgs[j].requestTimestep)
              /\ <<msgs[j].requestTimestep, msgs[j].relationName>> \in S
         ELSE IsEvaluated(p, msgs[j].requestTimestep)
  BY <1>4, <1>5
<1>14. \A x : (Started(q, x) => Started(p, x)) /\ (IsEvaluated(q, x) => IsEvaluated(p, x))
  BY <1>5, <1>6
<1>15. Pipeline(p, S, rem)
  BY <1>1, <1>2, <1>4, <1>8, <1>9, <1>10, <1>11, <1>12, <1>13, <1>14, PostMore
<1> QED  BY <1>5, <1>15 DEF p, head

(***************************************************************************)
(* nextQueue drops the head and loads the lowest entry that remains: each  *)
(* update the entry received is posted.                                    *)
(***************************************************************************)
Loads(msgs, t, received) ==
  /\ msgs \in Seq(Message)
  /\ \A j \in DOMAIN msgs :
       /\ IsUpdate(msgs[j]) /\ msgs[j].requestTimestep = t
       /\ msgs[j].relationName \in received
  /\ \A r \in received : \E j \in DOMAIN msgs : msgs[j].relationName = r

LEMMA NextQueueLoads ==
  ASSUME NEW q, IsEngine(q), WaitingComplete(q)
  PROVE  LET p    == NextQueue(q)
             rest == DOMAIN q.queueMap \ {q.currentQueueHead}
             head == p.currentQueueHead
         IN  /\ p.evaluated = q.evaluated
             /\ DOMAIN p.queueMap = rest
             /\ \A t \in rest : p.queueMap[t] = q.queueMap[t]
             /\ rest = {} => head = NoHead /\ p.toRemote = q.toRemote
             /\ rest # {} =>
                  /\ head \in rest /\ head \in Nat \ {NoHead}
                  /\ q.queueMap[head].received # {}
                  /\ \E msgs : /\ p.toRemote = q.toRemote \o msgs
                               /\ Loads(msgs, head, q.queueMap[head].received)
<1> DEFINE rest   == MapDelete(q.queueMap, q.currentQueueHead)
           head   == Min(DOMAIN rest)
           values == rest[head].receivedValues
           loaded == [i \in 1..Len(values) |-> UpdateMsg(head, values[i], TRUE)]
           p      == NextQueue(q)
<1>1. /\ DOMAIN rest = DOMAIN q.queueMap \ {q.currentQueueHead}
      /\ \A t \in DOMAIN rest : t \in Nat \ {NoHead} /\ rest[t] = q.queueMap[t]
                                /\ rest[t] \in Entry
  BY DEF MapDelete, IsEngine, IsMap
<1>2. CASE DOMAIN rest = {}
  <2>1. /\ p.queueMap = rest /\ p.currentQueueHead = NoHead
        /\ p.evaluated = q.evaluated /\ p.toRemote = q.toRemote
    <3> HIDE DEF rest
    <3> QED  BY <1>2 DEF NextQueue, IsEngine, rest
  <2> HIDE DEF p, rest
  <2> QED  BY <1>1, <1>2, <2>1 DEF p
<1>3. CASE DOMAIN rest # {}
  <2>1. head \in DOMAIN rest /\ head \in Nat \ {NoHead}
    <3> HIDE DEF rest
    <3>1. DOMAIN rest \in SUBSET Nat
      BY <1>1
    <3> QED  BY <1>1, <1>3, <3>1, MinOfNat
  <2>2. /\ p.queueMap = rest /\ p.currentQueueHead = head
        /\ p.evaluated = q.evaluated /\ p.toRemote = q.toRemote \o loaded
    <3> HIDE DEF rest, head
    <3> QED  BY <1>3 DEF NextQueue, IsEngine, rest, head
  <2>3. /\ values \in Seq(Relation)
        /\ {values[i] : i \in DOMAIN values} = rest[head].received
        /\ rest[head].received # {}
    <3> HIDE DEF rest, head
    <3> QED  BY <1>1, <2>1 DEF Entry, WaitingComplete
  <2> HIDE DEF p, head, values
  <2>4. Loads(loaded, head, rest[head].received)
    <3>1. ASSUME NEW j \in 1..Len(values)
          PROVE  UpdateMsg(head, values[j], TRUE) \in Message
      <4>1. values[j] \in Relation /\ head \in Nat /\ TRUE \in BOOLEAN
        BY <2>1, <2>3, ElementOfSeq
      <4> QED  BY <4>1, UpdateMsgType
    <3>2. Len(values) \in Nat /\ DOMAIN values = 1..Len(values)
      BY <2>3
    <3>3. loaded \in Seq(Message)
      BY <3>1, <3>2, FunctionIsSeq
    <3>4. DOMAIN loaded = DOMAIN values
          /\ \A j \in DOMAIN loaded : loaded[j] = UpdateMsg(head, values[j], TRUE)
      BY <3>2
    <3> HIDE DEF loaded
    <3>5. ASSUME NEW j \in DOMAIN loaded
          PROVE  /\ IsUpdate(loaded[j]) /\ loaded[j].requestTimestep = head
                 /\ loaded[j].relationName = values[j]
      BY <3>4 DEF UpdateMsg, IsUpdate
    <3>6. \A r \in rest[head].received : \E j \in DOMAIN loaded : loaded[j].relationName = r
      BY <2>3, <3>4, <3>5
    <3>7. \A j \in DOMAIN loaded : values[j] \in rest[head].received
      BY <2>3, <3>4
    <3> QED  BY <3>3, <3>5, <3>6, <3>7 DEF Loads
  <2> HIDE DEF loaded, rest
  <2>5. p.currentQueueHead \in DOMAIN rest /\ rest[p.currentQueueHead] = q.queueMap[p.currentQueueHead]
    BY <1>1, <2>1, <2>2
  <2> QED  BY <1>1, <1>3, <2>1, <2>2, <2>3, <2>4, <2>5 DEF p
<1> QED  BY <1>2, <1>3

\* nextQueue, called when the head has just been evaluated.
LEMMA NextQueuePipeline ==
  ASSUME NEW q, IsEngine(q), WaitingComplete(q), IsEvaluated(q, q.currentQueueHead),
         \A i \in DOMAIN q.evaluated, t \in DOMAIN q.queueMap \ {q.currentQueueHead} :
           q.evaluated[i] < t,
         NEW S, NEW rem \in [Relation -> Nat], Pipeline(q, S, rem)
  PROVE  Pipeline(NextQueue(q), S, rem)
<1> DEFINE p    == NextQueue(q)
           rest == DOMAIN q.queueMap \ {q.currentQueueHead}
           head == p.currentQueueHead
<1>1. /\ p.evaluated = q.evaluated
      /\ DOMAIN p.queueMap = rest
      /\ \A t \in rest : p.queueMap[t] = q.queueMap[t]
      /\ rest = {} => head = NoHead /\ p.toRemote = q.toRemote
      /\ rest # {} =>
           /\ head \in rest /\ head \in Nat \ {NoHead}
           /\ \E msgs : /\ p.toRemote = q.toRemote \o msgs
                        /\ Loads(msgs, head, q.queueMap[head].received)
  BY NextQueueLoads
<1> HIDE DEF p
<1>2. /\ q.toRemote \in Seq(Message)
      /\ \A i \in DOMAIN q.toRemote : q.toRemote[i].requestTimestep \in Nat
  BY QueueTimes
<1>3. \A x : Started(q, x) <=> IsEvaluated(q, x)
  BY DEF Started
<1>4. \A x : (Started(q, x) => Started(p, x)) /\ (IsEvaluated(q, x) => IsEvaluated(p, x))
  BY <1>1, <1>3 DEF Started, IsEvaluated
<1>5. \A s \in DOMAIN p.queueMap : \A r \in p.queueMap[s].received : <<s, r>> \in S
  BY <1>1 DEF Pipeline, Genuine
<1>6. CASE rest = {}
  <2>1. <<>> \in Seq(Message) /\ DOMAIN <<>> = {} /\ q.toRemote = q.toRemote \o <<>>
    BY <1>2, ConcatEmptySeq
  <2>2. \A x : ~Waits(q, x)
    BY <1>6 DEF Waits
  <2>3. Ordered(<<>>)
    BY <2>1 DEF Ordered
  <2> DEFINE none == <<>>
  <2>4. /\ none \in Seq(Message) /\ DOMAIN none = {} /\ p.toRemote = q.toRemote \o none
        /\ Ordered(none)
    BY <1>1, <1>6, <2>1, <2>3
  <2> HIDE DEF none
  <2>5. Pipeline(p, S, rem)
    BY <1>2, <1>4, <1>5, <2>2, <2>4, PostMore
  <2> QED  BY <2>5 DEF p
<1>7. CASE rest # {}
  <2>1. PICK msgs : /\ p.toRemote = q.toRemote \o msgs
                    /\ Loads(msgs, head, q.queueMap[head].received)
    BY <1>1, <1>7
  <2>2. msgs \in Seq(Message)
    BY <2>1 DEF Loads
  <2>3. \A j \in DOMAIN msgs :
          /\ IsUpdate(msgs[j]) /\ msgs[j].requestTimestep = head
          /\ msgs[j].relationName \in q.queueMap[head].received
    BY <2>1 DEF Loads
  <2>4. head \in rest /\ head \in Nat \ {NoHead}
    BY <1>1, <1>7
  <2>5. \A x : IsEvaluated(q, x) => x < head
    BY <2>4 DEF IsEvaluated
  <2>6. Started(p, head)
    BY <2>4 DEF Started
  <2> HIDE DEF head
  <2>7. Ordered(msgs)
    <3> SUFFICES ASSUME NEW i \in DOMAIN msgs, NEW j \in DOMAIN msgs
                 PROVE  Before(msgs[i], msgs[j])
      BY DEF Ordered
    <3> QED  BY <2>3 DEF Before
  <2>8. \A i \in DOMAIN q.toRemote, j \in DOMAIN msgs : Before(q.toRemote[i], msgs[j])
    <3> SUFFICES ASSUME NEW i \in DOMAIN q.toRemote, NEW j \in DOMAIN msgs
                 PROVE  Before(q.toRemote[i], msgs[j])
      OBVIOUS
    <3>1. q.toRemote[i].requestTimestep < head
      BY <1>3, <2>5 DEF Pipeline, PostedStarted
    <3> QED  BY <2>3, <3>1 DEF Before
  <2>9. \A r \in Relation, j \in DOMAIN msgs : rem[r] <= msgs[j].requestTimestep
    <3> SUFFICES ASSUME NEW r \in Relation PROVE rem[r] <= head
      BY <2>3
    <3>1. rem[r] = 0 \/ rem[r] < head
      BY <1>3, <2>5 DEF Pipeline, NotAhead
    <3> QED  BY <2>4, <3>1
  <2>10. \A j \in DOMAIN msgs :
           IF IsUpdate(msgs[j])
           THEN /\ Started(p, msgs[j].requestTimestep)
                /\ <<msgs[j].requestTimestep, msgs[j].relationName>> \in S
           ELSE IsEvaluated(p, msgs[j].requestTimestep)
    BY <2>3, <2>4, <2>6 DEF Pipeline, Genuine
  <2>11. \A x \in S : (x \in S /\ ~Waits(q, x)) \/ Waits(p, x) \/ Updates(msgs, x)
    <3> SUFFICES ASSUME NEW x \in S, Waits(q, x) PROVE Waits(p, x) \/ Updates(msgs, x)
      OBVIOUS
    <3>1. x[1] \in rest /\ x[2] \in q.queueMap[x[1]].received
      BY DEF Waits
    <3>2. CASE x[1] # head
      BY <1>1, <3>1, <3>2 DEF Waits, head
    <3>3. CASE x[1] = head
      <4>1. PICK j \in DOMAIN msgs : msgs[j].relationName = x[2]
        BY <2>1, <3>1, <3>3 DEF Loads
      <4> QED  BY <2>3, <3>3, <4>1 DEF Updates
    <3> QED  BY <3>2, <3>3
  <2>12. Pipeline(p, S, rem)
    BY <1>2, <1>4, <1>5, <2>1, <2>2, <2>7, <2>8, <2>9, <2>10, <2>11, PostMore
  <2> QED  BY <2>12 DEF p
<1> QED  BY <1>6, <1>7

\* Only the promises change.
LEMMA SamePipeline ==
  ASSUME NEW q, NEW p, NEW S, NEW rem, Pipeline(q, S, rem),
         p.queueMap = q.queueMap, p.currentQueueHead = q.currentQueueHead,
         p.evaluated = q.evaluated, p.toRemote = q.toRemote
  PROVE  Pipeline(p, S, rem)
BY DEF Pipeline, PostedStarted, Accounted, Genuine, NotAhead, Waits, Started, IsEvaluated

(***************************************************************************)
(* An evaluation: nothing can be done, or the head is taken up.            *)
(***************************************************************************)
Resting(q) == q.currentQueueHead = NoHead \/ Blocked(q)

LEMMA EvaluateRests ==
  ASSUME NEW q, IsEngine(q), LowestHead(q)
  PROVE  \/ Evaluate(q) = q /\ Resting(q)
         \/ /\ q.currentQueueHead \in DOMAIN q.queueMap
            /\ Evaluate(q) = NextQueue(Shipped(q, q.currentQueueHead))
<1>1. CASE q.currentQueueHead = NoHead
  <2>1. q.currentQueueHead \notin DOMAIN q.queueMap /\ DOMAIN q.queueMap = {}
    BY <1>1 DEF LowestHead
  <2> QED  BY <1>1, <2>1 DEF Evaluate, Resting
<1>2. CASE q.currentQueueHead # NoHead
  <2>1. q.currentQueueHead \in DOMAIN q.queueMap
    BY <1>2 DEF LowestHead
  <2>2. [q EXCEPT !.currentQueueHead = q.currentQueueHead] = q
    BY DEF IsEngine
  <2>3. CASE Blocked(q)
    BY <1>2, <2>1, <2>2, <2>3 DEF Evaluate, Blocked, Resting
  <2>4. CASE ~Blocked(q)
    BY <1>2, <2>1, <2>4 DEF Evaluate, Blocked, Shipped
  <2> QED  BY <2>3, <2>4
<1> QED  BY <1>1, <1>2

\* What an evaluation takes up: at most the lowest timestep that waits.
TakesUpHead(q, p) ==
  \/ p.evaluated = q.evaluated /\ DOMAIN p.queueMap = DOMAIN q.queueMap
  \/ \E t \in DOMAIN q.queueMap :
       /\ \A u \in DOMAIN q.queueMap : t <= u
       /\ p.evaluated = Append(q.evaluated, t)
       /\ DOMAIN p.queueMap = DOMAIN q.queueMap \ {t}

HasUpdate(s) == \E i \in DOMAIN s : IsUpdate(s[i])

LEMMA AppendEvaluated ==
  ASSUME NEW q, NEW p, NEW t, q.evaluated \in Seq(Nat), t \in Nat,
         p.evaluated = Append(q.evaluated, t)
  PROVE  IsEvaluated(p, t) /\ \A x : IsEvaluated(q, x) => IsEvaluated(p, x)
<1>1. /\ Len(q.evaluated) + 1 \in DOMAIN Append(q.evaluated, t)
      /\ Append(q.evaluated, t)[Len(q.evaluated) + 1] = t
      /\ \A i \in DOMAIN q.evaluated : i \in DOMAIN Append(q.evaluated, t)
           /\ Append(q.evaluated, t)[i] = q.evaluated[i]
  OBVIOUS
<1> QED  BY <1>1 DEF IsEvaluated

\* An evaluation that takes the head up.
LEMMA TakeUpHead ==
  ASSUME NEW q, IsEngine(q), LowestHead(q), InOrder(q), WaitingComplete(q),
         q.currentQueueHead \in DOMAIN q.queueMap
  PROVE  LET s == Shipped(q, q.currentQueueHead)
             p == NextQueue(s)
         IN  /\ TakesUpHead(q, p)
             /\ \A t : IsEvaluated(q, t) => IsEvaluated(p, t)
             /\ \A S : \A rem \in [Relation -> Nat] :
                  Pipeline(q, S, rem) => Pipeline(p, S, rem)
             /\ Resting(p) \/ HasUpdate(p.toRemote)
<1> DEFINE head == q.currentQueueHead
           s    == Shipped(q, head)
           p    == NextQueue(s)
<1>1. s.queueMap = q.queueMap /\ s.currentQueueHead = head
      /\ s.evaluated = Append(q.evaluated, head)
  BY DEF Shipped, IsEngine
<1>2. IsEngine(s) /\ WaitingComplete(s)
  BY ShippedType, ShippedWaiting
<1>3. /\ head \in Nat \ {NoHead} /\ q.evaluated \in Seq(Nat)
      /\ \A t \in DOMAIN q.queueMap : t \in Nat /\ head <= t
  BY DEF IsEngine, IsMap, LowestHead
<1> HIDE DEF s
<1>4. IsEvaluated(s, head) /\ \A t : IsEvaluated(q, t) => IsEvaluated(s, t)
  BY <1>1, <1>3, AppendEvaluated
<1>5. /\ p.evaluated = s.evaluated
      /\ DOMAIN p.queueMap = DOMAIN s.queueMap \ {s.currentQueueHead}
      /\ p.currentQueueHead = NoHead \/
           /\ s.queueMap[p.currentQueueHead].received # {}
           /\ \E msgs : /\ p.toRemote = s.toRemote \o msgs
                        /\ Loads(msgs, p.currentQueueHead,
                                 s.queueMap[p.currentQueueHead].received)
  BY <1>2, NextQueueLoads
<1> HIDE DEF p
<1>6. TakesUpHead(q, p)
  BY <1>1, <1>3, <1>5 DEF TakesUpHead
<1>7. \A t : IsEvaluated(q, t) => IsEvaluated(p, t)
  BY <1>4, <1>5 DEF IsEvaluated
<1>8. Resting(p) \/ HasUpdate(p.toRemote)
  <2> SUFFICES ASSUME p.currentQueueHead # NoHead PROVE HasUpdate(p.toRemote)
    BY DEF Resting
  <2>1. PICK msgs : /\ p.toRemote = s.toRemote \o msgs
                    /\ Loads(msgs, p.currentQueueHead,
                             s.queueMap[p.currentQueueHead].received)
    BY <1>5
  <2>2. PICK j \in DOMAIN msgs : IsUpdate(msgs[j])
    BY <1>5, <2>1 DEF Loads
  <2>3. msgs \in Seq(Message) /\ s.toRemote \in Seq(Message)
    BY <1>2, <2>1 DEF Loads, IsEngine
  <2>4. /\ j + Len(s.toRemote) \in DOMAIN p.toRemote
        /\ p.toRemote[j + Len(s.toRemote)] = msgs[j]
    BY <2>1, <2>3, ConcatElements
  <2> QED  BY <2>2, <2>4 DEF HasUpdate
<1>9. ASSUME NEW S, NEW rem \in [Relation -> Nat], Pipeline(q, S, rem)
      PROVE  Pipeline(p, S, rem)
  <2>1. Pipeline(s, S, rem)
    BY <1>9, ShippedPipeline DEF s
  <2>2. \A i \in DOMAIN s.evaluated, t \in DOMAIN s.queueMap \ {s.currentQueueHead} :
          s.evaluated[i] < t
    <3> SUFFICES ASSUME NEW i \in DOMAIN s.evaluated, NEW t \in DOMAIN q.queueMap, t # head
                 PROVE  s.evaluated[i] < t
      BY <1>1
    <3>1. CASE i \in DOMAIN q.evaluated /\ s.evaluated[i] = q.evaluated[i]
      BY <3>1 DEF InOrder
    <3>2. CASE s.evaluated[i] = head
      BY <1>3, <3>2
    <3>3. s.evaluated[i] = head \/ (i \in DOMAIN q.evaluated /\ s.evaluated[i] = q.evaluated[i])
      BY <1>1, <1>3
    <3> QED  BY <3>1, <3>2, <3>3
  <2>3. IsEvaluated(s, s.currentQueueHead)
    BY <1>1, <1>4
  <2>4. Pipeline(NextQueue(s), S, rem)
    BY <1>2, <2>1, <2>2, <2>3, NextQueuePipeline
  <2> QED  BY <2>4 DEF p
<1> QED  BY <1>6, <1>7, <1>8, <1>9 DEF p, s

LEMMA EvaluatePipeline ==
  ASSUME NEW q, IsEngine(q), LowestHead(q), InOrder(q), WaitingComplete(q)
  PROVE  LET p == Evaluate(q)
         IN  /\ TakesUpHead(q, p)
             /\ \A t : IsEvaluated(q, t) => IsEvaluated(p, t)
             /\ \A S : \A rem \in [Relation -> Nat] :
                  Pipeline(q, S, rem) => Pipeline(p, S, rem)
             /\ Resting(p) \/ HasUpdate(p.toRemote)
<1>1. CASE Evaluate(q) = q /\ Resting(q)
  BY <1>1 DEF TakesUpHead
<1>2. CASE /\ q.currentQueueHead \in DOMAIN q.queueMap
           /\ Evaluate(q) = NextQueue(Shipped(q, q.currentQueueHead))
  BY <1>2, TakeUpHead
<1> QED  BY <1>1, <1>2, EvaluateRests

(***************************************************************************)
(* The reply to an update takes up as many as two timesteps.               *)
(***************************************************************************)
LEMMA HandleUpdateReplyPipeline ==
  ASSUME NEW q, IsEngine(q), NEW now \in Nat, QueueOK(q, now),
         NEW m \in Message, NEW failed \in BOOLEAN
  PROVE  LET p == HandleUpdateReply(q, m, failed)
         IN  /\ \E s : TakesUpHead(q, s) /\ TakesUpHead(s, p)
             /\ \A t : IsEvaluated(q, t) => IsEvaluated(p, t)
             /\ \A S : \A rem \in [Relation -> Nat] :
                  Pipeline(q, S, rem) => Pipeline(p, S, rem)
             /\ Resting(p) \/ HasUpdate(p.toRemote)
<1> DEFINE settled   == SettlePromise(q, m, failed)
           evaluated == Evaluate(settled)
           p         == HandleUpdateReply(q, m, failed)
<1>1. /\ IsEngine(settled) /\ QueueOK(settled, now)
      /\ settled.queueMap = q.queueMap /\ settled.evaluated = q.evaluated
      /\ settled.currentQueueHead = q.currentQueueHead
  <2>1. m.requestTimestep \in Nat /\ m.isPromise \in BOOLEAN
    BY DEF Message
  <2> QED  BY <2>1, SettlePromiseType, SameQueueOK
<1>2. settled.toRemote = q.toRemote
  BY DEF SettlePromise, IsEngine
<1>3. p = evaluated \/ p = Evaluate(evaluated)
  BY DEF HandleUpdateReply
<1> HIDE DEF settled, p
<1>4. /\ \A S : \A rem \in [Relation -> Nat] : Pipeline(q, S, rem) => Pipeline(settled, S, rem)
      /\ \A t : IsEvaluated(q, t) => IsEvaluated(settled, t)
      /\ \A s : TakesUpHead(settled, s) => TakesUpHead(q, s)
  BY <1>1, <1>2, SamePipeline DEF IsEvaluated, TakesUpHead
<1>5. IsEngine(evaluated) /\ QueueOK(evaluated, now)
  BY <1>1, EvaluateType, EvaluateOK DEF QueueOK
<1>6. /\ TakesUpHead(settled, evaluated)
      /\ \A t : IsEvaluated(settled, t) => IsEvaluated(evaluated, t)
      /\ \A S : \A rem \in [Relation -> Nat] :
           Pipeline(settled, S, rem) => Pipeline(evaluated, S, rem)
      /\ Resting(evaluated) \/ HasUpdate(evaluated.toRemote)
  BY <1>1, EvaluatePipeline DEF QueueOK
<1> HIDE DEF evaluated
<1>7. CASE p = evaluated
  <2>1. TakesUpHead(evaluated, evaluated)
    BY DEF TakesUpHead
  <2> QED  BY <1>4, <1>6, <1>7, <2>1 DEF p
<1>8. CASE p = Evaluate(evaluated)
  <2>1. /\ TakesUpHead(evaluated, p)
        /\ \A t : IsEvaluated(evaluated, t) => IsEvaluated(p, t)
        /\ \A S : \A rem \in [Relation -> Nat] :
             Pipeline(evaluated, S, rem) => Pipeline(p, S, rem)
        /\ Resting(p) \/ HasUpdate(p.toRemote)
    BY <1>5, <1>8, EvaluatePipeline DEF QueueOK
  <2> QED  BY <1>4, <1>6, <2>1 DEF p
<1> QED  BY <1>3, <1>7, <1>8

(***************************************************************************)
(* The database executes the first message.                                *)
(***************************************************************************)
LEMMA TailElements ==
  ASSUME NEW T, NEW s \in Seq(T), s # <<>>
  PROVE  /\ Tail(s) \in Seq(T)
         /\ 1 \in DOMAIN s /\ Head(s) = s[1]
         /\ \A k \in DOMAIN Tail(s) :
              k \in Nat /\ 1 < k + 1 /\ k + 1 \in DOMAIN s /\ Tail(s)[k] = s[k + 1]
         /\ \A i \in DOMAIN s :
              i = 1 \/ (1 < i /\ i - 1 \in DOMAIN Tail(s) /\ Tail(s)[i - 1] = s[i])
OBVIOUS

\* The other messages stay in order, and they are not earlier than the first.
LEMMA FirstOut ==
  ASSUME NEW q, IsEngine(q), q.toRemote # <<>>, NEW S, NEW rem \in [Relation -> Nat],
         Pipeline(q, S, rem)
  PROVE  LET m == Head(q.toRemote)
             s == Tail(q.toRemote)
             p == [q EXCEPT !.toRemote = s]
         IN  /\ m \in Message
             /\ Ordered(s) /\ PostedStarted(p)
             /\ \A k \in DOMAIN s : Before(m, s[k]) /\ s[k].requestTimestep \in Nat
             /\ \A x : Updates(q.toRemote, x) =>
                  \/ Updates(s, x)
                  \/ IsUpdate(m) /\ m.requestTimestep = x[1] /\ m.relationName = x[2]
             /\ \A r \in Relation : rem[r] <= m.requestTimestep
             /\ \A r \in Relation, k \in DOMAIN s : rem[r] <= s[k].requestTimestep
             /\ \A k \in DOMAIN s : IsUpdate(s[k]) =>
                  <<s[k].requestTimestep, s[k].relationName>> \in S
             /\ IsUpdate(m) => <<m.requestTimestep, m.relationName>> \in S
             /\ IF IsUpdate(m) THEN Started(q, m.requestTimestep)
                               ELSE IsEvaluated(q, m.requestTimestep)
<1> DEFINE a == q.toRemote
           m == Head(a)
           s == Tail(a)
           p == [q EXCEPT !.toRemote = s]
<1>1. a \in Seq(Message) /\ a # <<>>
  BY QueueTimes
<1>2. /\ s \in Seq(Message) /\ 1 \in DOMAIN a /\ m = a[1]
      /\ \A k \in DOMAIN s :
           k \in Nat /\ 1 < k + 1 /\ k + 1 \in DOMAIN a /\ s[k] = a[k + 1]
      /\ \A i \in DOMAIN a :
           i = 1 \/ (1 < i /\ i - 1 \in DOMAIN s /\ s[i - 1] = a[i])
  BY <1>1, TailElements
<1>3. p.toRemote = s /\ p.evaluated = q.evaluated /\ p.queueMap = q.queueMap
      /\ p.currentQueueHead = q.currentQueueHead
  BY DEF IsEngine
<1>4. m \in Message
  BY <1>1, <1>2, ElementOfSeq
<1> HIDE DEF m, s, p
<1>5. Ordered(s)
  <2> SUFFICES ASSUME NEW i \in DOMAIN s, NEW j \in DOMAIN s, i < j
               PROVE  Before(s[i], s[j])
    BY DEF Ordered
  <2>1. i + 1 < j + 1
    BY <1>2
  <2> QED  BY <1>2, <2>1 DEF Pipeline, Ordered
<1>6. PostedStarted(p)
  <2>1. \A t : /\ Started(q, t) <=> Started(p, t)
               /\ IsEvaluated(q, t) <=> IsEvaluated(p, t)
    BY <1>3 DEF Started, IsEvaluated
  <2> SUFFICES ASSUME NEW k \in DOMAIN s
               PROVE  IF IsUpdate(s[k]) THEN Started(q, s[k].requestTimestep)
                                        ELSE IsEvaluated(q, s[k].requestTimestep)
    BY <1>3, <2>1 DEF PostedStarted
  <2> QED  BY <1>2 DEF Pipeline, PostedStarted
<1>7. \A k \in DOMAIN s : Before(m, s[k]) /\ s[k].requestTimestep \in Nat
  <2>1. \A i \in DOMAIN a : a[i].requestTimestep \in Nat
    BY QueueTimes
  <2> HIDE DEF a
  <2> QED  BY <1>2, <2>1 DEF Pipeline, Ordered, a
<1>8. ASSUME NEW x, Updates(a, x)
      PROVE  \/ Updates(s, x)
             \/ IsUpdate(m) /\ m.requestTimestep = x[1] /\ m.relationName = x[2]
  <2>1. PICK i \in DOMAIN a :
          IsUpdate(a[i]) /\ a[i].requestTimestep = x[1] /\ a[i].relationName = x[2]
    BY <1>8 DEF Updates
  <2>2. CASE i = 1
    BY <1>2, <2>1, <2>2
  <2>3. CASE i - 1 \in DOMAIN s /\ s[i - 1] = a[i]
    BY <2>1, <2>3 DEF Updates
  <2> QED  BY <1>2, <2>2, <2>3
<1>9. /\ \A r \in Relation : rem[r] <= m.requestTimestep
      /\ \A r \in Relation, k \in DOMAIN s : rem[r] <= s[k].requestTimestep
  BY <1>2 DEF Pipeline, NotAhead
<1>10. /\ \A k \in DOMAIN s : IsUpdate(s[k]) =>
            <<s[k].requestTimestep, s[k].relationName>> \in S
       /\ IsUpdate(m) => <<m.requestTimestep, m.relationName>> \in S
  BY <1>2 DEF Pipeline, Genuine
<1>11. IF IsUpdate(m) THEN Started(q, m.requestTimestep)
                      ELSE IsEvaluated(q, m.requestTimestep)
  BY <1>2 DEF Pipeline, PostedStarted
<1> QED  BY <1>4, <1>5, <1>6, <1>7, <1>8, <1>9, <1>10, <1>11 DEF m, s, p

LEMMA ExecuteUpdatePipeline ==
  ASSUME NEW q, IsEngine(q), q.toRemote # <<>>,
         NEW S \in SUBSET (Nat \X Relation), NEW rem \in [Relation -> Nat],
         Pipeline(q, S, rem), IsUpdate(Head(q.toRemote))
  PROVE  LET m == Head(q.toRemote)
         IN  Pipeline([q EXCEPT !.toRemote = Tail(q.toRemote)], S,
                      [rem EXCEPT ![m.relationName] = m.requestTimestep])
<1> DEFINE m    == Head(q.toRemote)
           t    == m.requestTimestep
           s    == Tail(q.toRemote)
           p    == [q EXCEPT !.toRemote = s]
           rem2 == [rem EXCEPT ![m.relationName] = t]
<1>1. /\ m \in Message
      /\ Ordered(s) /\ PostedStarted(p)
      /\ \A k \in DOMAIN s : Before(m, s[k]) /\ s[k].requestTimestep \in Nat
      /\ \A x : Updates(q.toRemote, x) =>
           Updates(s, x) \/ (t = x[1] /\ m.relationName = x[2])
      /\ \A r \in Relation : rem[r] <= t
      /\ \A r \in Relation, k \in DOMAIN s : rem[r] <= s[k].requestTimestep
      /\ \A k \in DOMAIN s : IsUpdate(s[k]) =>
           <<s[k].requestTimestep, s[k].relationName>> \in S
      /\ <<t, m.relationName>> \in S
      /\ Started(q, t)
  BY FirstOut
<1>2. p.toRemote = s /\ p.evaluated = q.evaluated /\ p.queueMap = q.queueMap
      /\ p.currentQueueHead = q.currentQueueHead
  BY DEF IsEngine
<1>3. t \in Nat /\ m.relationName \in Relation
  BY <1>1
<1>4. \A r \in Relation : rem2[r] = IF r = m.relationName THEN t ELSE rem[r]
  OBVIOUS
<1> HIDE DEF m, t, s, p, rem2
<1>5. Accounted(p, S, rem2)
  <2> SUFFICES ASSUME NEW x \in S
               PROVE  x[1] <= rem2[x[2]] \/ Updates(s, x) \/ Waits(p, x)
    BY <1>2 DEF Accounted
  <2>1. x[1] \in Nat /\ x[2] \in Relation
    OBVIOUS
  <2>2. x[1] <= rem[x[2]] \/ Updates(q.toRemote, x) \/ Waits(q, x)
    BY DEF Pipeline, Accounted
  <2>3. CASE x[1] <= rem[x[2]]
    <3>1. rem[x[2]] \in Nat /\ rem[x[2]] <= t
      BY <1>1, <2>1
    <3> QED  BY <1>3, <1>4, <2>1, <2>3, <3>1
  <2>4. CASE Updates(q.toRemote, x)
    BY <1>1, <1>3, <1>4, <2>1, <2>4
  <2>5. CASE Waits(q, x)
    BY <1>2, <2>5 DEF Waits
  <2> QED  BY <2>2, <2>3, <2>4, <2>5
<1>6. Genuine(p, S, rem2)
  <2>1. \A r \in Relation : rem2[r] = 0 \/ <<rem2[r], r>> \in S
    BY <1>1, <1>4 DEF Pipeline, Genuine
  <2> QED  BY <1>1, <1>2, <2>1 DEF Pipeline, Genuine
<1>7. NotAhead(p, rem2)
  <2> SUFFICES ASSUME NEW r \in Relation
               PROVE  /\ \A k \in DOMAIN s : rem2[r] <= s[k].requestTimestep
                      /\ rem2[r] = 0 \/ Started(p, rem2[r])
    BY <1>2 DEF NotAhead
  <2>1. \A x : Started(p, x) <=> Started(q, x)
    BY <1>2 DEF Started, IsEvaluated
  <2>2. CASE r = m.relationName
    <3>1. \A k \in DOMAIN s : t <= s[k].requestTimestep
      BY <1>1, <1>3 DEF Before, t
    <3> QED  BY <1>1, <1>4, <2>1, <2>2, <3>1
  <2>3. CASE r # m.relationName
    BY <1>1, <1>4, <2>1, <2>3 DEF Pipeline, NotAhead
  <2> QED  BY <2>2, <2>3
<1>8. Pipeline(p, S, rem2)
  BY <1>1, <1>2, <1>5, <1>6, <1>7 DEF Pipeline
<1> QED  BY <1>8 DEF p, rem2, m, t, s

LEMMA ExecuteShipPipeline ==
  ASSUME NEW q, IsEngine(q), q.toRemote # <<>>,
         NEW S, NEW rem \in [Relation -> Nat],
         Pipeline(q, S, rem), ~IsUpdate(Head(q.toRemote))
  PROVE  Pipeline([q EXCEPT !.toRemote = Tail(q.toRemote)], S, rem)
<1> DEFINE s == Tail(q.toRemote)
           p == [q EXCEPT !.toRemote = s]
<1>1. /\ Ordered(s) /\ PostedStarted(p)
      /\ \A x : Updates(q.toRemote, x) => Updates(s, x)
      /\ \A r \in Relation, k \in DOMAIN s : rem[r] <= s[k].requestTimestep
      /\ \A k \in DOMAIN s : IsUpdate(s[k]) =>
           <<s[k].requestTimestep, s[k].relationName>> \in S
  BY FirstOut
<1>2. p.toRemote = s /\ p.evaluated = q.evaluated /\ p.queueMap = q.queueMap
      /\ p.currentQueueHead = q.currentQueueHead
  BY DEF IsEngine
<1> HIDE DEF s, p
<1>3. Accounted(p, S, rem)
  BY <1>1, <1>2 DEF Pipeline, Accounted, Waits
<1>4. Genuine(p, S, rem)
  BY <1>1, <1>2 DEF Pipeline, Genuine
<1>5. NotAhead(p, rem)
  BY <1>1, <1>2 DEF Pipeline, NotAhead, Started, IsEvaluated
<1>6. Pipeline(p, S, rem)
  BY <1>1, <1>2, <1>3, <1>4, <1>5 DEF Pipeline
<1> QED  BY <1>6 DEF p, s

(***************************************************************************)
(* The latest update of r up to t, of those in S.                          *)
(***************************************************************************)
UpdatesUpTo(S, r, t) == {0} \cup {x[1] : x \in {y \in S : y[2] = r /\ y[1] <= t}}

LEMMA MaxIs ==
  ASSUME NEW V \in SUBSET Nat, NEW v \in V, \A w \in V : w <= v
  PROVE  Max(V) = v
<1>1. Max(V) \in V /\ \A w \in V : Max(V) >= w
  BY DEF Max
<1> DEFINE w == Max(V)
<1>2. w \in Nat /\ v \in Nat /\ w <= v /\ w >= v
  BY <1>1
<1> HIDE DEF w
<1>3. w = v
  BY <1>2
<1> QED  BY <1>3 DEF w

\* The rows of the first message's relation, if it is a ship, are a snapshot.
LEMMA ShipReadsSnapshot ==
  ASSUME NEW q, IsEngine(q), InOrder(q), q.toRemote # <<>>,
         NEW S \in SUBSET (Nat \X Relation), NEW rem \in [Relation -> Nat],
         Pipeline(q, S, rem), ~IsUpdate(Head(q.toRemote)), NEW r \in Relation
  PROVE  LET t == Head(q.toRemote).requestTimestep
         IN  IsEvaluated(q, t) /\ rem[r] = Max(UpdatesUpTo(S, r, t))
<1> DEFINE m == Head(q.toRemote)
           t == m.requestTimestep
           s == Tail(q.toRemote)
           V == UpdatesUpTo(S, r, t)
<1>1. /\ m \in Message
      /\ \A k \in DOMAIN s : Before(m, s[k])
      /\ \A x : Updates(q.toRemote, x) => Updates(s, x)
      /\ rem[r] <= t
      /\ IsEvaluated(q, t)
  BY FirstOut
<1>2. t \in Nat
  BY <1>1 DEF Message
<1> HIDE DEF m, t, s
<1>3. V \in SUBSET Nat
  BY DEF UpdatesUpTo
<1>4. rem[r] \in V
  <2>1. CASE rem[r] = 0
    BY <2>1 DEF UpdatesUpTo
  <2>2. CASE rem[r] # 0
    <3>1. <<rem[r], r>> \in S
      BY <2>2 DEF Pipeline, Genuine
    <3>2. <<rem[r], r>> \in {y \in S : y[2] = r /\ y[1] <= t} /\ <<rem[r], r>>[1] = rem[r]
      BY <1>1, <3>1
    <3> QED  BY <3>2 DEF UpdatesUpTo
  <2> QED  BY <2>1, <2>2
<1>5. ASSUME NEW y \in S, y[2] = r, y[1] <= t
      PROVE  y[1] <= rem[r]
  <2>1. y[1] \in Nat
    OBVIOUS
  <2>2. y[1] <= rem[r] \/ Updates(s, y) \/ Waits(q, y)
    BY <1>1, <1>5 DEF Pipeline, Accounted
  <2>3. CASE Updates(s, y)
    <3>1. PICK k \in DOMAIN s : IsUpdate(s[k]) /\ s[k].requestTimestep = y[1]
      BY <2>3 DEF Updates
    <3>2. t < y[1]
      BY <1>1, <3>1 DEF Before, m, t
    <3> QED  BY <1>2, <1>5, <2>1, <3>2
  <2>4. CASE Waits(q, y)
    <3>1. t < y[1]
      BY <1>1, <2>4 DEF Waits, IsEvaluated, InOrder
    <3> QED  BY <1>2, <1>5, <2>1, <3>1
  <2> QED  BY <2>2, <2>3, <2>4
<1>6. \A w \in V : w <= rem[r]
  BY <1>5 DEF UpdatesUpTo
<1> HIDE DEF V
<1>7. Max(V) = rem[r]
  BY <1>3, <1>4, <1>6, MaxIs
<1> QED  BY <1>1, <1>7 DEF V, t, m

-----------------------------------------------------------------------------
(***************************************************************************)
(* The invariant: as long as no database failed, the pipelines are sound,  *)
(* and every answer on its way or handed over was read from the updates up *)
(* to its timestep, which has been evaluated, so that none of them is still*)
(* to come.                                                                *)
(***************************************************************************)
RightAnswer(q, S, results, t) ==
  /\ IsEvaluated(q, t)
  /\ results \in [Relation -> Nat]
  /\ \A r \in Relation : results[r] = Max(UpdatesUpTo(S, r, t))

RightReply(q, S, a) ==
  IsUpdate(a.msg) \/ a.err \/ RightAnswer(q, S, a.results, a.msg.requestTimestep)

Answers(q, S, replies, results) ==
  /\ \A i \in DOMAIN replies : RightReply(q, S, replies[i])
  /\ \A x \in results : RightAnswer(q, S, x.results, x.requestTimestep)

SnapInv ==
  errors = 0 =>
    \A d \in Engine : /\ Pipeline(engine[d], submitted[d], remote[d])
                      /\ Answers(engine[d], submitted[d], toClient[d], delivered[d])

\* The updates up to t stay as they are: new ones are later than what has
\* been evaluated.
Onward(q, S, p, S2) ==
  /\ \A t : IsEvaluated(q, t) => IsEvaluated(p, t)
  /\ \/ S2 = S
     \/ \E now \in Nat : /\ \A t : IsEvaluated(q, t) => t \in Nat /\ t < now
                         /\ \E r : S2 = S \cup {<<now, r>>}

LEMMA RightStays ==
  ASSUME NEW q, NEW S, NEW p, NEW S2, Onward(q, S, p, S2),
         NEW results, NEW t, RightAnswer(q, S, results, t)
  PROVE  RightAnswer(p, S2, results, t)
<1>1. IsEvaluated(q, t) /\ IsEvaluated(p, t)
  BY DEF Onward, RightAnswer
<1>2. ASSUME NEW r \in Relation
      PROVE  UpdatesUpTo(S2, r, t) = UpdatesUpTo(S, r, t)
  <2>1. CASE S2 = S
    BY <2>1
  <2>2. ASSUME NEW now \in Nat, NEW y, S2 = S \cup {<<now, y>>}, t \in Nat, t < now
        PROVE  UpdatesUpTo(S2, r, t) = UpdatesUpTo(S, r, t)
    <3>1. ~(<<now, y>>[1] <= t)
      BY <2>2
    <3>2. {z \in S2 : z[2] = r /\ z[1] <= t} = {z \in S : z[2] = r /\ z[1] <= t}
      BY <2>2, <3>1
    <3> QED  BY <3>2 DEF UpdatesUpTo
  <2> QED  BY <1>1, <2>1, <2>2 DEF Onward
<1> QED  BY <1>1, <1>2 DEF RightAnswer

\* What a step may do to the answers of an engine.
LEMMA AnswersStay ==
  ASSUME NEW q, NEW S, NEW p, NEW S2, Onward(q, S, p, S2),
         NEW replies, NEW results, Answers(q, S, replies, results),
         NEW replies2, NEW results2,
         \A i \in DOMAIN replies2 :
           \/ \E j \in DOMAIN replies : replies2[i] = replies[j]
           \/ RightReply(q, S, replies2[i]),
         \A x \in results2 : x \in results \/ RightAnswer(q, S, x.results, x.requestTimestep)
  PROVE  Answers(p, S2, replies2, results2)
<1>1. ASSUME NEW i \in DOMAIN replies2
      PROVE  RightReply(p, S2, replies2[i])
  <2>1. RightReply(q, S, replies2[i])
    BY DEF Answers
  <2> QED  BY <2>1, RightStays DEF RightReply
<1>2. ASSUME NEW x \in results2
      PROVE  RightAnswer(p, S2, x.results, x.requestTimestep)
  BY RightStays DEF Answers
<1> QED  BY <1>1, <1>2 DEF Answers

LEMMA InitSnapInv == Init => SnapInv
<1> SUFFICES ASSUME Init, NEW d \in Engine
             PROVE  /\ Pipeline(engine[d], submitted[d], remote[d])
                    /\ Answers(engine[d], submitted[d], toClient[d], delivered[d])
  BY DEF SnapInv
<1>1. /\ engine[d] = NewEngine /\ submitted[d] = {} /\ delivered[d] = {}
      /\ toClient[d] = <<>> /\ \A r \in Relation : remote[d][r] = 0
  BY DEF Init
<1>2. NewEngine.toRemote = <<>> /\ DOMAIN NewEngine.queueMap = {} /\ DOMAIN <<>> = {}
  BY DEF NewEngine, EmptyMap
<1>3. Pipeline(NewEngine, {}, remote[d])
  BY <1>1, <1>2 DEF Pipeline, Ordered, PostedStarted, Accounted, Genuine, NotAhead
<1> QED  BY <1>1, <1>2, <1>3 DEF Answers

\* A step that changes one engine, or its messages, or its answers.
LEMMA OneEngineStep ==
  ASSUME SnapInv, errors' = errors, NEW d \in Engine,
         \A x \in Engine \ {d} :
           /\ engine'[x] = engine[x] /\ submitted'[x] = submitted[x]
           /\ remote'[x] = remote[x] /\ toClient'[x] = toClient[x]
           /\ delivered'[x] = delivered[x],
         (/\ Pipeline(engine[d], submitted[d], remote[d])
          /\ Answers(engine[d], submitted[d], toClient[d], delivered[d])) =>
           /\ Pipeline(engine'[d], submitted'[d], remote'[d])
           /\ Answers(engine'[d], submitted'[d], toClient'[d], delivered'[d])
  PROVE  SnapInv'
<1> SUFFICES ASSUME errors = 0, NEW x \in Engine
             PROVE  /\ Pipeline(engine'[x], submitted'[x], remote'[x])
                    /\ Answers(engine'[x], submitted'[x], toClient'[x], delivered'[x])
  BY DEF SnapInv
<1>1. /\ Pipeline(engine[x], submitted[x], remote[x])
      /\ Answers(engine[x], submitted[x], toClient[x], delivered[x])
  BY DEF SnapInv
<1>2. CASE x = d
  BY <1>1, <1>2
<1>3. CASE x # d
  <2>1. /\ engine'[x] = engine[x] /\ submitted'[x] = submitted[x]
        /\ remote'[x] = remote[x] /\ toClient'[x] = toClient[x]
        /\ delivered'[x] = delivered[x]
    BY <1>3
  <2> QED  BY <1>1, <2>1
<1> QED  BY <1>2, <1>3

(***************************************************************************)
(* The steps of the main thread.                                           *)
(***************************************************************************)
LEMMA ShipWorkerInputSnap ==
  ASSUME IInv, SnapInv, ShipWorkerInput
  PROVE  SnapInv'
<1> DEFINE d == Head(sending).destination
           r == Head(sending).relation
           q == engine[d]
           p == SendUpdate(q, timestep, r, Plan(d, timestep))
           S2 == submitted[d] \cup {<<timestep, r>>}
<1>1. Head(sending) \in Shipment
  BY TailType DEF ShipWorkerInput, IInv, TypeOK
<1>2. d \in Engine /\ r \in Relation
  BY <1>1 DEF Shipment
<1>3. /\ engine' = [engine EXCEPT ![d] = p]
      /\ submitted' = [submitted EXCEPT ![d] = S2]
      /\ remote' = remote /\ toClient' = toClient /\ delivered' = delivered
      /\ errors' = errors
  BY DEF ShipWorkerInput, remoteVars, boundVars
<1> HIDE DEF d, r
<1>4. /\ IsEngine(q) /\ QueueOK(q, timestep) /\ timestep \in Nat \ {NoHead}
      /\ \A i \in DOMAIN q.evaluated : q.evaluated[i] < timestep
      /\ remote[d] \in [Relation -> Nat]
  BY <1>2 DEF IInv, TypeOK, Sending, ShipWorkerInput
<1>5. engine'[d] = p /\ submitted'[d] = S2
      /\ \A x \in Engine \ {d} : engine'[x] = engine[x] /\ submitted'[x] = submitted[x]
  BY <1>2, <1>3 DEF IInv, TypeOK
<1> HIDE DEF q
<1>6. p.evaluated = q.evaluated
  BY <1>2, <1>4, SendUpdateOK
<1>7. Onward(q, submitted[d], p, S2)
  <2>1. \A i \in DOMAIN q.evaluated : q.evaluated[i] \in Nat
    BY <1>4, QueueTimes
  <2> HIDE DEF p
  <2>2. \A t : IsEvaluated(q, t) => IsEvaluated(p, t) /\ t \in Nat /\ t < timestep
    BY <1>4, <1>6, <2>1 DEF IsEvaluated
  <2> QED  BY <1>4, <2>2 DEF Onward
<1>8. ASSUME Pipeline(q, submitted[d], remote[d]),
             Answers(q, submitted[d], toClient[d], delivered[d])
      PROVE  /\ Pipeline(p, S2, remote[d])
             /\ Answers(p, S2, toClient[d], delivered[d])
  <2>1. Pipeline(p, S2, remote[d])
    BY <1>2, <1>4, <1>8, SendUpdatePipeline
  <2> HIDE DEF p, S2
  <2>2. Answers(p, S2, toClient[d], delivered[d])
    BY <1>7, <1>8, AnswersStay
  <2> QED  BY <2>1, <2>2
<1> HIDE DEF p, S2
<1> QED  BY <1>2, <1>3, <1>5, <1>8, OneEngineStep DEF q

(***************************************************************************)
(* The steps of the databases, and the connection that is lost.            *)
(***************************************************************************)
\* What every answer of the database has in common.
LEMMA ExecuteSnap ==
  ASSUME IInv, SnapInv, errors' = errors, NEW d \in Engine, CanExecute(d),
         NEW reply, NEW content, Execute(d, reply, content),
         Pipeline(engine[d], submitted[d], remote[d]) =>
           /\ Pipeline([engine[d] EXCEPT !.toRemote = Tail(engine[d].toRemote)],
                       submitted[d], content)
           /\ RightReply(engine[d], submitted[d], reply)
  PROVE  SnapInv'
<1> DEFINE q == engine[d]
           p == [q EXCEPT !.toRemote = Tail(q.toRemote)]
           c == toClient[d]
<1>1. /\ engine' = [engine EXCEPT ![d] = p]
      /\ toClient' = [toClient EXCEPT ![d] = Append(c, reply)]
      /\ remote' = [remote EXCEPT ![d] = content]
      /\ submitted' = submitted /\ delivered' = delivered
  BY DEF Execute, historyVars
<1>2. IsEngine(q) /\ c \in Seq(Answered)
  BY DEF IInv, TypeOK
<1>3. /\ engine'[d] = p /\ toClient'[d] = Append(c, reply) /\ remote'[d] = content
      /\ \A x \in Engine \ {d} : engine'[x] = engine[x] /\ toClient'[x] = toClient[x]
                                 /\ remote'[x] = remote[x]
  BY <1>1 DEF IInv, TypeOK
<1>4. p.evaluated = q.evaluated
  BY <1>2 DEF IsEngine
<1> HIDE DEF q, p
<1>5. Onward(q, submitted[d], p, submitted[d])
  BY <1>4 DEF Onward, IsEvaluated
<1>6. \A i \in DOMAIN Append(c, reply) :
        (i \in DOMAIN c /\ Append(c, reply)[i] = c[i]) \/ Append(c, reply)[i] = reply
  <2> HIDE DEF c
  <2> QED  BY <1>2
<1> HIDE DEF c
<1>7. ASSUME Pipeline(q, submitted[d], remote[d]),
             Answers(q, submitted[d], c, delivered[d])
      PROVE  /\ Pipeline(p, submitted[d], content)
             /\ Answers(p, submitted[d], Append(c, reply), delivered[d])
  <2>1. Pipeline(p, submitted[d], content) /\ RightReply(q, submitted[d], reply)
    BY <1>7 DEF p, q
  <2> DEFINE c2 == Append(c, reply)
  <2>2. \A i \in DOMAIN c2 : (i \in DOMAIN c /\ c2[i] = c[i]) \/ c2[i] = reply
    BY <1>6
  <2> HIDE DEF c2
  <2>3. Answers(p, submitted[d], c2, delivered[d])
    BY <1>5, <1>7, <2>1, <2>2, AnswersStay
  <2> QED  BY <2>1, <2>3 DEF c2
<1> QED  BY <1>1, <1>3, <1>7, OneEngineStep DEF q, c

LEMMA ExecuteUpdateSnap ==
  ASSUME IInv, SnapInv, NEW d \in Engine, ExecuteUpdate(d)
  PROVE  SnapInv'
<1> DEFINE q == engine[d]
           m == Head(q.toRemote)
           content == [remote[d] EXCEPT ![m.relationName] = m.requestTimestep]
           reply == Reply(m, FALSE, NoResults, FALSE)
<1>1. /\ CanExecute(d) /\ errors' = errors
      /\ IsUpdate(m) /\ Execute(d, reply, content)
  BY DEF ExecuteUpdate, IsUpdate
<1>2. /\ IsEngine(q) /\ q.toRemote # <<>> /\ remote[d] \in [Relation -> Nat]
      /\ submitted[d] \in SUBSET (Nat \X Relation)
  BY <1>1 DEF IInv, TypeOK, CanExecute
<1>3. Pipeline(q, submitted[d], remote[d]) =>
        Pipeline([q EXCEPT !.toRemote = Tail(q.toRemote)], submitted[d], content)
  BY <1>1, <1>2, ExecuteUpdatePipeline
<1>4. RightReply(q, submitted[d], reply)
  BY <1>1 DEF RightReply, Reply
<1> HIDE DEF m, content, reply
<1> QED  BY <1>1, <1>3, <1>4, ExecuteSnap

LEMMA ExecuteShipSnap ==
  ASSUME IInv, SnapInv, NEW d \in Engine, ExecuteShip(d)
  PROVE  SnapInv'
<1> DEFINE q == engine[d]
           m == Head(q.toRemote)
<1>1. PICK rows \in BOOLEAN : Execute(d, Reply(m, FALSE, remote[d], rows), remote[d])
  BY DEF ExecuteShip
<1>2. CanExecute(d) /\ errors' = errors /\ ~IsUpdate(m)
  BY DEF ExecuteShip, IsUpdate
<1>3. /\ IsEngine(q) /\ q.toRemote # <<>> /\ remote[d] \in [Relation -> Nat]
      /\ submitted[d] \in SUBSET (Nat \X Relation) /\ InOrder(q)
  BY <1>2 DEF IInv, TypeOK, CanExecute, QueueOK
<1> DEFINE reply == Reply(m, FALSE, remote[d], rows)
<1>4. reply.msg = m /\ reply.results = remote[d]
  BY DEF Reply
<1> HIDE DEF reply
<1>5. ASSUME Pipeline(q, submitted[d], remote[d])
      PROVE  /\ Pipeline([q EXCEPT !.toRemote = Tail(q.toRemote)], submitted[d], remote[d])
             /\ RightReply(q, submitted[d], reply)
  <2>1. Pipeline([q EXCEPT !.toRemote = Tail(q.toRemote)], submitted[d], remote[d])
    BY <1>2, <1>3, <1>5, ExecuteShipPipeline
  <2>2. \A r \in Relation :
          /\ IsEvaluated(q, m.requestTimestep)
          /\ remote[d][r] = Max(UpdatesUpTo(submitted[d], r, m.requestTimestep))
    BY <1>2, <1>3, <1>5, ShipReadsSnapshot
  <2>3. IsEvaluated(q, m.requestTimestep)
    BY <1>2, <1>3, <1>5, FirstOut
  <2> HIDE DEF q, m
  <2>4. RightAnswer(q, submitted[d], reply.results, reply.msg.requestTimestep)
    BY <1>3, <1>4, <2>2, <2>3 DEF RightAnswer
  <2> QED  BY <2>1, <2>4 DEF RightReply, q
<1>6. Execute(d, reply, remote[d])
  BY <1>1 DEF reply
<1> HIDE DEF m
<1> QED  BY <1>2, <1>5, <1>6, ExecuteSnap

LEMMA LoseConnectionSnap ==
  ASSUME IInv, SnapInv, NEW d \in Engine, LoseConnection(d)
  PROVE  SnapInv'
<1> DEFINE c == toClient[d]
<1>1. PICK n \in 0..Len(c) : toClient' = [toClient EXCEPT ![d] = SubSeq(c, 1, n)]
  BY DEF LoseConnection
<1>2. /\ engine' = engine /\ remote' = remote /\ submitted' = submitted
      /\ delivered' = delivered /\ errors' = errors
  BY DEF LoseConnection, historyVars, boundVars
<1>3. toClient'[d] = SubSeq(c, 1, n)
      /\ \A x \in Engine \ {d} : toClient'[x] = toClient[x]
  BY <1>1 DEF IInv, TypeOK
<1>4. \A i \in DOMAIN SubSeq(c, 1, n) : i \in DOMAIN c /\ SubSeq(c, 1, n)[i] = c[i]
  <2>1. c \in Seq(Answered)
    BY DEF IInv, TypeOK
  <2> HIDE DEF c
  <2> QED  BY <2>1
<1>5. Onward(engine[d], submitted[d], engine[d], submitted[d])
  BY DEF Onward
<1> HIDE DEF c
<1>6. Answers(engine[d], submitted[d], c, delivered[d]) =>
        Answers(engine[d], submitted[d], SubSeq(c, 1, n), delivered[d])
  <2> DEFINE c2 == SubSeq(c, 1, n)
  <2>1. \A i \in DOMAIN c2 : i \in DOMAIN c /\ c2[i] = c[i]
    BY <1>4
  <2> HIDE DEF c2
  <2>2. Answers(engine[d], submitted[d], c, delivered[d]) =>
          Answers(engine[d], submitted[d], c2, delivered[d])
    BY <1>5, <2>1, AnswersStay
  <2> QED  BY <2>2 DEF c2
<1> QED  BY <1>2, <1>3, <1>6, OneEngineStep DEF c

(***************************************************************************)
(* The steps of the handlers.                                              *)
(***************************************************************************)
\* The other replies are still there.
LEMMA TakeReplyRest ==
  ASSUME IInv, NEW d \in Engine, CanHandle(d), TakeReply(d)
  PROVE  /\ toClient'[d] = Tail(toClient[d])
         /\ \A x \in Engine \ {d} : toClient'[x] = toClient[x]
         /\ 1 \in DOMAIN toClient[d] /\ Head(toClient[d]) = toClient[d][1]
         /\ \A i \in DOMAIN toClient'[d] :
              \E j \in DOMAIN toClient[d] : toClient'[d][i] = toClient[d][j]
         /\ \A j \in DOMAIN toClient[d] : toClient[d][j] = Head(toClient[d]) \/
              \E i \in DOMAIN toClient'[d] : toClient'[d][i] = toClient[d][j]
<1>1. toClient[d] \in Seq(Answered) /\ toClient[d] # <<>>
  BY DEF IInv, TypeOK, CanHandle
<1>2. toClient'[d] = Tail(toClient[d]) /\ \A x \in Engine \ {d} : toClient'[x] = toClient[x]
  BY DEF TakeReply, IInv, TypeOK
<1> DEFINE c == toClient[d]
<1> HIDE DEF c
<1>3. /\ 1 \in DOMAIN c /\ Head(c) = c[1]
      /\ \A k \in DOMAIN Tail(c) : k + 1 \in DOMAIN c /\ Tail(c)[k] = c[k + 1]
      /\ \A i \in DOMAIN c : i = 1 \/ (i - 1 \in DOMAIN Tail(c) /\ Tail(c)[i - 1] = c[i])
  BY <1>1, TailElements DEF c
<1>4. \A i \in DOMAIN Tail(c) : \E j \in DOMAIN c : Tail(c)[i] = c[j]
  BY <1>3
<1>5. \A j \in DOMAIN c : c[j] = Head(c) \/ \E i \in DOMAIN Tail(c) : Tail(c)[i] = c[j]
  BY <1>3
<1> QED  BY <1>2, <1>3, <1>4, <1>5 DEF c

LEMMA HandleUpdateSnap ==
  ASSUME IInv, SnapInv, NEW d \in Engine, HandleUpdate(d)
  PROVE  SnapInv'
<1> DEFINE reply == Head(toClient[d])
           q == engine[d]
           p == HandleUpdateReply(q, reply.msg, reply.err)
<1>1. reply.msg \in Message /\ reply.err \in BOOLEAN
  BY TakeReplyType DEF HandleUpdate, Answered
<1>2. /\ engine' = [engine EXCEPT ![d] = p] /\ remote' = remote
      /\ submitted' = submitted /\ delivered' = delivered /\ errors' = errors
  BY DEF HandleUpdate, boundVars, historyVars
<1> HIDE DEF reply
<1>3. timestep \in Nat /\ IsEngine(q) /\ QueueOK(q, timestep)
      /\ remote[d] \in [Relation -> Nat]
  BY DEF IInv, TypeOK
<1>4. /\ engine'[d] = p
      /\ \A x \in Engine \ {d} : engine'[x] = engine[x] /\ toClient'[x] = toClient[x]
      /\ \A i \in DOMAIN toClient'[d] :
           \E j \in DOMAIN toClient[d] : toClient'[d][i] = toClient[d][j]
  BY <1>2, TakeReplyRest DEF HandleUpdate, IInv, TypeOK
<1> HIDE DEF q
<1>5. /\ \A t : IsEvaluated(q, t) => IsEvaluated(p, t)
      /\ Pipeline(q, submitted[d], remote[d]) => Pipeline(p, submitted[d], remote[d])
  BY <1>1, <1>3, HandleUpdateReplyPipeline
<1> HIDE DEF p
<1>6. Onward(q, submitted[d], p, submitted[d])
  BY <1>5 DEF Onward
<1>7. Answers(q, submitted[d], toClient[d], delivered[d]) =>
        Answers(p, submitted[d], toClient'[d], delivered[d])
  BY <1>4, <1>6, AnswersStay
<1> QED  BY <1>2, <1>4, <1>5, <1>7, OneEngineStep DEF q

\* The reply to a ship is taken, and its rows, if there are any, are handed over.
HandsOver(d) ==
  LET reply == Head(toClient[d])
  IN  /\ ~reply.err
      /\ delivered' = [delivered EXCEPT ![d] = @ \cup
           {[requestTimestep |-> reply.msg.requestTimestep,
             view |-> reply.msg.relationName, results |-> reply.results]}]

TakesAnswer(d) ==
  /\ CanHandle(d) /\ TakeReply(d)
  /\ Head(toClient[d]).msg.remoteAction = "ShipRelation"
  /\ HandsOver(d) \/ delivered' = delivered
  /\ engine' = engine /\ connected' = connected /\ remote' = remote
  /\ submitted' = submitted /\ errors' = errors

LEMMA HandleShipTakes ==
  ASSUME NEW d \in Engine, HandleShip(d) \/ DropShip(d)
  PROVE  TakesAnswer(d) /\ (HandleShip(d) => HandsOver(d))
BY DEF TakesAnswer, HandsOver, HandleShip, DropShip, boundVars, historyVars

LEMMA TakesAnswerSnap ==
  ASSUME IInv, SnapInv, NEW d \in Engine, TakesAnswer(d)
  PROVE  SnapInv'
<1> DEFINE reply == Head(toClient[d])
           x0 == [requestTimestep |-> reply.msg.requestTimestep,
                  view |-> reply.msg.relationName, results |-> reply.results]
<1>1. /\ engine' = engine /\ remote' = remote
      /\ submitted' = submitted /\ errors' = errors
  BY DEF TakesAnswer
<1>2. /\ \A x \in Engine \ {d} : toClient'[x] = toClient[x]
      /\ reply = toClient[d][1] /\ 1 \in DOMAIN toClient[d]
      /\ \A i \in DOMAIN toClient'[d] :
           \E j \in DOMAIN toClient[d] : toClient'[d][i] = toClient[d][j]
  BY TakeReplyRest DEF TakesAnswer
<1>3. /\ \A x \in Engine \ {d} : delivered'[x] = delivered[x]
      /\ \/ delivered'[d] = delivered[d]
         \/ /\ ~IsUpdate(reply.msg) /\ ~reply.err
            /\ delivered'[d] = delivered[d] \cup {x0}
  <2>1. CASE HandsOver(d)
    <3>1. /\ delivered' = [delivered EXCEPT ![d] = @ \cup {x0}]
          /\ ~IsUpdate(reply.msg) /\ ~reply.err
      BY <2>1 DEF TakesAnswer, HandsOver, IsUpdate
    <3> HIDE DEF x0, reply
    <3> QED  BY <3>1 DEF IInv, TypeOK
  <2>2. CASE delivered' = delivered
    BY <2>2
  <2> QED  BY <2>1, <2>2 DEF TakesAnswer
<1>4. x0.requestTimestep = reply.msg.requestTimestep /\ x0.results = reply.results
  OBVIOUS
<1> HIDE DEF reply, x0
<1>5. Onward(engine[d], submitted[d], engine[d], submitted[d])
  BY DEF Onward
<1>6. ASSUME Answers(engine[d], submitted[d], toClient[d], delivered[d])
      PROVE  Answers(engine[d], submitted[d], toClient'[d], delivered'[d])
  <2>1. RightReply(engine[d], submitted[d], reply)
    BY <1>2, <1>6 DEF Answers
  <2>2. \A x \in delivered'[d] :
          \/ x \in delivered[d]
          \/ RightAnswer(engine[d], submitted[d], x.results, x.requestTimestep)
    BY <1>3, <1>4, <2>1 DEF RightReply
  <2> QED  BY <1>2, <1>5, <1>6, <2>2, AnswersStay
<1> QED  BY <1>1, <1>2, <1>3, <1>6, OneEngineStep

LEMMA NextSnapInv == IInv /\ SnapInv /\ [Next]_vars => SnapInv'
<1> SUFFICES ASSUME IInv, SnapInv, [Next]_vars PROVE SnapInv'
  OBVIOUS
<1>1. ASSUME NEW e \in Input, NewInput(e) PROVE SnapInv'
  BY <1>1 DEF NewInput, SnapInv, remoteVars, historyVars
<1>2. CASE ShipWorkerInput
  BY <1>2, ShipWorkerInputSnap
<1>3. CASE SkipEmptyRelation
  BY <1>3 DEF SkipEmptyRelation, SnapInv, remoteVars, historyVars, boundVars
<1>4. ASSUME NEW d \in Engine, ExecuteUpdate(d) \/ ExecuteShip(d) PROVE SnapInv'
  BY <1>4, ExecuteUpdateSnap, ExecuteShipSnap
<1>5. ASSUME NEW d \in Engine, ExecuteFails(d) PROVE SnapInv'
  <2>1. errors' # 0
    BY <1>5, BoundAssumption DEF ExecuteFails, IInv, TypeOK
  <2> QED  BY <2>1 DEF SnapInv
<1>6. ASSUME NEW d \in Engine, LoseConnection(d) PROVE SnapInv'
  BY <1>6, LoseConnectionSnap
<1>7. ASSUME NEW d \in Engine, Handle(d) PROVE SnapInv'
  BY <1>7, HandleUpdateSnap, HandleShipTakes, TakesAnswerSnap DEF Handle
<1>8. CASE UNCHANGED vars
  BY <1>8 DEF SnapInv, vars, mainVars, remoteVars, boundVars, historyVars
<1> QED  BY <1>1, <1>2, <1>3, <1>4, <1>5, <1>6, <1>7, <1>8
         DEF Next, MainNext, RemoteNext, FaultNext, HandleNext

LEMMA SnapIsIsolation == SnapInv => SnapshotAtTimestep
BY DEF SnapInv, SnapshotAtTimestep, Answers, RightAnswer, UpdatesUpTo, LastSubmitted

LEMMA SnapInvariance == Spec => []SnapInv
BY InitSnapInv, NextSnapInv, Invariance, PTL DEF Spec

(***************************************************************************)
(* Isolation: with any number of events, engines and lost connections, the *)
(* rows an engine ships for a timestep are computed from every update up to*)
(* it and from none after it, unless a database failed (getHandleMsgForRe- *)
(* mote and evaluateQueueOnUpdateHandler).                                 *)
(***************************************************************************)
THEOREM SnapshotIsolation == Spec => []SnapshotAtTimestep
BY SnapIsIsolation, SnapInvariance, PTL

-----------------------------------------------------------------------------
(***************************************************************************)
(* Wake-ups.  An engine rests, or an update is on its way there or back.   *)
(***************************************************************************)
HasUpdateReply(s) == \E i \in DOMAIN s : IsUpdate(s[i].msg)

Awake(q, replies) == Resting(q) \/ HasUpdate(q.toRemote) \/ HasUpdateReply(replies)

WakeInv == \A d \in Engine : connected[d] => Awake(engine[d], toClient[d])

LEMMA SendUpdateAwake ==
  ASSUME NEW q, IsEngine(q), NEW t \in Nat \ {NoHead}, NEW r \in Relation, NEW plan,
         LowestHead(q), NEW replies, Awake(q, replies)
  PROVE  Awake(SendUpdate(q, t, r, plan), replies)
<1> DEFINE entry == JoinEntry(q, t, r, plan)
           later == [entry EXCEPT !.receivedValues = Append(@, r)]
           head  == IF q.currentQueueHead = NoHead THEN t ELSE q.currentQueueHead
           m     == UpdateMsg(t, r, FALSE)
           p     == SendUpdate(q, t, r, plan)
<1>1. CASE t = head
  <2>1. p.toRemote = Append(q.toRemote, m)
    <3> HIDE DEF entry, m
    <3> QED  BY <1>1 DEF SendUpdate, IsEngine, entry, m
  <2>2. IsUpdate(m) /\ q.toRemote \in Seq(Message) /\ m \in Message
    BY UpdateMsgType DEF UpdateMsg, IsUpdate, IsEngine
  <2> HIDE DEF m, p
  <2>3. /\ Len(q.toRemote) + 1 \in DOMAIN Append(q.toRemote, m)
        /\ Append(q.toRemote, m)[Len(q.toRemote) + 1] = m
    BY <2>2
  <2> QED  BY <2>1, <2>2, <2>3 DEF Awake, HasUpdate, p
<1>2. CASE t # head
  <2>1. /\ p.currentQueueHead = q.currentQueueHead /\ p.toRemote = q.toRemote
        /\ p.queueMap = MapSet(q.queueMap, t, later)
    <3> HIDE DEF later
    <3> QED  BY <1>2 DEF SendUpdate, IsEngine, later
  <2> HIDE DEF p, later
  <2>2. /\ q.currentQueueHead # NoHead /\ q.currentQueueHead # t
        /\ q.currentQueueHead \in DOMAIN q.queueMap
    BY <1>2 DEF LowestHead
  <2>3. p.queueMap[p.currentQueueHead] = q.queueMap[q.currentQueueHead]
    BY <2>1, <2>2 DEF MapSet
  <2>4. Resting(p) <=> Resting(q)
    BY <2>1, <2>3 DEF Resting, Blocked
  <2> QED  BY <2>1, <2>4 DEF Awake, p
<1> QED  BY <1>1, <1>2

\* The first message leaves, and its answer, which carries it, arrives.
LEMMA ExecuteAwake ==
  ASSUME IInv, WakeInv, NEW d \in Engine, CanExecute(d),
         NEW reply, NEW content, Execute(d, reply, content),
         reply.msg = Head(engine[d].toRemote)
  PROVE  WakeInv'
<1> DEFINE q == engine[d]
           p == [q EXCEPT !.toRemote = Tail(q.toRemote)]
           c == toClient[d]
<1>1. /\ IsEngine(q) /\ c \in Seq(Answered)
      /\ q.toRemote \in Seq(Message) /\ q.toRemote # <<>>
  BY DEF IInv, TypeOK, IsEngine, CanExecute
<1>2. /\ engine'[d] = p /\ toClient'[d] = Append(c, reply) /\ connected' = connected
      /\ \A x \in Engine \ {d} : engine'[x] = engine[x] /\ toClient'[x] = toClient[x]
  BY DEF Execute, IInv, TypeOK
<1>3. /\ p.toRemote = Tail(q.toRemote) /\ p.queueMap = q.queueMap
      /\ p.currentQueueHead = q.currentQueueHead
  BY <1>1 DEF IsEngine
<1>4. Awake(q, c)
  BY DEF WakeInv, CanExecute
<1>5. reply.msg = Head(q.toRemote)
  OBVIOUS
<1> HIDE DEF q, p, c
<1> DEFINE c2 == Append(c, reply)
<1>6. /\ \A i \in DOMAIN c : i \in DOMAIN c2 /\ c2[i] = c[i]
      /\ Len(c) + 1 \in DOMAIN c2 /\ c2[Len(c) + 1] = reply
  BY <1>1
<1> SUFFICES Awake(p, c2)
  BY <1>2 DEF WakeInv
<1> HIDE DEF c2
<1>7. CASE Resting(q)
  BY <1>3, <1>7 DEF Awake, Resting, Blocked
<1>8. CASE HasUpdateReply(c)
  BY <1>6, <1>8 DEF Awake, HasUpdateReply
<1>9. CASE HasUpdate(q.toRemote)
  <2>1. PICK i \in DOMAIN q.toRemote : IsUpdate(q.toRemote[i])
    BY <1>9 DEF HasUpdate
  <2>2. q.toRemote[i] = Head(q.toRemote) \/
          (i - 1 \in DOMAIN Tail(q.toRemote) /\ Tail(q.toRemote)[i - 1] = q.toRemote[i])
    BY <1>1, TailElements
  <2>3. CASE q.toRemote[i] = Head(q.toRemote)
    BY <1>5, <1>6, <2>1, <2>3 DEF Awake, HasUpdateReply
  <2>4. CASE i - 1 \in DOMAIN Tail(q.toRemote) /\ Tail(q.toRemote)[i - 1] = q.toRemote[i]
    BY <1>3, <2>1, <2>4 DEF Awake, HasUpdate
  <2> QED  BY <2>2, <2>3, <2>4
<1> QED  BY <1>4, <1>7, <1>8, <1>9 DEF Awake

\* A reply to a ship is taken.
LEMMA TakesAnswerAwake ==
  ASSUME IInv, WakeInv, NEW d \in Engine, TakesAnswer(d)
  PROVE  WakeInv'
<1>1. /\ engine' = engine /\ connected' = connected
      /\ CanHandle(d) /\ TakeReply(d) /\ ~IsUpdate(Head(toClient[d]).msg)
  BY DEF TakesAnswer, IsUpdate
<1>2. /\ \A x \in Engine \ {d} : toClient'[x] = toClient[x]
      /\ \A j \in DOMAIN toClient[d] : toClient[d][j] = Head(toClient[d]) \/
           \E i \in DOMAIN toClient'[d] : toClient'[d][i] = toClient[d][j]
  BY <1>1, TakeReplyRest
<1>3. HasUpdateReply(toClient[d]) => HasUpdateReply(toClient'[d])
  BY <1>1, <1>2 DEF HasUpdateReply
<1> QED  BY <1>1, <1>2, <1>3 DEF WakeInv, Awake

LEMMA NextWakeInv == IInv /\ WakeInv /\ [Next]_vars => WakeInv'
<1> SUFFICES ASSUME IInv, WakeInv, [Next]_vars PROVE WakeInv'
  OBVIOUS
<1>1. ASSUME NEW e \in Input, NewInput(e) PROVE WakeInv'
  BY <1>1 DEF NewInput, WakeInv, remoteVars
<1>2. CASE ShipWorkerInput
  <2> DEFINE d == Head(sending).destination
             r == Head(sending).relation
             p == SendUpdate(engine[d], timestep, r, Plan(d, timestep))
  <2>1. Head(sending) \in Shipment
    BY <1>2, TailType DEF ShipWorkerInput, IInv, TypeOK
  <2>2. d \in Engine /\ r \in Relation
    BY <2>1 DEF Shipment
  <2>3. engine' = [engine EXCEPT ![d] = p] /\ connected' = connected /\ toClient' = toClient
    BY <1>2 DEF ShipWorkerInput, remoteVars
  <2> HIDE DEF d, r
  <2>4. /\ IsEngine(engine[d]) /\ LowestHead(engine[d]) /\ timestep \in Nat \ {NoHead}
        /\ DOMAIN engine = Engine
    BY <2>2 DEF IInv, TypeOK, QueueOK
  <2>5. Awake(engine[d], toClient[d]) => Awake(p, toClient[d])
    BY <2>2, <2>4, SendUpdateAwake
  <2> HIDE DEF p
  <2> QED  BY <2>2, <2>3, <2>4, <2>5 DEF WakeInv
<1>3. CASE SkipEmptyRelation
  BY <1>3 DEF SkipEmptyRelation, WakeInv, remoteVars
<1>4. ASSUME NEW d \in Engine, ExecuteUpdate(d) \/ ExecuteShip(d) \/ ExecuteFails(d)
      PROVE  WakeInv'
  <2>1. PICK reply, content :
          CanExecute(d) /\ Execute(d, reply, content) /\ reply.msg = Head(engine[d].toRemote)
    <3> DEFINE m == Head(engine[d].toRemote)
    <3>1. CASE ExecuteUpdate(d)
      <4>1. CanExecute(d)
            /\ Execute(d, Reply(m, FALSE, NoResults, FALSE),
                       [remote[d] EXCEPT ![m.relationName] = m.requestTimestep])
        BY <3>1 DEF ExecuteUpdate
      <4>2. Reply(m, FALSE, NoResults, FALSE).msg = m
        BY DEF Reply
      <4> QED  BY <4>1, <4>2
    <3>2. CASE ExecuteShip(d)
      <4>1. PICK rows \in BOOLEAN :
              CanExecute(d) /\ Execute(d, Reply(m, FALSE, remote[d], rows), remote[d])
        BY <3>2 DEF ExecuteShip
      <4>2. Reply(m, FALSE, remote[d], rows).msg = m
        BY DEF Reply
      <4> QED  BY <4>1, <4>2
    <3>3. CASE ExecuteFails(d)
      <4>1. PICK content :
              CanExecute(d) /\ Execute(d, Reply(m, TRUE, NoResults, FALSE), content)
        BY <3>3 DEF ExecuteFails
      <4>2. Reply(m, TRUE, NoResults, FALSE).msg = m
        BY DEF Reply
      <4> QED  BY <4>1, <4>2
    <3> QED  BY <1>4, <3>1, <3>2, <3>3
  <2> QED  BY <2>1, ExecuteAwake
<1>5. ASSUME NEW d \in Engine, LoseConnection(d) PROVE WakeInv'
  <2>1. /\ engine' = engine /\ connected' = [connected EXCEPT ![d] = FALSE]
        /\ \A x \in Engine \ {d} : toClient'[x] = toClient[x]
    BY <1>5 DEF LoseConnection, IInv, TypeOK
  <2> QED  BY <2>1 DEF WakeInv, IInv, TypeOK
<1>6. ASSUME NEW d \in Engine, HandleUpdate(d) PROVE WakeInv'
  <2> DEFINE reply == Head(toClient[d])
             p     == HandleUpdateReply(engine[d], reply.msg, reply.err)
  <2>1. reply.msg \in Message /\ reply.err \in BOOLEAN
    BY <1>6, TakeReplyType DEF HandleUpdate, Answered
  <2>2. /\ engine' = [engine EXCEPT ![d] = p] /\ connected' = connected
        /\ \A x \in Engine \ {d} : toClient'[x] = toClient[x]
    BY <1>6, TakeReplyRest DEF HandleUpdate
  <2> HIDE DEF reply
  <2>3. /\ timestep \in Nat /\ IsEngine(engine[d]) /\ QueueOK(engine[d], timestep)
        /\ DOMAIN engine = Engine
    BY DEF IInv, TypeOK
  <2>4. Resting(p) \/ HasUpdate(p.toRemote)
    BY <2>1, <2>3, HandleUpdateReplyPipeline
  <2> HIDE DEF p
  <2> QED  BY <2>2, <2>3, <2>4 DEF WakeInv, Awake
<1>7. ASSUME NEW d \in Engine, HandleShip(d) \/ DropShip(d) PROVE WakeInv'
  BY <1>7, HandleShipTakes, TakesAnswerAwake
<1>8. CASE UNCHANGED vars
  BY <1>8 DEF WakeInv, vars, remoteVars
<1> QED  BY <1>1, <1>2, <1>3, <1>4, <1>5, <1>6, <1>7, <1>8
         DEF Next, MainNext, RemoteNext, FaultNext, HandleNext, Handle

LEMMA AwakeIsPending == IInv /\ WakeInv => WakeUpPending
<1> SUFFICES ASSUME IInv, WakeInv, NEW d \in Engine, DOMAIN engine[d].queueMap # {},
                    ~Blocked(engine[d]), connected[d]
             PROVE  \/ \E i \in DOMAIN engine[d].toRemote : IsUpdate(engine[d].toRemote[i])
                    \/ \E i \in DOMAIN toClient[d] : IsUpdate(toClient[d][i].msg)
  BY DEF WakeUpPending
<1>1. engine[d].currentQueueHead # NoHead
  BY DEF IInv, QueueOK, LowestHead
<1> QED  BY <1>1 DEF WakeInv, Awake, Resting, HasUpdate, HasUpdateReply

(***************************************************************************)
(* No lost wake-up: an engine that is connected and has an entry it could  *)
(* evaluate has an update on its way, whose reply evaluates the queue, with*)
(* any number of failed updates; nextQueue itself looks at nothing.        *)
(***************************************************************************)
THEOREM NoLostWakeUp == Spec => []WakeUpPending
<1>1. Init => WakeInv
  BY DEF Init, WakeInv, Awake, Resting, NewEngine
<1> QED  BY <1>1, AwakeIsPending, NextWakeInv, Invariance, PTL DEF Spec

-----------------------------------------------------------------------------
(***************************************************************************)
(* The engines as serial databases: what SerialEngine sees of a state.     *)
(***************************************************************************)
Waiting == [d \in Engine |-> DOMAIN engine[d].queueMap]
Taken   == [d \in Engine |-> engine[d].evaluated]

LEMMA AsOfIsMax ==
  ASSUME NEW g, NEW r, NEW t
  PROVE  Serial!AsOf(g, r, t) = Max(UpdatesUpTo(g, r, t))
BY DEF Serial!AsOf, UpdatesUpTo, Max, Serial!Max

LEMMA SerialInit == Init => Serial!Init
BY DEF Init, Serial!Init, INIT_TIMESTEP, NewEngine, EmptyMap

\* The timesteps that a handler takes up, one or two, as a sequence.
LEMMA OneInOrder ==
  ASSUME NEW t \in Nat
  PROVE  <<t>> \in Serial!InOrderOf({t})
<1>1. Serial!Cardinality({t}) = 1
  BY FS_Singleton DEF Serial!Cardinality, Cardinality
<1> QED  BY <1>1 DEF Serial!InOrderOf, Serial!Ascending

LEMMA TwoInOrder ==
  ASSUME NEW t \in Nat, NEW u \in Nat, t < u
  PROVE  <<t, u>> \in Serial!InOrderOf({t, u})
<1>1. Serial!Cardinality({t, u}) = 2
  <2>1. IsFiniteSet({t}) /\ Cardinality({t}) = 1
    BY FS_Singleton
  <2>2. u \notin {t} /\ {t} \cup {u} = {t, u}
    OBVIOUS
  <2>3. Cardinality({t} \cup {u}) = Cardinality({t}) + 1
    BY <2>1, <2>2, FS_AddElement
  <2>4. Cardinality({t, u}) = 2
    BY <2>1, <2>2, <2>3
  <2> QED  BY <2>4 DEF Serial!Cardinality, Cardinality
<1> QED  BY <1>1 DEF Serial!InOrderOf, Serial!Ascending

\* What SerialEngine sees of a step that changes one engine.
LEMMA SerialView ==
  ASSUME IInv, NEW d \in Engine, NEW p, engine' = [engine EXCEPT ![d] = p]
  PROVE  /\ Waiting' = [Waiting EXCEPT ![d] = DOMAIN p.queueMap]
         /\ Taken' = [Taken EXCEPT ![d] = p.evaluated]
         /\ Waiting[d] = DOMAIN engine[d].queueMap /\ Taken[d] = engine[d].evaluated
<1>1. \A x \in Engine : engine'[x] = IF x = d THEN p ELSE engine[x]
  BY DEF IInv, TypeOK
<1>2. Waiting' = [Waiting EXCEPT ![d] = DOMAIN p.queueMap]
  BY <1>1 DEF Waiting
<1>3. Taken' = [Taken EXCEPT ![d] = p.evaluated]
  <2>1. \A x \in Engine :
          (engine'[x]).evaluated = IF x = d THEN p.evaluated ELSE engine[x].evaluated
    BY <1>1
  <2> QED  BY <2>1 DEF Taken
<1>4. Waiting[d] = DOMAIN engine[d].queueMap /\ Taken[d] = engine[d].evaluated
  BY DEF Waiting, Taken
<1> QED  BY <1>2, <1>3, <1>4

\* Steps that concern the queues' messages only are invisible.
LEMMA SerialStutter ==
  ASSUME IInv, NEW d \in Engine, NEW p, engine' = [engine EXCEPT ![d] = p],
         DOMAIN p.queueMap = DOMAIN engine[d].queueMap, p.evaluated = engine[d].evaluated,
         timestep' = timestep, submitted' = submitted, delivered' = delivered
  PROVE  UNCHANGED Serial!vars
<1>1. Waiting' = Waiting /\ Taken' = Taken
  <2>1. \A x \in Engine : /\ DOMAIN (engine'[x]).queueMap = DOMAIN engine[x].queueMap
                          /\ (engine'[x]).evaluated = engine[x].evaluated
    BY DEF IInv, TypeOK
  <2> QED  BY <2>1 DEF Waiting, Taken
<1> QED  BY <1>1 DEF Serial!vars, Waiting, Taken

LEMMA AppendTwo ==
  ASSUME NEW s \in Seq(Nat), NEW t \in Nat, NEW u \in Nat
  PROVE  /\ Append(s, t) = s \o <<t>>
         /\ Append(Append(s, t), u) = s \o <<t, u>>
<1>1. Append(s, t) = s \o <<t>> /\ Append(s, t) \in Seq(Nat)
  BY AppendIsConcat
<1>2. Append(Append(s, t), u) = Append(s, t) \o <<u>>
  BY <1>1, AppendIsConcat
<1>3. <<t>> \in Seq(Nat) /\ <<u>> \in Seq(Nat) /\ <<t>> \o <<u>> = <<t, u>>
  <2>1. <<t>> \in Seq(Nat) /\ <<u>> \in Seq(Nat)
    OBVIOUS
  <2>2. Append(<<t>>, u) = <<t>> \o <<u>>
    BY <2>1, AppendIsConcat
  <2>3. Append(<<t>>, u) = <<t, u>>
    <3> DEFINE a == Append(<<t>>, u)
               b == <<t, u>>
    <3>1. a \in Seq(Nat) /\ Len(a) = 2 /\ a[1] = t /\ a[2] = u
      BY <2>1
    <3>2. b \in Seq(Nat) /\ Len(b) = 2 /\ b[1] = t /\ b[2] = u
      OBVIOUS
    <3> HIDE DEF a, b
    <3>3. \A i \in 1..Len(a) : a[i] = b[i]
      BY <3>1, <3>2
    <3>4. a = b
      BY <3>1, <3>2, <3>3, SeqEqual
    <3> QED  BY <3>4 DEF a, b
  <2> QED  BY <2>1, <2>2, <2>3
<1>4. (s \o <<t>>) \o <<u>> = s \o (<<t>> \o <<u>>)
  BY <1>3, ConcatAssociative
<1> QED  BY <1>1, <1>2, <1>3, <1>4

\* A handler that takes up the timesteps ts, the lowest ones.
LEMMA SerialTakeUp ==
  ASSUME IInv, NEW d \in Engine, NEW p, engine' = [engine EXCEPT ![d] = p],
         timestep' = timestep, submitted' = submitted, delivered' = delivered,
         NEW ts, ts # {}, ts \subseteq DOMAIN engine[d].queueMap,
         \A t \in ts, u \in DOMAIN engine[d].queueMap \ ts : t < u,
         DOMAIN p.queueMap = DOMAIN engine[d].queueMap \ ts,
         NEW s \in Serial!InOrderOf(ts), p.evaluated = engine[d].evaluated \o s
  PROVE  Serial!Next
<1>1. /\ Waiting' = [Waiting EXCEPT ![d] = Waiting[d] \ ts]
      /\ Taken' = [Taken EXCEPT ![d] = Taken[d] \o s]
      /\ Waiting[d] = DOMAIN engine[d].queueMap
  <2>1. /\ Waiting' = [Waiting EXCEPT ![d] = DOMAIN p.queueMap]
        /\ Taken' = [Taken EXCEPT ![d] = p.evaluated]
        /\ Waiting[d] = DOMAIN engine[d].queueMap /\ Taken[d] = engine[d].evaluated
    BY SerialView
  <2>2. DOMAIN p.queueMap = Waiting[d] \ ts /\ p.evaluated = Taken[d] \o s
    BY <2>1
  <2> QED  BY <2>1, <2>2
<1>2. Serial!TakeUp(d, ts)
  <2>1. \A t \in ts, u \in Waiting[d] \ ts : t < u
    BY <1>1
  <2>2. ts \subseteq Waiting[d]
    BY <1>1
  <2> QED  BY <1>1, <2>1, <2>2 DEF Serial!TakeUp, Waiting, Taken
<1>3. Serial!SomeTakeUp(d)
  <2>1. ts \in SUBSET Waiting[d]
    BY <1>1
  <2> QED  BY <1>2, <2>1 DEF Serial!SomeTakeUp, Waiting
<1> QED  BY <1>3 DEF Serial!Next

LEMMA SerialHandleUpdate ==
  ASSUME IInv, NEW d \in Engine, NEW p, engine' = [engine EXCEPT ![d] = p],
         timestep' = timestep, submitted' = submitted, delivered' = delivered,
         NEW s, TakesUpHead(engine[d], s), TakesUpHead(s, p)
  PROVE  Serial!Next \/ UNCHANGED Serial!vars
<1> DEFINE q == engine[d]
           D == DOMAIN q.queueMap
<1>1. /\ \A t \in D : t \in Nat
      /\ q.evaluated \in Seq(Nat)
  BY QueueTimes DEF IInv, TypeOK, IsEngine
<1>2. CASE p.evaluated = q.evaluated /\ DOMAIN p.queueMap = D
  BY <1>2, SerialStutter
<1>3. ASSUME NEW t \in D, \A u \in D : t <= u,
             p.evaluated = Append(q.evaluated, t), DOMAIN p.queueMap = D \ {t}
      PROVE  Serial!Next
  <2>1. p.evaluated = q.evaluated \o <<t>>
    BY <1>1, <1>3, AppendTwo
  <2>2. <<t>> \in Serial!InOrderOf({t})
    BY <1>1, OneInOrder
  <2>3. \A x \in {t}, u \in D \ {t} : x < u
    BY <1>1, <1>3
  <2>4. {t} # {} /\ {t} \subseteq D
    OBVIOUS
  <2> QED  BY <1>3, <2>1, <2>2, <2>3, <2>4, SerialTakeUp
<1>4. ASSUME NEW t \in D, \A u \in D : t <= u,
             NEW u \in D \ {t}, \A w \in D \ {t} : u <= w,
             p.evaluated = Append(Append(q.evaluated, t), u),
             DOMAIN p.queueMap = (D \ {t}) \ {u}
      PROVE  Serial!Next
  <2>1. p.evaluated = q.evaluated \o <<t, u>>
    BY <1>1, <1>4, AppendTwo
  <2>2. t \in Nat /\ u \in Nat /\ t < u
    BY <1>1, <1>4
  <2>3. <<t, u>> \in Serial!InOrderOf({t, u})
    BY <2>2, TwoInOrder
  <2>4. \A x \in {t, u}, w \in D \ {t, u} : x < w
    <3> SUFFICES ASSUME NEW w \in D \ {t, u} PROVE t < w /\ u < w
      OBVIOUS
    <3> QED  BY <1>1, <1>4, <2>2
  <2>5. {t, u} # {} /\ {t, u} \subseteq D /\ DOMAIN p.queueMap = D \ {t, u}
    BY <1>4
  <2> QED  BY <2>1, <2>3, <2>4, <2>5, SerialTakeUp
<1>5. CASE s.evaluated = q.evaluated /\ DOMAIN s.queueMap = D
  <2> HIDE DEF q, D
  <2> QED  BY <1>2, <1>3, <1>5 DEF TakesUpHead
<1>6. ASSUME NEW t \in D, \A u \in D : t <= u,
             s.evaluated = Append(q.evaluated, t), DOMAIN s.queueMap = D \ {t}
      PROVE  Serial!Next
  <2> HIDE DEF q, D
  <2>1. CASE p.evaluated = s.evaluated /\ DOMAIN p.queueMap = DOMAIN s.queueMap
    BY <1>3, <1>6, <2>1
  <2>2. CASE \E u \in DOMAIN s.queueMap :
               /\ \A w \in DOMAIN s.queueMap : u <= w
               /\ p.evaluated = Append(s.evaluated, u)
               /\ DOMAIN p.queueMap = DOMAIN s.queueMap \ {u}
    BY <1>4, <1>6, <2>2
  <2> QED  BY <2>1, <2>2 DEF TakesUpHead
<1>7. \/ s.evaluated = q.evaluated /\ DOMAIN s.queueMap = D
      \/ \E t \in D : /\ \A u \in D : t <= u
                      /\ s.evaluated = Append(q.evaluated, t)
                      /\ DOMAIN s.queueMap = D \ {t}
  BY DEF TakesUpHead
<1> HIDE DEF q, D
<1> QED  BY <1>5, <1>6, <1>7

LEMMA SerialGive ==
  ASSUME IInv, ShipWorkerInput, NEW d \in Engine, NEW r \in Relation,
         d = Head(sending).destination, r = Head(sending).relation
  PROVE  Serial!Next
<1> DEFINE q == engine[d]
           p == SendUpdate(q, timestep, r, Plan(d, timestep))
<1>1. /\ engine' = [engine EXCEPT ![d] = p] /\ timestep' = timestep
      /\ submitted' = [submitted EXCEPT ![d] = @ \cup {<<timestep, r>>}]
      /\ delivered' = delivered
  BY DEF ShipWorkerInput
<1>2. /\ IsEngine(q) /\ QueueOK(q, timestep) /\ timestep \in Nat \ {NoHead}
      /\ \A i \in DOMAIN q.evaluated : q.evaluated[i] < timestep
  BY DEF IInv, TypeOK, Sending, ShipWorkerInput
<1>3. p.evaluated = q.evaluated
  BY <1>2, SendUpdateOK
<1>4. DOMAIN p.queueMap = DOMAIN q.queueMap \cup {timestep}
  <2> DEFINE entry == JoinEntry(q, timestep, r, Plan(d, timestep))
             later == [entry EXCEPT !.receivedValues = Append(@, r)]
  <2>1. \/ p.queueMap = MapSet(q.queueMap, timestep, entry)
        \/ p.queueMap = MapSet(q.queueMap, timestep, later)
    <3> HIDE DEF q, entry
    <3> QED  BY <1>2 DEF SendUpdate, IsEngine, entry
  <2> HIDE DEF entry, later, p
  <2> QED  BY <2>1 DEF MapSet
<1> HIDE DEF p
<1>5. /\ Waiting' = [Waiting EXCEPT ![d] = Waiting[d] \cup {timestep}]
      /\ Taken' = [Taken EXCEPT ![d] = Taken[d]] /\ Taken[d] = q.evaluated
  <2>1. /\ Waiting' = [Waiting EXCEPT ![d] = DOMAIN p.queueMap]
        /\ Taken' = [Taken EXCEPT ![d] = p.evaluated]
        /\ Waiting[d] = DOMAIN engine[d].queueMap /\ Taken[d] = engine[d].evaluated
    BY <1>1, SerialView
  <2>2. DOMAIN p.queueMap = Waiting[d] \cup {timestep} /\ p.evaluated = Taken[d]
    BY <1>3, <1>4, <2>1
  <2> QED  BY <1>3, <2>1, <2>2
<1>6. Taken' = Taken
  BY <1>5 DEF Taken
<1>7. Serial!Give(d, r)
  BY <1>1, <1>2, <1>5, <1>6 DEF Serial!Give, Waiting, Taken
<1> QED  BY <1>7 DEF Serial!Next

LEMMA SerialAnswer ==
  ASSUME IInv, SnapInv, errors = 0, NEW d \in Engine, TakesAnswer(d), HandsOver(d),
         timestep' = timestep + 1
  PROVE  Serial!Next
<1> DEFINE reply == Head(toClient[d])
           t == reply.msg.requestTimestep
           v == reply.msg.relationName
<1>1. /\ engine' = engine /\ submitted' = submitted /\ timestep' = timestep + 1
      /\ delivered' = [delivered EXCEPT ![d] = @ \cup
           {[requestTimestep |-> t, view |-> v, results |-> reply.results]}]
      /\ ~IsUpdate(reply.msg) /\ ~reply.err
  BY DEF TakesAnswer, HandsOver, IsUpdate
<1>2. reply = toClient[d][1] /\ 1 \in DOMAIN toClient[d]
  BY TakeReplyRest DEF TakesAnswer
<1>3. v \in Event
  <2>1. reply \in Answered
    BY TakeReplyType DEF TakesAnswer
  <2>2. reply.msg \in Message
    BY <2>1 DEF Answered
  <2> HIDE DEF reply
  <2> QED  BY <1>1, <2>2 DEF Message, IsUpdate
<1> HIDE DEF reply, v, t
<1>4. RightAnswer(engine[d], submitted[d], reply.results, t)
  BY <1>1, <1>2 DEF SnapInv, Answers, RightReply, t
<1>5. reply.results = [r \in Relation |-> Serial!AsOf(submitted[d], r, t)]
  <2>1. \A r \in Relation : reply.results[r] = Serial!AsOf(submitted[d], r, t)
    BY <1>4, AsOfIsMax DEF RightAnswer
  <2>2. reply.results \in [Relation -> Nat]
    BY <1>4 DEF RightAnswer
  <2> QED  BY <2>1, <2>2
<1>6. PICK i \in DOMAIN engine[d].evaluated : engine[d].evaluated[i] = t
  BY <1>4 DEF RightAnswer, IsEvaluated
<1>7. Taken[d] = engine[d].evaluated /\ Waiting' = Waiting /\ Taken' = Taken
  BY <1>1 DEF Taken, Waiting
<1>8. Serial!Answer(d, t, v)
  BY <1>1, <1>5, <1>6, <1>7 DEF Serial!Answer, Waiting, Taken
<1>9. t \in Serial!Taken(d)
  BY <1>6, <1>7 DEF Serial!Taken, Taken
<1> QED  BY <1>3, <1>8, <1>9 DEF Serial!Next

\* Every step of the engines is a step of the serial databases, or invisible.
LEMMA SerialNext ==
  ASSUME IInv, SnapInv, [Next]_vars, errors = 0, errors' = 0
  PROVE  Serial!Next \/ UNCHANGED Serial!vars
<1>1. errors = 0
  OBVIOUS
<1>2. ASSUME NEW e \in Input, NewInput(e) PROVE Serial!Next
  <2>1. Serial!Tick
    BY <1>2 DEF NewInput, StartTick, Serial!Tick, historyVars
  <2> QED  BY <2>1 DEF Serial!Next
<1>3. CASE ShipWorkerInput
  <2>1. Head(sending) \in Shipment
    BY <1>3, TailType DEF ShipWorkerInput, IInv, TypeOK
  <2>2. PICK d \in Engine, r \in Relation :
          d = Head(sending).destination /\ r = Head(sending).relation
    BY <2>1 DEF Shipment
  <2> QED  BY <1>3, <2>2, SerialGive
<1>4. CASE SkipEmptyRelation
  BY <1>4 DEF SkipEmptyRelation, Serial!vars, historyVars
<1>5. ASSUME NEW d \in Engine, ExecuteUpdate(d) \/ ExecuteShip(d)
      PROVE  UNCHANGED Serial!vars
  <2> DEFINE p == [engine[d] EXCEPT !.toRemote = Tail(@)]
  <2>1. /\ engine' = [engine EXCEPT ![d] = p]
        /\ timestep' = timestep /\ submitted' = submitted /\ delivered' = delivered
    BY <1>5 DEF ExecuteUpdate, ExecuteShip, Execute, mainVars, historyVars
  <2>2. p.queueMap = engine[d].queueMap /\ p.evaluated = engine[d].evaluated
    BY DEF IInv, TypeOK, IsEngine
  <2> HIDE DEF p
  <2> QED  BY <2>1, <2>2, SerialStutter
<1>6. ASSUME NEW d \in Engine PROVE ~ExecuteFails(d)
  BY <1>1 DEF ExecuteFails
<1>7. ASSUME NEW d \in Engine, LoseConnection(d) PROVE UNCHANGED Serial!vars
  BY <1>7 DEF LoseConnection, Serial!vars, mainVars, historyVars
<1>8. ASSUME NEW d \in Engine, HandleUpdate(d)
      PROVE  Serial!Next \/ UNCHANGED Serial!vars
  <2> DEFINE reply == Head(toClient[d])
             p     == HandleUpdateReply(engine[d], reply.msg, reply.err)
  <2>1. reply.msg \in Message /\ reply.err \in BOOLEAN
    BY <1>8, TakeReplyType DEF HandleUpdate, Answered
  <2>2. /\ engine' = [engine EXCEPT ![d] = p] /\ timestep' = timestep
        /\ submitted' = submitted /\ delivered' = delivered
    BY <1>8 DEF HandleUpdate, mainVars, historyVars
  <2> HIDE DEF reply
  <2>3. timestep \in Nat /\ IsEngine(engine[d]) /\ QueueOK(engine[d], timestep)
    BY DEF IInv, TypeOK
  <2>4. PICK s : TakesUpHead(engine[d], s) /\ TakesUpHead(s, p)
    BY <2>1, <2>3, HandleUpdateReplyPipeline
  <2> HIDE DEF p
  <2> QED  BY <2>2, <2>4, SerialHandleUpdate
<1>9. ASSUME NEW d \in Engine, HandleShip(d) PROVE Serial!Next
  BY <1>1, <1>9, HandleShipTakes, SerialAnswer DEF HandleShip, StartTick
<1>10. ASSUME NEW d \in Engine, DropShip(d) PROVE UNCHANGED Serial!vars
  BY <1>10 DEF DropShip, Serial!vars, mainVars, historyVars
<1>11. CASE UNCHANGED vars
  BY <1>11 DEF Serial!vars, vars, mainVars, historyVars
<1> QED  BY <1>2, <1>3, <1>4, <1>5, <1>6, <1>7, <1>8, <1>9, <1>10, <1>11
         DEF Next, MainNext, RemoteNext, FaultNext, HandleNext, Handle

(***************************************************************************)
(* Refinement: unless a database fails, the engines with their queues,     *)
(* pipelined messages and promises (class DbEngine) are serial databases,  *)
(* whatever connections are lost: each takes up its timesteps in order and *)
(* once, and answers a timestep from the updates up to it.                 *)
(***************************************************************************)
THEOREM ImplementsSerial ==
  ASSUME MaxErrors = 0
  PROVE  Spec => Serial!SafeSpec
<1>1. IInv /\ SnapInv /\ IInv' /\ [Next]_vars => [Serial!Next]_(Serial!vars)
  <2>1. IInv => errors = 0
    BY DEF IInv, TypeOK
  <2>2. IInv' => errors' = 0
    BY DEF IInv, TypeOK
  <2> QED  BY <2>1, <2>2, SerialNext
<1> QED  BY <1>1, SerialInit, Invariance, SnapInvariance, PTL DEF Spec, Serial!SafeSpec
=============================================================================
