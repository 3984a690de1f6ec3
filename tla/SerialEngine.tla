---------------------------- MODULE SerialEngine ----------------------------
(***************************************************************************)
(* What a remote engine promises the rest of DIEL, with no queue, message  *)
(* or promise in sight: it is a serial database.  It is given the updates  *)
(* of one timestep after another, takes up the timesteps it was given      *)
(* strictly in order, each once, and answers for a timestep from the       *)
(* updates up to that timestep.  An engine may take up several timesteps   *)
(* in one step of the client.                                              *)
(***************************************************************************)
EXTENDS Integers, Sequences, FiniteSetsExt

CONSTANTS Engine, Relation, Event

VARIABLES
  now,       \* the logical clock, which every event advances
  given,     \* for each engine, the updates <<timestep, relation>> given to it
  waiting,   \* the timesteps given and not yet taken up
  taken,     \* the timesteps taken up, in order
  answered   \* the answers: timestep, view and the content it was read from

vars == <<now, given, waiting, taken, answered>>

\* The latest update of relation r in the set g of updates, as of timestep t.
AsOf(g, r, t) == Max({0} \cup {x[1] : x \in {y \in g : y[2] = r /\ y[1] <= t}})

Init ==
  /\ now      = 1
  /\ given    = [d \in Engine |-> {}]
  /\ waiting  = [d \in Engine |-> {}]
  /\ taken    = [d \in Engine |-> <<>>]
  /\ answered = [d \in Engine |-> {}]

\* The user acts.
Tick == now' = now + 1 /\ UNCHANGED <<given, waiting, taken, answered>>

\* An update of the current timestep, which has not been taken up yet.
Give(d, r) ==
  /\ \A i \in DOMAIN taken[d] : taken[d][i] < now
  /\ given'   = [given EXCEPT ![d] = @ \cup {<<now, r>>}]
  /\ waiting' = [waiting EXCEPT ![d] = @ \cup {now}]
  /\ UNCHANGED <<now, taken, answered>>

\* The timesteps in ts, all of them lower than the rest, are taken up in order.
Ascending(s) == \A i, j \in DOMAIN s : i < j => s[i] < s[j]

InOrderOf(ts) ==
  {s \in [1..Cardinality(ts) -> ts] : Ascending(s) /\ \A t \in ts : \E i \in DOMAIN s : s[i] = t}

TakeUp(d, ts) ==
  /\ ts # {} /\ ts \subseteq waiting[d]
  /\ \A t \in ts, u \in waiting[d] \ ts : t < u
  /\ waiting' = [waiting EXCEPT ![d] = @ \ ts]
  /\ \E s \in InOrderOf(ts) : taken' = [taken EXCEPT ![d] = @ \o s]
  /\ UNCHANGED <<now, given, answered>>

\* An answer is the event of a timestep of its own.
Answer(d, t, view) ==
  /\ now' = now + 1
  /\ \E i \in DOMAIN taken[d] : taken[d][i] = t
  /\ answered' = [answered EXCEPT ![d] = @ \cup
       {[requestTimestep |-> t, view |-> view,
         results |-> [r \in Relation |-> AsOf(given[d], r, t)]]}]
  /\ UNCHANGED <<given, waiting, taken>>

Taken(d)      == {taken[d][i] : i \in DOMAIN taken[d]}
SomeTakeUp(d) == \E ts \in SUBSET waiting[d] : TakeUp(d, ts)

Next ==
  \/ Tick
  \/ \E d \in Engine :
    \/ \E r \in Relation : Give(d, r)
    \/ SomeTakeUp(d)
    \/ \E t \in Taken(d), v \in Event : Answer(d, t, v)

\* Once the user stops, nothing that was given waits for ever.
NothingWaits == \A d \in Engine : []<>(waiting[d] = {})

SafeSpec == Init /\ [][Next]_vars
Spec     == SafeSpec /\ NothingWaits
=============================================================================
