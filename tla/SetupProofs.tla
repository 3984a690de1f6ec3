----------------------------- MODULE SetupProofs -----------------------------
(***************************************************************************)
(* Proofs about the set-up, for every number of databases, every plan and  *)
(* every number of faults: its types, that a page is loaded only when the  *)
(* whole set-up has happened, that names are located as configured, and    *)
(* that what is planned for a database is there, on its way or refused.    *)
(***************************************************************************)
EXTENDS Setup, SequenceTheorems, FiniteSetTheorems, TLAPS

-----------------------------------------------------------------------------
(***************************************************************************)
(* One connection: p are its promises, out and in the messages on their    *)
(* way to and from the database, rel the relations the database has.       *)
(***************************************************************************)
Define == "DefineRelations"
Query  == "GetResultsByPromise"

\* A message that has a promise is that of the promise, which is pending.
OutOK(p, out) ==
  \A i \in DOMAIN out :
    IF out[i].msgId = 0 THEN out[i].remoteAction \in {"CleanUpQueries", "Close"}
    ELSE /\ out[i].msgId \in DOMAIN p
         /\ p[out[i].msgId].remoteAction = out[i].remoteAction
         /\ p[out[i].msgId].names = out[i].names
         /\ p[out[i].msgId].state = "pending"

\* So is a reply, and it says what the database has done.
InOK(p, in, rel) ==
  \A i \in DOMAIN in : in[i].msgId # 0 =>
    /\ in[i].msgId \in DOMAIN p
    /\ p[in[i].msgId].state = "pending"
    /\ ~in[i].err /\ p[in[i].msgId].remoteAction = Define => p[in[i].msgId].names \subseteq rel

\* No promise has two messages, two replies, or both.
OnceOK(out, in) ==
  /\ \A i, j \in DOMAIN out : i # j /\ out[i].msgId = out[j].msgId => out[i].msgId = 0
  /\ \A i, j \in DOMAIN in : i # j /\ in[i].msgId = in[j].msgId => in[i].msgId = 0
  /\ \A i \in DOMAIN out, j \in DOMAIN in : out[i].msgId = in[j].msgId => out[i].msgId = 0

PromiseOK(p, rel) ==
  \A k \in DOMAIN p :
    /\ p[k].remoteAction # Define => p[k].names = {}
    /\ p[k].remoteAction = Define /\ p[k].state = "resolved" => p[k].names \subseteq rel

WireOK(p, out, in, rel) ==
  OutOK(p, out) /\ InOK(p, in, rel) /\ OnceOK(out, in) /\ PromiseOK(p, rel)

\* Before anything is defined a database has the tables t it came with, and
\* so say its answers.
MetaOK(p, in, rel, t) ==
  /\ rel = t
  /\ \A k \in DOMAIN p : /\ p[k].remoteAction # Define
                         /\ p[k].remoteAction = Query /\ p[k].state = "resolved" => p[k].results = t
  /\ \A i \in DOMAIN in :
       in[i].msgId # 0 /\ ~in[i].err /\ p[in[i].msgId].remoteAction = Query => in[i].results = t

\* The names that are planned and neither there nor on their way were refused.
PlannedOK(p, out, in, rel, names) ==
  \A n \in names :
    \/ n \in rel
    \/ \E i \in DOMAIN out : out[i].remoteAction = Define /\ n \in out[i].names
    \/ \E k \in DOMAIN p : p[k].remoteAction = Define /\ n \in p[k].names /\ p[k].state = "rejected"
    \/ \E i \in DOMAIN in : in[i].err /\ in[i].msgId > 0 /\ n \in p[in[i].msgId].names

Wire(d) == WireOK(promise[d], toRemote[d], toClient[d], remote[d].relations)
Meta(d) == MetaOK(promise[d], toClient[d], remote[d].relations, Tables[d])
PlannedAt(d) == PlannedOK(promise[d], toRemote[d], toClient[d], remote[d].relations, spec[d])

(***************************************************************************)
(* The inductive invariant.                                                *)
(***************************************************************************)
EarlyPhase == {"mainDb", "remotes", "metadata", "files"}

\* What setup awaits is the metadata of every database, then the definitions.
Awaited ==
  /\ phase = "metadata" =>
       /\ \A d \in Remote : \E p \in awaiting : p[1] = d
       /\ \A p \in awaiting : promise[p[1]][p[2]].remoteAction = Query
  /\ phase = "execute" =>
       \A d \in Specified : \E p \in awaiting :
         /\ p[1] = d
         /\ promise[d][p[2]].remoteAction = Define
         /\ promise[d][p[2]].names = Definitions[d]

Progress ==
  /\ phase \in {"metadata", "files", "execute", "loaded", "shut"} => connection = Remote
  /\ phase \in {"remotes", "metadata", "files"} => local = Tables[LocalDbId]
  /\ phase \in {"execute", "loaded", "shut"} =>
       Specified \subseteq planned /\ Definitions[LocalDbId] \subseteq local

Connection(d) ==
  /\ Wire(d) /\ PlannedAt(d)
  /\ phase \in EarlyPhase => Meta(d) /\ spec[d] = {}

SetupInv ==
  /\ \A d \in Remote : Connection(d)
  /\ Awaited /\ Progress
  /\ LoadedIsComplete /\ LocationsAsConfigured

-----------------------------------------------------------------------------
(***************************************************************************)
(* What happens on a connection.                                           *)
(***************************************************************************)
\* A promised message is sent.
LEMMA SendKeeps ==
  ASSUME NEW p \in Seq(PromiseType), NEW out \in Seq(MessageType), NEW in \in Seq(ReplyType),
         NEW rel, NEW a, NEW names, NEW replace, a \notin {"CleanUpQueries", "Close"},
         a # Define => names = {}, WireOK(p, out, in, rel)
  PROVE  WireOK(Append(p, [remoteAction |-> a, names |-> names, state |-> "pending",
                           results |-> {}]),
                Append(out, Message(Len(p) + 1, a, names, replace)), in, rel)
<1> DEFINE new == [remoteAction |-> a, names |-> names, state |-> "pending", results |-> {}]
           q == Append(p, new)
           m == Message(Len(p) + 1, a, names, replace)
           o == Append(out, m)
<1>1. /\ DOMAIN q = DOMAIN p \cup {Len(p) + 1} /\ Len(p) + 1 \notin DOMAIN p
      /\ \A k \in DOMAIN p : q[k] = p[k]
      /\ q[Len(p) + 1] = new
  OBVIOUS
<1>2. /\ DOMAIN o = DOMAIN out \cup {Len(out) + 1} /\ Len(out) + 1 \notin DOMAIN out
      /\ \A i \in DOMAIN out : o[i] = out[i]
      /\ o[Len(out) + 1] = m
  OBVIOUS
<1>3. m.msgId = Len(p) + 1 /\ m.remoteAction = a /\ m.names = names /\ Len(p) + 1 # 0
  BY DEF Message
<1>4. /\ new.remoteAction = a /\ new.names = names /\ new.state = "pending"
  OBVIOUS
<1> HIDE DEF new, q, m, o
<1>5. OutOK(q, o)
  BY <1>1, <1>2, <1>3, <1>4 DEF WireOK, OutOK
<1>6. InOK(q, in, rel)
  BY <1>1 DEF WireOK, InOK
<1>7. OnceOK(o, in)
  <2>1. /\ \A i \in DOMAIN out : out[i].msgId # m.msgId
        /\ \A i \in DOMAIN in : in[i].msgId # m.msgId
    BY <1>1, <1>3 DEF WireOK, OutOK, InOK
  <2> QED BY <2>1, <1>2 DEF WireOK, OnceOK
<1>8. PromiseOK(q, rel)
  BY <1>1, <1>4 DEF WireOK, PromiseOK
<1>9. WireOK(q, o, in, rel)
  BY <1>5, <1>6, <1>7, <1>8 DEF WireOK
<1> QED BY <1>9 DEF new, q, m, o

\* A message without a promise is sent.
LEMMA PostKeeps ==
  ASSUME NEW p \in Seq(PromiseType), NEW out \in Seq(MessageType), NEW in \in Seq(ReplyType),
         NEW rel, NEW m, m.msgId = 0, m.remoteAction \in {"CleanUpQueries", "Close"},
         WireOK(p, out, in, rel)
  PROVE  WireOK(p, Append(out, m), in, rel)
<1> DEFINE o == Append(out, m)
<1>1. /\ DOMAIN o = DOMAIN out \cup {Len(out) + 1} /\ Len(out) + 1 \notin DOMAIN out
      /\ \A i \in DOMAIN out : o[i] = out[i]
      /\ o[Len(out) + 1] = m
  OBVIOUS
<1> HIDE DEF o
<1>2. OutOK(p, o)
  BY <1>1 DEF WireOK, OutOK
<1>3. OnceOK(o, in)
  BY <1>1 DEF WireOK, OnceOK
<1>4. WireOK(p, o, in, rel)
  BY <1>2, <1>3 DEF WireOK
<1> QED BY <1>4 DEF o

\* The database executes the first message, or fails to, and answers it.
LEMMA ExecuteKeeps ==
  ASSUME NEW p \in Seq(PromiseType), NEW out \in Seq(MessageType), NEW in \in Seq(ReplyType),
         NEW rel, NEW rel2, NEW in2, NEW err \in BOOLEAN,
         NEW results \in SUBSET Name, out # <<>>, rel \subseteq rel2, WireOK(p, out, in, rel),
         ~err /\ Head(out).remoteAction = Define => Head(out).names \subseteq rel2,
         \/ in2 = in
         \/ in2 = Append(in, [msgId |-> Head(out).msgId, err |-> err, results |-> results])
  PROVE  WireOK(p, Tail(out), in2, rel2)
<1> DEFINE o == Tail(out)
           m == out[1]
           r == [msgId |-> m.msgId, err |-> err, results |-> results]
<1>1. /\ 1 \in DOMAIN out /\ Head(out) = m
      /\ \A i \in DOMAIN o : i + 1 \in DOMAIN out /\ o[i] = out[i + 1] /\ i \in Nat /\ i + 1 # 1
      /\ DOMAIN o \subseteq Nat
  OBVIOUS
<1>2. /\ DOMAIN in2 \subseteq DOMAIN in \cup {Len(in) + 1} /\ Len(in) + 1 \notin DOMAIN in
      /\ DOMAIN in \subseteq DOMAIN in2
      /\ \A i \in DOMAIN in : in2[i] = in[i]
      /\ Len(in) + 1 \in DOMAIN in2 => in2[Len(in) + 1] = r
  <2>1. CASE in2 = in
    BY <2>1
  <2>2. CASE in2 # in
    <3>1. r \in ReplyType
      <4>1. m \in MessageType
        BY <1>1
      <4> QED BY <4>1 DEF MessageType, ReplyType
    <3>2. in2 = Append(in, r)
      BY <2>2, <1>1
    <3> HIDE DEF r
    <3> QED BY <3>1, <3>2
  <2> QED BY <2>1, <2>2
<1>3. r.msgId = m.msgId /\ r.err = err
  OBVIOUS
<1> HIDE DEF o, r
<1>4. OutOK(p, o)
  BY <1>1 DEF WireOK, OutOK
<1>5. InOK(p, in2, rel2)
  <2>1. m.msgId # 0 => /\ m.msgId \in DOMAIN p
                       /\ p[m.msgId].state = "pending"
                       /\ ~err /\ p[m.msgId].remoteAction = Define => p[m.msgId].names \subseteq rel2
    BY <1>1 DEF WireOK, OutOK
  <2>2. \A i \in DOMAIN in : in[i].msgId # 0 =>
          /\ in[i].msgId \in DOMAIN p
          /\ p[in[i].msgId].state = "pending"
          /\ ~in[i].err /\ p[in[i].msgId].remoteAction = Define => p[in[i].msgId].names \subseteq rel2
    BY DEF WireOK, InOK
  <2> QED BY <2>1, <2>2, <1>2, <1>3 DEF InOK
<1>6. OnceOK(o, in2)
  <2>1. \A i \in DOMAIN o : o[i].msgId = m.msgId => o[i].msgId = 0
    BY <1>1 DEF WireOK, OnceOK
  <2>2. \A i \in DOMAIN in : in[i].msgId = m.msgId => in[i].msgId = 0
    BY <1>1 DEF WireOK, OnceOK
  <2>3. \A i, j \in DOMAIN o : i # j /\ o[i].msgId = o[j].msgId => o[i].msgId = 0
    <3> SUFFICES ASSUME NEW i \in DOMAIN o, NEW j \in DOMAIN o, i # j, o[i].msgId = o[j].msgId
                 PROVE  o[i].msgId = 0
      OBVIOUS
    <3>1. i + 1 # j + 1
      BY <1>1
    <3> QED BY <3>1, <1>1 DEF WireOK, OnceOK
  <2>4. \A i, j \in DOMAIN in2 : i # j /\ in2[i].msgId = in2[j].msgId => in2[i].msgId = 0
    BY <2>2, <1>2, <1>3 DEF WireOK, OnceOK
  <2>5. \A i \in DOMAIN o, j \in DOMAIN in2 : o[i].msgId = in2[j].msgId => o[i].msgId = 0
    BY <2>1, <1>1, <1>2, <1>3 DEF WireOK, OnceOK
  <2> QED BY <2>3, <2>4, <2>5 DEF OnceOK
<1>7. PromiseOK(p, rel2)
  BY DEF WireOK, PromiseOK
<1>8. WireOK(p, o, in2, rel2)
  BY <1>4, <1>5, <1>6, <1>7 DEF WireOK
<1> QED BY <1>8 DEF o

\* The handler settles the promise of a reply that has one.
LEMMA ReplyKeeps ==
  ASSUME NEW p \in Seq(PromiseType), NEW out \in Seq(MessageType), NEW in \in Seq(ReplyType),
         NEW rel, in # <<>>, WireOK(p, out, in, rel)
  PROVE  /\ Head(in).msgId = 0 => WireOK(p, out, Tail(in), rel)
         /\ Head(in).msgId # 0 =>
              WireOK([p EXCEPT ![Head(in).msgId] = Settled(@, Head(in))], out, Tail(in), rel)
<1> DEFINE r == in[1]
           rest == Tail(in)
           q == [p EXCEPT ![r.msgId] = Settled(@, r)]
<1>1. /\ 1 \in DOMAIN in /\ Head(in) = r
      /\ \A i \in DOMAIN rest : i + 1 \in DOMAIN in /\ rest[i] = in[i + 1] /\ i \in Nat /\ i + 1 # 1
  OBVIOUS
<1>2. OnceOK(out, rest)
  <2>1. \A i, j \in DOMAIN rest : i # j /\ rest[i].msgId = rest[j].msgId => rest[i].msgId = 0
    <3> SUFFICES ASSUME NEW i \in DOMAIN rest, NEW j \in DOMAIN rest, i # j,
                        rest[i].msgId = rest[j].msgId
                 PROVE  rest[i].msgId = 0
      OBVIOUS
    <3>1. i + 1 # j + 1
      BY <1>1
    <3> QED BY <3>1, <1>1 DEF WireOK, OnceOK
  <2>2. \A i \in DOMAIN out, j \in DOMAIN rest : out[i].msgId = rest[j].msgId => out[i].msgId = 0
    BY <1>1 DEF WireOK, OnceOK
  <2> QED BY <2>1, <2>2 DEF WireOK, OnceOK
<1>3. InOK(p, rest, rel)
  BY <1>1 DEF WireOK, InOK
<1>4. r.msgId = 0 => WireOK(p, out, rest, rel)
  BY <1>2, <1>3 DEF WireOK
<1>5. ASSUME r.msgId # 0 PROVE WireOK(q, out, rest, rel)
  <2>1. /\ r.msgId \in DOMAIN p
        /\ DOMAIN q = DOMAIN p
        /\ \A k \in DOMAIN p : k # r.msgId => q[k] = p[k]
        /\ q[r.msgId] = Settled(p[r.msgId], r)
    BY <1>1, <1>5 DEF WireOK, InOK
  <2>2. /\ q[r.msgId].remoteAction = p[r.msgId].remoteAction
        /\ q[r.msgId].names = p[r.msgId].names
        /\ q[r.msgId].state = IF r.err THEN "rejected" ELSE "resolved"
    <3>1. p[r.msgId] \in PromiseType
      BY <2>1
    <3> QED BY <2>1, <3>1 DEF Settled, PromiseType
  <2>3. /\ \A i \in DOMAIN out : out[i].msgId # 0 => out[i].msgId # r.msgId
        /\ \A i \in DOMAIN rest : rest[i].msgId # 0 => rest[i].msgId # r.msgId
    BY <1>1 DEF WireOK, OnceOK
  <2> HIDE DEF q
  <2>4. OutOK(q, out)
    BY <2>1, <2>3 DEF WireOK, OutOK
  <2>5. InOK(q, rest, rel)
    BY <2>1, <2>3, <1>3 DEF InOK
  <2>6. PromiseOK(q, rel)
    <3>1. ~r.err /\ p[r.msgId].remoteAction = Define => p[r.msgId].names \subseteq rel
      BY <1>1, <1>5 DEF WireOK, InOK
    <3> QED BY <2>1, <2>2, <3>1 DEF WireOK, PromiseOK
  <2> QED BY <2>4, <2>5, <2>6, <1>2 DEF WireOK
<1> QED BY <1>1, <1>4, <1>5

(***************************************************************************)
(* Before anything is defined, what a database has and says is what it     *)
(* came with.                                                              *)
(***************************************************************************)
LEMMA SendKeepsMeta ==
  ASSUME NEW p \in Seq(PromiseType), NEW in, NEW rel, NEW t, NEW a, NEW names, a # Define,
         InOK(p, in, rel), MetaOK(p, in, rel, t)
  PROVE  MetaOK(Append(p, [remoteAction |-> a, names |-> names, state |-> "pending",
                           results |-> {}]), in, rel, t)
<1> DEFINE new == [remoteAction |-> a, names |-> names, state |-> "pending", results |-> {}]
           q == Append(p, new)
<1>1. /\ DOMAIN q = DOMAIN p \cup {Len(p) + 1} /\ Len(p) + 1 \notin DOMAIN p
      /\ \A k \in DOMAIN p : q[k] = p[k]
      /\ q[Len(p) + 1] = new
  OBVIOUS
<1>2. new.remoteAction = a /\ new.state = "pending"
  OBVIOUS
<1> HIDE DEF new, q
<1>3. MetaOK(q, in, rel, t)
  BY <1>1, <1>2 DEF MetaOK, InOK
<1> QED BY <1>3 DEF new, q

LEMMA ExecuteKeepsMeta ==
  ASSUME NEW p \in Seq(PromiseType), NEW out \in Seq(MessageType), NEW in \in Seq(ReplyType),
         NEW rel, NEW rel2, NEW in2, NEW err \in BOOLEAN, NEW results \in SUBSET Name, NEW t,
         out # <<>>, OutOK(p, out), InOK(p, in, rel), MetaOK(p, in, rel, t),
         Head(out).remoteAction # Define => rel2 = rel,
         ~err /\ Head(out).remoteAction = Query => results = rel,
         \/ in2 = in
         \/ in2 = Append(in, [msgId |-> Head(out).msgId, err |-> err, results |-> results])
  PROVE  MetaOK(p, in2, rel2, t)
<1> DEFINE m == out[1]
           r == [msgId |-> m.msgId, err |-> err, results |-> results]
<1>1. /\ 1 \in DOMAIN out /\ Head(out) = m /\ m \in MessageType
  OBVIOUS
<1>2. r.msgId = m.msgId /\ r.err = err /\ r.results = results
  OBVIOUS
<1>3. r \in ReplyType
  BY <1>1 DEF MessageType, ReplyType
<1>4. /\ m.msgId # 0 => m.msgId \in DOMAIN p /\ p[m.msgId].remoteAction = m.remoteAction
      /\ m.msgId = 0 => m.remoteAction # Define
  BY <1>1 DEF OutOK, Define
<1>5. m.remoteAction # Define
  BY <1>4 DEF MetaOK
<1>6. rel2 = rel
  BY <1>5, <1>1
<1> HIDE DEF m, r
<1>7. CASE in2 = in
  BY <1>6, <1>7 DEF MetaOK
<1>8. CASE in2 # in
  <2>1. in2 = Append(in, r)
    BY <1>8, <1>1 DEF r
  <2>2. /\ DOMAIN in2 = DOMAIN in \cup {Len(in) + 1}
        /\ \A i \in DOMAIN in : in2[i] = in[i]
        /\ in2[Len(in) + 1] = r
    BY <2>1, <1>3
  <2>3. r.msgId # 0 /\ ~r.err /\ p[r.msgId].remoteAction = Query => r.results = t
    BY <1>1, <1>2, <1>4 DEF MetaOK
  <2> QED BY <2>2, <2>3, <1>6 DEF MetaOK
<1> QED BY <1>7, <1>8

LEMMA ReplyKeepsMeta ==
  ASSUME NEW p \in Seq(PromiseType), NEW in \in Seq(ReplyType), NEW out, NEW rel, NEW t,
         in # <<>>, InOK(p, in, rel), OnceOK(out, in), MetaOK(p, in, rel, t)
  PROVE  /\ Head(in).msgId = 0 => MetaOK(p, Tail(in), rel, t)
         /\ Head(in).msgId # 0 =>
              MetaOK([p EXCEPT ![Head(in).msgId] = Settled(@, Head(in))], Tail(in), rel, t)
<1> DEFINE r == in[1]
           rest == Tail(in)
           q == [p EXCEPT ![r.msgId] = Settled(@, r)]
<1>1. /\ 1 \in DOMAIN in /\ Head(in) = r
      /\ \A i \in DOMAIN rest : i + 1 \in DOMAIN in /\ rest[i] = in[i + 1] /\ i + 1 # 1
  OBVIOUS
<1> HIDE DEF rest
<1>2. MetaOK(p, rest, rel, t)
  BY <1>1 DEF MetaOK
<1>3. ASSUME r.msgId # 0 PROVE MetaOK(q, rest, rel, t)
  <2>1. /\ r.msgId \in DOMAIN p
        /\ DOMAIN q = DOMAIN p
        /\ \A k \in DOMAIN p : k # r.msgId => q[k] = p[k]
        /\ q[r.msgId] = Settled(p[r.msgId], r)
    BY <1>1, <1>3 DEF InOK
  <2>2. /\ q[r.msgId].remoteAction = p[r.msgId].remoteAction
        /\ q[r.msgId].state = IF r.err THEN "rejected" ELSE "resolved"
        /\ q[r.msgId].results = r.results
    <3>1. p[r.msgId] \in PromiseType
      BY <2>1
    <3> QED BY <2>1, <3>1 DEF Settled, PromiseType
  <2>3. ~r.err /\ p[r.msgId].remoteAction = Query => r.results = t
    BY <1>1, <1>3 DEF MetaOK
  <2>4. \A i \in DOMAIN rest : rest[i].msgId # 0 => rest[i].msgId # r.msgId
    BY <1>1 DEF OnceOK
  <2>5. \A i \in DOMAIN rest : rest[i].msgId # 0 => rest[i].msgId \in DOMAIN p
    BY <1>1 DEF InOK
  <2> HIDE DEF q, r
  <2>6. \A k \in DOMAIN q :
          /\ q[k].remoteAction # Define
          /\ q[k].remoteAction = Query /\ q[k].state = "resolved" => q[k].results = t
    BY <2>1, <2>2, <2>3 DEF MetaOK
  <2>7. \A i \in DOMAIN rest :
          rest[i].msgId # 0 /\ ~rest[i].err /\ q[rest[i].msgId].remoteAction = Query =>
            rest[i].results = t
    BY <1>2, <2>1, <2>4, <2>5 DEF MetaOK
  <2> QED BY <2>6, <2>7 DEF MetaOK
<1> QED BY <1>1, <1>2, <1>3 DEF rest

(***************************************************************************)
(* A planned definition is there, on its way or refused.                   *)
(***************************************************************************)
LEMMA SendKeepsPlanned ==
  ASSUME NEW p \in Seq(PromiseType), NEW out \in Seq(MessageType), NEW in, NEW rel, NEW had,
         NEW a, NEW names, NEW replace, InOK(p, in, rel), PlannedOK(p, out, in, rel, had)
  PROVE  PlannedOK(Append(p, [remoteAction |-> a, names |-> names, state |-> "pending",
                              results |-> {}]),
                   Append(out, Message(Len(p) + 1, a, names, replace)), in, rel,
                   IF a = Define THEN had \cup names ELSE had)
<1> DEFINE new == [remoteAction |-> a, names |-> names, state |-> "pending", results |-> {}]
           q == Append(p, new)
           m == Message(Len(p) + 1, a, names, replace)
           o == Append(out, m)
           all == IF a = Define THEN had \cup names ELSE had
<1>1. DOMAIN p \subseteq DOMAIN q /\ \A k \in DOMAIN p : q[k] = p[k]
  OBVIOUS
<1>2. /\ DOMAIN o = DOMAIN out \cup {Len(out) + 1}
      /\ \A i \in DOMAIN out : o[i] = out[i]
      /\ o[Len(out) + 1] = m
  OBVIOUS
<1>3. m.remoteAction = a /\ m.names = names
  BY DEF Message
<1> HIDE DEF new, q, m, o
<1>4. ASSUME NEW i \in DOMAIN in, in[i].err, in[i].msgId > 0 PROVE q[in[i].msgId] = p[in[i].msgId]
  <2>1. in[i].msgId # 0 => in[i].msgId \in DOMAIN p
    BY DEF InOK
  <2> QED BY <1>1, <1>4, <2>1
<1>5. ASSUME NEW n \in had PROVE PlannedOK(q, o, in, rel, {n})
  BY <1>1, <1>2, <1>4 DEF PlannedOK
<1>6. ASSUME NEW n \in names, a = Define PROVE PlannedOK(q, o, in, rel, {n})
  <2>1. /\ Len(out) + 1 \in DOMAIN o
        /\ o[Len(out) + 1].remoteAction = Define /\ n \in o[Len(out) + 1].names
    BY <1>2, <1>3, <1>6
  <2> QED BY <2>1 DEF PlannedOK
<1>7. \A n \in all : PlannedOK(q, o, in, rel, {n})
  BY <1>5, <1>6
<1>8. PlannedOK(q, o, in, rel, all)
  BY <1>7 DEF PlannedOK
<1> QED BY <1>8 DEF new, q, m, o

LEMMA PostKeepsPlanned ==
  ASSUME NEW p, NEW out \in Seq(MessageType), NEW in, NEW rel, NEW names, NEW m,
         PlannedOK(p, out, in, rel, names)
  PROVE  PlannedOK(p, Append(out, m), in, rel, names)
<1>1. /\ DOMAIN out \subseteq DOMAIN Append(out, m)
      /\ \A i \in DOMAIN out : Append(out, m)[i] = out[i]
  OBVIOUS
<1> QED BY <1>1 DEF PlannedOK

LEMMA ExecuteKeepsPlanned ==
  ASSUME NEW p \in Seq(PromiseType), NEW out \in Seq(MessageType), NEW in \in Seq(ReplyType),
         NEW rel, NEW rel2, NEW in2, NEW err \in BOOLEAN, NEW results \in SUBSET Name, NEW names,
         out # <<>>, rel \subseteq rel2, OutOK(p, out), PlannedOK(p, out, in, rel, names),
         ~err /\ Head(out).remoteAction = Define => Head(out).names \subseteq rel2,
         \/ in2 = in /\ Head(out).remoteAction # Define
         \/ in2 = Append(in, [msgId |-> Head(out).msgId, err |-> err, results |-> results])
  PROVE  PlannedOK(p, Tail(out), in2, rel2, names)
<1> DEFINE o == Tail(out)
           m == out[1]
           r == [msgId |-> m.msgId, err |-> err, results |-> results]
<1>1. /\ 1 \in DOMAIN out /\ Head(out) = m /\ m \in MessageType
      /\ \A i \in DOMAIN out : i # 1 => i - 1 \in DOMAIN o /\ o[i - 1] = out[i]
  OBVIOUS
<1>2. r.msgId = m.msgId /\ r.err = err
  OBVIOUS
<1>3. r \in ReplyType
  BY <1>1 DEF MessageType, ReplyType
<1>4. m.remoteAction = Define => m.msgId > 0 /\ p[m.msgId].names = m.names
  BY <1>1 DEF OutOK, Define, MessageType
<1> HIDE DEF o, m, r
<1>5. /\ DOMAIN in \subseteq DOMAIN in2
      /\ \A i \in DOMAIN in : in2[i] = in[i]
      /\ m.remoteAction = Define => Len(in) + 1 \in DOMAIN in2 /\ in2[Len(in) + 1] = r
  <2>1. CASE in2 = in /\ m.remoteAction # Define
    BY <2>1
  <2>2. CASE in2 = Append(in, r)
    BY <2>2, <1>3
  <2> QED BY <2>1, <2>2, <1>1 DEF r
<1>6. SUFFICES ASSUME NEW n \in names PROVE PlannedOK(p, o, in2, rel2, {n})
  BY DEF PlannedOK, o
<1>7. CASE n \in rel
  BY <1>7 DEF PlannedOK
<1>8. ASSUME NEW i \in DOMAIN out, out[i].remoteAction = Define, n \in out[i].names
      PROVE  PlannedOK(p, o, in2, rel2, {n})
  <2>1. CASE i # 1
    BY <2>1, <1>8, <1>1 DEF PlannedOK
  <2>2. CASE i = 1 /\ err
    BY <2>2, <1>8, <1>2, <1>4, <1>5 DEF PlannedOK, m
  <2>3. CASE i = 1 /\ ~err
    BY <2>3, <1>8, <1>1 DEF PlannedOK, m
  <2> QED BY <2>1, <2>2, <2>3
<1>9. CASE \/ \E k \in DOMAIN p : p[k].remoteAction = Define /\ n \in p[k].names /\ p[k].state = "rejected"
           \/ \E i \in DOMAIN in : in[i].err /\ in[i].msgId > 0 /\ n \in p[in[i].msgId].names
  BY <1>9, <1>5 DEF PlannedOK
<1> QED BY <1>7, <1>8, <1>9 DEF PlannedOK

LEMMA ReplyKeepsPlanned ==
  ASSUME NEW p \in Seq(PromiseType), NEW in \in Seq(ReplyType), NEW out, NEW rel, NEW names,
         in # <<>>, InOK(p, in, rel), OnceOK(out, in), PromiseOK(p, rel),
         PlannedOK(p, out, in, rel, names)
  PROVE  /\ Head(in).msgId = 0 => PlannedOK(p, out, Tail(in), rel, names)
         /\ Head(in).msgId # 0 =>
              PlannedOK([p EXCEPT ![Head(in).msgId] = Settled(@, Head(in))], out, Tail(in), rel, names)
<1> DEFINE r == in[1]
           rest == Tail(in)
           q == [p EXCEPT ![r.msgId] = Settled(@, r)]
<1>1. /\ 1 \in DOMAIN in /\ Head(in) = r /\ r \in ReplyType
      /\ \A i \in DOMAIN in : i # 1 => i - 1 \in DOMAIN rest /\ rest[i - 1] = in[i]
  OBVIOUS
<1>2. r.msgId \in Nat
  BY <1>1 DEF ReplyType
<1> HIDE DEF rest
<1>3. ASSUME r.msgId = 0 PROVE PlannedOK(p, out, rest, rel, names)
  <2>1. ASSUME NEW i \in DOMAIN in, in[i].msgId > 0
        PROVE  i - 1 \in DOMAIN rest /\ rest[i - 1] = in[i]
    BY <2>1, <1>1, <1>3
  <2> QED BY <2>1 DEF PlannedOK
<1>4. ASSUME r.msgId # 0 PROVE PlannedOK(q, out, rest, rel, names)
  <2>1. /\ r.msgId \in DOMAIN p /\ p[r.msgId].state = "pending"
        /\ DOMAIN q = DOMAIN p
        /\ \A k \in DOMAIN p : k # r.msgId => q[k] = p[k]
        /\ q[r.msgId] = Settled(p[r.msgId], r)
    BY <1>1, <1>4 DEF InOK
  <2>2. /\ q[r.msgId].remoteAction = p[r.msgId].remoteAction
        /\ q[r.msgId].names = p[r.msgId].names
        /\ q[r.msgId].state = IF r.err THEN "rejected" ELSE "resolved"
    <3>1. p[r.msgId] \in PromiseType
      BY <2>1
    <3> QED BY <2>1, <3>1 DEF Settled, PromiseType
  <2> HIDE DEF q
  <2>3. \A k \in DOMAIN p : q[k].names = p[k].names
    BY <2>1, <2>2
  <2> SUFFICES ASSUME NEW n \in names PROVE PlannedOK(q, out, rest, rel, {n})
    BY DEF PlannedOK
  <2>4. CASE n \in rel \/ \E i \in DOMAIN out : out[i].remoteAction = Define /\ n \in out[i].names
    BY <2>4 DEF PlannedOK
  <2>5. ASSUME NEW k \in DOMAIN p, p[k].remoteAction = Define, n \in p[k].names, p[k].state = "rejected"
        PROVE  PlannedOK(q, out, rest, rel, {n})
    BY <2>1, <2>5 DEF PlannedOK
  <2>6. ASSUME NEW i \in DOMAIN in, in[i].err, in[i].msgId > 0, n \in p[in[i].msgId].names
        PROVE  PlannedOK(q, out, rest, rel, {n})
    <3>1. in[i].msgId # 0 => in[i].msgId \in DOMAIN p
      BY DEF InOK
    <3>2. CASE i = 1
      <4>1. p[r.msgId].remoteAction = Define
        BY <3>2, <2>1, <2>6 DEF PromiseOK
      <4> QED BY <4>1, <3>2, <2>1, <2>2, <2>6 DEF PlannedOK
    <3>3. CASE i # 1
      BY <3>1, <3>3, <2>3, <2>6, <1>1 DEF PlannedOK
    <3> QED BY <3>2, <3>3
  <2> QED BY <2>4, <2>5, <2>6 DEF PlannedOK
<1> QED BY <1>1, <1>3, <1>4 DEF rest

-----------------------------------------------------------------------------
(***************************************************************************)
(* Types.                                                                  *)
(***************************************************************************)
Actions == {"ConnectToDb", Query, Define}

LEMMA SendType ==
  ASSUME TypeOK, NEW ds \in SUBSET Remote, NEW a \in Actions,
         NEW names, \A d \in Remote : names[d] \in SUBSET Name, NEW replace,
         promise' = Promised(ds, a, names)
  PROVE  /\ promise' \in [Remote -> Seq(PromiseType)]
         /\ Posted(ds, a, names, replace) \in [Remote -> Seq(MessageType)]
         /\ \A d \in Remote : /\ DOMAIN promise[d] \subseteq DOMAIN promise'[d]
                              /\ Len(promise[d]) <= Len(promise'[d])
         /\ Promises \subseteq Promises'
         /\ NewPromises(ds) \subseteq Promises'
<1>1. \A d \in Remote : promise[d] \in Seq(PromiseType) /\ toRemote[d] \in Seq(MessageType)
  BY DEF TypeOK
<1> DEFINE new(d) == [remoteAction |-> a, names |-> names[d], state |-> "pending", results |-> {}]
           m(d) == Message(Len(promise[d]) + 1, a, names[d], d \in replace)
<1>2. \A d \in Remote : new(d) \in PromiseType
  BY DEF PromiseType, Actions, Query, Define
<1>3. \A d \in Remote : m(d) \in MessageType
  BY <1>1 DEF MessageType, Message, Actions, Query, Define
<1>4. \A d \in Remote : /\ d \in ds => promise'[d] = Append(promise[d], new(d))
                        /\ d \notin ds => promise'[d] = promise[d]
  BY DEF Promised
<1> HIDE DEF new, m
<1>5. \A d \in Remote : /\ d \in ds => Append(promise[d], new(d)) \in Seq(PromiseType)
                        /\ d \in ds => Append(toRemote[d], m(d)) \in Seq(MessageType)
  BY <1>1, <1>2, <1>3
<1>6. promise' \in [Remote -> Seq(PromiseType)]
  BY <1>1, <1>5 DEF Promised, new
<1>7. Posted(ds, a, names, replace) \in [Remote -> Seq(MessageType)]
  BY <1>1, <1>5 DEF Posted, m
<1>8. ASSUME NEW d \in Remote
      PROVE  /\ DOMAIN promise[d] \subseteq DOMAIN promise'[d]
             /\ Len(promise[d]) <= Len(promise'[d])
             /\ d \in ds => Len(promise'[d]) = Len(promise[d]) + 1
             /\ Len(promise[d]) \in Nat /\ Len(promise'[d]) \in Nat
  <2>1. promise[d] \in Seq(PromiseType)
    BY <1>1
  <2>2. CASE d \in ds
    <3>1. new(d) \in PromiseType
      BY <1>2
    <3> QED BY <2>1, <2>2, <3>1, <1>4
  <2>3. CASE d \notin ds
    BY <2>1, <2>3, <1>4
  <2> QED BY <2>2, <2>3
<1>9. Promises \subseteq Promises'
  BY <1>8 DEF Promises
<1>10. NewPromises(ds) \subseteq Promises'
  <2> SUFFICES ASSUME NEW d \in ds PROVE <<d, Len(promise[d]) + 1>> \in Promises'
    BY DEF NewPromises
  <2> QED BY <1>8 DEF Promises
<1> QED BY <1>6, <1>7, <1>8, <1>9, <1>10

\* Replies settle promises and make none.
LEMMA SettleType ==
  ASSUME TypeOK, NEW d \in Remote, toClient[d] # <<>>, Settle(d, Head(toClient[d]))
  PROVE  /\ promise' \in [Remote -> Seq(PromiseType)]
         /\ \A c \in Remote : DOMAIN promise'[c] = DOMAIN promise[c] /\ Len(promise'[c]) = Len(promise[c])
         /\ Promises' = Promises
<1> DEFINE r == Head(toClient[d])
<1>1. /\ promise \in [Remote -> Seq(PromiseType)] /\ toClient[d] \in Seq(ReplyType)
      /\ r \in ReplyType /\ r.msgId \in 0..Len(promise[d])
  BY DEF TypeOK
<1> HIDE DEF r
<1>2. CASE r.msgId = 0
  BY <1>1, <1>2 DEF Settle, r, Promises
<1>3. CASE r.msgId # 0
  <2>1. promise[d] \in Seq(PromiseType) /\ r.msgId \in DOMAIN promise[d]
    BY <1>1, <1>3 DEF ReplyType
  <2>2. promise[d][r.msgId] \in PromiseType
    BY <2>1
  <2>3. Settled(promise[d][r.msgId], r) \in PromiseType
    BY <2>2, <1>1 DEF Settled, PromiseType, ReplyType
  <2> DEFINE q == [promise[d] EXCEPT ![r.msgId] = Settled(promise[d][r.msgId], r)]
  <2>4. q \in Seq(PromiseType) /\ DOMAIN q = DOMAIN promise[d] /\ Len(q) = Len(promise[d])
    BY <2>1, <2>3
  <2>5. promise' = [promise EXCEPT ![d] = q]
    BY <1>3 DEF Settle, r
  <2> HIDE DEF q
  <2>6. /\ promise' \in [Remote -> Seq(PromiseType)]
        /\ promise'[d] = q /\ \A c \in Remote : c # d => promise'[c] = promise[c]
    BY <2>4, <2>5, <1>1
  <2>7. \A c \in Remote : DOMAIN promise'[c] = DOMAIN promise[c] /\ Len(promise'[c]) = Len(promise[c])
    BY <2>4, <2>6
  <2> QED BY <2>6, <2>7 DEF Promises
<1> QED BY <1>2, <1>3

LEMMA TypeInit == Init => TypeOK
<1> SUFFICES ASSUME Init PROVE TypeOK
  OBVIOUS
<1>1. /\ promise \in [Remote -> Seq(PromiseType)]
      /\ toRemote \in [Remote -> Seq(MessageType)]
      /\ toClient \in [Remote -> Seq(ReplyType)]
      /\ \A d \in Remote : DOMAIN toClient[d] = {}
      /\ calls \in Seq(CallType)
  BY DEF Init
<1>2. remote \in [Remote -> [open : BOOLEAN, relations : SUBSET Name]]
  BY SetupAssumption DEF Init, Db
<1>3. faults \in 0..MaxFaults
  BY SetupAssumption DEF Init
<1> QED BY <1>1, <1>2, <1>3, SetupAssumption DEF Init, TypeOK, Db

\* What nothing but the types of promises, messages and replies depends on.
WireType ==
  /\ promise \in [Remote -> Seq(PromiseType)]
  /\ toRemote \in [Remote -> Seq(MessageType)]
  /\ toClient \in [Remote -> Seq(ReplyType)]
  /\ \A d \in Remote : \A i \in DOMAIN toRemote[d] : toRemote[d][i].msgId \in 0..Len(promise[d])
  /\ \A d \in Remote : \A i \in DOMAIN toClient[d] : toClient[d][i].msgId \in 0..Len(promise[d])

LEMMA PostedInRange ==
  ASSUME TypeOK, NEW ds \in SUBSET Remote, NEW a \in Actions,
         NEW names, \A d \in Remote : names[d] \in SUBSET Name, NEW replace,
         promise' = Promised(ds, a, names), toClient' = toClient
  PROVE  /\ \A d \in Remote : \A i \in DOMAIN Posted(ds, a, names, replace)[d] :
              Posted(ds, a, names, replace)[d][i].msgId \in 0..Len(promise'[d])
         /\ \A d \in Remote : \A i \in DOMAIN toClient'[d] :
              toClient'[d][i].msgId \in 0..Len(promise'[d])
         /\ toClient' \in [Remote -> Seq(ReplyType)]
<1>1. /\ promise' \in [Remote -> Seq(PromiseType)]
      /\ Posted(ds, a, names, replace) \in [Remote -> Seq(MessageType)]
      /\ \A d \in Remote : Len(promise[d]) <= Len(promise'[d])
      /\ Promises \subseteq Promises'
      /\ NewPromises(ds) \subseteq Promises'
  BY SendType
<1>2. ASSUME NEW d \in Remote, NEW i \in DOMAIN toClient[d]
      PROVE  toClient[d][i].msgId \in 0..Len(promise'[d])
  <2>1. toClient[d][i].msgId \in 0..Len(promise[d])
    BY DEF TypeOK
  <2>2. promise[d] \in Seq(PromiseType) /\ promise'[d] \in Seq(PromiseType)
    BY <1>1 DEF TypeOK
  <2>3. Len(promise[d]) \in Nat /\ Len(promise'[d]) \in Nat
    BY <2>2
  <2> QED BY <2>1, <2>3, <1>1
<1>3. toClient' \in [Remote -> Seq(ReplyType)]
  BY DEF TypeOK
<1>4. ASSUME NEW d \in Remote, NEW i \in DOMAIN Posted(ds, a, names, replace)[d]
      PROVE  Posted(ds, a, names, replace)[d][i].msgId \in 0..Len(promise'[d])
  <2> DEFINE out == toRemote[d]
             m == Message(Len(promise[d]) + 1, a, names[d], d \in replace)
             new == [remoteAction |-> a, names |-> names[d], state |-> "pending", results |-> {}]
  <2>1. /\ out \in Seq(MessageType) /\ promise[d] \in Seq(PromiseType)
        /\ \A j \in DOMAIN out : out[j].msgId \in 0..Len(promise[d])
    BY DEF TypeOK
  <2>2. m.msgId = Len(promise[d]) + 1
    BY DEF Message
  <2>3. CASE d \notin ds
    BY <2>1, <2>3 DEF Posted, Promised
  <2>4. CASE d \in ds
    <3>1. Posted(ds, a, names, replace)[d] = Append(out, m) /\ promise'[d] = Append(promise[d], new)
      BY <2>4 DEF Posted, Promised
    <3>2. m \in MessageType /\ new \in PromiseType
      BY <2>1 DEF MessageType, PromiseType, Message, Actions, Query, Define
    <3> HIDE DEF out, m, new
    <3>3. Len(promise'[d]) = Len(promise[d]) + 1 /\ Len(promise[d]) \in Nat
      BY <3>1, <3>2, <2>1
    <3>4. i \in DOMAIN out \/ Append(out, m)[i] = m
      BY <3>1, <3>2, <2>1
    <3>5. i \in DOMAIN out => Append(out, m)[i] = out[i]
      BY <3>2, <2>1
    <3> QED BY <3>1, <3>3, <3>4, <3>5, <2>1, <2>2
  <2> QED BY <2>3, <2>4
<1> QED BY <1>2, <1>3, <1>4

LEMMA SendWireType ==
  ASSUME TypeOK, NEW ds \in SUBSET Remote, NEW a \in Actions,
         NEW names, \A d \in Remote : names[d] \in SUBSET Name, NEW replace,
         promise' = Promised(ds, a, names), toClient' = toClient,
         toRemote' = Posted(ds, a, names, replace)
  PROVE  /\ WireType'
         /\ Promises \subseteq Promises' /\ NewPromises(ds) \subseteq Promises'
BY SendType, PostedInRange DEF WireType

LEMMA PostWireType ==
  ASSUME TypeOK, NEW ds \in SUBSET Remote, NEW m, \A d \in ds : m[d] \in MessageType /\ m[d].msgId = 0,
         toRemote' = [d \in Remote |-> IF d \in ds THEN Append(toRemote[d], m[d]) ELSE toRemote[d]],
         UNCHANGED <<promise, toClient>>
  PROVE  WireType'
<1>1. \A d \in Remote : toRemote[d] \in Seq(MessageType)
  BY DEF TypeOK
<1>2. \A d \in ds : Append(toRemote[d], m[d]) \in Seq(MessageType)
  BY <1>1
<1>3. toRemote' \in [Remote -> Seq(MessageType)]
  BY <1>1, <1>2
<1>4. ASSUME NEW d \in Remote, NEW i \in DOMAIN toRemote'[d]
      PROVE  toRemote'[d][i].msgId \in 0..Len(promise[d])
  <2>1. toRemote[d] \in Seq(MessageType) /\ promise[d] \in Seq(PromiseType)
    BY DEF TypeOK
  <2>2. \/ i \in DOMAIN toRemote[d] /\ toRemote'[d][i] = toRemote[d][i]
        \/ toRemote'[d][i].msgId = 0
    <3>1. CASE d \in ds
      <4>1. toRemote'[d] = Append(toRemote[d], m[d]) /\ m[d] \in MessageType /\ m[d].msgId = 0
        BY <3>1
      <4> QED BY <4>1, <2>1
    <3>2. CASE d \notin ds
      BY <3>2
    <3> QED BY <3>1, <3>2
  <2> QED BY <2>1, <2>2 DEF TypeOK
<1> QED BY <1>3, <1>4 DEF TypeOK, WireType

LEMMA HandleReplyWireType ==
  ASSUME TypeOK, NEW d \in Remote, HandleReply(d)
  PROVE  WireType' /\ Promises' = Promises
<1>1. /\ promise' \in [Remote -> Seq(PromiseType)]
      /\ \A c \in Remote : Len(promise'[c]) = Len(promise[c])
      /\ Promises' = Promises
  BY SettleType DEF HandleReply
<1>2. \A c \in Remote : toClient[c] \in Seq(ReplyType)
  BY DEF TypeOK
<1>3. /\ Tail(toClient[d]) \in Seq(ReplyType)
      /\ \A i \in DOMAIN Tail(toClient[d]) :
           i + 1 \in DOMAIN toClient[d] /\ Tail(toClient[d])[i] = toClient[d][i + 1]
  BY <1>2 DEF HandleReply
<1>4. toClient' = [toClient EXCEPT ![d] = Tail(toClient[d])]
  BY DEF HandleReply
<1>5. toClient' \in [Remote -> Seq(ReplyType)]
  BY <1>3, <1>4 DEF TypeOK
<1>6. ASSUME NEW c \in Remote, NEW i \in DOMAIN toClient'[c]
      PROVE  toClient'[c][i].msgId \in 0..Len(promise'[c])
  <2>1. CASE c = d
    <3>1. toClient'[c] = Tail(toClient[d])
      BY <1>4, <2>1 DEF TypeOK
    <3>2. i + 1 \in DOMAIN toClient[d] /\ toClient'[c][i] = toClient[d][i + 1]
      BY <3>1, <1>3
    <3> QED BY <3>2, <2>1, <1>1 DEF TypeOK
  <2>2. CASE c # d
    <3>1. toClient'[c] = toClient[c]
      BY <1>4, <2>2 DEF TypeOK
    <3> QED BY <3>1, <1>1 DEF TypeOK
  <2> QED BY <2>1, <2>2
<1>7. toRemote' = toRemote
  BY DEF HandleReply
<1>8. \A c \in Remote : \A i \in DOMAIN toRemote'[c] : toRemote'[c][i].msgId \in 0..Len(promise'[c])
  BY <1>1, <1>7 DEF TypeOK
<1> QED BY <1>1, <1>5, <1>6, <1>7, <1>8 DEF WireType, TypeOK

LEMMA ExecuteWireType ==
  ASSUME TypeOK, NEW d \in Remote, Execute(d)
  PROVE  /\ WireType' /\ Promises' = Promises
         /\ remote' \in [Remote -> [open : BOOLEAN, relations : SUBSET Name]]
         /\ faults' \in 0..MaxFaults
<1> DEFINE m == Head(toRemote[d])
<1>1. /\ \A c \in Remote : toRemote[c] \in Seq(MessageType) /\ toClient[c] \in Seq(ReplyType)
      /\ remote \in [Remote -> [open : BOOLEAN, relations : SUBSET Name]]
      /\ promise \in [Remote -> Seq(PromiseType)] /\ \A c \in Remote : Len(promise[c]) \in Nat
      /\ faults \in 0..MaxFaults
  BY DEF TypeOK
<1>2. m \in MessageType /\ Tail(toRemote[d]) \in Seq(MessageType)
  BY <1>1 DEF Execute
<1>3. PICK err \in {Refused(d, m), TRUE} :
        /\ faults' = IF err = Refused(d, m) THEN faults ELSE faults + 1
        /\ faults' <= MaxFaults
        /\ remote' = IF err THEN remote ELSE [remote EXCEPT ![d] = Executed(d, m)]
        /\ toClient' =
             IF m.remoteAction = "Close" THEN toClient
             ELSE [toClient EXCEPT ![d] =
                     Append(toClient[d], [msgId |-> m.msgId, err |-> err, results |-> Results(d, m, err)])]
  BY DEF Execute
<1> DEFINE r == [msgId |-> m.msgId, err |-> err, results |-> Results(d, m, err)]
<1>4. UNCHANGED promise /\ toRemote' = [toRemote EXCEPT ![d] = Tail(toRemote[d])]
  BY DEF Execute
<1> HIDE DEF m
<1>5. err \in BOOLEAN
  BY <1>3 DEF Refused
<1>6. r \in ReplyType
  BY <1>1, <1>2, <1>5 DEF MessageType, ReplyType, Results
<1>7. Executed(d, m) \in [open : BOOLEAN, relations : SUBSET Name]
  BY <1>1, <1>2 DEF Executed, MessageType
<1>8. remote' \in [Remote -> [open : BOOLEAN, relations : SUBSET Name]]
  BY <1>1, <1>3, <1>7
<1>9. faults' \in 0..MaxFaults
  BY <1>1, <1>3, SetupAssumption
<1>10. toRemote' \in [Remote -> Seq(MessageType)]
  BY <1>1, <1>2, <1>4 DEF TypeOK
<1> HIDE DEF r
<1>11. /\ toClient' \in [Remote -> Seq(ReplyType)]
       /\ \A c \in Remote : c # d => toClient'[c] = toClient[c]
       /\ toClient'[d] = toClient[d] \/ toClient'[d] = Append(toClient[d], r)
  BY <1>1, <1>3, <1>6 DEF TypeOK, r
<1>12. m.msgId \in 0..Len(promise[d])
  <2>1. 1 \in DOMAIN toRemote[d] /\ m = toRemote[d][1]
    BY <1>1 DEF Execute, m
  <2> QED BY <2>1 DEF TypeOK
<1>13. ASSUME NEW c \in Remote, NEW i \in DOMAIN toClient'[c]
       PROVE  toClient'[c][i].msgId \in 0..Len(promise[c])
  <2>1. r.msgId = m.msgId
    BY DEF r
  <2>2. \/ i \in DOMAIN toClient[c] /\ toClient'[c][i] = toClient[c][i]
        \/ c = d /\ toClient'[c][i] = r
    <3>1. CASE c # d
      BY <3>1, <1>11
    <3>2. CASE c = d /\ toClient'[d] = toClient[d]
      BY <3>2
    <3>3. CASE c = d /\ toClient'[d] = Append(toClient[d], r)
      <4>1. toClient[d] \in Seq(ReplyType) /\ i \in DOMAIN Append(toClient[d], r)
        BY <3>3, <1>1
      <4>2. \/ i \in DOMAIN toClient[d] /\ Append(toClient[d], r)[i] = toClient[d][i]
            \/ Append(toClient[d], r)[i] = r
        BY <4>1, <1>6
      <4> QED BY <3>3, <4>2
    <3> QED BY <3>1, <3>2, <3>3, <1>11
  <2> QED BY <2>1, <2>2, <1>12 DEF TypeOK
<1>14. ASSUME NEW c \in Remote, NEW i \in DOMAIN toRemote'[c]
       PROVE  toRemote'[c][i].msgId \in 0..Len(promise[c])
  <2>1. CASE c = d
    <3>1. toRemote'[c] = Tail(toRemote[d])
      BY <1>4, <2>1 DEF TypeOK
    <3>2. i + 1 \in DOMAIN toRemote[d] /\ toRemote'[c][i] = toRemote[d][i + 1]
      <4>1. toRemote[d] \in Seq(MessageType) /\ toRemote[d] # <<>> /\ i \in DOMAIN Tail(toRemote[d])
        BY <3>1, <1>1 DEF Execute
      <4>2. i + 1 \in DOMAIN toRemote[d] /\ Tail(toRemote[d])[i] = toRemote[d][i + 1]
        BY <4>1
      <4> QED BY <4>2, <3>1, <2>1
    <3> QED BY <3>2, <2>1 DEF TypeOK
  <2>2. CASE c # d
    BY <1>4, <2>2 DEF TypeOK
  <2> QED BY <2>1, <2>2
<1>15. WireType'
  BY <1>1, <1>4, <1>10, <1>11, <1>13, <1>14 DEF WireType
<1> QED BY <1>4, <1>8, <1>9, <1>15 DEF Promises

\* The rest of the types.
SetupType ==
  /\ phase \in {"mainDb", "remotes", "metadata", "files", "execute", "loaded", "shut", "failed"}
  /\ engineSetup \in [Remote -> {"new", "connecting", "opening", "done", "rejected"}]
  /\ connection \subseteq Remote /\ planned \subseteq Remote /\ silent \subseteq Remote
  /\ relationLocation \in [DOMAIN relationLocation -> Db]
  /\ spec \in [Db -> SUBSET Name]
  /\ local \subseteq Name /\ runtimeOutputs \subseteq Name
  /\ calls \in Seq(CallType)
  /\ remote \in [Remote -> [open : BOOLEAN, relations : SUBSET Name]]
  /\ faults \in 0..MaxFaults

LEMMA TypeParts == TypeOK <=> SetupType /\ WireType /\ awaiting \subseteq Promises
BY DEF TypeOK, SetupType, WireType

LEMMA QuietType ==
  TypeOK /\ UNCHANGED wireVars => WireType' /\ Promises' = Promises
BY DEF TypeOK, WireType, wireVars, Promises

LEMMA NoNamesType == \A d \in Remote : NoNames[d] \in SUBSET Name
BY DEF NoNames

LEMMA ExecuteToDBsType == ASSUME TypeOK, ExecuteToDBs PROVE TypeOK'
<1>1. Specified \in SUBSET Remote /\ \A d \in Remote : Definitions[d] \in SUBSET Name
  BY SetupAssumption DEF Specified, Db
<1>2. /\ promise' = Promised(Specified, Define, Definitions) /\ toClient' = toClient
      /\ toRemote' = WithCleanUp(Posted(Specified, Define, Definitions, Sockets))
      /\ awaiting' = NewPromises(Specified)
  BY DEF ExecuteToDBs, Define
<1> DEFINE posted == Posted(Specified, Define, Definitions, Sockets)
           m(d) == Message(0, "CleanUpQueries", Definitions[d], FALSE)
<1>3. /\ promise' \in [Remote -> Seq(PromiseType)] /\ posted \in [Remote -> Seq(MessageType)]
      /\ awaiting' \subseteq Promises'
  BY <1>1, <1>2, SendType DEF Actions
<1>4. /\ \A d \in Remote : \A i \in DOMAIN posted[d] : posted[d][i].msgId \in 0..Len(promise'[d])
      /\ \A d \in Remote : \A i \in DOMAIN toClient'[d] : toClient'[d][i].msgId \in 0..Len(promise'[d])
      /\ toClient' \in [Remote -> Seq(ReplyType)]
  BY <1>1, <1>2, PostedInRange DEF Actions
<1>5. \A d \in Remote : m(d) \in MessageType /\ m(d).msgId = 0
  BY <1>1 DEF MessageType, Message
<1> HIDE DEF posted, m
<1>6. ASSUME NEW d \in Remote
      PROVE  /\ toRemote'[d] \in Seq(MessageType)
             /\ \A i \in DOMAIN toRemote'[d] : toRemote'[d][i].msgId \in 0..Len(promise'[d])
  <2>1. posted[d] \in Seq(MessageType) /\ promise'[d] \in Seq(PromiseType)
    BY <1>3
  <2>2. toRemote'[d] = Append(posted[d], m(d)) \/ toRemote'[d] = posted[d]
    BY <1>2 DEF WithCleanUp, posted, m
  <2>3. CASE toRemote'[d] = posted[d]
    BY <2>1, <2>3, <1>4
  <2>4. CASE toRemote'[d] = Append(posted[d], m(d))
    <3>1. \A i \in DOMAIN Append(posted[d], m(d)) :
            \/ i \in DOMAIN posted[d] /\ Append(posted[d], m(d))[i] = posted[d][i]
            \/ Append(posted[d], m(d))[i] = m(d)
      BY <2>1, <1>5
    <3>2. Len(promise'[d]) \in Nat
      BY <2>1
    <3> QED BY <3>1, <3>2, <2>1, <2>4, <1>4, <1>5
  <2> QED BY <2>2, <2>3, <2>4
<1>7. toRemote' \in [Remote -> Seq(MessageType)]
  BY <1>2, <1>6 DEF WithCleanUp
<1>8. WireType'
  BY <1>3, <1>4, <1>6, <1>7 DEF WireType
<1>9. SetupType'
  BY <1>1, SetupAssumption DEF ExecuteToDBs, TypeOK, SetupType, Db, remoteVars
<1> QED BY <1>3, <1>8, <1>9, TypeParts DEF TypeOK, SetupType, WireType

LEMMA AddViewType == ASSUME TypeOK, NEW v \in Added, AddViewByAst(v) PROVE TypeOK'
<1> DEFINE ds == {d \in Remote : NewFor(v, d) # {}}
           names == [d \in Remote |-> NewFor(v, d)]
           call == [view |-> v, awaits |-> NewPromises(ds), done |-> FALSE]
<1>1. /\ SendMsg(ds, Define, names, {})
      /\ calls' = Append(calls, call)
      /\ planned' = planned \cup ds
      /\ spec' = [d \in Db |-> spec[d] \cup NewFor(v, d)]
      /\ local' = local \cup NewFor(v, LocalDbId)
      /\ UNCHANGED <<setupVars, runtimeOutputs, remoteVars>>
      /\ faults' = faults
  BY DEF AddViewByAst, Define
<1>2. \A d \in Db : NewFor(v, d) \in SUBSET Name
  BY DEF NewFor
<1>3. ds \in SUBSET Remote /\ \A d \in Remote : names[d] \in SUBSET Name
  BY <1>2 DEF Db
<1>4. call \in CallType
  <2>1. NewPromises(ds) \in SUBSET (Remote \X Nat)
    BY <1>3 DEF NewPromises, TypeOK
  <2> QED BY <2>1 DEF CallType
<1> HIDE DEF ds, names, call
<1>5. WireType' /\ Promises \subseteq Promises'
  BY <1>1, <1>3, SendWireType DEF SendMsg, Actions
<1>6. calls' \in Seq(CallType)
  BY <1>1, <1>4 DEF TypeOK
<1>7. SetupType'
  BY <1>1, <1>2, <1>3, <1>6 DEF TypeOK, SetupType, setupVars, remoteVars, Db
<1>8. awaiting' = awaiting /\ awaiting \subseteq Promises
  BY <1>1 DEF setupVars, TypeOK
<1> QED BY <1>5, <1>7, <1>8 DEF TypeOK, SetupType, WireType

LEMMA ViewAddedType == ASSUME TypeOK, NEW i, ViewAdded(i) PROVE TypeOK'
<1>1. calls[i] \in CallType /\ i \in DOMAIN calls /\ calls \in Seq(CallType)
  BY DEF ViewAdded, TypeOK
<1>2. [calls[i] EXCEPT !.done = TRUE] \in CallType
  BY <1>1 DEF CallType
<1>3. calls' \in Seq(CallType)
  BY <1>1, <1>2 DEF ViewAdded
<1>4. runtimeOutputs' \subseteq Name
  BY DEF ViewAdded, TypeOK
<1>5. UNCHANGED wireVars
  BY DEF ViewAdded
<1> QED BY <1>3, <1>4, <1>5, QuietType
        DEF ViewAdded, TypeOK, WireType, setupVars, remoteVars

LEMMA LocateType == ASSUME TypeOK, LocateRelations, \A n \in UNION {MetaData(d) : d \in Db} : Location(n) \in Db
                    PROVE  TypeOK'
<1>1. UNCHANGED wireVars
  BY DEF LocateRelations
<1>2. relationLocation' \in [DOMAIN relationLocation' -> Db]
  BY DEF LocateRelations
<1> QED BY <1>1, <1>2, QuietType DEF LocateRelations, TypeOK, WireType, planVars, remoteVars

-----------------------------------------------------------------------------
\* A set of databases has a first one.
LEMMA FirstDb == ASSUME NEW S \in SUBSET Db, S # {} PROVE \E d \in S : \A c \in S : d <= c
<1>1. Db \subseteq Nat
  BY SetupAssumption DEF Db, Remote, LocalDbId
<1> DEFINE Upto == {0..d : d \in S}
<1>2. Upto # {} /\ Upto \subseteq FiniteSubsetsOf(Nat)
  <2>1. ASSUME NEW d \in S PROVE 0..d \in FiniteSubsetsOf(Nat)
    <3>1. d \in Int /\ 0..d \subseteq Nat
      BY <1>1
    <3>2. IsFiniteSet(0..d)
      BY <3>1, FS_Interval
    <3> QED BY <3>1, <3>2 DEF FiniteSubsetsOf
  <2> QED BY <2>1
<1>3. PICK x \in Upto : \A y \in Upto : ~(<<y, x>> \in StrictSubsetOrdering(Nat))
  <2> HIDE DEF Upto
  <2> QED BY <1>2, FS_StrictSubsetOrderingWellFounded, WFMin
<1>4. PICK d \in S : x = 0..d
  OBVIOUS
<1>5. ASSUME NEW c \in S PROVE d <= c
  <2>1. c \in Nat /\ d \in Nat
    BY <1>1
  <2>2. ~(<<0..c, 0..d>> \in StrictSubsetOrdering(Nat))
    BY <1>3, <1>4
  <2>3. 0..c \subseteq 0..d => 0..c = 0..d
    BY <2>1, <2>2 DEF StrictSubsetOrdering
  <2>4. c < d => 0..c \subseteq 0..d /\ d \in 0..d /\ d \notin 0..c
    BY <2>1
  <2> QED BY <2>1, <2>3, <2>4
<1> QED BY <1>5

LEMMA LocationIsFirst ==
  ASSUME NEW n, \E d \in Db : n \in MetaData(d)
  PROVE  /\ Location(n) \in Db /\ n \in MetaData(Location(n))
         /\ \A c \in Db : n \in MetaData(c) => Location(n) <= c
<1>1. \E d \in Db : n \in MetaData(d) /\ \A c \in Db : n \in MetaData(c) => d <= c
  <2> DEFINE S == {d \in Db : n \in MetaData(d)}
  <2>1. PICK d \in S : \A c \in S : d <= c
    BY FirstDb
  <2> QED BY <2>1
<1> QED BY <1>1 DEF Location

LEMMA TypeNext == TypeOK /\ [Next]_vars => TypeOK'
<1> SUFFICES ASSUME TypeOK, [Next]_vars PROVE TypeOK'
  OBVIOUS
<1> USE DEF setupVars, planVars, remoteVars
<1>1. ASSUME UNCHANGED wireVars, UNCHANGED awaiting, SetupType' PROVE TypeOK'
  BY <1>1, QuietType DEF TypeOK, SetupType, WireType
<1>2. CASE SetupMainDb
  BY <1>1, <1>2, SetupAssumption DEF SetupMainDb, TypeOK, SetupType, Db
<1>3. CASE GetMetaData
  <2>1. connection \in SUBSET Remote /\ Query \in Actions /\ SendMsg(connection, Query, NoNames, {})
    BY <1>3 DEF GetMetaData, TypeOK, Actions, Query
  <2>2. WireType' /\ NewPromises(connection) \subseteq Promises'
    BY <2>1, SendWireType, NoNamesType DEF SendMsg
  <2>3. SetupType'
    BY <1>3 DEF GetMetaData, TypeOK, SetupType
  <2> QED BY <2>2, <2>3, <1>3 DEF GetMetaData, TypeOK, SetupType, WireType
<1>4. CASE LocateRelations
  <2>1. \A n \in UNION {MetaData(d) : d \in Db} : Location(n) \in Db
    BY LocationIsFirst
  <2> QED BY <2>1, <1>4, LocateType
<1>5. CASE ExecuteToDBs
  BY <1>5, ExecuteToDBsType
<1>6. CASE LoadPage
  BY <1>1, <1>6 DEF LoadPage, TypeOK, SetupType
<1>7. CASE SetupRejected
  BY <1>1, <1>7 DEF SetupRejected, Fail, TypeOK, SetupType
<1>8. CASE FailToFetch
  <2>1. faults' \in 0..MaxFaults
    BY <1>8, SetupAssumption DEF FailToFetch, TypeOK
  <2>2. SetupType'
    BY <2>1, <1>8 DEF FailToFetch, Fail, TypeOK, SetupType
  <2>3. UNCHANGED wireVars /\ UNCHANGED awaiting
    BY <1>8 DEF FailToFetch, Fail
  <2> QED BY <2>2, <2>3, <1>1
<1>9. CASE ShutDown
  <2> DEFINE ds == {d \in Remote : DbKind[d] = "Worker"}
             m == [d \in Remote |-> Message(0, "Close", {}, FALSE)]
  <2>1. toRemote' = [d \in Remote |-> IF d \in ds THEN Append(toRemote[d], m[d]) ELSE toRemote[d]]
    BY <1>9 DEF ShutDown
  <2>2. \A d \in ds : m[d] \in MessageType /\ m[d].msgId = 0
    BY DEF Message, MessageType
  <2>3. ds \in SUBSET Remote
    OBVIOUS
  <2> HIDE DEF ds, m
  <2>4. WireType'
    BY <2>1, <2>2, <2>3, <1>9, PostWireType DEF ShutDown
  <2>5. SetupType'
    BY <1>9 DEF ShutDown, TypeOK, SetupType
  <2>6. awaiting' \subseteq Promises'
    BY <1>9 DEF ShutDown, TypeOK, Promises
  <2> QED BY <2>4, <2>5, <2>6 DEF TypeOK, SetupType, WireType
<1>10. ASSUME NEW d \in Remote, ConnectEngine(d) PROVE TypeOK'
  <2>1. {d} \in SUBSET Remote /\ "ConnectToDb" \in Actions /\ SendMsg({d}, "ConnectToDb", NoNames, {})
    BY <1>10 DEF ConnectEngine, Actions
  <2>2. WireType' /\ Promises \subseteq Promises'
    BY <2>1, SendWireType, NoNamesType DEF SendMsg
  <2>3. SetupType'
    BY <1>10 DEF ConnectEngine, TypeOK, SetupType
  <2> QED BY <2>2, <2>3, <1>10 DEF ConnectEngine, TypeOK, SetupType, WireType
<1>11. ASSUME NEW d \in Remote, FailToConnect(d) PROVE TypeOK'
  <2>1. engineSetup' \in [Remote -> {"new", "connecting", "opening", "done", "rejected"}]
    <3>1. engineSetup' = [engineSetup EXCEPT ![d] = "done"] \/ engineSetup' = [engineSetup EXCEPT ![d] = "rejected"]
      BY <1>11 DEF FailToConnect
    <3> QED BY <3>1 DEF TypeOK
  <2>2. faults' \in 0..MaxFaults
    BY <1>11, SetupAssumption DEF FailToConnect, TypeOK
  <2>3. SetupType'
    BY <2>1, <2>2, <1>11 DEF FailToConnect, TypeOK, SetupType
  <2>4. UNCHANGED wireVars /\ UNCHANGED awaiting
    BY <1>11 DEF FailToConnect
  <2> QED BY <2>3, <2>4, <1>1
<1>12. ASSUME NEW d \in Remote, EngineOpened(d) PROVE TypeOK'
  BY <1>1, <1>12 DEF EngineOpened, TypeOK, SetupType
<1>13. ASSUME NEW d \in Remote, HandleReply(d) PROVE TypeOK'
  <2>1. SetupType'
    BY <1>13 DEF HandleReply, TypeOK, SetupType
  <2> QED BY <1>13, <2>1, HandleReplyWireType DEF HandleReply, TypeOK, SetupType, WireType
<1>14. ASSUME NEW d \in Remote, Execute(d) PROVE TypeOK'
  <2>1. SetupType'
    BY <1>14, ExecuteWireType DEF Execute, TypeOK, SetupType
  <2> QED BY <1>14, <2>1, ExecuteWireType DEF Execute, TypeOK, SetupType, WireType
<1>15. ASSUME NEW d \in Remote, LoseConnection(d) PROVE TypeOK'
  <2>1. silent' \subseteq Remote
    BY <1>15 DEF LoseConnection, TypeOK
  <2>2. faults' \in 0..MaxFaults
    BY <1>15, SetupAssumption DEF LoseConnection, TypeOK
  <2>3. SetupType'
    BY <2>1, <2>2, <1>15 DEF LoseConnection, TypeOK, SetupType
  <2>4. UNCHANGED wireVars /\ UNCHANGED awaiting
    BY <1>15 DEF LoseConnection
  <2> QED BY <2>3, <2>4, <1>1
<1>16. ASSUME NEW v \in Added, AddViewByAst(v) PROVE TypeOK'
  BY <1>16, AddViewType
<1>17. ASSUME NEW i \in 1..MaxAdds, ViewAdded(i) PROVE TypeOK'
  BY <1>17, ViewAddedType
<1>18. CASE UNCHANGED vars
  BY <1>1, <1>18 DEF vars, TypeOK, SetupType
<1> QED
  BY <1>2, <1>3, <1>4, <1>5, <1>6, <1>7, <1>8, <1>9, <1>10, <1>11, <1>12, <1>13, <1>14, <1>15,
     <1>16, <1>17, <1>18 DEF Next

(***************************************************************************)
(* The state of a set-up has its type, for every program and configuration.*)
(***************************************************************************)
THEOREM TypeCorrect == Spec => []TypeOK
<1>1. Init => TypeOK
  BY TypeInit
<1>2. TypeOK /\ [Next]_vars => TypeOK'
  BY TypeNext
<1> QED BY <1>1, <1>2, PTL DEF Spec

-----------------------------------------------------------------------------
(***************************************************************************)
(* What a step does to a connection.                                       *)
(***************************************************************************)
LEMMA QuietConnection ==
  ASSUME NEW d \in Remote, Connection(d), UNCHANGED <<wireVars, remote, spec>>,
         phase' \in EarlyPhase => phase \in EarlyPhase
  PROVE  Connection(d)'
BY DEF Connection, Wire, Meta, PlannedAt, wireVars

LEMMA SendConnection ==
  ASSUME TypeOK, NEW d \in Remote, Connection(d), NEW ds \in SUBSET Remote, NEW a \in Actions,
         NEW names, \A c \in Remote : names[c] \in SUBSET Name, a # Define => names[d] = {},
         SendMsg(ds, a, names, {}), remote' = remote,
         spec'[d] = IF a = Define /\ d \in ds THEN spec[d] \cup names[d] ELSE spec[d],
         phase' \in EarlyPhase => phase \in EarlyPhase /\ a # Define
  PROVE  Connection(d)'
<1> DEFINE p == promise[d]
           new == [remoteAction |-> a, names |-> names[d], state |-> "pending", results |-> {}]
           m == Message(Len(p) + 1, a, names[d], d \in {})
<1>1. p \in Seq(PromiseType) /\ toRemote[d] \in Seq(MessageType) /\ toClient[d] \in Seq(ReplyType)
  BY DEF TypeOK
<1>2. toClient'[d] = toClient[d] /\ remote'[d] = remote[d]
  BY DEF SendMsg
<1>3. CASE d \notin ds
  <2>1. promise'[d] = promise[d] /\ toRemote'[d] = toRemote[d] /\ spec'[d] = spec[d]
    BY <1>3 DEF SendMsg, Promised, Posted
  <2> QED BY <2>1, <1>2 DEF Connection, Wire, Meta, PlannedAt
<1>4. CASE d \in ds
  <2>1. promise'[d] = Append(p, new) /\ toRemote'[d] = Append(toRemote[d], m)
    BY <1>4 DEF SendMsg, Promised, Posted
  <2>2. a \notin {"CleanUpQueries", "Close"}
    BY DEF Actions, Query, Define
  <2>3. /\ WireOK(p, toRemote[d], toClient[d], remote[d].relations)
        /\ PlannedOK(p, toRemote[d], toClient[d], remote[d].relations, spec[d])
    BY DEF Connection, Wire, PlannedAt
  <2>4. Wire(d)'
    <3>1. WireOK(Append(p, new), Append(toRemote[d], m), toClient[d], remote[d].relations)
      BY <1>1, <2>2, <2>3, SendKeeps
    <3> QED BY <3>1, <2>1, <1>2 DEF Wire
  <2>5. PlannedAt(d)'
    <3>1. PlannedOK(Append(p, new), Append(toRemote[d], m), toClient[d], remote[d].relations,
                    IF a = Define THEN spec[d] \cup names[d] ELSE spec[d])
      BY <1>1, <2>3, SendKeepsPlanned DEF WireOK
    <3> QED BY <3>1, <2>1, <1>2, <1>4 DEF PlannedAt
  <2>6. ASSUME phase' \in EarlyPhase PROVE Meta(d)' /\ spec'[d] = {}
    <3>1. MetaOK(p, toClient[d], remote[d].relations, Tables[d]) /\ spec[d] = {} /\ a # Define
      BY <2>6 DEF Connection, Meta
    <3>2. MetaOK(Append(p, new), toClient[d], remote[d].relations, Tables[d])
      BY <3>1, <2>3, <1>1, SendKeepsMeta DEF WireOK
    <3> QED BY <3>1, <3>2, <2>1, <1>2 DEF Meta
  <2> QED BY <2>4, <2>5, <2>6 DEF Connection
<1> QED BY <1>3, <1>4

LEMMA PostConnection ==
  ASSUME TypeOK, NEW d \in Remote, Connection(d), NEW m, m.msgId = 0,
         m.remoteAction \in {"CleanUpQueries", "Close"},
         toRemote'[d] = Append(toRemote[d], m),
         UNCHANGED <<promise, toClient, remote, spec>>, phase' \notin EarlyPhase
  PROVE  Connection(d)'
<1>1. /\ promise[d] \in Seq(PromiseType) /\ toRemote[d] \in Seq(MessageType)
      /\ toClient[d] \in Seq(ReplyType)
  BY DEF TypeOK
<1>2. WireOK(promise[d], Append(toRemote[d], m), toClient[d], remote[d].relations)
  BY <1>1, PostKeeps DEF Connection, Wire
<1>3. PlannedOK(promise[d], Append(toRemote[d], m), toClient[d], remote[d].relations, spec[d])
  BY <1>1, PostKeepsPlanned DEF Connection, PlannedAt
<1> QED BY <1>2, <1>3 DEF Connection, Wire, PlannedAt

LEMMA ReplyConnection ==
  ASSUME TypeOK, NEW d \in Remote, NEW c \in Remote, Connection(c), HandleReply(d)
  PROVE  Connection(c)'
<1> DEFINE r == Head(toClient[d])
<1>1. /\ promise[d] \in Seq(PromiseType) /\ toRemote[d] \in Seq(MessageType)
      /\ toClient[d] \in Seq(ReplyType) /\ toClient[d] # <<>>
  BY DEF TypeOK, HandleReply
<1>2. /\ toClient' = [toClient EXCEPT ![d] = Tail(toClient[d])]
      /\ Settle(d, r)
      /\ UNCHANGED <<toRemote, remote, spec, phase>>
  BY DEF HandleReply, setupVars, planVars, remoteVars
<1> HIDE DEF r
<1>3. CASE c # d
  <2>1. promise'[c] = promise[c] /\ toClient'[c] = toClient[c]
    BY <1>2, <1>3 DEF Settle, TypeOK
  <2> QED BY <2>1, <1>2 DEF Connection, Wire, Meta, PlannedAt
<1>4. CASE c = d
  <2> DEFINE q == [promise[d] EXCEPT ![r.msgId] = Settled(@, r)]
  <2>1. /\ toClient'[d] = Tail(toClient[d])
        /\ r.msgId = 0 => promise'[d] = promise[d]
        /\ r.msgId # 0 => promise'[d] = q
    BY <1>2 DEF Settle, TypeOK
  <2>2. /\ WireOK(promise[d], toRemote[d], toClient[d], remote[d].relations)
        /\ PlannedOK(promise[d], toRemote[d], toClient[d], remote[d].relations, spec[d])
    BY <1>4 DEF Connection, Wire, PlannedAt
  <2>3. Wire(d)'
    <3>1. /\ r.msgId = 0 => WireOK(promise[d], toRemote[d], Tail(toClient[d]), remote[d].relations)
          /\ r.msgId # 0 => WireOK(q, toRemote[d], Tail(toClient[d]), remote[d].relations)
      BY <1>1, <2>2, ReplyKeeps DEF r
    <3> QED BY <3>1, <2>1, <1>2 DEF Wire
  <2>4. PlannedAt(d)'
    <3>1. /\ r.msgId = 0 =>
               PlannedOK(promise[d], toRemote[d], Tail(toClient[d]), remote[d].relations, spec[d])
          /\ r.msgId # 0 => PlannedOK(q, toRemote[d], Tail(toClient[d]), remote[d].relations, spec[d])
      BY <1>1, <2>2, ReplyKeepsPlanned DEF r, WireOK
    <3> QED BY <3>1, <2>1, <1>2 DEF PlannedAt
  <2>5. ASSUME phase' \in EarlyPhase PROVE Meta(d)' /\ spec'[d] = {}
    <3>1. MetaOK(promise[d], toClient[d], remote[d].relations, Tables[d]) /\ spec[d] = {}
      BY <2>5, <1>2, <1>4 DEF Connection, Meta
    <3>2. /\ r.msgId = 0 => MetaOK(promise[d], Tail(toClient[d]), remote[d].relations, Tables[d])
          /\ r.msgId # 0 => MetaOK(q, Tail(toClient[d]), remote[d].relations, Tables[d])
      BY <3>1, <1>1, <2>2, ReplyKeepsMeta DEF r, WireOK
    <3> QED BY <3>1, <3>2, <2>1, <1>2 DEF Meta
  <2> QED BY <2>3, <2>4, <2>5, <1>4 DEF Connection
<1> QED BY <1>3, <1>4

LEMMA ExecuteConnection ==
  ASSUME TypeOK, NEW d \in Remote, NEW c \in Remote, Connection(c), Execute(d)
  PROVE  Connection(c)' /\ remote[c].relations \subseteq remote'[c].relations
<1> DEFINE m == Head(toRemote[d])
<1>1. /\ promise[d] \in Seq(PromiseType) /\ toRemote[d] \in Seq(MessageType)
      /\ toClient[d] \in Seq(ReplyType) /\ toRemote[d] # <<>>
      /\ remote \in [Remote -> [open : BOOLEAN, relations : SUBSET Name]]
      /\ m \in MessageType
  BY DEF TypeOK, Execute
<1>2. PICK err \in {Refused(d, m), TRUE} :
        /\ remote' = IF err THEN remote ELSE [remote EXCEPT ![d] = Executed(d, m)]
        /\ toClient' =
             IF m.remoteAction = "Close" THEN toClient
             ELSE [toClient EXCEPT ![d] =
                     Append(toClient[d], [msgId |-> m.msgId, err |-> err, results |-> Results(d, m, err)])]
  BY DEF Execute
<1>3. /\ toRemote' = [toRemote EXCEPT ![d] = Tail(toRemote[d])]
      /\ UNCHANGED <<promise, spec, phase>>
  BY DEF Execute, setupVars, planVars
<1> HIDE DEF m
<1>4. err \in BOOLEAN /\ Results(d, m, err) \in SUBSET Name
  BY <1>1, <1>2 DEF Refused, Results
<1>5. CASE c # d
  <2>1. /\ promise'[c] = promise[c] /\ toClient'[c] = toClient[c] /\ toRemote'[c] = toRemote[c]
        /\ remote'[c] = remote[c] /\ spec'[c] = spec[c] /\ phase' = phase
    BY <1>2, <1>3, <1>5 DEF TypeOK
  <2> QED BY <2>1 DEF Connection, Wire, Meta, PlannedAt
<1>6. CASE c = d
  <2> DEFINE rel == remote[d].relations
             rel2 == remote'[d].relations
             in2 == toClient'[d]
             r == [msgId |-> m.msgId, err |-> err, results |-> Results(d, m, err)]
  <2>1. /\ ~err => rel2 = IF m.remoteAction = Define THEN rel \cup m.names ELSE rel
        /\ err => rel2 = rel
    BY <1>1, <1>2 DEF Executed, Define
  <2>2. \/ in2 = toClient[d] /\ m.remoteAction # Define
        \/ in2 = Append(toClient[d], r)
    BY <1>1, <1>2 DEF TypeOK, Define
  <2>3. ~err /\ m.remoteAction = Query => Results(d, m, err) = rel
    BY DEF Results, Query
  <2>4. /\ promise'[d] = promise[d] /\ toRemote'[d] = Tail(toRemote[d])
        /\ spec'[d] = spec[d] /\ phase' = phase
    BY <1>3 DEF TypeOK
  <2>5. /\ WireOK(promise[d], toRemote[d], toClient[d], rel)
        /\ PlannedOK(promise[d], toRemote[d], toClient[d], rel, spec[d])
        /\ phase \in EarlyPhase => MetaOK(promise[d], toClient[d], rel, Tables[d]) /\ spec[d] = {}
    BY <1>6 DEF Connection, Wire, PlannedAt, Meta
  <2>6. rel \subseteq rel2 /\ (~err /\ m.remoteAction = Define => m.names \subseteq rel2)
    BY <2>1
  <2>7. /\ m.remoteAction # Define => rel2 = rel
    BY <2>1
  <2> HIDE DEF rel, rel2, in2
  <2>8. WireOK(promise[d], Tail(toRemote[d]), in2, rel2)
    BY <1>1, <1>4, <2>2, <2>5, <2>6, ExecuteKeeps DEF m
  <2>9. PlannedOK(promise[d], Tail(toRemote[d]), in2, rel2, spec[d])
    <3>1. OutOK(promise[d], toRemote[d])
      BY <2>5 DEF WireOK
    <3>2. PlannedOK(promise[d], toRemote[d], toClient[d], rel, spec[d])
      BY <2>5
    <3> QED BY <3>1, <3>2, <1>1, <1>4, <2>2, <2>6, ExecuteKeepsPlanned DEF m
  <2>10. ASSUME phase \in EarlyPhase PROVE MetaOK(promise[d], in2, rel2, Tables[d])
    <3>1. OutOK(promise[d], toRemote[d]) /\ InOK(promise[d], toClient[d], rel)
      BY <2>5 DEF WireOK
    <3>2. MetaOK(promise[d], toClient[d], rel, Tables[d])
      BY <2>5, <2>10
    <3>3. in2 = toClient[d] \/ in2 = Append(toClient[d], r)
      BY <2>2
    <3> QED BY <3>1, <3>2, <3>3, <1>1, <1>4, <2>3, <2>7, ExecuteKeepsMeta DEF m
  <2> QED BY <2>4, <2>5, <2>6, <2>8, <2>9, <2>10, <1>6
          DEF Connection, Wire, PlannedAt, Meta, rel, rel2, in2
<1> QED BY <1>5, <1>6

LEMMA DefineConnection ==
  ASSUME TypeOK, NEW d \in Remote, Connection(d), ExecuteToDBs
  PROVE  Connection(d)'
<1> DEFINE p == promise[d]
           names == Definitions[d]
           m == Message(Len(p) + 1, Define, names, d \in Sockets)
           new == [remoteAction |-> Define, names |-> names, state |-> "pending", results |-> {}]
           cleanUp == Message(0, "CleanUpQueries", names, FALSE)
           out == Append(toRemote[d], m)
           q == Append(p, new)
<1>1. /\ p \in Seq(PromiseType) /\ toRemote[d] \in Seq(MessageType) /\ toClient[d] \in Seq(ReplyType)
      /\ names \in SUBSET Name
  BY SetupAssumption DEF TypeOK, Db
<1>2. /\ toClient'[d] = toClient[d] /\ remote'[d] = remote[d]
      /\ spec'[d] = names /\ phase' = "execute" /\ phase = "files"
  BY DEF ExecuteToDBs, remoteVars
<1>3. /\ WireOK(p, toRemote[d], toClient[d], remote[d].relations)
      /\ PlannedOK(p, toRemote[d], toClient[d], remote[d].relations, {})
      /\ spec[d] = {}
  BY <1>2 DEF Connection, Wire, PlannedAt, EarlyPhase
<1>4. CASE d \notin Specified
  <2>1. promise'[d] = promise[d] /\ toRemote'[d] = toRemote[d] /\ spec'[d] = {}
    BY <1>2, <1>4 DEF ExecuteToDBs, Promised, Posted, WithCleanUp, Specified
  <2> QED BY <2>1, <1>2, <1>3 DEF Connection, Wire, PlannedAt, EarlyPhase
<1>5. CASE d \in Specified
  <2>1. /\ promise'[d] = q
        /\ toRemote'[d] = IF d \in Sockets THEN Append(out, cleanUp) ELSE out
    BY <1>5 DEF ExecuteToDBs, Promised, Posted, WithCleanUp, Define
  <2>2. m \in MessageType /\ new \in PromiseType
    BY <1>1 DEF MessageType, PromiseType, Message, Define
  <2>3. q \in Seq(PromiseType) /\ out \in Seq(MessageType)
    <3> HIDE DEF m, new
    <3> QED BY <1>1, <2>2
  <2>4. WireOK(q, out, toClient[d], remote[d].relations)
    BY <1>1, <1>3, SendKeeps DEF Define
  <2>5. PlannedOK(q, out, toClient[d], remote[d].relations, names)
    <3>1. PlannedOK(q, out, toClient[d], remote[d].relations,
                    IF Define = Define THEN {} \cup names ELSE {})
      BY <1>1, <1>3, SendKeepsPlanned DEF WireOK
    <3> QED BY <3>1
  <2>6. cleanUp.msgId = 0 /\ cleanUp.remoteAction = "CleanUpQueries"
    BY DEF Message
  <2> HIDE DEF q, out, cleanUp
  <2>7. WireOK(q, Append(out, cleanUp), toClient[d], remote[d].relations)
    BY <2>3, <2>4, <2>6, <1>1, PostKeeps
  <2>8. PlannedOK(q, Append(out, cleanUp), toClient[d], remote[d].relations, names)
    BY <2>3, <2>5, PostKeepsPlanned
  <2>9. Wire(d)' /\ PlannedAt(d)'
    BY <2>1, <2>4, <2>5, <2>7, <2>8, <1>2 DEF Wire, PlannedAt
  <2> QED BY <2>9, <1>2 DEF Connection, EarlyPhase
<1> QED BY <1>4, <1>5

-----------------------------------------------------------------------------
(***************************************************************************)
(* What a step keeps.                                                      *)
(***************************************************************************)
PromisesKept ==
  \A d \in Remote : \A k \in DOMAIN promise[d] :
    /\ k \in DOMAIN promise'[d]
    /\ promise'[d][k].remoteAction = promise[d][k].remoteAction
    /\ promise'[d][k].names = promise[d][k].names

LEMMA SendKeepsPromises ==
  ASSUME TypeOK, NEW ds, NEW a, NEW names, promise' = Promised(ds, a, names)
  PROVE  PromisesKept
<1> SUFFICES ASSUME NEW d \in Remote, NEW k \in DOMAIN promise[d]
             PROVE  k \in DOMAIN promise'[d] /\ promise'[d][k] = promise[d][k]
  BY DEF PromisesKept
<1>1. promise[d] \in Seq(PromiseType)
  BY DEF TypeOK
<1>2. PICK new : promise'[d] = Append(promise[d], new) \/ promise'[d] = promise[d]
  BY DEF Promised
<1> QED BY <1>1, <1>2

LEMMA ReplyKeepsPromises ==
  ASSUME TypeOK, NEW d \in Remote, HandleReply(d)
  PROVE  PromisesKept
<1> DEFINE r == Head(toClient[d])
<1>1. /\ promise \in [Remote -> Seq(PromiseType)] /\ Settle(d, r)
      /\ \A c \in Remote : DOMAIN promise'[c] = DOMAIN promise[c]
  BY SettleType DEF TypeOK, HandleReply
<1> HIDE DEF r
<1> SUFFICES ASSUME NEW c \in Remote, NEW k \in DOMAIN promise[c]
             PROVE  /\ promise'[c][k].remoteAction = promise[c][k].remoteAction
                    /\ promise'[c][k].names = promise[c][k].names
  BY <1>1 DEF PromisesKept
<1>2. promise[c][k] \in PromiseType
  BY <1>1
<1>3. promise'[c][k] = promise[c][k] \/ promise'[c][k] = Settled(promise[c][k], r)
  <2>1. CASE r.msgId = 0
    BY <2>1, <1>1 DEF Settle
  <2>2. CASE r.msgId # 0
    <3>1. promise' = [promise EXCEPT ![d] = [promise[d] EXCEPT ![r.msgId] = Settled(promise[d][r.msgId], r)]]
      BY <2>2, <1>1 DEF Settle
    <3> QED BY <3>1, <1>1
  <2> QED BY <2>1, <2>2
<1> QED BY <1>2, <1>3 DEF Settled, PromiseType

LEMMA QuietKeepsPromises == promise' = promise => PromisesKept
BY DEF PromisesKept

LEMMA AwaitedKept ==
  ASSUME TypeOK, Awaited, PromisesKept, awaiting' = awaiting,
         phase' \in {"metadata", "execute"} => phase' = phase
  PROVE  Awaited'
<1>1. \A p \in awaiting : p[1] \in Remote /\ p[2] \in DOMAIN promise[p[1]]
  BY DEF TypeOK, Promises
<1> QED BY <1>1 DEF Awaited, PromisesKept

LEMMA RestKept ==
  ASSUME Progress, LoadedIsComplete, LocationsAsConfigured, TypeOK, TypeOK',
         connection \subseteq connection', planned \subseteq planned', local \subseteq local',
         runtimeOutputs \subseteq runtimeOutputs', relationLocation' = relationLocation,
         \A d \in Remote : remote[d].relations \subseteq remote'[d].relations,
         phase \in {"remotes", "metadata", "files"} => local' = local,
         phase' \in {phase, "failed"} \/ (phase = "loaded" /\ phase' = "shut")
  PROVE  Progress' /\ LoadedIsComplete' /\ LocationsAsConfigured'
<1>1. connection' \subseteq Remote
  BY DEF TypeOK
<1>2. Progress'
  BY <1>1 DEF Progress
<1>3. LoadedIsComplete'
  BY <1>1 DEF LoadedIsComplete
<1>4. LocationsAsConfigured'
  BY DEF LocationsAsConfigured
<1> QED BY <1>2, <1>3, <1>4

-----------------------------------------------------------------------------
(***************************************************************************)
(* The steps of setup itself.                                              *)
(***************************************************************************)
\* The answers that setup awaited are the tables of the databases.
LEMMA MetaDataIsTables ==
  ASSUME TypeOK, SetupInv, phase = "metadata", AllResolved(awaiting), NEW d \in Db
  PROVE  MetaData(d) = Tables[d]
<1>1. CASE d = LocalDbId
  BY <1>1 DEF MetaData, SetupInv, Progress
<1>2. CASE d # LocalDbId
  <2>1. d \in Remote
    BY <1>2 DEF Db
  <2> DEFINE asked == {i \in DOMAIN promise[d] : <<d, i>> \in awaiting}
  <2>2. asked # {}
    <3>1. PICK p \in awaiting : p[1] = d
      BY <2>1 DEF SetupInv, Awaited
    <3>2. p = <<d, p[2]>> /\ p[2] \in DOMAIN promise[d]
      <4>1. p \in Remote \X Nat /\ p[2] \in 1..Len(promise[p[1]]) /\ promise[d] \in Seq(PromiseType)
        BY <2>1 DEF TypeOK, Promises
      <4> QED BY <4>1, <3>1
    <3>3. <<d, p[2]>> \in awaiting
      BY <3>2
    <3> QED BY <3>2, <3>3
  <2>3. ASSUME NEW i \in asked PROVE promise[d][i].results = Tables[d]
    <3>1. promise[d][i].remoteAction = Query /\ promise[d][i].state = "resolved"
      <4>1. <<d, i>>[1] = d /\ <<d, i>>[2] = i
        OBVIOUS
      <4>2. \A p \in awaiting : promise[p[1]][p[2]].remoteAction = Query
        BY DEF SetupInv, Awaited
      <4> QED BY <4>1, <4>2 DEF AllResolved, State
    <3>2. Meta(d)
      BY <2>1 DEF SetupInv, Connection, EarlyPhase
    <3> QED BY <3>1, <3>2 DEF Meta, MetaOK
  <2>4. UNION {promise[d][i].results : i \in asked} = Tables[d]
    BY <2>2, <2>3
  <2> QED BY <2>4, <1>2 DEF MetaData
<1> QED BY <1>1, <1>2

LEMMA LocateStep ==
  ASSUME TypeOK, SetupInv, LocateRelations
  PROVE  LocationsAsConfigured'
<1>1. /\ phase = "metadata" /\ AllResolved(awaiting)
      /\ relationLocation' = [n \in UNION {MetaData(d) : d \in Db} |-> Location(n)]
  BY DEF LocateRelations
<1>2. \A d \in Db : MetaData(d) = Tables[d]
  BY <1>1, MetaDataIsTables
<1>3. ASSUME NEW n PROVE n \in DOMAIN relationLocation' <=> \E d \in Db : n \in Tables[d]
  BY <1>1, <1>2
<1>4. ASSUME NEW n \in DOMAIN relationLocation'
      PROVE  /\ n \in Tables[relationLocation'[n]]
             /\ \A d \in Db : n \in Tables[d] => relationLocation'[n] <= d
  <2>1. relationLocation'[n] = Location(n)
    BY <1>1
  <2>2. \E d \in Db : n \in MetaData(d)
    BY <1>2, <1>3
  <2> QED BY <2>1, <2>2, <1>2, LocationIsFirst
<1> QED BY <1>3, <1>4 DEF LocationsAsConfigured

LEMMA LoadStep ==
  ASSUME TypeOK, SetupInv, LoadPage
  PROVE  LoadedIsComplete'
<1>1. /\ phase = "execute" /\ AllResolved(awaiting) /\ runtimeOutputs' = Output \cap local
      /\ UNCHANGED <<connection, planned, remote>>
  BY DEF LoadPage, remoteVars
<1>2. connection = Remote /\ Specified \subseteq planned /\ Definitions[LocalDbId] \subseteq local
  BY <1>1 DEF SetupInv, Progress
<1>3. ASSUME NEW d \in Specified PROVE Definitions[d] \subseteq remote[d].relations
  <2>1. d \in Remote
    BY DEF Specified
  <2>2. PICK p \in awaiting : /\ p[1] = d
                              /\ promise[d][p[2]].remoteAction = Define
                              /\ promise[d][p[2]].names = Definitions[d]
    BY <1>1 DEF SetupInv, Awaited
  <2>3. p[2] \in DOMAIN promise[d]
    BY <2>1, <2>2 DEF TypeOK, Promises
  <2>4. promise[d][p[2]].state = "resolved"
    BY <1>1, <2>2 DEF AllResolved, State
  <2>5. PromiseOK(promise[d], remote[d].relations)
    BY <2>1 DEF SetupInv, Connection, Wire, WireOK
  <2> QED BY <2>2, <2>3, <2>4, <2>5 DEF PromiseOK
<1>4. \A d \in Remote : Definitions[d] \subseteq remote[d].relations
  BY <1>3 DEF Specified
<1> QED BY <1>1, <1>2, <1>4 DEF LoadedIsComplete

\* What was sent to d last is what setup now awaits of it.
LEMMA AwaitedIsNew ==
  ASSUME TypeOK, NEW ds \in SUBSET Remote, NEW a, NEW names, NEW d \in ds,
         promise' = Promised(ds, a, names)
  PROVE  /\ promise'[d][Len(promise[d]) + 1].remoteAction = a
         /\ promise'[d][Len(promise[d]) + 1].names = names[d]
<1> DEFINE new == [remoteAction |-> a, names |-> names[d], state |-> "pending", results |-> {}]
<1>1. promise'[d] = Append(promise[d], new) /\ promise[d] \in Seq(PromiseType)
  BY DEF Promised, TypeOK
<1>2. new.remoteAction = a /\ new.names = names[d]
  OBVIOUS
<1> HIDE DEF new
<1>3. Append(promise[d], new)[Len(promise[d]) + 1] = new
  BY <1>1
<1> QED BY <1>1, <1>2, <1>3

-----------------------------------------------------------------------------
LEMMA InvInit == Init => SetupInv
<1> SUFFICES ASSUME Init PROVE SetupInv
  OBVIOUS
<1>1. ASSUME NEW d \in Remote PROVE Connection(d)
  <2>1. /\ promise[d] = <<>> /\ toRemote[d] = <<>> /\ toClient[d] = <<>>
        /\ remote[d].relations = Tables[d] /\ spec[d] = {}
    BY DEF Init, Db
  <2>2. WireOK(<<>>, <<>>, <<>>, Tables[d])
    BY DEF WireOK, OutOK, InOK, OnceOK, PromiseOK
  <2>3. MetaOK(<<>>, <<>>, Tables[d], Tables[d])
    BY DEF MetaOK
  <2>4. PlannedOK(<<>>, <<>>, <<>>, Tables[d], {})
    BY DEF PlannedOK
  <2> QED BY <2>1, <2>2, <2>3, <2>4 DEF Connection, Wire, Meta, PlannedAt
<1> QED BY <1>1 DEF Init, SetupInv, Awaited, Progress, LoadedIsComplete, LocationsAsConfigured

LEMMA InvNext == TypeOK /\ SetupInv /\ [Next]_vars => SetupInv'
<1> SUFFICES ASSUME TypeOK, SetupInv, [Next]_vars PROVE SetupInv'
  OBVIOUS
<1>1. TypeOK'
  BY TypeNext
<1> USE DEF setupVars, planVars, remoteVars
\* Steps that send nothing and neither load the page nor locate relations.
<1>2. ASSUME UNCHANGED <<wireVars, remote, spec, awaiting, connection, relationLocation>>,
             planned \subseteq planned', local \subseteq local', runtimeOutputs \subseteq runtimeOutputs',
             phase \in {"remotes", "metadata", "files"} => local' = local,
             phase' \in {phase, "failed"}
      PROVE  SetupInv'
  <2>1. \A d \in Remote : Connection(d)'
    BY <1>2, QuietConnection DEF SetupInv, EarlyPhase
  <2>2. Awaited'
    BY <1>2, AwaitedKept, QuietKeepsPromises DEF SetupInv, wireVars
  <2>3. Progress' /\ LoadedIsComplete' /\ LocationsAsConfigured'
    BY <1>1, <1>2, RestKept DEF SetupInv
  <2> QED BY <2>1, <2>2, <2>3 DEF SetupInv
<1>3. CASE SetupMainDb
  <2>1. /\ phase = "mainDb" /\ phase' = "remotes" /\ local' = Tables[LocalDbId]
        /\ UNCHANGED <<wireVars, remote, spec, awaiting, connection, relationLocation, planned, runtimeOutputs>>
    BY <1>3 DEF SetupMainDb
  <2>2. \A d \in Remote : Connection(d)'
    BY <2>1, QuietConnection DEF SetupInv, EarlyPhase
  <2> QED BY <2>1, <2>2 DEF SetupInv, Awaited, Progress, LoadedIsComplete, LocationsAsConfigured
<1>4. CASE GetMetaData
  <2>1. /\ phase = "remotes" /\ phase' = IF connection = Remote THEN "metadata" ELSE "failed"
        /\ SendMsg(connection, Query, NoNames, {}) /\ awaiting' = NewPromises(connection)
        /\ UNCHANGED <<connection, relationLocation, remote, spec, planned, local, runtimeOutputs>>
    BY <1>4 DEF GetMetaData, Query
  <2>2. connection \in SUBSET Remote /\ Query \in Actions /\ Query # Define
    BY DEF TypeOK, Actions, Query, Define
  <2>3. ASSUME NEW d \in Remote PROVE Connection(d)'
    <3>1. Connection(d) /\ NoNames[d] = {}
      BY DEF SetupInv, NoNames
    <3> QED BY <2>1, <2>2, <3>1, NoNamesType, SendConnection DEF EarlyPhase
  <2>4. Awaited'
    <3>1. CASE connection # Remote
      BY <3>1, <2>1 DEF Awaited
    <3>2. CASE connection = Remote
      <4>1. ASSUME NEW d \in Remote
            PROVE  promise'[d][Len(promise[d]) + 1].remoteAction = Query
        BY <3>2, <2>1, <2>2, AwaitedIsNew DEF SendMsg
      <4>2. \A p \in awaiting' : \E d \in Remote : p = <<d, Len(promise[d]) + 1>>
        BY <3>2, <2>1 DEF NewPromises
      <4>3. \A d \in Remote : <<d, Len(promise[d]) + 1>> \in awaiting'
        BY <3>2, <2>1 DEF NewPromises
      <4>4. \A d \in Remote : \E p \in awaiting' : p[1] = d
        BY <4>3
      <4>5. \A p \in awaiting' : promise'[p[1]][p[2]].remoteAction = Query
        BY <4>1, <4>2
      <4> QED BY <4>4, <4>5, <3>2, <2>1 DEF Awaited
    <3> QED BY <3>1, <3>2
  <2>5. Progress' /\ LoadedIsComplete' /\ LocationsAsConfigured'
    BY <2>1 DEF SetupInv, Progress, LoadedIsComplete, LocationsAsConfigured
  <2> QED BY <2>3, <2>4, <2>5 DEF SetupInv
<1>5. CASE LocateRelations
  <2>1. /\ phase = "metadata" /\ phase' = "files"
        /\ UNCHANGED <<wireVars, remote, spec, connection, planned, local, runtimeOutputs>>
    BY <1>5 DEF LocateRelations
  <2>2. \A d \in Remote : Connection(d)'
    BY <2>1, QuietConnection DEF SetupInv, EarlyPhase
  <2>3. Awaited' /\ Progress' /\ LoadedIsComplete'
    BY <2>1 DEF SetupInv, Awaited, Progress, LoadedIsComplete
  <2> QED BY <2>2, <2>3, <1>5, LocateStep DEF SetupInv
<1>6. CASE ExecuteToDBs
  <2>1. /\ phase = "files" /\ phase' = "execute" /\ planned' = Specified
        /\ local' = local \cup Definitions[LocalDbId]
        /\ promise' = Promised(Specified, Define, Definitions) /\ awaiting' = NewPromises(Specified)
        /\ UNCHANGED <<connection, relationLocation, remote>>
    BY <1>6 DEF ExecuteToDBs, Define
  <2>2. \A d \in Remote : Connection(d)'
    BY <1>6, DefineConnection DEF SetupInv
  <2>3. Awaited'
    <3> SUFFICES ASSUME NEW d \in Specified
                 PROVE  \E p \in awaiting' : /\ p[1] = d
                                             /\ promise'[d][p[2]].remoteAction = Define
                                             /\ promise'[d][p[2]].names = Definitions[d]
      BY <2>1 DEF Awaited
    <3>1. Specified \in SUBSET Remote
      BY DEF Specified
    <3>2. /\ promise'[d][Len(promise[d]) + 1].remoteAction = Define
          /\ promise'[d][Len(promise[d]) + 1].names = Definitions[d]
      BY <2>1, <3>1, AwaitedIsNew
    <3>3. <<d, Len(promise[d]) + 1>> \in awaiting'
      BY <2>1 DEF NewPromises
    <3> QED BY <3>2, <3>3
  <2>4. Progress' /\ LoadedIsComplete' /\ LocationsAsConfigured'
    BY <2>1 DEF SetupInv, Progress, LoadedIsComplete, LocationsAsConfigured
  <2> QED BY <2>2, <2>3, <2>4 DEF SetupInv
<1>7. CASE LoadPage
  <2>1. /\ phase = "execute" /\ phase' = "loaded"
        /\ UNCHANGED <<wireVars, remote, spec, connection, planned, local, relationLocation>>
    BY <1>7 DEF LoadPage
  <2>2. \A d \in Remote : Connection(d)'
    BY <2>1, QuietConnection DEF SetupInv, EarlyPhase
  <2>3. Awaited' /\ Progress' /\ LocationsAsConfigured'
    BY <2>1 DEF SetupInv, Awaited, Progress, LocationsAsConfigured
  <2> QED BY <2>2, <2>3, <1>7, LoadStep DEF SetupInv
<1>8. CASE SetupRejected \/ FailToFetch
  BY <1>2, <1>8 DEF SetupRejected, FailToFetch, Fail
<1>9. CASE ShutDown
  <2>1. /\ phase = "loaded" /\ phase' = "shut"
        /\ toRemote' = [d \in Remote |->
             IF DbKind[d] = "Worker" THEN Append(toRemote[d], Message(0, "Close", {}, FALSE))
             ELSE toRemote[d]]
        /\ UNCHANGED <<promise, toClient, remote, spec, awaiting, connection, relationLocation,
                       planned, local, runtimeOutputs>>
    BY <1>9 DEF ShutDown
  <2>2. ASSUME NEW d \in Remote PROVE Connection(d)'
    <3>0. Connection(d)
      BY DEF SetupInv
    <3>1. CASE DbKind[d] = "Worker"
      <4> DEFINE m == Message(0, "Close", {}, FALSE)
      <4>1. toRemote'[d] = Append(toRemote[d], m)
        BY <2>1, <3>1
      <4>2. m.msgId = 0 /\ m.remoteAction = "Close"
        BY DEF Message
      <4> HIDE DEF m
      <4> QED BY <4>1, <4>2, <3>0, <2>1, PostConnection DEF EarlyPhase
    <3>2. CASE DbKind[d] # "Worker"
      <4>1. toRemote'[d] = toRemote[d]
        BY <2>1, <3>2
      <4> QED BY <4>1, <3>0, <2>1 DEF Connection, Wire, PlannedAt, EarlyPhase
    <3> QED BY <3>1, <3>2
  <2>3. Awaited'
    BY <2>1 DEF Awaited
  <2>4. Progress' /\ LoadedIsComplete' /\ LocationsAsConfigured'
    BY <1>1, <2>1, RestKept DEF SetupInv
  <2> QED BY <2>2, <2>3, <2>4 DEF SetupInv
<1>10. ASSUME NEW d \in Remote, ConnectEngine(d) PROVE SetupInv'
  <2>1. /\ SendMsg({d}, "ConnectToDb", NoNames, {}) /\ connection' = connection \cup {d}
        /\ UNCHANGED <<phase, awaiting, relationLocation, remote, spec, planned, local, runtimeOutputs>>
    BY <1>10 DEF ConnectEngine
  <2>2. {d} \in SUBSET Remote /\ "ConnectToDb" \in Actions /\ "ConnectToDb" # Define
    BY DEF Actions, Define
  <2>3. ASSUME NEW c \in Remote PROVE Connection(c)'
    <3>1. Connection(c) /\ NoNames[c] = {}
      BY DEF SetupInv, NoNames
    <3> QED BY <2>1, <2>2, <3>1, NoNamesType, SendConnection
  <2>4. Awaited'
    BY <2>1, AwaitedKept, SendKeepsPromises DEF SendMsg, SetupInv
  <2>5. Progress' /\ LoadedIsComplete' /\ LocationsAsConfigured'
    BY <1>1, <2>1, RestKept DEF SetupInv
  <2> QED BY <2>3, <2>4, <2>5 DEF SetupInv
<1>11. ASSUME NEW d \in Remote, FailToConnect(d) \/ EngineOpened(d) \/ LoseConnection(d)
       PROVE  SetupInv'
  BY <1>2, <1>11 DEF FailToConnect, EngineOpened, LoseConnection
<1>12. ASSUME NEW d \in Remote, HandleReply(d) PROVE SetupInv'
  <2>1. UNCHANGED <<phase, awaiting, connection, relationLocation, remote, spec, planned, local,
                    runtimeOutputs>>
    BY <1>12 DEF HandleReply
  <2>2. \A c \in Remote : Connection(c)'
    BY <1>12, ReplyConnection DEF SetupInv
  <2>3. Awaited'
    BY <2>1, <1>12, AwaitedKept, ReplyKeepsPromises DEF SetupInv
  <2>4. Progress' /\ LoadedIsComplete' /\ LocationsAsConfigured'
    BY <1>1, <2>1, RestKept DEF SetupInv
  <2> QED BY <2>2, <2>3, <2>4 DEF SetupInv
<1>13. ASSUME NEW d \in Remote, Execute(d) PROVE SetupInv'
  <2>1. UNCHANGED <<phase, awaiting, connection, relationLocation, promise, spec, planned, local,
                    runtimeOutputs>>
    BY <1>13 DEF Execute
  <2>2. \A c \in Remote : Connection(c)' /\ remote[c].relations \subseteq remote'[c].relations
    BY <1>13, ExecuteConnection DEF SetupInv
  <2>3. Awaited'
    BY <2>1, AwaitedKept, QuietKeepsPromises DEF SetupInv
  <2>4. Progress' /\ LoadedIsComplete' /\ LocationsAsConfigured'
    BY <1>1, <2>1, <2>2, RestKept DEF SetupInv
  <2> QED BY <2>2, <2>3, <2>4 DEF SetupInv
<1>14. ASSUME NEW v \in Added, AddViewByAst(v) PROVE SetupInv'
  <2> DEFINE ds == {d \in Remote : NewFor(v, d) # {}}
             names == [d \in Remote |-> NewFor(v, d)]
  <2>1. /\ phase = "loaded" /\ phase' = phase /\ SendMsg(ds, Define, names, {})
        /\ planned' = planned \cup ds /\ local' = local \cup NewFor(v, LocalDbId)
        /\ spec' = [d \in Db |-> spec[d] \cup NewFor(v, d)]
        /\ UNCHANGED <<awaiting, connection, relationLocation, remote, runtimeOutputs>>
    BY <1>14 DEF AddViewByAst, Define
  <2>2. ds \in SUBSET Remote /\ Define \in Actions /\ \A c \in Remote : names[c] \in SUBSET Name
    BY DEF NewFor, Actions
  <2>3. ASSUME NEW c \in Remote PROVE Connection(c)'
    <3>1. Connection(c)
      BY DEF SetupInv
    <3>2. spec'[c] = IF Define = Define /\ c \in ds THEN spec[c] \cup names[c] ELSE spec[c]
      BY <2>1 DEF Db
    <3>3. phase' \notin EarlyPhase
      BY <2>1 DEF EarlyPhase
    <3> HIDE DEF ds, names
    <3> QED BY <2>1, <2>2, <3>1, <3>2, <3>3, SendConnection
  <2> HIDE DEF ds, names
  <2>4. Awaited'
    BY <2>1, AwaitedKept, SendKeepsPromises DEF SendMsg, SetupInv
  <2>5. Progress' /\ LoadedIsComplete' /\ LocationsAsConfigured'
    BY <1>1, <2>1, RestKept DEF SetupInv
  <2> QED BY <2>3, <2>4, <2>5 DEF SetupInv
<1>15. ASSUME NEW i \in 1..MaxAdds, ViewAdded(i) PROVE SetupInv'
  BY <1>2, <1>15 DEF ViewAdded
<1>16. CASE UNCHANGED vars
  BY <1>2, <1>16 DEF vars
<1> QED
  BY <1>3, <1>4, <1>5, <1>6, <1>7, <1>8, <1>9, <1>10, <1>11, <1>12, <1>13, <1>14, <1>15, <1>16
     DEF Next

LEMMA Invariance == Spec => [](TypeOK /\ SetupInv)
<1>1. Init => TypeOK /\ SetupInv
  BY TypeInit, InvInit
<1>2. (TypeOK /\ SetupInv) /\ [Next]_vars => (TypeOK /\ SetupInv)'
  BY TypeNext, InvNext
<1> QED BY <1>1, <1>2, PTL DEF Spec

(***************************************************************************)
(* A page is loaded only when every database has executed what the program *)
(* defines in it, whatever fails and in whatever order they answer.        *)
(***************************************************************************)
THEOREM LoadedCompletely == Spec => []LoadedIsComplete
<1>1. TypeOK /\ SetupInv => LoadedIsComplete
  BY DEF SetupInv
<1> QED BY <1>1, Invariance, PTL

(***************************************************************************)
(* A name is located in the first database of the configuration that has   *)
(* it, in whatever order they answer.                                      *)
(***************************************************************************)
THEOREM LocatedAsConfigured == Spec => []LocationsAsConfigured
<1>1. TypeOK /\ SetupInv => LocationsAsConfigured
  BY DEF SetupInv
<1> QED BY <1>1, Invariance, PTL

(***************************************************************************)
(* What is planned for a database is there, on its way to it or refused,   *)
(* however many views are added one after another.                         *)
(***************************************************************************)
THEOREM PlannedGetsDefined == Spec => []PlannedIsDefined
<1>1. TypeOK /\ SetupInv => PlannedIsDefined
  <2> SUFFICES ASSUME TypeOK, SetupInv, NEW d \in Remote, NEW n \in spec[d]
               PROVE  n \in remote[d].relations \/ OnItsWay(d, n) \/ WasRefused(d, n)
    BY DEF PlannedIsDefined
  <2> QED BY DEF SetupInv, Connection, PlannedAt, PlannedOK, OnItsWay, WasRefused, Define
<1> QED BY <1>1, Invariance, PTL

-----------------------------------------------------------------------------
(***************************************************************************)
(* A promise that is settled keeps its state, as no reply is for it any    *)
(* more, and every promise is of what it was made for.                     *)
(***************************************************************************)
Action(p) == promise[p[1]][p[2]].remoteAction

SettledKept ==
  \A p \in Promises : /\ p \in Promises' /\ Action(p)' = Action(p)
                      /\ State(p) # "pending" => State(p)' = State(p)

LEMMA SendKeepsSettled ==
  ASSUME TypeOK, NEW ds, NEW a, NEW names, promise' = Promised(ds, a, names)
  PROVE  SettledKept
<1> SUFFICES ASSUME NEW d \in Remote, NEW k \in 1..Len(promise[d])
             PROVE  k \in 1..Len(promise'[d]) /\ promise'[d][k] = promise[d][k]
  BY DEF SettledKept, Promises, State, Action
<1>1. promise[d] \in Seq(PromiseType)
  BY DEF TypeOK
<1>2. PICK new : promise'[d] = Append(promise[d], new) \/ promise'[d] = promise[d]
  BY DEF Promised
<1> QED BY <1>1, <1>2

LEMMA ReplyKeepsSettled ==
  ASSUME TypeOK, SetupInv, NEW d \in Remote, HandleReply(d)
  PROVE  SettledKept
<1> DEFINE r == Head(toClient[d])
<1>1. /\ promise \in [Remote -> Seq(PromiseType)] /\ Settle(d, r)
      /\ Promises' = Promises
  BY SettleType DEF TypeOK, HandleReply
<1>2. r.msgId # 0 => promise[d][r.msgId].state = "pending"
  <2>1. toClient[d] \in Seq(ReplyType) /\ toClient[d] # <<>>
    BY DEF TypeOK, HandleReply
  <2>2. 1 \in DOMAIN toClient[d] /\ r = toClient[d][1]
    BY <2>1
  <2> QED BY <2>2 DEF SetupInv, Connection, Wire, WireOK, InOK
<1> HIDE DEF r
<1>0. PromisesKept
  BY ReplyKeepsPromises
<1> SUFFICES ASSUME NEW c \in Remote, NEW k \in 1..Len(promise[c]), promise[c][k].state # "pending"
             PROVE  promise'[c][k] = promise[c][k]
  BY <1>0, <1>1 DEF SettledKept, PromisesKept, Promises, State, Action
<1>3. CASE r.msgId = 0
  BY <1>3, <1>1 DEF Settle
<1>4. CASE r.msgId # 0
  <2>1. promise' = [promise EXCEPT ![d] = [promise[d] EXCEPT ![r.msgId] = Settled(promise[d][r.msgId], r)]]
    BY <1>4, <1>1 DEF Settle
  <2>2. c # d \/ k # r.msgId
    BY <1>2, <1>4
  <2> QED BY <2>1, <2>2, <1>1
<1> QED BY <1>3, <1>4

LEMMA StepKeepsSettled == TypeOK /\ SetupInv /\ [Next]_vars => SettledKept
<1> SUFFICES ASSUME TypeOK, SetupInv, [Next]_vars PROVE SettledKept
  OBVIOUS
<1>1. promise' = promise => SettledKept
  BY DEF SettledKept, Promises, State, Action
<1>2. CASE GetMetaData
  BY <1>2, SendKeepsSettled DEF GetMetaData, SendMsg
<1>3. CASE ExecuteToDBs
  BY <1>3, SendKeepsSettled DEF ExecuteToDBs
<1>4. CASE SetupMainDb \/ LocateRelations \/ LoadPage \/ SetupRejected \/ FailToFetch \/ ShutDown
  BY <1>1, <1>4 DEF SetupMainDb, LocateRelations, LoadPage, SetupRejected, FailToFetch, ShutDown,
                    Fail, wireVars
<1>5. ASSUME NEW d \in Remote, ConnectEngine(d) PROVE SettledKept
  BY <1>5, SendKeepsSettled DEF ConnectEngine, SendMsg
<1>6. ASSUME NEW d \in Remote, FailToConnect(d) \/ EngineOpened(d) \/ Execute(d) \/ LoseConnection(d)
      PROVE  SettledKept
  BY <1>1, <1>6 DEF FailToConnect, EngineOpened, Execute, LoseConnection, wireVars
<1>7. ASSUME NEW d \in Remote, HandleReply(d) PROVE SettledKept
  BY <1>7, ReplyKeepsSettled
<1>8. ASSUME NEW v \in Added, AddViewByAst(v) PROVE SettledKept
  BY <1>8, SendKeepsSettled DEF AddViewByAst, SendMsg
<1>9. ASSUME NEW i \in 1..MaxAdds, ViewAdded(i) PROVE SettledKept
  BY <1>1, <1>9 DEF ViewAdded, wireVars
<1>10. CASE UNCHANGED vars
  BY <1>1, <1>10 DEF vars, wireVars
<1> QED BY <1>2, <1>3, <1>4, <1>5, <1>6, <1>7, <1>8, <1>9, <1>10 DEF Next

(***************************************************************************)
(* The inductive invariant of the views that are added: a call awaits      *)
(* definitions it has asked for; one that has returned has them all        *)
(* answered, or one of them rejected; and an output that is not the        *)
(* program's has a call that has returned with all of them resolved.       *)
(***************************************************************************)
AwaitsDefinitions(c) == \A p \in c.awaits : p \in Promises /\ Action(p) = Define
Returned(c) == c.done => AllResolved(c.awaits) \/ OneRejected(c.awaits)
Answered(v) ==
  \E j \in DOMAIN calls : calls[j].view = v /\ calls[j].done /\ AllResolved(calls[j].awaits)

AddedInv ==
  /\ \A j \in DOMAIN calls : AwaitsDefinitions(calls[j]) /\ Returned(calls[j])
  /\ \A v \in runtimeOutputs \ Output : Answered(v)

\* What was asked for stays so, and what was answered stays answered.
LEMMA CallKept ==
  ASSUME SettledKept, NEW c, AwaitsDefinitions(c)
  PROVE  /\ \A p \in c.awaits : p \in Promises' /\ Action(p)' = Define
         /\ AllResolved(c.awaits) => \A p \in c.awaits : State(p)' = "resolved"
         /\ OneRejected(c.awaits) => \E p \in c.awaits : State(p)' = "rejected"
<1>1. \A p \in c.awaits : /\ p \in Promises /\ Action(p) = Define
                          /\ p \in Promises' /\ Action(p)' = Action(p)
                          /\ State(p) # "pending" => State(p)' = State(p)
  BY DEF SettledKept, AwaitsDefinitions
<1>2. ASSUME AllResolved(c.awaits), NEW p \in c.awaits PROVE State(p)' = "resolved"
  BY <1>1, <1>2 DEF AllResolved
<1>3. ASSUME OneRejected(c.awaits) PROVE \E p \in c.awaits : State(p)' = "rejected"
  BY <1>1, <1>3 DEF OneRejected
<1> QED BY <1>1, <1>2, <1>3

\* A call that is in the sequence before and after a step, returned or not.
LEMMA OneCallKept ==
  ASSUME SettledKept, NEW j \in DOMAIN calls, j \in DOMAIN calls', AwaitsDefinitions(calls[j]),
         calls'[j].awaits = calls[j].awaits
  PROVE  /\ AwaitsDefinitions(calls[j])'
         /\ AllResolved(calls[j].awaits) => AllResolved(calls[j].awaits)'
         /\ OneRejected(calls[j].awaits) => OneRejected(calls[j].awaits)'
<1>1. /\ \A p \in calls[j].awaits : p \in Promises' /\ Action(p)' = Define
      /\ AllResolved(calls[j].awaits) => \A p \in calls[j].awaits : State(p)' = "resolved"
      /\ OneRejected(calls[j].awaits) => \E p \in calls[j].awaits : State(p)' = "rejected"
  BY CallKept
<1> QED BY <1>1 DEF AwaitsDefinitions, AllResolved, OneRejected

LEMMA AnsweredKept ==
  ASSUME AddedInv, SettledKept, DOMAIN calls \subseteq DOMAIN calls',
         \A j \in DOMAIN calls : /\ calls'[j].view = calls[j].view
                                 /\ calls'[j].awaits = calls[j].awaits
                                 /\ calls[j].done => calls'[j].done
                                 /\ calls'[j].done => \/ calls[j].done \/ AllResolved(calls[j].awaits)
                                                      \/ OneRejected(calls[j].awaits)
  PROVE  /\ \A j \in DOMAIN calls : AwaitsDefinitions(calls[j])' /\ Returned(calls[j])'
         /\ \A v : Answered(v) => Answered(v)'
<1>1. ASSUME NEW j \in DOMAIN calls
      PROVE  /\ AwaitsDefinitions(calls[j])'
             /\ AllResolved(calls[j].awaits) => AllResolved(calls[j].awaits)'
             /\ OneRejected(calls[j].awaits) => OneRejected(calls[j].awaits)'
  BY OneCallKept DEF AddedInv
<1>2. ASSUME NEW j \in DOMAIN calls PROVE Returned(calls[j])'
  BY <1>1 DEF AddedInv, Returned
<1>3. ASSUME NEW v, Answered(v) PROVE Answered(v)'
  <2>1. PICK j \in DOMAIN calls : calls[j].view = v /\ calls[j].done /\ AllResolved(calls[j].awaits)
    BY <1>3 DEF Answered
  <2>2. AllResolved(calls[j].awaits)'
    BY <1>1, <2>1
  <2>3. j \in DOMAIN calls' /\ calls'[j].view = v /\ calls'[j].done
    BY <2>1
  <2> QED BY <2>2, <2>3 DEF Answered
<1> QED BY <1>1, <1>2, <1>3

LEMMA QuietKeepsAdded ==
  AddedInv /\ SettledKept /\ UNCHANGED <<calls, runtimeOutputs>> => AddedInv'
<1> SUFFICES ASSUME AddedInv, SettledKept, UNCHANGED <<calls, runtimeOutputs>> PROVE AddedInv'
  OBVIOUS
<1>1. /\ \A j \in DOMAIN calls : AwaitsDefinitions(calls[j])' /\ Returned(calls[j])'
      /\ \A v : Answered(v) => Answered(v)'
  BY AnsweredKept
<1> QED BY <1>1 DEF AddedInv

LEMMA AddViewKeepsAdded ==
  ASSUME TypeOK, AddedInv, SettledKept, NEW v \in Added, AddViewByAst(v)
  PROVE  AddedInv'
<1> DEFINE ds == {d \in Remote : NewFor(v, d) # {}}
           names == [d \in Remote |-> NewFor(v, d)]
           call == [view |-> v, awaits |-> NewPromises(ds), done |-> FALSE]
<1>1. /\ promise' = Promised(ds, Define, names)
      /\ calls' = Append(calls, call) /\ runtimeOutputs' = runtimeOutputs
  BY DEF AddViewByAst, SendMsg, Define
<1>2. call.awaits = NewPromises(ds) /\ call.done = FALSE
  OBVIOUS
<1>3. ds \in SUBSET Remote /\ \A d \in Remote : names[d] \in SUBSET Name
  BY DEF NewFor
<1> HIDE DEF ds, names, call
<1>4. NewPromises(ds) \subseteq Promises'
  BY <1>1, <1>3, SendType DEF Actions
<1>5. calls \in Seq(CallType)
  BY DEF TypeOK
<1>6. /\ DOMAIN calls' = DOMAIN calls \cup {Len(calls) + 1}
      /\ \A j \in DOMAIN calls : calls'[j] = calls[j]
      /\ calls'[Len(calls) + 1] = call
  BY <1>1, <1>5
<1>7. /\ \A j \in DOMAIN calls : AwaitsDefinitions(calls[j])' /\ Returned(calls[j])'
      /\ \A w : Answered(w) => Answered(w)'
  BY <1>6, AnsweredKept
<1>8. \A p \in NewPromises(ds) : Action(p)' = Define
  <2> SUFFICES ASSUME NEW d \in ds PROVE promise'[d][Len(promise[d]) + 1].remoteAction = Define
    BY DEF NewPromises, Action
  <2> QED BY <1>1, <1>3, AwaitedIsNew
<1>9. ASSUME NEW j \in {Len(calls) + 1} PROVE AwaitsDefinitions(calls[j])' /\ Returned(calls[j])'
  <2>1. calls'[j] = call
    BY <1>6
  <2>2. calls'[j].awaits = NewPromises(ds) /\ calls'[j].done = FALSE
    BY <2>1, <1>2
  <2>3. AwaitsDefinitions(calls[j])'
    BY <2>2, <1>4, <1>8 DEF AwaitsDefinitions
  <2>4. Returned(calls[j])'
    BY <2>2 DEF Returned
  <2> QED BY <2>3, <2>4
<1>10. \A j \in DOMAIN calls' : AwaitsDefinitions(calls[j])' /\ Returned(calls[j])'
  BY <1>6, <1>7, <1>9
<1>11. \A w \in runtimeOutputs' \ Output : Answered(w)'
  BY <1>1, <1>7 DEF AddedInv
<1> QED BY <1>10, <1>11 DEF AddedInv

LEMMA ViewAddedKeepsAdded ==
  ASSUME TypeOK, AddedInv, SettledKept, NEW i, ViewAdded(i)
  PROVE  AddedInv'
<1>1. /\ i \in DOMAIN calls /\ calls[i] \in CallType /\ calls \in Seq(CallType)
      /\ calls' = [calls EXCEPT ![i] = [calls[i] EXCEPT !.done = TRUE]]
      /\ AllResolved(calls[i].awaits) \/ OneRejected(calls[i].awaits)
  BY DEF ViewAdded, TypeOK
<1>2. /\ [calls[i] EXCEPT !.done = TRUE].view = calls[i].view
      /\ [calls[i] EXCEPT !.done = TRUE].awaits = calls[i].awaits
      /\ [calls[i] EXCEPT !.done = TRUE].done = TRUE
  BY <1>1 DEF CallType
<1>3. /\ DOMAIN calls' = DOMAIN calls
      /\ \A j \in DOMAIN calls : calls'[j].view = calls[j].view /\ calls'[j].awaits = calls[j].awaits
  BY <1>1, <1>2
<1>4. \A j \in DOMAIN calls : j # i => calls'[j] = calls[j]
  BY <1>1
<1>5. calls'[i].done
  BY <1>1, <1>2
<1> DEFINE Settles(j) == AllResolved(calls[j].awaits) \/ OneRejected(calls[j].awaits)
<1>6. \A j \in DOMAIN calls : (calls[j].done => calls'[j].done) /\ (calls'[j].done => calls[j].done \/ Settles(j))
  <2>1. Settles(i)
    BY <1>1
  <2> SUFFICES ASSUME NEW j \in DOMAIN calls
               PROVE  (calls[j].done => calls'[j].done) /\ (calls'[j].done => calls[j].done \/ Settles(j))
    OBVIOUS
  <2> HIDE DEF Settles
  <2>2. CASE j = i
    BY <2>1, <2>2, <1>5
  <2>3. CASE j # i
    BY <2>3, <1>4
  <2> QED BY <2>2, <2>3
<1>7. /\ \A j \in DOMAIN calls : AwaitsDefinitions(calls[j])' /\ Returned(calls[j])'
      /\ \A w : Answered(w) => Answered(w)'
  BY <1>3, <1>6, AnsweredKept
<1>8. \A w \in runtimeOutputs' : w \in runtimeOutputs \/ (w = calls[i].view /\ AllResolved(calls[i].awaits))
  BY DEF ViewAdded
<1>9. ASSUME AllResolved(calls[i].awaits) PROVE Answered(calls[i].view)'
  <2>0. AwaitsDefinitions(calls[i]) /\ i \in DOMAIN calls' /\ calls'[i].awaits = calls[i].awaits
    BY <1>1, <1>3 DEF AddedInv
  <2>1. AllResolved(calls[i].awaits)'
    BY <1>1, <1>9, <2>0, OneCallKept
  <2>2. i \in DOMAIN calls'
    BY <1>1, <1>3
  <2> QED BY <1>5, <2>1, <2>2 DEF Answered
<1>10. \A w \in runtimeOutputs' \ Output : Answered(w)'
  <2> SUFFICES ASSUME NEW w \in runtimeOutputs' \ Output PROVE Answered(w)'
    OBVIOUS
  <2>1. CASE w \in runtimeOutputs
    BY <2>1, <1>7 DEF AddedInv
  <2>2. CASE w = calls[i].view /\ AllResolved(calls[i].awaits)
    <3>1. Answered(calls[i].view)'
      BY <2>2, <1>9
    <3>2. calls'[i].view = w
      BY <2>2, <1>1, <1>3
    <3> QED BY <3>1, <3>2 DEF Answered
  <2> QED BY <1>8, <2>1, <2>2
<1> QED BY <1>3, <1>7, <1>10 DEF AddedInv

LEMMA AddedNext == TypeOK /\ SetupInv /\ AddedInv /\ [Next]_vars => AddedInv'
<1> SUFFICES ASSUME TypeOK, SetupInv, AddedInv, [Next]_vars PROVE AddedInv'
  OBVIOUS
<1>1. SettledKept
  BY StepKeepsSettled
<1>2. CASE LoadPage
  <2>1. runtimeOutputs' \subseteq Output /\ calls' = calls
    BY <1>2 DEF LoadPage
  <2>2. \A j \in DOMAIN calls : AwaitsDefinitions(calls[j])' /\ Returned(calls[j])'
    BY <1>1, <2>1, AnsweredKept
  <2> QED BY <2>1, <2>2 DEF AddedInv
<1>3. CASE SetupMainDb \/ GetMetaData \/ LocateRelations \/ ExecuteToDBs \/ SetupRejected
           \/ FailToFetch \/ ShutDown
  BY <1>1, <1>3, QuietKeepsAdded
     DEF SetupMainDb, GetMetaData, LocateRelations, ExecuteToDBs, SetupRejected, FailToFetch,
         ShutDown, Fail, planVars
<1>4. ASSUME NEW d \in Remote,
             \/ ConnectEngine(d) \/ FailToConnect(d) \/ EngineOpened(d)
             \/ HandleReply(d) \/ Execute(d) \/ LoseConnection(d)
      PROVE  AddedInv'
  BY <1>1, <1>4, QuietKeepsAdded
     DEF ConnectEngine, FailToConnect, EngineOpened, HandleReply, Execute, LoseConnection, planVars
<1>5. ASSUME NEW v \in Added, AddViewByAst(v) PROVE AddedInv'
  BY <1>1, <1>5, AddViewKeepsAdded
<1>6. ASSUME NEW i \in 1..MaxAdds, ViewAdded(i) PROVE AddedInv'
  BY <1>1, <1>6, ViewAddedKeepsAdded
<1>7. CASE UNCHANGED vars
  BY <1>1, <1>7, QuietKeepsAdded DEF vars, planVars
<1> QED BY <1>2, <1>3, <1>4, <1>5, <1>6, <1>7 DEF Next

\* What the databases answered to the definitions of a call, they have.
LEMMA ResolvedIsDefined ==
  ASSUME TypeOK, SetupInv, NEW c, AwaitsDefinitions(c), AllResolved(c.awaits)
  PROVE  OwnDefined(c)
<1> SUFFICES ASSUME NEW p \in c.awaits
             PROVE  State(p) = "resolved" /\ promise[p[1]][p[2]].names \subseteq remote[p[1]].relations
  BY DEF OwnDefined
<1>1. p \in Promises /\ Action(p) = Define /\ State(p) = "resolved"
  BY DEF AwaitsDefinitions, AllResolved
<1>2. p[1] \in Remote /\ p[2] \in DOMAIN promise[p[1]]
  BY <1>1 DEF TypeOK, Promises
<1>3. PromiseOK(promise[p[1]], remote[p[1]].relations)
  BY <1>2 DEF SetupInv, Connection, Wire, WireOK
<1> QED BY <1>1, <1>2, <1>3 DEF PromiseOK, Action, State

(***************************************************************************)
(* A call that adds a view returns only when the databases have executed   *)
(* everything it asked of them, or with a rejection, and an output gets its*)
(* statement only from a call that returned without one, however calls,    *)
(* answers and failures interleave.                                        *)
(***************************************************************************)
THEOREM AddedAfterDefinition == Spec => []AddedWhenDefined
<1>1. Init => AddedInv
  BY DEF Init, AddedInv
<1>2. ASSUME TypeOK, SetupInv, AddedInv PROVE AddedWhenDefined
  <2>1. \A j \in DOMAIN calls : AwaitsDefinitions(calls[j]) /\ Returned(calls[j])
    BY <1>2 DEF AddedInv
  <2>2. \A j \in DOMAIN calls : AllResolved(calls[j].awaits) => OwnDefined(calls[j])
    BY <1>2, <2>1, ResolvedIsDefined
  <2>3. \A j \in DOMAIN calls : calls[j].done => OwnDefined(calls[j]) \/ OneRejected(calls[j].awaits)
    BY <2>1, <2>2 DEF Returned
  <2>4. \A v \in runtimeOutputs \ Output : \E j \in DOMAIN calls :
          calls[j].view = v /\ calls[j].done /\ OwnDefined(calls[j])
    BY <1>2, <2>2 DEF AddedInv, Answered
  <2> QED BY <2>3, <2>4 DEF AddedWhenDefined
<1> QED BY <1>1, <1>2, AddedNext, Invariance, PTL DEF Spec
=============================================================================
