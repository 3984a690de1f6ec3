------------------------- MODULE RequestCacheProofs -------------------------
(***************************************************************************)
(* Proofs about the request cache, for every program and every number of   *)
(* events, failures and bound outputs: its types, and that the answer an   *)
(* event view shows for a timestep is the one for the rows of that         *)
(* timestep, also when another timestep asked for it, and the only one.    *)
(***************************************************************************)
EXTENDS RequestCache, TLAPS

\* The functions are indexed by what they are about, and the queues are sequences.
Shape ==
  /\ DOMAIN reference = EventView /\ DOMAIN cacheTable = EventView
  /\ DOMAIN shown = EventView
  /\ DOMAIN lastEvent = EventTable
  /\ DOMAIN copy = Db
  /\ \E S : queue \in [Db -> Seq(S)]

-----------------------------------------------------------------------------
(***************************************************************************)
(* Sequences: what a queue holds after one timestep is added or taken off. *)
(***************************************************************************)
LEMMA AppendAt ==
  ASSUME NEW S, NEW s \in Seq(S), NEW e
  PROVE  /\ Append(s, e) \in Seq(S \cup {e})
         /\ \A i \in DOMAIN Append(s, e) :
              \/ i \in DOMAIN s /\ Append(s, e)[i] = s[i]
              \/ i = Len(s) + 1 /\ i \notin DOMAIN s /\ Append(s, e)[i] = e
<1>1. s \in Seq(S \cup {e}) /\ e \in S \cup {e}
  OBVIOUS
<1> QED BY <1>1

LEMMA SameIndices ==
  ASSUME NEW m \in Nat, NEW n \in Nat, 1..m = 1..n
  PROVE  m = n
<1>1. ~(m < n)
  <2>1. SUFFICES ASSUME m < n PROVE FALSE
    OBVIOUS
  <2>2. n \in 1..n /\ n \notin 1..m
    BY <2>1
  <2> QED BY <2>2
<1>2. ~(n < m)
  <2>1. SUFFICES ASSUME n < m PROVE FALSE
    OBVIOUS
  <2>2. m \in 1..m /\ m \notin 1..n
    BY <2>1
  <2> QED BY <2>2
<1> QED BY <1>1, <1>2

LEMMA TailAt ==
  ASSUME NEW S, NEW s \in Seq(S), s # <<>>
  PROVE  /\ Tail(s) \in Seq(S) /\ 1 \in DOMAIN s /\ Head(s) = s[1]
         /\ \A i \in DOMAIN Tail(s) : i \in Nat \ {0} /\ i + 1 \in DOMAIN s /\ Tail(s)[i] = s[i + 1]
         /\ \A i \in DOMAIN Tail(s) : Tail(s) # <<>> /\ Head(Tail(s)) = Tail(s)[1]
<1>1. Tail(s) \in Seq(S)
  OBVIOUS
<1>2. \A i \in DOMAIN Tail(s) : Tail(s) # <<>>
  OBVIOUS
<1> QED BY <1>1, <1>2

-----------------------------------------------------------------------------
(***************************************************************************)
(* Keys: in a simple program two event views with the same key read the    *)
(* same relations with the same rows, if these have rows.                  *)
(***************************************************************************)
LEMMA RefsAreLocal == ASSUME NEW v \in EventView PROVE Refs(v) \subseteq LocalRelation
BY CacheAssumption DEF Refs

LEMMA SubKeyInjective ==
  ASSUME SimpleProgram, NEW r \in LocalRelation, NEW s \in LocalRelation, NEW x, NEW y,
         Rows(r, x) # {}, MakeSubKey(r, x) = MakeSubKey(s, y)
  PROVE  r = s /\ Rows(r, x) = Rows(s, y)
<1>1. PICK row : row \in Rows(r, x)
  OBVIOUS
<1>2. <<Columns[r], row>> \in MakeSubKey(s, y)
  BY <1>1 DEF MakeSubKey
<1>3. Columns[r] = Columns[s]
  BY <1>2 DEF MakeSubKey
<1>4. r = s
  BY <1>3 DEF SimpleProgram
<1>5. \A a : /\ a \in Rows(r, x) <=> <<Columns[r], a>> \in MakeSubKey(r, x)
             /\ a \in Rows(s, y) <=> <<Columns[s], a>> \in MakeSubKey(s, y)
  BY DEF MakeSubKey
<1> QED BY <1>3, <1>4, <1>5

LEMMA KeyInjective ==
  ASSUME SimpleProgram, NEW v \in EventView, NEW w \in EventView, NEW x, NEW y,
         HasRows(v, x), GetCacheKey(v, x) = GetCacheKey(w, y)
  PROVE  /\ LocalRefs[v] = LocalRefs[w]
         /\ \A r \in Refs(v) : Rows(r, x) = Rows(r, y)
<1>1. /\ DOMAIN LocalRefs[v] = DOMAIN GetCacheKey(v, x)
      /\ DOMAIN LocalRefs[w] = DOMAIN GetCacheKey(w, y)
  BY DEF GetCacheKey
<1>2. DOMAIN LocalRefs[v] = DOMAIN LocalRefs[w]
  BY <1>1
<1>3. ASSUME NEW i \in DOMAIN LocalRefs[v]
      PROVE  LocalRefs[v][i] = LocalRefs[w][i] /\ Rows(LocalRefs[v][i], x) = Rows(LocalRefs[w][i], y)
  <2>1. /\ GetCacheKey(v, x)[i] = MakeSubKey(LocalRefs[v][i], x)
        /\ GetCacheKey(w, y)[i] = MakeSubKey(LocalRefs[w][i], y)
    BY <1>2 DEF GetCacheKey
  <2>2. LocalRefs[v][i] \in Refs(v) /\ LocalRefs[w][i] \in Refs(w)
    BY <1>2 DEF Refs
  <2>3. LocalRefs[v][i] \in LocalRelation /\ LocalRefs[w][i] \in LocalRelation
    BY <2>2, RefsAreLocal
  <2>4. Rows(LocalRefs[v][i], x) # {}
    BY <2>2 DEF HasRows
  <2> QED BY <2>1, <2>3, <2>4, SubKeyInjective
<1>4. LocalRefs[v] \in Seq(LocalRelation) /\ LocalRefs[w] \in Seq(LocalRelation)
  BY CacheAssumption
<1>5. LocalRefs[v] = LocalRefs[w]
  <2>1. DOMAIN LocalRefs[v] = 1..Len(LocalRefs[v]) /\ DOMAIN LocalRefs[w] = 1..Len(LocalRefs[w])
    BY <1>4
  <2>2. Len(LocalRefs[v]) = Len(LocalRefs[w])
    <3>1. Len(LocalRefs[v]) \in Nat /\ Len(LocalRefs[w]) \in Nat
      BY <1>4
    <3>2. 1..Len(LocalRefs[v]) = 1..Len(LocalRefs[w])
      BY <1>2, <2>1
    <3> QED BY <3>1, <3>2, SameIndices
  <2> QED BY <1>2, <1>3, <1>4, <2>1, <2>2
<1> QED BY <1>3, <1>5 DEF Refs

\* The same rows of what a view reads are the same parameters and the same key.
LEMMA SameRows ==
  ASSUME NEW v \in EventView, NEW x, NEW y, \A r \in Refs(v) : Rows(r, x) = Rows(r, y)
  PROVE  /\ Parameters(v, x) = Parameters(v, y)
         /\ GetCacheKey(v, x) = GetCacheKey(v, y)
         /\ HasRows(v, x) <=> HasRows(v, y)
<1>1. \A i \in DOMAIN LocalRefs[v] : LocalRefs[v][i] \in Refs(v)
  BY DEF Refs
<1>2. \A i \in DOMAIN LocalRefs[v] : MakeSubKey(LocalRefs[v][i], x) = MakeSubKey(LocalRefs[v][i], y)
  BY <1>1 DEF MakeSubKey
<1> QED BY <1>2 DEF Parameters, GetCacheKey, HasRows

-----------------------------------------------------------------------------
(***************************************************************************)
(* What an event of the user changes.                                      *)
(***************************************************************************)
LEMMA RowIsPair ==
  ASSUME NEW row \in NewRows
  PROVE  <<row[1], row[2]>> \in NewRows
<1>1. NewRows \subseteq EventTable \X Value
  BY CacheAssumption
<1>2. row \in EventTable \X Value
  BY <1>1
<1>3. row = <<row[1], row[2]>>
  BY <1>2
<1> QED BY <1>3

LEMMA NewInputTimes ==
  ASSUME TypeOK, NEW e, NEW value, <<e, value>> \in NewRows, NewInput(e, value)
  PROVE  /\ timestep' = timestep + 1
         /\ DOMAIN at' = INIT_TIMESTEP..timestep'
         /\ \A t \in INIT_TIMESTEP..timestep : at'[t] = at[t]
         /\ at'[timestep'] = [at[timestep] EXCEPT ![e] = value]
         /\ e \in EventTable /\ value \in Value
BY CacheAssumption DEF TypeOK, NewInput, INIT_TIMESTEP

LEMMA NewInputCache ==
  ASSUME TypeOK, NEW e, NEW value, <<e, value>> \in NewRows, NewInput(e, value)
  PROVE  /\ DOMAIN cache \subseteq DOMAIN cache'
         /\ \A k \in DOMAIN cache : cache'[k] = cache[k]
         /\ \A k \in DOMAIN cache' \ DOMAIN cache :
              /\ cache'[k] = timestep'
              /\ \E v \in EventView : Depends(v, e) /\ k = GetCacheKey(v, at'[timestep'])
         /\ \A v \in EventView : Depends(v, e) => GetCacheKey(v, at'[timestep']) \in DOMAIN cache'
<1> DEFINE x == [at[timestep] EXCEPT ![e] = value]
<1>1. at'[timestep'] = x /\ timestep' = timestep + 1
  BY NewInputTimes
<1>2. cache' = [k \in DOMAIN cache \cup {GetCacheKey(v, x) : v \in {v \in EventView : Depends(v, e)}} |->
                  IF k \in DOMAIN cache THEN cache[k] ELSE timestep + 1]
  BY DEF NewInput, Apply
<1> HIDE DEF x
<1> QED BY <1>1, <1>2

LEMMA NewInputReference ==
  ASSUME Shape, TypeOK, NEW e, NEW value, <<e, value>> \in NewRows, NewInput(e, value),
         NEW v \in EventView
  PROVE  LET p == [request |-> timestep',
                   original |-> GetFromCacheOrMiss(v, at'[timestep'], timestep')]
         IN  reference'[v] = IF Depends(v, e) THEN reference[v] \cup {p} ELSE reference[v]
<1> DEFINE x == [at[timestep] EXCEPT ![e] = value]
<1>1. at'[timestep'] = x /\ timestep' = timestep + 1
  BY NewInputTimes
<1>2. reference' = [w \in EventView |->
        IF w \in {u \in EventView : Depends(u, e)}
        THEN reference[w] \cup {[request |-> timestep + 1,
                                 original |-> GetFromCacheOrMiss(w, x, timestep + 1)]}
        ELSE reference[w]]
  BY DEF NewInput, Apply
<1> HIDE DEF x
<1> QED BY <1>1, <1>2

\* The entry that an event makes in the queue of db.
EntryFor(db, e, x, t) ==
  LET over == {v \in EventView : Depends(v, e)}
  IN  Entry(db, over, t, Updates(db, Missed(over, x, t), e, x))

\* Is anything sent to db?
IsSent(db, e, x, t) == Sent(db, Missed({v \in EventView : Depends(v, e)}, x, t), e, x) # {}

LEMMA NewInputQueue ==
  ASSUME TypeOK, NEW e, NEW value, <<e, value>> \in NewRows, NewInput(e, value)
  PROVE  /\ queue' = [db \in Db |-> IF IsSent(db, e, at'[timestep'], timestep')
                                    THEN Append(queue[db], EntryFor(db, e, at'[timestep'], timestep'))
                                    ELSE queue[db]]
         /\ copy' = [db \in Db |-> IF IsSent(db, e, at'[timestep'], timestep') /\ queue[db] = <<>>
                                   THEN Update(copy[db], EntryFor(db, e, at'[timestep'], timestep').updates)
                                   ELSE copy[db]]
<1> DEFINE x    == [at[timestep] EXCEPT ![e] = value]
           t    == timestep + 1
           over == {v \in EventView : Depends(v, e)}
           sent == {db \in Db : Sent(db, Missed(over, x, t), e, x) # {}}
<1>1. at'[timestep'] = x /\ timestep' = t
  BY NewInputTimes
<1>2. /\ queue' = [db \in Db |->
                   IF db \in sent
                   THEN Append(queue[db], Entry(db, over, t, Updates(db, Missed(over, x, t), e, x)))
                   ELSE queue[db]]
      /\ copy' = [db \in Db |->
                   IF db \in sent /\ queue[db] = <<>>
                   THEN Update(copy[db], Updates(db, Missed(over, x, t), e, x))
                   ELSE copy[db]]
  BY DEF NewInput, Apply
<1>3. \A db \in Db : db \in sent <=> IsSent(db, e, x, t)
  BY DEF IsSent
<1>4. \A db \in Db : /\ EntryFor(db, e, x, t) = Entry(db, over, t, Updates(db, Missed(over, x, t), e, x))
                     /\ EntryFor(db, e, x, t).updates = Updates(db, Missed(over, x, t), e, x)
  BY DEF EntryFor, Entry
<1> HIDE DEF x, t, over, sent
<1> QED BY <1>1, <1>2, <1>3, <1>4

\* The queue of a database keeps its entries and gets at most this one.
LEMMA NewInputEntries ==
  ASSUME TypeOK, Shape, NEW e, NEW value, <<e, value>> \in NewRows, NewInput(e, value),
         NEW db \in Db, NEW i \in DOMAIN queue'[db]
  PROVE  \/ i \in DOMAIN queue[db] /\ queue'[db][i] = queue[db][i]
         \/ /\ i = Len(queue[db]) + 1 /\ i \notin DOMAIN queue[db]
            /\ queue'[db][i] = EntryFor(db, e, at'[timestep'], timestep')
            /\ queue'[db][i].timestep = timestep'
            /\ queue'[db][i].views \subseteq {v \in EventView : DbOf[v] = db}
            /\ IsSent(db, e, at'[timestep'], timestep')
<1>1. PICK S : queue \in [Db -> Seq(S)]
  BY DEF Shape
<1>2. PICK new : new = EntryFor(db, e, at'[timestep'], timestep')
  OBVIOUS
<1>3. queue'[db] = IF IsSent(db, e, at'[timestep'], timestep') THEN Append(queue[db], new) ELSE queue[db]
  BY <1>2, NewInputQueue
<1>4. new.timestep = timestep' /\ new.views \subseteq {v \in EventView : DbOf[v] = db}
  BY <1>2 DEF EntryFor, Entry
<1>5. queue[db] \in Seq(S)
  BY <1>1
<1>6. CASE ~IsSent(db, e, at'[timestep'], timestep')
  BY <1>3, <1>6
<1>7. CASE IsSent(db, e, at'[timestep'], timestep')
  <2>1. queue'[db] = Append(queue[db], new)
    BY <1>3, <1>7
  <2>2. \A n \in DOMAIN Append(queue[db], new) :
          \/ n \in DOMAIN queue[db] /\ Append(queue[db], new)[n] = queue[db][n]
          \/ n = Len(queue[db]) + 1 /\ n \notin DOMAIN queue[db] /\ Append(queue[db], new)[n] = new
    BY <1>5, AppendAt
  <2> QED BY <1>2, <1>4, <1>7, <2>1, <2>2
<1> QED BY <1>6, <1>7

\* The queues stay sequences.
LEMMA NewInputShape ==
  ASSUME TypeOK, Shape, NEW e, NEW value, <<e, value>> \in NewRows, NewInput(e, value)
  PROVE  Shape'
<1>1. PICK S : queue \in [Db -> Seq(S)]
  BY DEF Shape
<1> DEFINE new(db) == EntryFor(db, e, at'[timestep'], timestep')
           T == S \cup {new(db) : db \in Db}
<1>2. ASSUME NEW db \in Db PROVE queue'[db] \in Seq(T)
  <2>1. queue[db] \in Seq(T) /\ new(db) \in T
    <3>1. queue[db] \in Seq(S) /\ S \subseteq T /\ new(db) \in T
      BY <1>1
    <3> HIDE DEF T, new
    <3> QED BY <3>1
  <2>2. queue'[db] = IF IsSent(db, e, at'[timestep'], timestep') THEN Append(queue[db], new(db)) ELSE queue[db]
    BY NewInputQueue
  <2> HIDE DEF T, new
  <2> QED BY <2>1, <2>2
<1>3. DOMAIN queue' = Db /\ queue' = [db \in Db |-> queue'[db]]
  BY NewInputQueue
<1>4. \E U : queue' \in [Db -> Seq(U)]
  <2> HIDE DEF T
  <2> QED BY <1>2, <1>3
<1> QED BY <1>4 DEF Shape, NewInput, Apply

-----------------------------------------------------------------------------
(***************************************************************************)
(* Types.                                                                  *)
(***************************************************************************)
LEMMA TypeInit == Init => TypeOK /\ Shape
<1> SUFFICES ASSUME Init PROVE TypeOK /\ Shape
  OBVIOUS
<1>1. \A db \in Db : queue[db] = <<>> /\ queue[db] \in Seq({}) /\ DOMAIN queue[db] = {}
  BY DEF Init
<1>2. queue \in [Db -> Seq({})]
  BY <1>1 DEF Init
<1>3. Shape
  BY <1>2 DEF Init, Shape
<1>4. TypeOK
  BY <1>1, CacheAssumption DEF Init, TypeOK, INIT_TIMESTEP
<1> QED BY <1>3, <1>4

LEMMA TypeNext == TypeOK /\ Shape /\ [Next]_vars => (TypeOK /\ Shape)'
<1> SUFFICES ASSUME TypeOK, Shape, [Next]_vars PROVE (TypeOK /\ Shape)'
  OBVIOUS
<1>1. ASSUME NEW e, NEW value, <<e, value>> \in NewRows, NewInput(e, value)
      PROVE  (TypeOK /\ Shape)'
  <2>1. /\ timestep' \in Nat /\ INIT_TIMESTEP <= timestep' /\ DOMAIN at' = INIT_TIMESTEP..timestep'
        /\ \A t \in DOMAIN at' : at'[t] \in [EventTable -> Value \cup {NoValue}]
    <3>1. /\ timestep' = timestep + 1 /\ timestep \in Nat
          /\ DOMAIN at' = INIT_TIMESTEP..timestep'
          /\ \A t \in INIT_TIMESTEP..timestep : at'[t] = at[t]
          /\ at'[timestep'] = [at[timestep] EXCEPT ![e] = value]
          /\ e \in EventTable /\ value \in Value
      BY <1>1, NewInputTimes DEF TypeOK
    <3>2. ASSUME NEW t \in DOMAIN at' PROVE at'[t] \in [EventTable -> Value \cup {NoValue}]
      <4>1. CASE t \in INIT_TIMESTEP..timestep
        BY <3>1, <4>1 DEF TypeOK
      <4>2. CASE t = timestep'
        <5>2. timestep \in DOMAIN at
          BY DEF TypeOK, INIT_TIMESTEP
        <5>3. at[timestep] \in [EventTable -> Value \cup {NoValue}]
          BY <5>2 DEF TypeOK
        <5> QED BY <3>1, <4>2, <5>3
      <4> QED BY <3>1, <4>1, <4>2 DEF INIT_TIMESTEP
    <3>3. INIT_TIMESTEP <= timestep'
      BY <3>1 DEF TypeOK, INIT_TIMESTEP
    <3> QED BY <3>1, <3>2, <3>3
  <2>2. \A k \in DOMAIN cache' : cache'[k] \in INIT_TIMESTEP..timestep'
    <3>1. timestep' = timestep + 1 /\ timestep \in Nat
      BY <1>1, NewInputTimes DEF TypeOK
    <3>2. \A k \in DOMAIN cache' : cache'[k] = timestep' \/ (k \in DOMAIN cache /\ cache'[k] = cache[k])
      BY <1>1, NewInputCache
    <3> QED BY <3>1, <3>2 DEF TypeOK, INIT_TIMESTEP
  <2>3. ASSUME NEW v \in EventView, NEW p \in reference'[v]
        PROVE  p.original \in INIT_TIMESTEP..p.request /\ p.request \in INIT_TIMESTEP..timestep'
    <3> DEFINE o == GetFromCacheOrMiss(v, at'[timestep'], timestep')
    <3>1. timestep' = timestep + 1 /\ timestep \in Nat
      BY <1>1, NewInputTimes DEF TypeOK
    <3>2. o \in INIT_TIMESTEP..timestep'
      BY <3>1 DEF GetFromCacheOrMiss, TypeOK, INIT_TIMESTEP
    <3>3. p \in reference[v] \/ p = [request |-> timestep', original |-> o]
      BY <1>1, <2>3, NewInputReference
    <3> HIDE DEF o
    <3> QED BY <3>1, <3>2, <3>3 DEF TypeOK, INIT_TIMESTEP
  <2>4. \A v \in EventView : \A a \in cacheTable'[v] :
           a.original \in INIT_TIMESTEP..(a.timestep - 1) /\ a.timestep \in INIT_TIMESTEP..timestep'
    <3>1. cacheTable' = cacheTable /\ timestep' = timestep + 1 /\ timestep \in Nat
      BY <1>1, NewInputTimes DEF NewInput, TypeOK
    <3> QED BY <3>1 DEF TypeOK, INIT_TIMESTEP
  <2>5. /\ \A a \in inFlight' : a.view \in EventView /\ a.original \in INIT_TIMESTEP..timestep'
        /\ bound' \subseteq EventView
    <3>1. inFlight' = inFlight /\ bound' = bound /\ timestep' = timestep + 1 /\ timestep \in Nat
      BY <1>1, NewInputTimes DEF NewInput, TypeOK
    <3> QED BY <3>1 DEF TypeOK, INIT_TIMESTEP
  <2>6. Shape'
    BY <1>1, NewInputShape
  <2>7. ASSUME NEW db \in Db, NEW i \in DOMAIN queue'[db]
        PROVE  /\ queue'[db][i].timestep \in INIT_TIMESTEP..timestep'
               /\ queue'[db][i].views \subseteq {v \in EventView : DbOf[v] = db}
    <3>1. timestep' = timestep + 1 /\ timestep \in Nat
      BY <1>1, NewInputTimes DEF TypeOK
    <3>2. CASE i \in DOMAIN queue[db] /\ queue'[db][i] = queue[db][i]
      BY <3>1, <3>2 DEF TypeOK, INIT_TIMESTEP
    <3>3. CASE /\ queue'[db][i].timestep = timestep'
               /\ queue'[db][i].views \subseteq {v \in EventView : DbOf[v] = db}
      BY <3>1, <3>3 DEF TypeOK, INIT_TIMESTEP
    <3> QED BY <1>1, <3>2, <3>3, NewInputEntries
  <2> QED BY <2>1, <2>2, <2>3, <2>4, <2>5, <2>6, <2>7 DEF TypeOK
<1>2. ASSUME NEW a \in inFlight, ReceiveAnswer(a) PROVE (TypeOK /\ Shape)'
  <2>1. a.view \in EventView /\ a.original \in INIT_TIMESTEP..timestep /\ timestep \in Nat
    BY DEF TypeOK
  <2>2. /\ timestep' = timestep + 1 /\ inFlight' \subseteq inFlight
        /\ cache' = cache /\ reference' = reference /\ queue' = queue /\ bound' = bound
    BY <1>2 DEF ReceiveAnswer
  <2>3. \A v \in EventView : \A b \in cacheTable'[v] :
           b \in cacheTable[v] \/ (b.original = a.original /\ b.timestep = timestep + 1)
    BY <1>2, <2>1 DEF ReceiveAnswer, Shape
  <2>4. \A v \in EventView : \A b \in cacheTable'[v] :
           b.original \in INIT_TIMESTEP..(b.timestep - 1) /\ b.timestep \in INIT_TIMESTEP..timestep'
    BY <2>1, <2>2, <2>3 DEF TypeOK, INIT_TIMESTEP
  <2>5. DOMAIN at' = INIT_TIMESTEP..timestep' /\ \A t \in DOMAIN at' : at'[t] \in [EventTable -> Value \cup {NoValue}]
    BY <1>2 DEF ReceiveAnswer, TypeOK, INIT_TIMESTEP
  <2>6. Shape'
    BY <1>2 DEF ReceiveAnswer, Shape
  <2> QED BY <2>1, <2>2, <2>4, <2>5, <2>6 DEF TypeOK, INIT_TIMESTEP
<1>3. ASSUME NEW a \in inFlight, FailAnswer(a) \/ DropAnswer(a) PROVE (TypeOK /\ Shape)'
  BY <1>3 DEF FailAnswer, DropAnswer, TypeOK, Shape
<1>4. ASSUME NEW v \in EventView, BindOutput(v) PROVE (TypeOK /\ Shape)'
  <2>1. \A a \in inFlight' : a \in inFlight \/ (a.view = v /\ a.original = timestep)
    BY <1>4 DEF BindOutput, Answer
  <2>2. timestep \in INIT_TIMESTEP..timestep
    BY TypeOK DEF TypeOK, INIT_TIMESTEP
  <2>3. \A a \in inFlight' : a.view \in EventView /\ a.original \in INIT_TIMESTEP..timestep
    BY <2>1, <2>2 DEF TypeOK
  <2> QED BY <1>4, <2>3 DEF BindOutput, TypeOK, Shape
<1>7. ASSUME NEW db \in Db, EvaluateQueue(db) PROVE (TypeOK /\ Shape)'
  <2>1. PICK S : queue \in [Db -> Seq(S)]
    BY DEF Shape
  <2>2. /\ UNCHANGED <<timestep, at, lastEvent, cache, reference, cacheTable, bound, shown>>
        /\ queue[db] # <<>> /\ queue' = [queue EXCEPT ![db] = Tail(queue[db])]
        /\ DOMAIN copy' = DOMAIN copy
    BY <1>7 DEF EvaluateQueue, NextQueue
  <2>3. queue[db] \in Seq(S)
    BY <2>1
  <2>4. /\ Tail(queue[db]) \in Seq(S)
        /\ \A i \in DOMAIN Tail(queue[db]) :
             i + 1 \in DOMAIN queue[db] /\ Tail(queue[db])[i] = queue[db][i + 1]
    BY <2>2, <2>3, TailAt
  <2>5. queue' \in [Db -> Seq(S)]
    BY <2>1, <2>2, <2>4
  <2>6. Shape'
    BY <2>2, <2>5 DEF Shape
  <2>7. ASSUME NEW d \in Db, NEW i \in DOMAIN queue'[d]
        PROVE  /\ queue'[d][i].timestep \in INIT_TIMESTEP..timestep'
               /\ queue'[d][i].views \subseteq {v \in EventView : DbOf[v] = d}
    <3>1. CASE d = db
      <4>1. i + 1 \in DOMAIN queue[db] /\ queue'[db][i] = queue[db][i + 1] /\ i \in DOMAIN Tail(queue[db])
        BY <2>1, <2>2, <2>4, <3>1
      <4> QED BY <2>2, <3>1, <4>1 DEF TypeOK
    <3>2. CASE d # db
      <4>1. queue'[d] = queue[d]
        BY <2>1, <2>2, <3>2
      <4> QED BY <2>2, <4>1 DEF TypeOK
    <3> QED BY <3>1, <3>2
  <2>8. Head(queue[db]) = queue[db][1] /\ 1 \in DOMAIN queue[db]
    BY <2>2, <2>3, TailAt
  <2>9. \A a \in inFlight' : \/ a \in inFlight
                             \/ a.original = Head(queue[db]).timestep /\ a.view \in Head(queue[db]).views
    BY <1>7 DEF EvaluateQueue, Answers, Answer
  <2>10. \A a \in inFlight' : a.view \in EventView /\ a.original \in INIT_TIMESTEP..timestep
    BY <2>8, <2>9 DEF TypeOK
  <2> QED BY <2>2, <2>6, <2>7, <2>10 DEF TypeOK
<1>5. CASE UNCHANGED vars
  BY <1>5 DEF vars, TypeOK, Shape
<1>6. ASSUME NEW row \in NewRows, NewInput(row[1], row[2]) PROVE (TypeOK /\ Shape)'
  <2>1. <<row[1], row[2]>> \in NewRows
    BY RowIsPair
  <2> QED BY <1>1, <1>6, <2>1
<1> QED BY <1>2, <1>3, <1>4, <1>5, <1>6, <1>7 DEF Next

(***************************************************************************)
(* Timesteps in the cache, the references, the cache tables and the        *)
(* requests on their way only name what has happened.                      *)
(***************************************************************************)
THEOREM TypeCorrect == Spec => []TypeOK
<1>1. Init => TypeOK /\ Shape
  BY TypeInit
<1>2. TypeOK /\ Shape /\ [Next]_vars => (TypeOK /\ Shape)'
  BY TypeNext
<1> QED BY <1>1, <1>2, PTL DEF Spec

-----------------------------------------------------------------------------
(***************************************************************************)
(* The invariant behind AnswersRight, for simple programs.                 *)
(***************************************************************************)
\* Every key was made by an event view with the rows of the request.
CacheInv ==
  \A k \in DOMAIN cache : \E w \in EventView : k = GetCacheKey(w, at[cache[k]])

\* A view with the key of a request, and rows to send, made that request itself.
OwnInv ==
  \A k \in DOMAIN cache : \A v \in EventView :
    GetCacheKey(v, at[cache[k]]) = k /\ HasRows(v, at[cache[k]]) =>
      \E p \in reference[v] : p.original = cache[k] /\ p.request = cache[k]

\* A request is shared by timesteps with the same rows.
RefInv ==
  \A v \in EventView : \A p \in reference[v] :
    HasRows(v, at[p.request]) =>
      \A r \in Refs(v) : Rows(r, at[p.request]) = Rows(r, at[p.original])

\* What came, or is on its way, for a request with rows is right.
AnswerInv ==
  \A v \in EventView : \A p \in reference[v] :
    HasRows(v, at[p.request]) =>
      /\ \A a \in cacheTable[v] : ~a.static /\ a.original = p.original =>
           a.content = Parameters(v, at[p.original])
      /\ \A a \in inFlight : ~a.static /\ a.view = v /\ a.original = p.original =>
           a.content = Parameters(v, at[p.original])

\* The updates are of all that v reads, as of x.
Carries(updates, v, x) == \A r \in Refs(v) : r \in DOMAIN updates /\ updates[r] = Rows(r, x)

(***************************************************************************)
(* The entry for a request with rows has all that its event view reads; if *)
(* it is the first, the database holds it.                                 *)
(***************************************************************************)
QueueInv ==
  \A v \in EventView : \A p \in reference[v] : \A i \in DOMAIN queue[DbOf[v]] :
    HasRows(v, at[p.request]) /\ queue[DbOf[v]][i].timestep = p.original =>
      /\ Carries(queue[DbOf[v]][i].updates, v, at[p.original])
      /\ i = 1 => Evaluate(v, copy[DbOf[v]]) = Parameters(v, at[p.original])

AnswersInv == CacheInv /\ OwnInv /\ RefInv /\ AnswerInv /\ QueueInv

LEMMA CarriedIsEvaluated ==
  ASSUME NEW v \in EventView, NEW updates, NEW x, NEW held, Carries(updates, v, x)
  PROVE  Evaluate(v, Update(held, updates)) = Parameters(v, x)
<1>1. \A r \in Refs(v) : r \in LocalRelation
  BY RefsAreLocal
<1>2. \A r \in Refs(v) : Update(held, updates)[r] = Rows(r, x)
  BY <1>1 DEF Carries, Update
<1> QED BY <1>2 DEF Evaluate, Parameters

\* Sharing a request at a timestep: what a view's key was made from.
LEMMA SharedKey ==
  ASSUME SimpleProgram, CacheInv, NEW v \in EventView, NEW x, HasRows(v, x),
         NEW k \in DOMAIN cache, k = GetCacheKey(v, x)
  PROVE  /\ \A r \in Refs(v) : Rows(r, x) = Rows(r, at[cache[k]])
         /\ k = GetCacheKey(v, at[cache[k]])
         /\ HasRows(v, at[cache[k]])
<1>1. PICK w \in EventView : k = GetCacheKey(w, at[cache[k]])
  BY DEF CacheInv
<1>2. \A r \in Refs(v) : Rows(r, x) = Rows(r, at[cache[k]])
  BY <1>1, KeyInjective
<1> QED BY <1>2, SameRows

LEMMA AnswersInit == Init => AnswersInv
BY DEF Init, AnswersInv, CacheInv, OwnInv, RefInv, AnswerInv, QueueInv

(***************************************************************************)
(* What an event view that missed reads is sent whole, as it has rows and  *)
(* changes with the same events.                                           *)
(***************************************************************************)
LEMMA MissedIsSent ==
  ASSUME SimpleProgram, NEW e, NEW x, NEW t, NEW v \in EventView, Depends(v, e), HasRows(v, x),
         GetFromCacheOrMiss(v, x, t) = t
  PROVE  /\ Carries(EntryFor(DbOf[v], e, x, t).updates, v, x)
         /\ IsSent(DbOf[v], e, x, t)
<1> DEFINE missed == Missed({w \in EventView : Depends(w, e)}, x, t)
           db     == DbOf[v]
<1>1. v \in missed
  BY DEF Missed
<1>2. PICK s \in Refs(v) : e \in EventsOf[s]
  BY DEF Depends
<1>3. ASSUME NEW r \in Refs(v) PROVE r \in Sent(db, missed, e, x)
  <2>1. EventsOf[r] = EventsOf[s]
    BY <1>2 DEF SimpleProgram
  <2>2. Rows(r, x) # {}
    BY DEF HasRows
  <2> HIDE DEF missed
  <2> QED BY <1>1, <1>2, <2>1, <2>2 DEF Sent
<1>4. EntryFor(db, e, x, t).updates = [r \in Sent(db, missed, e, x) |-> Rows(r, x)]
  BY DEF EntryFor, Entry, Updates
<1>5. Carries(EntryFor(db, e, x, t).updates, v, x)
  <2> HIDE DEF missed
  <2> QED BY <1>3, <1>4 DEF Carries
<1>6. IsSent(db, e, x, t)
  <2>1. Sent(db, missed, e, x) # {}
    BY <1>2, <1>3
  <2> QED BY <2>1 DEF IsSent
<1> QED BY <1>5, <1>6

LEMMA AnswersNewInput ==
  ASSUME SimpleProgram, AnswersInv, TypeOK, Shape,
         NEW e, NEW value, <<e, value>> \in NewRows, NewInput(e, value)
  PROVE  AnswersInv'
<1> DEFINE x    == at'[timestep']
           t    == timestep'
           O(v) == GetFromCacheOrMiss(v, x, t)
<1>1. /\ t = timestep + 1 /\ timestep \in Nat /\ INIT_TIMESTEP <= timestep /\ e \in EventTable
      /\ \A u \in INIT_TIMESTEP..timestep : at'[u] = at[u]
  BY NewInputTimes DEF TypeOK
<1>2. /\ \A k \in DOMAIN cache : k \in DOMAIN cache' /\ cache'[k] = cache[k] /\ at'[cache[k]] = at[cache[k]]
      /\ \A k \in DOMAIN cache' \ DOMAIN cache :
           cache'[k] = t /\ \E v \in EventView : Depends(v, e) /\ k = GetCacheKey(v, x)
      /\ \A v \in EventView : Depends(v, e) => GetCacheKey(v, x) \in DOMAIN cache'
  BY <1>1, NewInputCache DEF TypeOK
<1>3. ASSUME NEW v \in EventView
      PROVE  /\ reference[v] \subseteq reference'[v]
             /\ \A p \in reference'[v] :
                  p \in reference[v] \/ (Depends(v, e) /\ p.request = t /\ p.original = O(v))
             /\ Depends(v, e) => \E p \in reference'[v] : p.request = t /\ p.original = O(v)
  <2>1. PICK o : o = O(v)
    OBVIOUS
  <2>2. reference'[v] = IF Depends(v, e) THEN reference[v] \cup {[request |-> timestep', original |-> o]}
                                         ELSE reference[v]
    BY <2>1, NewInputReference
  <2>3. [request |-> timestep', original |-> o].request = timestep' /\ [request |-> timestep', original |-> o].original = o
    OBVIOUS
  <2> HIDE DEF O
  <2> QED BY <2>1, <2>2, <2>3
<1>4. \A v \in EventView : \A p \in reference[v] :
        /\ p.original \in INIT_TIMESTEP..timestep /\ p.request \in INIT_TIMESTEP..timestep
        /\ at'[p.original] = at[p.original] /\ at'[p.request] = at[p.request]
  BY <1>1 DEF TypeOK, INIT_TIMESTEP
<1>5. ASSUME NEW v \in EventView
      PROVE  O(v) = t \/ (GetCacheKey(v, x) \in DOMAIN cache /\ O(v) = cache[GetCacheKey(v, x)])
  BY DEF GetFromCacheOrMiss
<1>6. ASSUME NEW v \in EventView, Depends(v, e), HasRows(v, x), O(v) = t
      PROVE  Carries(EntryFor(DbOf[v], e, x, t).updates, v, x) /\ IsSent(DbOf[v], e, x, t)
  BY <1>6, MissedIsSent
<1>7. inFlight' = inFlight /\ cacheTable' = cacheTable
  BY DEF NewInput
<1>8. ASSUME NEW db \in Db
      PROVE  copy'[db] = IF IsSent(db, e, x, t) /\ queue[db] = <<>>
                         THEN Update(copy[db], EntryFor(db, e, x, t).updates)
                         ELSE copy[db]
  BY NewInputQueue
<1>9. ASSUME NEW db \in Db, NEW i \in DOMAIN queue'[db]
      PROVE  \/ i \in DOMAIN queue[db] /\ queue'[db][i] = queue[db][i]
             \/ /\ i = Len(queue[db]) + 1 /\ i \notin DOMAIN queue[db]
                /\ queue'[db][i] = EntryFor(db, e, x, t)
                /\ queue'[db][i].timestep = t
                /\ IsSent(db, e, x, t)
  BY NewInputEntries
<1> HIDE DEF x, t, O
<1>10. CacheInv'
  <2> SUFFICES ASSUME NEW k \in DOMAIN cache'
               PROVE  \E w \in EventView : k = GetCacheKey(w, at'[cache'[k]])
    BY DEF CacheInv, GetCacheKey, MakeSubKey, Rows
  <2>1. CASE k \in DOMAIN cache
    BY <1>2, <2>1 DEF AnswersInv, CacheInv
  <2>2. CASE k \notin DOMAIN cache
    BY <1>2, <2>2 DEF x, t
  <2> QED BY <2>1, <2>2
<1>11. OwnInv'
  <2> SUFFICES ASSUME NEW k \in DOMAIN cache', NEW v \in EventView, GetCacheKey(v, at'[cache'[k]]) = k,
                      HasRows(v, at'[cache'[k]])
               PROVE  \E p \in reference'[v] : p.original = cache'[k] /\ p.request = cache'[k]
    BY DEF OwnInv, GetCacheKey, MakeSubKey, HasRows, Rows
  <2>1. CASE k \in DOMAIN cache
    <3>1. PICK p \in reference[v] : p.original = cache[k] /\ p.request = cache[k]
      BY <1>2, <2>1 DEF AnswersInv, OwnInv
    <3> QED BY <1>2, <1>3, <2>1, <3>1
  <2>2. CASE k \notin DOMAIN cache
    <3>1. cache'[k] = t
      BY <1>2, <2>2
    <3>2. PICK w \in EventView : Depends(w, e) /\ k = GetCacheKey(w, x)
      BY <1>2, <2>2
    <3>3. GetCacheKey(v, x) = GetCacheKey(w, x) /\ HasRows(v, x)
      BY <3>1, <3>2 DEF x, t
    <3>4. LocalRefs[v] = LocalRefs[w]
      BY <3>3, KeyInjective
    <3>5. Depends(v, e)
      BY <3>2, <3>4 DEF Depends, Refs
    <3>6. O(v) = t
      BY <1>5, <2>2, <3>2, <3>3
    <3> QED BY <1>3, <3>1, <3>5, <3>6
  <2> QED BY <2>1, <2>2
\* Where a new reference points to.
<1>12. ASSUME NEW v \in EventView, NEW p \in reference'[v], p \notin reference[v], HasRows(v, at'[p.request])
       PROVE  /\ \A r \in Refs(v) : Rows(r, at'[p.request]) = Rows(r, at'[p.original])
              /\ \/ p.original = t /\ O(v) = t /\ Depends(v, e) /\ HasRows(v, x)
                 \/ /\ at'[p.original] = at[p.original] /\ p.original \in INIT_TIMESTEP..timestep
                    /\ \E q \in reference[v] : q.original = p.original /\ HasRows(v, at[q.request])
  <2>1. p.request = t /\ p.original = O(v) /\ Depends(v, e)
    BY <1>3, <1>12
  <2>2. HasRows(v, x) /\ at'[p.request] = x
    BY <1>12, <2>1 DEF x, t
  <2>3. CASE O(v) = t
    BY <2>1, <2>2, <2>3 DEF x, t
  <2>4. CASE GetCacheKey(v, x) \in DOMAIN cache /\ O(v) = cache[GetCacheKey(v, x)]
    <3>1. PICK k \in DOMAIN cache : k = GetCacheKey(v, x) /\ O(v) = cache[k]
      BY <2>4
    <3>2. /\ \A r \in Refs(v) : Rows(r, x) = Rows(r, at[cache[k]])
          /\ k = GetCacheKey(v, at[cache[k]]) /\ HasRows(v, at[cache[k]])
      BY <2>2, <3>1, SharedKey DEF AnswersInv
    <3>3. at'[cache[k]] = at[cache[k]]
      BY <1>2
    <3>4. PICK q \in reference[v] : q.original = cache[k] /\ q.request = cache[k]
      BY <3>2 DEF AnswersInv, OwnInv
    <3>5. cache[k] \in INIT_TIMESTEP..timestep
      BY DEF TypeOK
    <3> QED BY <2>1, <2>2, <3>1, <3>2, <3>3, <3>4, <3>5
  <2> QED BY <1>5, <2>3, <2>4
<1>13. RefInv'
  <2> SUFFICES ASSUME NEW v \in EventView, NEW p \in reference'[v], HasRows(v, at'[p.request])
               PROVE  \A r \in Refs(v) : Rows(r, at'[p.request]) = Rows(r, at'[p.original])
    BY DEF RefInv, HasRows, Rows
  <2>1. CASE p \in reference[v]
    BY <1>4, <2>1 DEF AnswersInv, RefInv
  <2> QED BY <1>12, <2>1
<1>14. AnswerInv'
  <2> SUFFICES ASSUME NEW v \in EventView, NEW p \in reference'[v], HasRows(v, at'[p.request])
               PROVE  /\ \A a \in cacheTable[v] : ~a.static /\ a.original = p.original =>
                           a.content = Parameters(v, at'[p.original])
                      /\ \A a \in inFlight : ~a.static /\ a.view = v /\ a.original = p.original =>
                           a.content = Parameters(v, at'[p.original])
    BY <1>7 DEF AnswerInv, Parameters, HasRows, Rows
  <2>1. CASE p.original = t
    <3>1. \A a \in cacheTable[v] : a.original # t
      BY <1>1 DEF TypeOK, INIT_TIMESTEP
    <3>2. \A a \in inFlight : a.original # t
      BY <1>1 DEF TypeOK, INIT_TIMESTEP
    <3> QED BY <2>1, <3>1, <3>2
  <2>2. CASE \E q \in reference[v] : q.original = p.original /\ HasRows(v, at[q.request])
                                   /\ at'[p.original] = at[p.original]
    BY <2>2 DEF AnswersInv, AnswerInv
  <2>3. CASE p \in reference[v]
    BY <1>4, <2>2, <2>3
  <2> QED BY <1>12, <2>1, <2>2, <2>3
<1>15. QueueInv'
  <2> SUFFICES ASSUME NEW v \in EventView, NEW p \in reference'[v], HasRows(v, at'[p.request]),
                      NEW i \in DOMAIN queue'[DbOf[v]], queue'[DbOf[v]][i].timestep = p.original
               PROVE  /\ Carries(queue'[DbOf[v]][i].updates, v, at'[p.original])
                      /\ i = 1 => Evaluate(v, copy'[DbOf[v]]) = Parameters(v, at'[p.original])
    BY DEF QueueInv, Carries, Evaluate, Parameters, HasRows, Rows
  <2> DEFINE db == DbOf[v]
  <2>1. db \in Db
    BY DEF Db
  <2>2. PICK S : queue[db] \in Seq(S)
    BY <2>1 DEF Shape
  <2>3. CASE i \in DOMAIN queue[db] /\ queue'[db][i] = queue[db][i]
    <3>1. p.original \in INIT_TIMESTEP..timestep
      BY <2>1, <2>3 DEF TypeOK
    <3>2. PICK q \in reference[v] : q.original = p.original /\ HasRows(v, at[q.request])
                                   /\ at'[p.original] = at[p.original]
      <4>1. p.original # t
        BY <1>1, <3>1 DEF INIT_TIMESTEP
      <4>2. CASE p \in reference[v]
        BY <1>4, <4>2
      <4> QED BY <1>12, <4>1, <4>2
    <3>3. queue[db] # <<>>
      BY <2>2, <2>3
    <3>4. copy'[db] = copy[db]
      BY <1>8, <2>1, <3>3
    <3>5. /\ Carries(queue[db][i].updates, v, at[q.original])
          /\ i = 1 => Evaluate(v, copy[db]) = Parameters(v, at[q.original])
      BY <2>3, <3>2 DEF AnswersInv, QueueInv
    <3> QED BY <2>3, <3>2, <3>4, <3>5
  <2>4. CASE /\ i = Len(queue[db]) + 1 /\ queue'[db][i] = EntryFor(db, e, x, t)
             /\ queue'[db][i].timestep = t /\ IsSent(db, e, x, t)
    <3>1. p.original = t
      BY <2>4
    <3>2. O(v) = t /\ Depends(v, e) /\ HasRows(v, x)
      <4>1. p \notin reference[v]
        BY <1>1, <1>4, <3>1 DEF INIT_TIMESTEP
      <4>2. t \notin INIT_TIMESTEP..timestep
        BY <1>1 DEF INIT_TIMESTEP
      <4> QED BY <1>12, <3>1, <4>1, <4>2
    <3>3. Carries(EntryFor(db, e, x, t).updates, v, x)
      BY <1>6, <3>2
    <3>4. at'[p.original] = x
      BY <3>1 DEF x, t
    <3>5. ASSUME i = 1 PROVE Evaluate(v, copy'[db]) = Parameters(v, x)
      <4>1. queue[db] = <<>>
        BY <2>2, <2>4, <3>5
      <4>2. copy'[db] = Update(copy[db], EntryFor(db, e, x, t).updates)
        BY <1>8, <2>1, <2>4, <4>1
      <4> QED BY <3>3, <4>2, CarriedIsEvaluated
    <3> QED BY <2>4, <3>3, <3>4, <3>5
  <2> QED BY <1>9, <2>1, <2>3, <2>4
<1> QED BY <1>10, <1>11, <1>13, <1>14, <1>15 DEF AnswersInv

LEMMA AnswersEvaluate ==
  ASSUME AnswersInv, TypeOK, Shape, NEW db \in Db, EvaluateQueue(db)
  PROVE  AnswersInv'
<1>1. PICK S : queue \in [Db -> Seq(S)]
  BY DEF Shape
<1>2. /\ UNCHANGED <<timestep, at, cache, reference, cacheTable>>
      /\ queue[db] # <<>> /\ queue' = [queue EXCEPT ![db] = Tail(queue[db])]
      /\ inFlight' = inFlight \cup Answers(Head(queue[db]), copy[db])
  BY DEF EvaluateQueue, NextQueue
<1>3. queue[db] \in Seq(S)
  BY <1>1
<1>4. /\ 1 \in DOMAIN queue[db] /\ Head(queue[db]) = queue[db][1]
      /\ \A i \in DOMAIN Tail(queue[db]) :
           /\ i \in Nat /\ i + 1 \in DOMAIN queue[db] /\ Tail(queue[db])[i] = queue[db][i + 1]
           /\ Tail(queue[db]) # <<>> /\ Head(Tail(queue[db])) = Tail(queue[db])[1]
  BY <1>2, <1>3, TailAt
<1>5. /\ queue'[db] = Tail(queue[db])
      /\ \A d \in Db : d # db => queue'[d] = queue[d] /\ copy'[d] = copy[d]
      /\ Tail(queue[db]) # <<>> => copy'[db] = Update(copy[db], Head(Tail(queue[db])).updates)
  <2>1. copy' = [copy EXCEPT ![db] = IF Tail(queue[db]) = <<>> THEN @
                                     ELSE Update(@, Head(Tail(queue[db])).updates)]
    BY DEF EvaluateQueue, NextQueue
  <2> QED BY <1>1, <1>2, <2>1 DEF Shape
<1>6. CacheInv' /\ OwnInv' /\ RefInv'
  BY <1>2 DEF AnswersInv, CacheInv, OwnInv, RefInv
<1>7. AnswerInv'
  <2> SUFFICES ASSUME NEW v \in EventView, NEW p \in reference[v], HasRows(v, at[p.request]),
                      NEW a \in inFlight', a.view = v, a.original = p.original
               PROVE  a \in inFlight \/ a.content = Parameters(v, at[p.original])
    BY <1>2 DEF AnswersInv, AnswerInv
  <2>1. CASE a \notin inFlight
    <3>1. PICK u \in Head(queue[db]).views :
            a = Answer(u, Head(queue[db]).timestep, Evaluate(u, copy[db]), FALSE)
      BY <1>2, <2>1 DEF Answers
    <3>2. /\ u = v /\ queue[db][1].timestep = p.original
          /\ a.content = Evaluate(v, copy[db])
      BY <1>4, <3>1 DEF Answer
    <3>3. DbOf[v] = db
      BY <1>4, <3>1, <3>2 DEF TypeOK
    <3>4. Evaluate(v, copy[db]) = Parameters(v, at[p.original])
      BY <1>4, <3>2, <3>3 DEF AnswersInv, QueueInv
    <3> QED BY <3>2, <3>4
  <2> QED BY <2>1
<1>8. QueueInv'
  <2> SUFFICES ASSUME NEW v \in EventView, NEW p \in reference[v], HasRows(v, at[p.request]),
                      NEW i \in DOMAIN queue'[DbOf[v]], queue'[DbOf[v]][i].timestep = p.original
               PROVE  /\ Carries(queue'[DbOf[v]][i].updates, v, at[p.original])
                      /\ i = 1 => Evaluate(v, copy'[DbOf[v]]) = Parameters(v, at[p.original])
    BY <1>2 DEF QueueInv
  <2>1. DbOf[v] \in Db
    BY DEF Db
  <2>2. CASE DbOf[v] # db
    BY <1>5, <2>1, <2>2 DEF AnswersInv, QueueInv
  <2>3. CASE DbOf[v] = db
    <3>1. /\ i \in DOMAIN Tail(queue[db]) /\ i + 1 \in DOMAIN queue[db]
          /\ queue'[db][i] = queue[db][i + 1]
      BY <1>4, <1>5, <2>3
    <3>2. Carries(queue[db][i + 1].updates, v, at[p.original])
      BY <2>3, <3>1 DEF AnswersInv, QueueInv
    <3>3. ASSUME i = 1 PROVE Evaluate(v, copy'[db]) = Parameters(v, at[p.original])
      <4>1. copy'[db] = Update(copy[db], queue'[db][i].updates)
        BY <1>4, <1>5, <3>1, <3>3
      <4> QED BY <3>1, <3>2, <4>1, CarriedIsEvaluated
    <3> QED BY <2>3, <3>1, <3>2, <3>3
  <2> QED BY <2>2, <2>3
<1> QED BY <1>6, <1>7, <1>8 DEF AnswersInv

LEMMA AnswersReceive ==
  ASSUME AnswersInv, TypeOK, Shape, NEW a \in inFlight, ReceiveAnswer(a)
  PROVE  AnswersInv'
<1>1. /\ cache' = cache /\ reference' = reference /\ copy' = copy /\ queue' = queue
      /\ inFlight' \subseteq inFlight /\ timestep' = timestep + 1
      /\ \A u \in INIT_TIMESTEP..timestep : at'[u] = at[u]
  BY DEF ReceiveAnswer, TypeOK, INIT_TIMESTEP
<1>2. /\ \A k \in DOMAIN cache : at'[cache[k]] = at[cache[k]]
      /\ \A v \in EventView : \A p \in reference[v] :
           at'[p.original] = at[p.original] /\ at'[p.request] = at[p.request]
  BY <1>1 DEF TypeOK, INIT_TIMESTEP
<1>3. CacheInv' /\ OwnInv'
  BY <1>1, <1>2 DEF AnswersInv, CacheInv, OwnInv
<1>4. RefInv' /\ QueueInv'
  BY <1>1, <1>2 DEF AnswersInv, RefInv, QueueInv
<1>5. ASSUME NEW v \in EventView, NEW b \in cacheTable'[v]
      PROVE  b \in cacheTable[v] \/ (/\ a.view = v /\ b.original = a.original
                                     /\ b.content = a.content /\ b.static = a.static)
  <2>1. PICK o, c, f : o = a.original /\ c = a.content /\ f = a.static
    OBVIOUS
  <2>2. cacheTable' = [cacheTable EXCEPT ![a.view] = @ \cup
                         {[timestep |-> timestep + 1, original |-> o, content |-> c, static |-> f]}]
    BY <2>1 DEF ReceiveAnswer
  <2> QED BY <1>5, <2>1, <2>2 DEF Shape
<1>6. AnswerInv'
  BY <1>1, <1>2, <1>5 DEF AnswersInv, AnswerInv
<1> QED BY <1>3, <1>4, <1>6 DEF AnswersInv

LEMMA AnswersBind ==
  ASSUME AnswersInv, NEW v \in EventView, BindOutput(v)
  PROVE  AnswersInv'
<1>1. UNCHANGED <<cache, reference, cacheTable, queue, copy, timestep, at>>
  BY DEF BindOutput
<1>2. \A a \in inFlight' : a \in inFlight \/ a.static
  BY DEF BindOutput, Answer
<1> QED BY <1>1, <1>2 DEF AnswersInv, CacheInv, OwnInv, RefInv, AnswerInv, QueueInv

LEMMA AnswersNext ==
  SimpleProgram /\ AnswersInv /\ TypeOK /\ Shape /\ [Next]_vars => AnswersInv'
<1> SUFFICES ASSUME SimpleProgram, AnswersInv, TypeOK, Shape, [Next]_vars PROVE AnswersInv'
  OBVIOUS
<1>1. ASSUME NEW row \in NewRows, NewInput(row[1], row[2]) PROVE AnswersInv'
  <2>1. <<row[1], row[2]>> \in NewRows
    BY RowIsPair
  <2> QED BY <1>1, <2>1, AnswersNewInput
<1>2. ASSUME NEW a \in inFlight, ReceiveAnswer(a) PROVE AnswersInv'
  BY <1>2, AnswersReceive
<1>3. ASSUME NEW a \in inFlight, FailAnswer(a) \/ DropAnswer(a) PROVE AnswersInv'
  <2>1. /\ UNCHANGED <<at, cache, reference, cacheTable, queue, copy>>
        /\ inFlight' \subseteq inFlight
    BY <1>3 DEF FailAnswer, DropAnswer
  <2>2. CacheInv' /\ OwnInv' /\ RefInv'
    BY <2>1 DEF AnswersInv, CacheInv, OwnInv, RefInv
  <2>3. AnswerInv' /\ QueueInv'
    BY <2>1 DEF AnswersInv, AnswerInv, QueueInv
  <2> QED BY <2>2, <2>3 DEF AnswersInv
<1>4. ASSUME NEW v \in EventView, BindOutput(v) PROVE AnswersInv'
  BY <1>4, AnswersBind
<1>5. ASSUME NEW db \in Db, EvaluateQueue(db) PROVE AnswersInv'
  BY <1>5, AnswersEvaluate
<1>6. CASE UNCHANGED vars
  BY <1>6 DEF vars, AnswersInv, CacheInv, OwnInv, RefInv, AnswerInv, QueueInv
<1> QED BY <1>1, <1>2, <1>3, <1>4, <1>5, <1>6 DEF Next

LEMMA AnswersImply == AnswersInv => RightAnswers
<1> SUFFICES ASSUME AnswersInv, NEW v \in EventView, NEW p \in reference[v],
                    NEW a \in Join(reference[v], cacheTable[v], p.request),
                    HasRows(v, at[p.request]), ~a.static
             PROVE  a.content = Parameters(v, at[p.request])
  BY DEF RightAnswers
<1>1. PICK q \in reference[v] : q.request = p.request /\ q.original = a.original
  BY DEF Join
<1>2. a.content = Parameters(v, at[q.original])
  BY <1>1 DEF Join, AnswersInv, AnswerInv
<1>3. \A r \in Refs(v) : Rows(r, at[q.request]) = Rows(r, at[q.original])
  BY <1>1 DEF AnswersInv, RefInv
<1> QED BY <1>1, <1>2, <1>3, SameRows

(***************************************************************************)
(* In a simple program the rows that an event view was answered with for a *)
(* timestep whose relations had rows are what its database computes from   *)
(* the rows of that timestep, whichever timestep asked for them, whatever  *)
(* waits in the queues, and whatever else they are evaluated with.         *)
(***************************************************************************)
THEOREM CachedAnswersRight == Spec => []AnswersRight
<1> DEFINE IInv == TypeOK /\ Shape /\ (SimpleProgram => AnswersInv)
<1>1. Init => IInv
  BY TypeInit, AnswersInit
<1>2. IInv /\ [Next]_vars => IInv'
  <2> SUFFICES ASSUME IInv, [Next]_vars PROVE IInv'
    OBVIOUS
  <2>1. TypeOK' /\ Shape'
    BY TypeNext
  <2>2. SimpleProgram => AnswersInv'
    BY AnswersNext
  <2> QED BY <2>1, <2>2 DEF SimpleProgram
<1>3. IInv => AnswersRight
  BY AnswersImply DEF AnswersRight
<1> QED BY <1>1, <1>2, <1>3, PTL DEF Spec

-----------------------------------------------------------------------------
(***************************************************************************)
(* The invariant behind OneAnswer: what is on its way is not there yet.    *)
(***************************************************************************)
OneInv ==
  /\ OneAnswer
  /\ \A a \in inFlight : \A b \in cacheTable[a.view] :
       ~a.static /\ ~b.static => a.original # b.original
  /\ \A a, b \in inFlight :
       a.view = b.view /\ a.original = b.original /\ ~a.static /\ ~b.static => a = b

\* What is in a queue was not evaluated, and is there once.
QueuedOnce ==
  \A db \in Db : \A i \in DOMAIN queue[db] :
    /\ \A v \in EventView : DbOf[v] = db =>
         \A b \in cacheTable[v] : ~b.static => b.original # queue[db][i].timestep
    /\ \A a \in inFlight : DbOf[a.view] = db /\ ~a.static => a.original # queue[db][i].timestep
    /\ \A j \in DOMAIN queue[db] : queue[db][j].timestep = queue[db][i].timestep => i = j

LEMMA OneNewInput ==
  ASSUME TypeOK, Shape, OneInv, QueuedOnce,
         NEW e, NEW value, <<e, value>> \in NewRows, NewInput(e, value)
  PROVE  OneInv' /\ QueuedOnce'
<1>1. timestep' = timestep + 1 /\ timestep \in Nat
  BY NewInputTimes DEF TypeOK
<1>2. cacheTable' = cacheTable /\ inFlight' = inFlight
  BY DEF NewInput
<1>3. /\ \A a \in inFlight : a.view \in EventView /\ a.original # timestep'
      /\ \A v \in EventView : \A b \in cacheTable[v] : b.original # timestep'
      /\ \A db \in Db : \A i \in DOMAIN queue[db] : queue[db][i].timestep # timestep'
  BY <1>1 DEF TypeOK, INIT_TIMESTEP
<1>4. \A db \in Db : \A i \in DOMAIN queue'[db] :
        \/ i \in DOMAIN queue[db] /\ queue'[db][i] = queue[db][i]
        \/ i = Len(queue[db]) + 1 /\ queue'[db][i].timestep = timestep'
  BY NewInputEntries
<1>5. QueuedOnce'
  <2> SUFFICES ASSUME NEW db \in Db, NEW i \in DOMAIN queue'[db]
               PROVE  /\ \A v \in EventView : DbOf[v] = db =>
                           \A b \in cacheTable[v] : ~b.static => b.original # queue'[db][i].timestep
                      /\ \A a \in inFlight : DbOf[a.view] = db /\ ~a.static =>
                           a.original # queue'[db][i].timestep
                      /\ \A j \in DOMAIN queue'[db] :
                           queue'[db][j].timestep = queue'[db][i].timestep => i = j
    BY <1>2 DEF QueuedOnce
  <2>1. CASE i \in DOMAIN queue[db] /\ queue'[db][i] = queue[db][i]
    BY <1>3, <1>4, <2>1 DEF QueuedOnce
  <2>2. CASE i = Len(queue[db]) + 1 /\ queue'[db][i].timestep = timestep'
    BY <1>3, <1>4, <2>2
  <2> QED BY <1>4, <2>1, <2>2
<1>6. OneInv'
  BY <1>2 DEF OneInv, OneAnswer
<1> QED BY <1>5, <1>6

LEMMA OneEvaluate ==
  ASSUME TypeOK, Shape, OneInv, QueuedOnce, NEW db \in Db, EvaluateQueue(db)
  PROVE  OneInv' /\ QueuedOnce'
<1>1. PICK S : queue \in [Db -> Seq(S)]
  BY DEF Shape
<1>2. /\ cacheTable' = cacheTable
      /\ queue[db] # <<>> /\ queue' = [queue EXCEPT ![db] = Tail(queue[db])]
      /\ inFlight' = inFlight \cup Answers(Head(queue[db]), copy[db])
  BY DEF EvaluateQueue, NextQueue
<1>3. queue[db] \in Seq(S)
  BY <1>1
<1>4. /\ 1 \in DOMAIN queue[db] /\ Head(queue[db]) = queue[db][1]
      /\ \A i \in DOMAIN Tail(queue[db]) :
           i \in Nat \ {0} /\ i + 1 \in DOMAIN queue[db] /\ Tail(queue[db])[i] = queue[db][i + 1]
  BY <1>2, <1>3, TailAt
<1>5. /\ queue'[db] = Tail(queue[db])
      /\ \A d \in Db : d # db => queue'[d] = queue[d]
  BY <1>1, <1>2
<1> DEFINE t == queue[db][1].timestep
<1>6. ASSUME NEW a \in inFlight', a \notin inFlight
      PROVE  /\ a.original = t /\ a.view \in EventView /\ DbOf[a.view] = db
             /\ a = Answer(a.view, t, Evaluate(a.view, copy[db]), FALSE)
  <2>1. PICK u \in Head(queue[db]).views : a = Answer(u, Head(queue[db]).timestep, Evaluate(u, copy[db]), FALSE)
    BY <1>2, <1>6 DEF Answers
  <2>2. u \in EventView /\ DbOf[u] = db
    BY <1>4, <2>1 DEF TypeOK
  <2>3. a.view = u /\ a.original = Head(queue[db]).timestep
    BY <2>1 DEF Answer
  <2> QED BY <1>4, <2>1, <2>2, <2>3
<1>7. /\ \A v \in EventView : DbOf[v] = db => \A b \in cacheTable[v] : ~b.static => b.original # t
      /\ \A a \in inFlight : DbOf[a.view] = db /\ ~a.static => a.original # t
      /\ \A i \in DOMAIN queue[db] : i # 1 => queue[db][i].timestep # t
  BY <1>4 DEF QueuedOnce
<1>8. \A a \in inFlight : a.view \in EventView
  BY DEF TypeOK
<1> HIDE DEF t
<1>9. OneInv'
  <2>1. OneAnswer'
    BY <1>2 DEF OneInv, OneAnswer
  <2>2. \A a \in inFlight' : \A b \in cacheTable[a.view] :
          ~a.static /\ ~b.static => a.original # b.original
    BY <1>6, <1>7 DEF OneInv
  <2>3. ASSUME NEW a \in inFlight', NEW b \in inFlight',
               a.view = b.view, a.original = b.original, ~a.static, ~b.static
        PROVE  a = b
    <3>1. CASE a \in inFlight /\ b \in inFlight
      BY <2>3, <3>1 DEF OneInv
    <3>2. CASE a \notin inFlight /\ b \in inFlight
      BY <1>6, <1>7, <2>3, <3>2
    <3>3. CASE a \in inFlight /\ b \notin inFlight
      BY <1>6, <1>7, <2>3, <3>3
    <3>4. CASE a \notin inFlight /\ b \notin inFlight
      BY <1>6, <2>3, <3>4
    <3> QED BY <3>1, <3>2, <3>3, <3>4
  <2> QED BY <1>2, <2>1, <2>2, <2>3 DEF OneInv
<1>10. QueuedOnce'
  <2> SUFFICES ASSUME NEW d \in Db, NEW i \in DOMAIN queue'[d]
               PROVE  /\ \A v \in EventView : DbOf[v] = d =>
                           \A b \in cacheTable[v] : ~b.static => b.original # queue'[d][i].timestep
                      /\ \A a \in inFlight' : DbOf[a.view] = d /\ ~a.static =>
                           a.original # queue'[d][i].timestep
                      /\ \A j \in DOMAIN queue'[d] :
                           queue'[d][j].timestep = queue'[d][i].timestep => i = j
    BY <1>2 DEF QueuedOnce
  <2>1. CASE d # db
    <3>1. queue'[d] = queue[d]
      BY <1>5, <2>1
    <3>2. \A a \in inFlight' : DbOf[a.view] = d => a \in inFlight
      BY <1>6, <2>1
    <3> QED BY <3>1, <3>2 DEF QueuedOnce
  <2>2. CASE d = db
    <3>1. \A j \in DOMAIN queue'[d] :
            /\ j \in Nat /\ j + 1 \in DOMAIN queue[db] /\ queue'[d][j] = queue[db][j + 1]
            /\ j + 1 # 1
      <4>1. \A j \in Nat \ {0} : j \in Nat /\ j + 1 # 1
        OBVIOUS
      <4> QED BY <1>4, <1>5, <2>2, <4>1
    <3>2. queue[db][i + 1].timestep # t /\ queue'[d][i] = queue[db][i + 1]
      BY <1>7, <3>1
    <3>3. \A a \in inFlight' : DbOf[a.view] = d /\ ~a.static => a.original # queue'[d][i].timestep
      <4>1. \A a \in inFlight : DbOf[a.view] = db /\ ~a.static => a.original # queue[db][i + 1].timestep
        BY <3>1 DEF QueuedOnce
      <4> QED BY <1>6, <2>2, <3>2, <4>1
    <3>4. \A j \in DOMAIN queue'[d] : queue'[d][j].timestep = queue'[d][i].timestep => i = j
      <4>1. \A j \in DOMAIN queue'[d] : queue[db][j + 1].timestep = queue[db][i + 1].timestep => i + 1 = j + 1
        BY <3>1 DEF QueuedOnce
      <4> QED BY <3>1, <4>1
    <3>5. \A v \in EventView : DbOf[v] = d =>
            \A b \in cacheTable[v] : ~b.static => b.original # queue'[d][i].timestep
      BY <2>2, <3>1 DEF QueuedOnce
    <3> QED BY <3>3, <3>4, <3>5
  <2> QED BY <2>1, <2>2
<1> QED BY <1>9, <1>10

LEMMA OneNext == TypeOK /\ Shape /\ OneInv /\ QueuedOnce /\ [Next]_vars => OneInv' /\ QueuedOnce'
<1> SUFFICES ASSUME TypeOK, Shape, OneInv, QueuedOnce, [Next]_vars PROVE OneInv' /\ QueuedOnce'
  OBVIOUS
<1>1. ASSUME NEW row \in NewRows, NewInput(row[1], row[2]) PROVE OneInv' /\ QueuedOnce'
  <2>1. <<row[1], row[2]>> \in NewRows
    BY RowIsPair
  <2> QED BY <1>1, <2>1, OneNewInput
<1>2. ASSUME NEW a \in inFlight, ReceiveAnswer(a) PROVE OneInv' /\ QueuedOnce'
  <2>1. PICK row : row = [timestep |-> timestep + 1, original |-> a.original, content |-> a.content,
                          static |-> a.static]
    OBVIOUS
  <2>2. /\ inFlight' = inFlight \ {a} /\ queue' = queue /\ a.view \in EventView
        /\ row.original = a.original /\ row.static = a.static
        /\ \A v \in EventView : \A b \in cacheTable'[v] : b \in cacheTable[v] \/ (v = a.view /\ b = row)
    BY <1>2, <2>1 DEF ReceiveAnswer, Shape, TypeOK
  <2>3. \A b \in inFlight : b.view \in EventView
    BY DEF TypeOK
  <2>4. OneInv'
    BY <2>2, <2>3 DEF OneInv, OneAnswer
  <2>5. QueuedOnce'
    BY <2>2, <2>3 DEF QueuedOnce
  <2> QED BY <2>4, <2>5
<1>3. ASSUME NEW a \in inFlight, FailAnswer(a) \/ DropAnswer(a) PROVE OneInv' /\ QueuedOnce'
  BY <1>3 DEF FailAnswer, DropAnswer, OneInv, OneAnswer, QueuedOnce
<1>4. ASSUME NEW v \in EventView, BindOutput(v) PROVE OneInv' /\ QueuedOnce'
  <2>1. UNCHANGED <<cacheTable, queue>>
    BY <1>4 DEF BindOutput
  <2>2. \A a \in inFlight' : a \in inFlight \/ a.static
    BY <1>4 DEF BindOutput, Answer
  <2> QED BY <2>1, <2>2 DEF OneInv, OneAnswer, QueuedOnce
<1>5. ASSUME NEW db \in Db, EvaluateQueue(db) PROVE OneInv' /\ QueuedOnce'
  BY <1>5, OneEvaluate
<1>6. CASE UNCHANGED vars
  BY <1>6 DEF vars, OneInv, OneAnswer, QueuedOnce
<1> QED BY <1>1, <1>2, <1>3, <1>4, <1>5, <1>6 DEF Next

(***************************************************************************)
(* The cache table has the rows of a request once: the queue evaluates a   *)
(* timestep once.  Static ships of the same timestep come on top.          *)
(***************************************************************************)
THEOREM CachedAnswersOnce == Spec => []OneAnswer
<1> DEFINE IInv == TypeOK /\ Shape /\ OneInv /\ QueuedOnce
<1>1. Init => IInv
  <2>1. Init => OneInv /\ QueuedOnce
    BY DEF Init, OneInv, OneAnswer, QueuedOnce
  <2> QED BY <2>1, TypeInit
<1>2. IInv /\ [Next]_vars => IInv'
  BY TypeNext, OneNext
<1>3. IInv => OneAnswer
  BY DEF OneInv
<1> QED BY <1>1, <1>2, <1>3, PTL DEF Spec

-----------------------------------------------------------------------------
LEMMA ShownNext == TypeOK /\ Shape /\ ShownIsCurrent /\ [Next]_vars => ShownIsCurrent'
<1> SUFFICES ASSUME TypeOK, Shape, ShownIsCurrent, [Next]_vars,
                    NEW v \in bound',
                    Join(reference'[v], cacheTable'[v], LatestEvent(lastEvent', v)) # {}
             PROVE  shown'[v] = {a.content : a \in Join(reference'[v], cacheTable'[v],
                                                         LatestEvent(lastEvent', v))}
  BY DEF ShownIsCurrent, Join, LatestEvent
<1> DEFINE Current == shown'[v] = {a.content : a \in Join(reference'[v], cacheTable'[v], LatestEvent(lastEvent', v))}
<1>0. v \in EventView
  BY TypeNext DEF TypeOK
<1>1. ASSUME NEW row \in NewRows, NewInput(row[1], row[2])
      PROVE  Current
  <2> DEFINE e == row[1]
  <2>1. <<row[1], row[2]>> \in NewRows
    BY RowIsPair
  <2>2. /\ cacheTable' = cacheTable /\ bound' = bound
        /\ lastEvent' = [lastEvent EXCEPT ![e] = timestep + 1]
    BY <1>1 DEF NewInput
  <2>3. shown'[v] = IF v \in bound /\ Depends(v, e)
                    THEN Rendered(v, lastEvent', reference'[v], cacheTable[v], shown[v])
                    ELSE shown[v]
    BY <1>0, <1>1 DEF NewInput
  <2>4. CASE Depends(v, e)
    BY <2>2, <2>3, <2>4 DEF Rendered
  <2>5. CASE ~Depends(v, e)
    <3>1. reference'[v] = reference[v]
      BY <1>0, <1>1, <2>1, <2>5, NewInputReference
    <3>2. \A g \in UNION {EventsOf[r] : r \in Refs(v)} : g # e /\ g \in EventTable
      <4>1. \A r \in Refs(v) : EventsOf[r] \subseteq EventTable
        BY <1>0, RefsAreLocal, CacheAssumption
      <4> QED BY <2>5, <4>1 DEF Depends
    <3>3. \A g \in UNION {EventsOf[r] : r \in Refs(v)} : lastEvent'[g] = lastEvent[g]
      BY <2>2, <3>2 DEF Shape
    <3>4. LatestEvent(lastEvent', v) = LatestEvent(lastEvent, v)
      <4>1. {lastEvent'[g] : g \in UNION {EventsOf[r] : r \in Refs(v)}} =
            {lastEvent[g] : g \in UNION {EventsOf[r] : r \in Refs(v)}}
        BY <3>3
      <4> QED BY <4>1 DEF LatestEvent
    <3> QED BY <2>2, <2>3, <2>5, <3>1, <3>4 DEF ShownIsCurrent
  <2> QED BY <2>4, <2>5
<1>2. ASSUME NEW a \in inFlight, ReceiveAnswer(a) PROVE Current
  <2>1. /\ UNCHANGED <<reference, lastEvent, bound>> /\ a.view \in EventView
        /\ v # a.view => cacheTable'[v] = cacheTable[v] /\ shown'[v] = shown[v]
    BY <1>0, <1>2 DEF ReceiveAnswer, Shape, TypeOK
  <2>2. CASE v = a.view
    <3>1. shown'[v] = Rendered(v, lastEvent, reference[v], cacheTable'[v], shown[v])
      BY <1>0, <1>2, <2>1, <2>2 DEF ReceiveAnswer, Shape
    <3> QED BY <2>1, <3>1 DEF Rendered
  <2>3. CASE v # a.view
    BY <2>1, <2>3 DEF ShownIsCurrent
  <2> QED BY <2>2, <2>3
<1>3. ASSUME UNCHANGED <<reference, cacheTable, lastEvent, shown, bound>> PROVE Current
  BY <1>3 DEF ShownIsCurrent
<1>4. ASSUME NEW w \in EventView, BindOutput(w) PROVE Current
  <2>1. /\ UNCHANGED <<reference, cacheTable, lastEvent>> /\ bound' = bound \cup {w}
        /\ shown'[v] = IF v = w THEN Rendered(v, lastEvent, reference[v], cacheTable[v], shown[v])
                       ELSE shown[v]
    BY <1>0, <1>4 DEF BindOutput, Shape
  <2>2. CASE v = w
    BY <2>1, <2>2 DEF Rendered
  <2>3. CASE v # w
    BY <2>1, <2>3 DEF ShownIsCurrent
  <2> QED BY <2>2, <2>3
<1> QED BY <1>1, <1>2, <1>3, <1>4 DEF Next, EvaluateQueue, FailAnswer, DropAnswer, vars

(***************************************************************************)
(* A bound output shows the rows for the latest event as soon as they are  *)
(* there, in every order of events, answers and bindings.                  *)
(***************************************************************************)
THEOREM CachedShownIsCurrent == Spec => []ShownIsCurrent
<1> DEFINE IInv == TypeOK /\ Shape /\ ShownIsCurrent
<1>1. Init => IInv
  <2>1. Init => ShownIsCurrent
    BY DEF Init, ShownIsCurrent, Join
  <2> QED BY <2>1, TypeInit
<1>2. IInv /\ [Next]_vars => IInv'
  BY TypeNext, ShownNext
<1> QED BY <1>1, <1>2, PTL DEF Spec

=============================================================================
