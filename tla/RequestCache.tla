---------------------------- MODULE RequestCache ----------------------------
(***************************************************************************)
(* The request cache of the runtime (src/src/runtime/DielRuntime.ts): an   *)
(* event view over remote data is only requested again if the rows of the  *)
(* local relations it reads have not been seen before; otherwise a         *)
(* reference points the new timestep to the request whose answer it shares.*)
(*                                                                         *)
(* The program: views of the main database (LocalRelation) over the latest *)
(* rows of event tables, event views on remote databases that read them,   *)
(* and one output per event view, which shows its rows for the latest      *)
(* event (request_timestep = max(timestep) of the event tables, as the     *)
(* programs under src/testEndToEnd write it).  The queue of a database is  *)
(* taken as SerialEngine has it: one timestep at a time, each evaluated    *)
(* over what was sent up to it.  Static ships go past the queue.           *)
(***************************************************************************)
EXTENDS Integers, Sequences, FiniteSets

CONSTANTS
  EventTable, Value,
  NewRows,          \* the rows the user may enter: pairs of an event table and a value
  LocalRelation,    \* local views that are shipped to remote databases
  EventsOf,         \* [LocalRelation -> event tables it shows the latest row of]
  Passing,          \* [LocalRelation -> the values that its where clause lets through]
  Columns,          \* [LocalRelation -> its column names, which are in the hashed JSON]
  EventView,        \* the cached event views
  LocalRefs,        \* [EventView -> what of LocalRelation it reads: its from clause and its joins]
  DbOf,             \* [EventView -> database that evaluates it]
  MaxEvents,        \* bound on the user's events
  MaxExtras         \* bound on failed requests and bound outputs together

NoValue == 0

ASSUME CacheAssumption ==
  /\ EventsOf \in [LocalRelation -> SUBSET EventTable]
  /\ Passing \in [LocalRelation -> SUBSET Value]
  /\ LocalRefs \in [EventView -> Seq(LocalRelation)]
  /\ DOMAIN Columns = LocalRelation
  /\ DOMAIN DbOf = EventView
  /\ NoValue \notin Value
  /\ NewRows \subseteq EventTable \X Value
  /\ MaxEvents \in Nat /\ MaxExtras \in Nat

VARIABLES
  timestep,
  at,           \* at[t]: the latest row of each event table at timestep t
  lastEvent,    \* [EventTable -> timestep of its latest row]
  cache,        \* this.cache: key -> request timestep
  reference,    \* [EventView -> rows of its reference table]
  cacheTable,   \* [EventView -> rows of its cache table]
  queue,        \* [databases -> the timesteps it was sent relations for, oldest first]
  copy,         \* [databases -> what they hold of the local relations]
  inFlight,     \* answers that have not arrived
  bound,        \* the event views whose output is bound
  shown,        \* [EventView -> what the output over it was last rendered with]
  events, extras,   \* how often the bounds have been used
  lost          \* history: the requests that failed

vars == <<timestep, at, lastEvent, cache, reference, cacheTable, queue, copy, inFlight, bound, shown,
          events, extras, lost>>

Db == {DbOf[v] : v \in EventView}

INIT_TIMESTEP == 1

-----------------------------------------------------------------------------
\* The rows of a local relation when the event tables have the latest rows x: one or none.
Rows(r, x) == {row \in {[e \in EventsOf[r] |-> x[e]]} : \A e \in EventsOf[r] : row[e] \in Passing[r]}

Refs(v) == {LocalRefs[v][i] : i \in DOMAIN LocalRefs[v]}

\* What an event view is computed from.
Parameters(v, x) == [r \in Refs(v) |-> Rows(r, x)]

\* Mutant: the rows are left out of the key.
MakeSubKeyColumns(r, x) == {Columns[r]}

\* makeSubKey: the rows of a relation, each with the names of the columns.
MakeSubKey(r, x) == {<<Columns[r], row>> : row \in Rows(r, x)}

\* getCacheKey: the rows of the local relations that the event view reads, in order.
GetCacheKey(v, x) == [i \in DOMAIN LocalRefs[v] |-> MakeSubKey(LocalRefs[v][i], x)]

Depends(v, e) == \E r \in Refs(v) : e \in EventsOf[r]

\* Mutant: the request is the next one.
GetFromCacheOrMissNext(v, x, t) ==
  IF GetCacheKey(v, x) \in DOMAIN cache THEN cache[GetCacheKey(v, x)] ELSE t + 1

\* getFromCacheOrMiss: the timestep of the request to share, or that of this one.
GetFromCacheOrMiss(v, x, t) ==
  IF GetCacheKey(v, x) \in DOMAIN cache THEN cache[GetCacheKey(v, x)] ELSE t

\* The rows of a cached event view: cache and reference, joined.
Join(refs, rows, request) ==
  {a \in rows : \E p \in refs : p.request = request /\ p.original = a.original}

\* The timestep that the output over v asks for.
LatestEvent(last, v) ==
  LET ts == {last[e] : e \in UNION {EventsOf[r] : r \in Refs(v)}}
  IN  CHOOSE t \in ts : \A u \in ts : u <= t

\* Mutant: the output reads the cache table without the references.
RenderedOriginal(v, last, refs, rows, old) ==
  LET found == {a \in rows : a.original = LatestEvent(last, v)}
  IN  IF found = {} THEN old ELSE {a.content : a \in found}

\* runOutputs: an output without rows is not rendered.
Rendered(v, last, refs, rows, old) ==
  LET found == Join(refs, rows, LatestEvent(last, v))
  IN  IF found = {} THEN old ELSE {a.content : a \in found}

-----------------------------------------------------------------------------
Init ==
  /\ timestep = INIT_TIMESTEP
  /\ at = [t \in {INIT_TIMESTEP} |-> [e \in EventTable |-> NoValue]]
  /\ lastEvent = [e \in EventTable |-> 0]
  /\ cache = [k \in {} |-> 0]
  /\ reference = [v \in EventView |-> {}]
  /\ cacheTable = [v \in EventView |-> {}]
  /\ queue = [db \in Db |-> <<>>]
  /\ copy = [db \in Db |-> [r \in LocalRelation |-> {}]]
  /\ inFlight = {}
  /\ bound = {}
  /\ shown = [v \in EventView |-> {}]
  /\ events = 0 /\ extras = 0
  /\ lost = {}

\* static is for the properties: nothing in an answer tells a static ship from another.
Answer(v, original, content, static) ==
  [view |-> v, original |-> original, content |-> content, static |-> static]

\* What v evaluates to on a database that holds held.
Evaluate(v, held) == [r \in Refs(v) |-> held[r]]

\* A join has no rows if one of the relations has none.
HasNoRows(content) == \E r \in DOMAIN content : content[r] = {}


\* The event views that have to wait for their results.
Missed(over, x, t) == {v \in over : GetFromCacheOrMiss(v, x, t) = t}

\* What shipWorkerInput sends to db: what those event views read and e has
\* changed.  A relation without rows is not sent.
Sent(db, missed, e, x) ==
  {r \in UNION {Refs(v) : v \in {w \in missed : DbOf[w] = db}} :
     e \in EventsOf[r] /\ Rows(r, x) # {}}

Updates(db, missed, e, x) == [r \in Sent(db, missed, e, x) |-> Rows(r, x)]

\* What a database holds after the updates.
Update(held, updates) ==
  [r \in LocalRelation |-> IF r \in DOMAIN updates THEN updates[r] ELSE held[r]]

\* A timestep in the queue of db: all its event views over the event are evaluated
\* for it, also those that were found in the cache.
Entry(db, over, t, updates) ==
  [timestep |-> t, views |-> {v \in over : DbOf[v] = db}, updates |-> updates]

(***************************************************************************)
(* checkAndApplyCache and shipWorkerInput: a reference for every event view*)
(* over e; those that missed have what changed with e sent.  A database    *)
(* without a timestep in its queue executes it at once.                    *)
(***************************************************************************)
Apply(e, x, t) ==
  LET over    == {v \in EventView : Depends(v, e)}
      missed  == Missed(over, x, t)
      sent    == {db \in Db : Sent(db, missed, e, x) # {}}
  IN  /\ cache' = [k \in DOMAIN cache \cup {GetCacheKey(v, x) : v \in over} |->
                     IF k \in DOMAIN cache THEN cache[k] ELSE t]
      /\ reference' = [v \in EventView |->
                         IF v \in over
                         THEN reference[v] \cup
                                {[request |-> t, original |-> GetFromCacheOrMiss(v, x, t)]}
                         ELSE reference[v]]
      /\ queue' = [db \in Db |->
                     IF db \in sent
                     THEN Append(queue[db], Entry(db, over, t, Updates(db, missed, e, x)))
                     ELSE queue[db]]
      /\ copy' = [db \in Db |->
                    IF db \in sent /\ queue[db] = <<>>
                    THEN Update(copy[db], Updates(db, missed, e, x))
                    ELSE copy[db]]

\* newInputHelper for an event of the user: outputs are run after the cache was applied.
NewInput(e, value) ==
  LET t == timestep + 1
      x == [at[timestep] EXCEPT ![e] = value]
  IN  /\ events < MaxEvents
      /\ events' = events + 1
      /\ timestep' = t
      /\ at' = [u \in DOMAIN at \cup {t} |-> IF u = t THEN x ELSE at[u]]
      /\ lastEvent' = [lastEvent EXCEPT ![e] = t]
      /\ Apply(e, x, t)
      /\ shown' = [v \in EventView |->
                     IF v \in bound /\ Depends(v, e)
                     THEN Rendered(v, lastEvent', reference'[v], cacheTable[v], shown[v])
                     ELSE shown[v]]
      /\ UNCHANGED <<cacheTable, inFlight, bound, extras, lost>>

\* Mutant: the timestep stays in the queue.
NextQueueKeepsHead(q) == q

\* nextQueue: the timestep is taken off the queue.
NextQueue(q) == Tail(q)

\* The answers that a database ships for a timestep.
Answers(entry, held) ==
  {Answer(v, entry.timestep, Evaluate(v, held), FALSE) : v \in entry.views}

(***************************************************************************)
(* evaluateQueueOnUpdateHandler: the event views over the event of the     *)
(* first timestep are shipped, whether all they read was sent or not       *)
(* (IsSetIdentical only asks for nothing else); the updates of the next    *)
(* timestep follow.                                                        *)
(***************************************************************************)
EvaluateQueue(db) ==
  LET rest == NextQueue(queue[db])
  IN  /\ queue[db] # <<>>
      /\ inFlight' = inFlight \cup Answers(Head(queue[db]), copy[db])
      /\ queue' = [queue EXCEPT ![db] = rest]
      /\ copy' = [copy EXCEPT ![db] = IF rest = <<>> THEN @ ELSE Update(@, Head(rest).updates)]
      /\ UNCHANGED <<timestep, at, lastEvent, cache, reference, cacheTable, bound, shown,
                     events, extras, lost>>

\* A database answers in order.  (Where a static ship comes among them is left open.)
IsNextReply(a) ==
  \A b \in inFlight : DbOf[b.view] = DbOf[a.view] /\ ~a.static /\ ~b.static => a.original <= b.original

\* newInputHelper for the rows of an event view, which go to its cache table.
ReceiveAnswer(a) ==
  LET v == a.view
      t == timestep + 1
  IN  /\ a \in inFlight /\ IsNextReply(a) /\ ~HasNoRows(a.content)
      /\ inFlight' = inFlight \ {a}
      /\ timestep' = t
      /\ at' = [u \in DOMAIN at \cup {t} |-> IF u = t THEN at[timestep] ELSE at[u]]
      /\ cacheTable' = [cacheTable EXCEPT ![v] = @ \cup
                          {[timestep |-> t, original |-> a.original, content |-> a.content,
                            static |-> a.static]}]
      /\ shown' = [shown EXCEPT ![v] =
                     IF v \in bound THEN Rendered(v, lastEvent, reference[v], cacheTable'[v], @) ELSE @]
      /\ UNCHANGED <<lastEvent, cache, reference, queue, copy, bound, events, extras, lost>>

\* getHandleMsgForRemote: results without rows go no further.
DropAnswer(a) ==
  /\ a \in inFlight /\ IsNextReply(a) /\ HasNoRows(a.content)
  /\ inFlight' = inFlight \ {a}
  /\ UNCHANGED <<timestep, at, lastEvent, cache, reference, cacheTable, queue, copy, bound, shown,
                 events, extras, lost>>

\* The database reports an error: nobody hears of it.
FailAnswer(a) ==
  /\ a \in inFlight /\ IsNextReply(a) /\ extras < MaxExtras
  /\ extras' = extras + 1
  /\ inFlight' = inFlight \ {a}
  /\ lost' = IF a.static THEN lost ELSE lost \cup {[view |-> a.view, original |-> a.original]}
  /\ UNCHANGED <<timestep, at, lastEvent, cache, reference, cacheTable, queue, copy, bound, shown, events>>

(***************************************************************************)
(* BindOutput: the static trigger goes to the database past its queue, so  *)
(* it is evaluated over what was executed there, but it is labelled with   *)
(* the timestep of now; then the output is run.                            *)
(***************************************************************************)
BindOutput(v) ==
  /\ v \notin bound /\ extras < MaxExtras
  /\ extras' = extras + 1
  /\ bound' = bound \cup {v}
  /\ inFlight' = inFlight \cup {Answer(v, timestep, Evaluate(v, copy[DbOf[v]]), TRUE)}
  /\ shown' = [shown EXCEPT ![v] = Rendered(v, lastEvent, reference[v], cacheTable[v], @)]
  /\ UNCHANGED <<timestep, at, lastEvent, cache, reference, cacheTable, queue, copy, events, lost>>

Next ==
  \/ \E row \in NewRows : NewInput(row[1], row[2])
  \/ \E db \in Db : EvaluateQueue(db)
  \/ \E a \in inFlight : ReceiveAnswer(a) \/ DropAnswer(a) \/ FailAnswer(a)
  \/ \E v \in EventView : BindOutput(v)

Spec == Init /\ [][Next]_vars

\* A database executes what it was sent, and its messages arrive.
FairSpec ==
  /\ Spec
  /\ \A db \in Db : WF_vars(EvaluateQueue(db))
  /\ WF_vars(\E a \in inFlight : ReceiveAnswer(a) \/ DropAnswer(a) \/ FailAnswer(a))

-----------------------------------------------------------------------------
(***************************************************************************)
(* Properties.  A program is simple if no two relations have the same      *)
(* columns, and if what an event view reads changes with the same events.  *)
(***************************************************************************)
SimpleProgram ==
  /\ \A r, s \in LocalRelation : Columns[r] = Columns[s] => r = s
  /\ \A v \in EventView : \A r, s \in Refs(v) : EventsOf[r] = EventsOf[s]

\* The relations that v reads have rows.
HasRows(v, x) == \A r \in Refs(v) : Rows(r, x) # {}

\* Timesteps only name what has happened, and every reference is to a request.
TypeOK ==
  /\ timestep \in Nat /\ INIT_TIMESTEP <= timestep /\ DOMAIN at = INIT_TIMESTEP..timestep
  /\ \A t \in DOMAIN at : at[t] \in [EventTable -> Value \cup {NoValue}]
  /\ \A k \in DOMAIN cache : cache[k] \in INIT_TIMESTEP..timestep
  /\ \A v \in EventView :
       /\ \A p \in reference[v] : p.original \in INIT_TIMESTEP..p.request
                                  /\ p.request \in INIT_TIMESTEP..timestep
       /\ \A a \in cacheTable[v] : a.original \in INIT_TIMESTEP..(a.timestep - 1)
                                   /\ a.timestep \in INIT_TIMESTEP..timestep
  /\ \A db \in Db : \A i \in DOMAIN queue[db] :
       /\ queue[db][i].timestep \in INIT_TIMESTEP..timestep
       /\ queue[db][i].views \subseteq {v \in EventView : DbOf[v] = db}
  /\ \A a \in inFlight : a.view \in EventView /\ a.original \in INIT_TIMESTEP..timestep
  /\ bound \subseteq EventView

(***************************************************************************)
(* What an event view has for a request is what its database computes from *)
(* the rows that the local relations had at that timestep, whether it was  *)
(* requested for it or is shared by it.  (Not so if one of the relations   *)
(* had no rows, as it was not sent; nor for a static ship.)                *)
(***************************************************************************)
RightAnswers ==
  \A v \in EventView : \A p \in reference[v] :
    \A a \in Join(reference[v], cacheTable[v], p.request) :
      HasRows(v, at[p.request]) /\ ~a.static => a.content = Parameters(v, at[p.request])

\* For simple programs.
AnswersRight == SimpleProgram => RightAnswers

(***************************************************************************)
(* A request has one answer, though many timesteps may share it: the join  *)
(* does not show rows twice.  (A static ship of the same timestep does.)   *)
(***************************************************************************)
OneAnswer ==
  \A v \in EventView : \A a, b \in cacheTable[v] :
    a.original = b.original /\ ~a.static /\ ~b.static => a = b

(***************************************************************************)
(* A bound output shows the rows for the latest event as soon as they are  *)
(* there, from the cache or from the database.                             *)
(***************************************************************************)
ShownIsCurrent ==
  \A v \in bound :
    LET found == Join(reference[v], cacheTable[v], LatestEvent(lastEvent, v))
    IN  found # {} => shown[v] = {a.content : a \in found}

(***************************************************************************)
(* Every request over relations with rows is answered: a timestep that     *)
(* found its key in the cache is answered as well, though the request it   *)
(* shares may be on its way, in the queue -- or have failed, after which   *)
(* nothing is requested again.                                             *)
(***************************************************************************)
Answered(v, p) ==
  \/ \E a \in Join(reference[v], cacheTable[v], p.request) : ~a.static
  \/ [view |-> v, original |-> p.original] \in lost


=============================================================================
