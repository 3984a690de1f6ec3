-------------------------------- MODULE Setup --------------------------------
(***************************************************************************)
(* How a DIEL runtime comes up and how views are added to it while it runs *)
(* (DielRuntime.setup, DbEngine.setup, AddOutputRelationByString): a chain *)
(* of asynchronous steps over several remote databases, each of which can  *)
(* fail on its own.  A remote database, its Worker or WebSocket and the    *)
(* files that are fetched are external; a channel is FIFO in both          *)
(* directions, and a database executes one message at a time.              *)
(*                                                                         *)
(* What the compiler planned enters as constants: which relations a        *)
(* database is given at set-up, and which it is given for a view that is   *)
(* added.  Of a statement that was prepared only its existence is kept.    *)
(* The continuation of a settled promise runs in a step of its own, so the *)
(* model also has the orders in which other replies come before it.        *)
(***************************************************************************)
EXTENDS Integers, Sequences, FiniteSets

CONSTANTS
  NRemotes,      \* the length of config.dbConfigs
  Name,          \* names of relations
  DbKind,        \* [Remote -> {"Worker", "Socket"}]
  Tables,        \* [Db -> SUBSET Name], the tables a database comes with
  Definitions,   \* [Db -> SUBSET Name], sqlAstSpecPerDb after the compilation
  Output,        \* the outputs of the program
  Added,         \* the views the page may add
  Instructions,  \* [Added -> SUBSET (Db \X Name)], what they need to be defined where
  MaxAdds,       \* bound on the views added
  MaxFaults      \* bound on what fails

LocalDbId == 1
Remote == 2..(NRemotes + 1)
Db == {LocalDbId} \cup Remote

ASSUME SetupAssumption ==
  /\ NRemotes \in Nat /\ MaxAdds \in Nat /\ MaxFaults \in Nat
  /\ DbKind \in [Remote -> {"Worker", "Socket"}]
  /\ Tables \in [Db -> SUBSET Name]
  /\ Definitions \in [Db -> SUBSET Name]
  /\ Instructions \in [Added -> SUBSET (Db \X Name)]
  /\ Output \subseteq Name /\ Added \subseteq Name

VARIABLES
  phase,             \* where setup is
  engineSetup,       \* where the set-up of each engine is
  connection,        \* the engines whose DbEngine.connection is defined
  promise,           \* per connection, the promised messages by msgId
  awaiting,          \* what setup awaits: the promises of a Promise.all
  relationLocation,  \* physicalMetaData.relationLocation
  spec,              \* sqlAstSpecPerDb: the names planned for each database
  planned,           \* the engines with a physicalExeuctionRef
  local,             \* the relations of the main database
  runtimeOutputs,    \* the outputs with a prepared statement
  calls,             \* the calls of AddViewByAst, in order
  toRemote, toClient,
  remote,            \* each remote database: is it open, and its relations
  silent,            \* the connections that went away
  faults

setupVars  == <<phase, engineSetup, connection, awaiting, relationLocation>>
planVars   == <<spec, planned, local, runtimeOutputs, calls>>
wireVars   == <<promise, toRemote, toClient>>
remoteVars == <<remote, silent>>
vars == <<setupVars, planVars, wireVars, remoteVars, faults>>

Promises == {p \in Remote \X Nat : p[2] \in 1..Len(promise[p[1]])}
State(p) == promise[p[1]][p[2]].state

Init ==
  /\ phase = "mainDb"
  /\ engineSetup = [d \in Remote |-> "new"]
  /\ connection = {}
  /\ promise = [d \in Remote |-> <<>>]
  /\ awaiting = {}
  /\ relationLocation = [n \in {} |-> LocalDbId]
  /\ spec = [d \in Db |-> {}]
  /\ planned = {}
  /\ local = {}
  /\ runtimeOutputs = {}
  /\ calls = <<>>
  /\ toRemote = [d \in Remote |-> <<>>]
  /\ toClient = [d \in Remote |-> <<>>]
  /\ remote = [d \in Remote |-> [open |-> FALSE, relations |-> Tables[d]]]
  /\ silent = {}
  /\ faults = 0

-----------------------------------------------------------------------------
(***************************************************************************)
(* ConnectionWrapper.  A promised message has the number of its promise; a *)
(* message without one has the number 0.                                   *)
(***************************************************************************)
\* Mutant: the number is incremented before it is used.
MessageNextId(id, action, names, replace) ==
  [msgId |-> IF id = 0 THEN 0 ELSE id + 1, remoteAction |-> action,
   names |-> names, replace |-> replace]

Message(id, action, names, replace) ==
  [msgId |-> id, remoteAction |-> action, names |-> names, replace |-> replace]

\* send with isPromise, to each engine of ds: names[d] goes to d.
Promised(ds, action, names) ==
  [d \in Remote |->
     IF d \in ds
     THEN Append(promise[d], [remoteAction |-> action, names |-> names[d],
                              state |-> "pending", results |-> {}])
     ELSE promise[d]]

Posted(ds, action, names, replace) ==
  [d \in Remote |->
     IF d \in ds
     THEN Append(toRemote[d], Message(Len(promise[d]) + 1, action, names[d], d \in replace))
     ELSE toRemote[d]]

NewPromises(ds) == {<<d, Len(promise[d]) + 1>> : d \in ds}

SendMsg(ds, action, names, replace) ==
  /\ promise' = Promised(ds, action, names)
  /\ toRemote' = Posted(ds, action, names, replace)
  /\ UNCHANGED toClient

NoNames == [d \in Remote |-> {}]

\* Promise.all: every promise is resolved, or one is rejected.
AllResolved(ps) == \A p \in ps : State(p) = "resolved"
OneRejected(ps) == \E p \in ps : State(p) = "rejected"

Settled(p, reply) ==
  [p EXCEPT !.state = IF reply.err THEN "rejected" ELSE "resolved", !.results = reply.results]

\* Mutant: a reply settles the promise that was made last.
SettleLast(d, reply) ==
  promise' = [promise EXCEPT ![d][Len(promise[d])] = Settled(@, reply)]

\* newF: the promise of the reply's msgId, if it has one, is settled.
Settle(d, reply) ==
  promise' = IF reply.msgId = 0 THEN promise
             ELSE [promise EXCEPT ![d][reply.msgId] = Settled(@, reply)]

\* Mutant: the handler is set only when the engine is set up.
HandleReplyOnceSetUp(d) ==
  /\ engineSetup[d] = "done"
  /\ toClient[d] # <<>>
  /\ Settle(d, Head(toClient[d]))
  /\ toClient' = [toClient EXCEPT ![d] = Tail(@)]
  /\ UNCHANGED <<setupVars, planVars, toRemote, remoteVars, faults>>

HandleReply(d) ==
  /\ toClient[d] # <<>>
  /\ Settle(d, Head(toClient[d]))
  /\ toClient' = [toClient EXCEPT ![d] = Tail(@)]
  /\ UNCHANGED <<setupVars, planVars, toRemote, remoteVars, faults>>

-----------------------------------------------------------------------------
(***************************************************************************)
(* The remote databases (external).  A database that is not open has only  *)
(* errors to answer with, and so has one that is given a relation it has.  *)
(***************************************************************************)
Refused(d, m) ==
  \/ m.remoteAction \in {"DefineRelations", "GetResultsByPromise"} /\ ~remote[d].open
  \/ /\ m.remoteAction = "DefineRelations"
     /\ ~m.replace
     /\ m.names \cap remote[d].relations # {}

Executed(d, m) ==
  [open      |-> IF m.remoteAction \in {"ConnectToDb", "Close"}
                 THEN m.remoteAction = "ConnectToDb" ELSE remote[d].open,
   relations |-> IF m.remoteAction = "DefineRelations"
                 THEN remote[d].relations \cup m.names ELSE remote[d].relations]

Results(d, m, err) ==
  IF m.remoteAction = "GetResultsByPromise" /\ ~err THEN remote[d].relations ELSE {}

\* A message can fail on its own account as well; Close has no reply.
Execute(d) ==
  /\ d \notin silent
  /\ toRemote[d] # <<>>
  /\ LET m == Head(toRemote[d])
     IN  \E err \in {Refused(d, m), TRUE} :
           /\ faults' = IF err = Refused(d, m) THEN faults ELSE faults + 1
           /\ faults' <= MaxFaults
           /\ remote' = IF err THEN remote ELSE [remote EXCEPT ![d] = Executed(d, m)]
           /\ toClient' =
                IF m.remoteAction = "Close" THEN toClient
                ELSE [toClient EXCEPT ![d] =
                        Append(@, [msgId |-> m.msgId, err |-> err, results |-> Results(d, m, err)])]
  /\ toRemote' = [toRemote EXCEPT ![d] = Tail(@)]
  /\ UNCHANGED <<setupVars, planVars, promise, silent>>

\* A Worker that crashes or a WebSocket that closes: nothing tells the client.
LoseConnection(d) ==
  /\ d \notin silent
  /\ faults < MaxFaults
  /\ faults' = faults + 1
  /\ silent' = silent \cup {d}
  /\ UNCHANGED <<setupVars, planVars, wireVars, remote>>

-----------------------------------------------------------------------------
(***************************************************************************)
(* DielRuntime.setup.                                                      *)
(***************************************************************************)
\* Something setup awaits is rejected: the page is never loaded.
Fail ==
  /\ phase' = "failed"
  /\ UNCHANGED <<engineSetup, connection, awaiting, relationLocation,
                 planVars, wireVars, remoteVars>>

\* A file cannot be fetched.
FailToFetch ==
  /\ phase \in {"mainDb", "files"}
  /\ faults < MaxFaults
  /\ faults' = faults + 1
  /\ Fail

SetupMainDb ==
  /\ phase = "mainDb"
  /\ phase' = "remotes"
  /\ local' = Tables[LocalDbId]
  /\ engineSetup' = [d \in Remote |-> "connecting"]
  /\ UNCHANGED <<connection, awaiting, relationLocation, spec, planned, runtimeOutputs,
                 calls, wireVars, remoteVars, faults>>

\* DbEngine.setup up to its await: the socket is open or the data file is there.
ConnectEngine(d) ==
  /\ engineSetup[d] = "connecting"
  /\ engineSetup' = [engineSetup EXCEPT ![d] = "opening"]
  /\ connection' = connection \cup {d}
  /\ SendMsg({d}, "ConnectToDb", NoNames, {})
  /\ UNCHANGED <<phase, awaiting, relationLocation, planVars, remoteVars, faults>>

\* new Worker throws or the socket does not open: the user is told, and setup
\* goes on without a connection.  A data file that is not there rejects.
FailToConnect(d) ==
  /\ engineSetup[d] = "connecting"
  /\ faults < MaxFaults
  /\ faults' = faults + 1
  /\ \/ engineSetup' = [engineSetup EXCEPT ![d] = "done"]
     \/ DbKind[d] = "Worker" /\ engineSetup' = [engineSetup EXCEPT ![d] = "rejected"]
  /\ UNCHANGED <<phase, connection, awaiting, relationLocation, planVars, wireVars, remoteVars>>

\* The answer to ConnectToDb, the first message: only a socket's error is caught.
EngineOpened(d) ==
  /\ engineSetup[d] = "opening"
  /\ State(<<d, 1>>) # "pending"
  /\ engineSetup' = [engineSetup EXCEPT ![d] =
                       IF State(<<d, 1>>) = "rejected" /\ DbKind[d] = "Worker"
                       THEN "rejected" ELSE "done"]
  /\ UNCHANGED <<phase, connection, awaiting, relationLocation, planVars, wireVars,
                 remoteVars, faults>>

\* initialCompile up to its await: each engine is asked for its tables, and
\* getMetaData throws where there is no connection.
GetMetaData ==
  /\ phase = "remotes"
  /\ \A d \in Remote : engineSetup[d] = "done"
  /\ phase' = IF connection = Remote THEN "metadata" ELSE "failed"
  /\ SendMsg(connection, "GetResultsByPromise", NoNames, {})
  /\ awaiting' = NewPromises(connection)
  /\ UNCHANGED <<engineSetup, connection, relationLocation, planVars, remoteVars, faults>>

\* The tables of a database: of the main one, or in the answer that was awaited.
MetaData(d) ==
  IF d = LocalDbId THEN local
  ELSE UNION {promise[d][i].results : i \in {i \in DOMAIN promise[d] : <<d, i>> \in awaiting}}

\* Mutant: a name goes to the last database that has it.
LocationLast(n) ==
  CHOOSE d \in Db : n \in MetaData(d) /\ \A c \in Db : n \in MetaData(c) => c <= d

\* In the order of the configuration; a name that is there already is only logged.
Location(n) ==
  CHOOSE d \in Db : n \in MetaData(d) /\ \A c \in Db : n \in MetaData(c) => d <= c

LocateRelations ==
  /\ phase = "metadata"
  /\ AllResolved(awaiting)
  /\ phase' = "files"
  /\ relationLocation' = [n \in UNION {MetaData(d) : d \in Db} |-> Location(n)]
  /\ UNCHANGED <<engineSetup, connection, awaiting, planVars, wireVars, remoteVars, faults>>

\* Promise.all of the engines' set-ups, of the metadata or of the definitions.
SetupRejected ==
  /\ \/ phase = "remotes" /\ \E d \in Remote : engineSetup[d] = "rejected"
     \/ phase \in {"metadata", "execute"} /\ OneRejected(awaiting)
  /\ Fail
  /\ UNCHANGED faults

Specified == {d \in Remote : Definitions[d] # {}}
Sockets == {d \in Remote : DbKind[d] = "Socket"}

WithCleanUp(posted) ==
  [d \in Remote |-> IF d \in Specified \cap Sockets
                    THEN Append(posted[d], Message(0, "CleanUpQueries", Definitions[d], FALSE))
                    ELSE posted[d]]

\* The rest of initialCompile, and executeToDBs up to its await.
ExecuteToDBs ==
  /\ phase = "files"
  /\ phase' = "execute"
  /\ spec' = Definitions
  /\ planned' = Specified
  /\ local' = local \cup Definitions[LocalDbId]
  /\ promise' = Promised(Specified, "DefineRelations", Definitions)
  /\ toRemote' = WithCleanUp(Posted(Specified, "DefineRelations", Definitions, Sockets))
  /\ awaiting' = NewPromises(Specified)
  /\ UNCHANGED <<engineSetup, connection, relationLocation, runtimeOutputs, calls, toClient,
                 remoteVars, faults>>

\* Mutant: the page is loaded without waiting for the definitions.
LoadAtOnce ==
  /\ phase = "execute"
  /\ phase' = "loaded"
  /\ runtimeOutputs' = Output \cap local
  /\ UNCHANGED <<engineSetup, connection, awaiting, relationLocation, spec, planned, local,
                 calls, wireVars, remoteVars, faults>>

\* setupNewOutput prepares what is there, and then the page is loaded.
LoadPage ==
  /\ phase = "execute"
  /\ AllResolved(awaiting)
  /\ phase' = "loaded"
  /\ runtimeOutputs' = Output \cap local
  /\ UNCHANGED <<engineSetup, connection, awaiting, relationLocation, spec, planned, local,
                 calls, wireVars, remoteVars, faults>>

-----------------------------------------------------------------------------
(***************************************************************************)
(* Views added to a running program.                                       *)
(***************************************************************************)
\* addNewRelationsToExistingSpec: what the databases are not yet planned to have.
NewFor(v, d) == {n \in Name : <<d, n>> \in Instructions[v]} \ spec[d]

\* incrementalExecuteToDb up to its await.
AddViewByAst(v) ==
  /\ phase = "loaded"
  /\ Len(calls) < MaxAdds
  /\ LET ds == {d \in Remote : NewFor(v, d) # {}}
     IN  /\ planned' = planned \cup ds
         /\ SendMsg(ds, "DefineRelations", [d \in Remote |-> NewFor(v, d)], {})
         /\ calls' = Append(calls, [view |-> v, awaits |-> NewPromises(ds), done |-> FALSE])
  /\ spec' = [d \in Db |-> spec[d] \cup NewFor(v, d)]
  /\ local' = local \cup NewFor(v, LocalDbId)
  /\ UNCHANGED <<setupVars, runtimeOutputs, remoteVars, faults>>

\* Mutant: the statement is prepared before the databases have answered.
ViewAddedAtOnce(i) ==
  /\ i \in DOMAIN calls
  /\ ~calls[i].done
  /\ calls' = [calls EXCEPT ![i].done = TRUE]
  /\ runtimeOutputs' = runtimeOutputs \cup ({calls[i].view} \cap local)
  /\ UNCHANGED <<setupVars, spec, planned, local, wireVars, remoteVars, faults>>

\* Mutant: a rejection is not passed on.
ViewAddedIfResolved(i) ==
  /\ i \in DOMAIN calls
  /\ ~calls[i].done
  /\ AllResolved(calls[i].awaits)
  /\ calls' = [calls EXCEPT ![i].done = TRUE]
  /\ runtimeOutputs' = runtimeOutputs \cup ({calls[i].view} \cap local)
  /\ UNCHANGED <<setupVars, spec, planned, local, wireVars, remoteVars, faults>>

\* The continuation: setupNewOutput, or a rejection; after ShutDown no
\* statement can be prepared.
ViewAdded(i) ==
  /\ i \in DOMAIN calls
  /\ ~calls[i].done
  /\ AllResolved(calls[i].awaits) \/ OneRejected(calls[i].awaits)
  /\ calls' = [calls EXCEPT ![i].done = TRUE]
  /\ runtimeOutputs' =
       IF AllResolved(calls[i].awaits) /\ phase = "loaded"
       THEN runtimeOutputs \cup ({calls[i].view} \cap local)
       ELSE runtimeOutputs
  /\ UNCHANGED <<setupVars, spec, planned, local, wireVars, remoteVars, faults>>

\* Close posts a message to a Worker; for a socket it does nothing.
ShutDown ==
  /\ phase = "loaded"
  /\ phase' = "shut"
  /\ toRemote' = [d \in Remote |->
       IF DbKind[d] = "Worker" THEN Append(toRemote[d], Message(0, "Close", {}, FALSE))
       ELSE toRemote[d]]
  /\ UNCHANGED <<engineSetup, connection, awaiting, relationLocation, planVars, promise,
                 toClient, remoteVars, faults>>

-----------------------------------------------------------------------------
Next ==
  \/ SetupMainDb \/ GetMetaData \/ LocateRelations \/ ExecuteToDBs \/ LoadPage
  \/ SetupRejected \/ FailToFetch \/ ShutDown
  \/ \E d \in Remote : \/ ConnectEngine(d) \/ FailToConnect(d) \/ EngineOpened(d)
                       \/ HandleReply(d) \/ Execute(d) \/ LoseConnection(d)
  \/ \E v \in Added : AddViewByAst(v)
  \/ \E i \in 1..MaxAdds : ViewAdded(i)

(***************************************************************************)
(* What is not stopped goes on: the browser runs the continuations and     *)
(* handlers that are ready, the network and the databases answer unless    *)
(* the connection is lost.  Nothing makes the page add views or shut down. *)
(***************************************************************************)
Fairness ==
  /\ WF_vars(SetupMainDb \/ GetMetaData \/ LocateRelations \/ ExecuteToDBs \/ LoadPage
             \/ SetupRejected)
  /\ \A d \in Remote : /\ WF_vars(ConnectEngine(d) \/ FailToConnect(d))
                       /\ WF_vars(EngineOpened(d))
                       /\ WF_vars(HandleReply(d))
                       /\ WF_vars(Execute(d))
  /\ \A i \in 1..MaxAdds : WF_vars(ViewAdded(i))

Spec == Init /\ [][Next]_vars

FairSpec == Spec /\ Fairness

-----------------------------------------------------------------------------
PromiseType ==
  [remoteAction : {"ConnectToDb", "GetResultsByPromise", "DefineRelations"},
   names : SUBSET Name, state : {"pending", "resolved", "rejected"}, results : SUBSET Name]

MessageType ==
  [msgId : Nat, names : SUBSET Name, replace : BOOLEAN,
   remoteAction : {"ConnectToDb", "GetResultsByPromise", "DefineRelations", "CleanUpQueries", "Close"}]

ReplyType == [msgId : Nat, err : BOOLEAN, results : SUBSET Name]

CallType == [view : Added, awaits : SUBSET (Remote \X Nat), done : BOOLEAN]

(***************************************************************************)
(* The state of a set-up has its type, and what is on its way in either    *)
(* direction belongs to a promise that was made, if to any.                *)
(***************************************************************************)
TypeOK ==
  /\ phase \in {"mainDb", "remotes", "metadata", "files", "execute", "loaded", "shut", "failed"}
  /\ engineSetup \in [Remote -> {"new", "connecting", "opening", "done", "rejected"}]
  /\ connection \subseteq Remote /\ planned \subseteq Remote /\ silent \subseteq Remote
  /\ promise \in [Remote -> Seq(PromiseType)]
  /\ awaiting \subseteq Promises
  /\ relationLocation \in [DOMAIN relationLocation -> Db]
  /\ spec \in [Db -> SUBSET Name]
  /\ local \subseteq Name /\ runtimeOutputs \subseteq Name
  /\ calls \in Seq(CallType)
  /\ toRemote \in [Remote -> Seq(MessageType)]
  /\ toClient \in [Remote -> Seq(ReplyType)]
  /\ \A d \in Remote : \A i \in DOMAIN toRemote[d] : toRemote[d][i].msgId \in 0..Len(promise[d])
  /\ \A d \in Remote : \A i \in DOMAIN toClient[d] : toClient[d][i].msgId \in 0..Len(promise[d])
  /\ remote \in [Remote -> [open : BOOLEAN, relations : SUBSET Name]]
  /\ faults \in 0..MaxFaults

(***************************************************************************)
(* A page is loaded only when the whole set-up has happened: every remote  *)
(* database has what the program defines in it and the engine knows the    *)
(* plan, although set-up goes on after an engine that could not be         *)
(* connected (DbEngine.ts:93), and outputs have their statements.          *)
(***************************************************************************)
LoadedIsComplete ==
  phase \in {"loaded", "shut"} =>
    /\ connection = Remote
    /\ \A d \in Remote : Definitions[d] \subseteq remote[d].relations
    /\ Specified \subseteq planned
    /\ Output \cap Definitions[LocalDbId] \subseteq runtimeOutputs

(***************************************************************************)
(* Where a name is looked for depends on the configuration alone, and not  *)
(* on the order in which the databases answered (DielRuntime.ts:492).      *)
(***************************************************************************)
LocationsAsConfigured ==
  phase \in {"files", "execute", "loaded", "shut"} =>
    \A n \in Name :
      /\ n \in DOMAIN relationLocation <=> \E d \in Db : n \in Tables[d]
      /\ n \in DOMAIN relationLocation =>
           /\ n \in Tables[relationLocation[n]]
           /\ \A d \in Db : n \in Tables[d] => relationLocation[n] <= d

\* A definition of n that d has still to execute.
OnItsWay(d, n) ==
  \E i \in DOMAIN toRemote[d] :
    toRemote[d][i].remoteAction = "DefineRelations" /\ n \in toRemote[d][i].names

\* A definition of n that was asked of d and that failed.
WasRefused(d, n) ==
  \/ \E i \in DOMAIN promise[d] : /\ promise[d][i].remoteAction = "DefineRelations"
                                  /\ n \in promise[d][i].names
                                  /\ promise[d][i].state = "rejected"
  \/ \E i \in DOMAIN toClient[d] : /\ toClient[d][i].err
                                   /\ toClient[d][i].msgId > 0
                                   /\ n \in promise[d][toClient[d][i].msgId].names

(***************************************************************************)
(* A view is only added where the plan does not have it yet, so a second   *)
(* view relies on definitions the first one may still be waiting for       *)
(* (DielPhysicalExecution.ts:108).  Whatever the plan says a database has, *)
(* it has, or it will have before anything that is sent to it from now on, *)
(* or the definition was refused.                                          *)
(***************************************************************************)
PlannedIsDefined ==
  \A d \in Remote : \A n \in spec[d] :
    n \in remote[d].relations \/ OnItsWay(d, n) \/ WasRefused(d, n)

\* The databases have executed everything that call c asked of them.
OwnDefined(c) ==
  \A p \in c.awaits : /\ State(p) = "resolved"
                      /\ promise[p[1]][p[2]].names \subseteq remote[p[1]].relations

(***************************************************************************)
(* A call of AddViewByAst that has returned was rejected, or the databases *)
(* have what it asked of them, whatever other calls wait for; and an output*)
(* that is not the program's has its statement only when a call for it has *)
(* returned like that (DielRuntime.ts:914).                                *)
(***************************************************************************)
AddedWhenDefined ==
  /\ \A i \in DOMAIN calls :
       calls[i].done => OwnDefined(calls[i]) \/ OneRejected(calls[i].awaits)
  /\ \A v \in runtimeOutputs \ Output :
       \E i \in DOMAIN calls : calls[i].view = v /\ calls[i].done /\ OwnDefined(calls[i])

NoClash ==
  \A d \in Remote : DbKind[d] = "Worker" => Definitions[d] \cap Tables[d] = {}

\* If nothing fails, the page is loaded.
PageLoads == NoClash => <>(phase = "loaded" \/ faults > 0)

\* A call of AddViewByAst returns, unless a connection is lost.
CallsReturn ==
  \A i \in 1..MaxAdds :
    (i \in DOMAIN calls) ~> ((i \in DOMAIN calls /\ calls[i].done) \/ silent # {})
=============================================================================
