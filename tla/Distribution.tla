---------------------------- MODULE Distribution ----------------------------
(***************************************************************************)
(* The physical execution plan (src/src/compiler/DielPhysicalExecution.ts, *)
(* src/src/compiler/passes/distributeQueries.ts): on which database each   *)
(* relation is evaluated, what is defined where, what is shipped where,    *)
(* and how outputs over remote data are split by the default policy        *)
(* (src/src/runtime/asyncPolicies.ts).  The plan is made when the runtime  *)
(* is set up and extended when views are added to the running program.     *)
(*                                                                         *)
(* A definition is one selection; it is abstracted to its references (the  *)
(* from clause and the joins), each a sequence of names: one name, or all  *)
(* those of a subquery.                                                    *)
(***************************************************************************)
EXTENDS DependencyTree

CONSTANTS
  DbType,            \* [ids of databases -> {"Local", "Worker", "Socket"}]
  RelationLocation,  \* [registered tables -> ids of databases]
  EventTable, Table, \* the other tables
  Programs,          \* sequences of definitions, each after what it reads
  Additions,         \* derived relations that may be added or defined anew later
  MaxRunning         \* bound on those additions

LocalDbId == 1
Db == DOMAIN DbType
NoDb == 0

ASSUME PlanAssumption ==
  /\ LocalDbId \in Db /\ NoDb \notin Db
  /\ DbType \in [Db -> {"Local", "Worker", "Socket"}]
  /\ \A d \in Db : DbType[d] = "Local" <=> d = LocalDbId
  /\ RelationLocation \in [DOMAIN RelationLocation -> Db]
  /\ EventTable \cap Table = {}
  /\ DOMAIN RelationLocation \cap (EventTable \cup Table) = {}
  /\ IsFiniteSet(DOMAIN RelationLocation \cup EventTable \cup Table)
  /\ MaxRunning \in Nat

VARIABLES
  ast,                \* [relations, depTree]: the program, by name, and who reads whom
  cache,              \* metaData.cache
  pending,            \* the outputs the constructor has not planned yet
  augmentedDep,       \* the dependency tree with the location of each table
  distributions,      \* what is needed where, for which relation and output
  sqlAstSpecPerDb,    \* what each database defines
  cachedEventViews,
  phase,              \* "plan" or "run"
  running,            \* how often MaxRunning has been used
  rejected,           \* history: the additions that ended in an error,
  replaced            \* and the relations that were defined anew

vars == <<ast, cache, pending, augmentedDep, distributions, sqlAstSpecPerDb,
          cachedEventViews, phase, running, rejected, replaced>>

-----------------------------------------------------------------------------
(***************************************************************************)
(* The program.  AddRelation refuses a name that is taken, so the array of *)
(* relations is a function; its order shows only in the order in which the *)
(* outputs are planned.                                                    *)
(***************************************************************************)
Relation(r, type, refs) == [rName |-> r, relationType |-> type, refs |-> refs]

Concatenation(seqs) ==
  LET after[i \in 0..Len(seqs)] == IF i = 0 THEN <<>> ELSE after[i - 1] \o seqs[i]
  IN  after[Len(seqs)]

Reads(rel) == Concatenation(rel.refs)

IsRelationTypeDerived(type) == type \in {"View", "EventView", "Output"}

Has(a, r) == r \in DOMAIN a.relations

GetRelationDef(a, r) == a.relations[r]

TypeOf(a, r) == GetRelationDef(a, r).relationType

OfType(a, types) == {r \in DOMAIN a.relations : TypeOf(a, r) \in types}

Events(a) == OfType(a, {"EventTable", "EventView"})

\* AddRelation of DielAstVisitors: a name that is there already is refused.
AddRelation(a, rel) ==
  IF Has(a, rel.rName) THEN a
  ELSE LET added == [a EXCEPT !.relations =
                       [r \in DOMAIN @ \cup {rel.rName} |-> IF r = rel.rName THEN rel ELSE @[r]]]
       IN  IF IsRelationTypeDerived(rel.relationType)
           THEN [added EXCEPT !.depTree =
                   AddSingleDependency(@, Reads(rel), rel.rName, Events(added))]
           ELSE added

\* DeleteRelation returns before it has deleted the node.
DeleteRelation(a, r) ==
  [a EXCEPT !.relations = [s \in DOMAIN @ \ {r} |-> @[s]]]

TableNames == EventTable \cup Table \cup DOMAIN RelationLocation

Tables ==
  [r \in TableNames |->
     Relation(r, IF r \in EventTable THEN "EventTable"
                 ELSE IF r \in Table THEN "Table" ELSE "ExistingAndImmutable", <<>>)]

Compiled(program) ==
  LET after[i \in 0..Len(program)] ==
        IF i = 0 THEN [relations |-> Tables, depTree |-> EmptyTree]
        ELSE AddRelation(after[i - 1], program[i])
  IN  after[Len(program)]

\* GetAllOutputs, in the order of the program.
GetAllOutputs(program) ==
  Keep([i \in DOMAIN program |-> program[i].rName], OfType(Compiled(program), {"Output"}))

(***************************************************************************)
(* The names that are made of others, and what is asked of a program: that *)
(* it does not use them itself, that a definition has a from clause, and   *)
(* that it comes after what it reads, so that nothing reads itself.        *)
(***************************************************************************)
AsyncView(o) == o \o "AsyncView"
CacheName(r) == r \o "Cache"
ReferenceName(r) == r \o "Reference"

ProgramNames ==
  TableNames \cup {rel.rName : rel \in Additions}
             \cup UNION {{program[i].rName : i \in DOMAIN program} : program \in Programs}

Evaluated == ProgramNames \cup {AsyncView(r) : r \in ProgramNames}

AllNames ==
  Evaluated \cup {CacheName(r) : r \in Evaluated} \cup {ReferenceName(r) : r \in Evaluated}

Definition == [rName : ProgramNames, relationType : {"View", "EventView", "Output"},
               refs : Seq(Seq(AllNames))]

ASSUME NameAssumption ==
  /\ \A r \in ProgramNames : AsyncView(r) \notin ProgramNames
  /\ \A r, s \in ProgramNames : AsyncView(r) = AsyncView(s) => r = s
  /\ \A r \in Evaluated : {CacheName(r), ReferenceName(r)} \cap Evaluated = {}
  /\ \A r, s \in Evaluated : CacheName(r) # ReferenceName(s)
  /\ \A r, s \in Evaluated : CacheName(r) = CacheName(s) => r = s

ASSUME ProgramAssumption ==
  /\ Additions \subseteq Definition /\ \A rel \in Additions : Reads(rel) # <<>>
  /\ Programs \subseteq Seq(Definition)
  /\ \A program \in Programs : \A i \in DOMAIN program :
       LET before == TableNames \cup {program[j].rName : j \in 1..(i - 1)}
       IN  /\ program[i].rName \notin before
           /\ Reads(program[i]) # <<>> /\ ToSet(Reads(program[i])) \subseteq before

-----------------------------------------------------------------------------
(***************************************************************************)
(* augmentDepTree: tables of the program live in the main database, those  *)
(* that were registered where they were found; views are placed later.     *)
(***************************************************************************)
RemoteId(a, r) ==
  CASE TypeOf(a, r) \in {"EventTable", "Table"} -> LocalDbId
    [] TypeOf(a, r) = "ExistingAndImmutable"    -> RelationLocation[r]
    [] OTHER                                    -> NoDb

AugmentDepTree(a) ==
  [r \in {s \in DOMAIN a.depTree.node : Has(a, s)} |->
     [remoteId |-> RemoteId(a, r), dependsOn |-> a.depTree.node[r].dependsOn]]

(***************************************************************************)
(* selectRelationEvalOwner: the first socket, else the last worker, of the *)
(* databases that the dependencies are at.                                 *)
(***************************************************************************)
SelectRelationEvalOwner(ids) ==
  LET Met(d)   == SelectInSeq(ids, LAMBDA x : x = d)
      Of(type) == {d \in ToSet(ids) \cap Db : DbType[d] = type}
      sockets  == Of("Socket")
      workers  == Of("Worker")
  IN  CASE sockets # {} -> CHOOSE d \in sockets : \A x \in sockets : Met(d) <= Met(x)
        [] sockets = {} /\ workers # {} ->
             CHOOSE d \in workers : \A x \in workers : Met(x) <= Met(d)
        [] OTHER -> LocalDbId

Distribution(r, from, to, forRelation, output) ==
  [relationName |-> r, from |-> from, to |-> to,
   forRelationName |-> forRelation, finalOutputName |-> output]

(***************************************************************************)
(* QueryDistributionRecursiveEval: a table is where it is; a view is       *)
(* evaluated by the owner of what it reads, to which the rest is shipped;  *)
(* the results of event views and outputs are shipped to the main database *)
(* and read there.  A result without database (null) is left out.  The     *)
(* recursion ends because no relation reads itself, directly or not.       *)
(***************************************************************************)
Result(r, list, dbId, fromDbId) ==
  [relationName |-> r, list |-> list, dbId |-> dbId, fromDbId |-> fromDbId]

NoResult(r) == Result(r, <<>>, NoDb, NoDb)

ResultOfTable(output, r, remoteId) ==
  Result(r, <<Distribution(r, remoteId, remoteId, r, output)>>, remoteId, remoteId)

\* What the evaluations of what r reads have found, and the results shipped to the owner.
ListOfDerived(output, r, owner, results) ==
  Concatenation([i \in DOMAIN results |-> results[i].list])
  \o Concatenation([i \in DOMAIN results |->
       IF results[i].dbId = NoDb THEN <<>>
       ELSE <<Distribution(results[i].relationName, results[i].dbId, owner, r, output)>>])

ResultOfDerived(output, r, type, results) ==
  LET owner == SelectRelationEvalOwner([i \in DOMAIN results |-> results[i].dbId])
      list  == ListOfDerived(output, r, owner, results)
  IN  IF type \in {"EventView", "Output"}
      THEN Result(r, Append(list, Distribution(r, owner, LocalDbId, r, output)),
                  LocalDbId, owner)
      ELSE Result(r, list, owner, owner)

Evaluation(a, aug, output) ==
  LET eval[r \in DOMAIN aug] ==
        IF aug[r].dependsOn = <<>> THEN ResultOfTable(output, r, aug[r].remoteId)
        ELSE ResultOfDerived(output, r, TypeOf(a, r),
               Concatenation([i \in DOMAIN aug[r].dependsOn |->
                 <<IF aug[r].dependsOn[i] \in DOMAIN aug THEN eval[aug[r].dependsOn[i]]
                   ELSE NoResult(aug[r].dependsOn[i])>>]))
  IN  eval

QueryDistributionRecursiveEval(a, aug, output, r) ==
  IF r \in DOMAIN aug THEN Evaluation(a, aug, output)[r] ELSE NoResult(r)

-----------------------------------------------------------------------------
(***************************************************************************)
(* The default policy: an output that is evaluated remotely becomes an     *)
(* event view with its definition and an output that shows its latest rows *)
(* (the reference and the subquery of LATEST both name the event view).    *)
(***************************************************************************)
ApplyAsyncPolicy(a, o) ==
  AddRelation(
    AddRelation(DeleteRelation(a, o),
                Relation(AsyncView(o), "EventView", GetRelationDef(a, o).refs)),
    Relation(o, "Output", <<<<AsyncView(o)>>, <<AsyncView(o)>>>>))

\* Mutant: what the output needed is still needed by the output.
RetargetNothing(list, o, owner) ==
  [i \in DOMAIN list |-> IF list[i].relationName = o THEN [list[i] EXCEPT !.from = LocalDbId]
                         ELSE list[i]]
  \o <<Distribution(AsyncView(o), owner, LocalDbId, AsyncView(o), o),
       Distribution(AsyncView(o), LocalDbId, LocalDbId, o, o)>>

Retarget(list, o, owner) ==
  [i \in DOMAIN list |->
     CASE list[i].relationName = o -> [list[i] EXCEPT !.from = LocalDbId]
       [] list[i].relationName # o /\ list[i].forRelationName = o ->
            [list[i] EXCEPT !.forRelationName = AsyncView(o)]
       [] OTHER -> list[i]]
  \o <<Distribution(AsyncView(o), owner, LocalDbId, AsyncView(o), o),
       Distribution(AsyncView(o), LocalDbId, LocalDbId, o, o)>>

(***************************************************************************)
(* distributedEvalForOutput.  A relation that is neither output nor event  *)
(* view has no distribution of its own, which is an internal error when the*)
(* policy has already been applied to it: ok is FALSE.                     *)
(***************************************************************************)
SplitIfRemote(a, o, result) ==
  LET self == \E i \in DOMAIN result.list : result.list[i].relationName = o
  IN  CASE result.fromDbId = NoDb -> [ast |-> a, new |-> <<>>, ok |-> FALSE]
        [] result.fromDbId = LocalDbId -> [ast |-> a, new |-> result.list, ok |-> TRUE]
        [] result.fromDbId \notin {NoDb, LocalDbId} ->
             [ast |-> ApplyAsyncPolicy(a, o),
              new |-> IF self THEN Retarget(result.list, o, result.fromDbId) ELSE <<>>,
              ok  |-> self]

DistributedEvalForOutput(a, aug, o) ==
  SplitIfRemote(a, o, QueryDistributionRecursiveEval(a, aug, o, o))

-----------------------------------------------------------------------------
(***************************************************************************)
(* What the databases define.  A relation of a database is a view or a     *)
(* table; isDynamic marks the tables that events and shipments fill, and   *)
(* timeColumns those with the columns TIMESTEP and REQUEST_TIMESTEP.       *)
(***************************************************************************)
SqlView(r, reads) ==
  [rName |-> r, relationType |-> "View", isDynamic |-> FALSE, timeColumns |-> FALSE,
   reads |-> reads]

SqlTable(r, dynamic, timeColumns) ==
  [rName |-> r, relationType |-> "Table", isDynamic |-> dynamic, timeColumns |-> timeColumns,
   reads |-> <<>>]

\* A registered table is remote to the caching code wherever it was found.
DependsOnLocalTables(names) == \E i \in DOMAIN names : names[i] \notin DOMAIN RelationLocation

DependsOnRemoteTables(names) == \E i \in DOMAIN names : names[i] \in DOMAIN RelationLocation

IsEventViewCacheable(rel) ==
  \A i \in DOMAIN rel.refs :
    ~(DependsOnLocalTables(rel.refs[i]) /\ DependsOnRemoteTables(rel.refs[i]))

\* Mutant: the table of the references is left out.
CacheRelationsTwo(r) ==
  <<[dbId |-> LocalDbId, def |-> SqlTable(CacheName(r), TRUE, TRUE)],
    [dbId |-> LocalDbId, def |-> SqlView(r, <<CacheName(r), ReferenceName(r)>>)]>>

\* GetCachedEventView: the cache, what refers to it, and their join.
CacheRelations(r) ==
  <<[dbId |-> LocalDbId, def |-> SqlTable(CacheName(r), TRUE, TRUE)],
    [dbId |-> LocalDbId, def |-> SqlTable(ReferenceName(r), TRUE, TRUE)],
    [dbId |-> LocalDbId, def |-> SqlView(r, <<CacheName(r), ReferenceName(r)>>)]>>

UsesCache(a, d) ==
  /\ cache
  /\ TypeOf(a, d.relationName) = "EventView"
  /\ d.from # d.to /\ d.to = LocalDbId
  /\ IsEventViewCacheable(GetRelationDef(a, d.relationName))

\* Mutant: the table that receives the result of an event view is as static as another.
DefinitionsStatic(a, d) ==
  <<[dbId |-> d.from, def |-> SqlView(d.relationName, Reads(GetRelationDef(a, d.relationName)))],
    [dbId |-> d.to, def |-> SqlTable(d.relationName, FALSE, FALSE)]>>

(***************************************************************************)
(* getExecutionSpecForSingleDistribution: the definitions a distribution   *)
(* asks for, the one that is to win when a name is asked for twice first.  *)
(***************************************************************************)
Definitions(a, d) ==
  LET rel   == GetRelationDef(a, d.relationName)
      type  == rel.relationType
      view  == SqlView(rel.rName, Reads(rel))
      At(db, def) == [dbId |-> db, def |-> def]
  IN  CASE d.from = NoDb \/ d.to = NoDb -> <<>>
        [] type \in {"Table", "EventTable"} ->
             LET table == SqlTable(rel.rName, type = "EventTable",
                                   type = "EventTable" /\ d.to = LocalDbId)
             IN  <<At(d.from, table), At(d.to, table)>>
        [] type = "ExistingAndImmutable" ->
             IF d.from = d.to THEN <<>> ELSE <<At(d.to, SqlTable(rel.rName, FALSE, FALSE))>>
        [] UsesCache(a, d) -> Append(CacheRelations(rel.rName), At(d.from, view))
        [] type \in {"View", "EventView"} /\ ~UsesCache(a, d) ->
             <<At(d.from, view),
               At(d.to, SqlTable(rel.rName, TRUE, type = "EventView" /\ d.to = LocalDbId))>>
        [] type = "Output" ->
             CASE d.from # d.to /\ d.from # LocalDbId -> <<>>
               [] d.to # LocalDbId /\ d.from = LocalDbId ->
                    <<At(LocalDbId, view), At(d.to, SqlTable(rel.rName, TRUE, FALSE))>>
               [] OTHER -> <<At(LocalDbId, view)>>

\* runtime.AddRelation of the cache tables; the view has a name that is taken.
AddCacheTablesOf(a, r) ==
  AddRelation(AddRelation(a, Relation(CacheName(r), "EventTable", <<>>)),
              Relation(ReferenceName(r), "Table", <<>>))

AddCacheTables(a, list) ==
  LET after[i \in 0..Len(list)] ==
        IF i = 0 THEN a
        ELSE IF UsesCache(a, list[i]) THEN AddCacheTablesOf(after[i - 1], list[i].relationName)
        ELSE after[i - 1]
  IN  after[Len(list)]

Cached(a, list) == {d.relationName : d \in {e \in ToSet(list) : UsesCache(a, e)}}

AddRelationIfOnlyNotExist(spec, def) ==
  IF \E i \in DOMAIN spec : spec[i].rName = def.rName THEN spec ELSE Append(spec, def)

AddDefinition(specs, x) ==
  [db \in DOMAIN specs \cup {x.dbId} |->
     IF db # x.dbId THEN specs[db]
     ELSE AddRelationIfOnlyNotExist(IF db \in DOMAIN specs THEN specs[db] ELSE <<>>, x.def)]

AddDefinitions(specs, asked) ==
  LET after[i \in 0..Len(asked)] ==
        IF i = 0 THEN specs ELSE AddDefinition(after[i - 1], asked[i])
  IN  after[Len(asked)]

\* Mutant: the list is worked off from its end.
AddNewRelationsBackwards(specs, a, list) ==
  AddDefinitions(specs,
    Concatenation([i \in DOMAIN list |-> Definitions(a, list[Len(list) + 1 - i])]))

AddNewRelations(specs, a, list) ==
  AddDefinitions(specs, Concatenation([i \in DOMAIN list |-> Definitions(a, list[i])]))

\* The tables of the program that no output asks for are defined all the same.
AddUnusedTables(spec, a, list) ==
  LET unused == SetToSeq({r \in OfType(a, {"Table"}) :
                  /\ \A i \in DOMAIN list : list[i].relationName # r
                  /\ \A i \in DOMAIN spec : spec[i].rName # r})
  IN  spec \o [i \in DOMAIN unused |-> SqlTable(unused[i], FALSE, FALSE)]

\* TransformAstForMaterialization (module Materialization): views read twice become tables.
Materialize(spec) ==
  LET views == SelectSeq(spec, LAMBDA s : s.relationType = "View")
      names == [i \in DOMAIN views |-> views[i].rName]
      reads == [r \in ToSet(names) |-> views[IndexFirstSubSeq(<<r>>, names)].reads]
      tree  == AddDependencies(EmptyTree, names, reads, {})
      Shared(s) == s.relationType = "View" /\ Len(tree.node[s.rName].isDependedBy) > 1
  IN  [i \in DOMAIN spec |-> IF Shared(spec[i]) THEN SqlTable(spec[i].rName, FALSE, FALSE)
                             ELSE spec[i]]
-----------------------------------------------------------------------------
(***************************************************************************)
(* The constructor: one output after the other, then the definitions.      *)
(***************************************************************************)
Init ==
  /\ \E program \in Programs : ast = Compiled(program) /\ pending = GetAllOutputs(program)
  /\ cache \in BOOLEAN
  /\ augmentedDep = AugmentDepTree(ast)
  /\ distributions = <<>>
  /\ sqlAstSpecPerDb = [db \in {LocalDbId} |-> <<>>]
  /\ cachedEventViews = {}
  /\ phase = "plan"
  /\ running = 0
  /\ rejected = {} /\ replaced = {}

DistributedEval ==
  /\ phase = "plan" /\ pending # <<>>
  /\ \E eval \in {DistributedEvalForOutput(ast, augmentedDep, Head(pending))} :
       /\ ast' = eval.ast
       /\ distributions' = eval.new \o distributions
  /\ pending' = Tail(pending)
  /\ UNCHANGED <<cache, augmentedDep, sqlAstSpecPerDb, cachedEventViews, phase, running, rejected, replaced>>

GetSqlAstSpecsFromDistribution ==
  /\ phase = "plan" /\ pending = <<>>
  /\ LET added == AddNewRelations(sqlAstSpecPerDb, ast, distributions)
         all   == [added EXCEPT ![LocalDbId] = AddUnusedTables(@, ast, distributions)]
     IN  sqlAstSpecPerDb' = [db \in DOMAIN all |-> Materialize(all[db])]
  /\ ast' = AddCacheTables(ast, distributions)
  /\ cachedEventViews' = Cached(ast, distributions)
  /\ phase' = "run"
  /\ UNCHANGED <<cache, pending, augmentedDep, distributions, running, rejected, replaced>>

(***************************************************************************)
(* AddRelation of the runtime: a view that is there already is deleted (its*)
(* definitions on the databases stay); then AddViewByAst: compiled (which  *)
(* adds it to the tree twice), AddDerivedAst, GetInstructionsToAddOutput.  *)
(***************************************************************************)
DeleteView(a, r) ==
  [DeleteRelation(a, r) EXCEPT !.depTree = DeleteNode(@, r)]

Compile(a, rel) ==
  LET added == AddRelation(a, rel)
  IN  [added EXCEPT !.depTree = AddSingleDependency(@, Reads(rel), rel.rName, Events(added))]

Plan(a, r) ==
  /\ augmentedDep' = AugmentDepTree(a)
  /\ \E eval \in {DistributedEvalForOutput(a, augmentedDep', r)} :
       /\ ast' = AddCacheTables(eval.ast, eval.new)
       /\ distributions' = eval.new \o distributions
       /\ sqlAstSpecPerDb' = AddNewRelations(sqlAstSpecPerDb, eval.ast, eval.new)
       /\ cachedEventViews' = cachedEventViews \cup Cached(eval.ast, eval.new)
       /\ rejected' = IF eval.ok THEN rejected ELSE rejected \cup {r}

AddViewByAst(rel) ==
  /\ phase = "run" /\ running < MaxRunning
  /\ \A r \in ToSet(Reads(rel)) : Has(ast, r)
  /\ Plan(Compile(DeleteView(ast, rel.rName), rel), rel.rName)
  /\ replaced' = IF Has(ast, rel.rName) THEN replaced \cup {rel.rName} ELSE replaced
  /\ running' = running + 1
  /\ UNCHANGED <<cache, pending, phase>>

Next ==
  \/ DistributedEval
  \/ GetSqlAstSpecsFromDistribution
  \/ \E rel \in Additions : AddViewByAst(rel)

Spec == Init /\ [][Next]_vars

-----------------------------------------------------------------------------
(***************************************************************************)
(* What the runtime asks of the plan, for an event e: what a database waits*)
(* for and ships in a timestep of e, what of a relation is shipped first,  *)
(* and what the binding of an output makes the databases ship.             *)
(***************************************************************************)
Dependents(e) == DeriveDependentRelations(ast.depTree, e) \cup {e}

Deps(db, e) ==
  {s.rName : s \in {x \in ToSet(sqlAstSpecPerDb[db]) : x.isDynamic}} \cap Dependents(e)

Shipments(db, relations) ==
  {[destination |-> d.to, relation |-> d.relationName] :
     d \in {x \in ToSet(distributions) :
             x.from = db /\ x.to # x.from /\ x.relationName \in relations}}

GetRelationsToShipForDb(db, e) == Shipments(db, Dependents(e))

\* Mutant: the views of the same database are not followed.
BubbledUpDirect(db, relation) ==
  {d \in ToSet(distributions) : d.relationName = relation /\ d.from = db /\ d.to # d.from}

\* What is on db made of relation, directly or by way of views evaluated there.
BubbledUp(db, relation) ==
  LET From(r) == {d \in ToSet(distributions) : d.relationName = r /\ d.from = db}
      up[r \in DOMAIN ast.relations] ==
        {d \in From(r) : d.to # db}
        \cup UNION {up[d.forRelationName] :
                     d \in {x \in From(r) : x.to = db /\ x.forRelationName # r}}
  IN  up[relation]

Sent(ds) == {[destination |-> d.to, relation |-> d.relationName] : d \in ds}

GetBubbledUpRelationToShipForEvent(db, e, included) ==
  Sent({d \in BubbledUp(db, e) : d.forRelationName \in included})

GetBubbledUpRelationToShipForStatic(db, relation, o) ==
  Sent({d \in BubbledUp(db, relation) : d.finalOutputName = o})

GetStaticAsyncViewTrigger(o) ==
  {[dbId |-> d.from, relation |-> d.relationName] :
     d \in {x \in ToSet(distributions) :
             x.finalOutputName = o /\ x.from # LocalDbId /\ x.to = x.from}}

\* checkAndApplyCache: the dependents that read a registered table themselves.
EventViewsOf(e) ==
  {y \in DeriveDependentRelations(ast.depTree, e) :
     DependsOnRemoteTables(ast.depTree.node[y].dependsOn)}
-----------------------------------------------------------------------------
(***************************************************************************)
(* Properties.                                                             *)
(***************************************************************************)
Outputs == OfType(ast, {"Output"})

\* Definitions and distributions of a view that is defined anew are not taken
\* back: what they bring up is still shipped, though nothing waits for it any more.
AsWritten == phase = "run" /\ rejected = {} /\ replaced = {}

DefinedAt(db) == {s.rName : s \in ToSet(sqlAstSpecPerDb[db])}

\* What a remote database computes or holds, rather than being sent it.
EvaluatedAt(db, r) ==
  \E d \in ToSet(distributions) : d.relationName = r /\ d.from = db

\* The event views evaluated on a remote database.
Answering(db) ==
  {d.relationName : d \in {x \in ToSet(distributions) :
     x.from = db /\ x.to = LocalDbId /\ TypeOf(ast, x.relationName) = "EventView"}}

Remotes == DOMAIN sqlAstSpecPerDb \ {LocalDbId}

\* What happens while the program runs: inputs, and answers of the databases.
InputEvents == EventTable \cup UNION {Answering(db) : db \in Remotes}

Name == DOMAIN ast.relations

\* An output below that the policy has split: the distributions of o were made
\* before, or its results are not brought up from the databases of the other.
OverSplitOutput(o) ==
  \E p \in Outputs : Has(ast, AsyncView(p)) /\ o \in DeriveDependentRelations(ast.depTree, p)

(***************************************************************************)
(* What a database is told to define can be executed there: a view reads   *)
(* relations that this database defines, or registered tables it holds.    *)
(***************************************************************************)
ReadsDefined ==
  AsWritten => \A db \in DOMAIN sqlAstSpecPerDb : \A s \in ToSet(sqlAstSpecPerDb[db]) :
             \A r \in ToSet(s.reads) :
               \/ r \in DefinedAt(db)
               \/ r \in DOMAIN RelationLocation /\ RelationLocation[r] = db

(***************************************************************************)
(* What an output needs does not depend on when it was planned: planning it*)
(* again in the program as it is now, after the policy and the additions,  *)
(* gives the distributions that it has.                                    *)
(***************************************************************************)
PlannedOnce ==
  AsWritten => \A o \in Outputs :
             ~OverSplitOutput(o) =>
             {d \in ToSet(distributions) : d.finalOutputName = o}
               = ToSet(DistributedEvalForOutput(ast, AugmentDepTree(ast), o).new)

(***************************************************************************)
(* An event ships to a remote database only what that database waits for in*)
(* its timestep: a relation it did not expect would stay in the queue, and *)
(* every later timestep behind it.  The answer of an event view that two   *)
(* views of one remote database read is sent back to where it came from,   *)
(* where nothing waits for it: not covered (README, observations).         *)
(***************************************************************************)
ShipmentsExpected ==
  AsWritten => \A e \in InputEvents :
             \A s \in GetBubbledUpRelationToShipForEvent(LocalDbId, e, EventViewsOf(e)) :
               ~EvaluatedAt(s.destination, s.relation) => s.relation \in Deps(s.destination, e)

(***************************************************************************)
(* What changes with e before any answer: the views over it that are not   *)
(* behind an event view of a remote database.                              *)
(***************************************************************************)
ChangesWith(e) ==
  LET answers == UNION {Answering(db) : db \in Remotes}
      local   == DOMAIN ast.depTree.node \ answers
  IN  {e} \cup DeriveDependentRelations(
                 [ast.depTree EXCEPT !.node = [r \in local |-> @[r]]], e)

\* From one remote database to another nothing is shipped (ShipRelation is refused).
FromAnotherRemote(db, x) ==
  \E d \in ToSet(distributions) :
    d.relationName = x /\ d.to = db /\ d.from \notin {LocalDbId, db}

ReachesViews(e, views) ==
  \A db \in Remotes : \A y \in Answering(db) \cap views :
    \A x \in ToSet(ast.depTree.node[y].dependsOn) \cap ChangesWith(e) :
      ~FromAnotherRemote(db, x) =>
      /\ \/ EvaluatedAt(db, x)
         \/ [destination |-> db, relation |-> x]
              \in GetBubbledUpRelationToShipForEvent(LocalDbId, e, EventViewsOf(e))
      /\ [destination |-> LocalDbId, relation |-> y] \in GetRelationsToShipForDb(db, e)

(***************************************************************************)
(* An event reaches the event views that read it, directly or through views*)
(* of the main database, and their answers come back -- if they read a     *)
(* registered table themselves.                                            *)
(***************************************************************************)
EventsReachTheirViews ==
  AsWritten => \A e \in InputEvents : ReachesViews(e, EventViewsOf(e))

(***************************************************************************)
(* The same of every event view (docs/events.md: "DIEL automatically sends *)
(* the necessary data (e.g., the new event record) to the remote           *)
(* database").  The code does not look behind views.                       *)
(***************************************************************************)
AllEventViewsReached ==
  AsWritten => \A e \in EventTable : ReachesViews(e, Name)

(***************************************************************************)
(* Binding an output makes the remote databases answer for every event view*)
(* that it shows, before any event.                                        *)
(***************************************************************************)
BoundOutputsAreFed ==
  AsWritten => \A o \in Outputs : \A db \in Remotes : \A y \in Answering(db) :
             o \in DeriveDependentRelations(ast.depTree, y) /\ ~OverSplitOutput(o) =>
               \E t \in GetStaticAsyncViewTrigger(o) :
                 [destination |-> LocalDbId, relation |-> y]
                   \in GetBubbledUpRelationToShipForStatic(t.dbId, t.relation, o)

(***************************************************************************)
(* The answer of an event view finds its table in the main database, with  *)
(* the columns of its timesteps.  newInputHelper takes the cache's as soon *)
(* as caching is on, also for a view that is not cacheable: not covered.   *)
(***************************************************************************)
AnswersHaveTables ==
  AsWritten => \A db \in Remotes : \A y \in Answering(db) :
             (cache => IsEventViewCacheable(GetRelationDef(ast, y))) =>
               SqlTable(IF cache THEN CacheName(y) ELSE y, TRUE, TRUE)
                 \in ToSet(sqlAstSpecPerDb[LocalDbId])

=============================================================================
