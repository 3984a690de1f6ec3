----------------------------- MODULE Dependency -----------------------------
(***************************************************************************)
(* The relations of a DIEL program and their dependency tree over the life *)
(* of a runtime: a program is read and compiled (CompileAst), and then     *)
(* views and tables are added to it and views replaced while it runs       *)
(* (DielRuntime.AddRelation).  Definitions may come in any order in the    *)
(* program, before what they read; SQL has no recursive views.             *)
(***************************************************************************)
EXTENDS DependencyTree

CONSTANTS
  EventTable, StaticTable, View,
  Reads,         \* the sequences of names a definition may read
  MaxRunning     \* bound on the changes made while the program runs

ASSUME NamesAssumption ==
  /\ EventTable \cap StaticTable = {}
  /\ View \cap (EventTable \cup StaticTable) = {}
  /\ Reads \subseteq Seq(EventTable \cup StaticTable \cup View)
  /\ MaxRunning \in Nat

VARIABLES
  relations,   \* ast.relations
  defs,        \* what each view in ast.relations reads
  eventViews,  \* the event views among those added or put in place while the program runs
  depTree,     \* ast.depTree
  compiled,    \* has CompileAst run?
  running      \* how often MaxRunning has been used

vars == <<relations, defs, eventViews, depTree, compiled, running>>

Table == EventTable \cup StaticTable

Init ==
  /\ relations = <<>>
  /\ defs = [v \in {} |-> <<>>]
  /\ eventViews = {}
  /\ depTree = EmptyTree
  /\ compiled = FALSE
  /\ running = 0

Name == Table \cup View

Define(v, deps) == [w \in DOMAIN defs \cup {v} |-> IF w = v THEN deps ELSE defs[w]]

Acyclic(v, deps) == \A d \in ToSet(deps) : d # v /\ v \notin Below(defs, d)

-----------------------------------------------------------------------------
\* The program is read.
ParseTable(r) ==
  /\ ~compiled
  /\ ~Contains(relations, r)
  /\ relations' = Append(relations, r)
  /\ UNCHANGED <<defs, eventViews, depTree, compiled, running>>

ParseView(v, deps) ==
  /\ ~compiled
  /\ ~Contains(relations, v)
  /\ Acyclic(v, deps)
  /\ relations' = Append(relations, v)
  /\ defs' = Define(v, deps)
  /\ UNCHANGED <<eventViews, depTree, compiled, running>>

(***************************************************************************)
(* GetAllDerivedViews finds the views in the order of the program.  Here   *)
(* the dynamic relations are the event tables: the event views of the      *)
(* program are marked like any view, and keep their mark.                  *)
(***************************************************************************)
AddDepTree == AddDependencies(depTree, Keep(relations, View), defs, EventTable)

\* CompileAst, of a program that defines everything it reads.
CompileAst ==
  /\ ~compiled
  /\ \A v \in DOMAIN defs : ToSet(defs[v]) \subseteq ToSet(relations)
  /\ compiled' = TRUE
  /\ depTree' = AddDepTree
  /\ relations' = ArrangeInTopologicalOrder(AddDepTree, relations)
  /\ UNCHANGED <<defs, eventViews, running>>

-----------------------------------------------------------------------------
\* The program runs.
MayChange == compiled /\ running < MaxRunning

\* Mutant: the event tables are dynamic, as they are for AddDepTree.
AddTwiceAsInProgram(tree, v, deps, events) ==
  AddSingleDependency(AddSingleDependency(tree, deps, v, EventTable), deps, v, EventTable)

(***************************************************************************)
(* AddRelation of DielAstVisitors and CompileDerivedAstGivenAst each add   *)
(* the view.  Here IsRelationEvent decides, for the view and for what has  *)
(* no node yet, which are tables: an event view is dynamic, too.           *)
(***************************************************************************)
AddTwice(tree, v, deps, events) ==
  LET dynamic == EventTable \cup events
  IN  AddSingleDependency(AddSingleDependency(tree, deps, v, dynamic), deps, v, dynamic)

EventViewsWith(v, event) == IF event THEN eventViews \cup {v} ELSE eventViews \ {v}

Known(deps) == ToSet(deps) \subseteq ToSet(relations)

AddViewByAst(v, deps, event) ==
  /\ MayChange
  /\ ~Contains(relations, v)
  /\ Known(deps)
  /\ relations' = Append(relations, v)
  /\ defs' = Define(v, deps)
  /\ eventViews' = EventViewsWith(v, event)
  /\ depTree' = AddTwice(depTree, v, deps, EventViewsWith(v, event))
  /\ running' = running + 1
  /\ UNCHANGED compiled

\* A table joins the tree only when a view that reads it does.
AddOriginalTableByAst(r) ==
  /\ MayChange
  /\ ~Contains(relations, r)
  /\ relations' = Append(relations, r)
  /\ running' = running + 1
  /\ UNCHANGED <<defs, eventViews, depTree, compiled>>

\* AddRelation of a view that replaces one of the same name: DeleteView first.
ReplaceView(v, deps, event) ==
  /\ MayChange
  /\ Contains(relations, v)
  /\ Known(deps) /\ Acyclic(v, deps)
  /\ relations' = Append(RemoveFirst(relations, v), v)
  /\ defs' = Define(v, deps)
  /\ eventViews' = EventViewsWith(v, event)
  /\ depTree' = AddTwice(DeleteNode(depTree, v), v, deps, EventViewsWith(v, event))
  /\ running' = running + 1
  /\ UNCHANGED compiled

Next ==
  \/ \E r \in Table : ParseTable(r) \/ AddOriginalTableByAst(r)
  \/ \E v \in View, deps \in Reads :
       \/ ParseView(v, deps)
       \/ \E event \in BOOLEAN : AddViewByAst(v, deps, event) \/ ReplaceView(v, deps, event)
  \/ CompileAst

Spec == Init /\ [][Next]_vars
-----------------------------------------------------------------------------
(***************************************************************************)
(* Properties.                                                             *)
(***************************************************************************)
(***************************************************************************)
(* What an event has rendered, shipped and waited for is decided by        *)
(* DeriveDependentRelations: it finds exactly the views that read the      *)
(* relation through any chain of views, in whatever order they were        *)
(* defined, added and replaced.                                            *)
(***************************************************************************)
DependentsExact ==
  compiled =>
    UNION {DeriveDependentRelations(depTree, r) \X {r} : r \in Name} =
    UNION {{v} \X Below(defs, v) : v \in DOMAIN defs}

(***************************************************************************)
(* CompileAst leaves every relation in the program and puts it after all   *)
(* it reads, as the later passes (types, normalisation) need.              *)
(***************************************************************************)
Position(r) == CHOOSE i \in DOMAIN relations : relations[i] = r

ReadAfterDefined ==
  compiled /\ running = 0 =>
    /\ ToSet(relations) \cap View = DOMAIN defs
    /\ \A v \in DOMAIN defs, r \in Name :
         r \in ToSet(defs[v]) => Contains(relations, r) /\ Position(r) < Position(v)

(***************************************************************************)
(* The dynamic relations behind view v: what is read through views that are*)
(* not dynamic themselves.  The definitions of those that are are left out.*)
(***************************************************************************)
Dynamic == EventTable \cup eventViews
UpToDynamic(v) == Restrict(defs, {w \in DOMAIN defs : w = v \/ w \notin Dynamic})
Originals(v) == Below(UpToDynamic(v), v) \cap Dynamic

(***************************************************************************)
(* DeriveOriginalRelationsAViewDependsOn finds exactly the dynamic         *)
(* relations behind a view, as long as nothing is read along two paths, and*)
(* never one that is not behind it: also when event views were added to the*)
(* running program or took the place of views that others read.            *)
(***************************************************************************)
OriginalsOfTrees ==
  compiled => \A v \in DOMAIN defs :
    LET found == DeriveOriginalRelationsAViewDependsOn(depTree, v)
    IN  /\ found \subseteq Originals(v)
        /\ TreeShaped(UpToDynamic(v), v) => found = Originals(v)

=============================================================================
