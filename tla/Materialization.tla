--------------------------- MODULE Materialization ---------------------------
(***************************************************************************)
(* Materialized view maintenance in one database                           *)
(* (src/src/compiler/passes/materialization.ts): the definitions sent to   *)
(* the database are rewritten, views read more than once becoming tables   *)
(* that triggers refresh, then they are created there (executeToDBs), and  *)
(* then events are inserted.                                               *)
(*                                                                         *)
(* The rows of a relation are abstracted to the versions of the base tables*)
(* they are computed from: a set of pairs <<table, version>>.  An event    *)
(* table without events has no rows and contributes nothing.               *)
(***************************************************************************)
EXTENDS DependencyTree

CONSTANTS
  EventTable,   \* the dynamic tables
  StaticTable,
  ViewOrder,    \* the views of the database, each after what it reads
  Programs,     \* the possible definitions: [views -> Seq(names)]
  MaxEvents     \* bound on the rows inserted

View == ToSet(ViewOrder)
Base == EventTable \cup StaticTable
Name == Base \cup View

ASSUME ProgramAssumption ==
  /\ EventTable \cap StaticTable = {} /\ View \cap Base = {}
  /\ ViewOrder \in Seq(View)
  /\ \A p \in Programs :
       /\ p \in [View -> Seq(Name)]
       /\ \A i \in DOMAIN ViewOrder :
            LET before == {ViewOrder[j] : j \in 1..(i - 1)}
            IN  p[ViewOrder[i]] \in Seq(Base \cup before)
  /\ MaxEvents \in Nat

VARIABLES
  defs,       \* what each view reads
  kind,       \* for each view: "View", "Materialized" or "StaticTable"
  triggers,   \* for each event table, the views refreshed after an insert
  stored,     \* the rows of the views that have become tables
  version,    \* for each base table, the version of its content
  phase       \* "compile", "create", "run" or "failed"

vars == <<defs, kind, triggers, stored, version, phase>>

Init ==
  /\ defs \in Programs
  /\ kind = [v \in View |-> "View"]
  /\ triggers = [e \in EventTable |-> <<>>]
  /\ stored = [v \in View |-> {}]
  /\ version = [b \in Base |-> IF b \in EventTable THEN 0 ELSE 1]
  /\ phase = "compile"

-----------------------------------------------------------------------------
(***************************************************************************)
(* TransformAstForMaterialization.                                         *)
(***************************************************************************)
Tree == AddDependencies(EmptyTree, ViewOrder, defs, EventTable)

\* A self-join counts as two readers.
RelationsToMaterialize(tree) ==
  {v \in View : Len(tree.node[v].isDependedBy) > 1}

Kind(tree, v) ==
  IF v \notin RelationsToMaterialize(tree) THEN "View"
  ELSE IF DeriveOriginalRelationsAViewDependsOn(tree, v) = {}
       THEN "StaticTable" ELSE "Materialized"

\* The views materialized because of event table e, among other things.
MaterializedFor(tree, e) ==
  {v \in View : /\ Kind(tree, v) = "Materialized"
               /\ e \in DeriveOriginalRelationsAViewDependsOn(tree, v)}

\* Mutant: the tables are refreshed in the order of their definition, latest first.
RefreshesBackwards(tree, e) ==
  Reverse(Keep(GetTopologicalOrder(tree), MaterializedFor(tree, e)))

Refreshes(tree, e) == Keep(GetTopologicalOrder(tree), MaterializedFor(tree, e))

Transform ==
  /\ phase = "compile"
  /\ phase' = "create"
  /\ kind' = [v \in View |-> Kind(Tree, v)]
  /\ triggers' = [e \in EventTable |-> Refreshes(Tree, e)]
  /\ UNCHANGED <<defs, stored, version>>

(***************************************************************************)
(* The definitions are printed and executed, and the tables start empty.   *)
(* A view that was turned into a table in place has no columns, and        *)
(* printing it (generateTableSpec) throws: the set-up ends there.          *)
(***************************************************************************)
Create ==
  /\ phase = "create"
  /\ phase' = IF \E v \in View : kind[v] = "StaticTable" THEN "failed" ELSE "run"
  /\ UNCHANGED <<defs, kind, triggers, stored, version>>

-----------------------------------------------------------------------------
\* The rows of a base table, when the base tables hold vs.
BaseRows(vs, b) == IF vs[b] = 0 THEN {} ELSE {<<b, vs[b]>>}

\* The rows of each relation, when the tables made of views hold st.
Rows(st, vs) ==
  LET rows[r \in Name] ==
        IF r \in Base THEN BaseRows(vs, r)
        ELSE IF kind[r] = "View" THEN UNION {rows[s] : s \in ToSet(defs[r])}
        ELSE st[r]
  IN  rows

\* delete from v; insert into v select ...
Refresh(st, vs, v) ==
  [st EXCEPT ![v] = UNION {Rows(st, vs)[r] : r \in ToSet(defs[v])}]

\* The commands of a trigger, one after the other.
RefreshAll(st, vs, views) ==
  LET after[i \in 0..Len(views)] ==
        IF i = 0 THEN st ELSE Refresh(after[i - 1], vs, views[i])
  IN  after[Len(views)]

(***************************************************************************)
(* A row is inserted in event table e, and its trigger runs.               *)
(***************************************************************************)
Insert(e) ==
  /\ phase = "run"
  /\ version[e] < MaxEvents
  /\ LET vs == [version EXCEPT ![e] = @ + 1]
     IN  /\ version' = vs
         /\ stored' = RefreshAll(stored, vs, triggers[e])
  /\ UNCHANGED <<defs, kind, triggers, phase>>

Next == Transform \/ Create \/ \E e \in EventTable : Insert(e)

Spec == Init /\ [][Next]_vars
-----------------------------------------------------------------------------
(***************************************************************************)
(* Properties.                                                             *)
(***************************************************************************)
\* The reference: the rows of all base tables that r is computed from.
Unmaterialized(vs, r) == UNION {BaseRows(vs, b) : b \in ({r} \cup Below(defs, r)) \cap Base}

\* The event tables behind view v, and whether each of them has had an event.
Behind(v) == Below(defs, v) \cap EventTable

Warm(v) == \A e \in Behind(v) : version[e] > 0

\* No event table was missed for v and for the materialized views below it.
OriginalsFound(v) ==
  \A w \in View \cap (Below(defs, v) \cup {v}) :
    kind[w] = "Materialized" => \A e \in Behind(w) : Contains(triggers[e], w)

(***************************************************************************)
(* Materialization cannot be seen: once the event tables behind a view have*)
(* had an event (until then a materialized view is empty), it has the rows *)
(* it would have if views were views, because the triggers refresh what an *)
(* insert outdates, each table after those it is computed from.  This is as*)
(* good as the event tables the compiler found behind each table.          *)
(***************************************************************************)
FreshIfFound ==
  phase = "run" => \A v \in View :
    Warm(v) /\ OriginalsFound(v) => Rows(stored, version)[v] = Unmaterialized(version, v)
=============================================================================
