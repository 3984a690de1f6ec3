------------------------------- MODULE Compiler -------------------------------
(***************************************************************************)
(* The logical compiler of DIEL (CompileAst): a program is parsed and its  *)
(* syntax tree rewritten by one pass after the other, each of which relies *)
(* on what the passes before have left; views that are added to a running  *)
(* program are compiled one by one against the tree that is there          *)
(* (CompileDerivedAstGivenAst): an output by its text, any view by a syntax*)
(* tree that was parsed elsewhere.  After LogInternalError the code goes on   *)
(* with null, and whoever reads a field of null ends the compilation.      *)
(***************************************************************************)
EXTENDS SelectText

CONSTANTS
  Programs,        \* the programs: [text, added], added the views that come last,
                   \* each [view, by], by its text ("string") or its tree ("ast")
  VariableOf,      \* the names written in braces, and the variable in each
  UpperCase,       \* the names that are not in upper case, and their upper case
  RegisteredTypes  \* the types of the UDFs that are registered, by name

Dep == INSTANCE DependencyTree

VARIABLES program, ast, pass, added

vars == <<program, ast, pass, added>>

Upper(name) == IF name \in DOMAIN UpperCase THEN UpperCase[name] ELSE name

Derived == {"View", "EventView", "Output", "DerivedTable"}
IsDerived(r) == r.relationType \in Derived
IsEvent(r) == r.relationType \in {"EventTable", "EventView"}

BuiltInColumn == {"TIMESTEP", "TIMESTAMP", "REQUEST_TIMESTEP"}
EventColumns ==
  <<[cName |-> "TIMESTEP", dataType |-> "Number"],
    [cName |-> "REQUEST_TIMESTEP", dataType |-> "Number"]>>

BuiltInUdfTypes ==
  [f \in {"COUNT", "MIN", "MAX", "SUM", "/", "*", "+", "-", "ROUND", "AVG"} |-> "Number"]
    @@ ("DATETIME" :> "TimeStamp") @@ ("GROUP_CONCAT" :> "String")
UdfTypes == RegisteredTypes @@ BuiltInUdfTypes

Named(a, name) == SelectSeq(a.relations, LAMBDA r : r.rName = name)
IsDefined(a, name) == Named(a, name) # <<>>
GetRelationDef(a, name) == Named(a, name)[1]

References(u) == u.baseRelation \o Map(LAMBDA j : j.relation, u.joinClauses)

\* WalkThroughSelectionUnits: the views, then the queries that are inserted.
MapUnits(F(_), selection) ==
  [selection EXCEPT !.compositeSelections = Map(LAMBDA c : [c EXCEPT !.relation = F(@)], @)]

MapUnitsOfCommand(F(_), c) ==
  IF c.astType = "Insert" THEN [c EXCEPT !.selection = Map(LAMBDA s : MapUnits(F, s), @)] ELSE c

WalkThroughSelectionUnits(a, F(_, _)) ==
  LET walked == FoldLeft(LAMBDA acc, i :
                           IF IsDerived(acc.relations[i])
                           THEN [acc EXCEPT !.relations =
                                   ReplaceAt(@, i, [acc.relations[i] EXCEPT !.selection =
                                     MapUnits(LAMBDA u : F(acc, u), @)])]
                           ELSE acc,
                         a, [i \in DOMAIN a.relations |-> i])
  IN  [walked EXCEPT !.arrays =
         Map(LAMBDA cs : Map(LAMBDA c : MapUnitsOfCommand(LAMBDA u : F(walked, u), c), cs), @)]

-----------------------------------------------------------------------------
(***************************************************************************)
(* ApplyTemplates: variables, the LATEST of relations, copied definitions. *)
(***************************************************************************)
ChangeString(spec, name) ==
  IF name \notin DOMAIN VariableOf THEN name
  ELSE IF VariableOf[name] \in DOMAIN spec THEN spec[VariableOf[name]] ELSE Undefined

RECURSIVE ApplyToExpr(_, _), ApplyToSelection(_, _)

\* What is in parentheses is not visited.
ApplyToExpr(spec, e) ==
  CASE e.exprType = "Column"   ->
         [e EXCEPT !.columnName = OrElse(ChangeString(spec, @), @),
                   !.relationName = OrElse(ChangeString(spec, @), @)]
    [] e.exprType = "Func"     -> [e EXCEPT !.args = Map(LAMBDA x : ApplyToExpr(spec, x), @)]
    [] e.exprType = "Relation" -> [e EXCEPT !.selection = ApplyToSelection(spec, @)]
    [] OTHER -> e

ApplyToReference(spec, ref) ==
  [ref EXCEPT !.relationName = ChangeString(spec, @),
              !.subquery = Map(LAMBDA s : ApplyToSelection(spec, s), @)]

ApplyToUnit(spec, u) ==
  LET Expr(e) == ApplyToExpr(spec, e)
  IN  [u EXCEPT
         !.columnSelections = Map(LAMBDA c : [c EXCEPT !.expr = Expr(@)], @),
         !.baseRelation = Map(LAMBDA r : ApplyToReference(spec, r), @),
         !.joinClauses = Map(LAMBDA j : [j EXCEPT !.relation = ApplyToReference(spec, @),
                                                  !.predicate = Map(Expr, @)], @),
         !.whereClause = Map(Expr, @),
         !.groupByClause = Map(LAMBDA g : [g EXCEPT !.selections = Map(Expr, @),
                                                    !.predicate = Map(Expr, @)], @),
         !.orderByClause = Map(LAMBDA o : [o EXCEPT !.selection = Expr(@)], @),
         !.limitClause = Map(Expr, @)]

ApplyToSelection(spec, s) == MapUnits(LAMBDA u : ApplyToUnit(spec, u), s)

\* Only the template of the whole query has its variables filled in.
TryToApplyTemplate(s) == IF DOMAIN s.templateSpec = {} THEN s ELSE ApplyToSelection(s.templateSpec, s)

EmptyUnit ==
  [isDistinct |-> FALSE, columnSelections |-> <<>>, derivedColumnSelections |-> <<>>,
   baseRelation |-> <<>>, joinClauses |-> <<>>, whereClause |-> <<>>, groupByClause |-> <<>>,
   orderByClause |-> <<>>, limitClause |-> <<>>]

\* (select max(timestep) as timestep from name)
CreateSubquery(name) ==
  LET max == Func("Custom", "max", Undefined, <<Column(Undefined, "timestep", Undefined)>>)
  IN  Relation([templateSpec |-> NoSpec, compositeSelections |->
        <<[op |-> "NA", relation |->
             [EmptyUnit EXCEPT
                !.derivedColumnSelections = <<<<[expr |-> max, alias |-> "timestep"]>>>>,
                !.baseRelation = <<[relationName |-> name, alias |-> Undefined,
                                    isLatest |-> FALSE, subquery |-> <<>>]>>]]>>])

\* Mutant: the clause of the user is lost.
ModifyWhereAnew(u, name) ==
  [u EXCEPT !.whereClause =
     <<Func("Logic", "=", "Boolean",
            <<Column(name, "timestep", Undefined), CreateSubquery(name)>>)>>]

\* where ... and name.timestep = (...): a tree that is right once it is printed.
ModifyWhereComplete(u, name) ==
  LET timestep == Column(name, "timestep", Undefined)
      lhs == IF u.whereClause = <<>> THEN timestep
             ELSE Func("Logic", "and", "Boolean", <<u.whereClause[1], timestep>>)
  IN  [u EXCEPT !.whereClause = <<Func("Logic", "=", "Boolean", <<lhs, CreateSubquery(name)>>)>>]

ApplyLatestToSelectionUnit(u) ==
  FoldLeft(LAMBDA v, ref : IF ref.isLatest /\ ref.subquery = <<>>
                           THEN ModifyWhereComplete(v, ref.relationName) ELSE v,
           u, References(u))

\* A copy is looked for among the relations that copy from themselves.
TryToCopyRelationSpec(a, r) ==
  LET source == SelectSeq(a.relations, LAMBDA s : /\ s.relationType \in {"Table", "EventTable"}
                                                  /\ Present(s.copyFrom)
                                                  /\ s.rName = s.copyFrom)
  IN  IF Present(r.copyFrom) /\ source # <<>> THEN [r EXCEPT !.columns = source[1].columns] ELSE r

ApplyTemplates(a) ==
  [a EXCEPT !.relations = Map(LAMBDA r :
     IF IsDerived(r)
     THEN [r EXCEPT !.selection = MapUnits(ApplyLatestToSelectionUnit, TryToApplyTemplate(@))]
     ELSE IF r.relationType \in {"Table", "EventTable"} THEN TryToCopyRelationSpec(a, r) ELSE r, @)]

-----------------------------------------------------------------------------
(***************************************************************************)
(* NormalizeAlias: relations and columns that have no alias get their name.*)
(***************************************************************************)
GetAliasForExpr(e) ==
  CASE e.exprType = "Column" -> e.columnName
    [] e.exprType = "Func"   -> e.functionReference
    [] e.exprType = "Val"    -> e.dataType
    [] OTHER -> Undefined

AliasReference(ref) == [ref EXCEPT !.alias = OrElse(@, ref.relationName)]

NormalizeAliasOfUnit(u) ==
  [u EXCEPT
     !.columnSelections = Map(LAMBDA c : [c EXCEPT !.alias = OrElse(@, GetAliasForExpr(c.expr))], @),
     !.baseRelation = Map(AliasReference, @),
     !.joinClauses = Map(LAMBDA j : [j EXCEPT !.relation = AliasReference(@)], @)]

NormalizeAlias(a) == WalkThroughSelectionUnits(a, LAMBDA b, u : NormalizeAliasOfUnit(u))

-----------------------------------------------------------------------------
(***************************************************************************)
(* What a query reads, for the dependency tree: its FROM and its WHERE.    *)
(***************************************************************************)
RECURSIVE GetExprDep(_), GetSelectionUnitDep(_)

DepsOfSelection(s) ==
  FoldLeft(LAMBDA acc, c : acc \o GetSelectionUnitDep(c.relation), <<>>, s.compositeSelections)

GetRelationReferenceDep(ref) ==
  IF ref.subquery = <<>> THEN <<ref.relationName>> ELSE DepsOfSelection(ref.subquery[1])

GetExprDep(e) ==
  CASE e.exprType = "Relation"    -> DepsOfSelection(e.selection)
    [] e.exprType = "Func"        -> FoldLeft(LAMBDA acc, x : acc \o GetExprDep(x), <<>>, e.args)
    [] e.exprType = "Parenthesis" -> GetExprDep(e.content)
    [] OTHER -> <<>>

GetSelectionUnitDep(u) ==
  IF u.baseRelation = <<>> THEN <<>>
  ELSE FoldLeft(LAMBDA acc, r : acc \o GetRelationReferenceDep(r), <<>>, References(u))
         \o FoldLeft(LAMBDA acc, e : acc \o GetExprDep(e), <<>>, u.whereClause)

\* Each unit's in front of those before.
DependsOn(r) ==
  FoldLeft(LAMBDA acc, c : GetSelectionUnitDep(c.relation) \o acc, <<>>,
           r.selection.compositeSelections)

AddDepTree(a) ==
  LET dynamic == {r.rName : r \in {r \in ToSet(a.relations) : r.relationType = "EventTable"}}
  IN  [a EXCEPT !.depTree =
         FoldLeft(LAMBDA t, r : Dep!AddSingleDependency(t, DependsOn(r), r.rName, dynamic),
                  @, SelectSeq(a.relations, IsDerived))]

ArrangeInTopologicalOrder(a) ==
  LET names == Dep!ArrangeInTopologicalOrder(a.depTree, Map(LAMBDA r : r.rName, a.relations))
  IN  [a EXCEPT !.relations = Map(LAMBDA n : GetRelationDef(a, n), names)]

\* Of a view that is added: here event views are dynamic too.
AddSingleDependencyByDerivedRelation(a, r) ==
  LET dynamic == {s.rName : s \in {s \in ToSet(a.relations) : IsEvent(s)}}
  IN  [a EXCEPT !.depTree = Dep!AddSingleDependency(@, DependsOn(r), r.rName, dynamic)]

\* IsRelationEvent asks what kind of relation it is of r, and of each name that
\* the tree does not have yet.
IsRelationEventCrashes(a, r) ==
  \E n \in {r.rName} \cup {n \in ToSet(DependsOn(r)) : Present(n) /\ n \notin DOMAIN a.depTree.node} :
    ~IsDefined(a, n)

-----------------------------------------------------------------------------
(***************************************************************************)
(* NormalizeConstraints: from the columns to the relation.                 *)
(***************************************************************************)
\* A second primary key is only reported.
AddColumnConstraints(cs, c) ==
  [notNull |-> IF "notNull" \in c.constraints THEN Append(cs.notNull, c.cName) ELSE cs.notNull,
   uniques |-> IF "unique" \in c.constraints THEN Append(cs.uniques, <<c.cName>>) ELSE cs.uniques,
   primaryKey |-> IF "primaryKey" \in c.constraints /\ cs.primaryKey = <<>>
                  THEN <<c.cName>> ELSE cs.primaryKey]

NormalizeConstraints(a) ==
  [a EXCEPT !.relations = Map(LAMBDA r :
     IF r.relationType \in {"Table", "EventTable"}
     THEN [r EXCEPT !.constraints = FoldLeft(AddColumnConstraints, @, r.columns)] ELSE r, @)]

-----------------------------------------------------------------------------
(***************************************************************************)
(* NormalizeColumnSelection: stars are expanded and columns get the        *)
(* relation they come from.                                                *)
(***************************************************************************)
\* The columns of a unit that was normalised, unless one is a value.
DeriveColumnsFromSelectionUnit(u) ==
  IF \/ u.derivedColumnSelections = <<>>
     \/ \E c \in ToSet(u.derivedColumnSelections[1]) : c.expr.exprType \notin {"Column", "Func"}
  THEN <<>>
  ELSE <<Map(LAMBDA c : [cName |-> c.alias, dataType |-> c.expr.dataType],
             u.derivedColumnSelections[1])>>

FirstUnit(selection) == selection.compositeSelections[1].relation

DeriveColumnsFromRelation(r) ==
  LET own == IF IsDerived(r) THEN DeriveColumnsFromSelectionUnit(FirstUnit(r.selection))
             ELSE <<Map(LAMBDA c : [cName |-> c.cName, dataType |-> c.dataType], r.columns)>>
  IN  IF IsEvent(r) THEN Map(LAMBDA cs : cs \o EventColumns, own) ELSE own

ColumnsFromRelationReference(a, ref) ==
  IF ref.subquery # <<>> THEN DeriveColumnsFromSelectionUnit(FirstUnit(ref.subquery[1]))
  ELSE IF IsDefined(a, ref.relationName)
  THEN DeriveColumnsFromRelation(GetRelationDef(a, ref.relationName)) ELSE <<>>

\* The first relation with the alias whose columns are known.
ColumnsFromLocalSelectionUnit(a, u, alias) ==
  LET found == SelectSeq(References(u), LAMBDA r :
                 r.alias = alias /\ ColumnsFromRelationReference(a, r) # <<>>)
  IN  IF found = <<>> THEN <<>> ELSE ColumnsFromRelationReference(a, found[1])

\* The columns of a relation, or null; the joined ones get no type.
Expand(columns, relation, typed) ==
  IF columns = <<>> THEN <<Null>>
  ELSE Map(LAMBDA c : Column(relation, c.cName, IF typed THEN c.dataType ELSE Undefined), columns[1])

StarCase(a, u, e) ==
  IF Present(e.relationName)
  THEN Expand(ColumnsFromLocalSelectionUnit(a, u, e.relationName), e.relationName, TRUE)
  ELSE LET refs == References(u)
       IN  IF refs = <<>> THEN <<Null>>
           ELSE FlattenSeq([i \in DOMAIN refs |->
                  Expand(ColumnsFromRelationReference(a, refs[i]), refs[i].alias, i = 1)])

\* The column of a reference by its name as it is written.
ColumnOf(a, ref, name) ==
  LET columns == ColumnsFromRelationReference(a, ref)
  IN  IF columns = <<>> THEN <<>> ELSE SelectSeq(columns[1], LAMBDA c : c.cName = name)

BuiltInType(name) == IF name = "TIMESTAMP" THEN "TimeStamp" ELSE "Number"

\* A built-in column is that of the first event relation; any other column is
\* that of the first relation that has it.
NormalizeColumnExpr(a, u, e) ==
  LET refs   == References(u)
      events == SelectSeq(refs, LAMBDA r : /\ r.subquery = <<>>
                                           /\ IsDefined(a, r.relationName)
                                           /\ IsEvent(GetRelationDef(a, r.relationName)))
      having == SelectSeq(refs, LAMBDA r : ColumnOf(a, r, e.columnName) # <<>>)
  IN  CASE Present(e.relationName) -> e
        [] /\ ~Present(e.relationName)
           /\ Upper(e.columnName) \in BuiltInColumn /\ events # <<>> ->
             Column(events[1].relationName, e.columnName, BuiltInType(Upper(e.columnName)))
        [] /\ ~Present(e.relationName)
           /\ ~(Upper(e.columnName) \in BuiltInColumn /\ events # <<>>) /\ having # <<>> ->
             Column(having[1].alias, e.columnName,
                    ColumnOf(a, having[1], e.columnName)[1].dataType)
        [] OTHER -> Null

RECURSIVE NormalizeExpr(_, _, _)

\* Parentheses are dropped, and a star among the arguments is expanded too.
NormalizeExpr(a, u, e) ==
  CASE e.exprType = "Star"   -> StarCase(a, u, e)
    [] e.exprType = "Column" -> <<NormalizeColumnExpr(a, u, e)>>
    [] e.exprType = "Func"   ->
         <<[e EXCEPT !.args = FlattenSeq(Map(LAMBDA x : NormalizeExpr(a, u, x), @))]>>
    [] e.exprType = "Val"    -> <<e>>
    [] e.exprType = "Parenthesis" -> NormalizeExpr(a, u, e.content)
    [] OTHER -> <<Null>>

AliasOfStar(u, e) ==
  IF u.joinClauses = <<>>
     \/ Len(SelectSeq(u.columnSelections, LAMBDA c : c.expr.exprType = "Star")) = 1
  THEN e.columnName ELSE e.relationName \o "_" \o e.columnName

Selections(u, exprs, alias) ==
  IF Len(exprs) = 1 THEN <<[expr |-> exprs[1], alias |-> alias]>>
  ELSE Map(LAMBDA e : [expr |-> e, alias |-> IF e = Null THEN Undefined ELSE AliasOfStar(u, e)],
           exprs)

DeriveColumnSelection(a, u, c) == Selections(u, NormalizeExpr(a, u, c.expr), c.alias)

\* Subqueries of the FROM clause first: of each, the first unit.
RECURSIVE NormalizeColumnForSelectionUnit(_, _)

NormalizeReference(a, ref) ==
  [ref EXCEPT !.subquery =
     Map(LAMBDA s : [s EXCEPT !.compositeSelections[1].relation =
                       NormalizeColumnForSelectionUnit(a, @)], @)]

NormalizeReferences(a, u) ==
  [u EXCEPT
     !.baseRelation = Map(LAMBDA r : NormalizeReference(a, r), @),
     !.joinClauses = Map(LAMBDA j : [j EXCEPT !.relation = NormalizeReference(a, @)], @)]

WithColumns(u, columns) ==
  IF <<>> \in ToSet(columns) THEN u
  ELSE [u EXCEPT !.derivedColumnSelections = <<FlattenSeq(columns)>>]

NormalizeColumns(a, u) ==
  WithColumns(u, Map(LAMBDA c : DeriveColumnSelection(a, u, c), u.columnSelections))

NormalizeColumnForSelectionUnit(a, u) ==
  IF u.derivedColumnSelections # <<>> THEN u
  ELSE NormalizeColumns(a, NormalizeReferences(a, u))

NormalizeColumnSelection(a) == WalkThroughSelectionUnits(a, NormalizeColumnForSelectionUnit)

-----------------------------------------------------------------------------
(***************************************************************************)
(* InferType: the columns that have no type yet.                           *)
(***************************************************************************)
ColumnTypeFromSelection(s, name) ==
  LET derived == FirstUnit(s).derivedColumnSelections
      columns == IF derived = <<>> THEN <<>> ELSE SelectSeq(derived[1], LAMBDA c : c.alias = name)
  IN  IF columns = <<>> THEN Undefined ELSE columns[1].expr.dataType

ColumnTypeFromRelation(r, name) ==
  IF IsDerived(r) THEN ColumnTypeFromSelection(r.selection, name)
  ELSE LET columns == SelectSeq(r.columns, LAMBDA c : c.cName = name)
       IN  IF columns = <<>> THEN Undefined ELSE columns[1].dataType

ColumnTypeFromReference(a, name, ref) ==
  IF ref.subquery # <<>> THEN ColumnTypeFromSelection(ref.subquery[1], name)
  ELSE ColumnTypeFromRelation(GetRelationDef(a, ref.relationName), name)

TypeOfColumn(a, u, e) ==
  LET refs == SelectSeq(References(u), LAMBDA r : r.alias = e.relationName)
  IN  IF e.columnName \in {"rowid", "timestep", "request_timestep", "timestamp"} THEN "Number"
      ELSE IF refs = <<>> THEN "null" ELSE ColumnTypeFromReference(a, e.columnName, refs[1])

RECURSIVE GetTypeForExpr(_, _, _)

\* Mutant: the type of the condition.
GetUdfTypeOfCondition(a, u, e) ==
  LET name == Upper(e.functionReference)
  IN  IF name \in {"COALESCE", "IFTHISTHEN"} THEN GetTypeForExpr(a, u, e.args[1])
      ELSE IF name \in DOMAIN UdfTypes THEN UdfTypes[name] ELSE Undefined

GetUdfType(a, u, e) ==
  LET name == Upper(e.functionReference)
  IN  IF name \in {"COALESCE", "IFTHISTHEN"} THEN GetTypeForExpr(a, u, e.args[2])
      ELSE IF name \in DOMAIN UdfTypes THEN UdfTypes[name] ELSE Undefined

GetTypeForExpr(a, u, e) ==
  CASE e.exprType = "Func"   -> GetUdfType(a, u, e)
    [] e.exprType = "Column" -> TypeOfColumn(a, u, e)
    [] e.exprType = "Parenthesis" -> GetTypeForExpr(a, u, e.content)
    [] e.exprType = "Val"    -> e.dataType
    [] e.exprType = "null"   -> "null"
    [] OTHER -> Undefined

InferTypeForSelectionUnit(a, u) ==
  [u EXCEPT !.derivedColumnSelections =
     Map(LAMBDA cs : Map(LAMBDA c : [c EXCEPT !.expr.dataType =
                                       OrElse(@, GetTypeForExpr(a, u, c.expr))], cs), @)]

InferType(a) == WalkThroughSelectionUnits(a, InferTypeForSelectionUnit)

\* Columns that were not derived, or something read from null.
CrashesInUnit(u) ==
  \/ u.derivedColumnSelections = <<>>
  \/ \E c \in ToSet(u.derivedColumnSelections[1]) : c.expr.dataType = "null"

InferTypeCrashes(a) ==
  \E s \in {r.selection : r \in {r \in ToSet(a.relations) : IsDerived(r)}}
             \cup UNION {ToSet(c.selection) : c \in {c \in UNION {ToSet(cs) : cs \in ToSet(a.arrays)} :
                                                       c.astType = "Insert"}} :
    \E c \in ToSet(s.compositeSelections) : CrashesInUnit(c.relation)

-----------------------------------------------------------------------------
(***************************************************************************)
(* CompileDerivedAstGivenAst.  Each step rewrites the view in place: if it *)
(* is the view that was put in the program, there too.                     *)
(***************************************************************************)
WithView(a, isNew, r) == IF isNew THEN [a EXCEPT !.relations = ReplaceAt(@, Len(@), r)] ELSE a

\* The name of another relation is only reported.
AddRelation(a, r) ==
  IF IsDefined(a, r.rName) THEN a
  ELSE AddSingleDependencyByDerivedRelation([a EXCEPT !.relations = Append(@, r)], r)

Rewritten(F(_), r) == [r EXCEPT !.selection = MapUnits(F, @)]
Templated(r) == [r EXCEPT !.selection = TryToApplyTemplate(@)]

\* A relation that is a variable of a template is not defined, and the template
\* is applied after the relation was added.
DependencyCrashes(a, r) ==
  LET isNew == ~IsDefined(a, r.rName)
      with  == IF isNew THEN [a EXCEPT !.relations = Append(@, r)] ELSE a
  IN  \/ isNew /\ IsRelationEventCrashes(with, r)
      \/ IsRelationEventCrashes(AddRelation(a, r), Templated(r))

\* Mutant: aliases are taken before the template has put in its names.
CompileDerivedAliasFirst(a, r) ==
  LET isNew == ~IsDefined(a, r.rName)
      r1 == Templated(Rewritten(NormalizeAliasOfUnit, r))
      a1 == AddSingleDependencyByDerivedRelation(AddRelation(a, r), r1)
      r2 == Rewritten(LAMBDA u : NormalizeColumnForSelectionUnit(WithView(a1, isNew, r1), u), r1)
      r3 == Rewritten(LAMBDA u : InferTypeForSelectionUnit(WithView(a1, isNew, r2), u), r2)
  IN  WithView(a1, isNew, r3)

CompileDerived(a, r) ==
  LET isNew == ~IsDefined(a, r.rName)
      r1 == Rewritten(NormalizeAliasOfUnit, Templated(r))
      a1 == AddSingleDependencyByDerivedRelation(AddRelation(a, r), r1)
      r2 == Rewritten(LAMBDA u : NormalizeColumnForSelectionUnit(WithView(a1, isNew, r1), u), r1)
      r3 == Rewritten(LAMBDA u : InferTypeForSelectionUnit(WithView(a1, isNew, r2), u), r2)
  IN  WithView(a1, isNew, r3)

-----------------------------------------------------------------------------
(***************************************************************************)
(* The compiler: parsed, the passes of CompileAst, and added views.        *)
(***************************************************************************)
\* The tree of the program is empty until its pass.
ParsePlainDielAst(text) == VisitQueries(text) @@ [depTree |-> Dep!EmptyTree]

Init ==
  /\ program \in Programs
  /\ ast = [relations |-> <<>>, programs |-> <<>>, arrays |-> <<>>, commands |-> <<>>,
            depTree |-> Dep!EmptyTree]
  /\ pass = "text"
  /\ added = 0

Pass(from, to, result) ==
  /\ pass = from
  /\ pass' = to
  /\ ast' = result
  /\ UNCHANGED <<program, added>>

Parse == Pass("text", "parsed", ParsePlainDielAst(program.text))
TemplatesPass == Pass("parsed", "templates", ApplyTemplates(ast))
AliasPass == Pass("templates", "alias", NormalizeAlias(ast))
ArrangePass == Pass("alias", "arranged", ArrangeInTopologicalOrder(AddDepTree(ast)))
ConstraintsPass == Pass("arranged", "constraints", NormalizeConstraints(ast))
ColumnPass == Pass("constraints", "columns", NormalizeColumnSelection(ast))
TypePass ==
  LET typed == InferType(ast)
  IN  Pass("columns", IF InferTypeCrashes(typed) THEN "crashed" ELSE "compiled", typed)

NextAdded(by) ==
  /\ pass = "compiled"
  /\ added < Len(program.added)
  /\ program.added[added + 1].by = by

Added == program.added[added + 1].view

AddView(view) ==
  /\ added' = added + 1
  /\ IF DependencyCrashes(ast, view) THEN ast' = AddRelation(ast, view) /\ pass' = "crashed"
     ELSE /\ ast' = CompileDerived(ast, view)
          /\ pass' = IF InferTypeCrashes(ast') THEN "crashed" ELSE "compiled"
  /\ UNCHANGED program

\* A Relation: the tree of a view that was parsed with the same templates.
AddViewByAst ==
  /\ NextAdded("ast")
  /\ AddView(VisitViewStmt(VisitTemplates(program.text.templates), Added))

\* The text of an output, for a Visitor without templates: it ends at the
\* first use of one.
AddOutputRelationByString ==
  /\ NextAdded("string")
  /\ \/ /\ ~UsesTemplate(Added.query)
        /\ AddView(VisitViewStmt(VisitTemplates(<<>>), [Added EXCEPT !.type = "Output"]))
     \/ /\ UsesTemplate(Added.query)
        /\ pass' = "crashed"
        /\ UNCHANGED <<program, ast, added>>

Next ==
  \/ Parse \/ TemplatesPass \/ AliasPass \/ ArrangePass \/ ConstraintsPass
  \/ ColumnPass \/ TypePass \/ AddViewByAst \/ AddOutputRelationByString

Spec == Init /\ [][Next]_vars
=============================================================================
