------------------------------ MODULE SelectText ------------------------------
(***************************************************************************)
(* DIEL text to abstract syntax (the Visitor of generateAst.ts) and back   *)
(* to SQL text (codeGenSql.ts).                                            *)
(*                                                                         *)
(* A text is what the grammar sees of it.  An expression is the sequence   *)
(* of its operands and operators from left to right, with no tree on it:   *)
(* what an expression means is for SQLite to say, and the tree the Visitor *)
(* makes is not that of SQL.  A select unit is the record of its clauses,  *)
(* a query the sequence of its units or the use of a template.  A clause   *)
(* that may be absent is a sequence of at most one element, an absent name *)
(* or type is "".  In the syntax tree the names are those of dielAstTypes. *)
(***************************************************************************)
EXTENDS Integers, SequencesExt, FiniteSetsExt

Undefined == ""
Present(name) == name # Undefined
OrElse(name, other) == IF Present(name) THEN name ELSE other

\* F of each element, in order (\o makes TLC evaluate each of them once).
Map(F(_), s) == <<>> \o [i \in DOMAIN s |-> F(s[i])]

-----------------------------------------------------------------------------
(***************************************************************************)
(* The items of an expression's text.                                      *)
(***************************************************************************)
Ident(relation, column) == [item |-> "column", relation |-> relation, column |-> column]
Asterisk(relation)      == [item |-> "star", relation |-> relation]
Literal(type)           == [item |-> "value", type |-> type]
Bracket(content)        == [item |-> "paren", content |-> content]
Call(function, args)    == [item |-> "function", function |-> function, args |-> args]
CaseWhen(args)          == [item |-> "case", args |-> args]
Negation(content)       == [item |-> "not", content |-> content]
ScalarQuery(query)      == [item |-> "query", query |-> query]
Operator(op)            == [item |-> "op", op |-> op]

\* What a program that ends with an exception has printed.
Crash == [item |-> "crash"]

MathOp == {"*", "/", "%", "+", "-"}
NullOp == {"IS NULL", "NOT NULL"}

NoSpec == [v \in {} |-> Undefined]

Union(units)          == [template |-> Undefined, spec |-> NoSpec, units |-> units]
UseTemplate(t, spec)  == [template |-> t, spec |-> spec, units |-> <<>>]

-----------------------------------------------------------------------------
(***************************************************************************)
(* Expressions of the syntax tree.                                         *)
(***************************************************************************)
Column(relation, column, type) ==
  [exprType |-> "Column", relationName |-> relation, columnName |-> column, dataType |-> type]
Star(relation) == [exprType |-> "Star", relationName |-> relation, dataType |-> Undefined]
Val(type) == [exprType |-> "Val", dataType |-> type]
Parenthesis(content) ==
  [exprType |-> "Parenthesis", content |-> content, dataType |-> Undefined]
Func(functionType, reference, type, args) ==
  [exprType |-> "Func", functionType |-> functionType, functionReference |-> reference,
   dataType |-> type, args |-> args]
Relation(selection) ==
  [exprType |-> "Relation", selection |-> selection, dataType |-> "Relation"]

\* null, what a function returns after LogInternalError.
Null == [exprType |-> "null", dataType |-> Undefined]

-----------------------------------------------------------------------------
(***************************************************************************)
(* The Visitor.  T has the syntax trees of the templates by name.          *)
(***************************************************************************)
RECURSIVE VisitExpr(_, _), VisitQuery(_, _)

VisitBinOp(op, lhs, rhs) ==
  IF op \in MathOp THEN Func("Math", op, "Number", <<lhs, rhs>>)
                   ELSE Func("Logic", op, "Boolean", <<lhs, rhs>>)

VisitUnitExpr(T, u) ==
  CASE u.item = "column"   -> Column(u.relation, u.column, Undefined)
    [] u.item = "star"     -> Star(u.relation)
    [] u.item = "value"    -> Val(IF u.type = "Boolean" THEN "String" ELSE u.type)
    [] u.item = "paren"    -> Parenthesis(VisitExpr(T, u.content))
    [] u.item = "query"    -> Relation(VisitQuery(T, u.query))
    [] u.item = "not"      -> Func("Logic", "NOT", "Boolean", <<VisitExpr(T, u.content)>>)
    [] u.item = "function" ->
         Func("Custom", u.function, Undefined, Map(LAMBDA e : VisitExpr(T, e), u.args))
    [] u.item = "case"     ->
         Func("BuiltIn", "IFTHISTHEN", Undefined, Map(LAMBDA e : VisitExpr(T, e), u.args))

\* exprBinOp and exprNull are left recursive, and all operators bind alike.
VisitExpr(T, e) ==
  IF Len(e) = 1 THEN VisitUnitExpr(T, e[1])
  ELSE IF e[Len(e)].item = "op"
  THEN Func("BuiltIn", e[Len(e)].op, "Boolean", <<VisitExpr(T, Front(e))>>)
  ELSE VisitBinOp(e[Len(e) - 1].op, VisitExpr(T, SubSeq(e, 1, Len(e) - 2)),
                  VisitUnitExpr(T, Last(e)))

VisitColumns(T, cs) == Map(LAMBDA c : [expr |-> VisitExpr(T, c.expr), alias |-> c.alias], cs)

VisitRelationReference(T, r) ==
  [relationName |-> r.relation, alias |-> r.alias, isLatest |-> r.latest,
   subquery |-> Map(LAMBDA q : VisitQuery(T, q), r.query)]

\* A join clause is basic or, a copy of the tree, that of a template.
VisitJoinClause(T, j) ==
  IF Present(j.template) THEN [T[j.template] EXCEPT !.templateSpec = j.spec]
  ELSE [joinType |-> j.join, relation |-> VisitRelationReference(T, j),
        predicate |-> Map(LAMBDA e : VisitExpr(T, e), j.on), templateSpec |-> NoSpec]

VisitGroupByClause(T, g) ==
  [selections |-> Map(LAMBDA e : VisitExpr(T, e), g.by),
   predicate |-> Map(LAMBDA e : VisitExpr(T, e), g.having)]

\* ctx.DESC is a function and so never false.
VisitOrderSpec(T, o) == [selection |-> VisitExpr(T, o.by), order |-> "DESC"]

VisitSelectUnitQuery(T, u) ==
  [isDistinct |-> u.distinct,
   columnSelections |-> VisitColumns(T, u.columns),
   derivedColumnSelections |-> <<>>,   \* absent until the pass that fills it
   baseRelation  |-> Map(LAMBDA r : VisitRelationReference(T, r), u.from),
   joinClauses   |-> Map(LAMBDA j : VisitJoinClause(T, j), u.joins),
   whereClause   |-> Map(LAMBDA e : VisitExpr(T, e), u.where),
   groupByClause |-> Map(LAMBDA g : VisitGroupByClause(T, g), u.group),
   orderByClause |-> Map(LAMBDA o : VisitOrderSpec(T, o), u.order),
   limitClause   |-> Map(LAMBDA e : VisitExpr(T, e), u.limit)]

VisitQuery(T, q) ==
  IF Present(q.template) THEN [T[q.template] EXCEPT !.templateSpec = q.spec]
  ELSE [compositeSelections |->
          Map(LAMBDA c : [op |-> c.op, relation |-> VisitSelectUnitQuery(T, c.unit)], q.units),
        templateSpec |-> NoSpec]

\* An expression with all that is in it, but for the queries in it.
RECURSIVE Items(_), UsesTemplate(_)
Items(e) ==
  UNION {{i} \cup CASE i.item \in {"paren", "not"} -> Items(i.content)
                   [] i.item \in {"function", "case"} -> UNION {Items(x) : x \in ToSet(i.args)}
                   [] OTHER -> {} : i \in ToSet(e)}

Expressions(u) ==
  Map(LAMBDA c : c.expr, u.columns) \o u.where \o FlattenSeq(Map(LAMBDA j : j.on, u.joins))
    \o FlattenSeq(Map(LAMBDA g : g.by \o g.having, u.group))
    \o Map(LAMBDA o : o.by, u.order) \o u.limit

\* Some query or join in q is that of a template (getAndCopyTemplateAst).
UsesTemplate(q) ==
  \/ Present(q.template)
  \/ \E c \in ToSet(q.units) :
       \/ \E j \in ToSet(c.unit.joins) : Present(j.template)
       \/ \E r \in ToSet(c.unit.from \o c.unit.joins) : \E s \in ToSet(r.query) : UsesTemplate(s)
       \/ \E e \in ToSet(Expressions(c.unit)) : \E i \in Items(e) :
            i.item = "query" /\ UsesTemplate(i.query)

-----------------------------------------------------------------------------
(***************************************************************************)
(* Statements.  A program is written by kind: in each list the statements  *)
(* of the kind are in the order of the text.                               *)
(***************************************************************************)
\* Queries first as their own templates must be there before they are used.
VisitTemplates(templates) ==
  FoldLeft(LAMBDA T, t :
             [n \in DOMAIN T \cup {t.name} |->
                IF n # t.name THEN T[n]
                ELSE IF t.join # <<>> THEN VisitJoinClause(T, t.join[1])
                ELSE VisitQuery(T, t.query[1])],
           [n \in {} |-> Null], templates)

VisitViewStmt(T, v) ==
  [rName |-> v.name, relationType |-> v.type, selection |-> VisitQuery(T, v.query)]

\* A copy has no columns of its own yet; a definition brings its constraints.
VisitOriginalTableStmt(t) ==
  [rName |-> t.name, relationType |-> t.type, columns |-> t.columns, copyFrom |-> t.copyFrom,
   constraints |-> [notNull |-> <<>>, uniques |-> <<>>, primaryKey |-> t.primaryKey]]

VisitCommand(T, c) ==
  CASE c.command = "insert" ->
         [astType |-> "Insert", relation |-> c.relation, columns |-> c.columns,
          selection |-> Map(LAMBDA q : VisitQuery(T, q), c.query), values |-> c.values]
    [] c.command = "delete" ->
         [astType |-> "Delete", relationName |-> c.relation,
          predicate |-> Map(LAMBDA e : VisitExpr(T, e), c.where)]
    [] c.command = "drop" -> [astType |-> "RelationSelection", dropName |-> c.relation]
    [] c.command = "select" -> VisitQuery(T, c.query[1]) @@ [astType |-> "RelationSelection"]

(***************************************************************************)
(* ast.programs maps an event to an array of commands.  Every event of a   *)
(* program that has no commands yet gets the same array, so an array has   *)
(* an identity: programs maps an event to a place in arrays.               *)
(***************************************************************************)
\* Mutant: the commands of an earlier program are lost.
AddProgramAnew(T, acc, p) ==
  LET commands == Map(LAMBDA c : VisitCommand(T, c), p.commands)
  IN  FoldLeft(LAMBDA a, e : [a EXCEPT !.programs = (e :> Len(a.arrays)) @@ @],
               [acc EXCEPT !.arrays = Append(@, commands)], p.events)

AddProgram(T, acc, p) ==
  LET commands == Map(LAMBDA c : VisitCommand(T, c), p.commands)
      \* The array is there before it is known whether an event takes it.
      start == [acc EXCEPT !.arrays = Append(@, commands)]
  IN  FoldLeft(LAMBDA a, e :
                 IF e \in DOMAIN a.programs
                 THEN [a EXCEPT !.arrays[a.programs[e]] = @ \o a.arrays[Len(a.arrays)]]
                 ELSE [a EXCEPT !.programs = (e :> Len(a.arrays)) @@ @],
               start, p.events)

VisitPrograms(T, ps) ==
  FoldLeft(LAMBDA acc, p : AddProgram(T, acc, p),
           [programs |-> [e \in {} |-> 0], arrays |-> <<>>], ps)

\* Inserts, then drops, then deletes.
VisitCommands(T, cs) ==
  LET Of(kind) == SelectSeq(cs, LAMBDA c : c.command = kind)
  IN  Map(LAMBDA c : VisitCommand(T, c), Of("insert") \o Of("drop") \o Of("delete"))

VisitStatements(T, text) ==
  [relations |-> Map(VisitOriginalTableStmt, text.tables)
                   \o Map(LAMBDA v : VisitViewStmt(T, v), text.views),
   commands  |-> VisitCommands(T, text.commands)]
     @@ VisitPrograms(T, text.programs)

VisitQueries(text) == VisitStatements(VisitTemplates(text.templates), text)

-----------------------------------------------------------------------------
(***************************************************************************)
(* codeGenSql: the text that is handed to a database.                      *)
(***************************************************************************)
RECURSIVE GetSqlStringFromExpr(_), GenerateSelect(_)

\* An operator has two arguments, whatever it stands for.
SqlOfOperator(op, args) ==
  IF Len(args) # 2 THEN <<Crash>>
  ELSE GetSqlStringFromExpr(args[1]) \o <<Operator(op)>> \o GetSqlStringFromExpr(args[2])

GetSqlStringFromExpr(e) ==
  CASE e.exprType = "Val"         -> <<Literal(e.dataType)>>
    [] e.exprType = "Star"        -> <<Asterisk(e.relationName)>>
    [] e.exprType = "Column"      -> <<Ident(e.relationName, e.columnName)>>
    [] e.exprType = "Relation"    -> <<ScalarQuery(GenerateSelect(e.selection))>>
    [] e.exprType = "Parenthesis" -> <<Bracket(GetSqlStringFromExpr(e.content))>>
    [] e.exprType = "null"        -> <<Crash>>
    [] e.exprType = "Func" ->
         CASE e.functionType \in {"Math", "Logic"} -> SqlOfOperator(e.functionReference, e.args)
           [] e.functionType = "Custom" ->
                <<Call(e.functionReference, Map(GetSqlStringFromExpr, e.args))>>
           [] e.functionType = "BuiltIn" ->
                IF e.functionReference \in NullOp
                THEN GetSqlStringFromExpr(e.args[1]) \o <<Operator(e.functionReference)>>
                ELSE <<CaseWhen(Map(GetSqlStringFromExpr, e.args))>>

SqlOfRelationReference(ref) ==
  [relation |-> ref.relationName, alias |-> ref.alias, latest |-> FALSE,
   query |-> Map(GenerateSelect, ref.subquery)]

GenerateColumnSelection(cs) ==
  Map(LAMBDA c : [expr |-> GetSqlStringFromExpr(c.expr), alias |-> c.alias], cs)

\* Nothing of a join says that it stood for a template.
GenerateJoin(j) ==
  SqlOfRelationReference(j.relation)
    @@ [join |-> j.joinType, on |-> Map(GetSqlStringFromExpr, j.predicate),
        template |-> Undefined, spec |-> NoSpec]

GenerateGroupBy(g) ==
  [by |-> Map(GetSqlStringFromExpr, g.selections),
   having |-> Map(GetSqlStringFromExpr, g.predicate)]

GenerateOrder(o) == [by |-> GetSqlStringFromExpr(o.selection), desc |-> o.order = "DESC"]

SqlStrFromSelectionUnit(u) ==
  [distinct |-> u.isDistinct,
   columns |-> GenerateColumnSelection(IF u.derivedColumnSelections = <<>>
                                       THEN u.columnSelections ELSE u.derivedColumnSelections[1]),
   from  |-> Map(SqlOfRelationReference, u.baseRelation),
   joins |-> Map(GenerateJoin, u.joinClauses),
   where |-> Map(GetSqlStringFromExpr, u.whereClause),
   group |-> Map(GenerateGroupBy, u.groupByClause),
   order |-> Map(GenerateOrder, u.orderByClause),
   limit |-> Map(GetSqlStringFromExpr, u.limitClause)]

GenerateSelect(s) ==
  Union(Map(LAMBDA c : [op |-> c.op, unit |-> SqlStrFromSelectionUnit(c.relation)],
            s.compositeSelections))

\* A drop has the type of a selection and none of its fields.
GenerateCommand(c) ==
  CASE c.astType = "Insert" ->
         [command |-> "insert", relation |-> c.relation, columns |-> c.columns,
          query |-> Map(GenerateSelect, c.selection), values |-> c.values]
    [] c.astType = "Delete" ->
         [command |-> "delete", relation |-> c.relationName,
          where |-> Map(GetSqlStringFromExpr, c.predicate)]
    [] c.astType = "RelationSelection" ->
         IF "compositeSelections" \in DOMAIN c
         THEN [command |-> "select", query |-> <<GenerateSelect(c)>>] ELSE Crash

\* A column has the constraints that are written on it; those of the table
\* are left out.
GenerateTableSpec(r) == [name |-> r.rName, columns |-> r.columns]

GenerateSqlViews(r) == [name |-> r.rName, query |-> GenerateSelect(r.selection)]

GenerateStringFromSqlIr(relations, triggers, commands) ==
  [tables   |-> Map(GenerateTableSpec, SelectSeq(relations, LAMBDA r : "columns" \in DOMAIN r)),
   views    |-> Map(GenerateSqlViews, SelectSeq(relations, LAMBDA r : "selection" \in DOMAIN r)),
   triggers |-> [e \in DOMAIN triggers |-> Map(GenerateCommand, triggers[e])],
   commands |-> Map(GenerateCommand, commands)]
=============================================================================
