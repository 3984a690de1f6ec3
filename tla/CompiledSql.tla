----------------------------- MODULE CompiledSql -----------------------------
(***************************************************************************)
(* What the compiler promises: the SQL it prints for a view means to the   *)
(* database what the text of the view means to who wrote it.  The meaning  *)
(* of a text is what SQLite (external) makes of it: every name is resolved *)
(* to the column of the relation it stands for, stars are written out,     *)
(* parentheses that change nothing are dropped, a WHERE clause is the set  *)
(* of its conjuncts, and DIEL's LATEST is one conjunct more.               *)
(***************************************************************************)
EXTENDS Compiler

\* A name in a text that stands for nothing, or for more than one thing.
Wrong == [item |-> "wrong"]

Columns(ns, n) == {k \in DOMAIN ns : Upper(ns[k].name) = Upper(n)}

(***************************************************************************)
(* env has the text of the program and the variables of the template that  *)
(* is being read.  A scope has for each relation in a FROM clause its      *)
(* alias and its columns; scopes has that of the query at hand first and   *)
(* then those around it.                                                   *)
(***************************************************************************)
Env(text) == [text |-> text, spec |-> NoSpec]

NamedIn(s, name) == SelectSeq(s, LAMBDA r : r.name = name)
Template(env, t) == NamedIn(env.text.templates, t)[1]

Name(env, n) ==
  IF n \in DOMAIN VariableOf /\ VariableOf[n] \in DOMAIN env.spec
  THEN env.spec[VariableOf[n]] ELSE n

RECURSIVE ResolveIdent(_, _, _)
ResolveIdent(scopes, relation, column) ==
  LET found == {k \in DOMAIN scopes[1] :
                  /\ ~Present(relation) \/ scopes[1][k].name = relation
                  /\ Columns(scopes[1][k].columns, column) # {}}
  IN  IF Cardinality(found) = 1
      THEN [item |-> "source", level |-> Len(scopes), source |-> CHOOSE k \in found : TRUE,
            column |-> Upper(column)]
      ELSE IF found = {} /\ Len(scopes) > 1 THEN ResolveIdent(Tail(scopes), relation, column)
      ELSE Wrong

\* The text of (select max(timestep) as timestep from relation).
MaxTimestep(relation) ==
  LET max == Call("max", <<<<Ident(Undefined, "timestep")>>>>)
  IN  Union(<<[op |-> "NA", unit |->
        [distinct |-> FALSE, columns |-> <<[expr |-> <<max>>, alias |-> "timestep"]>>,
         from |-> <<[relation |-> relation, alias |-> Undefined, latest |-> FALSE, query |-> <<>>]>>,
         joins |-> <<>>, where |-> <<>>, group |-> <<>>, order |-> <<>>, limit |-> <<>>]]>>)

Unbracketed(e) == IF Len(e) = 1 /\ e[1].item = "paren" THEN e[1].content ELSE e

\* and binds more strongly than or, and less than what else there is.
Conjuncts(e) ==
  IF Operator("or") \in ToSet(e) THEN {e}
  ELSE LET cuts == {0, Len(e) + 1} \cup {i \in DOMAIN e : e[i] = Operator("and")}
       IN  {Unbracketed(SubSeq(e, i + 1, Min({j \in cuts : j > i}) - 1)) : i \in cuts \ {Max(cuts)}}

RECURSIVE MeaningOfExpr(_, _, _), MeaningOfQuery(_, _, _), ColumnsOf(_, _), ColumnsOfUnit(_, _),
          TypeOf(_, _, _)

MeaningOfItem(env, scopes, i) ==
  CASE i.item = "column"   -> ResolveIdent(scopes, Name(env, i.relation), Name(env, i.column))
    [] i.item = "paren"    -> LET m == MeaningOfExpr(env, scopes, i.content)
                              IN  IF Len(m) = 1 THEN m[1] ELSE Bracket(m)
    [] i.item = "function" -> Call(Upper(i.function),
                                   Map(LAMBDA e : MeaningOfExpr(env, scopes, e), i.args))
    [] i.item = "case"     -> CaseWhen(Map(LAMBDA e : MeaningOfExpr(env, scopes, e), i.args))
    [] i.item = "not"      -> Negation(MeaningOfExpr(env, scopes, i.content))
    [] i.item = "query"    -> ScalarQuery(MeaningOfQuery(env, scopes, i.query))
    [] i.item = "crash"    -> Wrong
    [] OTHER -> i

MeaningOfExpr(env, scopes, e) == Unbracketed(Map(LAMBDA i : MeaningOfItem(env, scopes, i), e))

\* Joins of a text, those that a template stands for included.
Joins(env, u) ==
  Map(LAMBDA j : IF Present(j.template) THEN Template(env, j.template).join[1] ELSE j, u.joins)

Sources(env, u) == u.from \o Joins(env, u)

AliasOf(env, r) == OrElse(r.alias, Name(env, r.relation))

ColumnsOfRelation(env, n) ==
  LET tables == NamedIn(env.text.tables, n)
      views  == NamedIn(env.text.views, n)
      With(r, own) == IF IsEvent([relationType |-> r.type])
                      THEN own \o Map(LAMBDA c : [name |-> c.cName, type |-> c.dataType], EventColumns)
                      ELSE own
  IN  CASE tables # <<>> ->
             With(tables[1], Map(LAMBDA c : [name |-> c.cName, type |-> c.dataType],
                                 tables[1].columns))
        [] views # <<>>  -> With(views[1], ColumnsOf(Env(env.text), views[1].query))
        [] OTHER         -> <<>>

Scope(env, u) ==
  Map(LAMBDA r : [name |-> AliasOf(env, r),
                  columns |-> IF r.query # <<>> THEN ColumnsOf(env, r.query[1])
                              ELSE ColumnsOfRelation(env, Name(env, r.relation))],
      Sources(env, u))

\* The columns a star stands for, by source and name.
StarColumns(env, u, star) ==
  LET scope == Scope(env, u)
  IN  FlattenSeq([k \in DOMAIN scope |->
        IF Present(star.relation) /\ Name(env, star.relation) # scope[k].name THEN <<>>
        ELSE Map(LAMBDA c : [source |-> k, column |-> c], scope[k].columns)])

IsStar(e) == Len(e) = 1 /\ e[1].item = "star"

MeaningOfColumn(env, scopes, u, c) ==
  IF IsStar(c.expr)
  THEN Map(LAMBDA s : <<[item |-> "source", level |-> Len(scopes), source |-> s.source,
                         column |-> Upper(s.column.name)]>>,
           StarColumns(env, u, c.expr[1]))
  ELSE <<MeaningOfExpr(env, scopes, c.expr)>>

LatestConjuncts(env, scopes, u) ==
  {MeaningOfExpr(env, scopes, <<Ident(AliasOf(env, r), "timestep"), Operator("="),
                                ScalarQuery(MaxTimestep(Name(env, r.relation)))>>) :
     r \in {r \in ToSet(Sources(env, u)) : r.latest}}

\* After WHERE the columns of the result can be named as well.
MeaningInScopes(env, outer, u, scopes, result) ==
  LET Of(s, es) == Map(LAMBDA e : MeaningOfExpr(env, s, e), es)
  IN  [distinct |-> u.distinct,
       columns |-> FlattenSeq(Map(LAMBDA c : MeaningOfColumn(env, scopes, u, c), u.columns)),
       from  |-> Map(LAMBDA r : [relation |-> Name(env, r.relation),
                                 query |-> Map(LAMBDA q : MeaningOfQuery(env, outer, q), r.query)],
                     Sources(env, u)),
       joins |-> Map(LAMBDA j : [join |-> j.join, on |-> Of(scopes, j.on)], Joins(env, u)),
       where |-> LatestConjuncts(env, scopes, u) \cup UNION {Conjuncts(e) : e \in ToSet(Of(scopes, u.where))},
       group |-> Map(LAMBDA g : [by |-> Of(result, g.by), having |-> Of(result, g.having)], u.group),
       order |-> Map(LAMBDA o : [by |-> MeaningOfExpr(env, result, o.by), desc |-> o.desc], u.order),
       limit |-> Of(scopes, u.limit)]

MeaningOfUnit(env, outer, u) ==
  LET scopes == <<Scope(env, u)>> \o outer
  IN  MeaningInScopes(env, outer, u, scopes,
        <<<<[name |-> Undefined, columns |-> ColumnsOfUnit(env, u)]>>>> \o scopes)

\* The query a text stands for, and what its variables stand for.
Instantiated(env, q) == IF Present(q.template) THEN Template(env, q.template).query[1] ELSE q
Instance(env, q) == IF Present(q.template) THEN [env EXCEPT !.spec = q.spec] ELSE env

MeaningOfQuery(env, outer, q) ==
  Map(LAMBDA c : [op |-> c.op, unit |-> MeaningOfUnit(Instance(env, q), outer, c.unit)],
      Instantiated(env, q).units)

-----------------------------------------------------------------------------
(***************************************************************************)
(* The columns of a query: their names, and the types DIEL gives to values.*)
(***************************************************************************)
TypeOfIdent(scope, relation, column) ==
  LET found == {k \in DOMAIN scope : /\ ~Present(relation) \/ scope[k].name = relation
                                     /\ Columns(scope[k].columns, column) # {}}
      columns == IF found = {} THEN <<>> ELSE scope[CHOOSE k \in found : TRUE].columns
  IN  IF found = {} THEN Undefined ELSE columns[CHOOSE i \in Columns(columns, column) : TRUE].type

TypeOf(env, scope, e) ==
  IF Len(e) > 1
  THEN IF \A i \in DOMAIN e : e[i].item = "op" => e[i].op \in MathOp THEN "Number" ELSE "Boolean"
  ELSE CASE e[1].item = "column"   -> TypeOfIdent(scope, Name(env, e[1].relation), Name(env, e[1].column))
         [] e[1].item = "value"    -> e[1].type
         [] e[1].item = "paren"    -> TypeOf(env, scope, e[1].content)
         [] e[1].item = "case"     -> TypeOf(env, scope, e[1].args[2])
         [] e[1].item = "not"      -> "Boolean"
         [] e[1].item = "function" ->
              IF Upper(e[1].function) = "COALESCE" THEN TypeOf(env, scope, e[1].args[1])
              ELSE UdfTypes[Upper(e[1].function)]
         [] OTHER -> Undefined

NameOfColumn(env, c) ==
  IF Present(c.alias) THEN c.alias
  ELSE CASE c.expr[1].item = "column" -> Name(env, c.expr[1].column)
         [] c.expr[1].item = "function" -> c.expr[1].function
         [] OTHER -> Undefined

\* DIEL names the columns of stars after their relation where they may be of
\* different ones, but for a single star.
NameOfStarColumn(u, source, name) ==
  IF u.joins = <<>> \/ Len(SelectSeq(u.columns, LAMBDA c : IsStar(c.expr))) = 1
  THEN name ELSE source \o "_" \o name

ColumnsOfUnit(env, u) ==
  LET scope == Scope(env, u)
  IN  FlattenSeq(Map(LAMBDA c :
        IF IsStar(c.expr)
        THEN Map(LAMBDA s : [s.column EXCEPT !.name = NameOfStarColumn(u, scope[s.source].name, @)],
                 StarColumns(env, u, c.expr[1]))
        ELSE <<[name |-> NameOfColumn(env, c), type |-> TypeOf(env, scope, c.expr)]>>, u.columns))

ColumnsOf(env, q) == ColumnsOfUnit(Instance(env, q), Instantiated(env, q).units[1].unit)

-----------------------------------------------------------------------------
(***************************************************************************)
(* What the compiler does not get right (README, Observations); a program  *)
(* that has none of it is a supported one.                                 *)
(***************************************************************************)
HasItem(e, kind) == \E i \in Items(e) : i.item = kind

\* Sums in parentheses, count(*), and what is no expression of columns.
UnsupportedColumn(c) ==
  \/ HasItem(c.expr, "paren") \/ HasItem(c.expr, "query") \/ HasItem(c.expr, "not")
  \/ (~IsStar(c.expr) /\ HasItem(c.expr, "star"))
  \/ (~Present(c.alias) /\ (Len(c.expr) > 1 \/ c.expr[1].item \notin {"column", "star", "function"}))
  \/ (Len(c.expr) = 1 /\ c.expr[1].item = "value")

IsEventRelation(env, n) ==
  \E r \in ToSet(env.text.tables \o env.text.views) : r.name = n /\ IsEvent([relationType |-> r.type])

\* An event relation under another name, whose LATEST or timestep is meant.
UnsupportedEvent(env, u) ==
  \E r \in ToSet(Sources(env, u)) :
    /\ Present(r.alias) /\ IsEventRelation(env, r.relation)
    /\ \/ r.latest
       \/ \E c \in ToSet(u.columns) : \E i \in Items(c.expr) :
            i.item = "column" /\ ~Present(i.relation) /\ Upper(i.column) \in BuiltInColumn

\* LATEST of a query, of a relation that has none, or next to an or.
UnsupportedLatest(env, u) ==
  \E r \in ToSet(Sources(env, u)) :
    r.latest /\ \/ r.query # <<>> \/ ~IsEventRelation(env, r.relation)
                \/ \E e \in ToSet(u.where) : Operator("or") \in ToSet(e)

\* A column whose type is there before the pass that infers types.
EarlyTyped(e) == IsStar(e) \/ (Len(e) = 1 /\ e[1].item = "column" /\ ~Present(e[1].relation))

\* A subquery that is more than columns with an alias, from one unit, or that
\* reads a view whose columns have no type yet.
UnsupportedSubquery(env, u) ==
  \E r \in ToSet(Sources(env, u)) : \E q \in ToSet(r.query) :
    \/ Present(q.template) \/ Len(q.units) # 1
    \/ \E s \in ToSet(Sources(env, q.units[1].unit)) : s.latest \/ ~Present(s.alias)
    \/ \E c \in ToSet(q.units[1].unit.columns) : UnsupportedColumn(c) \/ ~Present(c.alias)
    \/ \E v \in ToSet(env.text.views) : \E s \in ToSet(Sources(env, q.units[1].unit)) :
         /\ v.name = s.relation
         /\ \E c \in ToSet(Instantiated(env, v.query).units[1].unit.columns) : ~EarlyTyped(c.expr)

UnsupportedUnit(env, u) ==
  \/ \E c \in ToSet(u.columns) :
       UnsupportedColumn(c) \/ (IsStar(c.expr) /\ Len(StarColumns(env, u, c.expr[1])) = 1)
  \/ \E o \in ToSet(u.order) : ~o.desc
  \/ \E j \in ToSet(u.joins) : Present(j.template) /\ DOMAIN j.spec # {}
  \/ UnsupportedEvent(env, u) \/ UnsupportedLatest(env, u) \/ UnsupportedSubquery(env, u)

SupportedQuery(env, q) ==
  \A c \in ToSet(Instantiated(env, q).units) : ~UnsupportedUnit(Instance(env, q), c.unit)

-----------------------------------------------------------------------------
(***************************************************************************)
(* The promise.                                                            *)
(***************************************************************************)
AddedViews == Map(LAMBDA a : a.view, program.added)
Views == program.text.views \o AddedViews
ProgramEnv == Env([program.text EXCEPT !.views = Views])

\* When a view is added LATEST is left out.  A template cannot be used by text,
\* and by tree only if no relation is one of its variables.
SupportedAddition(a) ==
  /\ \A c \in ToSet(Instantiated(ProgramEnv, a.view.query).units) :
       \A r \in ToSet(Sources(ProgramEnv, c.unit)) : ~r.latest
  /\ IF a.by = "string" THEN ~UsesTemplate(a.view.query)
     ELSE LET tree == VisitViewStmt(VisitTemplates(program.text.templates), a.view)
          IN  ToSet(DependsOn(tree)) \cap DOMAIN VariableOf = {}

Supported ==
  /\ \A v \in ToSet(Views) : SupportedQuery(ProgramEnv, v.query)
  /\ \A a \in ToSet(program.added) : SupportedAddition(a)

CompiledViews == {v \in ToSet(Views) : pass = "compiled" /\ IsDefined(ast, v.name)}
PrintedQuery(v) == GenerateSqlViews(GetRelationDef(ast, v.name)).query
NamesOf(env, q) == Map(LAMBDA c : c.name, ColumnsOf(env, q))

\* The SQL that is printed for a view computes the relation that its text in
\* DIEL defines, with columns of the same names: variables, LATEST, stars and
\* unqualified names stand for what they stand for in the text; and none of
\* the passes ends the compilation of such a program.
MeaningPreserved ==
  Supported =>
    /\ pass # "crashed"
    /\ \A v \in CompiledViews :
         /\ MeaningOfQuery(ProgramEnv, <<>>, PrintedQuery(v)) = MeaningOfQuery(ProgramEnv, <<>>, v.query)
         /\ NamesOf(ProgramEnv, PrintedQuery(v)) = NamesOf(ProgramEnv, v.query)

\* Each column of a view has the type of what is selected for it, through
\* the views it is read from: the order of the passes, and that of the views,
\* has what is read typed before what reads it.
TypesInferred ==
  Supported =>
    \A v \in CompiledViews :
      Map(LAMBDA c : c.expr.dataType,
          FirstUnit(GetRelationDef(ast, v.name).selection).derivedColumnSelections[1])
        = Map(LAMBDA c : c.type, ColumnsOf(ProgramEnv, v.query))

\* A view that is added to the running program becomes what it would have
\* become if it had been part of the program when that was compiled.
WholeText == [program.text EXCEPT !.views = Views]
CompileAst(text) ==
  InferType(NormalizeColumnSelection(NormalizeConstraints(ArrangeInTopologicalOrder(AddDepTree(
    NormalizeAlias(ApplyTemplates(ParsePlainDielAst(text))))))))

AddedLikeSetUp ==
  Supported =>
    \A i \in 1..added :
      GetRelationDef(ast, AddedViews[i].name)
        = GetRelationDef(CompileAst(WholeText), AddedViews[i].name)

\* An event that is in two programs, one of which has other events too.
SharesProgram ==
  \E i, j \in DOMAIN program.text.programs :
    /\ i # j
    /\ ToSet(program.text.programs[i].events) \cap ToSet(program.text.programs[j].events) # {}
    /\ Len(program.text.programs[i].events) > 1

MeaningOfCommand(c) ==
  IF c.command = "insert"
  THEN [c EXCEPT !.query = Map(LAMBDA q : MeaningOfQuery(ProgramEnv, <<>>, q), @)] ELSE c

WrittenFor(e) ==
  FlattenSeq(Map(LAMBDA p : Map(MeaningOfCommand, p.commands),
                 SelectSeq(program.text.programs, LAMBDA p : e \in ToSet(p.events))))

\* The tables are created with the columns and the constraints that were
\* written, and each event runs the commands of all its programs in the order
\* of the text, with queries that mean what they meant there.
StatementsAsWritten ==
  pass = "compiled" =>
    LET triggers == [e \in DOMAIN ast.programs |-> ast.arrays[ast.programs[e]]]
        sql == GenerateStringFromSqlIr(ast.relations, triggers, ast.commands)
        Has(t, constraint) == {c.cName : c \in {c \in ToSet(t.columns) : constraint \in c.constraints}}
    IN  /\ ToSet(sql.tables) = {[name |-> t.name, columns |-> t.columns] : t \in ToSet(program.text.tables)}
        /\ \A t \in ToSet(program.text.tables) :
             LET cs == GetRelationDef(ast, t.name).constraints
             IN  /\ ToSet(cs.notNull) = Has(t, "notNull")
                 /\ ToSet(cs.uniques) = {<<c>> : c \in Has(t, "unique")}
                 /\ ToSet(cs.primaryKey) = Has(t, "primaryKey")
        /\ ~SharesProgram =>
             /\ DOMAIN triggers = UNION {ToSet(p.events) : p \in ToSet(program.text.programs)}
             /\ \A e \in DOMAIN triggers : Map(MeaningOfCommand, sql.triggers[e]) = WrittenFor(e)
        /\ sql.commands = program.text.commands
=============================================================================
