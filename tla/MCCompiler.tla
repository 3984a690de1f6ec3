------------------------------ MODULE MCCompiler ------------------------------
(***************************************************************************)
(* Programs over two tables and an event table: one view of each of the    *)
(* ways to write one, a second view that reads the first, written before   *)
(* or after it or added to the running program, by their trees or by text. *)
(***************************************************************************)
EXTENDS CompiledSql

Col(name) == <<Ident(Undefined, name)>>
From(r, name) == <<Ident(r, name)>>
Sel(e) == [expr |-> e, alias |-> Undefined]
As(e, name) == [expr |-> e, alias |-> name]
Stars(r) == Sel(<<Asterisk(r)>>)
One == Literal("Number")
Op(a, o, b) == a \o <<Operator(o)>> \o b

Ref(r) == [relation |-> r, alias |-> Undefined, latest |-> FALSE, query |-> <<>>]
LatestRef(r) == [Ref(r) EXCEPT !.latest = TRUE]
Aliased(r, name) == [r EXCEPT !.alias = name]
Sub(q, name) == [relation |-> Undefined, alias |-> name, latest |-> FALSE, query |-> <<q>>]
JoinOn(r, e) == r @@ [join |-> "inner", on |-> e, template |-> Undefined, spec |-> NoSpec]

Unit(columns, r) ==
  [distinct |-> FALSE, columns |-> columns, from |-> <<r>>, joins |-> <<>>, where |-> <<>>,
   group |-> <<>>, order |-> <<>>, limit |-> <<>>]
Query(u) == Union(<<[op |-> "NA", unit |-> u]>>)
Joined(u, j) == [u EXCEPT !.joins = <<j>>]
Where(u, e) == [u EXCEPT !.where = <<e>>]

Table(name, type, columns) ==
  [name |-> name, type |-> type, copyFrom |-> Undefined, primaryKey |-> <<>>,
   columns |-> Map(LAMBDA c : [cName |-> c, dataType |-> IF c = "b" THEN "String" ELSE "Number",
                               constraints |-> {}], columns)]
View(name, type, q) == [name |-> name, type |-> type, query |-> q]

Tables == <<Table("T", "Table", <<"a", "b">>), Table("S", "Table", <<"a", "c">>),
            Table("E", "EventTable", <<"x", "y">>)>>

\* template byKey(k, r) (select {k} as key from {r} where {k} = 1)
\* template ofV(k) (select {k} as key, {k} from v where {k} = 1), and ofS(k) from S
OfRelation(name, r) ==
  [name |-> name, join |-> <<>>, query |->
     <<Query(Where(Unit(<<As(Col("{k}"), "key"), Sel(Col("{k}"))>>, Ref(r)),
                   Op(Col("{k}"), "=", <<One>>)))>>]

Templates ==
  <<[name |-> "byKey", join |-> <<>>, query |->
       <<Query(Where(Unit(<<As(Col("{k}"), "key")>>, Ref("{r}")), Op(Col("{k}"), "=", <<One>>)))>>],
    OfRelation("ofS", "S"), OfRelation("ofV", "v")>>

TJoinS == JoinOn(Ref("S"), <<Op(From("T", "a"), "=", From("S", "a"))>>)
MaxOfE == Query(Unit(<<As(<<Call("max", <<Col("x")>>)>>, "m")>>, Ref("E")))

\* The ways to write the first view over the tables.
OverTables == <<
  Query(Unit(<<Sel(Col("a")), Sel(Col("b"))>>, Ref("T"))),
  Query(Unit(<<Stars(Undefined)>>, Ref("T"))),
  Query(Joined(Unit(<<Stars("T"), Stars("S")>>, Ref("T")), TJoinS)),
  Query(Joined(Unit(<<As(From("T", "a"), "k"), Sel(Col("c"))>>, Ref("T")), TJoinS)),
  Query([Unit(<<Sel(Col("b")), As(<<Call("count", <<Col("a")>>)>>, "n")>>, Ref("T"))
           EXCEPT !.group = <<[by |-> <<Col("b")>>, having |-> <<Op(Col("n"), "=", <<One>>)>>]>>,
                  !.order = <<[by |-> Col("n"), desc |-> TRUE]>>]),
  Query(Where(Unit(<<As(Op(Col("a"), "+", <<One>>), "s"), Sel(Col("b"))>>, Aliased(Ref("T"), "t")),
              Op(Op(Col("a"), "=", <<One>>), "and",
                 Op(From("t", "a"), "=", <<ScalarQuery(MaxOfE)>>)))),
  Union(<<[op |-> "NA", unit |-> Unit(<<Sel(Col("a")), Sel(Col("b"))>>, Ref("T"))],
          [op |-> "union", unit |-> Unit(<<Sel(Col("a")), Sel(Col("c"))>>, Ref("S"))]>>),
  Query(Unit(<<Sel(Col("k")), As(<<CaseWhen(<<Op(Col("k"), "=", <<One>>), Col("k"), Col("k")>>)>>, "w")>>,
             Sub(Query(Unit(<<As(Col("a"), "k")>>, Aliased(Ref("T"), "T"))), "u"))),
  UseTemplate("byKey", ("k" :> "a") @@ ("r" :> "S")),
  UseTemplate("ofS", "k" :> "c"),
  \* Not supported.
  Query(Unit(<<As(<<One, Operator("*"), Bracket(Op(Col("a"), "+", <<One>>))>>, "s")>>, Ref("T"))),
  Query([Unit(<<Sel(Col("a"))>>, Ref("T")) EXCEPT !.order = <<[by |-> Col("a"), desc |-> FALSE]>>]),
  Query(Unit(<<As(<<Call("count", <<<<Asterisk(Undefined)>>>>)>>, "n")>>, Ref("T"))) >>

OverEvents == <<
  Query(Unit(<<Sel(Col("x")), Sel(Col("timestep"))>>, Ref("E"))),
  Query(Unit(<<Sel(Col("x"))>>, LatestRef("E"))),
  Query(Joined(Unit(<<As(Col("x"), "k"), Sel(Col("b"))>>, Ref("T")),
               JoinOn(LatestRef("E"), <<Op(From("E", "x"), "=", From("T", "a"))>>))),
  Query(Joined(Where(Unit(<<Stars("E"), Sel(Col("a"))>>, LatestRef("E")), Op(Col("x"), "=", <<One>>)),
               JoinOn(Ref("T"), <<Op(From("T", "a"), "=", From("E", "x"))>>))),
  \* Not supported.
  Query(Unit(<<Sel(From("e", "x"))>>, Aliased(LatestRef("E"), "e"))),
  Query(Where(Unit(<<Sel(Col("x"))>>, LatestRef("E")),
              Op(Op(Col("x"), "=", <<One>>), "or", Op(Col("y"), "=", <<One>>)))) >>

\* The ways to read it.
First(q, tables) ==
  ColumnsOf(Env([templates |-> Templates, tables |-> tables, views |-> <<>>]), q)[1].name

OverView(c, event) == <<
  Query(Unit(<<Stars(Undefined), Sel(From("v", c))>>, Ref("v"))),
  Query(Joined(Unit(<<Stars("v"), Sel(From("T", "b"))>>, Ref("v")),
               JoinOn(Ref("T"), <<Op(From("T", "a"), "=", From("v", c))>>))),
  Query(Unit(<<Stars("u")>>,
             Sub(Query(Unit(<<As(Col(c), "p"), As(Col(c), "q")>>, Aliased(Ref("v"), "v"))), "u"))),
  UseTemplate("byKey", ("k" :> c) @@ ("r" :> "v")),
  UseTemplate("ofV", "k" :> c) >>
    \o IF event THEN <<Query(Unit(<<Sel(Col(c)), Sel(Col("timestep"))>>, LatestRef("v")))>> ELSE <<>>

Text(tables, views, programs, commands) ==
  [templates |-> Templates, tables |-> tables, views |-> views, programs |-> programs,
   commands |-> commands]

By(way, v) == [by |-> way, view |-> v]

\* In the order of the text, against it, or added one after the other: the
\* first is a view and added by its tree, the second by its tree or its text.
Arrangements(v, w) ==
  {[text |-> Text(Tables, <<v, w>>, <<>>, <<>>), added |-> <<>>],
   [text |-> Text(Tables, <<w, v>>, <<>>, <<>>), added |-> <<>>]}
    \cup {[text |-> Text(Tables, <<>>, <<>>, <<>>), added |-> <<By("ast", v), By(way, w)>>] :
            way \in {"ast", "string"}}

Pairs(queries, type) ==
  UNION {UNION {Arrangements(View("v", type, q), View("w", "Output", r)) :
                  r \in ToSet(OverView(First(q, Tables), type = "EventView"))} :
           q \in ToSet(queries)}

\* Tables with constraints, and programs after one event or after two.
Constrained ==
  <<[Table("T", "Table", <<"a", "b">>) EXCEPT !.columns[1].constraints = {"primaryKey"},
                                              !.columns[2].constraints = {"notNull", "unique"}],
    Table("E", "EventTable", <<"x">>), Table("F", "EventTable", <<"x">>)>>

Insert(q) == [command |-> "insert", relation |-> "T", columns |-> <<"a", "b">>, query |-> q,
              values |-> IF q = <<>> THEN <<"1", "'s'">> ELSE <<>>]
Inserted == <<Query(Unit(<<Sel(Col("x")), As(Col("timestep"), "t")>>, Ref("E")))>>

After(events, commands) == [events |-> events, commands |-> commands]
EventPrograms ==
  {<<After(<<"E">>, <<Insert(Inserted)>>), After(<<"E">>, <<Insert(<<>>)>>)>>,
   <<After(<<"E", "F">>, <<Insert(Inserted), Insert(<<>>)>>)>>,
   <<After(<<"E">>, <<Insert(Inserted)>>), After(<<"E", "F">>, <<Insert(<<>>)>>)>>}

WithPrograms ==
  {[text |-> Text(Constrained, <<View("v", "Output", OverTables[1])>>, ps, cs), added |-> <<>>] :
     ps \in EventPrograms, cs \in {<<>>, <<Insert(<<>>)>>}}

AllPrograms ==
  Pairs(OverTables, "View") \cup Pairs(OverEvents, "View") \cup Pairs(OverEvents, "EventView")
    \cup WithPrograms

BracedNames == ("{k}" :> "k") @@ ("{r}" :> "r")
LowerCaseNames == ("timestep" :> "TIMESTEP") @@ ("max" :> "MAX") @@ ("count" :> "COUNT")
NoUdfs == [n \in {} |-> "Number"]
=============================================================================
