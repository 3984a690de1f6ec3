--------------------------- MODULE MCDistribution ---------------------------
(***************************************************************************)
(* A worker and a socket with a table each, an event table and a static    *)
(* table, one view, one event view and one output, and then another output *)
(* or view while the program runs, or one of them defined anew.  In some   *)
(* programs an event view and a second output read the first one.          *)
(***************************************************************************)
EXTENDS Distribution

MCDbType == <<"Local", "Worker", "Socket">>
MCRelationLocation == [r |-> 2, s |-> 3]

ViewRefs == {<<<<"e">>>>, <<<<"t">>>>, <<<<"r">>>>, <<<<"e">>, <<"r">>>>, <<<<"r">>, <<"s">>>>}

EventViewRefs == {<<<<"r">>>>, <<<<"e">>, <<"r">>>>, <<<<"e", "r">>>>, <<<<"v">>>>,
                  <<<<"v">>, <<"e">>>>, <<<<"v">>, <<"r">>>>, <<<<"v">>, <<"s">>>>}

OutputRefs == {<<<<"v">>>>, <<<<"w">>>>, <<<<"w">>, <<"e">>>>, <<<<"v">>, <<"w">>>>,
               <<<<"w">>, <<"r">>>>, <<<<"e">>, <<"r">>>>, <<<<"v">>, <<"s">>>>, <<<<"t">>>>}

OverOutput == {<<<<"o">>>>, <<<<"o">>, <<"r">>>>, <<<<"v">>, <<"o">>>>}

MCPrograms ==
  {<<Relation("v", "View", v), Relation("w", "EventView", w), Relation("o", "Output", o)>> :
     v \in ViewRefs, w \in EventViewRefs, o \in OutputRefs}
  \cup {<<Relation("v", "View", v), Relation("o", "Output", o),
          Relation("w", "EventView", w), Relation("q", "Output", q)>> :
          v \in {<<<<"e">>>>, <<<<"e">>, <<"r">>>>}, o \in {<<<<"v">>>>, <<<<"e">>, <<"r">>>>},
          w \in OverOutput, q \in OverOutput \cup {<<<<"w">>>>, <<<<"o">>, <<"w">>>>}}

MCAdditions ==
  {Relation("p", "Output", refs) :
     refs \in OutputRefs \cup {<<<<"o">>>>, <<<<"q">>, <<"w">>>>, <<<<"oAsyncView">>>>}}
  \cup {Relation("u", "View", <<<<n>>>>) : n \in {"e", "w", "r"}}
  \cup {Relation("u", "EventView", <<<<"o">>, <<"s">>>>)}
  \cup {Relation("o", "Output", refs) : refs \in {<<<<"v">>>>, <<<<"e">>, <<"r">>>>}}
  \cup {Relation("w", "EventView", refs) : refs \in {<<<<"v">>>>, <<<<"e">>, <<"s">>>>}}
=============================================================================
