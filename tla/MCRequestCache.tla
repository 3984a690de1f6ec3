--------------------------- MODULE MCRequestCache ---------------------------
(***************************************************************************)
(* Two event tables.  A simple program on one database: low is read        *)
(* through one view, range, which has rows only if both are 1, through     *)
(* another.  And the program with the event view that joins the views low  *)
(* and high.                                                               *)
(***************************************************************************)
EXTENDS RequestCache

MCLocalRelation == {"low", "range"}
MCEventsOf  == [r \in {"low", "range"} |-> IF r = "low" THEN {"l"} ELSE {"l", "h"}]
MCPassing   == [r \in {"low", "range"} |-> IF r = "low" THEN {1, 2} ELSE {1}]
MCColumns   == [r \in {"low", "range"} |-> r]
MCLocalRefs == [v \in {"a", "b"} |-> IF v = "a" THEN <<"low">> ELSE <<"range">>]
MCDbOf      == [v \in {"a", "b"} |-> 2]

MCNewRows == {<<"l", 1>>, <<"l", 2>>, <<"h", 1>>}

PairEventsOf  == [r \in {"low", "high"} |-> IF r = "low" THEN {"l"} ELSE {"h"}]
PairPassing   == [r \in {"low", "high"} |-> {1, 2}]
PairColumns   == [r \in {"low", "high"} |-> r]
PairLocalRefs == [v \in {"a"} |-> <<"low", "high">>]
PairDbOf      == [v \in {"a"} |-> 2]
=============================================================================
