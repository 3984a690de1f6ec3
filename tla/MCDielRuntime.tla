---------------------------- MODULE MCDielRuntime ----------------------------
(***************************************************************************)
(* A small program for DielRuntime: the event tables itx and brush are     *)
(* shipped to database 2, which evaluates evA over both and evB over brush.*)
(* The outputs chartA and chartB show the latest answers; list is local.   *)
(***************************************************************************)
EXTENDS DielRuntime

UiRelation == {"itx", "brush", "evA", "evB"}

UiShipForEvent ==
  [e \in Event |->
     IF e \in Input THEN <<[destination |-> 2, relation |-> e]>> ELSE <<>>]

UiDeps == [d \in Engine |-> [e \in Event |-> {e} \cap Input]]

UiRelationsToShip ==
  [d \in Engine |-> [e \in Event |->
     CASE e = "itx" -> <<"evA">> [] e = "brush" -> <<"evA", "evB">> [] OTHER -> <<>>]]

UiSource == [o \in Output |->
  CASE o = "chartA" -> "evA" [] o = "chartB" -> "evB" [] OTHER -> "brush"]

UiRunsOn == [o \in Output |->
  CASE o = "chartA" -> {"itx", "brush", "evA"}
    [] o = "chartB" -> {"brush", "evB"}
    [] OTHER -> {"brush"}]

\* No output can be computed before the first event.
NoStatic == [o \in Output |-> [d \in Engine |-> <<>>]]

\* Database 2 has something to show for evA from the start.
StaticA ==
  [o \in Output |-> [d \in Engine |-> IF o = "chartA" THEN <<"evA">> ELSE <<>>]]
=============================================================================
