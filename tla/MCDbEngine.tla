----------------------------- MODULE MCDbEngine -----------------------------
(***************************************************************************)
(* Two small programs for DbEngine.                                        *)
(*                                                                         *)
(* One worker: the event tables itx and brush and the local view sel over  *)
(* brush are shipped to database 2, which evaluates the event views evA    *)
(* (over itx and brush) and evB (over brush and sel).                      *)
(***************************************************************************)
EXTENDS DbEngine

OneEngine == {2}

OneRelation == {"itx", "brush", "sel", "evA", "evB"}

OneShipForEvent ==
  [e \in Event |->
     CASE e = "itx"   -> <<[destination |-> 2, relation |-> "itx"]>>
       [] e = "brush" -> <<[destination |-> 2, relation |-> "brush"],
                           [destination |-> 2, relation |-> "sel"]>>
       [] OTHER       -> <<>>]

OneDeps ==
  [d \in Engine |-> [e \in Event |->
     CASE e = "itx" -> {"itx"} [] e = "brush" -> {"brush", "sel"} [] OTHER -> {}]]

OneRelationsToShip ==
  [d \in Engine |-> [e \in Event |->
     CASE e = "itx" -> <<"evA">> [] e = "brush" -> <<"evA", "evB">> [] OTHER -> <<>>]]

(***************************************************************************)
(* Two databases: itx is shipped to both; database 2 evaluates evA over    *)
(* itx, whose rows come back as an event and go on to database 3, which    *)
(* evaluates evB over itx and evA.                                         *)
(***************************************************************************)
TwoEngines == {2, 3}

TwoRelation == {"itx", "evA", "evB"}

TwoShipForEvent ==
  [e \in Event |->
     CASE e = "itx" -> <<[destination |-> 2, relation |-> "itx"],
                         [destination |-> 3, relation |-> "itx"]>>
       [] e = "evA" -> <<[destination |-> 3, relation |-> "evA"]>>
       [] OTHER     -> <<>>]

TwoDeps ==
  [d \in Engine |-> [e \in Event |->
     CASE d = 2 /\ e = "itx" -> {"itx"}
       [] d = 3 /\ e = "itx" -> {"itx", "evA"}
       [] d = 3 /\ e = "evA" -> {"evA"}
       [] OTHER -> {}]]

TwoRelationsToShip ==
  [d \in Engine |-> [e \in Event |->
     CASE d = 2 /\ e = "itx"          -> <<"evA">>
       [] d = 3 /\ e \in {"itx", "evA"} -> <<"evB">>
       [] OTHER -> <<>>]]
=============================================================================
