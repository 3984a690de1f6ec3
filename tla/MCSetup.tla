------------------------------- MODULE MCSetup -------------------------------
(***************************************************************************)
(* A worker and a socket that have a table each and one in common, a       *)
(* program with a view in each of them - the socket still has its view u   *)
(* from the last session - and two outputs added to it: o1 needs a new     *)
(* event view w in the worker, o2 needs w, another view of the worker and  *)
(* one of the socket.                                                      *)
(***************************************************************************)
EXTENDS Setup, TLC

MCKind == 2 :> "Worker" @@ 3 :> "Socket"
MCTables == 1 :> {} @@ 2 :> {"a", "c"} @@ 3 :> {"b", "c", "u"}
MCDefinitions == 1 :> {"o"} @@ 2 :> {"v"} @@ 3 :> {"u"}
MCInstructions ==
  "o1" :> {<<1, "o1">>, <<2, "w">>} @@ "o2" :> {<<1, "o2">>, <<2, "w">>, <<2, "x">>, <<3, "y">>}
=============================================================================
