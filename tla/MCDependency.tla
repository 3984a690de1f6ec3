---------------------------- MODULE MCDependency ----------------------------
(***************************************************************************)
(* An event table, a static table and three views, each of which reads one *)
(* or two relations, the same one twice (a self-join) included.  Of a table*)
(* and a view that are read together the table comes first.                *)
(***************************************************************************)
EXTENDS Dependency

OneOrTwo ==
  {<<r>> : r \in Name} \cup
  {p \in Name \X Name : p[2] \in Table => p[1] \in Table}

\* Names matter to no operator: the views may be exchanged.
ViewsAlike == Permutations(View)
=============================================================================
