-------------------------- MODULE MCMaterialization --------------------------
(***************************************************************************)
(* Every program of up to four views in which a view reads one or two of   *)
(* the relations before it, the same one twice included.                   *)
(***************************************************************************)
EXTENDS Materialization

FourViews == <<"v1", "v2", "v3", "v4">>

\* What the view in place i may read; the order of the two does not matter.
ReadsBefore(i) ==
  LET N == SetToSeq(Base) \o SubSeq(ViewOrder, 1, i - 1)
  IN  {<<N[j]>> : j \in DOMAIN N} \cup
      {<<N[p[1]], N[p[2]]>> : p \in {q \in (1..Len(N)) \X (1..Len(N)) : q[1] <= q[2]}}

ProgramsOfFour ==
  {[v \in View |->
      CASE v = "v1" -> p[1] [] v = "v2" -> p[2] [] v = "v3" -> p[3] [] OTHER -> p[4]] :
   p \in ReadsBefore(1) \X ReadsBefore(2) \X ReadsBefore(3) \X ReadsBefore(4)}
=============================================================================
