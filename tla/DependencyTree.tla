--------------------------- MODULE DependencyTree ---------------------------
(***************************************************************************)
(* The dependency tree of DIEL (src/src/compiler/passes/dependency.ts and  *)
(* passesHelper.ts) as pure operators: how relations are added to it, and  *)
(* the closures and the order that are derived from it.                    *)
(*                                                                         *)
(* The Map of the code is the record [order, node]: the keys in the order  *)
(* of insertion, and the node of each key.  Relations are names; a         *)
(* definition is abstracted to the sequence of names it reads, with its    *)
(* repetitions (getSelectionUnitDep).                                      *)
(***************************************************************************)
EXTENDS Integers, SequencesExt

EmptyTree == [order |-> <<>>, node |-> [r \in {} |-> {}]]

\* depTree.set: a key that is set again keeps its place.
SetNode(tree, r, n) ==
  [order |-> IF r \in DOMAIN tree.node THEN tree.order ELSE Append(tree.order, r),
   node  |-> [s \in DOMAIN tree.node \cup {r} |-> IF s = r THEN n ELSE tree.node[s]]]

DeleteNode(tree, r) ==
  [order |-> RemoveFirst(tree.order, r),
   node  |-> [s \in DOMAIN tree.node \ {r} |-> tree.node[s]]]

-----------------------------------------------------------------------------
(***************************************************************************)
(* AddSingleDependency: the node of r, then r in the node of everything it *)
(* reads.  The node is written anew even when the tree has it already.     *)
(***************************************************************************)
AddDependencyOneWay(tree, deps, r, dynamic) ==
  SetNode(tree, r, [dependsOn |-> deps, isDependedBy |-> <<>>, isDynamic |-> r \in dynamic])

\* One turn of the loop: r reads d.
AddReader(tree, d, r, dynamic) ==
  IF d \in DOMAIN tree.node
  THEN [tree EXCEPT !.node[d].isDependedBy = Append(@, r)]
  ELSE SetNode(tree, d, [dependsOn |-> <<>>, isDependedBy |-> <<r>>, isDynamic |-> d \in dynamic])

AddDependencyOtherWay(tree, deps, r, dynamic) ==
  LET after[i \in 0..Len(deps)] ==
        IF i = 0 THEN tree ELSE AddReader(after[i - 1], deps[i], r, dynamic)
  IN  after[Len(deps)]

AddSingleDependency(tree, deps, r, dynamic) ==
  AddDependencyOtherWay(AddDependencyOneWay(tree, deps, r, dynamic), deps, r, dynamic)

\* The loop of AddDepTree and of DeriveDepTreeFromSqlRelations, for views that ds defines.
AddDependencies(tree, views, ds, dynamic) ==
  LET after[i \in 0..Len(views)] ==
        IF i = 0 THEN tree
        ELSE AddSingleDependency(after[i - 1], ds[views[i]], views[i], dynamic)
  IN  after[Len(views)]

-----------------------------------------------------------------------------
(***************************************************************************)
(* DeriveDependentRelations: everything that reads r, directly or not.  The*)
(* calls of oneStep that are still to be made are a set, because a relation*)
(* is found once and called for once; their order makes no difference.     *)
(***************************************************************************)
Readers(tree, r) == {k \in DOMAIN tree.node : Contains(tree.node[k].dependsOn, r)}

\* Mutant: the readers of r only.
DirectDependents(tree, r) == Readers(tree, r)

DeriveDependentRelations(tree, r) ==
  LET N == DOMAIN tree.node
      oneStep[s \in [todo : SUBSET (N \cup {r}), found : SUBSET N]] ==
        IF s.todo = {} THEN s.found
        ELSE LET x   == CHOOSE x \in s.todo : TRUE
                 new == Readers(tree, x) \ s.found
             IN  oneStep[[todo |-> (s.todo \ {x}) \cup new, found |-> s.found \cup new]]
  IN  oneStep[[todo |-> {r}, found |-> {}]]

(***************************************************************************)
(* DeriveOriginalRelationsAViewDependsOn: breadth first, down to the       *)
(* dynamic relations.  The guard before a child is put in the list asks for*)
(* the relation being visited, not for the child.                          *)
(***************************************************************************)
DeriveOriginalRelationsAViewDependsOn(tree, v) ==
  LET N == DOMAIN tree.node
      visit[s \in [toVisit : Seq(N), visited : SUBSET N, tables : SUBSET N]] ==
        IF s.toVisit = <<>> THEN s.tables
        ELSE LET next     == Head(s.toVisit)
                 rest     == Tail(s.toVisit)
                 dynamic  == tree.node[next].isDynamic
                 children == IF dynamic \/ Contains(rest, next) \/ next \in s.visited
                             THEN <<>> ELSE tree.node[next].dependsOn
             IN  visit[[toVisit |-> rest \o children,
                        visited |-> s.visited \cup {next},
                        tables  |-> s.tables \cup (IF dynamic THEN {next} ELSE {})]]
  IN  visit[[toVisit |-> tree.node[v].dependsOn, visited |-> {v}, tables |-> {}]]

(***************************************************************************)
(* getTopologicalOrder: depth first from each key, in the order of the     *)
(* keys; what is not in the tree is skipped, and so is what is in the order*)
(* already.  The stack holds the calls of topoVisit in progress; the one on*)
(* top, or the loop over the keys below all of them, goes on with what it  *)
(* finds next.                                                             *)
(***************************************************************************)
\* Mutant: a relation is put in the order without a look at what it reads.
ToVisitKeysOnly(tree, stack) == IF stack = <<>> THEN tree.order ELSE <<>>

ToVisit(tree, stack) ==
  IF stack = <<>> THEN tree.order ELSE tree.node[Head(stack)].dependsOn

GetTopologicalOrder(tree) ==
  LET N == DOMAIN tree.node
      topoVisit[s \in [stack : Seq(N), sorted : Seq(N)]] ==
        LET names == ToVisit(tree, s.stack)
            i     == SelectInSeq(names, LAMBDA d : d \in N \ ToSet(s.sorted))
        IN  IF i # 0 THEN topoVisit[[s EXCEPT !.stack = <<names[i]>> \o @]]
            ELSE IF s.stack = <<>> THEN s.sorted
            ELSE topoVisit[[stack  |-> Tail(s.stack),
                            sorted |-> Append(s.sorted, Head(s.stack))]]
  IN  topoVisit[[stack |-> <<>>, sorted |-> <<>>]]

\* The elements of s that are in R, in their order.
Keep(s, R) ==
  LET kept[i \in 0..Len(s)] ==
        IF i = 0 THEN <<>>
        ELSE IF s[i] \in R THEN Append(kept[i - 1], s[i]) ELSE kept[i - 1]
  IN  kept[Len(s)]

(***************************************************************************)
(* ArrangeInTopologicalOrder: the relations that nobody reads and that read*)
(* nothing are not in the tree, and go to the end.                         *)
(***************************************************************************)
ArrangeInTopologicalOrder(tree, relations) ==
  LET arranged == Keep(GetTopologicalOrder(tree), ToSet(relations))
  IN  arranged \o Keep(relations, ToSet(relations) \ ToSet(arranged))

-----------------------------------------------------------------------------
\* What relation r is defined from, when the views are defined by ds.
ReadBy(ds, r) == IF r \in DOMAIN ds THEN ToSet(ds[r]) ELSE {}

(***************************************************************************)
(* The reference: everything a relation reads, directly or through views,  *)
(* which is what is in every set that has all its members read.            *)
(***************************************************************************)
AllRead(ds) == UNION {ReadBy(ds, s) : s \in DOMAIN ds}

Below(ds, r) ==
  LET closed == {S \in SUBSET AllRead(ds) : /\ ReadBy(ds, r) \subseteq S
                                           /\ \A x \in S : ReadBy(ds, x) \subseteq S}
  IN  {s \in AllRead(ds) : \A S \in closed : s \in S}

\* No relation is read along two paths below v.
TreeShaped(ds, v) ==
  \A r \in (Below(ds, v) \cup {v}) \cap DOMAIN ds : \A i, j \in DOMAIN ds[r] : i < j =>
    LET b(k) == {ds[r][k]} \cup Below(ds, ds[r][k])
    IN  b(i) \cap b(j) = {}
=============================================================================
