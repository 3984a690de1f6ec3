--------------------------- MODULE DependencyProofs ---------------------------
(***************************************************************************)
(* Theorems about Dependency, for every set of names, every program over   *)
(* them and every sequence of changes: what dependency.ts derives from the *)
(* tree is what the definitions say.  The invariant is that the tree       *)
(* mirrors the definitions, which no view reads itself through.            *)
(***************************************************************************)
EXTENDS Dependency, DependencyTreeProofs

-----------------------------------------------------------------------------
(***************************************************************************)
(* The invariant: the relations are there once each, the views among them  *)
(* are those that are defined, and once the program is compiled the tree   *)
(* mirrors the definitions, which read only what is there.                 *)
(***************************************************************************)
TypeInv ==
  /\ relations \in Seq(Name) /\ Distinct(relations)
  /\ defs \in [DOMAIN defs -> Seq(Name)]
  /\ DOMAIN defs = View \cap ToSet(relations)
  /\ eventViews \subseteq View
  /\ compiled \in BOOLEAN /\ running \in Nat

TreeInv ==
  /\ NoCycle(defs)
  /\ ~compiled => depTree = EmptyTree /\ eventViews = {}
  /\ compiled => /\ Mirrors(depTree, defs, Name, Dynamic)
                 /\ \A v \in DOMAIN defs : ToSet(defs[v]) \subseteq ToSet(relations)

Inv == TypeInv /\ TreeInv

LEMMA AppendDistinct ==
  ASSUME NEW X, NEW s \in Seq(X), Distinct(s), NEW r \in X, r \notin ToSet(s)
  PROVE  LET q == Append(s, r)
         IN  q \in Seq(X) /\ Distinct(q) /\ ToSet(q) = ToSet(s) \cup {r}
<1> DEFINE q == Append(s, r)
           n == Len(s)
<1>1. /\ q \in Seq(X) /\ n \in Nat /\ DOMAIN s = 1..n /\ DOMAIN q = 1..(n + 1)
      /\ q[n + 1] = r /\ \A i \in 1..n : q[i] = s[i]
  OBVIOUS
<1> HIDE DEF q, n
<1>2. 1..(n + 1) = (1..n) \cup {n + 1}
  BY <1>1
<1>3. \A i \in 1..n : s[i] # r
  BY <1>1 DEF ToSet
<1>4. Distinct(q)
  BY <1>1, <1>2, <1>3 DEF Distinct
<1>5. ToSet(q) = ToSet(s) \cup {r}
  BY <1>1, <1>2 DEF ToSet
<1> QED  BY <1>1, <1>4, <1>5 DEF q

LEMMA NamesAre ==
  /\ Reads \subseteq Seq(Name) /\ Table \subseteq Name /\ View \subseteq Name
  /\ View \cap Table = {} /\ EventTable \subseteq Table /\ EventTable \cap View = {}
<1>1. Reads \subseteq Seq(EventTable \cup StaticTable \cup View)
  BY NamesAssumption
<1>2. EventTable \cup StaticTable \cup View = Name
  BY DEF Name, Table
<1>3. Reads \subseteq Seq(Name)
  BY <1>1, <1>2
<1> QED  BY <1>3, NamesAssumption DEF Name, Table

LEMMA AddDepTreeMirrors ==
  ASSUME TypeInv, depTree = EmptyTree
  PROVE  Mirrors(AddDepTree, defs, Name, EventTable)
<1> DEFINE q == Keep(relations, View)
<1>1. q \in Seq(Name) /\ IsKept(relations, View, q)
  BY KeepIs DEF TypeInv
<1>2. ToSet(q) = DOMAIN defs
  BY <1>1 DEF IsKept, TypeInv
<1>3. AddDepTree = AddDependencies(EmptyTree, q, defs, EventTable)
  BY DEF AddDepTree
<1> HIDE DEF q
<1>4. \A v \in ToSet(q) : defs[v] \in Seq(Name)
  BY <1>2 DEF TypeInv
<1>5. Mirrors(AddDependencies(EmptyTree, q, defs, EventTable),
              [v \in ToSet(q) |-> defs[v]], Name, EventTable)
  BY <1>1, <1>4, AddDependenciesMirror
<1>6. [v \in ToSet(q) |-> defs[v]] = defs
  BY <1>2 DEF TypeInv
<1> QED  BY <1>3, <1>5, <1>6

LEMMA InvInit == Init => Inv
<1> SUFFICES ASSUME Init PROVE Inv
  OBVIOUS
<1>1. /\ relations = <<>> /\ defs = [v \in {} |-> <<>>] /\ eventViews = {}
      /\ depTree = EmptyTree /\ compiled = FALSE /\ running = 0
  BY DEF Init
<1>2. ToSet(relations) = {} /\ Distinct(relations) /\ relations \in Seq(Name) /\ DOMAIN defs = {}
  BY <1>1 DEF ToSet, Distinct
<1>3. TypeInv
  BY <1>1, <1>2 DEF TypeInv
<1> QED  BY <1>1, <1>2, <1>3 DEF Inv, TreeInv, NoCycle

\* A view that is new or replaces one of its name, when the tree has it out of date.
LEMMA DefineKeepsType ==
  ASSUME TypeInv, NEW v \in View, NEW deps \in Seq(Name)
  PROVE  LET es == Define(v, deps)
         IN  /\ es = Defined(defs, v, deps) /\ DOMAIN es = DOMAIN defs \cup {v}
             /\ es \in [DOMAIN es -> Seq(Name)]
             /\ es[v] = deps /\ \A w \in DOMAIN defs : w # v => es[w] = defs[w]
BY DEF TypeInv, Define, Defined

LEMMA AddTwiceMirrors ==
  ASSUME NEW t, NEW v \in View, NEW deps \in Seq(Name), NEW ds, NEW events,
         MirrorsBut(t, ds, v, Name, EventTable \cup events)
  PROVE  Mirrors(AddTwice(t, v, deps, events), Defined(ds, v, deps), Name, EventTable \cup events)
<1> DEFINE E == EventTable \cup events
           u == AddSingleDependency(t, deps, v, E)
           w == AddSingleDependency(u, deps, v, E)
           es == Defined(ds, v, deps)
<1>0. v \in Name
  BY NamesAre
<1>1. Mirrors(u, es, Name, E)
  BY <1>0, MirrorsAfterAdd
<1>2. AddTwice(t, v, deps, events) = w
  BY DEF AddTwice
<1> HIDE DEF u
<1>3. MirrorsBut(u, es, v, Name, E)
  BY <1>1, MirrorsAllBut
<1>4. Mirrors(w, Defined(es, v, deps), Name, E)
  <2> HIDE DEF es
  <2> QED  BY <1>0, <1>3, MirrorsAfterAdd
<1>5. Defined(es, v, deps) = es
  BY DEF Defined
<1> QED  BY <1>2, <1>4, <1>5

\* When v is about to be put in place, only its own mark is out of date.
LEMMA MarksOfOthers ==
  ASSUME NEW t, NEW ds, NEW v, NEW N, NEW D, NEW E, MirrorsBut(t, ds, v, N, D),
         \A x : x # v => (x \in D <=> x \in E)
  PROVE  MirrorsBut(t, ds, v, N, E)
<1>1. \A x \in DOMAIN t.node \ {v} : (x \in D) = (x \in E)
  OBVIOUS
<1> QED  BY <1>1 DEF MirrorsBut

\* A view nothing reads yet closes no cycle.
LEMMA NewViewIsAcyclic ==
  ASSUME Inv, compiled, NEW v, v \notin ToSet(relations), NEW deps,
         ToSet(deps) \subseteq ToSet(relations)
  PROVE  \A d \in ToSet(deps) : d # v /\ v \notin Below(defs, d)
<1>1. AllRead(defs) \subseteq ToSet(relations)
  BY DEF Inv, TreeInv, AllRead, ReadBy
<1> QED  BY <1>1, BelowHasReads

LEMMA CompiledOrder ==
  ASSUME Inv, CompileAst
  PROVE  /\ Mirrors(depTree', defs, Name, EventTable)
         /\ relations' \in Seq(Name) /\ ArrangedIs(depTree', relations, relations')
<1>1. ~compiled /\ depTree' = AddDepTree /\ relations' = ArrangeInTopologicalOrder(depTree', relations)
  BY DEF CompileAst
<1>2. Mirrors(depTree', defs, Name, EventTable)
  BY <1>1, AddDepTreeMirrors DEF Inv, TreeInv
<1>3. NoCycle(defs) /\ EventTable \cap DOMAIN defs = {}
  BY NamesAre DEF Inv, TypeInv, TreeInv
<1>4. IsBelow(depTree', Depth(depTree', defs))
  BY <1>2, <1>3, MirrorIsBelow
<1>5. IsTree(depTree', Name) /\ Whole(depTree')
  BY <1>2 DEF Mirrors
<1>6. relations \in Seq(Name) /\ Distinct(relations)
  BY DEF Inv, TypeInv
<1>7. LET a == ArrangeInTopologicalOrder(depTree', relations)
      IN  a \in Seq(Name) /\ ArrangedIs(depTree', relations, a)
  BY <1>4, <1>5, <1>6, ArrangeIs
<1> QED  BY <1>1, <1>2, <1>7

LEMMA InvNext == Inv /\ [Next]_vars => Inv'
<1> SUFFICES ASSUME Inv, [Next]_vars PROVE Inv'
  OBVIOUS
<1> USE DEF Inv
<1>0. /\ relations \in Seq(Name) /\ Distinct(relations) /\ running \in Nat
      /\ \A r : Contains(relations, r) <=> r \in ToSet(relations)
  BY ContainsIs DEF TypeInv
<1>1. ASSUME NEW r \in Table, ParseTable(r) \/ AddOriginalTableByAst(r) PROVE Inv'
  <2>1. /\ r \in Name /\ r \notin View /\ r \notin ToSet(relations)
        /\ relations' = Append(relations, r) /\ defs' = defs /\ depTree' = depTree
        /\ eventViews' = eventViews
        /\ compiled' = compiled /\ running' \in Nat
    BY <1>0, <1>1, NamesAre DEF ParseTable, AddOriginalTableByAst
  <2>2. /\ relations' \in Seq(Name) /\ Distinct(relations')
        /\ ToSet(relations') = ToSet(relations) \cup {r}
    BY <1>0, <2>1, AppendDistinct
  <2>3. TypeInv'
    BY <2>1, <2>2 DEF TypeInv
  <2>4. TreeInv'
    BY <2>1, <2>2 DEF TreeInv, Dynamic
  <2> QED  BY <2>3, <2>4
<1>2. ASSUME NEW v \in View, NEW deps \in Reads, ParseView(v, deps) PROVE Inv'
  <2>1. /\ v \in Name /\ v \notin ToSet(relations) /\ deps \in Seq(Name) /\ ~compiled
        /\ \A d \in ToSet(deps) : d # v /\ v \notin Below(defs, d)
        /\ relations' = Append(relations, v) /\ defs' = Define(v, deps) /\ depTree' = depTree
        /\ compiled' = compiled /\ running' \in Nat /\ eventViews' = eventViews
    BY <1>0, <1>2, NamesAre DEF ParseView, Acyclic
  <2>2. /\ relations' \in Seq(Name) /\ Distinct(relations')
        /\ ToSet(relations') = ToSet(relations) \cup {v}
    BY <1>0, <2>1, AppendDistinct
  <2>3. /\ defs' = Defined(defs, v, deps) /\ DOMAIN defs' = DOMAIN defs \cup {v}
        /\ defs' \in [DOMAIN defs' -> Seq(Name)]
    BY <2>1, DefineKeepsType
  <2>4. TypeInv'
    BY <2>1, <2>2, <2>3 DEF TypeInv
  <2>5. NoCycle(defs')
    BY <2>1, <2>3, DefinedHasNoCycle DEF TreeInv
  <2>6. TreeInv'
    BY <2>1, <2>5 DEF TreeInv
  <2> QED  BY <2>4, <2>6
<1>3. ASSUME NEW v \in View, NEW deps \in Reads, NEW event \in BOOLEAN,
             AddViewByAst(v, deps, event) \/ ReplaceView(v, deps, event)
      PROVE  Inv'
  <2>1. /\ v \in Name /\ deps \in Seq(Name) /\ compiled /\ ToSet(deps) \subseteq ToSet(relations)
        /\ defs' = Define(v, deps) /\ compiled' = compiled /\ running' \in Nat
        /\ eventViews' = EventViewsWith(v, event)
    BY <1>0, <1>3, NamesAre DEF AddViewByAst, ReplaceView, MayChange, Known
  <2> DEFINE F == EventViewsWith(v, event)
             E == EventTable \cup F
  <2>0. /\ E = EventTable \cup F /\ E = Dynamic' /\ F \subseteq View
        /\ \A x : x # v => (x \in Dynamic <=> x \in E)
    BY <2>1 DEF EventViewsWith, Dynamic, TypeInv
  <2> HIDE DEF E, F
  <2>2. /\ defs' = Defined(defs, v, deps) /\ DOMAIN defs' = DOMAIN defs \cup {v}
        /\ defs' \in [DOMAIN defs' -> Seq(Name)]
        /\ defs'[v] = deps /\ \A w \in DOMAIN defs : w # v => defs'[w] = defs[w]
    BY <2>1, DefineKeepsType
  <2>3. Mirrors(depTree, defs, Name, Dynamic)
    BY <2>1 DEF TreeInv
  <2>4. /\ relations' \in Seq(Name) /\ Distinct(relations')
        /\ ToSet(relations') = ToSet(relations) \cup {v}
        /\ Mirrors(depTree', defs', Name, E)
        /\ \A d \in ToSet(deps) : d # v /\ v \notin Below(defs, d)
    <3>1. CASE AddViewByAst(v, deps, event)
      <4>1. /\ v \notin ToSet(relations) /\ relations' = Append(relations, v)
            /\ depTree' = AddTwice(depTree, v, deps, F)
        BY <1>0, <2>1, <3>1 DEF AddViewByAst, F
      <4>2. /\ relations' \in Seq(Name) /\ Distinct(relations')
            /\ ToSet(relations') = ToSet(relations) \cup {v}
        BY <1>0, <2>1, <4>1, AppendDistinct
      <4>3. MirrorsBut(depTree, defs, v, Name, E)
        BY <2>0, <2>3, MirrorsAllBut, MarksOfOthers
      <4>4. Mirrors(AddTwice(depTree, v, deps, F), Defined(defs, v, deps), Name, E)
        BY <2>0, <2>1, <4>3, AddTwiceMirrors
      <4>5. \A d \in ToSet(deps) : d # v /\ v \notin Below(defs, d)
        BY <2>1, <4>1, NewViewIsAcyclic
      <4> QED  BY <2>2, <4>1, <4>2, <4>4, <4>5
    <3>2. CASE ReplaceView(v, deps, event)
      <4> DEFINE q == RemoveFirst(relations, v)
                 t == DeleteNode(depTree, v)
      <4>1. /\ v \in ToSet(relations) /\ relations' = Append(q, v)
            /\ depTree' = AddTwice(t, v, deps, F)
            /\ \A d \in ToSet(deps) : d # v /\ v \notin Below(defs, d)
        BY <1>0, <2>1, <3>2 DEF ReplaceView, Acyclic, F
      <4>2. q \in Seq(Name) /\ Distinct(q) /\ ToSet(q) = ToSet(relations) \ {v}
        BY <1>0, RemoveFirstIs
      <4>3. MirrorsBut(t, defs, v, Name, E)
        BY <2>0, <2>3, MirrorsAfterDelete, MarksOfOthers
      <4> HIDE DEF q, t
      <4>4. /\ relations' \in Seq(Name) /\ Distinct(relations')
            /\ ToSet(relations') = ToSet(q) \cup {v}
        BY <2>1, <4>1, <4>2, AppendDistinct
      <4>5. Mirrors(AddTwice(t, v, deps, F), Defined(defs, v, deps), Name, E)
        BY <2>0, <2>1, <4>3, AddTwiceMirrors
      <4> QED  BY <2>2, <4>1, <4>2, <4>4, <4>5
    <3> QED  BY <1>3, <3>1, <3>2
  <2>5. NoCycle(defs')
    BY <2>2, <2>4, DefinedHasNoCycle DEF TreeInv
  <2>6. TypeInv'
    BY <2>0, <2>1, <2>2, <2>4 DEF TypeInv, F
  <2>7. \A w \in DOMAIN defs' : ToSet(defs'[w]) \subseteq ToSet(relations')
    BY <2>1, <2>2, <2>4 DEF TreeInv
  <2>8. TreeInv'
    BY <2>0, <2>1, <2>4, <2>5, <2>7 DEF TreeInv
  <2> QED  BY <2>6, <2>8
<1>4. CASE CompileAst
  <2>1. /\ Mirrors(depTree', defs, Name, EventTable)
        /\ relations' \in Seq(Name) /\ ArrangedIs(depTree', relations, relations')
    BY <1>4, CompiledOrder
  <2>2. /\ compiled' = TRUE /\ defs' = defs /\ running' = running
        /\ \A v \in DOMAIN defs : ToSet(defs[v]) \subseteq ToSet(relations)
        /\ eventViews' = eventViews /\ eventViews = {}
    BY <1>4 DEF CompileAst, TreeInv
  <2>3. Distinct(relations') /\ ToSet(relations') = ToSet(relations)
    BY <2>1 DEF ArrangedIs
  <2>4. TypeInv'
    BY <2>1, <2>2, <2>3 DEF TypeInv
  <2>5. TreeInv'
    BY <2>1, <2>2, <2>3 DEF TreeInv, Dynamic
  <2> QED  BY <2>4, <2>5
<1>5. CASE UNCHANGED vars
  BY <1>5 DEF vars, TypeInv, TreeInv, Dynamic
<1> QED  BY <1>1, <1>2, <1>3, <1>4, <1>5 DEF Next

(***************************************************************************)
(* The invariant holds: the tree mirrors the definitions of the program, of*)
(* whatever was added and of what replaced what, and no view reads itself. *)
(***************************************************************************)
THEOREM TreeMirrorsDefinitions == Spec => []Inv
<1>1. Init => Inv
  BY InvInit
<1>2. Inv /\ [Next]_vars => Inv'
  BY InvNext
<1> QED  BY <1>1, <1>2, PTL DEF Spec

-----------------------------------------------------------------------------
(***************************************************************************)
(* DeriveDependentRelations finds exactly the views that read a relation   *)
(* through any chain of views: none is left out of an event, none is       *)
(* rendered or shipped without cause.                                      *)
(***************************************************************************)
THEOREM DependentsAreExact == Spec => []DependentsExact
<1>1. ASSUME Inv, compiled
      PROVE  UNION {DeriveDependentRelations(depTree, r) \X {r} : r \in Name} =
             UNION {{v} \X Below(defs, v) : v \in DOMAIN defs}
  <2>1. \A r : DeriveDependentRelations(depTree, r) = {v \in DOMAIN defs : r \in Below(defs, v)}
    BY <1>1, DependentsOfMirror DEF Inv, TreeInv
  <2>2. AllRead(defs) \subseteq Name
    BY <1>1 DEF Inv, TypeInv, TreeInv, AllRead, ReadBy, ToSet
  <2>3. \A v : Below(defs, v) \subseteq Name
    BY <2>2, BelowHasReads
  <2>4. UNION {{v \in DOMAIN defs : r \in Below(defs, v)} \X {r} : r \in Name} =
        UNION {{v} \X Below(defs, v) : v \in DOMAIN defs}
    BY <2>3
  <2> QED  BY <2>1, <2>4
<1>2. Inv => DependentsExact
  BY <1>1 DEF DependentsExact
<1> QED  BY <1>2, TreeMirrorsDefinitions, PTL

(***************************************************************************)
(* DeriveOriginalRelationsAViewDependsOn finds dynamic relations behind the*)
(* view only, and all of them where nothing is read along two paths.  They *)
(* are the event tables and the event views that came while the program    *)
(* ran; what an event view reads is not looked at.                         *)
(***************************************************************************)
THEOREM OriginalsAreExactInTrees == Spec => []OriginalsOfTrees
<1>1. ASSUME Inv, compiled, NEW v \in DOMAIN defs
      PROVE  LET found == DeriveOriginalRelationsAViewDependsOn(depTree, v)
             IN  found \subseteq Originals(v) /\ (TreeShaped(UpToDynamic(v), v) => found = Originals(v))
  <2>1. Mirrors(depTree, defs, Name, Dynamic) /\ NoCycle(defs)
    BY <1>1 DEF Inv, TreeInv
  <2>2. v \in DOMAIN depTree.node
    BY <2>1 DEF Mirrors
  <2>3. UpToDynamic(v) = UpTo(defs, Dynamic, v)
    BY DEF UpToDynamic, UpTo
  <2> QED  BY <2>1, <2>2, <2>3, OriginalsUpToDynamic DEF Originals
<1>2. Inv => OriginalsOfTrees
  BY <1>1 DEF OriginalsOfTrees
<1> QED  BY <1>2, TreeMirrorsDefinitions, PTL

(***************************************************************************)
(* CompileAst keeps every relation and puts it after all it reads.         *)
(***************************************************************************)
LEMMA OrderedByCompileAst ==
  ASSUME Inv, CompileAst, Distinct(relations')
  PROVE  ReadAfterDefined'
<1>1. /\ Mirrors(depTree', defs, Name, EventTable)
      /\ relations' \in Seq(Name) /\ ArrangedIs(depTree', relations, relations')
  BY CompiledOrder
<1>2. defs' = defs /\ \A v \in DOMAIN defs : ToSet(defs[v]) \subseteq ToSet(relations)
  BY DEF CompileAst
<1>3. ToSet(relations') = ToSet(relations) /\ DOMAIN defs = View \cap ToSet(relations)
  BY <1>1 DEF ArrangedIs, Inv, TypeInv
<1>4. ASSUME NEW x, NEW i \in DOMAIN relations', relations'[i] = x PROVE Position(x)' = i
  BY <1>4 DEF Position, Distinct
<1>5. ASSUME NEW v \in DOMAIN defs, NEW r \in ToSet(defs[v])
      PROVE  Contains(relations', r) /\ Position(r)' < Position(v)'
  <2>1. r \in ToSet(relations) /\ v \in ToSet(relations) /\ v \in DOMAIN depTree'.node
    BY <1>1, <1>2, <1>3 DEF Mirrors
  <2>2. r \in ReadIn(depTree', v)
    BY <2>1, <1>1, MirrorsReads DEF ReadBy
  <2>3. PICK i \in DOMAIN relations', j \in DOMAIN relations' :
          i < j /\ relations'[i] = r /\ relations'[j] = v
    BY <2>1, <2>2, <1>1 DEF ArrangedIs
  <2>4. Contains(relations', r)
    BY <2>1, <1>1, <1>3, ContainsIs
  <2> QED  BY <2>3, <2>4, <1>4
<1> QED  BY <1>2, <1>3, <1>5 DEF ReadAfterDefined

(***************************************************************************)
(* Until the running program changes, its relations are in an order that   *)
(* the later passes can follow: all of them, each after those it reads.    *)
(***************************************************************************)
THEOREM RelationsAreInOrder == Spec => []ReadAfterDefined
<1>1. Init => ReadAfterDefined
  BY DEF Init, ReadAfterDefined
<1>2. ASSUME Inv, Inv', ReadAfterDefined, [Next]_vars PROVE ReadAfterDefined'
  <2>1. CASE CompileAst
    BY <1>2, <2>1, OrderedByCompileAst DEF Inv, TypeInv
  <2>2. CASE ~compiled /\ compiled' = compiled
    BY <2>2 DEF ReadAfterDefined
  <2>3. CASE running' = running + 1
    <3>1. running' # 0
      BY <1>2, <2>3 DEF Inv, TypeInv
    <3> QED  BY <3>1 DEF ReadAfterDefined
  <2>4. CASE UNCHANGED vars
    BY <1>2, <2>4 DEF vars, ReadAfterDefined, Position
  <2> QED
    BY <1>2, <2>1, <2>2, <2>3, <2>4
    DEF Next, ParseTable, AddOriginalTableByAst, ParseView, AddViewByAst, ReplaceView
<1> QED  BY <1>1, <1>2, TreeMirrorsDefinitions, PTL DEF Spec
=============================================================================
