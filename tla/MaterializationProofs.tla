------------------------- MODULE MaterializationProofs -------------------------
(***************************************************************************)
(* Theorems about Materialization, for every program over any tables: what *)
(* the triggers keep in the materialized tables is what the views would    *)
(* have, as far as the event tables behind them were found, and so it is   *)
(* wherever no relation is read along two paths.                           *)
(***************************************************************************)
EXTENDS Materialization, DependencyTreeProofs

-----------------------------------------------------------------------------
(***************************************************************************)
(* The programs: a view reads base tables and views that come before it.   *)
(***************************************************************************)
LEMMA NamesAre ==
  /\ Name = Base \cup View /\ EventTable \subseteq Base /\ View \cap Base = {}
  /\ ViewOrder \in Seq(View) /\ ViewOrder \in Seq(Name) /\ View = ToSet(ViewOrder)
BY ProgramAssumption DEF Name, Base, View

\* Where a view comes first in the order; base tables are before all views.
Place ==
  [r \in Name |-> IF r \in Base THEN 0
                  ELSE CHOOSE i \in DOMAIN ViewOrder :
                         ViewOrder[i] = r /\ \A j \in DOMAIN ViewOrder : ViewOrder[j] = r => i <= j]

LEMMA PlaceIs ==
  /\ Len(ViewOrder) \in Nat /\ Place \in [Name -> 0..Len(ViewOrder)]
  /\ \A b \in Base : Place[b] = 0
  /\ \A v \in View : /\ Place[v] \in DOMAIN ViewOrder /\ ViewOrder[Place[v]] = v
                     /\ \A j \in DOMAIN ViewOrder : ViewOrder[j] = v => Place[v] <= j
<1>1. Len(ViewOrder) \in Nat /\ DOMAIN ViewOrder = 1..Len(ViewOrder)
  BY NamesAre
<1>2. ASSUME NEW v \in View
      PROVE  \E i \in DOMAIN ViewOrder :
               ViewOrder[i] = v /\ \A j \in DOMAIN ViewOrder : ViewOrder[j] = v => i <= j
  <2> DEFINE T == {i \in DOMAIN ViewOrder : ViewOrder[i] = v}
  <2>1. T \subseteq Nat /\ T # {}
    BY <1>1, NamesAre DEF ToSet
  <2>2. \E x \in T : \A y \in T : x <= y
    BY <2>1, LeastNumber
  <2> QED  BY <2>2
<1>3. ASSUME NEW v \in View
      PROVE  /\ Place[v] \in DOMAIN ViewOrder /\ ViewOrder[Place[v]] = v
             /\ \A j \in DOMAIN ViewOrder : ViewOrder[j] = v => Place[v] <= j
  <2>1. v \in Name /\ v \notin Base
    BY NamesAre
  <2>2. Place[v] = CHOOSE i \in DOMAIN ViewOrder :
                     ViewOrder[i] = v /\ \A j \in DOMAIN ViewOrder : ViewOrder[j] = v => i <= j
    BY <2>1 DEF Place
  <2> QED  BY <1>2, <2>2
<1>4. \A b \in Base : Place[b] = 0
  BY NamesAre DEF Place
<1>5. Place = [r \in Name |-> Place[r]] /\ \A r \in Name : Place[r] \in 0..Len(ViewOrder)
  <2>1. Place = [r \in Name |-> Place[r]]
    BY DEF Place
  <2> QED  BY <2>1, <1>1, <1>3, <1>4, NamesAre
<1> QED  BY <1>1, <1>3, <1>4, <1>5

LEMMA ReadsEarlier ==
  ASSUME NEW p \in Programs
  PROVE  /\ p \in [View -> Seq(Name)] /\ DOMAIN p = View
         /\ \A r : ReadBy(p, r) \subseteq Name
         /\ \A v \in View : /\ ReadBy(p, v) = ToSet(p[v])
                            /\ \A s \in ToSet(p[v]) : s \in Name /\ Place[s] < Place[v]
<1>1. p \in [View -> Seq(Name)]
  BY ProgramAssumption
<1>2. ASSUME NEW v \in View, NEW s \in ToSet(p[v]) PROVE s \in Name /\ Place[s] < Place[v]
  <2> DEFINE i == Place[v]
             before == {ViewOrder[j] : j \in 1..(i - 1)}
             q == p[v]
  <2>1. i \in DOMAIN ViewOrder /\ ViewOrder[i] = v /\ i \in 1..Len(ViewOrder)
    BY PlaceIs, NamesAre
  <2>2. q \in Seq(Base \cup before)
    BY <2>1, ProgramAssumption
  <2> HIDE DEF q
  <2>3. s \in Base \cup before
    BY <2>2 DEF ToSet, q
  <2>4. CASE s \in Base
    BY <2>1, <2>4, PlaceIs, NamesAre
  <2>5. CASE s \in before
    <3>1. PICK j \in 1..(i - 1) : ViewOrder[j] = s
      BY <2>5
    <3>2. j \in DOMAIN ViewOrder /\ j < i
      BY <2>1, PlaceIs, NamesAre
    <3>3. s \in View
      BY <3>1, <3>2, NamesAre DEF ToSet
    <3>4. Place[s] <= j /\ Place[s] \in Nat
      BY <3>1, <3>2, <3>3, PlaceIs, NamesAre
    <3> QED  BY <2>1, <3>2, <3>3, <3>4, NamesAre
  <2> QED  BY <2>3, <2>4, <2>5
<1>3. \A r : ReadBy(p, r) \subseteq Name
  BY <1>1, <1>2 DEF ReadBy
<1> QED  BY <1>1, <1>2, <1>3 DEF ReadBy

LEMMA BelowIsEarlier ==
  ASSUME NEW p \in Programs, NEW v \in View
  PROVE  \A x \in Below(p, v) : x \in Name /\ Place[x] < Place[v]
<1> DEFINE S == {x \in Name : Place[x] < Place[v]}
<1>1. ReadBy(p, v) \subseteq S
  BY ReadsEarlier
<1>2. ASSUME NEW x \in S PROVE ReadBy(p, x) \subseteq S
  <2>1. CASE x \in View
    <3>1. \A s \in ReadBy(p, x) : s \in Name /\ Place[s] < Place[x]
      BY <2>1, ReadsEarlier
    <3>2. \A s \in Name : Place[s] \in Int
      BY PlaceIs
    <3>3. v \in Name
      BY NamesAre
    <3> QED  BY <3>1, <3>2, <3>3
  <2>2. CASE x \notin View
    <3>1. ReadBy(p, x) = {}
      BY <2>2, ReadsEarlier DEF ReadBy
    <3> QED  BY <3>1
  <2> QED  BY <2>1, <2>2
<1> HIDE DEF S
<1>3. Below(p, v) \subseteq S
  BY <1>1, <1>2, BelowIsLeast
<1> QED  BY <1>3 DEF S

LEMMA ProgramHasNoCycle == \A p \in Programs : NoCycle(p)
<1> SUFFICES ASSUME NEW p \in Programs, NEW v \in View, v \in Below(p, v) PROVE FALSE
  BY ReadsEarlier DEF NoCycle
<1>1. v \in Name /\ Place[v] < Place[v]
  BY BelowIsEarlier
<1> QED  BY <1>1, PlaceIs

-----------------------------------------------------------------------------
(***************************************************************************)
(* The rows of the relations.                                              *)
(***************************************************************************)
Content == SUBSET (Base \X Nat)

LEMMA RowsAre ==
  ASSUME defs \in Programs, NEW st \in [View -> Content], NEW vs \in [Base -> Nat]
  PROVE  LET R == Rows(st, vs)
         IN  /\ R \in [Name -> Content]
             /\ \A r \in Name :
                  R[r] = IF r \in Base THEN BaseRows(vs, r)
                         ELSE IF kind[r] = "View" THEN UNION {R[s] : s \in ToSet(defs[r])}
                         ELSE st[r]
<1>1. \A r \in Name : r \in Base \/ (r \in View /\ r \notin Base)
  BY NamesAre
<1> DEFINE G == [Name -> Content]
           one(f, r) == IF r \in Base THEN BaseRows(vs, r)
                        ELSE IF kind[r] = "View" THEN UNION {f[s] : s \in ToSet(defs[r])}
                        ELSE st[r]
           step == [r \in Name |-> [f \in G |-> one(f, r)]]
           n == Len(ViewOrder)
           F == CHOOSE f : f = [r \in Name |->
                  IF r \in Base THEN BaseRows(vs, r)
                  ELSE IF kind[r] = "View" THEN UNION {f[s] : s \in ToSet(defs[r])}
                  ELSE st[r]]
<1>2. /\ n \in Nat /\ Place \in [Name -> 0..n]
      /\ \A v \in View : \A s \in ToSet(defs[v]) : s \in Name /\ Place[s] < Place[v]
  BY PlaceIs, ReadsEarlier
<1>3. ASSUME NEW f \in G, NEW r \in Name PROVE one(f, r) \in Content
  <2>1. CASE r \in Base
    BY <2>1 DEF BaseRows, Content
  <2>2. CASE r \in View /\ r \notin Base /\ kind[r] = "View"
    <3>1. \A s \in ToSet(defs[r]) : f[s] \in Content
      BY <2>2, <1>2
    <3> QED  BY <3>1, <2>2 DEF Content
  <2>3. CASE r \in View /\ r \notin Base /\ kind[r] # "View"
    BY <2>3
  <2> QED  BY <2>1, <2>2, <2>3, <1>1
<1>4. step \in [Name -> [G -> Content]] /\ \A r \in Name : \A f \in G : step[r][f] = one(f, r)
  <2> HIDE DEF one, G
  <2> QED  BY <1>3
<1>5. OnLower(Name, Content, Place, step)
  <2> SUFFICES ASSUME NEW r \in Name, NEW f \in G, NEW g \in G,
                      \A x \in Name : Place[x] < Place[r] => f[x] = g[x]
               PROVE  step[r][f] = step[r][g]
    BY DEF OnLower
  <2>1. CASE r \in View /\ r \notin Base /\ kind[r] = "View"
    <3>1. \A s \in ToSet(defs[r]) : f[s] = g[s]
      BY <2>1, <1>2
    <3>2. one(f, r) = one(g, r)
      BY <2>1, <3>1
    <3> HIDE DEF one, G, step
    <3> QED  BY <3>2, <1>4
  <2>2. CASE r \in Base \/ kind[r] # "View"
    <3>2. one(f, r) = one(g, r)
      BY <2>2
    <3> HIDE DEF one, G, step
    <3> QED  BY <3>2, <1>4
  <2> QED  BY <2>1, <2>2, <1>1
<1>6. {} \in Content
  BY DEF Content
<1>7. PICK f \in G : \A r \in Name : f[r] = step[r][f]
  <2>1. n \in Nat /\ Ranked(n, Name, Content, Place, step)
    <3> HIDE DEF n, step, F, one
    <3> QED  BY <1>2, <1>4, <1>5 DEF Ranked
  <2> DEFINE none == {}
  <2>2. none \in Content
    BY <1>6
  <2>3. \E f : Fixed(f, Name, Content, step)
    <3> HIDE DEF none, n, step, F, one, G
    <3> QED  BY <2>1, <2>2, RecursionByRank
  <2> HIDE DEF n, step, F, one, none
  <2> QED  BY <2>3 DEF Fixed
<1>8. f = [r \in Name |->
             IF r \in Base THEN BaseRows(vs, r)
             ELSE IF kind[r] = "View" THEN UNION {f[s] : s \in ToSet(defs[r])}
             ELSE st[r]]
  <2>1. f = [r \in Name |-> f[r]]
    BY <1>7
  <2>2. \A r \in Name : f[r] = one(f, r)
    <3> HIDE DEF one, step, G
    <3> QED  BY <1>4, <1>7
  <2>3. f = [r \in Name |-> one(f, r)]
    <3> HIDE DEF one, step, G
    <3> QED  BY <2>1, <2>2
  <2> QED  BY <2>3
<1>9. F = [r \in Name |->
             IF r \in Base THEN BaseRows(vs, r)
             ELSE IF kind[r] = "View" THEN UNION {F[s] : s \in ToSet(defs[r])}
             ELSE st[r]]
  BY <1>8
<1>10. Rows(st, vs) = F
  BY DEF Rows
<1> HIDE DEF F
<1>11. \A r \in Name : F[r] = one(F, r)
  <2>1. F = [r \in Name |-> one(F, r)]
    BY <1>9
  <2> HIDE DEF one
  <2> QED  BY <2>1
<1>12. F \in G
  <2> DEFINE P == {i \in 0..n : \A r \in Name : Place[r] <= i => F[r] \in Content}
  <2>1. \A r \in Name : r \in Base \/ kind[r] # "View" => F[r] \in Content
    <3>1. \A b \in Base : BaseRows(vs, b) \in Content
      BY DEF BaseRows, Content
    <3> QED  BY <3>1, <1>1, <1>11
  <2>2. ASSUME NEW r \in View, \A s \in ToSet(defs[r]) : F[s] \in Content PROVE F[r] \in Content
    <3>1. CASE kind[r] = "View"
      <4>1. F[r] = UNION {F[s] : s \in ToSet(defs[r])}
        BY <3>1, <1>11, NamesAre
      <4> QED  BY <4>1, <2>2 DEF Content
    <3>2. CASE kind[r] # "View"
      BY <3>2, <2>1, NamesAre
    <3> QED  BY <3>1, <3>2
  <2>3. 0 \in P
    <3>1. ASSUME NEW r \in Name, Place[r] <= 0 PROVE r \in Base
      BY <3>1, PlaceIs, NamesAre
    <3> QED  BY <3>1, <2>1, <1>2
  <2>4. ASSUME NEW i \in 1..n, i - 1 \in P PROVE i \in P
    <3>1. ASSUME NEW r \in View, Place[r] <= i PROVE F[r] \in Content
      <4>1. ASSUME NEW s \in ToSet(defs[r]) PROVE F[s] \in Content
        <5>1. s \in Name /\ Place[s] < Place[r] /\ r \in Name
          BY <1>2, NamesAre
        <5>2. Place[s] <= i - 1
          BY <5>1, <3>1, <1>2
        <5> QED  BY <5>1, <5>2, <2>4
      <4> QED  BY <4>1, <2>2
    <3>2. \A r \in Name : Place[r] <= i => F[r] \in Content
      BY <3>1, <2>1, <1>1
    <3> HIDE DEF n
    <3> QED  BY <3>2
  <2>5. P = 0..n
    <3> HIDE DEF P
    <3>1. P \subseteq 0..n
      BY DEF P
    <3> QED  BY <3>1, <1>2, <2>3, <2>4, NatInd
  <2>6. n \in P
    <3> HIDE DEF P, n
    <3>1. n \in Nat
      BY <1>2
    <3> QED  BY <3>1, <2>5
  <2>7. \A r \in Name : F[r] \in Content
    BY <2>6, <1>2
  <2>8. F = [r \in Name |-> F[r]]
    BY <1>9
  <2> QED  BY <2>7, <2>8
<1> QED  BY <1>10, <1>11, <1>12

-----------------------------------------------------------------------------
(***************************************************************************)
(* The reference: what a view would have if all views were views.          *)
(***************************************************************************)
LEMMA UnmaterializedBySteps ==
  ASSUME defs \in Programs, NEW vs
  PROVE  /\ \A b \in Base : Unmaterialized(vs, b) = BaseRows(vs, b)
         /\ \A v \in View :
              Unmaterialized(vs, v) = UNION {Unmaterialized(vs, s) : s \in ToSet(defs[v])}
<1>1. ASSUME NEW b \in Base PROVE Unmaterialized(vs, b) = BaseRows(vs, b)
  <2>1. b \notin DOMAIN defs
    BY NamesAre, ReadsEarlier
  <2>2. ({b} \cup Below(defs, b)) \cap Base = {b}
    BY <2>1, BelowOfUndefined
  <2> QED  BY <2>2 DEF Unmaterialized
<1>2. ASSUME NEW v \in View
      PROVE  Unmaterialized(vs, v) = UNION {Unmaterialized(vs, s) : s \in ToSet(defs[v])}
  <2>1. Below(defs, v) = UNION {Below(defs, s) \cup {s} : s \in ToSet(defs[v])}
    BY BelowBySteps, ReadsEarlier
  <2>2. ({v} \cup Below(defs, v)) \cap Base
          = UNION {({s} \cup Below(defs, s)) \cap Base : s \in ToSet(defs[v])}
    BY <2>1, NamesAre
  <2> DEFINE B(s) == ({s} \cup Below(defs, s)) \cap Base
  <2>3. UNION {BaseRows(vs, b) : b \in UNION {B(s) : s \in ToSet(defs[v])}}
          = UNION {UNION {BaseRows(vs, b) : b \in B(s)} : s \in ToSet(defs[v])}
    <3> HIDE DEF B
    <3> QED  OBVIOUS
  <2> QED  BY <2>2, <2>3 DEF Unmaterialized
<1> QED  BY <1>1, <1>2

LEMMA UnmaterializedOfSame ==
  ASSUME defs \in Programs, NEW us, NEW vs, NEW v \in View,
         \A b \in Below(defs, v) \cap Base : us[b] = vs[b]
  PROVE  Unmaterialized(us, v) = Unmaterialized(vs, v)
<1> DEFINE B == ({v} \cup Below(defs, v)) \cap Base
<1>1. \A b \in B : BaseRows(us, b) = BaseRows(vs, b)
  <2>1. B = Below(defs, v) \cap Base
    BY NamesAre
  <2> HIDE DEF B
  <2>2. \A b \in B : us[b] = vs[b]
    BY <2>1
  <2> QED  BY <2>2 DEF BaseRows
<1> HIDE DEF B
<1>2. {BaseRows(us, b) : b \in B} = {BaseRows(vs, b) : b \in B}
  BY <1>1
<1> QED  BY <1>2 DEF Unmaterialized, B

\* The tables that relation r is computed from, r itself among them, are up to date.
Current(st, vs, r) ==
  \A u \in View \cap (Below(defs, r) \cup {r}) : kind[u] # "View" => st[u] = Unmaterialized(vs, u)

LEMMA RowsAreUnmaterialized ==
  ASSUME defs \in Programs, NEW st \in [View -> Content], NEW vs \in [Base -> Nat],
         NEW r \in Name, Current(st, vs, r)
  PROVE  Rows(st, vs)[r] = Unmaterialized(vs, r)
<1> DEFINE R == Rows(st, vs)
           U(x) == Unmaterialized(vs, x)
           n == Len(ViewOrder)
           P == {i \in 0..n : \A x \in Name : Place[x] <= i /\ Current(st, vs, x) => R[x] = U(x)}
<1>1. \A x \in Name :
        R[x] = IF x \in Base THEN BaseRows(vs, x)
               ELSE IF kind[x] = "View" THEN UNION {R[s] : s \in ToSet(defs[x])}
               ELSE st[x]
  BY RowsAre
<1> HIDE DEF R
<1>2. /\ n \in Nat /\ Place \in [Name -> 0..n] /\ \A v \in View : Place[v] \in 1..n
      /\ \A x \in Name : Place[x] \in 0..n
  BY PlaceIs, NamesAre
<1>3. \A b \in Base : R[b] = U(b)
  BY <1>1, UnmaterializedBySteps, NamesAre
<1>4. 0 \in P
  <2>1. ASSUME NEW x \in Name, Place[x] <= 0 PROVE x \in Base
    BY <2>1, <1>2, NamesAre
  <2> HIDE DEF U
  <2> QED  BY <2>1, <1>2, <1>3
<1>5. ASSUME NEW i \in 1..n, i - 1 \in P PROVE i \in P
  <2> SUFFICES ASSUME NEW x \in View, Place[x] <= i, Current(st, vs, x) PROVE R[x] = U(x)
    <3> HIDE DEF U, n
    <3> QED  BY <1>2, <1>3, NamesAre
  <2>0. x \in Name /\ x \notin Base
    BY NamesAre
  <2>1. CASE kind[x] # "View"
    <3>1. R[x] = st[x]
      BY <2>0, <2>1, <1>1
    <3> QED  BY <3>1, <2>1 DEF Current
  <2>2. CASE kind[x] = "View"
    <3>1. ASSUME NEW s \in ToSet(defs[x]) PROVE R[s] = U(s)
      <4>1. s \in Name /\ Place[s] < Place[x] /\ s \in ReadBy(defs, x)
        BY ReadsEarlier
      <4>2. Place[s] <= i - 1
        BY <4>1, <2>0, <1>2
      <4>3. Below(defs, s) \cup {s} \subseteq Below(defs, x)
        BY <4>1, BelowHasReads, BelowIsTransitive
      <4>4. Current(st, vs, s)
        BY <4>3 DEF Current
      <4> HIDE DEF U
      <4> QED  BY <4>1, <4>2, <4>4, <1>5
    <3>2. R[x] = UNION {R[s] : s \in ToSet(defs[x])}
      BY <2>0, <2>2, <1>1
    <3>3. U(x) = UNION {U(s) : s \in ToSet(defs[x])}
      BY UnmaterializedBySteps
    <3>4. {R[s] : s \in ToSet(defs[x])} = {U(s) : s \in ToSet(defs[x])}
      <4> HIDE DEF U
      <4> QED  BY <3>1
    <3> QED  BY <3>2, <3>3, <3>4
  <2> QED  BY <2>1, <2>2
<1>6. P = 0..n
  <2> HIDE DEF P
  <2>1. P \subseteq 0..n /\ n \in Nat
    BY <1>2 DEF P
  <2> QED  BY <2>1, <1>4, <1>5, NatInd
<1>7. n \in P
  <2> HIDE DEF P, n
  <2> QED  BY <1>2, <1>6
<1>8. Place[r] <= n
  BY <1>2
<1> QED  BY <1>7, <1>8 DEF R

-----------------------------------------------------------------------------
(***************************************************************************)
(* What the compiler plans.  In the order of the tree, everything a        *)
(* relation is computed from comes before it, not only what it reads.      *)
(***************************************************************************)
LEMMA TreeMirrors ==
  ASSUME defs \in Programs
  PROVE  /\ Mirrors(Tree, defs, Name, EventTable)
         /\ NoCycle(defs) /\ EventTable \cap DOMAIN defs = {}
         /\ View \subseteq DOMAIN Tree.node
         /\ defs = [w \in DOMAIN defs |-> defs[w]]
<1>1. /\ ViewOrder \in Seq(Name) /\ View = ToSet(ViewOrder) /\ EventTable \cap View = {}
      /\ defs \in [View -> Seq(Name)] /\ DOMAIN defs = View
  BY NamesAre, ReadsEarlier
<1>2. \A v \in ToSet(ViewOrder) : defs[v] \in Seq(Name)
  BY <1>1
<1>3. Mirrors(AddDependencies(EmptyTree, ViewOrder, defs, EventTable),
              [v \in ToSet(ViewOrder) |-> defs[v]], Name, EventTable)
  BY <1>1, <1>2, AddDependenciesMirror
<1>4. [v \in ToSet(ViewOrder) |-> defs[v]] = defs
  BY <1>1
<1>5. Mirrors(Tree, defs, Name, EventTable)
  BY <1>3, <1>4 DEF Tree
<1>6. DOMAIN defs \subseteq DOMAIN Tree.node
  BY <1>5 DEF Mirrors
<1>7. defs = [w \in DOMAIN defs |-> defs[w]]
  BY <1>1
<1> QED  BY <1>1, <1>5, <1>6, <1>7, ProgramHasNoCycle

LEMMA OrderIsTransitive ==
  ASSUME NEW t, NEW ds, NEW N, NEW dynamic, Mirrors(t, ds, N, dynamic),
         NEW q, OrderIs(t, q), NEW i \in DOMAIN q, NEW x \in Below(ds, q[i])
  PROVE  \E j \in DOMAIN q : j < i /\ q[j] = x
<1> DEFINE S == {q[j] : j \in {k \in DOMAIN q : k < i}}
<1>0. q \in Seq(DOMAIN t.node) /\ DOMAIN q \subseteq Nat
  BY DEF OrderIs
<1>1. \A k \in DOMAIN q : ReadIn(t, q[k]) = ReadBy(ds, q[k])
  BY <1>0, MirrorsReads
<1>2. \A k \in DOMAIN q : \A y \in ReadBy(ds, q[k]) : \E j \in DOMAIN q : j < k /\ q[j] = y
  BY <1>1 DEF OrderIs, ReadsBefore
<1>3. ReadBy(ds, q[i]) \subseteq S
  BY <1>2
<1>4. ASSUME NEW y \in S PROVE ReadBy(ds, y) \subseteq S
  <2>1. PICK k \in DOMAIN q : k < i /\ y = q[k]
    OBVIOUS
  <2>2. \A j \in DOMAIN q : j < k => j < i
    BY <2>1, <1>0
  <2> QED  BY <2>1, <2>2, <1>2
<1> HIDE DEF S
<1>5. Below(ds, q[i]) \subseteq S
  BY <1>3, <1>4, BelowIsLeast
<1> QED  BY <1>5 DEF S

\* The views of a trigger, in an order in which none is refreshed before what it is computed from.
InOrder(q) ==
  /\ Distinct(q)
  /\ \A i, j \in DOMAIN q : q[i] \in Below(defs, q[j]) => i < j

LEMMA RefreshesAre ==
  ASSUME defs \in Programs, NEW e \in EventTable
  PROVE  LET q == Refreshes(Tree, e)
         IN  q \in Seq(View) /\ ToSet(q) = MaterializedFor(Tree, e) /\ InOrder(q)
<1> DEFINE o == GetTopologicalOrder(Tree)
           M == MaterializedFor(Tree, e)
           q == Refreshes(Tree, e)
<1>1. /\ Mirrors(Tree, defs, Name, EventTable) /\ IsTree(Tree, Name) /\ Whole(Tree)
      /\ View \subseteq DOMAIN Tree.node
  BY TreeMirrors DEF Mirrors
<1>2. IsBelow(Tree, Depth(Tree, defs))
  BY TreeMirrors, MirrorIsBelow
<1>3. OrderIs(Tree, o)
  <2> DEFINE B == Depth(Tree, defs)
             t == Tree
  <2>1. IsTree(t, Name) /\ Whole(t) /\ IsBelow(t, B)
    BY <1>1, <1>2
  <2> HIDE DEF B, t
  <2>2. OrderIs(t, GetTopologicalOrder(t))
    BY <2>1, TopologicalOrderIs
  <2> QED  BY <2>2 DEF t
<1> HIDE DEF o
<1>4. o \in Seq(DOMAIN Tree.node) /\ Distinct(o) /\ DOMAIN Tree.node \subseteq ToSet(o)
  BY <1>3 DEF OrderIs, ReadsBefore, Distinct, ToSet
<1>5. M \subseteq View
  BY DEF MaterializedFor
<1>6. q = Keep(o, M)
  BY DEF Refreshes, o
<1> HIDE DEF M, q
<1>7. q \in Seq(DOMAIN Tree.node) /\ IsKept(o, M, q)
  BY <1>4, <1>6, KeepIs
<1>8. Distinct(q) /\ ToSet(q) = M
  BY <1>1, <1>4, <1>5, <1>7 DEF IsKept
<1>9. q \in Seq(View)
  <2>1. \A i \in DOMAIN q : q[i] \in View
    BY <1>5, <1>8 DEF ToSet
  <2> QED  BY <2>1, <1>7
<1>10. ASSUME NEW i \in DOMAIN q, NEW j \in DOMAIN q, q[i] \in Below(defs, q[j]) PROVE i < j
  <2>1. q[i] \in M /\ q[j] \in M /\ q[j] \in ToSet(o)
    BY <1>7, <1>8 DEF ToSet, IsKept
  <2>2. PICK b \in DOMAIN o : o[b] = q[j]
    BY <2>1 DEF ToSet
  <2>3. PICK a \in DOMAIN o : a < b /\ o[a] = q[i]
    BY <2>2, <1>1, <1>3, <1>10, OrderIsTransitive
  <2>4. PICK k \in DOMAIN q, l \in DOMAIN q : k < l /\ q[k] = o[a] /\ q[l] = o[b]
    BY <2>1, <2>2, <2>3, <1>7 DEF IsKept
  <2>5. k = i /\ l = j
    BY <2>2, <2>3, <2>4, <1>8 DEF Distinct
  <2> QED  BY <2>4, <2>5
<1> QED  BY <1>8, <1>9, <1>10 DEF InOrder, q, M

\* The plan: the tables, the triggers they are in, and where no event table was missed.
PlanInv ==
  /\ \A v \in View : kind[v] = "Materialized" => Behind(v) # {}
  /\ \A e \in EventTable :
       /\ InOrder(triggers[e])
       /\ \A v \in ToSet(triggers[e]) : kind[v] = "Materialized" /\ e \in Behind(v)
  /\ \A v \in View : kind[v] = "Materialized" /\ TreeShaped(defs, v) =>
       \A e \in Behind(v) : v \in ToSet(triggers[e])

LEMMA KindIs ==
  ASSUME defs \in Programs, NEW v \in View, Kind(Tree, v) = "Materialized"
  PROVE  LET found == {e \in EventTable : v \in MaterializedFor(Tree, e)}
         IN  found # {} /\ found \subseteq Behind(v) /\ (TreeShaped(defs, v) => found = Behind(v))
<1> DEFINE D == DeriveOriginalRelationsAViewDependsOn(Tree, v)
<1>1. D \subseteq Below(defs, v) \cap EventTable
      /\ (TreeShaped(defs, v) => D = Below(defs, v) \cap EventTable)
  <2> DEFINE t == Tree
  <2>1. /\ Mirrors(t, defs, Name, EventTable) /\ NoCycle(defs)
        /\ EventTable \cap DOMAIN defs = {} /\ v \in DOMAIN t.node
        /\ defs = [w \in DOMAIN defs |-> defs[w]]
    BY TreeMirrors
  <2> HIDE DEF t
  <2>2. LET found == DeriveOriginalRelationsAViewDependsOn(t, v)
            behind == Below(defs, v) \cap EventTable
        IN  found \subseteq behind /\ (TreeShaped(defs, v) => found = behind)
    BY <2>1, OriginalsOfMirror
  <2> QED  BY <2>2 DEF t
<1>2. D # {}
  BY DEF Kind
<1>3. \A e : v \in MaterializedFor(Tree, e) <=> e \in D
  BY DEF MaterializedFor
<1> HIDE DEF D
<1> QED  BY <1>1, <1>2, <1>3 DEF Behind

-----------------------------------------------------------------------------
(***************************************************************************)
(* What a trigger does.                                                    *)
(***************************************************************************)
Selected(st, vs, v) == UNION {Rows(st, vs)[r] : r \in ToSet(defs[v])}

LEMMA RefreshIs ==
  ASSUME defs \in Programs, NEW st \in [View -> Content], NEW vs \in [Base -> Nat], NEW v \in View
  PROVE  LET u == Refresh(st, vs, v)
         IN  /\ u \in [View -> Content]
             /\ u[v] = Selected(st, vs, v)
             /\ \A w \in View : w # v => u[w] = st[w]
<1> DEFINE R == Rows(st, vs)
           c == UNION {R[r] : r \in ToSet(defs[v])}
<1>1. R \in [Name -> Content]
  BY RowsAre
<1> HIDE DEF R
<1>2. \A r \in ToSet(defs[v]) : R[r] \in Content
  BY <1>1, ReadsEarlier
<1>3. c \in Content
  BY <1>2 DEF Content
<1>4. Refresh(st, vs, v) = [st EXCEPT ![v] = c]
  BY DEF Refresh, R
<1> HIDE DEF c
<1>5. Refresh(st, vs, v)[v] = c
  BY <1>4
<1> QED  BY <1>3, <1>4, <1>5 DEF c, R, Selected

\* f is the content of the tables after each of the commands.
Refreshed(f, st, vs, q) ==
  /\ f \in [0..Len(q) -> [View -> Content]]
  /\ f[0] = st
  /\ \A i \in 1..Len(q) : f[i] = Refresh(f[i - 1], vs, q[i])
  /\ RefreshAll(st, vs, q) = f[Len(q)]

LEMMA RefreshAllIs ==
  ASSUME defs \in Programs, NEW st \in [View -> Content], NEW vs \in [Base -> Nat],
         NEW q \in Seq(View)
  PROVE  \E f : Refreshed(f, st, vs, q)
<1> DEFINE n    == Len(q)
           T    == [View -> Content]
           one(x, i) == Refresh(x, vs, q[i])
           step == [i \in 1..n |-> [x \in T |-> one(x, i)]]
           F    == CHOOSE f : f = [i \in 0..n |-> IF i = 0 THEN st ELSE Refresh(f[i - 1], vs, q[i])]
<1>1. n \in Nat /\ DOMAIN q = 1..n /\ \A i \in 1..n : q[i] \in View
  OBVIOUS
<1>2. ASSUME NEW i \in 1..n, NEW x \in T PROVE one(x, i) \in T
  <2>1. q[i] \in View
    BY <1>1
  <2> QED  BY <2>1, RefreshIs
<1>3. step \in [1..n -> [T -> T]] /\ st \in T
  BY <1>2
<1>4. PICK f : Counts(f, n, T, st, step)
  <2> HIDE DEF n, T, step, F
  <2>1. n \in Nat
    BY <1>1
  <2> QED  BY <2>1, <1>3, ForLoop
<1>5. /\ f \in [0..n -> T] /\ f[0] = st
      /\ \A i \in 1..n : f[i] = step[i][f[i - 1]]
  <2> HIDE DEF n, T, step, F
  <2> QED  BY <1>4 DEF Counts
<1>6. ASSUME NEW i \in 1..n PROVE f[i] = one(f[i - 1], i)
  <2>1. f[i - 1] \in T
    <3>1. i - 1 \in 0..n
      BY <1>1
    <3> HIDE DEF n, T
    <3> QED  BY <3>1, <1>5
  <2>2. step[i][f[i - 1]] = one(f[i - 1], i)
    <3> HIDE DEF n, T, one
    <3> QED  BY <2>1
  <2> QED  BY <2>2, <1>5
<1>7. f = [i \in 0..n |-> IF i = 0 THEN st ELSE Refresh(f[i - 1], vs, q[i])]
  <2>1. \A i \in 0..n : i = 0 \/ i \in 1..n
    BY <1>1
  <2>2. f = [i \in 0..n |-> IF i = 0 THEN st ELSE one(f[i - 1], i)]
    <3> HIDE DEF n, T, step, one, F
    <3> QED  BY <1>5, <1>6, <2>1
  <2> QED  BY <2>2
<1>8. F = [i \in 0..n |-> IF i = 0 THEN st ELSE Refresh(F[i - 1], vs, q[i])]
  BY <1>7
<1>9. RefreshAll(st, vs, q) = F[n]
  BY DEF RefreshAll
<1> HIDE DEF F
<1>10. F[0] = st /\ \A i \in 1..n : F[i] = one(F[i - 1], i)
  <2>1. F = [i \in 0..n |-> IF i = 0 THEN st ELSE one(F[i - 1], i)]
    BY <1>8
  <2>2. 0 \in 0..n /\ \A i \in 1..n : i \in 0..n /\ i # 0
    BY <1>1
  <2> HIDE DEF n, one
  <2> QED  BY <2>1, <2>2
<1> DEFINE P == {i \in 0..n : F[i] = f[i]}
<1>11. 0 \in P
  <2> HIDE DEF n, one, step
  <2> QED  BY <1>1, <1>5, <1>10
<1>12. ASSUME NEW i \in 1..n, i - 1 \in P PROVE i \in P
  <2>1. F[i] = f[i]
    <3> HIDE DEF n, one, step
    <3> QED  BY <1>6, <1>10, <1>12
  <2> QED  BY <2>1, <1>1
<1>13. P = 0..n
  <2> HIDE DEF P, n
  <2>1. P \subseteq 0..n
    BY DEF P
  <2> QED  BY <2>1, <1>1, <1>11, <1>12, NatInd
<1>14. F[n] = f[n]
  <2>1. n \in P
    <3> HIDE DEF P, n
    <3> QED  BY <1>1, <1>13
  <2> QED  BY <2>1
<1>15. \A i \in 1..n : f[i] = Refresh(f[i - 1], vs, q[i])
  BY <1>6
<1> HIDE DEF n, step
<1> QED  BY <1>5, <1>9, <1>14, <1>15 DEF n, Refreshed

\* View v has all it needs, when the base tables hold vs: events, and triggers that know of it.
WarmIn(vs, v) == \A e \in Behind(v) : vs[e] > 0

Due(vs, v) == WarmIn(vs, v) /\ OriginalsFound(v)

LEMMA DueBelow ==
  ASSUME NEW vs, NEW v, Due(vs, v), NEW u \in Below(defs, v)
  PROVE  Due(vs, u)
<1>1. Below(defs, u) \subseteq Below(defs, v)
  BY BelowIsTransitive
<1>2. Behind(u) \subseteq Behind(v)
  BY <1>1 DEF Behind
<1>3. Below(defs, u) \cup {u} \subseteq Below(defs, v) \cup {v}
  BY <1>1
<1>4. OriginalsFound(u)
  BY <1>3 DEF OriginalsFound, Due
<1> QED  BY <1>2, <1>4 DEF Due, WarmIn

\* The tables that have all they need are up to date.
FreshTables(st, vs) ==
  \A v \in View : kind[v] = "Materialized" /\ Due(vs, v) => st[v] = Unmaterialized(vs, v)

LEMMA InsertRefreshes ==
  ASSUME defs \in Programs, PlanInv, \A v \in View : kind[v] \in {"View", "Materialized"},
         triggers \in [EventTable -> Seq(View)],
         NEW st \in [View -> Content], NEW us \in [Base -> Nat], NEW vs \in [Base -> Nat],
         NEW e \in EventTable, \A b \in Base : b # e => vs[b] = us[b],
         FreshTables(st, us)
  PROVE  LET new == RefreshAll(st, vs, triggers[e])
         IN  new \in [View -> Content] /\ FreshTables(new, vs)
<1> DEFINE q == triggers[e]
           n == Len(q)
<1>1. q \in Seq(View) /\ n \in Nat /\ DOMAIN q = 1..n
  OBVIOUS
<1>2. PICK f : Refreshed(f, st, vs, q)
  <2> HIDE DEF q, n
  <2> QED  BY <1>1, RefreshAllIs
<1>3. /\ f \in [0..n -> [View -> Content]] /\ f[0] = st
       /\ \A i \in 1..n : f[i] = Refresh(f[i - 1], vs, q[i])
       /\ RefreshAll(st, vs, q) = f[n]
  BY <1>2 DEF Refreshed
<1>4. /\ InOrder(q)
      /\ \A v \in View : v \in ToSet(q) => kind[v] = "Materialized" /\ e \in Behind(v)
  BY DEF PlanInv
<1> HIDE DEF q, n
<1> DEFINE Before(i) == {q[j] : j \in 1..i}
           Good(i) == \A v \in View :
             kind[v] = "Materialized" /\ Due(vs, v) /\ (e \in Behind(v) => v \in Before(i)) =>
               f[i][v] = Unmaterialized(vs, v)
           P == {i \in 0..n : Good(i)}
<1>5. Good(0)
  <2> SUFFICES ASSUME NEW v \in View, kind[v] = "Materialized", Due(vs, v), e \notin Behind(v)
               PROVE  f[0][v] = Unmaterialized(vs, v)
    OBVIOUS
  <2>1. e \notin Below(defs, v)
    BY DEF Behind
  <2>2. \A b \in Below(defs, v) \cap Base : us[b] = vs[b]
    BY <2>1
  <2>3. Behind(v) \subseteq Base
    BY NamesAre DEF Behind
  <2>4. Due(us, v)
    BY <2>2, <2>3 DEF Due, WarmIn, Behind
  <2>5. st[v] = Unmaterialized(us, v)
    BY <2>4 DEF FreshTables
  <2> QED  BY <2>2, <2>5, <1>3, UnmaterializedOfSame
<1>6. ASSUME NEW i \in 1..n, Good(i - 1) PROVE Good(i)
  <2> DEFINE x == f[i - 1]
             w == q[i]
  <2>1. /\ i \in DOMAIN q /\ i - 1 \in 0..n /\ w \in View
        /\ Before(i) = Before(i - 1) \cup {w}
    <3>1. i \in DOMAIN q /\ i - 1 \in 0..n /\ 1..i = 1..(i - 1) \cup {i}
      BY <1>1
    <3>2. Before(i) = Before(i - 1) \cup {w}
      BY <3>1
    <3>3. w \in View
      BY <3>1, <1>1
    <3> QED  BY <3>1, <3>2, <3>3
  <2>2. x \in [View -> Content] /\ f[i] = Refresh(x, vs, w)
    BY <2>1, <1>3
  <2>3. \A v \in View : v # w => f[i][v] = x[v]
    <3> HIDE DEF x, w
    <3>1. x \in [View -> Content] /\ w \in View
      BY <2>1, <2>2
    <3>2. \A v \in View : v # w => Refresh(x, vs, w)[v] = x[v]
      BY <3>1, RefreshIs
    <3> QED  BY <3>2, <2>2
  <2>4. f[i][w] = UNION {Rows(x, vs)[r] : r \in ToSet(defs[w])}
    <3> HIDE DEF x, w
    <3>1. x \in [View -> Content] /\ w \in View
      BY <2>1, <2>2
    <3>2. Refresh(x, vs, w)[w] = Selected(x, vs, w)
      BY <3>1, RefreshIs
    <3> QED  BY <3>2, <2>2 DEF Selected
  <2>5. ASSUME Due(vs, w) PROVE f[i][w] = Unmaterialized(vs, w)
    <3>1. ASSUME NEW u \in View \cap Below(defs, w), kind[u] # "View"
          PROVE  x[u] = Unmaterialized(vs, u)
      <4>1. kind[u] = "Materialized" /\ Due(vs, u)
        BY <2>5, <3>1, DueBelow
      <4>2. ASSUME e \in Behind(u) PROVE u \in Before(i - 1)
        <5>1. u \in ToSet(q)
          <6>1. Contains(q, u)
            BY <4>1, <4>2 DEF Due, OriginalsFound, q
          <6> QED  BY <6>1, <1>1, ContainsIs
        <5>2. PICK j \in DOMAIN q : q[j] = u
          BY <5>1 DEF ToSet
        <5>3. q[j] \in Below(defs, q[i])
          BY <5>2, <3>1
        <5>4. j < i
          BY <5>3, <2>1, <1>4 DEF InOrder
        <5>5. j \in 1..(i - 1)
          BY <5>4, <1>1
        <5> QED  BY <5>2, <5>5
      <4> HIDE DEF Before
      <4> QED  BY <4>1, <4>2, <1>6
    <3>2. ASSUME NEW r \in ToSet(defs[w]) PROVE Rows(x, vs)[r] = Unmaterialized(vs, r)
      <4>1. r \in Name /\ r \in ReadBy(defs, w)
        BY <2>1, ReadsEarlier
      <4>2. Below(defs, r) \cup {r} \subseteq Below(defs, w)
        BY <4>1, BelowHasReads, BelowIsTransitive
      <4> HIDE DEF x
      <4>3. Current(x, vs, r)
        BY <3>1, <4>2 DEF Current
      <4> QED  BY <4>1, <4>3, <2>2, RowsAreUnmaterialized
    <3> HIDE DEF x, w
    <3>3. {Rows(x, vs)[r] : r \in ToSet(defs[w])} = {Unmaterialized(vs, r) : r \in ToSet(defs[w])}
      BY <3>2
    <3>4. Unmaterialized(vs, w) = UNION {Unmaterialized(vs, r) : r \in ToSet(defs[w])}
      BY <2>1, UnmaterializedBySteps
    <3> QED  BY <3>3, <3>4, <2>4
  <2> HIDE DEF Before, x, w
  <2>6. ASSUME NEW v \in View, v # w, kind[v] = "Materialized", Due(vs, v),
               e \in Behind(v) => v \in Before(i)
        PROVE  f[i][v] = Unmaterialized(vs, v)
    <3>1. e \in Behind(v) => v \in Before(i - 1)
      BY <2>6, <2>1
    <3>2. x[v] = Unmaterialized(vs, v)
      BY <3>1, <2>6, <1>6 DEF x
    <3> QED  BY <3>2, <2>6, <2>3
  <2> QED  BY <2>5, <2>6
<1>7. P = 0..n
  <2> HIDE DEF Good
  <2>1. P \subseteq 0..n /\ 0 \in P /\ \A i \in 1..n : i - 1 \in P => i \in P
    BY <1>1, <1>5, <1>6
  <2> HIDE DEF P
  <2> QED  BY <2>1, <1>1, NatInd
<1>8. Good(n)
  <2>1. n \in P
    <3> HIDE DEF P
    <3> QED  BY <1>1, <1>7
  <2> HIDE DEF Good
  <2> QED  BY <2>1
<1>9. FreshTables(f[n], vs)
  <2> SUFFICES ASSUME NEW v \in View, kind[v] = "Materialized", Due(vs, v)
               PROVE  f[n][v] = Unmaterialized(vs, v)
    BY DEF FreshTables
  <2>1. ASSUME e \in Behind(v) PROVE v \in Before(n)
    <3>1. Contains(q, v)
      BY <2>1 DEF Due, OriginalsFound, q
    <3>2. v \in ToSet(q)
      BY <3>1, <1>1, ContainsIs
    <3> QED  BY <3>2, <1>1 DEF ToSet
  <2> HIDE DEF Before
  <2> QED  BY <2>1, <1>8
<1>10. RefreshAll(st, vs, q) = f[n] /\ f[n] \in [View -> Content]
  <2>1. n \in 0..n
    BY <1>1
  <2>2. f \in [0..n -> [View -> Content]]
    BY <1>3
  <2>3. f[n] \in [View -> Content]
    BY <2>1, <2>2
  <2>4. RefreshAll(st, vs, q) = f[n]
    BY <1>2 DEF Refreshed, n
  <2> QED  BY <2>3, <2>4
<1> HIDE DEF Good
<1> QED  BY <1>9, <1>10 DEF q

-----------------------------------------------------------------------------
(***************************************************************************)
(* The invariant: the plan is right once it is made, nothing is inserted   *)
(* before the tables are there, and then the tables are up to date.        *)
(***************************************************************************)
TypeInv ==
  /\ defs \in Programs
  /\ kind \in [View -> {"View", "Materialized", "StaticTable"}]
  /\ triggers \in [EventTable -> Seq(View)]
  /\ stored \in [View -> Content]
  /\ version \in [Base -> Nat]

FreshInv ==
  /\ phase # "run" => \A e \in EventTable : version[e] = 0
  /\ phase = "run" => /\ \A v \in View : kind[v] # "StaticTable"
                      /\ FreshTables(stored, version)

Inv ==
  /\ TypeInv
  /\ phase # "compile" => PlanInv
  /\ FreshInv

LEMMA InvInit == Init => Inv
<1> SUFFICES ASSUME Init PROVE Inv
  OBVIOUS
<1>1. /\ phase = "compile" /\ defs \in Programs
      /\ kind = [v \in View |-> "View"] /\ triggers = [e \in EventTable |-> <<>>]
      /\ stored = [v \in View |-> {}]
      /\ version = [b \in Base |-> IF b \in EventTable THEN 0 ELSE 1]
  BY DEF Init
<1>2. {} \in Content
  BY DEF Content
<1>3. TypeInv
  BY <1>1, <1>2 DEF TypeInv
<1>4. \A e \in EventTable : version[e] = 0
  BY <1>1, NamesAre
<1> QED  BY <1>1, <1>3, <1>4 DEF Inv, FreshInv

LEMMA TransformKeepsInv == Inv /\ Transform => Inv'
<1> SUFFICES ASSUME Inv, Transform PROVE Inv'
  OBVIOUS
<1>1. /\ phase = "compile" /\ phase' = "create"
      /\ kind' = [v \in View |-> Kind(Tree, v)]
      /\ triggers' = [e \in EventTable |-> Refreshes(Tree, e)]
      /\ defs' = defs /\ stored' = stored /\ version' = version
  BY DEF Transform
<1>2. TypeInv /\ \A e \in EventTable : version[e] = 0
  BY <1>1 DEF Inv, FreshInv
<1>3. defs \in Programs
  BY <1>2 DEF TypeInv
<1>4. ASSUME NEW e \in EventTable
      PROVE  /\ Refreshes(Tree, e) \in Seq(View) /\ InOrder(Refreshes(Tree, e))
             /\ ToSet(Refreshes(Tree, e)) = MaterializedFor(Tree, e)
  BY <1>3, RefreshesAre
<1>5. \A v \in View : Kind(Tree, v) \in {"View", "Materialized", "StaticTable"}
  BY DEF Kind
<1>6. TypeInv'
  BY <1>1, <1>2, <1>4, <1>5 DEF TypeInv
<1>7. PlanInv'
  <2>1. ASSUME NEW v \in View, kind'[v] = "Materialized"
        PROVE  Behind(v) # {} /\ (TreeShaped(defs, v) =>
                                    \A e \in Behind(v) : v \in ToSet(triggers'[e]))
    <3>1. Kind(Tree, v) = "Materialized"
      BY <2>1, <1>1
    <3> DEFINE found == {e \in EventTable : v \in MaterializedFor(Tree, e)}
    <3>2. found # {} /\ found \subseteq Behind(v) /\ (TreeShaped(defs, v) => found = Behind(v))
      BY <3>1, <1>3, KindIs
    <3> QED  BY <3>2, <1>1, <1>4
  <2>2. ASSUME NEW e \in EventTable
        PROVE  /\ InOrder(triggers'[e])
               /\ \A v \in ToSet(triggers'[e]) : v \in View /\ kind'[v] = "Materialized" /\ e \in Behind(v)
    <3>1. triggers'[e] = Refreshes(Tree, e)
      BY <1>1
    <3>2. ASSUME NEW v \in MaterializedFor(Tree, e)
          PROVE  v \in View /\ Kind(Tree, v) = "Materialized" /\ e \in Behind(v)
      <4>1. v \in View /\ Kind(Tree, v) = "Materialized"
        BY DEF MaterializedFor
      <4> DEFINE found == {d \in EventTable : v \in MaterializedFor(Tree, d)}
      <4>2. found \subseteq Behind(v)
        BY <4>1, <1>3, KindIs
      <4> QED  BY <4>1, <4>2
    <3> QED  BY <3>1, <3>2, <1>1, <1>4
  <2> QED  BY <2>1, <2>2, <1>1 DEF PlanInv, Behind, InOrder
<1> QED  BY <1>1, <1>2, <1>6, <1>7 DEF Inv, FreshInv

LEMMA CreateKeepsInv == Inv /\ Create => Inv'
<1> SUFFICES ASSUME Inv, Create PROVE Inv'
  OBVIOUS
<1>1. /\ phase = "create" /\ phase' \in {"run", "failed"}
      /\ phase' = "run" => \A v \in View : kind[v] # "StaticTable"
      /\ defs' = defs /\ kind' = kind /\ triggers' = triggers
      /\ stored' = stored /\ version' = version
  BY DEF Create
<1>2. TypeInv /\ PlanInv /\ \A e \in EventTable : version[e] = 0
  BY <1>1 DEF Inv, FreshInv
<1>3. TypeInv' /\ PlanInv'
  BY <1>1, <1>2 DEF TypeInv, PlanInv, Behind, InOrder
<1>4. FreshTables(stored, version)
  <2> SUFFICES ASSUME NEW v \in View, kind[v] = "Materialized", Due(version, v) PROVE FALSE
    BY DEF FreshTables
  <2>1. PICK e \in Behind(v) : TRUE
    BY <1>2 DEF PlanInv
  <2> QED  BY <2>1, <1>2 DEF Due, WarmIn, Behind
<1>5. FreshTables(stored, version)'
  BY <1>1, <1>4 DEF FreshTables, Due, WarmIn, OriginalsFound, Behind, Unmaterialized
<1> QED  BY <1>1, <1>2, <1>3, <1>5 DEF Inv, FreshInv

LEMMA InsertKeepsInv == ASSUME NEW e \in EventTable PROVE Inv /\ Insert(e) => Inv'
<1> SUFFICES ASSUME Inv, Insert(e) PROVE Inv'
  OBVIOUS
<1> DEFINE vs == [version EXCEPT ![e] = @ + 1]
           new == RefreshAll(stored, vs, triggers[e])
<1>1. /\ phase = "run" /\ phase' = phase /\ version' = vs /\ stored' = new
      /\ defs' = defs /\ kind' = kind /\ triggers' = triggers
  BY DEF Insert
<1>2. /\ TypeInv /\ PlanInv /\ FreshTables(stored, version)
      /\ \A v \in View : kind[v] # "StaticTable"
  BY <1>1 DEF Inv, FreshInv
<1>3. vs \in [Base -> Nat] /\ \A b \in Base : b # e => vs[b] = version[b]
  BY <1>2, NamesAre DEF TypeInv
<1>4. new \in [View -> Content] /\ FreshTables(new, vs)
  <2>1. /\ defs \in Programs /\ triggers \in [EventTable -> Seq(View)]
        /\ stored \in [View -> Content] /\ version \in [Base -> Nat]
        /\ \A v \in View : kind[v] \in {"View", "Materialized"}
    BY <1>2 DEF TypeInv
  <2> HIDE DEF vs
  <2> QED  BY <2>1, <1>2, <1>3, InsertRefreshes
<1> HIDE DEF vs, new
<1>5. TypeInv'
  BY <1>1, <1>2, <1>3, <1>4 DEF TypeInv
<1>6. PlanInv'
  BY <1>1, <1>2 DEF PlanInv, Behind, InOrder
<1>7. FreshTables(stored, version)'
  BY <1>1, <1>4 DEF FreshTables, Due, WarmIn, OriginalsFound, Behind, Unmaterialized
<1> QED  BY <1>1, <1>2, <1>5, <1>6, <1>7 DEF Inv, FreshInv

(***************************************************************************)
(* The invariant holds in every reachable state.                           *)
(***************************************************************************)
THEOREM InvHolds == Spec => []Inv
<1>1. Inv /\ [Next]_vars => Inv'
  <2> SUFFICES ASSUME Inv, [Next]_vars PROVE Inv'
    OBVIOUS
  <2>1. CASE Transform
    BY <2>1, TransformKeepsInv
  <2>2. CASE Create
    BY <2>2, CreateKeepsInv
  <2>3. ASSUME NEW e \in EventTable, Insert(e) PROVE Inv'
    BY <2>3, InsertKeepsInv
  <2>4. CASE UNCHANGED vars
    BY <2>4 DEF vars, Inv, TypeInv, PlanInv, FreshInv, FreshTables, Due, WarmIn, OriginalsFound,
                Behind, InOrder, Unmaterialized
  <2> QED  BY <2>1, <2>2, <2>3, <2>4 DEF Next
<1> QED  BY InvInit, <1>1, PTL DEF Spec

-----------------------------------------------------------------------------
LEMMA InvGivesFresh == Inv => FreshIfFound
<1> SUFFICES ASSUME Inv, phase = "run", NEW v \in View, Warm(v), OriginalsFound(v)
             PROVE  Rows(stored, version)[v] = Unmaterialized(version, v)
  BY DEF FreshIfFound
<1>1. /\ defs \in Programs /\ stored \in [View -> Content] /\ version \in [Base -> Nat]
      /\ FreshTables(stored, version)
      /\ \A u \in View : kind[u] \in {"View", "Materialized"}
  BY DEF Inv, TypeInv, FreshInv
<1>2. Due(version, v)
  BY DEF Due, Warm, WarmIn
<1>3. ASSUME NEW u \in View \cap (Below(defs, v) \cup {v}), kind[u] # "View"
      PROVE  stored[u] = Unmaterialized(version, u)
  <2>1. kind[u] = "Materialized" /\ Due(version, u)
    BY <1>1, <1>2, <1>3, DueBelow
  <2> QED  BY <2>1, <1>1 DEF FreshTables
<1>4. Current(stored, version, v)
  BY <1>3 DEF Current
<1> QED  BY <1>1, <1>4, NamesAre, RowsAreUnmaterialized

(***************************************************************************)
(* The property of the model: where the compiler found the event tables    *)
(* behind a view and the tables below it, and they have had events, the    *)
(* rows of the view are those it would have if no view were materialized   *)
(* (materialization.ts).                                                   *)
(***************************************************************************)
THEOREM MaterializationIsUnseen == Spec => []FreshIfFound
BY InvHolds, InvGivesFresh, PTL

\* The same, without an assumption about what the compiler found: no relation is read along two paths.
FreshInTrees ==
  phase = "run" => \A v \in View :
    Warm(v) /\ TreeShaped(defs, v) => Rows(stored, version)[v] = Unmaterialized(version, v)

(***************************************************************************)
(* Below a view that reads no relation along two paths the compiler misses *)
(* no event table, so that its rows are right as soon as each event table  *)
(* behind it has had an event.                                             *)
(***************************************************************************)
THEOREM TreesAreFresh == Spec => []FreshInTrees
<1>1. Inv => FreshInTrees
  <2> SUFFICES ASSUME Inv, phase = "run", NEW v \in View, Warm(v), TreeShaped(defs, v)
               PROVE  Rows(stored, version)[v] = Unmaterialized(version, v)
    BY DEF FreshInTrees
  <2>1. PlanInv /\ triggers \in [EventTable -> Seq(View)]
    BY DEF Inv, TypeInv
  <2>2. ASSUME NEW w \in View \cap (Below(defs, v) \cup {v}), kind[w] = "Materialized",
               NEW e \in Behind(w)
        PROVE  Contains(triggers[e], w)
    <3>1. Below(defs, w) \cup {w} \subseteq Below(defs, v) \cup {v}
      BY BelowIsTransitive
    <3>2. TreeShaped(defs, w)
      BY <3>1 DEF TreeShaped
    <3>3. e \in EventTable /\ w \in ToSet(triggers[e])
      BY <3>2, <2>1, <2>2 DEF PlanInv, Behind
    <3> QED  BY <3>3, <2>1, ContainsIs
  <2>3. OriginalsFound(v)
    BY <2>2 DEF OriginalsFound
  <2> QED  BY <2>3, InvGivesFresh DEF FreshIfFound
<1> QED  BY InvHolds, <1>1, PTL
=============================================================================
