-------------------------- MODULE DistributionProofs --------------------------
(***************************************************************************)
(* Theorems about Distribution, for every program, any databases and any   *)
(* tables: where relations are placed, what the databases define, what an  *)
(* output has of the plan, and what events and outputs make them ship.     *)
(***************************************************************************)
EXTENDS Distribution, DependencyTreeProofs

-----------------------------------------------------------------------------
(***************************************************************************)
(* Concatenation: sequence i is found from place at[i] on.                 *)
(***************************************************************************)
Blocks(c, seqs, at, n) ==
  /\ at \in [1..n -> Nat]
  /\ \A i \in 1..n : at[i] + Len(seqs[i]) <= Len(c)
  /\ \A i \in 1..n : \A j \in 1..Len(seqs[i]) : c[at[i] + j] = seqs[i][j]
  /\ \A k \in 1..Len(c) : \E i \in 1..n : \E j \in 1..Len(seqs[i]) : k = at[i] + j
  /\ \A i, j \in 1..n : i < j => at[i] + Len(seqs[i]) <= at[j]

LEMMA AppendBlock ==
  ASSUME NEW X, NEW seqs \in Seq(Seq(X)), NEW n \in 1..Len(seqs), NEW c \in Seq(X),
         NEW at, Blocks(c, seqs, at, n - 1)
  PROVE  \E b : Blocks(c \o seqs[n], seqs, b, n)
<1> DEFINE s == seqs[n]
           l == c \o s
           b == [i \in 1..n |-> IF i = n THEN Len(c) ELSE at[i]]
<1>1. /\ s \in Seq(X) /\ n \in Nat /\ n - 1 \in Nat /\ Len(c) \in Nat /\ Len(s) \in Nat
      /\ \A i \in 1..n : seqs[i] \in Seq(X) /\ Len(seqs[i]) \in Nat
  OBVIOUS
<1>0. /\ n \in 1..n /\ \A i \in 1..n : i = n \/ i \in 1..(n - 1)
      /\ \A i \in 1..(n - 1) : i \in 1..n /\ i # n
      /\ \A i, j \in 1..n : i < j => i \in 1..(n - 1)
  BY <1>1
<1>2. /\ Len(l) = Len(c) + Len(s)
      /\ \A k \in 1..Len(c) : l[k] = c[k]
      /\ \A j \in 1..Len(s) : l[Len(c) + j] = s[j]
  BY <1>1
<1>3. /\ b[n] = Len(c) /\ DOMAIN b = 1..n /\ b = [i \in 1..n |-> b[i]]
      /\ \A i \in 1..(n - 1) : b[i] = at[i] /\ at[i] \in Nat
  <2>2. at \in [1..(n - 1) -> Nat]
    BY DEF Blocks
  <2> QED  BY <1>0, <2>2
<1>a. /\ \A i \in 1..(n - 1) : at[i] + Len(seqs[i]) <= Len(c)
      /\ \A i \in 1..(n - 1) : \A j \in 1..Len(seqs[i]) : c[at[i] + j] = seqs[i][j]
      /\ \A k \in 1..Len(c) : \E i \in 1..(n - 1) : \E j \in 1..Len(seqs[i]) : k = at[i] + j
      /\ \A i, j \in 1..(n - 1) : i < j => at[i] + Len(seqs[i]) <= at[j]
  BY DEF Blocks
<1> HIDE DEF l, b
<1>4. b \in [1..n -> Nat]
  <2>1. ASSUME NEW i \in 1..n PROVE b[i] \in Nat
    <3>1. CASE i = n
      BY <3>1, <1>1, <1>3
    <3>2. CASE i \in 1..(n - 1)
      BY <3>2, <1>3
    <3> QED  BY <3>1, <3>2, <1>0
  <2> QED  BY <2>1, <1>3
<1>5. ASSUME NEW i \in 1..n
      PROVE  b[i] + Len(seqs[i]) <= Len(l) /\ \A j \in 1..Len(seqs[i]) : l[b[i] + j] = seqs[i][j]
  <2>1. CASE i = n
    BY <2>1, <1>1, <1>2, <1>3 DEF s
  <2>2. CASE i \in 1..(n - 1)
    <3>1. b[i] = at[i] /\ at[i] \in Nat /\ at[i] + Len(seqs[i]) <= Len(c) /\ Len(seqs[i]) \in Nat
      BY <2>2, <1>1, <1>3, <1>a
    <3>2. ASSUME NEW j \in 1..Len(seqs[i]) PROVE l[b[i] + j] = seqs[i][j]
      <4>1. at[i] + j \in 1..Len(c)
        <5>1. j \in Nat /\ 1 <= j /\ j <= Len(seqs[i]) /\ Len(c) \in Nat /\ Len(seqs[i]) \in Nat
          BY <3>1, <1>1
        <5>2. \A x, y, z, w \in Nat : 1 <= y /\ y <= z /\ x + z <= w => x + y \in 1..w
          OBVIOUS
        <5>3. at[i] \in Nat /\ at[i] + Len(seqs[i]) <= Len(c)
          BY <3>1
        <5> HIDE DEF s
        <5> QED  BY <5>1, <5>2, <5>3
      <4> QED  BY <4>1, <3>1, <2>2, <1>2, <1>a
    <3> QED  BY <3>1, <3>2, <1>1, <1>2
  <2> QED  BY <2>1, <2>2, <1>0
<1>6. ASSUME NEW k \in 1..Len(l)
      PROVE  \E i \in 1..n : \E j \in 1..Len(seqs[i]) : k = b[i] + j
  <2>1. CASE k \in 1..Len(c)
    <3>1. PICK i \in 1..(n - 1) : \E j \in 1..Len(seqs[i]) : k = at[i] + j
      BY <2>1, <1>a
    <3>2. i \in 1..n /\ b[i] = at[i]
      BY <1>0, <1>3
    <3> QED  BY <3>1, <3>2
  <2>2. CASE k \notin 1..Len(c)
    <3>1. k - Len(c) \in 1..Len(s) /\ k = Len(c) + (k - Len(c)) /\ n \in 1..n
      BY <2>2, <1>1, <1>2
    <3> QED  BY <3>1, <1>3 DEF s
  <2> QED  BY <2>1, <2>2
<1>7. ASSUME NEW i \in 1..n, NEW j \in 1..n, i < j PROVE b[i] + Len(seqs[i]) <= b[j]
  <2>1. i \in 1..(n - 1) /\ b[i] = at[i]
    BY <1>7, <1>0, <1>3
  <2>2. CASE j = n
    BY <2>1, <2>2, <1>3, <1>a
  <2>3. CASE j \in 1..(n - 1)
    BY <2>1, <2>3, <1>7, <1>3, <1>a
  <2> QED  BY <2>2, <2>3, <1>0
<1>8. Blocks(l, seqs, b, n)
  BY <1>4, <1>5, <1>6, <1>7 DEF Blocks
<1> QED  BY <1>8 DEF l

\* The loop: f[i] is the first i sequences.
Joins(f, seqs, X) ==
  /\ f \in [0..Len(seqs) -> Seq(X)] /\ f[0] = <<>>
  /\ \A i \in 1..Len(seqs) : f[i] = f[i - 1] \o seqs[i]

LEMMA ConcatenationJoins ==
  ASSUME NEW X, NEW seqs \in Seq(Seq(X))
  PROVE  \E f : Joins(f, seqs, X) /\ Concatenation(seqs) = f[Len(seqs)]
<1> DEFINE n    == Len(seqs)
           T    == Seq(X)
           one(k, i) == k \o seqs[i]
           step == [i \in 1..n |-> [k \in T |-> one(k, i)]]
           none == <<>>
           F    == CHOOSE f : f = [i \in 0..n |-> IF i = 0 THEN <<>> ELSE f[i - 1] \o seqs[i]]
<1>1. n \in Nat /\ \A i \in 1..n : seqs[i] \in T
  OBVIOUS
<1>2. ASSUME NEW i \in 1..n, NEW k \in T PROVE one(k, i) \in T
  BY <1>1
<1>3. step \in [1..n -> [T -> T]]
  BY <1>2
<1>4. <<>> \in T
  OBVIOUS
<1>5. PICK f : Counts(f, n, T, none, step)
  <2> HIDE DEF n, T, step, F, none
  <2>1. n \in Nat
    BY <1>1
  <2>2. none \in T
    BY <1>4 DEF none
  <2> QED  BY <2>1, <2>2, <1>3, ForLoop
<1>6. f = [i \in 0..n |-> IF i = 0 THEN <<>> ELSE f[i - 1] \o seqs[i]]
  <2>0. /\ f \in [0..n -> T] /\ f[0] = <<>>
        /\ \A i \in 1..n : f[i] = step[i][f[i - 1]]
    <3> HIDE DEF n, T, step, F
    <3> QED  BY <1>5 DEF Counts
  <2>1. ASSUME NEW i \in 1..n PROVE f[i] = one(f[i - 1], i)
    <3>1. f[i - 1] \in T
      <4>1. i - 1 \in 0..n
        BY <1>1
      <4> HIDE DEF n, T
      <4> QED  BY <4>1, <2>0
    <3>2. step[i][f[i - 1]] = one(f[i - 1], i)
      <4> HIDE DEF n, T, one
      <4> QED  BY <3>1
    <3> QED  BY <3>2, <2>0
  <2>2. \A i \in 0..n : i = 0 \/ i \in 1..n
    BY <1>1
  <2>3. f = [i \in 0..n |-> IF i = 0 THEN <<>> ELSE one(f[i - 1], i)]
    <3> HIDE DEF n, T, step, one, F
    <3> QED  BY <2>0, <2>1, <2>2
  <2> QED  BY <2>3
<1>7. F = [i \in 0..n |-> IF i = 0 THEN <<>> ELSE F[i - 1] \o seqs[i]]
  BY <1>6
<1>8. Concatenation(seqs) = F[n]
  BY DEF Concatenation
<1> HIDE DEF F
<1>9. F[0] = <<>> /\ \A i \in 1..n : F[i] = one(F[i - 1], i)
  <2>1. F = [i \in 0..n |-> IF i = 0 THEN <<>> ELSE one(F[i - 1], i)]
    BY <1>7
  <2>2. 0 \in 0..n /\ \A i \in 1..n : i \in 0..n /\ i # 0
    BY <1>1
  <2> HIDE DEF n, one
  <2> QED  BY <2>1, <2>2
<1>10. F \in [0..n -> T]
  <2>1. F = f
    <3>1. \A i \in 0..n : F[i] = f[i]
      <4> DEFINE P == {i \in 0..n : F[i] = f[i]}
      <4>1. 0 \in P
        BY <1>1, <1>6, <1>9
      <4>2. ASSUME NEW i \in 1..n, i - 1 \in P PROVE i \in P
        <5>1. i \in 0..n /\ i # 0
          BY <1>1
        <5>2. f[i] = f[i - 1] \o seqs[i]
          BY <5>1, <1>6
        <5> QED  BY <5>1, <5>2, <1>9, <4>2
      <4>3. P = 0..n
        <5> HIDE DEF P
        <5>1. P \subseteq 0..n
          BY DEF P
        <5> QED  BY <5>1, <1>1, <4>1, <4>2, NatInd
      <4> QED  BY <4>3
    <3>2. F = [i \in 0..n |-> F[i]] /\ f = [i \in 0..n |-> f[i]]
      BY <1>6, <1>7
    <3> HIDE DEF n
    <3> QED  BY <3>1, <3>2
  <2>2. f \in [0..n -> T]
    <3> HIDE DEF n, T, step
    <3> QED  BY <1>5 DEF Counts
  <2> QED  BY <2>1, <2>2
<1>11. Joins(F, seqs, X)
  BY <1>9, <1>10 DEF Joins
<1> QED  BY <1>8, <1>11

LEMMA ConcatenationIs ==
  ASSUME NEW X, NEW seqs \in Seq(Seq(X))
  PROVE  Concatenation(seqs) \in Seq(X) /\ \E at : Blocks(Concatenation(seqs), seqs, at, Len(seqs))
<1> DEFINE n == Len(seqs)
           T == Seq(X)
<1>1. n \in Nat /\ \A i \in 1..n : seqs[i] \in T
  OBVIOUS
<1>2. PICK F : Joins(F, seqs, X) /\ Concatenation(seqs) = F[n]
  BY ConcatenationJoins
<1>8. Concatenation(seqs) = F[n]
  BY <1>2
<1>9. /\ F[0] = <<>> /\ \A i \in 1..n : F[i] = F[i - 1] \o seqs[i]
      /\ F \in [0..n -> T]
  BY <1>2 DEF Joins
<1> DEFINE P == {i \in 0..n : F[i] \in T /\ \E at : Blocks(F[i], seqs, at, i)}
<1>10. 0 \in P
  <2> DEFINE at == [i \in 1..0 |-> 0]
  <2>1. Len(F[0]) = 0 /\ F[0] \in T /\ 1..0 = {} /\ at \in [1..0 -> Nat]
    BY <1>9
  <2> HIDE DEF at
  <2>2. Blocks(F[0], seqs, at, 0)
    BY <2>1 DEF Blocks
  <2> QED  BY <2>1, <2>2, <1>1
<1>11. ASSUME NEW i \in 1..n, i - 1 \in P PROVE i \in P
  <2>1. F[i] = F[i - 1] \o seqs[i] /\ F[i - 1] \in T /\ seqs[i] \in T
    BY <1>1, <1>9, <1>11
  <2>2. PICK at : Blocks(F[i - 1], seqs, at, i - 1)
    BY <1>11
  <2>3. \E b : Blocks(F[i - 1] \o seqs[i], seqs, b, i)
    BY <2>1, <2>2, AppendBlock
  <2>4. F[i] \in T /\ i \in 0..n
    BY <2>1, <1>1
  <2>5. \E b : Blocks(F[i], seqs, b, i)
    BY <2>1, <2>3
  <2> HIDE DEF T, n
  <2> QED  BY <2>4, <2>5
<1>12. P = 0..n
  <2> HIDE DEF P
  <2>1. P \subseteq 0..n
    BY DEF P
  <2> QED  BY <2>1, <1>1, <1>10, <1>11, NatInd
<1>13. n \in P
  <2> HIDE DEF P, n
  <2> QED  BY <1>1, <1>12
<1> QED  BY <1>8, <1>13

\* Its elements are those of the sequences.
LEMMA ConcatenationHas ==
  ASSUME NEW X, NEW seqs \in Seq(Seq(X))
  PROVE  /\ Concatenation(seqs) \in Seq(X)
         /\ \A i \in 1..Len(seqs) : ToSet(seqs[i]) \subseteq ToSet(Concatenation(seqs))
         /\ \A x \in ToSet(Concatenation(seqs)) : \E i \in 1..Len(seqs) : x \in ToSet(seqs[i])
<1> DEFINE c == Concatenation(seqs)
           n == Len(seqs)
<1>1. c \in Seq(X) /\ \E at : Blocks(c, seqs, at, n)
  BY ConcatenationIs
<1> HIDE DEF c
<1>2. PICK at : Blocks(c, seqs, at, n)
  BY <1>1
<1>3. /\ n \in Nat /\ Len(c) \in Nat /\ ToSet(c) = {c[k] : k \in 1..Len(c)}
      /\ \A i \in 1..n : /\ Len(seqs[i]) \in Nat
                         /\ ToSet(seqs[i]) = {seqs[i][j] : j \in 1..Len(seqs[i])}
  BY <1>1 DEF ToSet
<1>4. ASSUME NEW i \in 1..n, NEW j \in 1..Len(seqs[i]) PROVE seqs[i][j] \in ToSet(c)
  <2>0. at[i] \in Nat /\ at[i] + Len(seqs[i]) <= Len(c) /\ c[at[i] + j] = seqs[i][j]
    BY <1>2 DEF Blocks
  <2>1. at[i] + j \in 1..Len(c) /\ c[at[i] + j] = seqs[i][j]
    BY <2>0, <1>3
  <2> QED  BY <2>1, <1>3
<1>5. ASSUME NEW k \in 1..Len(c) PROVE \E i \in 1..n : c[k] \in ToSet(seqs[i])
  <2>1. PICK i \in 1..n : \E j \in 1..Len(seqs[i]) : k = at[i] + j
    BY <1>2 DEF Blocks
  <2>2. PICK j \in 1..Len(seqs[i]) : k = at[i] + j
    BY <2>1
  <2>3. c[k] = seqs[i][j]
    BY <2>2, <1>2 DEF Blocks
  <2> QED  BY <2>3, <1>3
<1>6. ASSUME NEW i \in 1..n PROVE ToSet(seqs[i]) \subseteq ToSet(c)
  <2>1. ToSet(seqs[i]) = {seqs[i][j] : j \in 1..Len(seqs[i])}
    BY <1>3
  <2> HIDE DEF n
  <2> QED  BY <2>1, <1>4
<1>7. \A x \in ToSet(c) : \E i \in 1..n : x \in ToSet(seqs[i])
  <2> HIDE DEF n
  <2> QED  BY <1>3, <1>5
<1> QED  BY <1>1, <1>6, <1>7 DEF c

LEMMA ConcatenationOfOnes ==
  ASSUME NEW X, NEW s \in Seq(X)
  PROVE  Concatenation([i \in DOMAIN s |-> <<s[i]>>]) = s
<1> DEFINE n    == Len(s)
           ones == [i \in DOMAIN s |-> <<s[i]>>]
<1>1. /\ n \in Nat /\ DOMAIN s = 1..n /\ ones \in Seq(Seq(X)) /\ Len(ones) = n
      /\ \A i \in 1..n : ones[i] = <<s[i]>> /\ s[i] \in X
  <2>1. n \in Nat /\ DOMAIN s = 1..n /\ \A i \in 1..n : s[i] \in X /\ <<s[i]>> \in Seq(X)
    OBVIOUS
  <2>2. ones \in [1..n -> Seq(X)]
    BY <2>1
  <2> QED  BY <2>1, <2>2
<1> HIDE DEF ones
<1>2. PICK f : Joins(f, ones, X) /\ Concatenation(ones) = f[n]
  BY <1>1, ConcatenationJoins
<1>3. /\ f \in [0..n -> Seq(X)] /\ f[0] = <<>>
      /\ \A i \in 1..n : f[i] = f[i - 1] \o <<s[i]>>
  BY <1>1, <1>2 DEF Joins
<1> DEFINE P == {i \in 0..n : f[i] = SubSeq(s, 1, i)}
<1>4. 0 \in P
  BY <1>1, <1>3
<1>5. ASSUME NEW i \in 1..n, i - 1 \in P PROVE i \in P
  <2>1. f[i] = SubSeq(s, 1, i - 1) \o <<s[i]>>
    BY <1>3, <1>5
  <2>2. SubSeq(s, 1, i - 1) \o <<s[i]>> = SubSeq(s, 1, i)
    <3> DEFINE u == SubSeq(s, 1, i - 1)
               w == SubSeq(s, 1, i)
               v == u \o <<s[i]>>
    <3>1. i \in Nat /\ i - 1 \in Nat /\ 1 <= i /\ i <= n /\ i - 1 <= n /\ s[i] \in X
      BY <1>1
    <3>2. /\ u \in Seq(X) /\ Len(u) = i - 1 /\ \A k \in 1..(i - 1) : u[k] = s[k]
          /\ w \in Seq(X) /\ Len(w) = i /\ \A k \in 1..i : w[k] = s[k]
      BY <1>1, <3>1, SubSeqProperties
    <3> HIDE DEF u, w
    <3>3. /\ v \in Seq(X) /\ Len(v) = i
          /\ (\A k \in 1..(i - 1) : v[k] = u[k]) /\ v[i] = s[i]
      BY <3>1, <3>2
    <3> HIDE DEF v
    <3>4. \A k \in 1..i : v[k] = w[k]
      <4>1. \A k \in 1..i : k = i \/ k \in 1..(i - 1)
        BY <3>1
      <4> QED  BY <4>1, <3>1, <3>2, <3>3
    <3>5. v = w
      BY <3>1, <3>2, <3>3, <3>4
    <3> QED  BY <3>5 DEF u, w, v
  <2>3. i \in 0..n
    BY <1>1
  <2> QED  BY <2>1, <2>2, <2>3
<1>6. P = 0..n
  <2> HIDE DEF P
  <2>1. P \subseteq 0..n
    BY DEF P
  <2> QED  BY <2>1, <1>1, <1>4, <1>5, NatInd
<1>7. f[n] = SubSeq(s, 1, n)
  <2>1. n \in 0..n
    BY <1>1
  <2>2. n \in P
    BY <2>1, <1>6
  <2> QED  BY <2>2
<1>8. SubSeq(s, 1, n) = s
  BY <1>1
<1> QED  BY <1>2, <1>7, <1>8 DEF ones

-----------------------------------------------------------------------------
(***************************************************************************)
(* selectRelationEvalOwner: its result is a database, and the main one when*)
(* nothing else is read.                                                   *)
(***************************************************************************)
MetAt(ids, d) == SelectInSeq(ids, LAMBDA x : x = d)

AtOf(ids, type) == {d \in ToSet(ids) \cap Db : DbType[d] = type}

LEMMA MetAtIs ==
  ASSUME NEW ids \in Seq(Db), NEW d
  PROVE  MetAt(ids, d) \in 0..Len(ids)
<1> DEFINE I == {i \in 1..Len(ids) : ids[i] = d}
<1>1. MetAt(ids, d) = IF I # {} THEN Min(I) ELSE 0
  BY DEF MetAt, SelectInSeq
<1>2. Len(ids) \in Nat /\ I \subseteq Nat /\ I \subseteq 1..Len(ids)
  OBVIOUS
<1>3. ASSUME I # {} PROVE Min(I) \in I
  <2>1. Min(I) = CHOOSE i \in I : \A j \in I : i <= j
    BY DEF Min
  <2> HIDE DEF I
  <2>2. \E i \in I : \A j \in I : i <= j
    BY <1>2, <1>3, LeastNumber
  <2> QED  BY <2>1, <2>2
<1> HIDE DEF I
<1>4. CASE I = {}
  BY <1>1, <1>2, <1>4
<1>5. CASE I # {}
  <2>1. MetAt(ids, d) \in 1..Len(ids)
    BY <1>1, <1>2, <1>3, <1>5
  <2> QED  BY <2>1, <1>2
<1> QED  BY <1>4, <1>5

LEMMA OwnerIsChosen ==
  ASSUME NEW ids \in Seq(Db)
  PROVE  LET owner   == SelectRelationEvalOwner(ids)
             sockets == AtOf(ids, "Socket")
             workers == AtOf(ids, "Worker")
         IN  /\ sockets # {} => owner \in sockets
             /\ sockets = {} /\ workers # {} => owner \in workers
             /\ sockets = {} /\ workers = {} => owner = LocalDbId
<1> DEFINE sockets == AtOf(ids, "Socket")
           workers == AtOf(ids, "Worker")
           first   == CHOOSE d \in sockets : \A x \in sockets : MetAt(ids, d) <= MetAt(ids, x)
           last    == CHOOSE d \in workers : \A x \in workers : MetAt(ids, x) <= MetAt(ids, d)
<1>1. SelectRelationEvalOwner(ids) =
        CASE sockets # {} -> first
          [] sockets = {} /\ workers # {} -> last
          [] OTHER -> LocalDbId
  BY DEF SelectRelationEvalOwner, MetAt, AtOf
<1>2. Len(ids) \in Nat /\ \A d : MetAt(ids, d) \in 0..Len(ids)
  BY MetAtIs
<1>3. ASSUME sockets # {} PROVE first \in sockets
  <2> DEFINE M == {MetAt(ids, d) : d \in sockets}
  <2>1. M # {} /\ M \subseteq Nat
    BY <1>2, <1>3
  <2>2. PICK m \in M : \A k \in M : m <= k
    BY <2>1, LeastNumber
  <2>3. \E d \in sockets : \A x \in sockets : MetAt(ids, d) <= MetAt(ids, x)
    BY <2>2
  <2> HIDE DEF sockets
  <2> QED  BY <2>3
<1>4. ASSUME workers # {} PROVE last \in workers
  <2> DEFINE M == {Len(ids) - MetAt(ids, d) : d \in workers}
  <2>1. M # {} /\ M \subseteq Nat
    BY <1>2, <1>4
  <2>2. PICK m \in M : \A k \in M : m <= k
    BY <2>1, LeastNumber
  <2>3. PICK d \in workers : m = Len(ids) - MetAt(ids, d)
    BY <2>2
  <2>4. \A x \in workers : Len(ids) - MetAt(ids, d) <= Len(ids) - MetAt(ids, x)
    BY <2>2, <2>3
  <2>5. \A x \in workers : MetAt(ids, x) <= MetAt(ids, d)
    BY <2>4, <1>2
  <2> HIDE DEF workers
  <2> QED  BY <2>5
<1> HIDE DEF first, last
<1> QED  BY <1>1, <1>3, <1>4

LEMMA OwnerIsAmong ==
  ASSUME NEW ids \in Seq(Db)
  PROVE  SelectRelationEvalOwner(ids) \in (ToSet(ids) \cap Db) \cup {LocalDbId}
<1>1. \A type : AtOf(ids, type) \subseteq ToSet(ids) \cap Db
  BY DEF AtOf
<1> QED  BY <1>1, OwnerIsChosen

\* The main database is the owner only of what reads nothing elsewhere.
LEMMA LocalOwner ==
  ASSUME NEW ids \in Seq(Db), SelectRelationEvalOwner(ids) = LocalDbId
  PROVE  \A i \in DOMAIN ids : ids[i] = LocalDbId
<1> SUFFICES ASSUME NEW i \in DOMAIN ids, ids[i] # LocalDbId PROVE FALSE
  OBVIOUS
<1>1. ids[i] \in ToSet(ids) \cap Db
  BY DEF ToSet
<1>2. DbType[ids[i]] \in {"Worker", "Socket"}
  BY <1>1, PlanAssumption
<1>3. AtOf(ids, "Socket") # {} \/ AtOf(ids, "Worker") # {}
  BY <1>1, <1>2 DEF AtOf
<1>4. LocalDbId \in AtOf(ids, "Socket") \cup AtOf(ids, "Worker")
  BY <1>3, OwnerIsChosen
<1> QED  BY <1>4, PlanAssumption DEF AtOf

LEMMA OwnerIsDb ==
  ASSUME NEW ids \in Seq(Db) PROVE SelectRelationEvalOwner(ids) \in Db
BY OwnerIsAmong, PlanAssumption

LEMMA OwnerOfLocal == SelectRelationEvalOwner(<<LocalDbId, LocalDbId>>) = LocalDbId
<1> DEFINE ids == <<LocalDbId, LocalDbId>>
<1>1. ids \in Seq(Db) /\ ToSet(ids) = {LocalDbId}
  BY PlanAssumption DEF ToSet
<1> HIDE DEF ids
<1>2. SelectRelationEvalOwner(ids) = LocalDbId
  BY <1>1, OwnerIsAmong
<1> QED  BY <1>2 DEF ids

-----------------------------------------------------------------------------
(***************************************************************************)
(* QueryDistributionRecursiveEval.  What is found for r is what everything *)
(* that r is made of needs: its own evaluation, and the shipments of what  *)
(* it reads to where it is evaluated.                                      *)
(***************************************************************************)
Places == [dbId : Db, fromDbId : Db]

PlaceAt(type, owner) ==
  [dbId |-> IF type \in {"EventView", "Output"} THEN LocalDbId ELSE owner, fromDbId |-> owner]

DistributionSet ==
  [relationName : AllNames, from : Db, to : Db, forRelationName : AllNames,
   finalOutputName : AllNames]

Results == [relationName : AllNames, list : Seq(DistributionSet), dbId : Db, fromDbId : Db]

OwnerIn(aug, place, r) ==
  IF aug[r].dependsOn = <<>> THEN aug[r].remoteId
  ELSE SelectRelationEvalOwner([i \in DOMAIN aug[r].dependsOn |-> place[aug[r].dependsOn[i]].dbId])

\* A tree with locations whose relations have a rank and a place each.
Setting(a, aug, n, rank, place) ==
  /\ DOMAIN aug \subseteq AllNames
  /\ \A r \in DOMAIN aug : aug[r].dependsOn \in Seq(DOMAIN aug)
  /\ rank \in [DOMAIN aug -> 0..n]
  /\ \A r \in DOMAIN aug : \A y \in ToSet(aug[r].dependsOn) : rank[y] < rank[r]
  /\ place \in [DOMAIN aug -> Places]
  /\ \A r \in DOMAIN aug : place[r] = PlaceAt(TypeOf(a, r), OwnerIn(aug, place, r))
  /\ \A r \in DOMAIN aug :
       IF aug[r].dependsOn = <<>> THEN TypeOf(a, r) \in {"EventTable", "Table", "ExistingAndImmutable"}
       ELSE TypeOf(a, r) \in {"View", "EventView", "Output"}

OwnOf(place, output, x) ==
  Distribution(x, place[x].fromDbId, place[x].dbId, x, output)

ShipOf(place, output, y, x) ==
  Distribution(y, place[y].dbId, place[x].fromDbId, x, output)

Needs(a, aug, place, output, x) ==
  {ShipOf(place, output, y, x) : y \in ToSet(aug[x].dependsOn)}
  \cup (IF TypeOf(a, x) = "View" THEN {} ELSE {OwnOf(place, output, x)})

HasReads(aug, C) == \A x \in C : ToSet(aug[x].dependsOn) \subseteq C

MadeOf(aug, r) ==
  {x \in DOMAIN aug : \A C \in SUBSET DOMAIN aug : r \in C /\ HasReads(aug, C) => x \in C}

NeededBy(a, aug, place, output, r) ==
  UNION {Needs(a, aug, place, output, x) : x \in MadeOf(aug, r)}

\* A result is asked for before it is shipped on.
OwnFirst(a, list) ==
  \A i \in DOMAIN list :
    TypeOf(a, list[i].relationName) # "View" =>
      \/ list[i].relationName = list[i].forRelationName
      \/ \E j \in 1..(i - 1) : /\ list[j].relationName = list[i].relationName
                               /\ list[j].forRelationName = list[i].relationName

Found(a, aug, place, output, r, result) ==
  /\ result \in Results /\ result.relationName = r
  /\ result.dbId = place[r].dbId /\ result.fromDbId = place[r].fromDbId
  /\ ToSet(result.list) = NeededBy(a, aug, place, output, r)
  /\ OwnFirst(a, result.list)

LEMMA MadeOfIs ==
  ASSUME NEW aug, \A r \in DOMAIN aug : ToSet(aug[r].dependsOn) \subseteq DOMAIN aug
  PROVE  \A r \in DOMAIN aug :
           /\ HasReads(aug, MadeOf(aug, r))
           /\ MadeOf(aug, r) = {r} \cup UNION {MadeOf(aug, y) : y \in ToSet(aug[r].dependsOn)}
<1> SUFFICES ASSUME NEW r \in DOMAIN aug
             PROVE  /\ HasReads(aug, MadeOf(aug, r))
                    /\ MadeOf(aug, r) = {r} \cup UNION {MadeOf(aug, y) : y \in ToSet(aug[r].dependsOn)}
  OBVIOUS
<1> DEFINE reads == ToSet(aug[r].dependsOn)
           U     == {r} \cup UNION {MadeOf(aug, y) : y \in reads}
<1>1. reads \subseteq DOMAIN aug
  OBVIOUS
<1>2. \A x \in DOMAIN aug : MadeOf(aug, x) \subseteq DOMAIN aug /\ x \in MadeOf(aug, x)
  BY DEF MadeOf
<1>3. ASSUME NEW x \in DOMAIN aug PROVE HasReads(aug, MadeOf(aug, x))
  BY DEF MadeOf, HasReads
<1>4. U \subseteq MadeOf(aug, r)
  <2>1. ASSUME NEW y \in reads, NEW x \in MadeOf(aug, y) PROVE x \in MadeOf(aug, r)
    <3>1. x \in DOMAIN aug
      BY <2>1, <1>1, <1>2
    <3>2. ASSUME NEW C \in SUBSET DOMAIN aug, r \in C, HasReads(aug, C) PROVE x \in C
      <4>1. y \in C
        BY <3>2 DEF HasReads
      <4> QED  BY <4>1, <3>2, <2>1 DEF MadeOf
    <3> QED  BY <3>1, <3>2 DEF MadeOf
  <2> HIDE DEF reads
  <2> QED  BY <2>1, <1>2
<1>5. MadeOf(aug, r) \subseteq U
  <2>1. U \subseteq DOMAIN aug /\ r \in U
    BY <1>1, <1>2
  <2>2. ASSUME NEW x \in U PROVE ToSet(aug[x].dependsOn) \subseteq U
    <3>1. CASE x = r
      BY <3>1, <1>1, <1>2
    <3>2. CASE x # r
      <4>1. PICK y \in reads : x \in MadeOf(aug, y)
        BY <3>2
      <4>2. ToSet(aug[x].dependsOn) \subseteq MadeOf(aug, y)
        BY <4>1, <1>1, <1>3 DEF HasReads
      <4> QED  BY <4>1, <4>2
    <3> QED  BY <3>1, <3>2
  <2> HIDE DEF U
  <2>3. HasReads(aug, U)
    BY <2>2 DEF HasReads
  <2> QED  BY <2>1, <2>3 DEF MadeOf
<1> QED  BY <1>3, <1>4, <1>5

LEMMA ToSetOfJoin ==
  ASSUME NEW X, NEW s \in Seq(X), NEW t \in Seq(X)
  PROVE  /\ s \o t \in Seq(X) /\ Len(s \o t) = Len(s) + Len(t)
         /\ \A i \in 1..Len(s) : (s \o t)[i] = s[i]
         /\ \A i \in 1..Len(t) : (s \o t)[Len(s) + i] = t[i]
         /\ ToSet(s \o t) = ToSet(s) \cup ToSet(t)
<1> DEFINE u == s \o t
<1>1. /\ u \in Seq(X) /\ Len(u) = Len(s) + Len(t) /\ Len(s) \in Nat /\ Len(t) \in Nat
      /\ \A i \in 1..Len(s) : u[i] = s[i]
      /\ \A i \in 1..Len(t) : u[Len(s) + i] = t[i]
  OBVIOUS
<1> HIDE DEF u
<1>2. /\ ToSet(s) = {s[i] : i \in 1..Len(s)} /\ ToSet(t) = {t[i] : i \in 1..Len(t)}
      /\ ToSet(u) = {u[i] : i \in 1..Len(u)}
  BY <1>1 DEF ToSet
<1>3. \A i \in 1..Len(u) : i \in 1..Len(s) \/ i - Len(s) \in 1..Len(t)
  BY <1>1
<1>4. ASSUME NEW i \in 1..Len(u) PROVE u[i] \in ToSet(s) \cup ToSet(t)
  <2>1. CASE i \in 1..Len(s)
    BY <2>1, <1>1, <1>2
  <2>2. CASE i - Len(s) \in 1..Len(t)
    <3>1. u[Len(s) + (i - Len(s))] = t[i - Len(s)] /\ Len(s) + (i - Len(s)) = i
      BY <2>2, <1>1
    <3> QED  BY <3>1, <2>2, <1>2
  <2> QED  BY <2>1, <2>2, <1>3
<1>5. \A i \in 1..Len(s) : i \in 1..Len(u)
  BY <1>1
<1>6. \A i \in 1..Len(t) : Len(s) + i \in 1..Len(u)
  BY <1>1
<1>7. ToSet(s) \subseteq ToSet(u)
  BY <1>1, <1>2, <1>5
<1>8. ToSet(t) \subseteq ToSet(u)
  BY <1>1, <1>2, <1>6
<1>9. ToSet(u) \subseteq ToSet(s) \cup ToSet(t)
  BY <1>2, <1>4
<1> QED  BY <1>1, <1>7, <1>8, <1>9 DEF u

Shipped(output, r, owner, results) ==
  [i \in DOMAIN results |->
     Distribution(results[i].relationName, results[i].dbId, owner, r, output)]

ListsOf(results) == [i \in DOMAIN results |-> results[i].list]

LEMMA ListOfDerivedIs ==
  ASSUME NEW results \in Seq(Results), NEW r \in AllNames, NEW output \in AllNames, NEW owner \in Db
  PROVE  /\ ListsOf(results) \in Seq(Seq(DistributionSet)) /\ Len(ListsOf(results)) = Len(results)
         /\ \A i \in 1..Len(results) : ListsOf(results)[i] = results[i].list
         /\ Concatenation(ListsOf(results)) \in Seq(DistributionSet)
         /\ Shipped(output, r, owner, results) \in Seq(DistributionSet)
         /\ Len(Shipped(output, r, owner, results)) = Len(results)
         /\ \A i \in 1..Len(results) : Shipped(output, r, owner, results)[i] =
              Distribution(results[i].relationName, results[i].dbId, owner, r, output)
         /\ ListOfDerived(output, r, owner, results)
              = Concatenation(ListsOf(results)) \o Shipped(output, r, owner, results)
<1> DEFINE n  == Len(results)
           ls == ListsOf(results)
           sh == Shipped(output, r, owner, results)
           ones == [i \in DOMAIN results |->
                      IF results[i].dbId = NoDb THEN <<>>
                      ELSE <<Distribution(results[i].relationName, results[i].dbId, owner, r, output)>>]
<1>1. /\ n \in Nat /\ DOMAIN results = 1..n
      /\ \A i \in 1..n : /\ results[i].list \in Seq(DistributionSet) /\ results[i].dbId \in Db
                         /\ results[i].relationName \in AllNames
  <2>1. n \in Nat /\ DOMAIN results = 1..n /\ \A i \in 1..n : results[i] \in Results
    OBVIOUS
  <2> QED  BY <2>1 DEF Results
<1>2. /\ ls \in [1..n -> Seq(DistributionSet)] /\ \A i \in 1..n : ls[i] = results[i].list
  BY <1>1 DEF ListsOf
<1>3. \A i \in 1..n :
        Distribution(results[i].relationName, results[i].dbId, owner, r, output) \in DistributionSet
  BY <1>1 DEF Distribution, DistributionSet
<1>4. /\ sh \in [1..n -> DistributionSet]
      /\ \A i \in 1..n : sh[i] = Distribution(results[i].relationName, results[i].dbId, owner, r, output)
  BY <1>1, <1>3 DEF Shipped
<1>5. ListOfDerived(output, r, owner, results) = Concatenation(ls) \o Concatenation(ones)
  BY DEF ListOfDerived, ListsOf
<1> HIDE DEF ls, sh
<1>6. /\ ls \in Seq(Seq(DistributionSet)) /\ Len(ls) = n
      /\ sh \in Seq(DistributionSet) /\ Len(sh) = n /\ DOMAIN sh = 1..n
  <2>1. \A X, f : f \in [1..n -> X] => f \in Seq(X) /\ Len(f) = n /\ DOMAIN f = 1..n
    BY <1>1
  <2> HIDE DEF n
  <2> QED  BY <2>1, <1>2, <1>4
<1>7. ones = [i \in DOMAIN sh |-> <<sh[i]>>]
  <2>1. ASSUME NEW i \in 1..n
        PROVE  (IF results[i].dbId = NoDb THEN <<>>
                ELSE <<Distribution(results[i].relationName, results[i].dbId, owner, r, output)>>)
                 = <<sh[i]>>
    BY <1>1, <1>4, PlanAssumption
  <2> QED  BY <2>1, <1>1, <1>6
<1>8. Concatenation(ones) = sh
  <2> HIDE DEF ones
  <2> QED  BY <1>6, <1>7, ConcatenationOfOnes
<1>9. Concatenation(ls) \in Seq(DistributionSet)
  BY <1>6, ConcatenationIs
<1> QED  BY <1>2, <1>4, <1>5, <1>6, <1>8, <1>9 DEF ls, sh

IdsOf(results) == [i \in DOMAIN results |-> results[i].dbId]

LEMMA ResultOfDerivedIs ==
  ASSUME NEW results \in Seq(Results), NEW r \in AllNames, NEW output \in AllNames, NEW type
  PROVE  LET owner  == SelectRelationEvalOwner(IdsOf(results))
             list   == ListOfDerived(output, r, owner, results)
             result == ResultOfDerived(output, r, type, results)
         IN  /\ owner \in Db /\ result \in Results /\ result.relationName = r
             /\ result.dbId = PlaceAt(type, owner).dbId /\ result.fromDbId = owner
             /\ list \in Seq(DistributionSet)
             /\ result.list = IF type \in {"EventView", "Output"}
                              THEN Append(list, Distribution(r, owner, LocalDbId, r, output))
                              ELSE list
<1> DEFINE owner  == SelectRelationEvalOwner(IdsOf(results))
           list   == ListOfDerived(output, r, owner, results)
           result == ResultOfDerived(output, r, type, results)
           more   == Append(list, Distribution(r, owner, LocalDbId, r, output))
<1>1. IdsOf(results) \in Seq(Db)
  <2>0. \A i \in 1..Len(results) : results[i] \in Results
    OBVIOUS
  <2>1. \A i \in 1..Len(results) : results[i].dbId \in Db
    BY <2>0 DEF Results
  <2> QED  BY <2>1 DEF IdsOf
<1>2. owner \in Db
  BY <1>1, OwnerIsDb
<1>3. result = IF type \in {"EventView", "Output"} THEN Result(r, more, LocalDbId, owner)
               ELSE Result(r, list, owner, owner)
  BY DEF ResultOfDerived, IdsOf
<1> HIDE DEF owner
<1>4. list \in Seq(DistributionSet)
  <2>1. /\ Concatenation(ListsOf(results)) \in Seq(DistributionSet)
        /\ Shipped(output, r, owner, results) \in Seq(DistributionSet)
        /\ list = Concatenation(ListsOf(results)) \o Shipped(output, r, owner, results)
    BY <1>2, ListOfDerivedIs
  <2> HIDE DEF list
  <2> QED  BY <2>1
<1> HIDE DEF list, result
<1>5. Distribution(r, owner, LocalDbId, r, output) \in DistributionSet
  BY <1>2, PlanAssumption DEF Distribution, DistributionSet
<1>6. more \in Seq(DistributionSet)
  BY <1>4, <1>5
<1> HIDE DEF more
<1>7. /\ result \in Results /\ result.relationName = r
      /\ result.dbId = PlaceAt(type, owner).dbId /\ result.fromDbId = owner
      /\ result.list = IF type \in {"EventView", "Output"} THEN more ELSE list
  BY <1>2, <1>3, <1>4, <1>6, PlanAssumption DEF Result, Results, PlaceAt
<1> QED  BY <1>2, <1>4, <1>7 DEF owner, list, result, more

\* The results of what r reads, in their order.
ResultsOf(aug, r, f) ==
  Concatenation([i \in DOMAIN aug[r].dependsOn |->
    <<IF aug[r].dependsOn[i] \in DOMAIN aug THEN f[aug[r].dependsOn[i]]
      ELSE NoResult(aug[r].dependsOn[i])>>])

LEMMA ResultsOfIs ==
  ASSUME NEW aug, NEW r \in DOMAIN aug, aug[r].dependsOn \in Seq(DOMAIN aug),
         NEW T, NEW f \in [DOMAIN aug -> T]
  PROVE  /\ ResultsOf(aug, r, f) = [i \in DOMAIN aug[r].dependsOn |-> f[aug[r].dependsOn[i]]]
         /\ ResultsOf(aug, r, f) \in Seq(T)
<1> DEFINE deps == aug[r].dependsOn
           s    == [i \in DOMAIN deps |-> f[deps[i]]]
<1>1. DOMAIN deps = 1..Len(deps) /\ Len(deps) \in Nat /\ \A i \in DOMAIN deps : deps[i] \in DOMAIN aug
  OBVIOUS
<1>2. s \in Seq(T) /\ DOMAIN s = DOMAIN deps
  BY <1>1
<1>3. [i \in DOMAIN deps |-> <<IF deps[i] \in DOMAIN aug THEN f[deps[i]] ELSE NoResult(deps[i])>>]
        = [i \in DOMAIN s |-> <<s[i]>>]
  BY <1>1
<1>4. ResultsOf(aug, r, f) = Concatenation([i \in DOMAIN s |-> <<s[i]>>])
  BY <1>3 DEF ResultsOf
<1> HIDE DEF s
<1>5. ResultsOf(aug, r, f) = s
  BY <1>2, <1>4, ConcatenationOfOnes
<1> QED  BY <1>2, <1>5 DEF s

LEMMA OwnFirstJoin ==
  ASSUME NEW a, NEW X, NEW c \in Seq(X), NEW s \in Seq(X), OwnFirst(a, c),
         \A d \in ToSet(s) : TypeOf(a, d.relationName) # "View" =>
           \/ d.relationName = d.forRelationName
           \/ \E e \in ToSet(c) : /\ e.relationName = d.relationName
                                  /\ e.forRelationName = d.relationName
  PROVE  OwnFirst(a, c \o s)
<1> DEFINE l == c \o s
<1>1. /\ l \in Seq(X) /\ Len(l) = Len(c) + Len(s) /\ Len(c) \in Nat /\ Len(s) \in Nat
      /\ \A i \in 1..Len(c) : l[i] = c[i]
      /\ \A i \in 1..Len(s) : l[Len(c) + i] = s[i]
  OBVIOUS
<1> HIDE DEF l
<1>2. /\ ToSet(s) = {s[i] : i \in 1..Len(s)} /\ ToSet(c) = {c[i] : i \in 1..Len(c)}
      /\ DOMAIN l = 1..Len(l) /\ DOMAIN c = 1..Len(c)
  BY <1>1 DEF ToSet
<1>3. \A i \in 1..Len(l) : i \in 1..Len(c) \/ (i - Len(c) \in 1..Len(s) /\ i = Len(c) + (i - Len(c)))
  BY <1>1
<1>4. ASSUME NEW i \in 1..Len(l), TypeOf(a, l[i].relationName) # "View"
      PROVE  \/ l[i].relationName = l[i].forRelationName
             \/ \E j \in 1..(i - 1) : /\ l[j].relationName = l[i].relationName
                                      /\ l[j].forRelationName = l[i].relationName
  <2>1. CASE i \in 1..Len(c)
    <3>1. l[i] = c[i]
      BY <2>1, <1>1
    <3>2. \/ c[i].relationName = c[i].forRelationName
          \/ \E j \in 1..(i - 1) : /\ c[j].relationName = c[i].relationName
                                   /\ c[j].forRelationName = c[i].relationName
      BY <2>1, <1>2, <1>4, <3>1 DEF OwnFirst
    <3>3. \A j \in 1..(i - 1) : l[j] = c[j]
      <4>1. \A j \in 1..(i - 1) : j \in 1..Len(c)
        BY <2>1, <1>1
      <4> QED  BY <4>1, <1>1
    <3> QED  BY <3>1, <3>2, <3>3
  <2>2. CASE i - Len(c) \in 1..Len(s) /\ i = Len(c) + (i - Len(c))
    <3>1. l[i] = s[i - Len(c)] /\ s[i - Len(c)] \in ToSet(s)
      BY <2>2, <1>1, <1>2
    <3>2. CASE \E e \in ToSet(c) : /\ e.relationName = l[i].relationName
                                   /\ e.forRelationName = l[i].relationName
      <4>1. PICK j \in 1..Len(c) : /\ c[j].relationName = l[i].relationName
                                   /\ c[j].forRelationName = l[i].relationName
        BY <3>2, <1>2
      <4>2. j \in 1..(i - 1) /\ l[j] = c[j]
        BY <2>2, <1>1
      <4> QED  BY <4>1, <4>2
    <3> QED  BY <3>1, <3>2, <1>4
  <2> QED  BY <2>1, <2>2, <1>3
<1> QED  BY <1>2, <1>4 DEF OwnFirst, l

LEMMA OwnFirstConcatenation ==
  ASSUME NEW a, NEW X, NEW seqs \in Seq(Seq(X)), \A i \in 1..Len(seqs) : OwnFirst(a, seqs[i])
  PROVE  OwnFirst(a, Concatenation(seqs))
<1> DEFINE c == Concatenation(seqs)
           n == Len(seqs)
<1>1. c \in Seq(X) /\ \E at : Blocks(c, seqs, at, n)
  BY ConcatenationIs
<1> HIDE DEF c
<1>2. PICK at : Blocks(c, seqs, at, n)
  BY <1>1
<1>3. n \in Nat /\ DOMAIN c = 1..Len(c) /\ \A i \in 1..n : DOMAIN seqs[i] = 1..Len(seqs[i]) /\ Len(seqs[i]) \in Nat
  BY <1>1
<1>4. ASSUME NEW k \in 1..Len(c), TypeOf(a, c[k].relationName) # "View"
      PROVE  \/ c[k].relationName = c[k].forRelationName
             \/ \E j \in 1..(k - 1) : /\ c[j].relationName = c[k].relationName
                                      /\ c[j].forRelationName = c[k].relationName
  <2>1. PICK i \in 1..n : \E j \in 1..Len(seqs[i]) : k = at[i] + j
    BY <1>2 DEF Blocks
  <2>2. PICK j \in 1..Len(seqs[i]) : k = at[i] + j
    BY <2>1
  <2>3. at[i] \in Nat /\ \A m \in 1..Len(seqs[i]) : c[at[i] + m] = seqs[i][m]
    BY <1>2 DEF Blocks
  <2>4. c[k] = seqs[i][j] /\ j \in DOMAIN seqs[i]
    BY <2>2, <2>3, <1>3
  <2>5. CASE \E m \in 1..(j - 1) : /\ seqs[i][m].relationName = c[k].relationName
                                   /\ seqs[i][m].forRelationName = c[k].relationName
    <3>1. PICK m \in 1..(j - 1) : /\ seqs[i][m].relationName = c[k].relationName
                                  /\ seqs[i][m].forRelationName = c[k].relationName
      BY <2>5
    <3>2. m \in 1..Len(seqs[i]) /\ at[i] + m \in 1..(k - 1)
      <4>1. Len(seqs[i]) \in Nat /\ at[i] \in Nat
        BY <2>3, <1>3
      <4>2. \A x, y \in Nat : \A w \in 1..y : \A z \in 1..(w - 1) :
              z \in 1..y /\ x + z \in 1..((x + w) - 1)
        OBVIOUS
      <4> QED  BY <4>1, <4>2, <2>2
    <3>3. c[at[i] + m] = seqs[i][m]
      BY <2>3, <3>2
    <3> QED  BY <3>1, <3>2, <3>3
  <2>6. \/ seqs[i][j].relationName = seqs[i][j].forRelationName
        \/ \E m \in 1..(j - 1) : /\ seqs[i][m].relationName = seqs[i][j].relationName
                                 /\ seqs[i][m].forRelationName = seqs[i][j].relationName
    BY <2>4, <1>4 DEF OwnFirst
  <2> QED  BY <2>4, <2>5, <2>6
<1> QED  BY <1>3, <1>4 DEF OwnFirst, c

LEMMA TableFound ==
  ASSUME NEW a, NEW aug, NEW n, NEW rank, NEW place, Setting(a, aug, n, rank, place),
         NEW output \in AllNames, NEW r \in DOMAIN aug, aug[r].dependsOn = <<>>
  PROVE  Found(a, aug, place, output, r, ResultOfTable(output, r, aug[r].remoteId))
<1> DEFINE result == ResultOfTable(output, r, aug[r].remoteId)
           own    == Distribution(r, aug[r].remoteId, aug[r].remoteId, r, output)
<1>1. /\ r \in AllNames /\ TypeOf(a, r) \notin {"View", "EventView", "Output"}
      /\ place[r] = PlaceAt(TypeOf(a, r), OwnerIn(aug, place, r)) /\ place[r] \in Places
  BY DEF Setting
<1>2. place[r].dbId = aug[r].remoteId /\ place[r].fromDbId = aug[r].remoteId
  BY <1>1 DEF PlaceAt, OwnerIn
<1>3. aug[r].remoteId \in Db
  BY <1>1, <1>2 DEF Places
<1>4. own \in DistributionSet /\ own = OwnOf(place, output, r) /\ own.relationName = own.forRelationName
  BY <1>1, <1>2, <1>3 DEF Distribution, DistributionSet, OwnOf
<1> HIDE DEF own
<1>5. result = [relationName |-> r, list |-> <<own>>, dbId |-> aug[r].remoteId, fromDbId |-> aug[r].remoteId]
  BY DEF ResultOfTable, Result, own
<1>6. <<own>> \in Seq(DistributionSet) /\ ToSet(<<own>>) = {own}
  BY <1>4 DEF ToSet
<1> HIDE DEF result
<1>7. result \in Results
  BY <1>1, <1>3, <1>5, <1>6 DEF Results
<1>8. ToSet(aug[r].dependsOn) = {}
  BY DEF ToSet
<1>9. MadeOf(aug, r) = {r}
  <2>1. HasReads(aug, {r}) /\ {r} \in SUBSET DOMAIN aug
    BY <1>8 DEF HasReads
  <2> QED  BY <2>1 DEF MadeOf
<1>10. Needs(a, aug, place, output, r) = {own}
  BY <1>1, <1>4, <1>8 DEF Needs
<1>11. ToSet(result.list) = NeededBy(a, aug, place, output, r)
  BY <1>5, <1>6, <1>9, <1>10 DEF NeededBy
<1>12. OwnFirst(a, result.list)
  BY <1>4, <1>5 DEF OwnFirst
<1> QED  BY <1>2, <1>5, <1>7, <1>11, <1>12 DEF Found, result

LEMMA DerivedFound ==
  ASSUME NEW a, NEW aug, NEW n, NEW rank, NEW place, Setting(a, aug, n, rank, place),
         NEW output \in AllNames, NEW r \in DOMAIN aug, aug[r].dependsOn # <<>>,
         NEW f \in [DOMAIN aug -> Results],
         \A y \in ToSet(aug[r].dependsOn) : Found(a, aug, place, output, y, f[y])
  PROVE  Found(a, aug, place, output, r,
               ResultOfDerived(output, r, TypeOf(a, r), ResultsOf(aug, r, f)))
<1> DEFINE deps    == aug[r].dependsOn
           m       == Len(deps)
           type    == TypeOf(a, r)
           results == ResultsOf(aug, r, f)
           owner   == SelectRelationEvalOwner(IdsOf(results))
           ls      == ListsOf(results)
           sh      == Shipped(output, r, owner, results)
           both    == Concatenation(ls) \o sh
           result  == ResultOfDerived(output, r, type, results)
           own     == Distribution(r, owner, LocalDbId, r, output)
<1>1. /\ DOMAIN aug \subseteq AllNames /\ deps \in Seq(DOMAIN aug)
      /\ place \in [DOMAIN aug -> Places]
      /\ place[r] = PlaceAt(type, OwnerIn(aug, place, r))
  BY DEF Setting
<1>2. /\ m \in Nat /\ DOMAIN deps = 1..m /\ \A i \in 1..m : deps[i] \in DOMAIN aug
      /\ ToSet(deps) = {deps[i] : i \in 1..m}
  BY <1>1 DEF ToSet
<1>3. results = [i \in DOMAIN deps |-> f[deps[i]]] /\ results \in Seq(Results)
  BY <1>1, ResultsOfIs
<1> HIDE DEF results
<1>4. DOMAIN results = 1..m /\ Len(results) = m /\ \A i \in 1..m : results[i] = f[deps[i]]
  BY <1>2, <1>3
<1>5. \A i \in 1..m : Found(a, aug, place, output, deps[i], results[i])
  BY <1>2, <1>4
<1>6. \A i \in 1..m : /\ results[i].relationName = deps[i]
                      /\ results[i].dbId = place[deps[i]].dbId
                      /\ ToSet(results[i].list) = NeededBy(a, aug, place, output, deps[i])
                      /\ OwnFirst(a, results[i].list)
  BY <1>5 DEF Found
<1>7. owner = OwnerIn(aug, place, r)
  <2>1. IdsOf(results) = [i \in DOMAIN deps |-> place[deps[i]].dbId]
    BY <1>2, <1>4, <1>6 DEF IdsOf
  <2> QED  BY <2>1 DEF OwnerIn
<1>8. /\ owner \in Db /\ result \in Results /\ result.relationName = r
      /\ result.dbId = place[r].dbId /\ result.fromDbId = owner /\ place[r].fromDbId = owner
      /\ result.list = IF type \in {"EventView", "Output"}
                       THEN Append(ListOfDerived(output, r, owner, results), own)
                       ELSE ListOfDerived(output, r, owner, results)
  <2>1. r \in AllNames
    BY <1>1
  <2>2. /\ owner \in Db /\ result \in Results /\ result.relationName = r
        /\ result.dbId = PlaceAt(type, owner).dbId /\ result.fromDbId = owner
        /\ result.list = IF type \in {"EventView", "Output"}
                         THEN Append(ListOfDerived(output, r, owner, results), own)
                         ELSE ListOfDerived(output, r, owner, results)
    <3> HIDE DEF type
    <3> QED  BY <2>1, <1>3, ResultOfDerivedIs
  <2>3. place[r] = PlaceAt(type, owner)
    BY <1>1, <1>7
  <2>4. PlaceAt(type, owner).fromDbId = owner
    BY DEF PlaceAt
  <2> QED  BY <2>2, <2>3, <2>4
<1> HIDE DEF owner, result
<1>9. /\ ls \in Seq(Seq(DistributionSet)) /\ Len(ls) = m
      /\ \A i \in 1..m : ls[i] = results[i].list
      /\ Concatenation(ls) \in Seq(DistributionSet)
      /\ sh \in Seq(DistributionSet) /\ Len(sh) = m
      /\ \A i \in 1..m : sh[i] =
           Distribution(results[i].relationName, results[i].dbId, owner, r, output)
      /\ ListOfDerived(output, r, owner, results) = both
  <2>1. r \in AllNames
    BY <1>1
  <2>2. /\ ls \in Seq(Seq(DistributionSet)) /\ Len(ls) = Len(results)
        /\ \A i \in 1..Len(results) : ls[i] = results[i].list
        /\ Concatenation(ls) \in Seq(DistributionSet)
        /\ sh \in Seq(DistributionSet) /\ Len(sh) = Len(results)
        /\ \A i \in 1..Len(results) : sh[i] =
             Distribution(results[i].relationName, results[i].dbId, owner, r, output)
        /\ ListOfDerived(output, r, owner, results) = Concatenation(ls) \o sh
    <3>1. results \in Seq(Results) /\ owner \in Db
      BY <1>3, <1>8
    <3> QED  BY <2>1, <3>1, ListOfDerivedIs
  <2> HIDE DEF ls, sh, m
  <2> QED  BY <2>2, <1>4
<1> HIDE DEF ls, sh
<1>10. ToSet(Concatenation(ls)) = UNION {NeededBy(a, aug, place, output, y) : y \in ToSet(deps)}
  <2>1. /\ \A i \in 1..m : ToSet(ls[i]) \subseteq ToSet(Concatenation(ls))
        /\ \A x \in ToSet(Concatenation(ls)) : \E i \in 1..m : x \in ToSet(ls[i])
    BY <1>9, ConcatenationHas
  <2>2. \A i \in 1..m : ToSet(ls[i]) = NeededBy(a, aug, place, output, deps[i])
    BY <1>6, <1>9
  <2>3. ASSUME NEW x PROVE x \in ToSet(Concatenation(ls)) <=> \E i \in 1..m : x \in NeededBy(a, aug, place, output, deps[i])
    BY <2>1, <2>2
  <2> HIDE DEF m
  <2> QED  BY <2>3, <1>2
<1>11. ToSet(sh) = {ShipOf(place, output, y, r) : y \in ToSet(deps)}
  <2>1. \A i \in 1..m : sh[i] = ShipOf(place, output, deps[i], r)
    BY <1>6, <1>8, <1>9 DEF ShipOf
  <2>2. ToSet(sh) = {sh[i] : i \in 1..m}
    BY <1>9 DEF ToSet
  <2> HIDE DEF m
  <2> QED  BY <2>1, <2>2, <1>2
<1>12. /\ both \in Seq(DistributionSet) /\ ToSet(both) = ToSet(Concatenation(ls)) \cup ToSet(sh)
  BY <1>9, ToSetOfJoin
<1>13. \A y \in DOMAIN aug : y \in MadeOf(aug, y)
  BY DEF MadeOf
<1>14. OwnFirst(a, both)
  <2>1. OwnFirst(a, Concatenation(ls))
    <3>1. \A i \in 1..Len(ls) : OwnFirst(a, ls[i])
      BY <1>6, <1>9
    <3> QED  BY <3>1, <1>9, OwnFirstConcatenation
  <2>2. ASSUME NEW d \in ToSet(sh), TypeOf(a, d.relationName) # "View"
        PROVE  \E e \in ToSet(Concatenation(ls)) : /\ e.relationName = d.relationName
                                                   /\ e.forRelationName = d.relationName
    <3>1. PICK y \in ToSet(deps) : d = ShipOf(place, output, y, r)
      BY <1>11
    <3>2. d.relationName = y
      BY <3>1 DEF ShipOf, Distribution
    <3>3. OwnOf(place, output, y) \in Needs(a, aug, place, output, y)
      BY <2>2, <3>2 DEF Needs
    <3>4. y \in DOMAIN aug
      BY <1>2
    <3>5. OwnOf(place, output, y) \in NeededBy(a, aug, place, output, y)
      BY <3>3, <3>4, <1>13 DEF NeededBy
    <3>6. OwnOf(place, output, y) \in ToSet(Concatenation(ls))
      BY <3>5, <1>10
    <3>7. OwnOf(place, output, y).relationName = y /\ OwnOf(place, output, y).forRelationName = y
      BY DEF OwnOf, Distribution
    <3> QED  BY <3>2, <3>6, <3>7
  <2> QED  BY <2>1, <2>2, <1>9, OwnFirstJoin
<1>15. /\ result.list \in Seq(DistributionSet) /\ OwnFirst(a, result.list)
       /\ ToSet(result.list) = ToSet(both) \cup (IF type = "View" THEN {} ELSE {OwnOf(place, output, r)})
  <2> HIDE DEF both
  <2>1. type \in {"View", "EventView", "Output"}
    <3>1. TypeOf(a, r) \in {"View", "EventView", "Output"}
      BY DEF Setting
    <3> QED  BY <3>1
  <2>2. CASE type = "View"
    BY <2>2, <1>8, <1>9, <1>12, <1>14
  <2>3. CASE type \in {"EventView", "Output"}
    <3>1. own = OwnOf(place, output, r)
      <4>1. place[r].dbId = LocalDbId
        BY <2>3, <1>1 DEF PlaceAt
      <4> QED  BY <4>1, <1>8 DEF OwnOf
    <3>2. own \in DistributionSet /\ own.relationName = own.forRelationName
      BY <1>1, <1>8, PlanAssumption DEF Distribution, DistributionSet
    <3> HIDE DEF own
    <3>3. /\ <<own>> \in Seq(DistributionSet) /\ ToSet(<<own>>) = {own}
          /\ Append(both, own) = both \o <<own>>
      BY <3>2, <1>12 DEF ToSet
    <3> DEFINE one == <<own>>
    <3>4. result.list = both \o one
      BY <2>3, <3>3, <1>8, <1>9
    <3>a. one \in Seq(DistributionSet) /\ ToSet(one) = {own}
      BY <3>3
    <3> HIDE DEF one
    <3>5. both \o one \in Seq(DistributionSet) /\ ToSet(both \o one) = ToSet(both) \cup {own}
      BY <3>a, <1>12, ToSetOfJoin
    <3>6. OwnFirst(a, both \o one)
      <4>1. \A d \in ToSet(one) : TypeOf(a, d.relationName) # "View" =>
              \/ d.relationName = d.forRelationName
              \/ \E e \in ToSet(both) : /\ e.relationName = d.relationName
                                        /\ e.forRelationName = d.relationName
        BY <3>2, <3>a
      <4> QED  BY <4>1, <3>a, <1>12, <1>14, OwnFirstJoin
    <3> QED  BY <2>3, <3>1, <3>4, <3>5, <3>6
  <2> QED  BY <2>1, <2>2, <2>3
<1>16. ToSet(result.list) = NeededBy(a, aug, place, output, r)
  <2>1. \A x \in DOMAIN aug : ToSet(aug[x].dependsOn) \subseteq DOMAIN aug
    <3>1. ASSUME NEW x \in DOMAIN aug PROVE ToSet(aug[x].dependsOn) \subseteq DOMAIN aug
      <4>1. aug[x].dependsOn \in Seq(DOMAIN aug)
        BY DEF Setting
      <4> QED  BY <4>1 DEF ToSet
    <3> QED  BY <3>1
  <2>2. MadeOf(aug, r) = {r} \cup UNION {MadeOf(aug, y) : y \in ToSet(deps)}
    BY <2>1, MadeOfIs
  <2>3. NeededBy(a, aug, place, output, r)
          = Needs(a, aug, place, output, r)
            \cup UNION {NeededBy(a, aug, place, output, y) : y \in ToSet(deps)}
    <3> HIDE DEF deps
    <3> QED  BY <2>2 DEF NeededBy
  <2>4. Needs(a, aug, place, output, r)
          = {ShipOf(place, output, y, r) : y \in ToSet(deps)}
            \cup (IF type = "View" THEN {} ELSE {OwnOf(place, output, r)})
    BY DEF Needs
  <2> HIDE DEF both, type, deps
  <2> QED  BY <2>3, <2>4, <1>10, <1>11, <1>12, <1>15
<1>17. Found(a, aug, place, output, r, result)
  BY <1>8, <1>15, <1>16 DEF Found
<1> QED  BY <1>17 DEF result, type, results

EvalOf(a, aug, output, r, f) ==
  IF aug[r].dependsOn = <<>> THEN ResultOfTable(output, r, aug[r].remoteId)
  ELSE ResultOfDerived(output, r, TypeOf(a, r), ResultsOf(aug, r, f))

LEMMA EvaluationSolves ==
  ASSUME NEW a, NEW aug, NEW n \in Nat, NEW rank, NEW place, Setting(a, aug, n, rank, place),
         NEW output \in AllNames
  PROVE  LET f == Evaluation(a, aug, output)
         IN  f \in [DOMAIN aug -> Results] /\ \A r \in DOMAIN aug : f[r] = EvalOf(a, aug, output, r, f)
<1> DEFINE D    == DOMAIN aug
           G    == [D -> Results]
           step == [r \in D |-> [f \in G |-> EvalOf(a, aug, output, r, f)]]
           none == Result(output, <<>>, LocalDbId, LocalDbId)
           F    == CHOOSE f : f = [r \in D |-> EvalOf(a, aug, output, r, f)]
<1>1. /\ D \subseteq AllNames /\ \A r \in D : aug[r].dependsOn \in Seq(D)
      /\ rank \in [D -> 0..n]
      /\ \A r \in D : \A y \in ToSet(aug[r].dependsOn) : rank[y] < rank[r]
  BY DEF Setting
<1>2. ASSUME NEW r \in D, NEW f \in G PROVE EvalOf(a, aug, output, r, f) \in Results
  <2>1. CASE aug[r].dependsOn = <<>>
    <3>1. Found(a, aug, place, output, r, ResultOfTable(output, r, aug[r].remoteId))
      BY <2>1, TableFound
    <3> QED  BY <3>1, <2>1 DEF Found, EvalOf
  <2>2. CASE aug[r].dependsOn # <<>>
    <3>1. ResultsOf(aug, r, f) \in Seq(Results) /\ r \in AllNames
      BY <1>1, ResultsOfIs
    <3>2. ResultOfDerived(output, r, TypeOf(a, r), ResultsOf(aug, r, f)) \in Results
      BY <3>1, ResultOfDerivedIs
    <3> QED  BY <3>2, <2>2 DEF EvalOf
  <2> QED  BY <2>1, <2>2
<1>3. step \in [D -> [G -> Results]]
  BY <1>2
<1>4. ASSUME NEW r \in D, NEW f \in G, NEW g \in G, \A x \in D : rank[x] < rank[r] => f[x] = g[x]
      PROVE  step[r][f] = step[r][g]
  <2>1. EvalOf(a, aug, output, r, f) = EvalOf(a, aug, output, r, g)
    <3>1. CASE aug[r].dependsOn = <<>>
      BY <3>1 DEF EvalOf
    <3>2. CASE aug[r].dependsOn # <<>>
      <4>1. /\ ResultsOf(aug, r, f) = [i \in DOMAIN aug[r].dependsOn |-> f[aug[r].dependsOn[i]]]
            /\ ResultsOf(aug, r, g) = [i \in DOMAIN aug[r].dependsOn |-> g[aug[r].dependsOn[i]]]
        <5>0. aug[r].dependsOn \in Seq(DOMAIN aug)
          BY <1>1
        <5>1. /\ ResultsOf(aug, r, f) = [i \in DOMAIN aug[r].dependsOn |-> f[aug[r].dependsOn[i]]]
              /\ ResultsOf(aug, r, f) \in Seq(Results)
          BY <5>0, ResultsOfIs
        <5>2. /\ ResultsOf(aug, r, g) = [i \in DOMAIN aug[r].dependsOn |-> g[aug[r].dependsOn[i]]]
              /\ ResultsOf(aug, r, g) \in Seq(Results)
          BY <5>0, ResultsOfIs
        <5> QED  BY <5>1, <5>2
      <4>2. \A i \in DOMAIN aug[r].dependsOn : f[aug[r].dependsOn[i]] = g[aug[r].dependsOn[i]]
        <5>1. ASSUME NEW i \in DOMAIN aug[r].dependsOn
              PROVE  aug[r].dependsOn[i] \in D /\ aug[r].dependsOn[i] \in ToSet(aug[r].dependsOn)
          BY <1>1 DEF ToSet
        <5> QED  BY <5>1, <1>1, <1>4
      <4>3. ResultsOf(aug, r, f) = ResultsOf(aug, r, g)
        BY <4>1, <4>2
      <4> QED  BY <4>3 DEF EvalOf
    <3> QED  BY <3>1, <3>2
  <2> QED  BY <2>1
<1>5. none \in Results
  BY PlanAssumption DEF Result, Results
<1>6. Ranked(n, D, Results, rank, step)
  <2>1. OnLower(D, Results, rank, step)
    <3> HIDE DEF step
    <3> QED  BY <1>4 DEF OnLower
  <2> HIDE DEF step, D
  <2> QED  BY <2>1, <1>1, <1>3 DEF Ranked
<1>7. PICK f : Fixed(f, D, Results, step)
  <2> HIDE DEF step, D, none
  <2> QED  BY <1>5, <1>6, RecursionByRank
<1>8. f \in G /\ \A r \in D : f[r] = step[r][f]
  <2> HIDE DEF step, D
  <2> QED  BY <1>7 DEF Fixed
<1>9. f = [r \in D |-> EvalOf(a, aug, output, r, f)]
  <2>1. \A r \in D : f[r] = EvalOf(a, aug, output, r, f)
    BY <1>8
  <2> QED  BY <2>1, <1>8
<1>10. F = [r \in D |-> EvalOf(a, aug, output, r, F)]
  BY <1>9
<1>11. Evaluation(a, aug, output) = F
  BY DEF Evaluation, EvalOf, ResultsOf
<1> HIDE DEF F
<1>12. DOMAIN F = D /\ \A r \in D : F[r] = EvalOf(a, aug, output, r, F)
  BY <1>10
\* Below any rank F is f, so that it is f.
<1> DEFINE P == {i \in 0..(n + 1) : \A r \in D : rank[r] < i => F[r] = f[r]}
<1>13. 0 \in P
  BY <1>1
<1>14. ASSUME NEW i \in 1..(n + 1), i - 1 \in P PROVE i \in P
  <2> SUFFICES ASSUME NEW r \in D, rank[r] < i PROVE F[r] = f[r]
    OBVIOUS
  <2>1. \A x \in D : rank[x] < rank[r] => F[x] = f[x]
    <3>1. \A x \in D : rank[x] < rank[r] => rank[x] < i - 1
      BY <1>1
    <3> QED  BY <3>1, <1>14
  <2>2. CASE aug[r].dependsOn = <<>>
    BY <2>2, <1>9, <1>12 DEF EvalOf
  <2>3. CASE aug[r].dependsOn # <<>>
    <3>1. aug[r].dependsOn \in Seq(D)
      BY <1>1
    <3>2. \A j \in DOMAIN aug[r].dependsOn :
            aug[r].dependsOn[j] \in D /\ F[aug[r].dependsOn[j]] = f[aug[r].dependsOn[j]]
      <4>1. ASSUME NEW j \in DOMAIN aug[r].dependsOn
            PROVE  aug[r].dependsOn[j] \in D /\ aug[r].dependsOn[j] \in ToSet(aug[r].dependsOn)
        BY <3>1 DEF ToSet
      <4> QED  BY <4>1, <1>1, <2>1
    <3>3. ResultsOf(aug, r, F) = ResultsOf(aug, r, f)
      BY <3>2 DEF ResultsOf
    <3>4. EvalOf(a, aug, output, r, F) = EvalOf(a, aug, output, r, f)
      BY <3>3 DEF EvalOf
    <3> QED  BY <3>4, <1>9, <1>12
  <2> QED  BY <2>2, <2>3
<1>15. P = 0..(n + 1)
  <2> HIDE DEF P
  <2>1. P \subseteq 0..(n + 1) /\ n + 1 \in Nat
    BY DEF P
  <2> QED  BY <2>1, <1>13, <1>14, NatInd
<1>16. \A r \in D : F[r] = f[r]
  <2>1. n + 1 \in P
    <3> HIDE DEF P
    <3> QED  BY <1>15
  <2>2. \A r \in D : rank[r] < n + 1
    BY <1>1
  <2> QED  BY <2>1, <2>2
<1>17. F = f
  BY <1>8, <1>10, <1>16
<1> QED  BY <1>8, <1>9, <1>11, <1>17

LEMMA EvaluationIs ==
  ASSUME NEW a, NEW aug, NEW n \in Nat, NEW rank, NEW place, Setting(a, aug, n, rank, place),
         NEW output \in AllNames
  PROVE  \A r \in DOMAIN aug :
           Found(a, aug, place, output, r, QueryDistributionRecursiveEval(a, aug, output, r))
<1> DEFINE D == DOMAIN aug
           F == Evaluation(a, aug, output)
<1>1. F \in [D -> Results] /\ \A r \in D : F[r] = EvalOf(a, aug, output, r, F)
  BY EvaluationSolves
<1>2. \A r \in D : QueryDistributionRecursiveEval(a, aug, output, r) = F[r]
  BY DEF QueryDistributionRecursiveEval
<1> HIDE DEF F
<1>3. /\ rank \in [D -> 0..n] /\ \A r \in D : aug[r].dependsOn \in Seq(D)
      /\ \A r \in D : \A y \in ToSet(aug[r].dependsOn) : rank[y] < rank[r]
  BY DEF Setting
<1> DEFINE Good(r) == Found(a, aug, place, output, r, F[r])
           P == {i \in 0..(n + 1) : \A r \in D : rank[r] < i => Good(r)}
<1>4. 0 \in P
  BY <1>3
<1>5. ASSUME NEW i \in 1..(n + 1), i - 1 \in P PROVE i \in P
  <2> SUFFICES ASSUME NEW r \in D, rank[r] < i PROVE Good(r)
    OBVIOUS
  <2>1. ASSUME NEW y \in ToSet(aug[r].dependsOn) PROVE Good(y)
    <3>1. y \in D /\ rank[y] < rank[r]
      <4>1. aug[r].dependsOn \in Seq(D)
        BY <1>3
      <4>2. y \in D
        BY <4>1 DEF ToSet
      <4> QED  BY <4>2, <1>3
    <3>2. rank[y] < i - 1
      BY <3>1, <1>3
    <3> QED  BY <3>1, <3>2, <1>5
  <2>2. CASE aug[r].dependsOn = <<>>
    <3>1. Found(a, aug, place, output, r, ResultOfTable(output, r, aug[r].remoteId))
      BY <2>2, TableFound
    <3> QED  BY <3>1, <2>2, <1>1 DEF EvalOf
  <2>3. CASE aug[r].dependsOn # <<>>
    <3>1. Found(a, aug, place, output, r,
                ResultOfDerived(output, r, TypeOf(a, r), ResultsOf(aug, r, F)))
      BY <2>1, <2>3, <1>1, DerivedFound
    <3> QED  BY <3>1, <2>3, <1>1 DEF EvalOf
  <2> QED  BY <2>2, <2>3
<1>6. P = 0..(n + 1)
  <2> HIDE DEF P
  <2>1. P \subseteq 0..(n + 1) /\ n + 1 \in Nat
    BY DEF P
  <2> QED  BY <2>1, <1>4, <1>5, NatInd
<1>7. \A r \in D : Good(r)
  <2>1. n + 1 \in P
    <3> HIDE DEF P
    <3> QED  BY <1>6
  <2>2. \A r \in D : rank[r] < n + 1
    BY <1>3
  <2> QED  BY <2>1, <2>2
<1> QED  BY <1>2, <1>7

-----------------------------------------------------------------------------
(***************************************************************************)
(* The programs: what a relation reads, and the tree that mirrors it, but  *)
(* for the names in D, which were taken out and are not back.              *)
(***************************************************************************)
RefsOf(a, x) == Reads(a.relations[x])

Derived(a) == OfType(a, {"View", "EventView", "Output"})

RelationTypes == {"EventTable", "Table", "ExistingAndImmutable", "View", "EventView", "Output"}

RelationSet == [rName : AllNames, relationType : RelationTypes, refs : Seq(Seq(AllNames))]

With(relations, rel) ==
  [r \in DOMAIN relations \cup {rel.rName} |-> IF r = rel.rName THEN rel ELSE relations[r]]

Mirror(a, D) ==
  LET N == DOMAIN a.depTree.node
  IN  /\ a = [relations |-> a.relations, depTree |-> a.depTree]
      /\ IsTree(a.depTree, AllNames)
      /\ N \subseteq DOMAIN a.relations \cup D
      /\ \A x \in N \cap DOMAIN a.relations : a.depTree.node[x].dependsOn = RefsOf(a, x)
      /\ \A x \in Derived(a) : x \in N /\ ToSet(RefsOf(a, x)) \subseteq N
      /\ \A x \in DOMAIN a.relations \ Derived(a) : RefsOf(a, x) = <<>>

LEMMA ReadsIs == \A rel \in RelationSet : Reads(rel) \in Seq(AllNames)
<1> SUFFICES ASSUME NEW rel \in RelationSet PROVE Reads(rel) \in Seq(AllNames)
  OBVIOUS
<1>1. rel.refs \in Seq(Seq(AllNames))
  BY DEF RelationSet
<1> DEFINE s == rel.refs
<1> HIDE DEF s
<1>2. Concatenation(s) \in Seq(AllNames)
  BY <1>1, ConcatenationIs DEF s
<1> QED  BY <1>2 DEF Reads, s

LEMMA ReadsOfNothing == ASSUME NEW rel, rel.refs = <<>> PROVE Reads(rel) = <<>>
<1> DEFINE none == <<>>
<1>1. none \in Seq(Seq(AllNames)) /\ Len(none) = 0
  OBVIOUS
<1> HIDE DEF none
<1>2. PICK f : Joins(f, none, AllNames) /\ Concatenation(none) = f[Len(none)]
  BY <1>1, ConcatenationJoins
<1>3. Concatenation(none) = <<>>
  BY <1>1, <1>2 DEF Joins
<1> QED  BY <1>3 DEF Reads, none

IsAdded(t, u, N, deps, r) ==
  /\ IsTree(u, N)
  /\ DOMAIN u.node = DOMAIN t.node \cup {r} \cup {deps[i] : i \in DOMAIN deps}
  /\ u.node[r].dependsOn = deps
  /\ \A x \in DOMAIN t.node \ {r} : u.node[x].dependsOn = t.node[x].dependsOn
  /\ \A x \in DOMAIN u.node \ (DOMAIN t.node \cup {r}) : u.node[x].dependsOn = <<>>

LEMMA AddSingleAdds ==
  ASSUME NEW N, NEW t, IsTree(t, N), NEW deps \in Seq(N), NEW r \in N, NEW dynamic
  PROVE  IsAdded(t, AddSingleDependency(t, deps, r, dynamic), N, deps, r)
<1> DEFINE u == AddSingleDependency(t, deps, r, dynamic)
<1>1. /\ IsTree(u, N)
      /\ DOMAIN u.node = DOMAIN t.node \cup {r} \cup {deps[i] : i \in DOMAIN deps}
      /\ u.node[r].dependsOn = deps /\ u.node[r].isDynamic = (r \in dynamic)
      /\ \A x \in DOMAIN t.node \ {r} : /\ u.node[x].dependsOn = t.node[x].dependsOn
                                        /\ u.node[x].isDynamic = t.node[x].isDynamic
      /\ \A x \in DOMAIN u.node \ (DOMAIN t.node \cup {r}) :
           u.node[x].dependsOn = <<>> /\ u.node[x].isDynamic = (x \in dynamic)
  BY AddSingleIs
<1> HIDE DEF u
<1>2. IsAdded(t, u, N, deps, r)
  BY <1>1 DEF IsAdded
<1> QED  BY <1>2 DEF u

LEMMA AddRelationIs ==
  ASSUME NEW a, NEW D \in SUBSET AllNames, Mirror(a, D), NEW rel \in RelationSet,
         rel.rName \notin DOMAIN a.relations,
         IF IsRelationTypeDerived(rel.relationType)
         THEN ToSet(Reads(rel)) \subseteq DOMAIN a.relations \cup D
         ELSE rel.rName \notin D /\ rel.refs = <<>>
  PROVE  LET b == AddRelation(a, rel)
         IN  /\ b.relations = With(a.relations, rel)
             /\ Mirror(b, D \ {rel.rName})
<1> DEFINE r     == rel.rName
           deps  == Reads(rel)
           rels  == With(a.relations, rel)
           added == [relations |-> rels, depTree |-> a.depTree]
           t     == a.depTree
           b     == AddRelation(a, rel)
           N     == DOMAIN t.node
<1>1. /\ a = [relations |-> a.relations, depTree |-> t]
      /\ IsTree(t, AllNames) /\ N \subseteq DOMAIN a.relations \cup D
      /\ \A x \in N \cap DOMAIN a.relations : t.node[x].dependsOn = RefsOf(a, x)
      /\ \A x \in Derived(a) : x \in N /\ ToSet(RefsOf(a, x)) \subseteq N
      /\ \A x \in DOMAIN a.relations \ Derived(a) : RefsOf(a, x) = <<>>
  BY DEF Mirror
<1>2. deps \in Seq(AllNames) /\ r \in AllNames
  BY ReadsIs DEF RelationSet
<1>3. /\ DOMAIN rels = DOMAIN a.relations \cup {r} /\ rels[r] = rel
      /\ \A x \in DOMAIN a.relations : x # r /\ rels[x] = a.relations[x]
  BY DEF With
<1>4. b = IF IsRelationTypeDerived(rel.relationType)
          THEN [relations |-> rels, depTree |-> AddSingleDependency(t, deps, r, Events(added))]
          ELSE added
  <2> DEFINE same == [a EXCEPT !.relations =
                        [x \in DOMAIN @ \cup {r} |-> IF x = r THEN rel ELSE @[x]]]
  <2>1. same = added
    BY <1>1 DEF With
  <2>2. b = IF IsRelationTypeDerived(rel.relationType)
            THEN [same EXCEPT !.depTree = AddSingleDependency(@, deps, r, Events(same))]
            ELSE same
    BY DEF AddRelation, Has
  <2> HIDE DEF same, rels
  <2> QED  BY <2>1, <2>2
<1>5. b.relations = rels
  BY <1>4
<1> HIDE DEF b, rels, added, deps
<1>6. /\ \A x \in DOMAIN a.relations : RefsOf(b, x) = RefsOf(a, x)
      /\ RefsOf(b, r) = deps
      /\ \A x \in DOMAIN a.relations : x \in Derived(b) <=> x \in Derived(a)
      /\ Derived(a) \subseteq DOMAIN a.relations /\ Derived(b) \subseteq DOMAIN a.relations \cup {r}
      /\ r \in Derived(b) <=> IsRelationTypeDerived(rel.relationType)
  BY <1>3, <1>5 DEF RefsOf, Derived, OfType, TypeOf, GetRelationDef, IsRelationTypeDerived, deps
<1>7. CASE IsRelationTypeDerived(rel.relationType)
  <2> DEFINE u == AddSingleDependency(t, deps, r, Events(added))
  <2>1. /\ IsTree(u, AllNames)
        /\ DOMAIN u.node = N \cup {r} \cup {deps[i] : i \in DOMAIN deps}
        /\ u.node[r].dependsOn = deps
        /\ \A x \in N \ {r} : u.node[x].dependsOn = t.node[x].dependsOn
        /\ \A x \in DOMAIN u.node \ (N \cup {r}) : u.node[x].dependsOn = <<>>
    <3>1. IsAdded(t, u, AllNames, deps, r)
      BY <1>1, <1>2, AddSingleAdds
    <3> HIDE DEF u
    <3> QED  BY <3>1 DEF IsAdded
  <2> HIDE DEF u
  <2>2. b = [relations |-> rels, depTree |-> u]
    BY <1>4, <1>7 DEF u
  <2>3. {deps[i] : i \in DOMAIN deps} = ToSet(deps) /\ ToSet(deps) \subseteq DOMAIN a.relations \cup D
    BY <1>7 DEF ToSet, deps
  <2>4. b = [relations |-> b.relations, depTree |-> b.depTree] /\ b.depTree = u
    BY <2>2
  <2>5. DOMAIN u.node \subseteq DOMAIN b.relations \cup (D \ {r})
    BY <2>1, <2>3, <1>1, <1>3, <1>5
  <2>6. ASSUME NEW x \in DOMAIN u.node \cap DOMAIN b.relations
        PROVE  u.node[x].dependsOn = RefsOf(b, x)
    <3>1. CASE x = r
      BY <3>1, <2>1, <1>6
    <3>2. CASE x # r /\ x \in N
      <4>1. x \in DOMAIN a.relations
        BY <3>2, <1>3, <1>5
      <4> QED  BY <4>1, <3>2, <2>1, <1>1, <1>6
    <3>3. CASE x # r /\ x \notin N
      <4>1. x \in DOMAIN a.relations /\ x \notin Derived(a)
        BY <3>3, <1>1, <1>3, <1>5
      <4> QED  BY <4>1, <3>3, <2>1, <1>1, <1>6
    <3> QED  BY <3>1, <3>2, <3>3
  <2>7. ASSUME NEW x \in Derived(b) PROVE x \in DOMAIN u.node /\ ToSet(RefsOf(b, x)) \subseteq DOMAIN u.node
    <3>1. CASE x = r
      BY <3>1, <2>1, <2>3, <1>6
    <3>2. CASE x \in DOMAIN a.relations
      BY <3>2, <2>1, <1>1, <1>6
    <3> QED  BY <3>1, <3>2, <1>6
  <2>8. \A x \in DOMAIN b.relations \ Derived(b) : RefsOf(b, x) = <<>>
    BY <1>1, <1>3, <1>5, <1>6, <1>7
  <2>9. Mirror(b, D \ {r})
    BY <2>1, <2>4, <2>5, <2>6, <2>7, <2>8 DEF Mirror
  <2> QED  BY <2>9, <1>5 DEF b, rels
<1>8. CASE ~IsRelationTypeDerived(rel.relationType)
  <2>1. b = [relations |-> rels, depTree |-> t]
    BY <1>4, <1>8 DEF added
  <2>2. b = [relations |-> b.relations, depTree |-> b.depTree] /\ b.depTree = t
    BY <2>1
  <2>3. r \notin N /\ r \notin D /\ deps = <<>>
    BY <1>1, <1>8, ReadsOfNothing DEF deps
  <2>4. N \subseteq DOMAIN b.relations \cup (D \ {r})
    BY <2>3, <1>1, <1>3, <1>5
  <2>5. \A x \in N \cap DOMAIN b.relations : t.node[x].dependsOn = RefsOf(b, x)
    BY <2>3, <1>1, <1>3, <1>5, <1>6
  <2>6. \A x \in Derived(b) : x \in N /\ ToSet(RefsOf(b, x)) \subseteq N
    BY <1>1, <1>6, <1>8
  <2>7. \A x \in DOMAIN b.relations \ Derived(b) : RefsOf(b, x) = <<>>
    BY <2>3, <1>1, <1>3, <1>5, <1>6
  <2>8. Mirror(b, D \ {r})
    BY <2>2, <2>4, <2>5, <2>6, <2>7, <1>1 DEF Mirror
  <2> QED  BY <2>8, <1>5 DEF b, rels
<1> QED  BY <1>7, <1>8

Sound(a) ==
  /\ a.relations \in [DOMAIN a.relations -> RelationSet] /\ DOMAIN a.relations \subseteq AllNames
  /\ \A x \in DOMAIN a.relations : a.relations[x].rName = x
  /\ \A x \in DOMAIN a.relations \ Derived(a) : a.relations[x].refs = <<>>
  /\ \A x \in Derived(a) : /\ x \in Evaluated /\ RefsOf(a, x) # <<>>
                           /\ ToSet(RefsOf(a, x)) \subseteq DOMAIN a.relations
  /\ OfType(a, {"ExistingAndImmutable"}) \subseteq DOMAIN RelationLocation
  /\ OfType(a, {"Output"}) \subseteq ProgramNames
  /\ \A x \in TableNames : x \in DOMAIN a.relations /\ a.relations[x] = Tables[x]
  /\ \A o \in ProgramNames : Has(a, AsyncView(o)) => o \in OfType(a, {"Output"})

\* No relation reads itself, directly or not.
RankedBy(a, n, rank) ==
  /\ rank \in [DOMAIN a.relations -> 0..n]
  /\ \A x \in DOMAIN a.relations : \A y \in ToSet(RefsOf(a, x)) : rank[y] < rank[x]

\* Where a relation is evaluated, and where its result is read.
OwnerOf(a, x, place) ==
  IF RefsOf(a, x) = <<>> THEN RemoteId(a, x)
  ELSE SelectRelationEvalOwner([i \in DOMAIN RefsOf(a, x) |-> place[RefsOf(a, x)[i]].dbId])

PlacedBy(a, place) ==
  /\ place \in [DOMAIN a.relations -> Places]
  /\ \A x \in DOMAIN a.relations : place[x] = PlaceAt(TypeOf(a, x), OwnerOf(a, x, place))

(***************************************************************************)
(* The outputs that have been split; where the definition of x is now.     *)
(***************************************************************************)
Splits(a) == {o \in OfType(a, {"Output"}) : Has(a, AsyncView(o))}

Now(a, x) == IF x \in Splits(a) THEN AsyncView(x) ELSE x

SplitsAre(a, place) ==
  \A o \in Splits(a) : /\ TypeOf(a, AsyncView(o)) = "EventView"
                       /\ RefsOf(a, o) = <<AsyncView(o), AsyncView(o)>>
                       /\ place[AsyncView(o)].fromDbId # LocalDbId

IsProgram(a, n, rank, place) ==
  /\ n \in Nat /\ Sound(a) /\ Mirror(a, {})
  /\ RankedBy(a, n, rank) /\ PlacedBy(a, place) /\ SplitsAre(a, place)

\* What a relation of a is, in b.
Extends(a, place, b, place2) ==
  /\ DOMAIN a.relations \subseteq DOMAIN b.relations
  /\ \A x \in DOMAIN a.relations : b.relations[x] = a.relations[x] /\ place2[x] = place[x]
  /\ Splits(b) \cap DOMAIN a.relations = Splits(a)

IsNew(a, rel) ==
  /\ rel \in RelationSet /\ rel.rName \notin DOMAIN a.relations
  /\ IF IsRelationTypeDerived(rel.relationType)
     THEN rel.rName \in ProgramNames /\ Reads(rel) # <<>> /\ ToSet(Reads(rel)) \subseteq DOMAIN a.relations
     ELSE rel.rName \notin Evaluated /\ rel.refs = <<>> /\ rel.relationType \in {"EventTable", "Table"}

LEMMA OwnerAgrees ==
  ASSUME NEW a, NEW b, NEW x, NEW place, NEW place2,
         b.relations[x] = a.relations[x],
         \A i \in DOMAIN RefsOf(a, x) : place2[RefsOf(a, x)[i]].dbId = place[RefsOf(a, x)[i]].dbId
  PROVE  OwnerOf(b, x, place2) = OwnerOf(a, x, place)
<1>1. RefsOf(b, x) = RefsOf(a, x) /\ RemoteId(b, x) = RemoteId(a, x)
  BY DEF RefsOf, RemoteId, TypeOf, GetRelationDef
<1> DEFINE s == RefsOf(a, x)
<1>2. [i \in DOMAIN s |-> place2[s[i]].dbId] = [i \in DOMAIN s |-> place[s[i]].dbId]
  OBVIOUS
<1> QED  BY <1>1, <1>2 DEF OwnerOf

LEMMA ReadsAre ==
  ASSUME NEW a, Sound(a), NEW x \in DOMAIN a.relations
  PROVE  /\ RefsOf(a, x) \in Seq(DOMAIN a.relations)
         /\ \A i \in DOMAIN RefsOf(a, x) : /\ RefsOf(a, x)[i] \in ToSet(RefsOf(a, x))
                                           /\ RefsOf(a, x)[i] \in DOMAIN a.relations
<1> DEFINE s == RefsOf(a, x)
<1>1. s \in Seq(AllNames)
  <2>1. a.relations[x] \in RelationSet
    BY DEF Sound
  <2> QED  BY <2>1, ReadsIs DEF RefsOf
<1>2. ToSet(s) \subseteq DOMAIN a.relations
  <2>1. CASE x \in Derived(a)
    BY <2>1 DEF Sound
  <2>2. CASE x \notin Derived(a)
    <3>1. s = <<>>
      BY <2>2, ReadsOfNothing DEF Sound, RefsOf
    <3>2. ToSet(s) = {}
      BY <3>1 DEF ToSet
    <3> QED  BY <3>2
  <2> QED  BY <2>1, <2>2
<1> HIDE DEF s
<1>3. \A i \in DOMAIN s : s[i] \in ToSet(s)
  BY DEF ToSet
<1>4. s \in Seq(DOMAIN a.relations)
  <2>1. \A i \in DOMAIN s : s[i] \in DOMAIN a.relations
    BY <1>2, <1>3
  <2>2. DOMAIN s = 1..Len(s) /\ Len(s) \in Nat /\ s = [i \in 1..Len(s) |-> s[i]]
    BY <1>1
  <2>3. s \in [1..Len(s) -> DOMAIN a.relations]
    BY <2>1, <2>2
  <2> QED  BY <2>2, <2>3
<1> QED  BY <1>2, <1>3, <1>4 DEF s

LEMMA AsyncViewIs ==
  \A o \in ProgramNames : AsyncView(o) \in Evaluated \ ProgramNames /\ o \in Evaluated
<1> SUFFICES ASSUME NEW o \in ProgramNames
             PROVE  AsyncView(o) \in Evaluated /\ AsyncView(o) \notin ProgramNames /\ o \in Evaluated
  OBVIOUS
<1>1. AsyncView(o) \notin ProgramNames
  BY NameAssumption
<1> DEFINE A == {AsyncView(r) : r \in ProgramNames}
<1>2. AsyncView(o) \in A
  OBVIOUS
<1>3. Evaluated = ProgramNames \cup A
  BY DEF Evaluated
<1> HIDE DEF A
<1> QED  BY <1>1, <1>2, <1>3

LEMMA IsNewAsync ==
  ASSUME NEW a, NEW rel, IsNew(a, rel) PROVE \A o \in ProgramNames : AsyncView(o) # rel.rName
BY AsyncViewIs DEF IsNew

LEMMA ExtendByOne ==
  ASSUME NEW a, NEW n, NEW rank, NEW place, IsProgram(a, n, rank, place),
         NEW rel, IsNew(a, rel), NEW b, b.relations = With(a.relations, rel), Mirror(b, {})
  PROVE  \E n2, rank2, place2 : /\ IsProgram(b, n2, rank2, place2)
                                /\ Extends(a, place, b, place2) /\ Splits(b) = Splits(a)
<1> DEFINE r     == rel.rName
           deps  == Reads(rel)
           A     == DOMAIN a.relations
           B     == DOMAIN b.relations
           owner == IF deps = <<>> THEN LocalDbId
                    ELSE SelectRelationEvalOwner([i \in DOMAIN deps |-> place[deps[i]].dbId])
           rank2  == [x \in B |-> IF x = r THEN n + 1 ELSE rank[x]]
           place2 == [x \in B |-> IF x = r THEN PlaceAt(rel.relationType, owner) ELSE place[x]]
<1>1. /\ n \in Nat /\ Sound(a) /\ RankedBy(a, n, rank) /\ PlacedBy(a, place) /\ SplitsAre(a, place)
      /\ rel \in RelationSet /\ r \in AllNames /\ r \notin A /\ rel.relationType \in RelationTypes
  BY DEF IsProgram, IsNew, RelationSet
<1>2. /\ B = A \cup {r} /\ b.relations[r] = rel
      /\ \A x \in A : x # r /\ b.relations[x] = a.relations[x]
  BY <1>1 DEF With
<1>3. /\ RefsOf(b, r) = deps /\ TypeOf(b, r) = rel.relationType
      /\ \A x \in A : RefsOf(b, x) = RefsOf(a, x) /\ TypeOf(b, x) = TypeOf(a, x)
      /\ \A x \in A : RemoteId(b, x) = RemoteId(a, x)
  BY <1>2 DEF RefsOf, TypeOf, GetRelationDef, RemoteId
<1>4. /\ \A T : OfType(b, T) \cap A = OfType(a, T) /\ OfType(b, T) \subseteq A \cup {r}
      /\ \A T : r \in OfType(b, T) <=> rel.relationType \in T
      /\ \A T : OfType(a, T) \subseteq A
  BY <1>2, <1>3 DEF OfType
<1>5. deps \in Seq(A) /\ \A i \in DOMAIN deps : deps[i] \in A /\ deps[i] \in ToSet(deps)
  <2>1. deps \in Seq(AllNames)
    BY <1>1, ReadsIs
  <2>2. ToSet(deps) \subseteq A
    <3>1. CASE IsRelationTypeDerived(rel.relationType)
      BY <3>1 DEF IsNew
    <3>2. CASE ~IsRelationTypeDerived(rel.relationType)
      <4>1. deps = <<>>
        BY <3>2, ReadsOfNothing DEF IsNew
      <4> QED  BY <4>1 DEF ToSet
    <3> QED  BY <3>1, <3>2
  <2> HIDE DEF deps, A
  <2>3. \A i \in DOMAIN deps : deps[i] \in ToSet(deps)
    BY DEF ToSet
  <2>4. DOMAIN deps = 1..Len(deps) /\ Len(deps) \in Nat /\ deps = [i \in 1..Len(deps) |-> deps[i]]
    BY <2>1
  <2>5. deps \in [1..Len(deps) -> A]
    BY <2>2, <2>3, <2>4
  <2> QED  BY <2>2, <2>3, <2>4, <2>5
<1>6. owner \in Db
  <2>1. \A x \in A : place[x].dbId \in Db
    BY <1>1 DEF PlacedBy, Places
  <2>2. [i \in DOMAIN deps |-> place[deps[i]].dbId] \in Seq(Db)
    BY <2>1, <1>5
  <2> QED  BY <2>2, OwnerIsDb, PlanAssumption
<1> HIDE DEF owner
<1>7. \A x \in A : rank2[x] = rank[x] /\ place2[x] = place[x]
  BY <1>2
<1>8. rank2[r] = n + 1 /\ place2[r] = PlaceAt(rel.relationType, owner) /\ DOMAIN rank2 = B /\ DOMAIN place2 = B
  BY <1>2
<1>a. /\ rank2 = [x \in B |-> rank2[x]] /\ place2 = [x \in B |-> place2[x]]
  OBVIOUS
<1> HIDE DEF rank2, place2
<1>9. Sound(b)
  <2>1. b.relations \in [B -> RelationSet] /\ B \subseteq AllNames
    <3>1. b.relations = [x \in B |-> b.relations[x]]
      BY <1>2 DEF With
    <3>2. \A x \in B : b.relations[x] \in RelationSet
      BY <1>1, <1>2 DEF Sound
    <3>3. B \subseteq AllNames
      BY <1>1, <1>2 DEF Sound
    <3> QED  BY <3>1, <3>2, <3>3
  <2>2. \A x \in B : b.relations[x].rName = x
    BY <1>1, <1>2 DEF Sound
  <2>3. \A x \in B \ Derived(b) : b.relations[x].refs = <<>>
    <3>1. \A x \in A : x \in Derived(b) <=> x \in Derived(a)
      BY <1>4 DEF Derived
    <3>2. r \in Derived(b) <=> IsRelationTypeDerived(rel.relationType)
      BY <1>4 DEF Derived, IsRelationTypeDerived
    <3> QED  BY <3>1, <3>2, <1>1, <1>2 DEF Sound, IsNew
  <2>4. ASSUME NEW x \in Derived(b)
        PROVE  x \in Evaluated /\ RefsOf(b, x) # <<>> /\ ToSet(RefsOf(b, x)) \subseteq B
    <3>1. CASE x \in A
      <4>1. x \in Derived(a)
        BY <3>1, <1>4 DEF Derived
      <4> QED  BY <4>1, <3>1, <1>1, <1>2, <1>3 DEF Sound
    <3>2. CASE x = r
      <4>1. IsRelationTypeDerived(rel.relationType)
        BY <3>2, <1>4 DEF Derived, IsRelationTypeDerived
      <4> QED  BY <4>1, <3>2, <1>2, <1>3 DEF IsNew, Evaluated
    <3> QED  BY <3>1, <3>2, <1>4 DEF Derived
  <2>5. OfType(b, {"ExistingAndImmutable"}) \subseteq DOMAIN RelationLocation
    <3>1. r \notin OfType(b, {"ExistingAndImmutable"})
      BY <1>4 DEF IsNew, IsRelationTypeDerived
    <3> QED  BY <3>1, <1>1, <1>4 DEF Sound
  <2>6. OfType(b, {"Output"}) \subseteq ProgramNames
    <3>1. r \in OfType(b, {"Output"}) => r \in ProgramNames
      BY <1>4 DEF IsNew, IsRelationTypeDerived
    <3> QED  BY <3>1, <1>1, <1>4 DEF Sound
  <2>7. \A x \in TableNames : x \in B /\ b.relations[x] = Tables[x]
    BY <1>1, <1>2 DEF Sound
  <2>8. \A o \in ProgramNames : Has(b, AsyncView(o)) => o \in OfType(b, {"Output"})
    <3>1. \A o \in ProgramNames : AsyncView(o) # r
      BY IsNewAsync
    <3> QED  BY <3>1, <1>1, <1>2, <1>4 DEF Sound, Has
  <2> QED  BY <2>1, <2>2, <2>3, <2>4, <2>5, <2>6, <2>7, <2>8 DEF Sound
<1>10. RankedBy(b, n + 1, rank2)
  <2>1. \A x \in A : rank[x] \in 0..n
    BY <1>1 DEF RankedBy
  <2>2. \A x \in B : rank2[x] \in 0..(n + 1)
    BY <2>1, <1>1, <1>2, <1>7, <1>8
  <2>3. ASSUME NEW x \in B, NEW y \in ToSet(RefsOf(b, x)) PROVE rank2[y] < rank2[x]
    <3>1. CASE x \in A
      <4>1. ToSet(RefsOf(a, x)) \subseteq A
        <5>1. \A i \in DOMAIN RefsOf(a, x) : RefsOf(a, x)[i] \in A
          BY <3>1, <1>1, ReadsAre
        <5> QED  BY <5>1 DEF ToSet
      <4> QED  BY <4>1, <3>1, <1>1, <1>3, <1>7 DEF RankedBy
    <3>2. CASE x = r
      <4>1. y \in A
        BY <3>2, <1>3, <1>5 DEF ToSet
      <4> QED  BY <4>1, <3>2, <2>1, <1>1, <1>7, <1>8
    <3> QED  BY <3>1, <3>2, <1>2
  <2> HIDE DEF B
  <2> QED  BY <2>2, <2>3, <1>a DEF RankedBy, B
<1>11. PlacedBy(b, place2)
  <2>1. \A x \in B : place2[x] \in Places
    <3>1. place2[r] \in Places
      BY <1>6, <1>8, PlanAssumption DEF PlaceAt, Places
    <3>2. \A x \in A : place[x] \in Places
      BY <1>1 DEF PlacedBy
    <3> QED  BY <3>1, <3>2, <1>2, <1>7
  <2>2. ASSUME NEW x \in B PROVE place2[x] = PlaceAt(TypeOf(b, x), OwnerOf(b, x, place2))
    <3>1. CASE x \in A
      <4>1. \A i \in DOMAIN RefsOf(a, x) : RefsOf(a, x)[i] \in A
        BY <3>1, <1>1, ReadsAre
      <4>2. OwnerOf(b, x, place2) = OwnerOf(a, x, place)
        BY <4>1, <3>1, <1>2, <1>7, OwnerAgrees
      <4> QED  BY <4>2, <3>1, <1>1, <1>3, <1>7 DEF PlacedBy
    <3>2. CASE x = r
      <4>1. [i \in DOMAIN deps |-> place2[deps[i]].dbId] = [i \in DOMAIN deps |-> place[deps[i]].dbId]
        BY <1>5, <1>7
      <4>2. deps = <<>> => RemoteId(b, r) = LocalDbId
        BY <1>3 DEF IsNew, RemoteId
      <4>3. OwnerOf(b, r, place2) = owner
        <5>1. OwnerOf(b, r, place2) = IF deps = <<>> THEN RemoteId(b, r)
                ELSE SelectRelationEvalOwner([i \in DOMAIN deps |-> place2[deps[i]].dbId])
          BY <1>3 DEF OwnerOf
        <5> QED  BY <5>1, <4>1, <4>2 DEF owner
      <4> QED  BY <4>3, <3>2, <1>3, <1>8
    <3> QED  BY <3>1, <3>2, <1>2
  <2> HIDE DEF B
  <2> QED  BY <2>1, <2>2, <1>a DEF PlacedBy, B
<1>12. Splits(b) = Splits(a)
  <2>1. \A o \in ProgramNames : AsyncView(o) # r
    BY IsNewAsync
  <2>2. OfType(a, {"Output"}) \subseteq ProgramNames /\ OfType(b, {"Output"}) \subseteq ProgramNames
    BY <1>1, <1>9 DEF Sound
  <2>3. \A o \in ProgramNames : Has(b, AsyncView(o)) <=> Has(a, AsyncView(o))
    BY <2>1, <1>2 DEF Has
  <2>4. \A o \in ProgramNames : Has(a, AsyncView(o)) => o \in OfType(a, {"Output"})
    BY <1>1 DEF Sound
  <2> QED  BY <2>2, <2>3, <2>4, <1>4 DEF Splits
<1>13. SplitsAre(b, place2)
  <2>1. ASSUME NEW o \in Splits(a) PROVE o \in A /\ AsyncView(o) \in A
    BY <1>4 DEF Splits, Has
  <2> QED  BY <2>1, <1>1, <1>3, <1>7, <1>12 DEF SplitsAre
<1>14. IsProgram(b, n + 1, rank2, place2)
  BY <1>1, <1>9, <1>10, <1>11, <1>13 DEF IsProgram
<1>15. Extends(a, place, b, place2)
  <2>1. Splits(a) \subseteq A
    BY <1>4 DEF Splits
  <2> QED  BY <2>1, <1>2, <1>7, <1>12 DEF Extends
<1> QED  BY <1>12, <1>14, <1>15

-----------------------------------------------------------------------------
(***************************************************************************)
(* Why something is needed somewhere: a relation is evaluated and its      *)
(* result is brought to where it is read, or it is shipped to where a      *)
(* relation that reads it is evaluated -- as that is now, or was before it *)
(* was split.                                                              *)
(***************************************************************************)
IsOwn(a, place, d) ==
  /\ d.forRelationName = d.relationName /\ TypeOf(a, d.relationName) # "View"
  /\ d.to = place[d.relationName].dbId
  /\ \E f \in {d.relationName, Now(a, d.relationName)} : d.from = place[f].fromDbId

IsShip(a, place, d) ==
  /\ d.from = place[d.relationName].dbId
  /\ \E f \in {d.forRelationName, Now(a, d.forRelationName)} :
       d.relationName \in ToSet(RefsOf(a, f)) /\ d.to = place[f].fromDbId

IsNeeded(a, place, d) ==
  /\ d.relationName \in DOMAIN a.relations /\ d.forRelationName \in DOMAIN a.relations
  /\ IsOwn(a, place, d) \/ IsShip(a, place, d)

Complete(a, place, L, x) ==
  \A y \in ToSet(RefsOf(a, x)) :
    \E d \in L : /\ d.relationName = y /\ d.forRelationName = x
                 /\ d.from = place[y].dbId /\ d.to = place[x].fromDbId

PlannedSet(a, place, L) ==
  /\ \A d \in L : d \in DistributionSet /\ IsNeeded(a, place, d) /\ Complete(a, place, L, d.relationName)
  /\ \A o \in Splits(a) : Complete(a, place, L, o)

Planned(a, place, list) == list \in Seq(DistributionSet) /\ PlannedSet(a, place, ToSet(list))

\* The result of an event view is asked for before it is shipped on.
Ordered(a, list) ==
  \A i \in DOMAIN list :
    TypeOf(a, list[i].relationName) = "EventView" =>
      \/ list[i].relationName = list[i].forRelationName
      \/ \E j \in 1..(i - 1) : /\ list[j].relationName = list[i].relationName
                               /\ list[j].forRelationName = list[i].relationName

LEMMA SplitsIn ==
  \A a : \A o \in Splits(a) : /\ o \in DOMAIN a.relations /\ AsyncView(o) \in DOMAIN a.relations
                              /\ TypeOf(a, o) = "Output"
BY DEF Splits, OfType, Has

LEMMA NowIn == \A a : \A x \in DOMAIN a.relations : Now(a, x) \in DOMAIN a.relations
BY SplitsIn DEF Now

LEMMA ExtendsKeeps ==
  ASSUME NEW a, NEW place, NEW b, NEW place2, Sound(a), Extends(a, place, b, place2)
  PROVE  /\ \A x \in DOMAIN a.relations :
              /\ x \in DOMAIN b.relations /\ TypeOf(b, x) = TypeOf(a, x) /\ RefsOf(b, x) = RefsOf(a, x)
              /\ Now(b, x) = Now(a, x) /\ Now(a, x) \in DOMAIN a.relations
              /\ ToSet(RefsOf(a, x)) \subseteq DOMAIN a.relations
         /\ \A d : IsNeeded(a, place, d) => IsNeeded(b, place2, d)
         /\ \A L : \A x \in DOMAIN a.relations : Complete(a, place, L, x) => Complete(b, place2, L, x)
<1>1. ASSUME NEW x \in DOMAIN a.relations
      PROVE  /\ x \in DOMAIN b.relations /\ TypeOf(b, x) = TypeOf(a, x) /\ RefsOf(b, x) = RefsOf(a, x)
             /\ place2[x] = place[x] /\ Now(b, x) = Now(a, x) /\ Now(a, x) \in DOMAIN a.relations
             /\ ToSet(RefsOf(a, x)) \subseteq DOMAIN a.relations
  <2>1. x \in DOMAIN b.relations /\ b.relations[x] = a.relations[x] /\ place2[x] = place[x]
    BY DEF Extends
  <2>2. x \in Splits(b) <=> x \in Splits(a)
    BY DEF Extends
  <2>3. ToSet(RefsOf(a, x)) \subseteq DOMAIN a.relations
    <3>1. \A i \in DOMAIN RefsOf(a, x) : RefsOf(a, x)[i] \in DOMAIN a.relations
      BY ReadsAre
    <3> QED  BY <3>1 DEF ToSet
  <2> QED  BY <2>1, <2>2, <2>3, NowIn DEF TypeOf, GetRelationDef, RefsOf, Now
<1>2. ASSUME NEW d, IsNeeded(a, place, d) PROVE IsNeeded(b, place2, d)
  <2>1. d.relationName \in DOMAIN a.relations /\ d.forRelationName \in DOMAIN a.relations
    BY <1>2 DEF IsNeeded
  <2>2. CASE IsOwn(a, place, d)
    <3>1. IsOwn(b, place2, d)
      BY <2>1, <2>2, <1>1 DEF IsOwn
    <3> QED  BY <3>1, <2>1, <1>1 DEF IsNeeded
  <2>3. CASE IsShip(a, place, d)
    <3>1. IsShip(b, place2, d)
      BY <2>1, <2>3, <1>1 DEF IsShip
    <3> QED  BY <3>1, <2>1, <1>1 DEF IsNeeded
  <2> QED  BY <2>2, <2>3, <1>2 DEF IsNeeded
<1>3. ASSUME NEW L, NEW x \in DOMAIN a.relations, Complete(a, place, L, x)
      PROVE  Complete(b, place2, L, x)
  <2>1. \A y \in ToSet(RefsOf(a, x)) : y \in DOMAIN a.relations
    BY <1>1
  <2> QED  BY <2>1, <1>1, <1>3 DEF Complete
<1> QED  BY <1>1, <1>2, <1>3

LEMMA PlannedExtends ==
  ASSUME NEW a, NEW place, NEW b, NEW place2, Sound(a), Extends(a, place, b, place2),
         Splits(b) = Splits(a), NEW list, Planned(a, place, list)
  PROVE  Planned(b, place2, list)
<1> DEFINE L == ToSet(list)
<1>1. list \in Seq(DistributionSet) /\ PlannedSet(a, place, L)
  BY DEF Planned
<1> HIDE DEF L
<1>2. ASSUME NEW d \in L
      PROVE  d \in DistributionSet /\ IsNeeded(b, place2, d) /\ Complete(b, place2, L, d.relationName)
  <2>1. d \in DistributionSet /\ IsNeeded(a, place, d) /\ Complete(a, place, L, d.relationName)
    BY <1>1 DEF PlannedSet
  <2>2. d.relationName \in DOMAIN a.relations
    BY <2>1 DEF IsNeeded
  <2> QED  BY <2>1, <2>2, ExtendsKeeps
<1>3. \A o \in Splits(b) : Complete(b, place2, L, o)
  BY <1>1, ExtendsKeeps, SplitsIn DEF PlannedSet
<1>4. PlannedSet(b, place2, L)
  BY <1>2, <1>3 DEF PlannedSet
<1> QED  BY <1>1, <1>4 DEF Planned, L

LEMMA OrderedExtends ==
  ASSUME NEW a, NEW place, NEW b, NEW place2, Sound(a), Extends(a, place, b, place2),
         NEW list, Planned(a, place, list), Ordered(a, list)
  PROVE  Ordered(b, list)
<1>1. ASSUME NEW i \in DOMAIN list PROVE TypeOf(b, list[i].relationName) = TypeOf(a, list[i].relationName)
  <2>1. list[i] \in ToSet(list)
    BY DEF ToSet
  <2>2. list[i].relationName \in DOMAIN a.relations
    BY <2>1 DEF Planned, PlannedSet, IsNeeded
  <2> QED  BY <2>2, ExtendsKeeps
<1> QED  BY <1>1 DEF Ordered

LEMMA OrderedJoin ==
  ASSUME NEW a, NEW X, NEW s \in Seq(X), NEW t \in Seq(X), Ordered(a, s), Ordered(a, t)
  PROVE  Ordered(a, s \o t)
<1> DEFINE l == s \o t
<1>1. /\ l \in Seq(X) /\ Len(l) = Len(s) + Len(t) /\ Len(s) \in Nat /\ Len(t) \in Nat
      /\ DOMAIN l = 1..Len(l) /\ DOMAIN s = 1..Len(s) /\ DOMAIN t = 1..Len(t)
      /\ \A i \in 1..Len(s) : l[i] = s[i]
      /\ \A i \in 1..Len(t) : l[Len(s) + i] = t[i]
  OBVIOUS
<1> HIDE DEF l
<1>2. ASSUME NEW i \in 1..Len(l), TypeOf(a, l[i].relationName) = "EventView"
      PROVE  \/ l[i].relationName = l[i].forRelationName
             \/ \E j \in 1..(i - 1) : /\ l[j].relationName = l[i].relationName
                                      /\ l[j].forRelationName = l[i].relationName
  <2>1. CASE i \in 1..Len(s)
    <3>1. \A j \in 1..(i - 1) : j \in 1..Len(s)
      BY <2>1, <1>1
    <3>2. l[i] = s[i] /\ \A j \in 1..(i - 1) : l[j] = s[j]
      BY <3>1, <2>1, <1>1
    <3> QED  BY <3>2, <2>1, <1>1, <1>2 DEF Ordered
  <2>2. CASE i \notin 1..Len(s)
    <3> DEFINE k == i - Len(s)
    <3>1. k \in 1..Len(t) /\ i = Len(s) + k
      BY <2>2, <1>1
    <3>2. l[i] = t[k]
      BY <3>1, <1>1
    <3>3. CASE \E j \in 1..(k - 1) : /\ t[j].relationName = l[i].relationName
                                     /\ t[j].forRelationName = l[i].relationName
      <4>1. PICK j \in 1..(k - 1) : /\ t[j].relationName = l[i].relationName
                                    /\ t[j].forRelationName = l[i].relationName
        BY <3>3
      <4>2. j \in 1..Len(t) /\ Len(s) + j \in 1..(i - 1)
        BY <3>1, <1>1
      <4>3. l[Len(s) + j] = t[j]
        BY <4>2, <1>1
      <4> QED  BY <4>1, <4>2, <4>3
    <3>4. k \in DOMAIN t
      BY <3>1, <1>1
    <3> HIDE DEF k
    <3>5. \/ l[i].relationName = l[i].forRelationName
          \/ \E j \in 1..(k - 1) : /\ t[j].relationName = l[i].relationName
                                   /\ t[j].forRelationName = l[i].relationName
      BY <3>2, <3>4, <1>2 DEF Ordered
    <3> QED  BY <3>3, <3>5
  <2> QED  BY <2>1, <2>2
<1> QED  BY <1>1, <1>2 DEF Ordered, l

-----------------------------------------------------------------------------
(***************************************************************************)
(* The tree with the locations is the one of the program, or of the program*)
(* before its outputs were split.                                          *)
(***************************************************************************)
AugmentedBy(a, aug, m) ==
  /\ DOMAIN aug \subseteq DOMAIN a.relations
  /\ \A x \in DOMAIN aug : /\ m[x] \in {x, Now(a, x)} /\ aug[x].remoteId = RemoteId(a, x)
                           /\ aug[x].dependsOn = RefsOf(a, m[x])
                           /\ ToSet(aug[x].dependsOn) \subseteq DOMAIN aug

Through(aug, m, f) == [x \in DOMAIN aug |-> f[m[x]]]

LEMMA SplitIs ==
  ASSUME NEW a, NEW n, NEW rank, NEW place, IsProgram(a, n, rank, place)
  PROVE  \A o \in Splits(a) :
           /\ o \in DOMAIN a.relations /\ AsyncView(o) \in DOMAIN a.relations
           /\ TypeOf(a, o) = "Output" /\ TypeOf(a, AsyncView(o)) = "EventView"
           /\ place[o].dbId = LocalDbId /\ place[AsyncView(o)].dbId = LocalDbId
           /\ rank[AsyncView(o)] < rank[o] /\ place[AsyncView(o)].fromDbId # LocalDbId
           /\ RefsOf(a, o) # <<>> /\ RefsOf(a, AsyncView(o)) # <<>>
<1> TAKE o \in Splits(a)
<1>1. /\ o \in DOMAIN a.relations /\ AsyncView(o) \in DOMAIN a.relations /\ TypeOf(a, o) = "Output"
  BY SplitsIn
<1>2. /\ TypeOf(a, AsyncView(o)) = "EventView" /\ RefsOf(a, o) = <<AsyncView(o), AsyncView(o)>>
      /\ place[AsyncView(o)].fromDbId # LocalDbId
  BY DEF IsProgram, SplitsAre
<1>3. place[o].dbId = LocalDbId /\ place[AsyncView(o)].dbId = LocalDbId
  <2>1. \E t, u : place[o] = PlaceAt("Output", t) /\ place[AsyncView(o)] = PlaceAt("EventView", u)
    BY <1>1, <1>2 DEF IsProgram, PlacedBy
  <2> QED  BY <2>1 DEF PlaceAt
<1>4. AsyncView(o) \in ToSet(RefsOf(a, o))
  BY <1>2 DEF ToSet
<1>5. rank[AsyncView(o)] < rank[o]
  BY <1>1, <1>4 DEF IsProgram, RankedBy
<1>6. AsyncView(o) \in Derived(a)
  BY <1>1, <1>2 DEF Derived, OfType
<1>7. RefsOf(a, AsyncView(o)) # <<>>
  BY <1>6 DEF IsProgram, Sound
<1>8. RefsOf(a, o) # <<>>
  BY <1>2
<1> QED  BY <1>1, <1>2, <1>3, <1>5, <1>7, <1>8

LEMMA ThroughIs ==
  ASSUME NEW a, NEW n, NEW rank, NEW place, IsProgram(a, n, rank, place),
         NEW aug, NEW m, AugmentedBy(a, aug, m)
  PROVE  \A x \in DOMAIN aug :
           /\ x \in DOMAIN a.relations /\ m[x] \in DOMAIN a.relations
           /\ place[m[x]].dbId = place[x].dbId /\ rank[m[x]] <= rank[x]
           /\ rank[m[x]] \in 0..n /\ place[m[x]] \in Places
           /\ m[x] # x => x \in Splits(a) /\ m[x] = AsyncView(x)
<1> TAKE x \in DOMAIN aug
<1>1. x \in DOMAIN a.relations /\ m[x] \in {x, Now(a, x)}
  BY DEF AugmentedBy
<1>2. n \in Nat /\ \A y \in DOMAIN a.relations : rank[y] \in 0..n /\ place[y] \in Places
  BY DEF IsProgram, RankedBy, PlacedBy
<1>3. CASE m[x] = x
  <2>1. rank[x] \in 0..n /\ rank[x] <= rank[x]
    BY <1>1, <1>2
  <2> QED  BY <1>1, <1>2, <1>3, <2>1
<1>4. CASE m[x] # x
  <2>1. x \in Splits(a) /\ m[x] = AsyncView(x)
    BY <1>1, <1>4 DEF Now
  <2>2. /\ AsyncView(x) \in DOMAIN a.relations /\ rank[AsyncView(x)] < rank[x]
        /\ place[x].dbId = LocalDbId /\ place[AsyncView(x)].dbId = LocalDbId
    BY <2>1, SplitIs
  <2>3. rank[m[x]] \in 0..n /\ rank[x] \in 0..n /\ place[m[x]] \in Places
    BY <1>1, <1>2, <2>1, <2>2
  <2>4. rank[m[x]] <= rank[x]
    BY <2>1, <2>2, <2>3, <1>2
  <2> QED  BY <1>1, <2>1, <2>2, <2>3, <2>4
<1> QED  BY <1>3, <1>4

LEMMA SettingIs ==
  ASSUME NEW a, NEW n, NEW rank, NEW place, IsProgram(a, n, rank, place),
         NEW aug, NEW m, AugmentedBy(a, aug, m)
  PROVE  Setting(a, aug, n, Through(aug, m, rank), Through(aug, m, place))
<1> DEFINE D  == DOMAIN aug
           rk == Through(aug, m, rank)
           pl == Through(aug, m, place)
<1>1. /\ D \subseteq DOMAIN a.relations /\ n \in Nat /\ Sound(a)
      /\ DOMAIN a.relations \subseteq AllNames
  BY DEF AugmentedBy, IsProgram, Sound
<1>2. \A x \in D : /\ x \in DOMAIN a.relations /\ m[x] \in DOMAIN a.relations
                   /\ place[m[x]].dbId = place[x].dbId /\ rank[m[x]] <= rank[x]
                   /\ rank[m[x]] \in 0..n /\ place[m[x]] \in Places
                   /\ m[x] # x => x \in Splits(a) /\ m[x] = AsyncView(x)
  BY ThroughIs
<1>3. \A x \in D : /\ aug[x].remoteId = RemoteId(a, x) /\ aug[x].dependsOn = RefsOf(a, m[x])
                   /\ ToSet(aug[x].dependsOn) \subseteq D
  BY DEF AugmentedBy
<1>4. \A x \in D : rk[x] = rank[m[x]] /\ pl[x] = place[m[x]]
  BY DEF Through
<1>5. rk \in [D -> 0..n] /\ pl \in [D -> Places]
  BY <1>2 DEF Through
<1> HIDE DEF rk, pl
<1>6. ASSUME NEW r \in D PROVE aug[r].dependsOn \in Seq(D)
  <2> DEFINE s == aug[r].dependsOn
  <2>1. s = RefsOf(a, m[r]) /\ ToSet(s) \subseteq D
    BY <1>3
  <2>2. s \in Seq(DOMAIN a.relations)
    BY <2>1, <1>1, <1>2, ReadsAre
  <2>3. \A i \in DOMAIN s : s[i] \in D
    BY <2>1 DEF ToSet
  <2> HIDE DEF s
  <2>4. s \in Seq(D)
    BY <2>2, <2>3
  <2> QED  BY <2>4 DEF s
<1>7. ASSUME NEW r \in D, NEW y \in ToSet(aug[r].dependsOn) PROVE rk[y] < rk[r]
  <2>1. y \in D /\ y \in ToSet(RefsOf(a, m[r]))
    BY <1>3
  <2>2. rank[y] < rank[m[r]]
    BY <2>1, <1>2 DEF IsProgram, RankedBy
  <2>3. rank[m[y]] <= rank[y] /\ rank[m[y]] \in 0..n /\ rank[m[r]] \in 0..n
    BY <2>1, <1>2
  <2>4. y \in DOMAIN a.relations
    BY <2>1, <1>1
  <2>5. rank[y] \in 0..n
    BY <2>4 DEF IsProgram, RankedBy
  <2>6. rank[m[y]] < rank[m[r]]
    BY <2>2, <2>3, <2>5, <1>1
  <2> QED  BY <2>6, <2>1, <1>4
<1>8. ASSUME NEW r \in D
      PROVE  /\ pl[r] = PlaceAt(TypeOf(a, r), OwnerIn(aug, pl, r))
             /\ IF aug[r].dependsOn = <<>>
                THEN TypeOf(a, r) \in {"EventTable", "Table", "ExistingAndImmutable"}
                ELSE TypeOf(a, r) \in {"View", "EventView", "Output"}
  <2> DEFINE z == m[r]
             s == RefsOf(a, z)
  <2>1. /\ z \in DOMAIN a.relations /\ r \in DOMAIN a.relations /\ aug[r].dependsOn = s
        /\ aug[r].remoteId = RemoteId(a, r) /\ pl[r] = place[z]
        /\ z # r => r \in Splits(a) /\ z = AsyncView(r)
    BY <1>2, <1>3, <1>4
  <2>2. place[z] = PlaceAt(TypeOf(a, z), OwnerOf(a, z, place))
    BY <2>1 DEF IsProgram, PlacedBy
  <2>3. z # r => /\ TypeOf(a, r) = "Output" /\ TypeOf(a, z) = "EventView" /\ s # <<>>
    BY <2>1, SplitIs
  <2>4. ASSUME NEW i \in DOMAIN s PROVE pl[s[i]].dbId = place[s[i]].dbId
    <3>1. s[i] \in D
      BY <2>1, <1>3 DEF ToSet
    <3> QED  BY <3>1, <1>2, <1>4
  <2>5. OwnerIn(aug, pl, r) = OwnerOf(a, z, place)
    <3>1. CASE s = <<>>
      <4>1. z = r
        BY <3>1, <2>3
      <4> QED  BY <3>1, <4>1, <2>1 DEF OwnerIn, OwnerOf
    <3>2. CASE s # <<>>
      <4>1. [i \in DOMAIN s |-> pl[s[i]].dbId] = [i \in DOMAIN s |-> place[s[i]].dbId]
        BY <2>4
      <4> QED  BY <3>2, <4>1, <2>1 DEF OwnerIn, OwnerOf
    <3> QED  BY <3>1, <3>2
  <2>6. \A t : PlaceAt("Output", t) = PlaceAt("EventView", t)
    BY DEF PlaceAt
  <2>7. pl[r] = PlaceAt(TypeOf(a, r), OwnerIn(aug, pl, r))
    BY <2>1, <2>2, <2>3, <2>5, <2>6
  <2>8. /\ TypeOf(a, r) \in RelationTypes
        /\ r \notin Derived(a) => RefsOf(a, r) = <<>>
        /\ r \in Derived(a) => RefsOf(a, r) # <<>>
    <3>1. a.relations[r] \in RelationSet
      BY <2>1, <1>1 DEF Sound
    <3>2. TypeOf(a, r) \in RelationTypes
      BY <3>1 DEF TypeOf, GetRelationDef, RelationSet
    <3>3. r \notin Derived(a) => a.relations[r].refs = <<>>
      BY <2>1, <1>1 DEF Sound
    <3>4. r \notin Derived(a) => RefsOf(a, r) = <<>>
      BY <3>3, ReadsOfNothing DEF RefsOf
    <3> QED  BY <3>2, <3>4, <1>1 DEF Sound
  <2>9. CASE z = r
    <3>1. r \in Derived(a) <=> TypeOf(a, r) \in {"View", "EventView", "Output"}
      BY <2>1 DEF Derived, OfType
    <3> QED  BY <3>1, <2>7, <2>8, <2>9, <2>1 DEF RelationTypes
  <2>10. CASE z # r
    BY <2>10, <2>7, <2>1, <2>3
  <2> QED  BY <2>9, <2>10
<1>9. D \subseteq AllNames
  BY <1>1
<1> QED  BY <1>5, <1>6, <1>7, <1>8, <1>9 DEF Setting, rk, pl

(***************************************************************************)
(* What is found for r is needed by what is above r; and the plan with it  *)
(* is as complete as it was.                                               *)
(***************************************************************************)
LEMMA NeededIsNeeded ==
  ASSUME NEW a, NEW n, NEW rank, NEW place, IsProgram(a, n, rank, place),
         NEW aug, NEW m, AugmentedBy(a, aug, m), NEW output \in AllNames, NEW r \in DOMAIN aug,
         NEW L, PlannedSet(a, place, L)
  PROVE  LET N == NeededBy(a, aug, Through(aug, m, place), output, r)
         IN  PlannedSet(a, place, N \cup L)
<1> DEFINE pl == Through(aug, m, place)
           N  == NeededBy(a, aug, pl, output, r)
           M  == N \cup L
<1>1. \A x \in DOMAIN aug :
        /\ x \in DOMAIN a.relations /\ m[x] \in DOMAIN a.relations
        /\ place[m[x]].dbId = place[x].dbId /\ place[m[x]] \in Places
        /\ m[x] # x => x \in Splits(a) /\ m[x] = AsyncView(x)
  BY ThroughIs
<1>2. \A x \in DOMAIN aug : /\ m[x] \in {x, Now(a, x)} /\ aug[x].dependsOn = RefsOf(a, m[x])
                            /\ ToSet(aug[x].dependsOn) \subseteq DOMAIN aug
  BY DEF AugmentedBy
<1>3. \A x \in DOMAIN aug : pl[x] = place[m[x]]
  BY DEF Through
<1>4. MadeOf(aug, r) \subseteq DOMAIN aug /\ \A x \in MadeOf(aug, r) : Needs(a, aug, pl, output, x) \subseteq N
  BY DEF NeededBy, MadeOf
<1>5. \A d \in N : \E x \in MadeOf(aug, r) : d \in Needs(a, aug, pl, output, x)
  BY DEF NeededBy
<1>6. /\ DOMAIN aug \subseteq AllNames /\ HasReads(aug, MadeOf(aug, r))
  <2>1. DOMAIN a.relations \subseteq AllNames
    BY DEF IsProgram, Sound
  <2>2. \A x \in DOMAIN aug : ToSet(aug[x].dependsOn) \subseteq DOMAIN aug
    BY <1>2
  <2>3. HasReads(aug, MadeOf(aug, r))
    BY <2>2, MadeOfIs
  <2> QED  BY <2>1, <2>3, <1>1
<1>7. /\ \A d \in L : d \in DistributionSet /\ IsNeeded(a, place, d) /\ Complete(a, place, L, d.relationName)
      /\ \A o \in Splits(a) : Complete(a, place, L, o)
  BY DEF PlannedSet
<1> HIDE DEF pl, N
<1>8. ASSUME NEW x \in MadeOf(aug, r) PROVE Complete(a, place, M, x)
  <2>1. x \in DOMAIN aug
    BY <1>4
  <2>2. CASE m[x] = x
    <3>1. ASSUME NEW y \in ToSet(RefsOf(a, x))
          PROVE  \E d \in M : /\ d.relationName = y /\ d.forRelationName = x
                              /\ d.from = place[y].dbId /\ d.to = place[x].fromDbId
      <4>1. y \in ToSet(aug[x].dependsOn) /\ y \in DOMAIN aug
        BY <2>1, <2>2, <1>2
      <4>2. ShipOf(pl, output, y, x) \in N
        BY <4>1, <1>4 DEF Needs
      <4>3. /\ ShipOf(pl, output, y, x).relationName = y /\ ShipOf(pl, output, y, x).from = place[y].dbId
            /\ ShipOf(pl, output, y, x).to = place[x].fromDbId
            /\ ShipOf(pl, output, y, x).forRelationName = x
        <5>1. pl[y] = place[m[y]] /\ place[m[y]].dbId = place[y].dbId /\ pl[x] = place[x]
          BY <4>1, <2>1, <2>2, <1>1, <1>3
        <5> QED  BY <5>1 DEF ShipOf, Distribution
      <4> QED  BY <4>2, <4>3
    <3> QED  BY <3>1 DEF Complete
  <2>3. CASE m[x] # x
    <3>1. Complete(a, place, L, x)
      <4>1. x \in Splits(a)
        BY <2>1, <2>3, <1>1
      <4> QED  BY <4>1, <1>7
    <3> QED  BY <3>1 DEF Complete
  <2> QED  BY <2>2, <2>3
<1>9. ASSUME NEW d \in N
      PROVE  d \in DistributionSet /\ IsNeeded(a, place, d) /\ Complete(a, place, M, d.relationName)
  <2>1. PICK x \in MadeOf(aug, r) : d \in Needs(a, aug, pl, output, x)
    BY <1>5
  <2>2. /\ x \in DOMAIN aug /\ x \in AllNames /\ x \in DOMAIN a.relations
        /\ pl[x] = place[m[x]] /\ m[x] \in {x, Now(a, x)} /\ place[m[x]] \in Places
        /\ place[m[x]].dbId = place[x].dbId
    <3>1. x \in DOMAIN aug
      BY <1>4
    <3> QED  BY <3>1, <1>1, <1>2, <1>3, <1>6
  <2>3. CASE d = OwnOf(pl, output, x) /\ TypeOf(a, x) # "View"
    <3>1. /\ d.relationName = x /\ d.forRelationName = x /\ d.from = place[m[x]].fromDbId
          /\ d.to = place[x].dbId
      BY <2>2, <2>3 DEF OwnOf, Distribution
    <3>2. IsOwn(a, place, d)
      BY <3>1, <2>2, <2>3 DEF IsOwn
    <3>3. d \in DistributionSet
      BY <2>2, <2>3 DEF OwnOf, Distribution, DistributionSet, Places
    <3> QED  BY <3>1, <3>2, <3>3, <2>2, <1>8 DEF IsNeeded
  <2>4. ASSUME NEW y \in ToSet(aug[x].dependsOn), d = ShipOf(pl, output, y, x)
        PROVE  d \in DistributionSet /\ IsNeeded(a, place, d) /\ Complete(a, place, M, d.relationName)
    <3>1. /\ y \in DOMAIN aug /\ y \in AllNames /\ y \in DOMAIN a.relations /\ y \in MadeOf(aug, r)
          /\ pl[y] = place[m[y]] /\ place[m[y]] \in Places
          /\ place[m[y]].dbId = place[y].dbId
      <4>1. y \in DOMAIN aug /\ y \in MadeOf(aug, r)
        BY <2>2, <1>2, <1>6 DEF HasReads
      <4> QED  BY <4>1, <1>1, <1>3, <1>6
    <3>2. /\ d.relationName = y /\ d.forRelationName = x /\ d.from = place[y].dbId
          /\ d.to = place[m[x]].fromDbId
      BY <2>2, <2>4, <3>1 DEF ShipOf, Distribution
    <3>3. y \in ToSet(RefsOf(a, m[x]))
      BY <2>2, <1>2
    <3>4. IsShip(a, place, d)
      BY <3>2, <3>3, <2>2 DEF IsShip
    <3>5. d \in DistributionSet
      BY <2>2, <2>4, <3>1 DEF ShipOf, Distribution, DistributionSet, Places
    <3> QED  BY <3>1, <3>2, <3>4, <3>5, <2>2, <1>8 DEF IsNeeded
  <2> QED  BY <2>1, <2>3, <2>4 DEF Needs
<1>10. ASSUME NEW d \in L
       PROVE  d \in DistributionSet /\ IsNeeded(a, place, d) /\ Complete(a, place, M, d.relationName)
  BY <1>7 DEF Complete
<1>11. \A o \in Splits(a) : Complete(a, place, M, o)
  BY <1>7 DEF Complete
<1>12. PlannedSet(a, place, M)
  BY <1>9, <1>10, <1>11 DEF PlannedSet
<1> QED  BY <1>12 DEF M, N, pl

LEMMA MadeOfRanks ==
  ASSUME NEW a, NEW aug, NEW n \in Nat, NEW rank, NEW place, Setting(a, aug, n, rank, place),
         NEW r \in DOMAIN aug
  PROVE  \A x \in MadeOf(aug, r) : x \in DOMAIN aug /\ r \notin ToSet(aug[x].dependsOn)
<1> DEFINE C == {x \in DOMAIN aug : rank[x] <= rank[r]}
<1>1. /\ \A x \in DOMAIN aug : rank[x] \in 0..n
      /\ \A x \in DOMAIN aug : \A y \in ToSet(aug[x].dependsOn) : y \in DOMAIN aug /\ rank[y] < rank[x]
  <2>1. /\ rank \in [DOMAIN aug -> 0..n]
        /\ \A x \in DOMAIN aug : \A y \in ToSet(aug[x].dependsOn) : rank[y] < rank[x]
        /\ \A x \in DOMAIN aug : aug[x].dependsOn \in Seq(DOMAIN aug)
    BY DEF Setting
  <2>2. ASSUME NEW x \in DOMAIN aug, NEW y \in ToSet(aug[x].dependsOn) PROVE y \in DOMAIN aug
    <3>1. aug[x].dependsOn \in Seq(DOMAIN aug)
      BY <2>1
    <3> QED  BY <3>1 DEF ToSet
  <2> QED  BY <2>1, <2>2
<1>2. r \in C
  BY <1>1
<1>3. HasReads(aug, C)
  <2>1. ASSUME NEW x \in C, NEW y \in ToSet(aug[x].dependsOn) PROVE y \in C
    <3>1. x \in DOMAIN aug /\ rank[x] <= rank[r] /\ y \in DOMAIN aug /\ rank[y] < rank[x]
      BY <1>1
    <3>2. rank[x] \in 0..n /\ rank[r] \in 0..n /\ rank[y] \in 0..n
      BY <3>1, <1>1
    <3> QED  BY <3>1, <3>2
  <2> QED  BY <2>1 DEF HasReads
<1>4. MadeOf(aug, r) \subseteq C
  BY <1>2, <1>3 DEF MadeOf
<1>5. ASSUME NEW x \in C, r \in ToSet(aug[x].dependsOn) PROVE FALSE
  <2>1. x \in DOMAIN aug /\ rank[x] <= rank[r] /\ rank[r] < rank[x]
    BY <1>1, <1>5
  <2>2. rank[x] \in 0..n /\ rank[r] \in 0..n
    BY <2>1, <1>1
  <2> QED  BY <2>1, <2>2
<1> QED  BY <1>4, <1>5

-----------------------------------------------------------------------------
(***************************************************************************)
(* The default policy: o shows what the event view A shows, and A is what o*)
(* was.  Nothing else changes, nor where it is evaluated.                  *)
(***************************************************************************)
IsSplitAt(a, place, b, place2, o) ==
  /\ AsyncView(o) \notin DOMAIN a.relations /\ o \in DOMAIN a.relations
  /\ DOMAIN b.relations = DOMAIN a.relations \cup {AsyncView(o)}
  /\ \A x \in DOMAIN a.relations \ {o} : b.relations[x] = a.relations[x] /\ place2[x] = place[x]
  /\ TypeOf(b, o) = "Output" /\ RefsOf(b, o) = <<AsyncView(o), AsyncView(o)>>
  /\ TypeOf(b, AsyncView(o)) = "EventView" /\ RefsOf(b, AsyncView(o)) = RefsOf(a, o)
  /\ place[o].dbId = LocalDbId /\ place2[o] = [dbId |-> LocalDbId, fromDbId |-> LocalDbId]
  /\ place2[AsyncView(o)] = [dbId |-> LocalDbId, fromDbId |-> place[o].fromDbId]
  /\ Splits(b) = Splits(a) \cup {o}

LEMMA PolicyRelations ==
  ASSUME NEW a, Sound(a), Mirror(a, {}), NEW o \in ProgramNames,
         o \in OfType(a, {"Output", "EventView"}), AsyncView(o) \notin DOMAIN a.relations
  PROVE  LET A == AsyncView(o)
             b == ApplyAsyncPolicy(a, o)
         IN  /\ Mirror(b, {})
             /\ b.relations = [x \in DOMAIN a.relations \cup {A} |->
                                 IF x = o THEN Relation(o, "Output", <<<<A>>, <<A>>>>)
                                 ELSE IF x = A THEN Relation(A, "EventView", a.relations[o].refs)
                                 ELSE a.relations[x]]
             /\ Relation(o, "Output", <<<<A>>, <<A>>>>) \in RelationSet
             /\ Relation(A, "EventView", a.relations[o].refs) \in RelationSet
             /\ Reads(Relation(o, "Output", <<<<A>>, <<A>>>>)) = <<A, A>>
<1> DEFINE A    == AsyncView(o)
           b    == ApplyAsyncPolicy(a, o)
           rel1 == Relation(A, "EventView", a.relations[o].refs)
           rel2 == Relation(o, "Output", <<<<A>>, <<A>>>>)
           a1   == DeleteRelation(a, o)
           a2   == AddRelation(a1, rel1)
           R    == DOMAIN a.relations
<1>1. /\ o \in R /\ o \in Derived(a) /\ o \in AllNames /\ A \in AllNames /\ A # o /\ A \notin R
      /\ a.relations[o] \in RelationSet
  <2>1. A \in Evaluated \ ProgramNames /\ o \in Evaluated
    BY AsyncViewIs
  <2>2. Evaluated \subseteq AllNames
    BY DEF AllNames
  <2>3. o \in R /\ o \in Derived(a)
    BY DEF OfType, Derived
  <2> QED  BY <2>1, <2>2, <2>3 DEF Sound
<1>2. rel1 \in RelationSet /\ rel1.rName = A /\ rel1.relationType = "EventView"
  BY <1>1 DEF Relation, RelationSet, RelationTypes
<1>3. rel2 \in RelationSet /\ rel2.rName = o /\ rel2.relationType = "Output"
  BY <1>1 DEF Relation, RelationSet, RelationTypes
<1>4. Reads(rel2) = <<A, A>> /\ Reads(rel1) = RefsOf(a, o)
  <2>1. <<A, A>> \in Seq(AllNames)
    BY <1>1
  <2> DEFINE s == <<A, A>>
  <2>2. [i \in DOMAIN s |-> <<s[i]>>] = <<<<A>>, <<A>>>>
    OBVIOUS
  <2>3. Concatenation([i \in DOMAIN s |-> <<s[i]>>]) = s
    <3> HIDE DEF s
    <3> QED  BY <2>1, ConcatenationOfOnes DEF s
  <2>4. Reads(rel2) = <<A, A>>
    BY <2>2, <2>3 DEF Reads, Relation
  <2>5. Reads(rel1) = RefsOf(a, o)
    BY DEF Reads, Relation, RefsOf
  <2> QED  BY <2>4, <2>5
<1>5. /\ a1 = [relations |-> [x \in R \ {o} |-> a.relations[x]], depTree |-> a.depTree]
      /\ a1.relations = [x \in R \ {o} |-> a.relations[x]] /\ a1.depTree = a.depTree
      /\ DOMAIN a1.relations = R \ {o}
  BY DEF DeleteRelation, Mirror
<1>6. Mirror(a1, {o})
  <2> DEFINE N == DOMAIN a.depTree.node
  <2>1. /\ IsTree(a.depTree, AllNames) /\ N \subseteq R
        /\ \A x \in N \cap R : a.depTree.node[x].dependsOn = RefsOf(a, x)
        /\ \A x \in Derived(a) : x \in N /\ ToSet(RefsOf(a, x)) \subseteq N
        /\ \A x \in R \ Derived(a) : RefsOf(a, x) = <<>>
    BY DEF Mirror
  <2>2. /\ \A x \in R \ {o} : RefsOf(a1, x) = RefsOf(a, x)
        /\ \A x \in R \ {o} : x \in Derived(a1) <=> x \in Derived(a)
        /\ Derived(a1) \subseteq R \ {o}
    BY <1>5 DEF RefsOf, Derived, OfType, TypeOf, GetRelationDef
  <2>3. a1 = [relations |-> a1.relations, depTree |-> a1.depTree]
    BY <1>5
  <2> HIDE DEF a1, N, R
  <2>4. N \subseteq DOMAIN a1.relations \cup {o}
    BY <2>1, <1>5
  <2>5. \A x \in N \cap DOMAIN a1.relations : a.depTree.node[x].dependsOn = RefsOf(a1, x)
    BY <2>1, <2>2, <1>5
  <2>6. \A x \in Derived(a1) : x \in N /\ ToSet(RefsOf(a1, x)) \subseteq N
    BY <2>1, <2>2
  <2>7. \A x \in DOMAIN a1.relations \ Derived(a1) : RefsOf(a1, x) = <<>>
    BY <2>1, <2>2, <1>5
  <2> QED  BY <2>1, <2>3, <2>4, <2>5, <2>6, <2>7, <1>5 DEF Mirror, N
<1>7. ToSet(RefsOf(a, o)) \subseteq R
  BY <1>1 DEF Sound
<1> HIDE DEF rel1, rel2, a1
<1>8. a2.relations = With(a1.relations, rel1) /\ Mirror(a2, {o})
  <2>1. /\ {o} \in SUBSET AllNames /\ rel1.rName \notin DOMAIN a1.relations
        /\ IsRelationTypeDerived(rel1.relationType)
        /\ ToSet(Reads(rel1)) \subseteq DOMAIN a1.relations \cup {o}
    BY <1>1, <1>2, <1>4, <1>5, <1>7 DEF IsRelationTypeDerived
  <2>2. a2.relations = With(a1.relations, rel1) /\ Mirror(a2, {o} \ {rel1.rName})
    BY <2>1, <1>2, <1>6, AddRelationIs
  <2>3. {o} \ {rel1.rName} = {o}
    BY <1>1, <1>2
  <2> QED  BY <2>2, <2>3
<1>9. b = AddRelation(a2, rel2)
  BY DEF ApplyAsyncPolicy, a1, rel1, rel2, GetRelationDef
<1> HIDE DEF a2, b
<1>10. b.relations = With(a2.relations, rel2) /\ Mirror(b, {})
  <2>1. DOMAIN a2.relations = (R \ {o}) \cup {A}
    BY <1>2, <1>5, <1>8 DEF With
  <2>2. ToSet(Reads(rel2)) = {A}
    BY <1>4 DEF ToSet
  <2>3. /\ {o} \in SUBSET AllNames /\ rel2.rName \notin DOMAIN a2.relations
        /\ IsRelationTypeDerived(rel2.relationType)
        /\ ToSet(Reads(rel2)) \subseteq DOMAIN a2.relations \cup {o}
    BY <2>1, <2>2, <1>1, <1>3 DEF IsRelationTypeDerived
  <2>4. /\ AddRelation(a2, rel2).relations = With(a2.relations, rel2)
        /\ Mirror(AddRelation(a2, rel2), {o} \ {rel2.rName})
    BY <2>3, <1>3, <1>8, AddRelationIs
  <2>5. {o} \ {rel2.rName} = {}
    BY <1>3
  <2> QED  BY <2>4, <2>5, <1>9
<1>11. b.relations = [x \in R \cup {A} |-> IF x = o THEN rel2 ELSE IF x = A THEN rel1 ELSE a.relations[x]]
  <2>1. a2.relations = [x \in (R \ {o}) \cup {A} |-> IF x = A THEN rel1 ELSE a.relations[x]]
    BY <1>1, <1>2, <1>5, <1>8 DEF With
  <2> HIDE DEF R, A
  <2>2. b.relations = [x \in ((R \ {o}) \cup {A}) \cup {o} |->
                         IF x = o THEN rel2 ELSE IF x = A THEN rel1 ELSE a.relations[x]]
    BY <2>1, <1>3, <1>10 DEF With
  <2>3. ((R \ {o}) \cup {A}) \cup {o} = R \cup {A}
    BY <1>1
  <2> QED  BY <2>2, <2>3
<1> QED  BY <1>2, <1>3, <1>4, <1>10, <1>11 DEF rel1, rel2, b

LEMMA PolicyIs ==
  ASSUME NEW a, NEW n, NEW rank, NEW place, IsProgram(a, n, rank, place),
         NEW o \in ProgramNames, o \in OfType(a, {"Output", "EventView"}),
         AsyncView(o) \notin DOMAIN a.relations, place[o].fromDbId # LocalDbId
  PROVE  \E n2, rank2, place2 : /\ IsProgram(ApplyAsyncPolicy(a, o), n2, rank2, place2)
                                /\ IsSplitAt(a, place, ApplyAsyncPolicy(a, o), place2, o)
<1> DEFINE A      == AsyncView(o)
           b      == ApplyAsyncPolicy(a, o)
           R      == DOMAIN a.relations
           B      == DOMAIN b.relations
           rel1   == Relation(A, "EventView", a.relations[o].refs)
           rel2   == Relation(o, "Output", <<<<A>>, <<A>>>>)
           owner  == place[o].fromDbId
           rank2  == [x \in B |-> IF x = A THEN rank[o] + rank[o] ELSE rank[x] + rank[x] + 1]
           place2 == [x \in B |-> IF x = o THEN [dbId |-> LocalDbId, fromDbId |-> LocalDbId]
                                  ELSE IF x = A THEN [dbId |-> LocalDbId, fromDbId |-> owner]
                                  ELSE place[x]]
<1>1. /\ n \in Nat /\ Sound(a) /\ RankedBy(a, n, rank) /\ PlacedBy(a, place) /\ SplitsAre(a, place)
      /\ Mirror(a, {})
  BY DEF IsProgram
<1>2. /\ Mirror(b, {}) /\ rel1 \in RelationSet /\ rel2 \in RelationSet /\ Reads(rel2) = <<A, A>>
      /\ b.relations = [x \in R \cup {A} |-> IF x = o THEN rel2 ELSE IF x = A THEN rel1
                                             ELSE a.relations[x]]
  BY <1>1, PolicyRelations
<1>3. /\ o \in R /\ A \notin R /\ A # o /\ A \in Evaluated /\ A \notin ProgramNames /\ o \in Evaluated
      /\ TypeOf(a, o) \in {"Output", "EventView"} /\ o \in Derived(a)
  BY AsyncViewIs DEF OfType, Derived
<1>4. /\ rel1.rName = A /\ rel1.relationType = "EventView" /\ Reads(rel1) = RefsOf(a, o)
      /\ rel2.rName = o /\ rel2.relationType = "Output"
  BY DEF Relation, Reads, RefsOf
<1> HIDE DEF b, rel1, rel2, A, R
<1>5. /\ B = R \cup {A} /\ b.relations[o] = rel2 /\ b.relations[A] = rel1
      /\ \A x \in R \ {o} : x # A /\ b.relations[x] = a.relations[x]
  BY <1>2, <1>3
<1>6. /\ RefsOf(b, o) = <<A, A>> /\ TypeOf(b, o) = "Output"
      /\ RefsOf(b, A) = RefsOf(a, o) /\ TypeOf(b, A) = "EventView"
      /\ \A x \in R \ {o} : RefsOf(b, x) = RefsOf(a, x) /\ TypeOf(b, x) = TypeOf(a, x)
  BY <1>2, <1>4, <1>5 DEF RefsOf, TypeOf, GetRelationDef
<1>7. /\ \A T : OfType(b, T) \cap (R \ {o}) = OfType(a, T) \ {o} /\ OfType(b, T) \subseteq R \cup {A}
      /\ \A T : o \in OfType(b, T) <=> "Output" \in T
      /\ \A T : A \in OfType(b, T) <=> "EventView" \in T
      /\ \A T : OfType(a, T) \subseteq R
  BY <1>3, <1>5, <1>6 DEF OfType, R
<1>8. /\ RefsOf(a, o) # <<>> /\ RefsOf(a, o) \in Seq(R)
      /\ \A i \in DOMAIN RefsOf(a, o) : RefsOf(a, o)[i] \in R /\ RefsOf(a, o)[i] \in ToSet(RefsOf(a, o))
  BY <1>1, <1>3, ReadsAre DEF Sound, R
<1>9. /\ \A y \in ToSet(RefsOf(a, o)) : y \in R /\ y # o
      /\ \A x \in R : \A i \in DOMAIN RefsOf(a, x) : RefsOf(a, x)[i] \in R
  <2>1. \A x \in R : rank[x] \in 0..n
    BY <1>1 DEF RankedBy, R
  <2>2. \A y \in ToSet(RefsOf(a, o)) : y \in R
    BY <1>8 DEF ToSet
  <2>3. \A y \in ToSet(RefsOf(a, o)) : rank[y] < rank[o]
    BY <1>1, <1>3 DEF RankedBy, R
  <2>4. rank[o] \in Int /\ ~(rank[o] < rank[o])
    BY <2>1, <1>1, <1>3
  <2> QED  BY <2>2, <2>3, <2>4, <1>1, ReadsAre DEF R
<1>10. ToSet(<<A, A>>) = {A}
  BY DEF ToSet
<1>11. /\ rank2[A] = rank[o] + rank[o] /\ \A x \in R : rank2[x] = rank[x] + rank[x] + 1
       /\ place2[o] = [dbId |-> LocalDbId, fromDbId |-> LocalDbId]
       /\ place2[A] = [dbId |-> LocalDbId, fromDbId |-> owner]
       /\ \A x \in R \ {o} : place2[x] = place[x]
       /\ rank2 = [x \in B |-> rank2[x]] /\ place2 = [x \in B |-> place2[x]]
  BY <1>3, <1>5
<1> HIDE DEF rank2, place2
<1>12. place[o].dbId = LocalDbId /\ place[o] = PlaceAt("Output", owner) /\ owner \in Db
  <2>1. place[o] = PlaceAt(TypeOf(a, o), OwnerOf(a, o, place)) /\ place[o] \in Places
    BY <1>1, <1>3 DEF PlacedBy, R
  <2> QED  BY <2>1, <1>3 DEF PlaceAt, Places
<1>13. \A x \in R : place2[x].dbId = place[x].dbId
  BY <1>11, <1>12
<1>14. Sound(b)
  <2>1. b.relations \in [B -> RelationSet] /\ B \subseteq AllNames
    <3>1. b.relations = [x \in B |-> b.relations[x]]
      BY <1>2, <1>5
    <3>2. \A x \in B : b.relations[x] \in RelationSet
      BY <1>1, <1>2, <1>5 DEF Sound, R
    <3>3. B \subseteq AllNames
      BY <1>1, <1>3, <1>5 DEF Sound, R, AllNames
    <3> HIDE DEF B
    <3> QED  BY <3>1, <3>2, <3>3
  <2>2. \A x \in B : b.relations[x].rName = x
    BY <1>1, <1>4, <1>5 DEF Sound, R
  <2>3. \A x \in B \ Derived(b) : b.relations[x].refs = <<>>
    <3>1. /\ o \in Derived(b) /\ A \in Derived(b)
          /\ \A x \in R \ {o} : x \in Derived(b) <=> x \in Derived(a)
      BY <1>7 DEF Derived
    <3> QED  BY <3>1, <1>1, <1>5 DEF Sound, R
  <2>4. ASSUME NEW x \in Derived(b)
        PROVE  x \in Evaluated /\ RefsOf(b, x) # <<>> /\ ToSet(RefsOf(b, x)) \subseteq B
    <3>1. CASE x \in R \ {o}
      <4>1. x \in Derived(a)
        BY <3>1, <1>7 DEF Derived
      <4> QED  BY <4>1, <3>1, <1>1, <1>5, <1>6 DEF Sound, R
    <3>2. CASE x = o
      BY <3>2, <1>3, <1>5, <1>6, <1>10
    <3>3. CASE x = A
      BY <3>3, <1>3, <1>5, <1>6, <1>8, <1>9
    <3> QED  BY <3>1, <3>2, <3>3, <1>7 DEF Derived
  <2>5. OfType(b, {"ExistingAndImmutable"}) \subseteq DOMAIN RelationLocation
    BY <1>1, <1>7 DEF Sound
  <2>6. OfType(b, {"Output"}) \subseteq ProgramNames
    BY <1>1, <1>7 DEF Sound
  <2>7. \A x \in TableNames : x \in B /\ b.relations[x] = Tables[x]
    <3>1. \A x \in TableNames : x \in R /\ a.relations[x] = Tables[x]
      BY <1>1 DEF Sound, R
    <3>2. \A x \in TableNames : Tables[x].relationType \in {"EventTable", "Table", "ExistingAndImmutable"}
      BY DEF Tables, Relation
    <3>3. o \notin TableNames
      BY <3>1, <3>2, <1>3 DEF TypeOf, GetRelationDef
    <3> QED  BY <3>1, <3>3, <1>5
  <2>8. ASSUME NEW p \in ProgramNames, Has(b, AsyncView(p)) PROVE p \in OfType(b, {"Output"})
    <3>1. CASE p = o
      BY <3>1, <1>7
    <3>2. CASE p # o
      <4>1. AsyncView(p) # A
        BY <3>2, NameAssumption DEF A
      <4>2. p \in OfType(a, {"Output"})
        BY <4>1, <2>8, <1>1, <1>5 DEF Sound, Has, R
      <4> QED  BY <4>2, <3>2, <1>7
    <3> QED  BY <3>1, <3>2
  <2> QED  BY <2>1, <2>2, <2>3, <2>4, <2>5, <2>6, <2>7, <2>8 DEF Sound
<1>15. RankedBy(b, n + n + 1, rank2)
  <2>1. \A x \in R : rank[x] \in 0..n
    BY <1>1 DEF RankedBy, R
  <2>2. /\ \A i \in 0..n : i + i \in 0..(n + n + 1) /\ i + i + 1 \in 0..(n + n + 1)
        /\ \A i, j \in 0..n : i < j => i + i + 1 < j + j /\ i + i + 1 < j + j + 1
        /\ \A i \in 0..n : i + i < i + i + 1
    BY <1>1
  <2>3. \A x \in B : rank2[x] \in 0..(n + n + 1)
    BY <2>1, <2>2, <1>3, <1>5, <1>11
  <2>4. ASSUME NEW x \in B, NEW y \in ToSet(RefsOf(b, x)) PROVE rank2[y] < rank2[x]
    <3>1. CASE x \in R \ {o}
      <4>1. y \in ToSet(RefsOf(a, x)) /\ x \in R
        BY <3>1, <1>6
      <4>2. y \in R
        BY <4>1, <1>9 DEF ToSet
      <4>3. rank[y] < rank[x]
        BY <4>1, <1>1 DEF RankedBy, R
      <4> QED  BY <4>1, <4>2, <4>3, <2>1, <2>2, <1>11
    <3>2. CASE x = o
      <4>1. y = A
        BY <3>2, <1>6, <1>10
      <4> QED  BY <4>1, <3>2, <2>1, <2>2, <1>3, <1>11
    <3>3. CASE x = A
      <4>1. y \in ToSet(RefsOf(a, o)) /\ y \in R
        BY <3>3, <1>6, <1>9
      <4>2. rank[y] < rank[o]
        BY <4>1, <1>1, <1>3 DEF RankedBy, R
      <4> QED  BY <4>1, <4>2, <3>3, <2>1, <2>2, <1>3, <1>11
    <3> QED  BY <3>1, <3>2, <3>3, <1>5
  <2> HIDE DEF B
  <2> QED  BY <2>3, <2>4, <1>11 DEF RankedBy, B
<1>16. PlacedBy(b, place2)
  <2>1. \A x \in B : place2[x] \in Places
    <3>1. place2[o] \in Places /\ place2[A] \in Places
      BY <1>11, <1>12, PlanAssumption DEF Places
    <3>2. \A x \in R : place[x] \in Places
      BY <1>1 DEF PlacedBy, R
    <3> QED  BY <3>1, <3>2, <1>5, <1>11
  <2>2. ASSUME NEW x \in B PROVE place2[x] = PlaceAt(TypeOf(b, x), OwnerOf(b, x, place2))
    <3>1. CASE x \in R \ {o}
      <4>1. \A i \in DOMAIN RefsOf(a, x) : RefsOf(a, x)[i] \in R
        BY <3>1, <1>9
      <4>2. b.relations[x] = a.relations[x]
        BY <3>1, <1>5
      <4>3. \A i \in DOMAIN RefsOf(a, x) : place2[RefsOf(a, x)[i]].dbId = place[RefsOf(a, x)[i]].dbId
        BY <4>1, <1>13
      <4>4. OwnerOf(b, x, place2) = OwnerOf(a, x, place)
        BY <4>2, <4>3, OwnerAgrees
      <4>5. place[x] = PlaceAt(TypeOf(a, x), OwnerOf(a, x, place))
        BY <3>1, <1>1 DEF PlacedBy, R
      <4> QED  BY <4>4, <4>5, <3>1, <1>6, <1>11
    <3>2. CASE x = o
      <4>1. [i \in DOMAIN RefsOf(b, o) |-> place2[RefsOf(b, o)[i]].dbId] = <<LocalDbId, LocalDbId>>
        BY <1>6, <1>11
      <4>2. OwnerOf(b, o, place2) = LocalDbId
        BY <4>1, <1>6, OwnerOfLocal DEF OwnerOf
      <4> QED  BY <4>2, <3>2, <1>6, <1>11 DEF PlaceAt
    <3>3. CASE x = A
      <4>1. [i \in DOMAIN RefsOf(a, o) |-> place2[RefsOf(a, o)[i]].dbId]
              = [i \in DOMAIN RefsOf(a, o) |-> place[RefsOf(a, o)[i]].dbId]
        BY <1>8, <1>13
      <4>2. OwnerOf(b, A, place2) = OwnerOf(a, o, place)
        BY <4>1, <1>6, <1>8 DEF OwnerOf
      <4>3. OwnerOf(a, o, place) = owner
        <5>1. place[o] = PlaceAt(TypeOf(a, o), OwnerOf(a, o, place))
          BY <1>1, <1>3 DEF PlacedBy, R
        <5> QED  BY <5>1 DEF PlaceAt
      <4> QED  BY <4>2, <4>3, <3>3, <1>6, <1>11 DEF PlaceAt
    <3> QED  BY <3>1, <3>2, <3>3, <1>5
  <2> HIDE DEF B
  <2> QED  BY <2>1, <2>2, <1>11 DEF PlacedBy, B
<1>17. Splits(b) = Splits(a) \cup {o}
  <2>1. OfType(a, {"Output"}) \subseteq ProgramNames /\ OfType(b, {"Output"}) \subseteq ProgramNames
    BY <1>1, <1>14 DEF Sound
  <2>2. \A p \in ProgramNames : p # o => (Has(b, AsyncView(p)) <=> Has(a, AsyncView(p)))
    <3>1. \A p \in ProgramNames : p # o => AsyncView(p) # A
      BY NameAssumption DEF A
    <3> QED  BY <3>1, <1>5 DEF Has, R
  <2>3. o \in Splits(b)
    BY <1>5, <1>7 DEF Splits, Has, A
  <2>4. \A p : p # o /\ p # A => (p \in OfType(b, {"Output"}) <=> p \in OfType(a, {"Output"}))
    BY <1>7
  <2>5. A \notin ProgramNames
    BY <1>3
  <2> QED  BY <2>1, <2>2, <2>3, <2>4, <2>5 DEF Splits
<1>18. SplitsAre(b, place2)
  <2>1. ASSUME NEW p \in Splits(b)
        PROVE  /\ TypeOf(b, AsyncView(p)) = "EventView"
               /\ RefsOf(b, p) = <<AsyncView(p), AsyncView(p)>>
               /\ place2[AsyncView(p)].fromDbId # LocalDbId
    <3>1. CASE p = o
      BY <3>1, <1>6, <1>11 DEF A
    <3>2. CASE p # o
      <4>1. p \in Splits(a) /\ p \in R \ {o} /\ AsyncView(p) \in R
        BY <3>2, <1>17, SplitsIn DEF R
      <4>2. AsyncView(p) # o
        <5>1. p \in ProgramNames
          BY <4>1, <1>1 DEF Sound, Splits
        <5> QED  BY <5>1, AsyncViewIs
      <4> QED  BY <4>1, <4>2, <1>1, <1>6, <1>11 DEF SplitsAre
    <3> QED  BY <3>1, <3>2
  <2> QED  BY <2>1 DEF SplitsAre
<1>19. IsProgram(b, n + n + 1, rank2, place2)
  <2>1. n + n + 1 \in Nat
    BY <1>1
  <2> QED  BY <2>1, <1>2, <1>14, <1>15, <1>16, <1>18 DEF IsProgram
<1>20. IsSplitAt(a, place, b, place2, o)
  <2>1. AsyncView(o) = A
    BY DEF A
  <2> HIDE DEF owner
  <2>2. place2[A] = [dbId |-> LocalDbId, fromDbId |-> place[o].fromDbId]
    BY <1>11 DEF owner
  <2> QED  BY <2>1, <2>2, <1>3, <1>5, <1>6, <1>11, <1>12, <1>17 DEF IsSplitAt, R
<1> QED  BY <1>19, <1>20 DEF b

-----------------------------------------------------------------------------
(***************************************************************************)
(* What was needed of o is needed by the event view; what was needed before*)
(* is needed as well, because the place of o in between does not change.   *)
(***************************************************************************)
Moved(d, o) ==
  CASE d.relationName = o -> [d EXCEPT !.from = LocalDbId]
    [] d.relationName # o /\ d.forRelationName = o -> [d EXCEPT !.forRelationName = AsyncView(o)]
    [] OTHER -> d

LEMMA MovedIs ==
  ASSUME NEW d \in DistributionSet, NEW o \in ProgramNames
  PROVE  /\ Moved(d, o) \in DistributionSet
         /\ Moved(d, o).relationName = d.relationName /\ Moved(d, o).to = d.to
         /\ Moved(d, o).from = IF d.relationName = o THEN LocalDbId ELSE d.from
         /\ Moved(d, o).forRelationName =
              IF d.relationName # o /\ d.forRelationName = o THEN AsyncView(o) ELSE d.forRelationName
<1>1. AsyncView(o) \in AllNames /\ LocalDbId \in Db
  BY AsyncViewIs, PlanAssumption DEF AllNames
<1>2. CASE d.relationName = o
  <2>1. Moved(d, o) = [d EXCEPT !.from = LocalDbId]
    BY <1>2 DEF Moved
  <2> QED  BY <2>1, <1>1, <1>2 DEF DistributionSet
<1>3. CASE d.relationName # o /\ d.forRelationName = o
  <2>1. Moved(d, o) = [d EXCEPT !.forRelationName = AsyncView(o)]
    BY <1>3 DEF Moved
  <2> QED  BY <2>1, <1>1, <1>3 DEF DistributionSet
<1>4. CASE d.relationName # o /\ d.forRelationName # o
  <2>1. Moved(d, o) = d
    BY <1>4 DEF Moved
  <2> QED  BY <2>1, <1>4
<1> QED  BY <1>2, <1>3, <1>4

LEMMA SplitKeepsNeeded ==
  ASSUME NEW a, NEW n, NEW rank, NEW place, IsProgram(a, n, rank, place),
         NEW b, NEW place2, NEW o \in ProgramNames, IsSplitAt(a, place, b, place2, o),
         NEW d, IsNeeded(a, place, d)
  PROVE  /\ IsNeeded(b, place2, d)
         /\ d \in DistributionSet => IsNeeded(b, place2, Moved(d, o))
<1> DEFINE A == AsyncView(o)
           R == DOMAIN a.relations
           x == d.relationName
           f == d.forRelationName
<1>1. /\ A \notin R /\ o \in R /\ A # o /\ DOMAIN b.relations = R \cup {A}
      /\ \A y \in R \ {o} : b.relations[y] = a.relations[y] /\ place2[y] = place[y]
      /\ TypeOf(b, o) = "Output" /\ RefsOf(b, o) = <<A, A>>
      /\ TypeOf(b, A) = "EventView" /\ RefsOf(b, A) = RefsOf(a, o)
      /\ place[o].dbId = LocalDbId /\ place2[o] = [dbId |-> LocalDbId, fromDbId |-> LocalDbId]
      /\ place2[A] = [dbId |-> LocalDbId, fromDbId |-> place[o].fromDbId]
      /\ Splits(b) = Splits(a) \cup {o}
  BY DEF IsSplitAt
<1> HIDE DEF A
<1>2. /\ \A y \in R \ {o} : TypeOf(b, y) = TypeOf(a, y) /\ RefsOf(b, y) = RefsOf(a, y)
      /\ \A y \in R : place2[y].dbId = place[y].dbId
      /\ \A y \in R \ {o} : place2[y].fromDbId = place[y].fromDbId
      /\ place2[A].fromDbId = place[o].fromDbId
  BY <1>1 DEF TypeOf, GetRelationDef, RefsOf
<1>3. /\ \A y \in R : Now(b, y) = IF y = o THEN A ELSE Now(a, y)
      /\ o \notin Splits(a) /\ Now(a, o) = o
      /\ \A y \in R \ {o} : Now(a, y) \in R \ {o}
  <2>1. o \notin Splits(a)
    BY <1>1, SplitsIn DEF A
  <2>2. \A y \in R : Now(b, y) = IF y = o THEN A ELSE Now(a, y)
    BY <1>1, <2>1 DEF Now, A
  <2>3. ASSUME NEW y \in R \ {o} PROVE Now(a, y) \in R \ {o}
    <3>1. CASE y \in Splits(a)
      <4>1. y \in ProgramNames
        BY <3>1 DEF IsProgram, Sound, Splits
      <4>2. AsyncView(y) # o
        BY <4>1, AsyncViewIs
      <4> QED  BY <4>2, <3>1, SplitsIn DEF Now
    <3>2. CASE y \notin Splits(a)
      BY <3>2 DEF Now
    <3> QED  BY <3>1, <3>2
  <2> QED  BY <2>1, <2>2, <2>3 DEF Now
<1>4. /\ x \in R /\ f \in R /\ x \in DOMAIN b.relations /\ f \in DOMAIN b.relations
      /\ A \in DOMAIN b.relations
  BY <1>1 DEF IsNeeded
<1>5. CASE IsOwn(a, place, d)
  <2>1. /\ f = x /\ TypeOf(a, x) # "View" /\ d.to = place[x].dbId
        /\ \E g \in {x, Now(a, x)} : d.from = place[g].fromDbId
    BY <1>5 DEF IsOwn
  <2>2. TypeOf(b, x) # "View" /\ d.to = place2[x].dbId
    BY <2>1, <1>1, <1>2, <1>4
  <2>3. \E g \in {x, Now(b, x)} : d.from = place2[g].fromDbId
    <3>1. CASE x = o
      BY <3>1, <2>1, <1>2, <1>3, <1>4
    <3>2. CASE x # o
      BY <3>2, <2>1, <1>2, <1>3, <1>4
    <3> QED  BY <3>1, <3>2
  <2>4. IsNeeded(b, place2, d)
    BY <2>1, <2>2, <2>3, <1>4 DEF IsOwn, IsNeeded
  <2>5. ASSUME d \in DistributionSet PROVE IsNeeded(b, place2, Moved(d, o))
    <3> DEFINE e == Moved(d, o)
    <3>1. CASE x = o
      <4>1. /\ e.relationName = x /\ e.to = d.to /\ e.from = LocalDbId /\ e.forRelationName = f
        BY <3>1, <2>5, MovedIs
      <4>2. e.from = place2[x].fromDbId /\ x \in {x, Now(b, x)}
        BY <4>1, <3>1, <1>1
      <4> HIDE DEF e
      <4>3. \E g \in {x, Now(b, x)} : e.from = place2[g].fromDbId
        BY <4>2
      <4>4. IsOwn(b, place2, e)
        BY <4>1, <4>3, <2>1, <2>2 DEF IsOwn
      <4> QED  BY <4>1, <4>4, <2>1, <1>4 DEF IsNeeded, e
    <3>2. CASE x # o
      <4>1. Moved(d, o) = d
        BY <3>2, <2>1 DEF Moved
      <4> QED  BY <4>1, <2>4
    <3> QED  BY <3>1, <3>2
  <2> QED  BY <2>4, <2>5
<1>6. CASE IsShip(a, place, d)
  <2>1. PICK g \in {f, Now(a, f)} : x \in ToSet(RefsOf(a, g)) /\ d.to = place[g].fromDbId
    BY <1>6 DEF IsShip
  <2>2. d.from = place[x].dbId /\ d.from = place2[x].dbId
    BY <1>6, <1>2, <1>4 DEF IsShip
  <2>3. CASE f = o
    <3>1. g = o
      BY <2>1, <2>3, <1>3
    <3>2. A = Now(b, f) /\ x \in ToSet(RefsOf(b, A)) /\ d.to = place2[A].fromDbId
      BY <3>1, <2>1, <2>3, <1>1, <1>2, <1>3, <1>4
    <3>3. IsNeeded(b, place2, d)
      BY <3>2, <2>2, <1>4 DEF IsShip, IsNeeded
    <3>4. ASSUME d \in DistributionSet PROVE IsNeeded(b, place2, Moved(d, o))
      <4> DEFINE e == Moved(d, o)
      <4>1. x # o
        <5>1. RankedBy(a, n, rank) /\ n \in Nat
          BY DEF IsProgram
        <5>2. rank[x] < rank[o] /\ rank[o] \in 0..n
          BY <5>1, <3>1, <2>1, <1>1 DEF RankedBy
        <5> QED  BY <5>1, <5>2
      <4>2. /\ e.relationName = x /\ e.to = d.to /\ e.from = d.from /\ e.forRelationName = A
        BY <3>4, <4>1, <2>3, MovedIs DEF A
      <4> HIDE DEF e
      <4>3. IsShip(b, place2, e)
        BY <4>2, <3>2, <2>2 DEF IsShip
      <4> QED  BY <4>2, <4>3, <1>4 DEF IsNeeded, e
    <3> QED  BY <3>3, <3>4
  <2>4. CASE f # o
    <3>1. g \in {f, Now(b, f)} /\ g \in R \ {o}
      BY <2>1, <2>4, <1>3, <1>4
    <3>2. x \in ToSet(RefsOf(b, g)) /\ d.to = place2[g].fromDbId
      BY <3>1, <2>1, <1>2
    <3>3. IsNeeded(b, place2, d)
      BY <3>1, <3>2, <2>2, <1>4 DEF IsShip, IsNeeded
    <3>4. ASSUME d \in DistributionSet PROVE IsNeeded(b, place2, Moved(d, o))
      <4> DEFINE e == Moved(d, o)
      <4>1. /\ e.relationName = x /\ e.to = d.to /\ e.forRelationName = f
            /\ e.from = IF x = o THEN LocalDbId ELSE d.from
        BY <3>4, <2>4, MovedIs
      <4>2. e.from = place2[x].dbId
        BY <4>1, <2>2, <1>1
      <4> HIDE DEF e
      <4>3. IsShip(b, place2, e)
        BY <4>1, <4>2, <3>1, <3>2 DEF IsShip
      <4> QED  BY <4>1, <4>3, <1>4 DEF IsNeeded, e
    <3> QED  BY <3>3, <3>4
  <2> QED  BY <2>3, <2>4
<1> QED  BY <1>5, <1>6 DEF IsNeeded

SplitOwn(o, owner) == Distribution(AsyncView(o), owner, LocalDbId, AsyncView(o), o)
SplitShip(o) == Distribution(AsyncView(o), LocalDbId, LocalDbId, o, o)

MovedSet(L, o, owner) == {Moved(d, o) : d \in L} \cup {SplitOwn(o, owner), SplitShip(o)}

LEMMA SplitPlanned ==
  ASSUME NEW a, NEW n, NEW rank, NEW place, IsProgram(a, n, rank, place),
         NEW b, NEW n2, NEW rank2, NEW place2, IsProgram(b, n2, rank2, place2),
         NEW o \in ProgramNames, IsSplitAt(a, place, b, place2, o),
         NEW L, NEW K, PlannedSet(a, place, L \cup K), \E d \in L : d.relationName = o,
         Complete(a, place, L, o)
  PROVE  PlannedSet(b, place2, MovedSet(L, o, place[o].fromDbId) \cup K)
<1> DEFINE A     == AsyncView(o)
           R     == DOMAIN a.relations
           owner == place[o].fromDbId
           own   == SplitOwn(o, owner)
           ship  == SplitShip(o)
           M     == MovedSet(L, o, owner) \cup K
<1>1. /\ A \notin R /\ o \in R /\ A # o /\ DOMAIN b.relations = R \cup {A}
      /\ \A y \in R \ {o} : b.relations[y] = a.relations[y] /\ place2[y] = place[y]
      /\ TypeOf(b, o) = "Output" /\ RefsOf(b, o) = <<A, A>>
      /\ TypeOf(b, A) = "EventView" /\ RefsOf(b, A) = RefsOf(a, o)
      /\ place[o].dbId = LocalDbId /\ place2[o] = [dbId |-> LocalDbId, fromDbId |-> LocalDbId]
      /\ place2[A] = [dbId |-> LocalDbId, fromDbId |-> owner]
      /\ Splits(b) = Splits(a) \cup {o}
  BY DEF IsSplitAt
<1>2. /\ \A y \in R \ {o} : RefsOf(b, y) = RefsOf(a, y)
      /\ \A y \in R : place2[y].dbId = place[y].dbId
      /\ \A y \in R \ {o} : place2[y].fromDbId = place[y].fromDbId
      /\ place2[A].fromDbId = owner /\ place2[o].fromDbId = LocalDbId /\ place2[A].dbId = LocalDbId
  BY <1>1 DEF RefsOf
<1>3. \A x \in R : ToSet(RefsOf(a, x)) \subseteq R
  <2>1. ASSUME NEW x \in R PROVE \A i \in DOMAIN RefsOf(a, x) : RefsOf(a, x)[i] \in R
    BY ReadsAre DEF IsProgram
  <2> QED  BY <2>1 DEF ToSet
<1>4. /\ A \in AllNames /\ o \in AllNames /\ owner \in Db /\ LocalDbId \in Db
  <2>1. place[o] \in Places
    BY <1>1 DEF IsProgram, PlacedBy
  <2> QED  BY <2>1, AsyncViewIs, PlanAssumption DEF AllNames, Places
<1>5. /\ own = [relationName |-> A, from |-> owner, to |-> LocalDbId, forRelationName |-> A,
               finalOutputName |-> o]
      /\ ship = [relationName |-> A, from |-> LocalDbId, to |-> LocalDbId, forRelationName |-> o,
               finalOutputName |-> o]
  BY DEF SplitOwn, SplitShip, Distribution
<1>6. own \in DistributionSet /\ ship \in DistributionSet
  BY <1>4, <1>5 DEF DistributionSet
<1>7. own \in M /\ ship \in M /\ (\A d \in L : Moved(d, o) \in M) /\ (\A d \in K : d \in M)
  BY DEF MovedSet
<1>8. \A d \in M : d \in K \/ (\E e \in L : d = Moved(e, o)) \/ d = own \/ d = ship
  BY DEF MovedSet
<1> HIDE DEF M, own, ship, A, owner, R
<1>9. /\ \A d \in L \cup K : d \in DistributionSet /\ IsNeeded(a, place, d)
      /\ \A d \in L \cup K : Complete(a, place, L \cup K, d.relationName)
      /\ \A p \in Splits(a) : Complete(a, place, L \cup K, p)
  BY DEF PlannedSet
<1>10. ASSUME NEW d \in L \cup K, d.from = place[d.relationName].dbId, d.forRelationName # o
       PROVE  \E e \in M : /\ e.relationName = d.relationName /\ e.forRelationName = d.forRelationName
                           /\ e.from = d.from /\ e.to = d.to
  <2>1. CASE d \in K
    BY <2>1, <1>7
  <2>2. CASE d \in L
    <3>1. d \in DistributionSet
      BY <1>9
    <3>2. /\ Moved(d, o).relationName = d.relationName /\ Moved(d, o).to = d.to
          /\ Moved(d, o).from = IF d.relationName = o THEN LocalDbId ELSE d.from
          /\ Moved(d, o).forRelationName = d.forRelationName
      BY <3>1, <1>10, MovedIs
    <3>3. Moved(d, o).from = d.from
      BY <3>2, <1>1, <1>10
    <3> QED  BY <3>2, <3>3, <2>2, <1>7
  <2> QED  BY <2>1, <2>2
<1>11. ASSUME NEW x \in R, x # o, Complete(a, place, L \cup K, x), NEW y \in ToSet(RefsOf(a, x))
       PROVE  \E e \in M : /\ e.relationName = y /\ e.forRelationName = x
                           /\ e.from = place2[y].dbId /\ e.to = place[x].fromDbId
  <2>1. PICK d \in L \cup K : /\ d.relationName = y /\ d.forRelationName = x
                              /\ d.from = place[y].dbId /\ d.to = place[x].fromDbId
    BY <1>11 DEF Complete
  <2>2. PICK e \in M : /\ e.relationName = d.relationName /\ e.forRelationName = d.forRelationName
                       /\ e.from = d.from /\ e.to = d.to
    BY <2>1, <1>10, <1>11
  <2>3. place2[y].dbId = place[y].dbId
    BY <1>2, <1>3
  <2> QED  BY <2>1, <2>2, <2>3
<1>12. Complete(b, place2, M, o)
  <2>1. \A y \in ToSet(RefsOf(b, o)) : y = A
    BY <1>1 DEF ToSet
  <2>2. /\ ship.relationName = A /\ ship.forRelationName = o
        /\ ship.from = place2[A].dbId /\ ship.to = place2[o].fromDbId
    BY <1>2, <1>5
  <2> QED  BY <2>1, <2>2, <1>7 DEF Complete
<1>13. ASSUME NEW x \in R, x # o, Complete(a, place, L \cup K, x) PROVE Complete(b, place2, M, x)
  <2>1. RefsOf(b, x) = RefsOf(a, x) /\ place2[x].fromDbId = place[x].fromDbId
    BY <1>2, <1>13
  <2> QED  BY <2>1, <1>11, <1>13 DEF Complete
<1>14. Complete(b, place2, M, A)
  <2>1. o \notin ToSet(RefsOf(a, o))
    <3>1. RankedBy(a, n, rank) /\ n \in Nat
      BY DEF IsProgram
    <3>2. rank[o] \in 0..n
      BY <3>1, <1>1 DEF RankedBy, R
    <3> QED  BY <3>1, <3>2, <1>1 DEF RankedBy, R
  <2>2. ASSUME NEW y \in ToSet(RefsOf(a, o))
        PROVE  \E e \in M : /\ e.relationName = y /\ e.forRelationName = A
                            /\ e.from = place2[y].dbId /\ e.to = place2[A].fromDbId
    <3>1. PICK d \in L : /\ d.relationName = y /\ d.forRelationName = o
                         /\ d.from = place[y].dbId /\ d.to = owner
      BY DEF Complete, owner
    <3>2. d \in DistributionSet /\ y # o
      BY <1>9, <2>1
    <3>3. /\ Moved(d, o).relationName = y /\ Moved(d, o).to = owner
          /\ Moved(d, o).from = place[y].dbId /\ Moved(d, o).forRelationName = A
      BY <3>1, <3>2, MovedIs DEF A
    <3>4. place2[y].dbId = place[y].dbId /\ place2[A].fromDbId = owner
      BY <1>1, <1>2, <1>3
    <3> QED  BY <3>3, <3>4, <1>7
  <2> QED  BY <2>2, <1>1 DEF Complete
<1>15. ASSUME NEW x \in R, Complete(a, place, L \cup K, x) PROVE Complete(b, place2, M, x)
  BY <1>12, <1>13, <1>15
<1>16. IsNeeded(b, place2, own) /\ IsNeeded(b, place2, ship)
  <2>1. A \in DOMAIN b.relations /\ o \in DOMAIN b.relations
    BY <1>1
  <2>2. IsOwn(b, place2, own)
    BY <1>1, <1>2, <1>5 DEF IsOwn
  <2>3. A \in ToSet(RefsOf(b, o))
    BY <1>1 DEF ToSet
  <2>4. IsShip(b, place2, ship)
    BY <2>3, <1>2, <1>5 DEF IsShip
  <2> QED  BY <2>1, <2>2, <2>4, <1>5 DEF IsNeeded
<1>17. ASSUME NEW d \in M
       PROVE  d \in DistributionSet /\ IsNeeded(b, place2, d) /\ Complete(b, place2, M, d.relationName)
  <2>1. CASE d \in K
    <3>1. d \in DistributionSet /\ IsNeeded(a, place, d) /\ Complete(a, place, L \cup K, d.relationName)
      BY <2>1, <1>9
    <3>2. d.relationName \in R
      BY <3>1 DEF IsNeeded, R
    <3> QED  BY <3>1, <3>2, <1>15, SplitKeepsNeeded
  <2>2. ASSUME NEW e \in L, d = Moved(e, o)
        PROVE  d \in DistributionSet /\ IsNeeded(b, place2, d) /\ Complete(b, place2, M, d.relationName)
    <3>1. e \in DistributionSet /\ IsNeeded(a, place, e) /\ Complete(a, place, L \cup K, e.relationName)
      BY <2>2, <1>9
    <3>2. e.relationName \in R
      BY <3>1 DEF IsNeeded, R
    <3>3. Moved(e, o) \in DistributionSet /\ Moved(e, o).relationName = e.relationName
      BY <3>1, MovedIs
    <3>4. IsNeeded(b, place2, Moved(e, o))
      BY <3>1, SplitKeepsNeeded
    <3>5. Complete(b, place2, M, e.relationName)
      BY <3>1, <3>2, <1>15
    <3> QED  BY <3>3, <3>4, <3>5, <2>2
  <2>3. CASE d = own \/ d = ship
    BY <2>3, <1>5, <1>6, <1>14, <1>16
  <2> QED  BY <2>1, <2>2, <2>3, <1>8
<1>18. ASSUME NEW p \in Splits(b) PROVE Complete(b, place2, M, p)
  <2>1. CASE p = o
    BY <2>1, <1>12
  <2>2. CASE p \in Splits(a)
    <3>1. p \in R
      BY <2>2, SplitsIn DEF R
    <3> QED  BY <3>1, <2>2, <1>9, <1>15
  <2> QED  BY <2>1, <2>2, <1>1
<1>19. PlannedSet(b, place2, M)
  BY <1>17, <1>18 DEF PlannedSet
<1> QED  BY <1>19 DEF M, owner

-----------------------------------------------------------------------------
(***************************************************************************)
(* Retarget moves every distribution and adds the two of the event view;   *)
(* and the evaluation of an output, with the policy or without it.         *)
(***************************************************************************)
LEMMA RetargetIs ==
  ASSUME NEW list \in Seq(DistributionSet), NEW o \in ProgramNames, NEW owner \in Db
  PROVE  LET new == Retarget(list, o, owner)
         IN  /\ new \in Seq(DistributionSet) /\ Len(new) = Len(list) + 2
             /\ \A i \in 1..Len(list) : new[i] = Moved(list[i], o)
             /\ new[Len(list) + 1] = SplitOwn(o, owner) /\ new[Len(list) + 2] = SplitShip(o)
             /\ ToSet(new) = MovedSet(ToSet(list), o, owner)
<1> DEFINE s   == [i \in DOMAIN list |-> Moved(list[i], o)]
           two == <<SplitOwn(o, owner), SplitShip(o)>>
           new == Retarget(list, o, owner)
<1>1. new = s \o two
  BY DEF Retarget, Moved, SplitOwn, SplitShip
<1>2. /\ Len(list) \in Nat /\ DOMAIN list = 1..Len(list)
      /\ \A i \in 1..Len(list) : list[i] \in DistributionSet
  OBVIOUS
<1>3. s \in Seq(DistributionSet) /\ Len(s) = Len(list) /\ \A i \in 1..Len(list) : s[i] = Moved(list[i], o)
  <2>1. \A i \in 1..Len(list) : Moved(list[i], o) \in DistributionSet
    BY <1>2, MovedIs
  <2> QED  BY <2>1, <1>2
<1>4. SplitOwn(o, owner) \in DistributionSet /\ SplitShip(o) \in DistributionSet
  <2>1. o \in AllNames /\ AsyncView(o) \in AllNames /\ LocalDbId \in Db
    BY AsyncViewIs, PlanAssumption DEF AllNames
  <2> QED  BY <2>1 DEF SplitOwn, SplitShip, Distribution, DistributionSet
<1>5. two \in Seq(DistributionSet) /\ Len(two) = 2 /\ two[1] = SplitOwn(o, owner) /\ two[2] = SplitShip(o)
  BY <1>4
<1>6. ToSet(two) = {SplitOwn(o, owner), SplitShip(o)}
  BY <1>5 DEF ToSet
<1>7. ToSet(s) = {Moved(d, o) : d \in ToSet(list)}
  <2>1. ToSet(s) = {s[i] : i \in 1..Len(list)} /\ ToSet(list) = {list[i] : i \in 1..Len(list)}
    BY <1>2 DEF ToSet
  <2> HIDE DEF s
  <2> QED  BY <2>1, <1>3
<1> HIDE DEF s, two, new
<1>8. /\ s \o two \in Seq(DistributionSet) /\ Len(s \o two) = Len(s) + Len(two)
      /\ \A i \in 1..Len(s) : (s \o two)[i] = s[i]
      /\ \A i \in 1..Len(two) : (s \o two)[Len(s) + i] = two[i]
      /\ ToSet(s \o two) = ToSet(s) \cup ToSet(two)
  BY <1>3, <1>5, ToSetOfJoin
<1>9. new[Len(list) + 1] = SplitOwn(o, owner) /\ new[Len(list) + 2] = SplitShip(o)
  <2>1. 1 \in 1..Len(two) /\ 2 \in 1..Len(two)
    BY <1>5
  <2> QED  BY <2>1, <1>1, <1>3, <1>5, <1>8
<1>10. ToSet(new) = MovedSet(ToSet(list), o, owner)
  BY <1>1, <1>6, <1>7, <1>8 DEF MovedSet
<1> QED  BY <1>1, <1>3, <1>5, <1>8, <1>9, <1>10 DEF new

LEMMA RetargetOrdered ==
  ASSUME NEW a, NEW place, NEW b, NEW place2, NEW o \in ProgramNames, IsSplitAt(a, place, b, place2, o),
         NEW owner \in Db, NEW list \in Seq(DistributionSet), Ordered(a, list),
         \A d \in ToSet(list) : d.relationName \in DOMAIN a.relations
  PROVE  Ordered(b, Retarget(list, o, owner)) /\ Ordered(b, list)
<1> DEFINE new == Retarget(list, o, owner)
           m   == Len(list)
           A   == AsyncView(o)
<1>1. /\ new \in Seq(DistributionSet) /\ Len(new) = m + 2
      /\ \A i \in 1..m : new[i] = Moved(list[i], o)
      /\ new[m + 1] = SplitOwn(o, owner) /\ new[m + 2] = SplitShip(o)
  BY RetargetIs
<1>2. /\ DOMAIN list = 1..m /\ m \in Nat /\ DOMAIN new = 1..(m + 2)
      /\ \A i \in 1..m : list[i] \in DistributionSet /\ list[i].relationName \in DOMAIN a.relations
  BY <1>1 DEF ToSet
<1> HIDE DEF new, m
<1>3. /\ TypeOf(b, o) = "Output"
      /\ \A x \in DOMAIN a.relations \ {o} : TypeOf(b, x) = TypeOf(a, x)
  BY DEF IsSplitAt, TypeOf, GetRelationDef
<1>4. ASSUME NEW i \in 1..m, TypeOf(b, list[i].relationName) = "EventView"
      PROVE  /\ list[i].relationName # o
             /\ \/ list[i].relationName = list[i].forRelationName
                \/ \E j \in 1..(i - 1) : /\ list[j].relationName = list[i].relationName
                                         /\ list[j].forRelationName = list[i].relationName
  <2>1. list[i].relationName # o /\ TypeOf(a, list[i].relationName) = "EventView"
    BY <1>2, <1>3, <1>4
  <2> QED  BY <2>1, <1>2 DEF Ordered
<1>5. \A i \in 1..m : /\ new[i].relationName = list[i].relationName
                      /\ list[i].relationName # o /\ list[i].relationName = list[i].forRelationName
                           => new[i].forRelationName = list[i].forRelationName
  BY <1>1, <1>2, MovedIs
<1>6. ASSUME NEW i \in 1..m, TypeOf(b, new[i].relationName) = "EventView"
      PROVE  \/ new[i].relationName = new[i].forRelationName
             \/ \E j \in 1..(i - 1) : /\ new[j].relationName = new[i].relationName
                                      /\ new[j].forRelationName = new[i].relationName
  <2>1. new[i].relationName = list[i].relationName /\ TypeOf(b, list[i].relationName) = "EventView"
    BY <1>5, <1>6
  <2>2. list[i].relationName # o
    BY <2>1, <1>4
  <2>3. CASE list[i].relationName = list[i].forRelationName
    BY <2>1, <2>2, <2>3, <1>5
  <2>4. CASE \E j \in 1..(i - 1) : /\ list[j].relationName = list[i].relationName
                                   /\ list[j].forRelationName = list[i].relationName
    <3>1. PICK j \in 1..(i - 1) : /\ list[j].relationName = list[i].relationName
                                  /\ list[j].forRelationName = list[i].relationName
      BY <2>4
    <3>2. j \in 1..m
      BY <1>2
    <3>3. new[j].relationName = list[j].relationName /\ new[j].forRelationName = list[j].forRelationName
      BY <3>1, <3>2, <2>2, <1>5
    <3> QED  BY <3>1, <3>3, <2>1
  <2> QED  BY <2>1, <2>3, <2>4, <1>4
<1>7. new[m + 1].relationName = A /\ new[m + 1].forRelationName = A /\ new[m + 2].relationName = A
  BY <1>1 DEF SplitOwn, SplitShip, Distribution
<1>8. m + 1 \in 1..(m + 2 - 1)
  BY <1>2
<1>9. ASSUME NEW i \in 1..(m + 2), TypeOf(b, new[i].relationName) = "EventView"
      PROVE  \/ new[i].relationName = new[i].forRelationName
             \/ \E j \in 1..(i - 1) : /\ new[j].relationName = new[i].relationName
                                      /\ new[j].forRelationName = new[i].relationName
  <2>1. CASE i \in 1..m
    BY <2>1, <1>6, <1>9
  <2>2. CASE i = m + 1
    BY <2>2, <1>7
  <2>3. CASE i = m + 2
    <3>1. /\ m + 1 \in 1..(i - 1) /\ new[m + 1].relationName = new[i].relationName
          /\ new[m + 1].forRelationName = new[i].relationName
      <4>1. m + 1 \in 1..(i - 1)
        BY <2>3, <1>2
      <4>2. new[i].relationName = A
        BY <2>3, <1>7
      <4> QED  BY <4>1, <4>2, <1>7
    <3> QED  BY <3>1
  <2> QED  BY <2>1, <2>2, <2>3, <1>2
<1>10. Ordered(b, new)
  BY <1>9, <1>2 DEF Ordered
<1>11. Ordered(b, list)
  BY <1>4, <1>2 DEF Ordered
<1> QED  BY <1>10, <1>11 DEF new

(***************************************************************************)
(* distributedEvalForOutput, when it does not end in an error: o is read   *)
(* and evaluated in the main database, or what was found is moved.         *)
(***************************************************************************)
IsEval(a, N, o, owner, eval, list) ==
  /\ list \in Seq(DistributionSet) /\ ToSet(list) = N /\ OwnFirst(a, list)
  /\ owner = LocalDbId => eval = [ast |-> a, new |-> list, ok |-> TRUE]
  /\ owner # LocalDbId =>
       /\ eval = [ast |-> ApplyAsyncPolicy(a, o), new |-> Retarget(list, o, owner), ok |-> TRUE]
       /\ TypeOf(a, o) # "View" /\ \E d \in N : d.relationName = o

LEMMA EvalFinds ==
  ASSUME NEW a, NEW n, NEW rank, NEW place, IsProgram(a, n, rank, place),
         NEW aug, NEW m, AugmentedBy(a, aug, m),
         NEW o \in DOMAIN aug, o \in ProgramNames, m[o] = o,
         DistributedEvalForOutput(a, aug, o).ok
  PROVE  \E list : IsEval(a, NeededBy(a, aug, Through(aug, m, place), o, o), o, place[o].fromDbId,
                          DistributedEvalForOutput(a, aug, o), list)
<1> DEFINE rk     == Through(aug, m, rank)
           pl     == Through(aug, m, place)
           N      == NeededBy(a, aug, pl, o, o)
           result == QueryDistributionRecursiveEval(a, aug, o, o)
           list   == result.list
           eval   == DistributedEvalForOutput(a, aug, o)
           owner  == place[o].fromDbId
           self   == \E i \in DOMAIN result.list : result.list[i].relationName = o
           b      == ApplyAsyncPolicy(a, o)
<1>1. Setting(a, aug, n, rk, pl) /\ n \in Nat
  BY SettingIs DEF IsProgram
<1>2. o \in AllNames /\ o \in DOMAIN a.relations
  BY AsyncViewIs DEF AllNames, AugmentedBy
<1> HIDE DEF rk, pl
<1>3. Found(a, aug, pl, o, o, result)
  BY <1>1, <1>2, EvaluationIs
<1>4. pl[o] = place[o] /\ owner \in Db /\ owner # NoDb
  <2>1. place[o] \in Places
    BY <1>2 DEF IsProgram, PlacedBy
  <2> QED  BY <2>1, PlanAssumption DEF pl, Through, Places
<1>5. /\ list \in Seq(DistributionSet) /\ result.fromDbId = owner
      /\ ToSet(list) = N /\ OwnFirst(a, list)
  BY <1>3, <1>4 DEF Found, Results
<1>6. eval = SplitIfRemote(a, o, result)
  BY DEF DistributedEvalForOutput
<1>7. self <=> \E d \in ToSet(list) : d.relationName = o
  BY DEF ToSet
<1>8. /\ owner = LocalDbId => eval = [ast |-> a, new |-> list, ok |-> TRUE]
      /\ owner # LocalDbId => eval = [ast |-> b, new |-> IF self THEN Retarget(list, o, owner) ELSE <<>>,
                                      ok |-> self]
  <2> HIDE DEF eval, result, owner, b
  <2> QED  BY <1>4, <1>5, <1>6 DEF SplitIfRemote, b
<1> HIDE DEF result, eval, owner, self, list, N
<1>9. CASE owner = LocalDbId
  <2>1. IsEval(a, N, o, owner, eval, list)
    BY <1>5, <1>8, <1>9 DEF IsEval
  <2> QED  BY <2>1 DEF N, owner, eval, pl
<1>10. CASE owner # LocalDbId
  <2>1. self
    BY <1>8, <1>10 DEF eval
  <2>2. eval = [ast |-> b, new |-> Retarget(list, o, owner), ok |-> TRUE]
    BY <2>1, <1>8, <1>10
  <2>3. PICK d \in N : d.relationName = o
    BY <2>1, <1>5, <1>7
  <2>4. TypeOf(a, o) # "View"
    <3>1. PICK x \in MadeOf(aug, o) : d \in Needs(a, aug, pl, o, x)
      BY DEF N, NeededBy
    <3>2. \A x1 \in MadeOf(aug, o) : x1 \in DOMAIN aug /\ o \notin ToSet(aug[x1].dependsOn)
      BY <1>1, MadeOfRanks
    <3>3. ~\E y \in ToSet(aug[x].dependsOn) : d = ShipOf(pl, o, y, x)
      BY <2>3, <3>2 DEF ShipOf, Distribution
    <3>4. d = OwnOf(pl, o, x) /\ TypeOf(a, x) # "View"
      BY <3>1, <3>3 DEF Needs
    <3> QED  BY <2>3, <3>4 DEF OwnOf, Distribution
  <2>5. IsEval(a, N, o, owner, eval, list)
    BY <2>2, <2>3, <2>4, <1>5, <1>10 DEF IsEval
  <2> QED  BY <2>5 DEF N, owner, eval, pl
<1> QED  BY <1>9, <1>10

(***************************************************************************)
(* The program and its plan after that.                                    *)
(***************************************************************************)
IsPlanned(a, place, old, eval, o, n2, rank2, place2) ==
  /\ IsProgram(eval.ast, n2, rank2, place2)
  /\ eval.new \in Seq(DistributionSet) /\ Planned(eval.ast, place2, eval.new \o old)
  /\ Ordered(eval.ast, eval.new) /\ (Ordered(a, old) => Ordered(eval.ast, old))
  /\ \/ eval.ast = a /\ place2 = place /\ place[o].fromDbId = LocalDbId
     \/ IsSplitAt(a, place, eval.ast, place2, o) /\ place[o].fromDbId # LocalDbId

LEMMA EvalStep ==
  ASSUME NEW a, NEW n, NEW rank, NEW place, IsProgram(a, n, rank, place),
         NEW aug, NEW m, AugmentedBy(a, aug, m),
         NEW o \in DOMAIN aug, o \in ProgramNames, o \in Derived(a), AsyncView(o) \notin DOMAIN a.relations,
         NEW old, Planned(a, place, old),
         DistributedEvalForOutput(a, aug, o).ok
  PROVE  \E n2, rank2, place2 :
           IsPlanned(a, place, old, DistributedEvalForOutput(a, aug, o), o, n2, rank2, place2)
<1> DEFINE pl     == Through(aug, m, place)
           N      == NeededBy(a, aug, pl, o, o)
           eval   == DistributedEvalForOutput(a, aug, o)
           owner  == place[o].fromDbId
           b      == ApplyAsyncPolicy(a, o)
<1>1. PICK list : IsEval(a, N, o, owner, eval, list)
  <2>1. m[o] = o
    BY SplitsIn DEF AugmentedBy, Now
  <2> QED  BY <2>1, EvalFinds
<1> HIDE DEF eval
<1>2. /\ o \in AllNames /\ o \in DOMAIN a.relations /\ m[o] = o
      /\ aug[o].dependsOn = RefsOf(a, o) /\ ToSet(aug[o].dependsOn) \subseteq DOMAIN aug
  BY AsyncViewIs, SplitsIn DEF AllNames, AugmentedBy, Now
<1>3. pl[o] = place[o] /\ owner \in Db
  <2>1. place[o] \in Places
    BY <1>2 DEF IsProgram, PlacedBy
  <2> QED  BY <2>1, <1>2 DEF Through, Places
<1>4. list \in Seq(DistributionSet) /\ ToSet(list) = N /\ OwnFirst(a, list)
  BY <1>1 DEF IsEval
<1>5. old \in Seq(DistributionSet) /\ PlannedSet(a, place, ToSet(old))
  BY DEF Planned
<1>6. PlannedSet(a, place, N \cup ToSet(old))
  BY <1>2, <1>5, NeededIsNeeded
<1>7. Ordered(a, list)
  BY <1>4 DEF OwnFirst, Ordered
<1>8. Complete(a, place, N, o)
  <2>1. o \in MadeOf(aug, o)
    BY DEF MadeOf
  <2>2. ASSUME NEW y \in ToSet(RefsOf(a, o))
        PROVE  \E d \in N : /\ d.relationName = y /\ d.forRelationName = o
                            /\ d.from = place[y].dbId /\ d.to = owner
    <3>1. y \in DOMAIN aug /\ ShipOf(pl, o, y, o) \in N
      BY <2>1, <1>2 DEF NeededBy, Needs
    <3>2. pl[y].dbId = place[y].dbId
      BY <3>1, ThroughIs DEF Through
    <3>3. /\ ShipOf(pl, o, y, o).relationName = y /\ ShipOf(pl, o, y, o).forRelationName = o
          /\ ShipOf(pl, o, y, o).from = place[y].dbId /\ ShipOf(pl, o, y, o).to = owner
      BY <3>2, <1>3 DEF ShipOf, Distribution
    <3> QED  BY <3>1, <3>3
  <2> HIDE DEF N, owner
  <2> QED  BY <2>2 DEF Complete, owner
<1> HIDE DEF N, owner, pl
<1>9. CASE owner = LocalDbId
  <2>1. eval.ast = a /\ eval.new = list
    BY <1>1, <1>9 DEF IsEval
  <2>2. list \o old \in Seq(DistributionSet) /\ ToSet(list \o old) = N \cup ToSet(old)
    BY <1>4, <1>5, ToSetOfJoin
  <2>3. Planned(a, place, list \o old)
    BY <2>2, <1>6 DEF Planned
  <2>4. IsPlanned(a, place, old, eval, o, n, rank, place)
    BY <2>1, <2>3, <1>4, <1>7, <1>9 DEF IsPlanned, owner
  <2> QED  BY <2>4 DEF eval
<1>10. CASE owner # LocalDbId
  <2> DEFINE new == Retarget(list, o, owner)
  <2>1. /\ eval = [ast |-> b, new |-> new, ok |-> TRUE]
        /\ TypeOf(a, o) # "View" /\ \E d \in N : d.relationName = o
    BY <1>1, <1>10 DEF IsEval
  <2>2. o \in OfType(a, {"Output", "EventView"})
    BY <2>1 DEF Derived, OfType
  <2>3. PICK n2, rank2, place2 : IsProgram(b, n2, rank2, place2) /\ IsSplitAt(a, place, b, place2, o)
    BY <2>2, <1>10, PolicyIs DEF owner
  <2>4. eval.ast = b /\ eval.new = new
    BY <2>1
  <2> HIDE DEF b
  <2>5. new \in Seq(DistributionSet) /\ ToSet(new) = MovedSet(N, o, owner)
    BY <1>3, <1>4, RetargetIs
  <2>6. PlannedSet(b, place2, MovedSet(N, o, owner) \cup ToSet(old))
    BY <2>1, <2>3, <1>6, <1>8, SplitPlanned DEF owner
  <2>7. \A d \in N \cup ToSet(old) : d.relationName \in DOMAIN a.relations
    BY <1>6 DEF PlannedSet, IsNeeded
  <2>8. Ordered(b, new)
    BY <2>3, <2>7, <1>3, <1>4, <1>7, RetargetOrdered
  <2>9. Ordered(a, old) => Ordered(b, old)
    <3>1. \A d \in ToSet(old) : d.relationName \in DOMAIN a.relations
      BY <2>7
    <3> QED  BY <3>1, <2>3, <1>3, <1>5, RetargetOrdered
  <2> HIDE DEF new
  <2>10. new \o old \in Seq(DistributionSet) /\ ToSet(new \o old) = ToSet(new) \cup ToSet(old)
    BY <2>5, <1>5, ToSetOfJoin
  <2>11. Planned(b, place2, new \o old)
    BY <2>5, <2>6, <2>10 DEF Planned
  <2>12. IsPlanned(a, place, old, eval, o, n2, rank2, place2)
    BY <2>3, <2>4, <2>5, <2>8, <2>9, <2>11, <1>10 DEF IsPlanned, owner
  <2> QED  BY <2>12 DEF eval
<1> QED  BY <1>9, <1>10

-----------------------------------------------------------------------------
(***************************************************************************)
(* What an output needs in the program as it is, where no other output that*)
(* it is made of has been split.                                           *)
(***************************************************************************)
Reading(a) == [x \in DOMAIN a.relations |-> [dependsOn |-> RefsOf(a, x)]]

NeededIn(a, place, o) == NeededBy(a, Reading(a), place, o, o)

NoSplitBelow(a, o) == MadeOf(Reading(a), o) \cap Splits(a) \subseteq {o}

LEMMA MadeOfAgrees ==
  ASSUME NEW aug1, NEW aug2, NEW C, C \subseteq DOMAIN aug1, C \subseteq DOMAIN aug2, NEW r \in C,
         HasReads(aug1, C), \A x \in C : aug1[x].dependsOn = aug2[x].dependsOn
  PROVE  /\ MadeOf(aug2, r) = MadeOf(aug1, r) /\ MadeOf(aug1, r) \subseteq C
         /\ r \in MadeOf(aug1, r) /\ HasReads(aug1, MadeOf(aug1, r))
<1>1. HasReads(aug2, C)
  BY DEF HasReads
<1>2. MadeOf(aug1, r) \subseteq C /\ MadeOf(aug2, r) \subseteq C /\ r \in MadeOf(aug1, r)
  BY <1>1 DEF MadeOf
<1>3. ASSUME NEW x \in MadeOf(aug1, r) PROVE x \in MadeOf(aug2, r)
  <2>1. x \in DOMAIN aug2
    BY <1>2
  <2>2. ASSUME NEW D \in SUBSET DOMAIN aug2, r \in D, HasReads(aug2, D) PROVE x \in D
    <3>1. D \cap C \in SUBSET DOMAIN aug1 /\ r \in D \cap C /\ HasReads(aug1, D \cap C)
      BY <2>2 DEF HasReads
    <3> QED  BY <3>1 DEF MadeOf
  <2> QED  BY <2>1, <2>2 DEF MadeOf
<1>4. ASSUME NEW x \in MadeOf(aug2, r) PROVE x \in MadeOf(aug1, r)
  <2>1. x \in DOMAIN aug1
    BY <1>2
  <2>2. ASSUME NEW D \in SUBSET DOMAIN aug1, r \in D, HasReads(aug1, D) PROVE x \in D
    <3>1. D \cap C \in SUBSET DOMAIN aug2 /\ r \in D \cap C /\ HasReads(aug2, D \cap C)
      BY <1>1, <2>2 DEF HasReads
    <3> QED  BY <3>1 DEF MadeOf
  <2> QED  BY <2>1, <2>2 DEF MadeOf
<1>5. HasReads(aug1, MadeOf(aug1, r))
  <2>1. ASSUME NEW x \in MadeOf(aug1, r), NEW y \in ToSet(aug1[x].dependsOn) PROVE y \in MadeOf(aug1, r)
    <3>1. x \in C /\ y \in C
      BY <1>2 DEF HasReads
    <3>2. ASSUME NEW D \in SUBSET DOMAIN aug1, r \in D, HasReads(aug1, D) PROVE y \in D
      <4>1. x \in D
        BY <3>2 DEF MadeOf
      <4> QED  BY <4>1, <3>2 DEF HasReads
    <3> QED  BY <3>1, <3>2 DEF MadeOf
  <2> QED  BY <2>1 DEF HasReads
<1> QED  BY <1>2, <1>3, <1>4, <1>5

LEMMA ReadingIs ==
  ASSUME NEW a, Sound(a)
  PROVE  /\ DOMAIN Reading(a) = DOMAIN a.relations
         /\ \A x \in DOMAIN a.relations : /\ Reading(a)[x].dependsOn = RefsOf(a, x)
                                          /\ ToSet(RefsOf(a, x)) \subseteq DOMAIN a.relations
         /\ HasReads(Reading(a), DOMAIN a.relations)
<1>1. ASSUME NEW x \in DOMAIN a.relations PROVE ToSet(RefsOf(a, x)) \subseteq DOMAIN a.relations
  <2>1. \A i \in DOMAIN RefsOf(a, x) : RefsOf(a, x)[i] \in DOMAIN a.relations
    BY ReadsAre
  <2> QED  BY <2>1 DEF ToSet
<1> QED  BY <1>1 DEF Reading, HasReads

\* What o is made of: nothing of it reads o.
LEMMA MadeOfReading ==
  ASSUME NEW a, NEW n, NEW rank, NEW place, IsProgram(a, n, rank, place),
         NEW o \in DOMAIN a.relations
  PROVE  LET M == MadeOf(Reading(a), o)
         IN  /\ o \in M /\ M \subseteq DOMAIN a.relations
             /\ \A x \in M : ToSet(RefsOf(a, x)) \subseteq M /\ o \notin ToSet(RefsOf(a, x))
<1> DEFINE R == DOMAIN a.relations
           M == MadeOf(Reading(a), o)
           C == {x \in R : rank[x] <= rank[o]}
<1>1. /\ n \in Nat /\ Sound(a) /\ rank \in [R -> 0..n]
      /\ \A x \in R : \A y \in ToSet(RefsOf(a, x)) : rank[y] < rank[x]
  BY DEF IsProgram, RankedBy
<1>2. /\ DOMAIN Reading(a) = R
      /\ \A x \in R : Reading(a)[x].dependsOn = RefsOf(a, x) /\ ToSet(RefsOf(a, x)) \subseteq R
  BY <1>1, ReadingIs
<1>3. \A x \in R : rank[x] \in 0..n
  BY <1>1
<1>4. o \in C
  BY <1>1, <1>3
<1>5. ASSUME NEW x \in C, NEW y \in ToSet(RefsOf(a, x)) PROVE y \in C
  <2>1. x \in R /\ y \in R /\ rank[x] <= rank[o] /\ rank[y] < rank[x]
    BY <1>1, <1>2
  <2>2. rank[x] \in 0..n /\ rank[y] \in 0..n /\ rank[o] \in 0..n
    BY <2>1, <1>3
  <2> QED  BY <2>1, <2>2
<1>6. HasReads(Reading(a), C)
  BY <1>2, <1>5 DEF HasReads
<1>7. ASSUME NEW x \in C PROVE o \notin ToSet(RefsOf(a, x))
  <2>1. x \in R /\ rank[x] <= rank[o] /\ rank[x] \in 0..n /\ rank[o] \in 0..n
    BY <1>3
  <2> QED  BY <2>1, <1>1
<1> HIDE DEF C
<1>8. C \subseteq R
  BY DEF C
<1>9. M \subseteq C /\ o \in M /\ HasReads(Reading(a), M)
  BY <1>2, <1>4, <1>6, <1>8, MadeOfAgrees
<1> HIDE DEF M
<1>10. \A x \in M : ToSet(RefsOf(a, x)) \subseteq M
  BY <1>2, <1>8, <1>9 DEF HasReads
<1> QED  BY <1>7, <1>8, <1>9, <1>10 DEF M

LEMMA NeededAgrees ==
  ASSUME NEW a, NEW aug1, NEW place1, NEW b, NEW aug2, NEW place2, NEW output, NEW r, NEW C,
         MadeOf(aug1, r) = C, MadeOf(aug2, r) = C,
         \A x \in C : /\ aug2[x].dependsOn = aug1[x].dependsOn /\ ToSet(aug1[x].dependsOn) \subseteq C
                      /\ TypeOf(b, x) = TypeOf(a, x) /\ place2[x] = place1[x]
  PROVE  NeededBy(b, aug2, place2, output, r) = NeededBy(a, aug1, place1, output, r)
<1>1. ASSUME NEW x \in C PROVE Needs(b, aug2, place2, output, x) = Needs(a, aug1, place1, output, x)
  <2>1. /\ aug2[x].dependsOn = aug1[x].dependsOn /\ TypeOf(b, x) = TypeOf(a, x)
        /\ place2[x] = place1[x] /\ \A y \in ToSet(aug1[x].dependsOn) : place2[y] = place1[y]
    OBVIOUS
  <2>2. \A y \in ToSet(aug1[x].dependsOn) : ShipOf(place2, output, y, x) = ShipOf(place1, output, y, x)
    BY <2>1 DEF ShipOf
  <2>3. OwnOf(place2, output, x) = OwnOf(place1, output, x)
    BY <2>1 DEF OwnOf
  <2> QED  BY <2>1, <2>2, <2>3 DEF Needs
<1> QED  BY <1>1 DEF NeededBy

\* What is found with the tree that has the locations.
LEMMA FoundIsNeeded ==
  ASSUME NEW a, NEW n, NEW rank, NEW place, IsProgram(a, n, rank, place),
         NEW aug, NEW m, AugmentedBy(a, aug, m), NEW o \in DOMAIN aug, m[o] = o,
         \A x \in MadeOf(Reading(a), o) : x # o => x \notin Splits(a)
  PROVE  NeededBy(a, aug, Through(aug, m, place), o, o) = NeededIn(a, place, o)
<1> DEFINE D  == DOMAIN aug
           M  == MadeOf(Reading(a), o)
           pl == Through(aug, m, place)
           C  == M \cap D
<1>1. /\ D \subseteq DOMAIN a.relations
      /\ \A x \in D : /\ m[x] \in {x, Now(a, x)} /\ aug[x].dependsOn = RefsOf(a, m[x])
                      /\ ToSet(aug[x].dependsOn) \subseteq D
  BY DEF AugmentedBy
<1>2. Sound(a) /\ o \in DOMAIN a.relations
  BY <1>1 DEF IsProgram
<1>3. /\ o \in M /\ M \subseteq DOMAIN a.relations /\ \A x \in M : ToSet(RefsOf(a, x)) \subseteq M
  BY <1>2, MadeOfReading
<1>4. /\ DOMAIN Reading(a) = DOMAIN a.relations
      /\ \A x \in DOMAIN a.relations : Reading(a)[x].dependsOn = RefsOf(a, x)
  BY <1>2, ReadingIs
<1>5. \A x \in C : m[x] = x
  BY <1>1 DEF Now
<1>6. \A x \in C : aug[x].dependsOn = RefsOf(a, x) /\ ToSet(RefsOf(a, x)) \subseteq C
  BY <1>1, <1>3, <1>5
<1> HIDE DEF C
<1>7. C \subseteq D /\ C \subseteq DOMAIN Reading(a) /\ o \in C
  BY <1>1, <1>3, <1>4 DEF C
<1>8. HasReads(aug, C) /\ \A x \in C : aug[x].dependsOn = Reading(a)[x].dependsOn
  BY <1>4, <1>6, <1>7 DEF HasReads
<1>9. /\ MadeOf(aug, o) = M /\ MadeOf(aug, o) \subseteq C
  BY <1>7, <1>8, MadeOfAgrees
<1> HIDE DEF M
<1>10. \A x \in M : pl[x] = place[x]
  BY <1>5, <1>7, <1>9 DEF Through
<1> HIDE DEF pl
<1>11. NeededBy(a, Reading(a), place, o, o) = NeededBy(a, aug, pl, o, o)
  <2>1. \A x \in M : /\ Reading(a)[x].dependsOn = aug[x].dependsOn /\ ToSet(aug[x].dependsOn) \subseteq M
                     /\ place[x] = pl[x]
    BY <1>3, <1>6, <1>8, <1>9, <1>10
  <2>2. MadeOf(aug, o) = M /\ MadeOf(Reading(a), o) = M
    BY <1>9 DEF M
  <2> QED  BY <2>1, <2>2, NeededAgrees
<1> QED  BY <1>11 DEF NeededIn, pl

\* A program that grows: an output needs what it needed.
LEMMA NeededInExtends ==
  ASSUME NEW a, NEW n, NEW rank, NEW place, IsProgram(a, n, rank, place),
         NEW b, NEW place2, Sound(b), Extends(a, place, b, place2), NEW o \in DOMAIN a.relations
  PROVE  /\ NeededIn(b, place2, o) = NeededIn(a, place, o)
         /\ NoSplitBelow(b, o) <=> NoSplitBelow(a, o)
<1> DEFINE R == DOMAIN a.relations
           M == MadeOf(Reading(a), o)
<1>1. Sound(a)
  BY DEF IsProgram
<1>2. /\ \A x \in R : /\ x \in DOMAIN b.relations /\ TypeOf(b, x) = TypeOf(a, x)
                      /\ RefsOf(b, x) = RefsOf(a, x) /\ place2[x] = place[x]
      /\ Splits(b) \cap R = Splits(a)
  BY <1>1, ExtendsKeeps DEF Extends
<1>3. /\ DOMAIN Reading(a) = R /\ DOMAIN Reading(b) = DOMAIN b.relations
      /\ \A x \in R : Reading(a)[x].dependsOn = RefsOf(a, x)
      /\ \A x \in DOMAIN b.relations : Reading(b)[x].dependsOn = RefsOf(b, x)
      /\ HasReads(Reading(a), R)
  BY <1>1, ReadingIs
<1>4. MadeOf(Reading(b), o) = M
  <2>1. R \subseteq DOMAIN Reading(a) /\ R \subseteq DOMAIN Reading(b)
    BY <1>2, <1>3
  <2>2. \A x \in R : Reading(a)[x].dependsOn = Reading(b)[x].dependsOn
    BY <1>2, <1>3
  <2> QED  BY <2>1, <2>2, <1>3, MadeOfAgrees
<1>5. M \subseteq R /\ \A x \in M : ToSet(RefsOf(a, x)) \subseteq M
  BY MadeOfReading
<1> HIDE DEF M
<1>6. NeededBy(b, Reading(b), place2, o, o) = NeededBy(a, Reading(a), place, o, o)
  <2>1. \A x \in M : /\ Reading(b)[x].dependsOn = Reading(a)[x].dependsOn
                     /\ ToSet(Reading(a)[x].dependsOn) \subseteq M
                     /\ TypeOf(b, x) = TypeOf(a, x) /\ place2[x] = place[x]
    BY <1>2, <1>3, <1>5
  <2>2. MadeOf(Reading(a), o) = M
    BY DEF M
  <2> QED  BY <2>1, <2>2, <1>4, NeededAgrees
<1>7. NoSplitBelow(b, o) <=> NoSplitBelow(a, o)
  <2>1. M \cap Splits(b) = M \cap Splits(a)
    BY <1>2, <1>5, SplitsIn
  <2>2. MadeOf(Reading(a), o) = M
    BY DEF M
  <2> QED  BY <2>1, <2>2, <1>4 DEF NoSplitBelow
<1> QED  BY <1>6, <1>7 DEF NeededIn

\* Another output is split: what is not made of it needs what it needed.
LEMMA NeededInSplitOther ==
  ASSUME NEW a, NEW n, NEW rank, NEW place, IsProgram(a, n, rank, place),
         NEW b, NEW n2, NEW rank2, NEW place2, IsProgram(b, n2, rank2, place2),
         NEW o, IsSplitAt(a, place, b, place2, o),
         NEW x \in DOMAIN a.relations, x # o, NoSplitBelow(b, x)
  PROVE  NoSplitBelow(a, x) /\ NeededIn(b, place2, x) = NeededIn(a, place, x)
<1> DEFINE A == AsyncView(o)
           R == DOMAIN a.relations
           M == MadeOf(Reading(b), x)
           C == M \cap R
<1>1. Sound(a) /\ Sound(b)
  BY DEF IsProgram
<1>2. /\ A \notin R /\ DOMAIN b.relations = R \cup {A} /\ o \in Splits(b)
      /\ Splits(b) = Splits(a) \cup {o}
      /\ \A y \in R \ {o} : /\ TypeOf(b, y) = TypeOf(a, y) /\ RefsOf(b, y) = RefsOf(a, y)
                            /\ place2[y] = place[y]
  BY DEF IsSplitAt, TypeOf, RefsOf, GetRelationDef
<1>3. /\ DOMAIN Reading(a) = R /\ DOMAIN Reading(b) = R \cup {A}
      /\ \A y \in R : /\ Reading(a)[y].dependsOn = RefsOf(a, y)
                      /\ Reading(b)[y].dependsOn = RefsOf(b, y)
                      /\ ToSet(RefsOf(a, y)) \subseteq R
  BY <1>1, <1>2, ReadingIs
<1>4. x \in M /\ M \subseteq R \cup {A} /\ \A y \in M : ToSet(RefsOf(b, y)) \subseteq M
  <2>1. x \in DOMAIN b.relations
    BY <1>2
  <2> QED  BY <2>1, <1>2, MadeOfReading
<1>5. o \notin M
  BY <1>2 DEF NoSplitBelow
<1> HIDE DEF M
<1>6. /\ C \subseteq R /\ x \in C /\ o \notin C
      /\ \A y \in C : /\ Reading(a)[y].dependsOn = Reading(b)[y].dependsOn
                      /\ ToSet(Reading(a)[y].dependsOn) \subseteq C
                      /\ TypeOf(b, y) = TypeOf(a, y) /\ place2[y] = place[y]
  BY <1>2, <1>3, <1>4, <1>5
<1> HIDE DEF C
<1>7. MadeOf(Reading(b), x) = MadeOf(Reading(a), x) /\ MadeOf(Reading(a), x) \subseteq C
  <2>1. HasReads(Reading(a), C)
    BY <1>6 DEF HasReads
  <2>2. C \subseteq DOMAIN Reading(a) /\ C \subseteq DOMAIN Reading(b)
    BY <1>3, <1>6
  <2> QED  BY <2>1, <2>2, <1>6, MadeOfAgrees
<1>8. M = MadeOf(Reading(a), x) /\ M \subseteq C
  BY <1>7 DEF M
<1>9. NeededBy(b, Reading(b), place2, x, x) = NeededBy(a, Reading(a), place, x, x)
  <2>1. \A y \in M : /\ Reading(b)[y].dependsOn = Reading(a)[y].dependsOn
                     /\ ToSet(Reading(a)[y].dependsOn) \subseteq M
                     /\ TypeOf(b, y) = TypeOf(a, y) /\ place2[y] = place[y]
    <3>1. \A y \in M : Reading(b)[y].dependsOn = RefsOf(b, y)
      BY <1>3, <1>6, <1>8
    <3> QED  BY <3>1, <1>4, <1>6, <1>8
  <2>2. MadeOf(Reading(b), x) = M
    BY DEF M
  <2> QED  BY <2>1, <2>2, <1>8, NeededAgrees
<1>10. NoSplitBelow(a, x)
  <2>1. M \cap Splits(b) \subseteq {x}
    BY DEF M, NoSplitBelow
  <2> QED  BY <2>1, <1>2, <1>8 DEF NoSplitBelow
<1> QED  BY <1>9, <1>10 DEF NeededIn

\* The relations that the event view of a split output is made of are those of the output.
LEMMA MadeOfSplit ==
  ASSUME NEW a, NEW n, NEW rank, NEW place, IsProgram(a, n, rank, place),
         NEW b, NEW n2, NEW rank2, NEW place2, IsProgram(b, n2, rank2, place2),
         NEW o, IsSplitAt(a, place, b, place2, o)
  PROVE  /\ MadeOf(Reading(b), o) = MadeOf(Reading(a), o) \cup {AsyncView(o)}
         /\ MadeOf(Reading(a), o) \subseteq DOMAIN a.relations
         /\ \A x \in MadeOf(Reading(a), o) :
              /\ ToSet(RefsOf(a, x)) \subseteq MadeOf(Reading(a), o) \ {o}
<1> DEFINE A == AsyncView(o)
           R == DOMAIN a.relations
           M == MadeOf(Reading(a), o)
           C == M \ {o}
<1>1. Sound(a) /\ Sound(b)
  BY DEF IsProgram
<1>2. /\ A \notin R /\ o \in R /\ DOMAIN b.relations = R \cup {A}
      /\ \A y \in R \ {o} : RefsOf(b, y) = RefsOf(a, y)
      /\ RefsOf(b, o) = <<A, A>> /\ RefsOf(b, A) = RefsOf(a, o)
  BY DEF IsSplitAt, RefsOf
<1>3. /\ DOMAIN Reading(a) = R /\ DOMAIN Reading(b) = R \cup {A}
      /\ \A y \in R : Reading(a)[y].dependsOn = RefsOf(a, y) /\ ToSet(RefsOf(a, y)) \subseteq R
      /\ \A y \in R \cup {A} : /\ Reading(b)[y].dependsOn = RefsOf(b, y)
                               /\ ToSet(RefsOf(b, y)) \subseteq R \cup {A}
  BY <1>1, <1>2, ReadingIs
<1>4. o \in M /\ M \subseteq R /\ \A x \in M : ToSet(RefsOf(a, x)) \subseteq M /\ o \notin ToSet(RefsOf(a, x))
  BY <1>2, MadeOfReading
<1>5. /\ M = {o} \cup UNION {MadeOf(Reading(a), y) : y \in ToSet(RefsOf(a, o))}
  <2>1. \A r \in DOMAIN Reading(a) : ToSet(Reading(a)[r].dependsOn) \subseteq DOMAIN Reading(a)
    BY <1>3
  <2>2. \A r \in DOMAIN Reading(a) :
          MadeOf(Reading(a), r) = {r} \cup UNION {MadeOf(Reading(a), y) : y \in ToSet(Reading(a)[r].dependsOn)}
    BY <2>1, MadeOfIs
  <2> QED  BY <2>2, <1>2, <1>3
<1>6. \A r \in R \cup {A} :
        MadeOf(Reading(b), r) = {r} \cup UNION {MadeOf(Reading(b), y) : y \in ToSet(RefsOf(b, r))}
  <2>1. \A r \in DOMAIN Reading(b) : ToSet(Reading(b)[r].dependsOn) \subseteq DOMAIN Reading(b)
    BY <1>3
  <2>2. \A r \in DOMAIN Reading(b) :
          MadeOf(Reading(b), r) = {r} \cup UNION {MadeOf(Reading(b), y) : y \in ToSet(Reading(b)[r].dependsOn)}
    BY <2>1, MadeOfIs
  <2> QED  BY <2>2, <1>3
<1> HIDE DEF M
<1>7. \A y \in ToSet(RefsOf(a, o)) : MadeOf(Reading(b), y) = MadeOf(Reading(a), y)
  <2>1. C \subseteq DOMAIN Reading(a) /\ C \subseteq DOMAIN Reading(b)
    BY <1>3, <1>4
  <2>2. \A x \in C : Reading(a)[x].dependsOn = Reading(b)[x].dependsOn
    BY <1>2, <1>3, <1>4
  <2>3. HasReads(Reading(a), C)
    BY <1>3, <1>4 DEF HasReads
  <2>4. ToSet(RefsOf(a, o)) \subseteq C
    BY <1>4
  <2> HIDE DEF C
  <2> QED  BY <2>1, <2>2, <2>3, <2>4, MadeOfAgrees
<1>8. ToSet(RefsOf(b, o)) = {A}
  BY <1>2 DEF ToSet
<1>9. MadeOf(Reading(b), A) = {A} \cup UNION {MadeOf(Reading(a), y) : y \in ToSet(RefsOf(a, o))}
  BY <1>2, <1>6, <1>7
<1>10. MadeOf(Reading(b), o) = {o} \cup MadeOf(Reading(b), A)
  <2>1. UNION {MadeOf(Reading(b), y) : y \in {A}} = MadeOf(Reading(b), A)
    OBVIOUS
  <2> QED  BY <2>1, <1>2, <1>6, <1>8
<1>11. MadeOf(Reading(b), o) = M \cup {A}
  BY <1>5, <1>9, <1>10
<1> QED  BY <1>4, <1>11 DEF M

LEMMA MovedDistribution ==
  ASSUME NEW r, NEW from, NEW to, NEW f, NEW output, NEW o
  PROVE  Moved(Distribution(r, from, to, f, output), o) =
           Distribution(r, IF r = o THEN LocalDbId ELSE from, to,
                        IF r # o /\ f = o THEN AsyncView(o) ELSE f, output)
<1>1. CASE r = o
  BY <1>1 DEF Moved, Distribution
<1>2. CASE r # o /\ f = o
  BY <1>2 DEF Moved, Distribution
<1>3. CASE r # o /\ f # o
  BY <1>3 DEF Moved, Distribution
<1> QED  BY <1>1, <1>2, <1>3

\* An output is split: it needs what the policy makes of what it needed.
LEMMA NeededInSplit ==
  ASSUME NEW a, NEW n, NEW rank, NEW place, IsProgram(a, n, rank, place),
         NEW b, NEW n2, NEW rank2, NEW place2, IsProgram(b, n2, rank2, place2),
         NEW o, IsSplitAt(a, place, b, place2, o), TypeOf(a, o) # "View", NoSplitBelow(b, o)
  PROVE  /\ NoSplitBelow(a, o)
         /\ NeededIn(b, place2, o) = MovedSet(NeededIn(a, place, o), o, place[o].fromDbId)
<1> DEFINE A    == AsyncView(o)
           R    == DOMAIN a.relations
           M    == MadeOf(Reading(a), o)
           na(x) == Needs(a, Reading(a), place, o, x)
           nb(x) == Needs(b, Reading(b), place2, o, x)
           N    == NeededIn(a, place, o)
           owner == place[o].fromDbId
<1>1. /\ A \notin R /\ o \in R /\ DOMAIN b.relations = R \cup {A} /\ Sound(a) /\ Sound(b)
      /\ \A y \in R \ {o} : /\ TypeOf(b, y) = TypeOf(a, y) /\ RefsOf(b, y) = RefsOf(a, y)
                            /\ place2[y] = place[y]
      /\ TypeOf(b, o) = "Output" /\ RefsOf(b, o) = <<A, A>>
      /\ TypeOf(b, A) = "EventView" /\ RefsOf(b, A) = RefsOf(a, o)
      /\ place[o].dbId = LocalDbId /\ place2[o].dbId = LocalDbId /\ place2[o].fromDbId = LocalDbId
      /\ place2[A].dbId = LocalDbId /\ place2[A].fromDbId = owner
      /\ Splits(b) = Splits(a) \cup {o}
  BY DEF IsSplitAt, IsProgram, TypeOf, RefsOf, GetRelationDef
<1>2. /\ MadeOf(Reading(b), o) = M \cup {A} /\ M \subseteq R /\ o \in M
      /\ \A x \in M : ToSet(RefsOf(a, x)) \subseteq M \ {o}
  BY <1>1, MadeOfSplit, MadeOfReading
<1>3. /\ \A x \in R : Reading(a)[x].dependsOn = RefsOf(a, x)
      /\ \A x \in R \cup {A} : Reading(b)[x].dependsOn = RefsOf(b, x)
  BY <1>1, ReadingIs
<1>4. NoSplitBelow(a, o)
  <2>1. (M \cup {A}) \cap Splits(b) \subseteq {o}
    BY <1>2 DEF NoSplitBelow
  <2> QED  BY <2>1, <1>1 DEF NoSplitBelow
<1> HIDE DEF M, A
<1>5. /\ na(o) = {ShipOf(place, o, y, o) : y \in ToSet(RefsOf(a, o))} \cup {OwnOf(place, o, o)}
      /\ nb(o) = {SplitShip(o), Moved(OwnOf(place, o, o), o)}
      /\ nb(A) = {Moved(ShipOf(place, o, y, o), o) : y \in ToSet(RefsOf(a, o))} \cup {SplitOwn(o, owner)}
  <2>1. na(o) = {ShipOf(place, o, y, o) : y \in ToSet(RefsOf(a, o))} \cup {OwnOf(place, o, o)}
    BY <1>1, <1>3 DEF Needs
  <2>2. ToSet(RefsOf(b, o)) = {A}
    BY <1>1 DEF ToSet
  <2>3. nb(o) = {ShipOf(place2, o, A, o), OwnOf(place2, o, o)}
    BY <2>2, <1>1, <1>3 DEF Needs
  <2>4. ShipOf(place2, o, A, o) = SplitShip(o)
    BY <1>1 DEF ShipOf, SplitShip, A
  <2>5. OwnOf(place2, o, o) = Moved(OwnOf(place, o, o), o)
    <3>1. Moved(OwnOf(place, o, o), o) = Distribution(o, LocalDbId, LocalDbId, o, o)
      BY <1>1, MovedDistribution DEF OwnOf
    <3> QED  BY <3>1, <1>1 DEF OwnOf
  <2>6. nb(A) = {ShipOf(place2, o, y, A) : y \in ToSet(RefsOf(a, o))} \cup {OwnOf(place2, o, A)}
    BY <1>1, <1>3 DEF Needs
  <2>7. OwnOf(place2, o, A) = SplitOwn(o, owner)
    BY <1>1 DEF OwnOf, SplitOwn, A
  <2>8. ASSUME NEW y \in ToSet(RefsOf(a, o))
        PROVE  ShipOf(place2, o, y, A) = Moved(ShipOf(place, o, y, o), o)
    <3>1. y \in R /\ y # o
      BY <1>2
    <3>2. Moved(ShipOf(place, o, y, o), o) = Distribution(y, place[y].dbId, owner, A, o)
      BY <3>1, MovedDistribution DEF ShipOf, A
    <3> QED  BY <3>1, <3>2, <1>1 DEF ShipOf
  <2>9. {ShipOf(place2, o, y, A) : y \in ToSet(RefsOf(a, o))}
          = {Moved(ShipOf(place, o, y, o), o) : y \in ToSet(RefsOf(a, o))}
    BY <2>8
  <2> QED  BY <2>1, <2>3, <2>4, <2>5, <2>6, <2>7, <2>9
<1>6. ASSUME NEW x \in M \ {o}
      PROVE  /\ \A d \in na(x) : Moved(d, o) = d
             /\ nb(x) = na(x)
  <2>1. x \in R \ {o} /\ ToSet(RefsOf(a, x)) \subseteq R \ {o}
    BY <1>2
  <2>2. \A y \in ToSet(RefsOf(a, x)) : /\ ShipOf(place2, o, y, x) = ShipOf(place, o, y, x)
                                       /\ Moved(ShipOf(place, o, y, x), o) = ShipOf(place, o, y, x)
    <3>1. \A y \in ToSet(RefsOf(a, x)) : ShipOf(place2, o, y, x) = ShipOf(place, o, y, x)
      BY <2>1, <1>1 DEF ShipOf
    <3> QED  BY <3>1, <2>1, MovedDistribution DEF ShipOf
  <2>3. OwnOf(place2, o, x) = OwnOf(place, o, x) /\ Moved(OwnOf(place, o, x), o) = OwnOf(place, o, x)
    <3>1. OwnOf(place2, o, x) = OwnOf(place, o, x)
      BY <2>1, <1>1 DEF OwnOf
    <3> QED  BY <3>1, <2>1, MovedDistribution DEF OwnOf
  <2>4. na(x) = {ShipOf(place, o, y, x) : y \in ToSet(RefsOf(a, x))}
                \cup (IF TypeOf(a, x) = "View" THEN {} ELSE {OwnOf(place, o, x)})
    BY <2>1, <1>3 DEF Needs
  <2>5. nb(x) = {ShipOf(place2, o, y, x) : y \in ToSet(RefsOf(a, x))}
                \cup (IF TypeOf(a, x) = "View" THEN {} ELSE {OwnOf(place2, o, x)})
    BY <2>1, <1>1, <1>3 DEF Needs
  <2> HIDE DEF na, nb
  <2>6. \A d \in na(x) : Moved(d, o) = d
    BY <2>2, <2>3, <2>4
  <2>7. nb(x) = na(x)
    BY <2>2, <2>3, <2>4, <2>5
  <2> QED  BY <2>6, <2>7
<1>7. /\ N = UNION {na(x) : x \in M} /\ NeededIn(b, place2, o) = UNION {nb(x) : x \in M \cup {A}}
  BY <1>2 DEF NeededIn, NeededBy, M
<1> HIDE DEF na, nb, N, owner
<1>8. ASSUME NEW d \in NeededIn(b, place2, o) PROVE d \in MovedSet(N, o, owner)
  <2>1. PICK x \in M \cup {A} : d \in nb(x)
    BY <1>7
  <2>2. CASE x = o
    <3>1. OwnOf(place, o, o) \in N
      BY <1>2, <1>5, <1>7
    <3> QED  BY <3>1, <2>1, <2>2, <1>5 DEF MovedSet
  <2>3. CASE x = A
    <3>1. \A y \in ToSet(RefsOf(a, o)) : ShipOf(place, o, y, o) \in N
      BY <1>2, <1>5, <1>7
    <3> QED  BY <3>1, <2>1, <2>3, <1>5 DEF MovedSet
  <2>4. CASE x \in M \ {o}
    <3>1. d \in N /\ d = Moved(d, o)
      BY <2>1, <2>4, <1>6, <1>7
    <3> QED  BY <3>1 DEF MovedSet
  <2> QED  BY <2>2, <2>3, <2>4
<1>9. ASSUME NEW d \in MovedSet(N, o, owner) PROVE d \in NeededIn(b, place2, o)
  <2>1. CASE d \in {SplitOwn(o, owner), SplitShip(o)}
    BY <2>1, <1>2, <1>5, <1>7
  <2>2. ASSUME NEW d1 \in N, d = Moved(d1, o) PROVE d \in NeededIn(b, place2, o)
    <3>1. PICK x \in M : d1 \in na(x)
      BY <1>7
    <3>2. CASE x = o
      <4>1. d \in nb(o) \cup nb(A)
        BY <2>2, <3>1, <3>2, <1>5
      <4> QED  BY <4>1, <1>2, <1>7
    <3>3. CASE x # o
      <4>1. d = d1 /\ d1 \in nb(x)
        BY <2>2, <3>1, <3>3, <1>6
      <4> QED  BY <4>1, <1>7
    <3> QED  BY <3>2, <3>3
  <2> QED  BY <2>1, <2>2 DEF MovedSet
<1>10. NeededIn(b, place2, o) = MovedSet(N, o, owner)
  BY <1>8, <1>9
<1> QED  BY <1>4, <1>10 DEF N, owner

-----------------------------------------------------------------------------
(***************************************************************************)
(* The ledger: each output has what it needs, and nothing else is planned. *)
(* P has the outputs that are still to come.                               *)
(***************************************************************************)
OfOutput(L, o) == {d \in L : d.finalOutputName = o}

Ledger(a, place, list, P) ==
  /\ Ordered(a, list)
  /\ \A d \in ToSet(list) : d.finalOutputName \in DOMAIN a.relations \ P
  /\ \A o \in OfType(a, {"Output"}) \ P :
       NoSplitBelow(a, o) => OfOutput(ToSet(list), o) = NeededIn(a, place, o)

LEMMA FinalsAre ==
  ASSUME NEW a, NEW aug, NEW place, NEW output, NEW r
  PROVE  \A d \in NeededBy(a, aug, place, output, r) : d.finalOutputName = output
BY DEF NeededBy, Needs, ShipOf, OwnOf, Distribution

LEMMA FinalsAreMoved ==
  ASSUME NEW L, NEW o, NEW owner, \A d \in L : d \in DistributionSet /\ d.finalOutputName = o
  PROVE  \A d \in MovedSet(L, o, owner) : d.finalOutputName = o
<1>1. ASSUME NEW d \in L PROVE Moved(d, o).finalOutputName = o
  <2>1. d \in DistributionSet /\ d.finalOutputName = o
    OBVIOUS
  <2>2. CASE d.relationName = o
    BY <2>1, <2>2 DEF Moved, DistributionSet
  <2>3. CASE d.relationName # o /\ d.forRelationName = o
    BY <2>1, <2>3 DEF Moved, DistributionSet
  <2>4. CASE d.relationName # o /\ d.forRelationName # o
    BY <2>1, <2>4 DEF Moved
  <2> QED  BY <2>2, <2>3, <2>4
<1>2. SplitOwn(o, owner).finalOutputName = o /\ SplitShip(o).finalOutputName = o
  BY DEF SplitOwn, SplitShip, Distribution
<1> QED  BY <1>1, <1>2 DEF MovedSet

\* The program grows by relations that are no outputs, or that are still to come.
LEMMA LedgerExtends ==
  ASSUME NEW a, NEW n, NEW rank, NEW place, IsProgram(a, n, rank, place),
         NEW b, NEW place2, Sound(b), Extends(a, place, b, place2),
         NEW list, Planned(a, place, list), NEW P, Ledger(a, place, list, P),
         NEW Q, Q \cap DOMAIN a.relations = P \cap DOMAIN a.relations,
         OfType(b, {"Output"}) \subseteq DOMAIN a.relations \cup Q
  PROVE  Ledger(b, place2, list, Q)
<1>1. Sound(a)
  BY DEF IsProgram
<1>2. \A x \in DOMAIN a.relations : x \in DOMAIN b.relations /\ TypeOf(b, x) = TypeOf(a, x)
  BY <1>1, ExtendsKeeps
<1>3. Ordered(b, list)
  BY <1>1, OrderedExtends DEF Ledger
<1>4. ASSUME NEW d \in ToSet(list) PROVE d.finalOutputName \in DOMAIN b.relations \ Q
  BY <1>2 DEF Ledger
<1>5. ASSUME NEW o \in OfType(b, {"Output"}) \ Q, NoSplitBelow(b, o)
      PROVE  OfOutput(ToSet(list), o) = NeededIn(b, place2, o)
  <2>1. o \in DOMAIN a.relations /\ o \notin P
    OBVIOUS
  <2>2. o \in OfType(a, {"Output"}) \ P
    BY <2>1, <1>2 DEF OfType
  <2>3. NeededIn(b, place2, o) = NeededIn(a, place, o) /\ NoSplitBelow(a, o)
    BY <2>1, <1>5, NeededInExtends
  <2> QED  BY <2>2, <2>3 DEF Ledger
<1> QED  BY <1>3, <1>4, <1>5 DEF Ledger

\* An output is planned.
LEMMA LedgerPlans ==
  ASSUME NEW a, NEW n, NEW rank, NEW place, IsProgram(a, n, rank, place),
         NEW aug, NEW m, AugmentedBy(a, aug, m),
         NEW o \in DOMAIN aug, o \in ProgramNames, AsyncView(o) \notin DOMAIN a.relations,
         NEW old, old \in Seq(DistributionSet), DistributedEvalForOutput(a, aug, o).ok,
         NEW n2, NEW rank2, NEW place2,
         IsPlanned(a, place, old, DistributedEvalForOutput(a, aug, o), o, n2, rank2, place2),
         NEW P, o \in P, Ledger(a, place, old, P)
  PROVE  Ledger(DistributedEvalForOutput(a, aug, o).ast, place2,
                DistributedEvalForOutput(a, aug, o).new \o old, P \ {o})
<1> DEFINE eval  == DistributedEvalForOutput(a, aug, o)
           b     == eval.ast
           new   == eval.new
           owner == place[o].fromDbId
           N     == NeededBy(a, aug, Through(aug, m, place), o, o)
<1>1. PICK list : IsEval(a, N, o, owner, eval, list)
  <2>1. m[o] = o
    BY SplitsIn DEF AugmentedBy, Now
  <2> QED  BY <2>1, EvalFinds
<1> HIDE DEF eval
<1>2. \A d \in N : d.finalOutputName = o
  BY FinalsAre
<1>3. o \in DOMAIN a.relations /\ o \notin Splits(a) /\ m[o] = o
  BY DEF AugmentedBy, Splits, Has, Now
<1>4. NoSplitBelow(a, o) => N = NeededIn(a, place, o)
  <2>1. NoSplitBelow(a, o) => \A x \in MadeOf(Reading(a), o) : x # o => x \notin Splits(a)
    BY DEF NoSplitBelow
  <2> QED  BY <2>1, <1>3, FoundIsNeeded
<1> HIDE DEF N
<1>5. /\ IsProgram(b, n2, rank2, place2) /\ new \in Seq(DistributionSet)
      /\ Ordered(b, new) /\ Ordered(b, old)
  BY DEF IsPlanned, Ledger, eval
<1>6. /\ list \in Seq(DistributionSet) /\ ToSet(list) = N
      /\ owner = LocalDbId => b = a /\ new = list
      /\ owner # LocalDbId => new = Retarget(list, o, owner) /\ TypeOf(a, o) # "View"
  BY <1>1 DEF IsEval
<1>7. owner \in Db
  <2>1. place[o] \in Places
    BY <1>3 DEF IsProgram, PlacedBy
  <2> QED  BY <2>1 DEF Places
<1>8. /\ owner = LocalDbId => ToSet(new) = N
      /\ owner # LocalDbId => ToSet(new) = MovedSet(N, o, owner)
  BY <1>6, <1>7, RetargetIs
<1>9. \A d \in ToSet(new) : d.finalOutputName = o
  <2>1. \A d \in N : d \in DistributionSet
    BY <1>6 DEF ToSet
  <2> QED  BY <2>1, <1>2, <1>8, FinalsAreMoved
<1>10. \/ owner = LocalDbId /\ b = a /\ place2 = place
       \/ owner # LocalDbId /\ IsSplitAt(a, place, b, place2, o)
  BY DEF IsPlanned, eval
<1> HIDE DEF b, new, owner
<1>11. ToSet(new \o old) = ToSet(new) \cup ToSet(old)
  BY <1>5, ToSetOfJoin
<1>12. Ordered(b, new \o old)
  BY <1>5, OrderedJoin
<1>13. \A d \in ToSet(old) : d.finalOutputName \in DOMAIN a.relations \ P
  BY DEF Ledger
<1>14. DOMAIN a.relations \subseteq DOMAIN b.relations
  BY <1>10 DEF IsSplitAt
<1>15. \A d \in ToSet(new \o old) : d.finalOutputName \in DOMAIN b.relations \ (P \ {o})
  BY <1>3, <1>9, <1>11, <1>13, <1>14
<1>16. OfOutput(ToSet(new \o old), o) = ToSet(new)
  BY <1>9, <1>11, <1>13 DEF OfOutput
<1>17. \A x : x # o => OfOutput(ToSet(new \o old), x) = OfOutput(ToSet(old), x)
  BY <1>9, <1>11 DEF OfOutput
<1>18. ASSUME NoSplitBelow(b, o) PROVE ToSet(new) = NeededIn(b, place2, o)
  <2>1. CASE owner = LocalDbId
    BY <2>1, <1>4, <1>8, <1>10, <1>18
  <2>2. CASE owner # LocalDbId
    <3>1. IsSplitAt(a, place, b, place2, o) /\ TypeOf(a, o) # "View"
      BY <2>2, <1>6, <1>10
    <3>2. NoSplitBelow(a, o) /\ NeededIn(b, place2, o) = MovedSet(NeededIn(a, place, o), o, owner)
      BY <3>1, <1>5, <1>18, NeededInSplit DEF owner
    <3> QED  BY <3>2, <2>2, <1>4, <1>8
  <2> QED  BY <2>1, <2>2
<1>19. ASSUME NEW x \in OfType(b, {"Output"}), x \notin P, x # o, NoSplitBelow(b, x)
       PROVE  OfOutput(ToSet(old), x) = NeededIn(b, place2, x)
  <2>1. CASE owner = LocalDbId
    BY <2>1, <1>10, <1>19 DEF Ledger
  <2>2. CASE owner # LocalDbId
    <3>1. IsSplitAt(a, place, b, place2, o)
      BY <2>2, <1>10
    <3>2. x \in DOMAIN a.relations /\ TypeOf(a, x) = "Output"
      BY <3>1, <1>19 DEF IsSplitAt, OfType, TypeOf, GetRelationDef
    <3>3. NoSplitBelow(a, x) /\ NeededIn(b, place2, x) = NeededIn(a, place, x)
      BY <3>1, <3>2, <1>5, <1>19, NeededInSplitOther
    <3>4. x \in OfType(a, {"Output"}) \ P
      BY <3>2, <1>19 DEF OfType
    <3> QED  BY <3>3, <3>4 DEF Ledger
  <2> QED  BY <2>1, <2>2
<1>20. ASSUME NEW x \in OfType(b, {"Output"}) \ (P \ {o}), NoSplitBelow(b, x)
       PROVE  OfOutput(ToSet(new \o old), x) = NeededIn(b, place2, x)
  BY <1>16, <1>17, <1>18, <1>19, <1>20
<1>21. Ledger(b, place2, new \o old, P \ {o})
  BY <1>12, <1>15, <1>20 DEF Ledger
<1> QED  BY <1>21 DEF b, new, eval

-----------------------------------------------------------------------------
(***************************************************************************)
(* Loops whose turns go from one set of values to another.                 *)
(***************************************************************************)
Staged(f, n, V, t, step) ==
  /\ f = [i \in 0..n |-> f[i]] /\ f[0] = t
  /\ \A i \in 0..n : f[i] \in V[i]
  /\ \A i \in 1..n : f[i] = step[i][f[i - 1]]

LEMMA Stages ==
  ASSUME NEW n \in Nat, NEW V, NEW t \in V[0], NEW step,
         \A i \in 1..n : \A k \in V[i - 1] : step[i][k] \in V[i]
  PROVE  \E f : Staged(f, n, V, t, step)
<1> DEFINE T         == UNION {V[i] : i \in 0..n}
           one(i, k) == IF k \in V[i - 1] THEN step[i][k] ELSE t
           turn      == [i \in 1..n |-> [k \in T |-> one(i, k)]]
<1>1. \A i \in 1..n : i \in 0..n /\ i - 1 \in 0..n
  OBVIOUS
<1>2. 0 \in 0..n /\ t \in T
  OBVIOUS
<1>3. \A i \in 0..n : V[i] \subseteq T
  OBVIOUS
<1> HIDE DEF T
<1>4. \A i \in 1..n : \A k \in T : one(i, k) \in T
  BY <1>1, <1>2, <1>3
<1> HIDE DEF one
<1>5. turn \in [1..n -> [T -> T]]
  BY <1>4
<1>6. \A i \in 1..n : \A k \in T : turn[i][k] = one(i, k)
  OBVIOUS
<1> HIDE DEF turn
<1>7. PICK f : Counts(f, n, T, t, turn)
  BY <1>2, <1>5, ForLoop
<1>8. f \in [0..n -> T] /\ f[0] = t /\ \A i \in 1..n : f[i] = turn[i][f[i - 1]]
  BY <1>7 DEF Counts
<1>9. ASSUME NEW i \in 1..n, f[i - 1] \in V[i - 1] PROVE f[i] \in V[i] /\ f[i] = step[i][f[i - 1]]
  <2>1. f[i] = one(i, f[i - 1])
    BY <1>1, <1>6, <1>8
  <2>2. one(i, f[i - 1]) = step[i][f[i - 1]]
    BY <1>9 DEF one
  <2> QED  BY <2>1, <2>2, <1>9
<1>10. \A i \in 0..n : f[i] \in V[i]
  <2> DEFINE P == {i \in 0..n : f[i] \in V[i]}
  <2>1. 0 \in P
    BY <1>2, <1>8
  <2>2. ASSUME NEW i \in 1..n, i - 1 \in P PROVE i \in P
    BY <2>2, <1>1, <1>9
  <2>3. P \subseteq 0..n
    OBVIOUS
  <2> HIDE DEF P
  <2>4. P = 0..n
    BY <2>1, <2>2, <2>3, NatInd
  <2> QED  BY <2>4 DEF P
<1>11. f = [i \in 0..n |-> f[i]]
  BY <1>8
<1>12. \A i \in 1..n : f[i] = step[i][f[i - 1]]
  BY <1>1, <1>9, <1>10
<1> QED  BY <1>8, <1>10, <1>11, <1>12 DEF Staged

ProgramSet ==
  [relations : UNION {[S -> RelationSet] : S \in SUBSET AllNames}, depTree : Trees(AllNames)]

LEMMA InProgramSet == ASSUME NEW a, Sound(a), Mirror(a, {}) PROVE a \in ProgramSet
<1>1. a.relations \in UNION {[S -> RelationSet] : S \in SUBSET AllNames}
  BY DEF Sound
<1>2. a.depTree \in Trees(AllNames)
  BY TreesAre DEF Mirror
<1>3. a = [relations |-> a.relations, depTree |-> a.depTree]
  BY DEF Mirror
<1> HIDE DEF ProgramSet
<1>4. \A x, y : x \in UNION {[S -> RelationSet] : S \in SUBSET AllNames} /\ y \in Trees(AllNames)
        => [relations |-> x, depTree |-> y] \in ProgramSet
  BY DEF ProgramSet
<1>5. [relations |-> a.relations, depTree |-> a.depTree] \in ProgramSet
  BY <1>1, <1>2, <1>4
<1> QED  BY <1>3, <1>5

-----------------------------------------------------------------------------
(***************************************************************************)
(* The program when the runtime starts.                                    *)
(***************************************************************************)
IsUnsplit(a, n, rank, place) == IsProgram(a, n, rank, place) /\ Splits(a) = {}

NoViews == [relations |-> Tables, depTree |-> EmptyTree]

LEMMA NoViewsIs == \E n, rank, place : IsUnsplit(NoViews, n, rank, place)
<1> DEFINE a     == NoViews
           T     == TableNames
           rank  == [r \in T |-> 0]
           place == [r \in T |-> PlaceAt(TypeOf(a, r), RemoteId(a, r))]
           three == {"EventTable", "Table", "ExistingAndImmutable"}
<1>1. a.relations = Tables /\ a.depTree = EmptyTree /\ DOMAIN a.relations = T
  BY DEF NoViews, Tables
<1>2. a = [relations |-> a.relations, depTree |-> a.depTree]
  BY DEF NoViews
<1>3. \A r \in T : /\ Tables[r].rName = r /\ Tables[r].refs = <<>> /\ Tables[r].relationType \in three
                   /\ Tables[r].relationType = "ExistingAndImmutable" => r \in DOMAIN RelationLocation
  BY DEF Tables, Relation, TableNames
<1>4. \A r \in T : TypeOf(a, r) = Tables[r].relationType /\ RefsOf(a, r) = <<>>
  BY <1>1, <1>3, ReadsOfNothing DEF TypeOf, GetRelationDef, RefsOf
<1> HIDE DEF a
<1>5. T \subseteq ProgramNames /\ T \subseteq AllNames
  BY DEF ProgramNames, AllNames, Evaluated
<1>6. Derived(a) = {} /\ OfType(a, {"Output"}) = {} /\ Splits(a) = {}
  <2>1. Derived(a) = {} /\ OfType(a, {"Output"}) = {}
    BY <1>1, <1>3, <1>4 DEF Derived, OfType
  <2> QED  BY <2>1 DEF Splits
<1>7. \A r \in T : Tables[r] \in RelationSet
  <2>1. <<>> \in Seq(Seq(AllNames))
    OBVIOUS
  <2>2. \A r \in T : Tables[r] = [rName |-> r, relationType |-> Tables[r].relationType, refs |-> <<>>]
    BY DEF Tables, Relation
  <2>3. ASSUME NEW r \in T PROVE Tables[r] \in RelationSet
    <3>1. r \in AllNames /\ Tables[r].relationType \in RelationTypes
      BY <1>3, <1>5 DEF RelationTypes
    <3>2. [rName |-> r, relationType |-> Tables[r].relationType, refs |-> <<>>] \in RelationSet
      BY <3>1, <2>1 DEF RelationSet
    <3> QED  BY <3>2, <2>2
  <2> QED  BY <2>3
<1>8. Sound(a)
  <2>1. a.relations \in [T -> RelationSet]
    <3>1. Tables = [r \in T |-> Tables[r]]
      BY DEF Tables
    <3> QED  BY <3>1, <1>1, <1>7
  <2>2. OfType(a, {"ExistingAndImmutable"}) \subseteq DOMAIN RelationLocation
    BY <1>1, <1>3, <1>4 DEF OfType
  <2>3. \A o \in ProgramNames : ~Has(a, AsyncView(o))
    BY <1>1, <1>5, AsyncViewIs DEF Has
  <2> HIDE DEF T
  <2>4. /\ DOMAIN a.relations \subseteq AllNames
        /\ \A x \in DOMAIN a.relations : a.relations[x].rName = x
        /\ \A x \in DOMAIN a.relations \ Derived(a) : a.relations[x].refs = <<>>
        /\ \A x \in TableNames : x \in DOMAIN a.relations /\ a.relations[x] = Tables[x]
    BY <1>1, <1>3, <1>5 DEF T
  <2> QED  BY <2>1, <2>2, <2>3, <2>4, <1>1, <1>6 DEF Sound
<1>9. Mirror(a, {})
  <2>1. DOMAIN a.depTree.node = {}
    BY <1>1 DEF EmptyTree
  <2>2. IsTree(a.depTree, AllNames)
    BY <1>1, EmptyIsTree
  <2>3. \A x \in DOMAIN a.relations \ Derived(a) : RefsOf(a, x) = <<>>
    BY <1>1, <1>4
  <2> QED  BY <2>1, <2>2, <2>3, <1>2, <1>6 DEF Mirror
<1>10. RankedBy(a, 0, rank)
  <2>1. \A x \in T : ToSet(RefsOf(a, x)) = {}
    BY <1>4 DEF ToSet
  <2> QED  BY <2>1, <1>1 DEF RankedBy
<1>11. \A x \in T : RemoteId(a, x) \in Db
  <2>1. \A x \in T : TypeOf(a, x) \in three
    BY <1>3, <1>4
  <2>2. \A x \in T : TypeOf(a, x) = "ExistingAndImmutable" => x \in DOMAIN RelationLocation
    BY <1>3, <1>4
  <2> HIDE DEF T
  <2> QED  BY <2>1, <2>2, PlanAssumption DEF RemoteId
<1>12. PlacedBy(a, place)
  <2>1. \A x \in T : place[x] = PlaceAt(TypeOf(a, x), RemoteId(a, x)) /\ OwnerOf(a, x, place) = RemoteId(a, x)
    BY <1>4 DEF OwnerOf
  <2>2. \A x \in T : place[x] \in Places
    BY <2>1, <1>11, PlanAssumption DEF PlaceAt, Places
  <2> HIDE DEF T
  <2>3. place = [x \in T |-> place[x]]
    OBVIOUS
  <2> HIDE DEF place
  <2> QED  BY <2>1, <2>2, <2>3, <1>1 DEF PlacedBy
<1>13. IsProgram(a, 0, rank, place)
  BY <1>6, <1>8, <1>9, <1>10, <1>12 DEF IsProgram, SplitsAre
<1> QED  BY <1>6, <1>13 DEF IsUnsplit, a

\* The program after the first i definitions.
NamesTo(program, i) == TableNames \cup {program[j].rName : j \in 1..i}

CompiledTo(program, i) ==
  {a \in ProgramSet : /\ DOMAIN a.relations = NamesTo(program, i)
                      /\ \E n, rank, place : IsUnsplit(a, n, rank, place)}

LEMMA CompiledStep ==
  ASSUME NEW program \in Programs, NEW i \in 1..Len(program), NEW a \in CompiledTo(program, i - 1)
  PROVE  AddRelation(a, program[i]) \in CompiledTo(program, i)
<1> DEFINE rel == program[i]
           b   == AddRelation(a, rel)
<1>1. PICK n, rank, place : IsUnsplit(a, n, rank, place)
  BY DEF CompiledTo
<1>2. DOMAIN a.relations = NamesTo(program, i - 1) /\ Sound(a) /\ Mirror(a, {}) /\ IsProgram(a, n, rank, place)
  BY <1>1 DEF CompiledTo, IsUnsplit, IsProgram
<1>3. /\ program \in Seq(Definition) /\ rel \in Definition
      /\ rel.rName \notin NamesTo(program, i - 1)
      /\ Reads(rel) # <<>> /\ ToSet(Reads(rel)) \subseteq NamesTo(program, i - 1)
  <2>1. program \in Seq(Definition)
    BY ProgramAssumption
  <2>2. i \in DOMAIN program
    BY <2>1
  <2> QED  BY <2>1, <2>2, ProgramAssumption DEF NamesTo
<1>4. /\ rel \in RelationSet /\ rel.rName \in ProgramNames /\ IsRelationTypeDerived(rel.relationType)
  <2>1. ProgramNames \subseteq AllNames
    BY DEF AllNames, Evaluated
  <2> HIDE DEF rel
  <2> QED  BY <2>1, <1>3 DEF Definition, RelationSet, RelationTypes, IsRelationTypeDerived
<1> HIDE DEF rel
<1>5. IsNew(a, rel)
  BY <1>2, <1>3, <1>4 DEF IsNew
<1>6. b.relations = With(a.relations, rel) /\ Mirror(b, {})
  <2>1. {} \in SUBSET AllNames /\ {} \ {rel.rName} = {}
    OBVIOUS
  <2>2. b.relations = With(a.relations, rel) /\ Mirror(b, {} \ {rel.rName})
    BY <2>1, <1>2, <1>3, <1>4, AddRelationIs
  <2> QED  BY <2>1, <2>2
<1> HIDE DEF b
<1>7. PICK n2, rank2, place2 : IsProgram(b, n2, rank2, place2) /\ Splits(b) = Splits(a)
  BY <1>2, <1>5, <1>6, ExtendByOne
<1>8. IsUnsplit(b, n2, rank2, place2)
  BY <1>1, <1>7 DEF IsUnsplit
<1>9. DOMAIN b.relations = NamesTo(program, i)
  <2>1. DOMAIN b.relations = NamesTo(program, i - 1) \cup {program[i].rName}
    BY <1>2, <1>6 DEF With, rel
  <2>2. \A j \in 1..i : j \in 1..(i - 1) \/ j = i
    BY <1>3
  <2>3. i \in 1..i /\ \A j \in 1..(i - 1) : j \in 1..i
    BY <1>3
  <2> QED  BY <2>1, <2>2, <2>3 DEF NamesTo
<1>10. b \in ProgramSet
  BY <1>7, InProgramSet DEF IsProgram
<1> QED  BY <1>8, <1>9, <1>10 DEF CompiledTo, b, rel

LEMMA CompiledIs ==
  ASSUME NEW program \in Programs
  PROVE  Compiled(program) \in CompiledTo(program, Len(program))
<1> DEFINE n         == Len(program)
           V         == [i \in 0..n |-> CompiledTo(program, i)]
           one(k, i) == AddRelation(k, program[i])
           step      == [i \in 1..n |-> [k \in V[i - 1] |-> one(k, i)]]
           F         == CHOOSE f : f = [i \in 0..n |-> IF i = 0 THEN NoViews
                                                       ELSE AddRelation(f[i - 1], program[i])]
<1>1. n \in Nat /\ \A i \in 1..n : i \in 0..n /\ i - 1 \in 0..n /\ i # 0
  <2>1. program \in Seq(Definition)
    BY ProgramAssumption
  <2> QED  BY <2>1
<1>2. NoViews \in V[0]
  <2>1. DOMAIN NoViews.relations = NamesTo(program, 0)
    BY DEF NoViews, Tables, NamesTo
  <2>2. NoViews \in ProgramSet
    BY NoViewsIs, InProgramSet DEF IsUnsplit, IsProgram
  <2>3. NoViews \in CompiledTo(program, 0)
    BY <2>1, <2>2, NoViewsIs DEF CompiledTo
  <2> QED  BY <2>3, <1>1
<1>3. \A i \in 1..n : \A k \in V[i - 1] : one(k, i) \in V[i]
  BY <1>1, CompiledStep
<1> HIDE DEF V, one
<1>4. \A i \in 1..n : \A k \in V[i - 1] : step[i][k] = one(k, i)
  OBVIOUS
<1> HIDE DEF step
<1>5. PICK f : Staged(f, n, V, NoViews, step)
  <2>1. \A i \in 1..n : \A k \in V[i - 1] : step[i][k] \in V[i]
    BY <1>3, <1>4
  <2> HIDE DEF n
  <2> QED  BY <2>1, <1>1, <1>2, Stages
<1>6. f = [i \in 0..n |-> IF i = 0 THEN NoViews ELSE one(f[i - 1], i)]
  <2>1. /\ f = [i \in 0..n |-> f[i]] /\ f[0] = NoViews
        /\ \A i \in 0..n : f[i] \in V[i]
        /\ \A i \in 1..n : f[i] = step[i][f[i - 1]]
    BY <1>5 DEF Staged
  <2>2. \A i \in 1..n : f[i] = one(f[i - 1], i)
    BY <2>1, <1>1, <1>4
  <2>3. \A i \in 0..n : i = 0 \/ i \in 1..n
    BY <1>1
  <2> HIDE DEF n
  <2> QED  BY <2>1, <2>2, <2>3
<1>7. F = [i \in 0..n |-> IF i = 0 THEN NoViews ELSE AddRelation(F[i - 1], program[i])]
  BY <1>6 DEF one
<1>8. Compiled(program) = F[n]
  BY DEF Compiled, NoViews
<1> HIDE DEF F
<1>9. F[0] = NoViews /\ \A i \in 1..n : F[i] = one(F[i - 1], i)
  <2>1. F = [i \in 0..n |-> IF i = 0 THEN NoViews ELSE one(F[i - 1], i)]
    BY <1>7 DEF one
  <2>2. 0 \in 0..n
    BY <1>1
  <2> HIDE DEF n
  <2> QED  BY <2>1, <2>2, <1>1
<1>10. \A i \in 0..n : F[i] \in V[i]
  <2> DEFINE P == {i \in 0..n : F[i] \in V[i]}
  <2>1. 0 \in P
    BY <1>1, <1>2, <1>9
  <2>2. ASSUME NEW i \in 1..n, i - 1 \in P PROVE i \in P
    BY <2>2, <1>1, <1>3, <1>9
  <2>3. P \subseteq 0..n
    OBVIOUS
  <2> HIDE DEF P, n
  <2>4. P = 0..n
    BY <2>1, <2>2, <2>3, <1>1, NatInd
  <2> QED  BY <2>4 DEF P
<1>11. n \in 0..n
  BY <1>1
<1>12. F[n] \in CompiledTo(program, n)
  BY <1>10, <1>11 DEF V
<1> QED  BY <1>8, <1>12

LEMMA OutputsOfProgram ==
  ASSUME NEW program \in Programs
  PROVE  LET q == GetAllOutputs(program)
         IN  /\ q \in Seq(ProgramNames) /\ Distinct(q)
             /\ ToSet(q) = OfType(Compiled(program), {"Output"})
<1> DEFINE a == Compiled(program)
           s == [i \in DOMAIN program |-> program[i].rName]
           O == OfType(a, {"Output"})
           n == Len(program)
<1>1. program \in Seq(Definition) /\ DOMAIN program = 1..n /\ n \in Nat
  <2>1. program \in Seq(Definition)
    BY ProgramAssumption
  <2> QED  BY <2>1
<1>2. s \in Seq(ProgramNames) /\ DOMAIN s = 1..n /\ \A i \in 1..n : s[i] = program[i].rName
  <2>1. \A i \in 1..n : program[i] \in Definition
    BY <1>1
  <2>2. \A i \in 1..n : program[i].rName \in ProgramNames
    BY <2>1 DEF Definition
  <2> QED  BY <2>2, <1>1
<1>3. Distinct(s)
  <2>1. \A i \in 1..n : \A j \in 1..(i - 1) : s[j] # s[i]
    <3>1. \A i \in 1..n : program[i].rName \notin {program[j].rName : j \in 1..(i - 1)}
      BY <1>1, ProgramAssumption
    <3>2. \A i \in 1..n : \A j \in 1..(i - 1) : j \in 1..n
      BY <1>1
    <3> QED  BY <3>1, <3>2, <1>2
  <2>2. \A i, j \in 1..n : i = j \/ j \in 1..(i - 1) \/ i \in 1..(j - 1)
    BY <1>1
  <2> HIDE DEF s
  <2> QED  BY <2>1, <2>2, <1>2 DEF Distinct
<1>4. Keep(s, O) \in Seq(ProgramNames) /\ IsKept(s, O, Keep(s, O))
  <2> HIDE DEF s, O
  <2> QED  BY <1>2, <1>3, KeepIs
<1>5. O \subseteq ToSet(s)
  <2>1. DOMAIN a.relations = NamesTo(program, n) /\ \E m, rank, place : IsUnsplit(a, m, rank, place)
    BY CompiledIs DEF CompiledTo
  <2>2. Sound(a)
    BY <2>1 DEF IsUnsplit, IsProgram
  <2> HIDE DEF a
  <2>3. O \cap TableNames = {}
    <3>1. \A x \in TableNames : TypeOf(a, x) \in {"EventTable", "Table", "ExistingAndImmutable"}
      <4>1. \A x \in TableNames : Tables[x].relationType \in {"EventTable", "Table", "ExistingAndImmutable"}
        BY DEF Tables, Relation
      <4>2. \A x \in TableNames : a.relations[x] = Tables[x]
        BY <2>2 DEF Sound
      <4> QED  BY <4>1, <4>2 DEF TypeOf, GetRelationDef
    <3> QED  BY <3>1 DEF OfType
  <2>4. O \subseteq NamesTo(program, n)
    BY <2>1 DEF OfType
  <2>5. \A x \in O : \E j \in 1..n : x = program[j].rName
    BY <2>3, <2>4 DEF NamesTo
  <2>6. ToSet(s) = {s[i] : i \in 1..n}
    BY <1>2 DEF ToSet
  <2> QED  BY <2>5, <2>6, <1>2
<1>6. GetAllOutputs(program) = Keep(s, O)
  BY DEF GetAllOutputs
<1> HIDE DEF s, O
<1> QED  BY <1>4, <1>5, <1>6 DEF IsKept, O

-----------------------------------------------------------------------------
(***************************************************************************)
(* augmentDepTree; and the tables of the caches, which the program gets.   *)
(***************************************************************************)
LEMMA AugmentIs ==
  ASSUME NEW a, NEW n, NEW rank, NEW place, IsProgram(a, n, rank, place)
  PROVE  /\ AugmentedBy(a, AugmentDepTree(a), [x \in DOMAIN AugmentDepTree(a) |-> x])
         /\ Derived(a) \subseteq DOMAIN AugmentDepTree(a)
<1> DEFINE aug == AugmentDepTree(a)
           N   == DOMAIN a.depTree.node
           m   == [x \in DOMAIN aug |-> x]
<1>1. /\ N \subseteq DOMAIN a.relations
      /\ \A x \in N : x \in DOMAIN a.relations => a.depTree.node[x].dependsOn = RefsOf(a, x)
      /\ \A x \in Derived(a) : x \in N /\ ToSet(RefsOf(a, x)) \subseteq N
      /\ \A x \in DOMAIN a.relations \ Derived(a) : RefsOf(a, x) = <<>>
  BY DEF IsProgram, Mirror
<1>2. /\ DOMAIN aug = N
      /\ \A x \in N : aug[x].remoteId = RemoteId(a, x) /\ aug[x].dependsOn = RefsOf(a, x)
  <2>1. {s \in N : Has(a, s)} = N
    BY <1>1 DEF Has
  <2>2. aug = [r \in N |-> [remoteId |-> RemoteId(a, r), dependsOn |-> a.depTree.node[r].dependsOn]]
    BY <2>1 DEF AugmentDepTree
  <2> HIDE DEF aug, N
  <2> QED  BY <2>2, <1>1
<1> HIDE DEF aug
<1>3. \A x \in DOMAIN aug : m[x] = x
  OBVIOUS
<1> HIDE DEF m, N
<1>4. ASSUME NEW x \in DOMAIN aug PROVE ToSet(aug[x].dependsOn) \subseteq DOMAIN aug
  <2>1. CASE x \in Derived(a)
    BY <2>1, <1>1, <1>2
  <2>2. CASE x \notin Derived(a)
    <3>1. aug[x].dependsOn = <<>>
      BY <2>2, <1>1, <1>2
    <3> QED  BY <3>1 DEF ToSet
  <2> QED  BY <2>1, <2>2
<1>5. AugmentedBy(a, aug, m)
  BY <1>1, <1>2, <1>3, <1>4 DEF AugmentedBy
<1>6. Derived(a) \subseteq DOMAIN aug
  BY <1>1, <1>2
<1> QED  BY <1>5, <1>6 DEF aug, m

-----------------------------------------------------------------------------
(***************************************************************************)
(* The tables of the caches.                                               *)
(***************************************************************************)
Grows(a, place, b, n2, rank2, place2) ==
  IsProgram(b, n2, rank2, place2) /\ Extends(a, place, b, place2) /\ Splits(b) = Splits(a)

LEMMA GrowsTwice ==
  ASSUME NEW a, NEW place, NEW b, NEW n2, NEW rank2, NEW place2, Grows(a, place, b, n2, rank2, place2),
         NEW c, NEW n3, NEW rank3, NEW place3, Grows(b, place2, c, n3, rank3, place3)
  PROVE  Grows(a, place, c, n3, rank3, place3)
<1>1. Splits(a) \subseteq DOMAIN a.relations /\ Splits(c) = Splits(a)
  BY SplitsIn DEF Grows
<1>2. Extends(a, place, c, place3)
  BY <1>1 DEF Grows, Extends
<1> QED  BY <1>1, <1>2 DEF Grows

LEMMA GrowsNot ==
  ASSUME NEW a, NEW n, NEW rank, NEW place, IsProgram(a, n, rank, place)
  PROVE  Grows(a, place, a, n, rank, place)
BY SplitsIn DEF Grows, Extends

LEMMA AddTable ==
  ASSUME NEW a, NEW n, NEW rank, NEW place, IsProgram(a, n, rank, place),
         NEW name \in AllNames \ Evaluated, NEW type \in {"EventTable", "Table"}
  PROVE  LET b == AddRelation(a, Relation(name, type, <<>>))
         IN  /\ \E n2, rank2, place2 : Grows(a, place, b, n2, rank2, place2)
             /\ DOMAIN b.relations = DOMAIN a.relations \cup {name}
<1> DEFINE rel == Relation(name, type, <<>>)
           b   == AddRelation(a, rel)
<1>1. CASE Has(a, name)
  <2>1. b = a
    BY <1>1 DEF AddRelation, Relation
  <2> QED  BY <2>1, <1>1, GrowsNot DEF Has
<1>2. CASE ~Has(a, name)
  <2>1. rel.rName = name /\ rel.relationType = type /\ rel.refs = <<>> /\ ~IsRelationTypeDerived(type)
    BY DEF Relation, IsRelationTypeDerived
  <2>2. rel \in RelationSet
    <3>1. <<>> \in Seq(Seq(AllNames))
      OBVIOUS
    <3> QED  BY <3>1 DEF RelationSet, RelationTypes, Relation
  <2> HIDE DEF rel
  <2>3. IsNew(a, rel)
    BY <2>1, <2>2, <1>2 DEF IsNew, Has
  <2>4. Mirror(a, {}) /\ rel.rName \notin DOMAIN a.relations /\ {} \in SUBSET AllNames /\ {} \ {rel.rName} = {}
    BY <2>3 DEF IsProgram, IsNew
  <2>5. b.relations = With(a.relations, rel) /\ Mirror(b, {} \ {rel.rName})
    BY <2>1, <2>2, <2>4, AddRelationIs
  <2>6. b.relations = With(a.relations, rel) /\ Mirror(b, {})
    BY <2>4, <2>5
  <2> HIDE DEF b
  <2>7. \E n2, rank2, place2 : /\ IsProgram(b, n2, rank2, place2)
                               /\ Extends(a, place, b, place2) /\ Splits(b) = Splits(a)
    BY <2>3, <2>6, ExtendByOne
  <2>8. DOMAIN b.relations = DOMAIN a.relations \cup {name}
    BY <2>1, <2>6 DEF With
  <2> QED  BY <2>7, <2>8 DEF Grows, b, rel
<1> QED  BY <1>1, <1>2

CacheNames(r) == {CacheName(r), ReferenceName(r)}

LEMMA AddCacheOf ==
  ASSUME NEW a, NEW n, NEW rank, NEW place, IsProgram(a, n, rank, place), NEW r \in Evaluated
  PROVE  LET b == AddCacheTablesOf(a, r)
         IN  /\ \E n2, rank2, place2 : Grows(a, place, b, n2, rank2, place2)
             /\ DOMAIN b.relations = DOMAIN a.relations \cup CacheNames(r)
<1> DEFINE b == AddRelation(a, Relation(CacheName(r), "EventTable", <<>>))
           c == AddRelation(b, Relation(ReferenceName(r), "Table", <<>>))
<1>1. CacheName(r) \in AllNames \ Evaluated /\ ReferenceName(r) \in AllNames \ Evaluated
  BY NameAssumption DEF AllNames
<1>2. "EventTable" \in {"EventTable", "Table"} /\ "Table" \in {"EventTable", "Table"}
  OBVIOUS
<1>3. /\ \E n2, rank2, place2 : Grows(a, place, b, n2, rank2, place2)
      /\ DOMAIN b.relations = DOMAIN a.relations \cup {CacheName(r)}
  BY <1>1, <1>2, AddTable
<1> HIDE DEF b
<1>4. PICK n2, rank2, place2 : Grows(a, place, b, n2, rank2, place2)
  BY <1>3
<1>5. IsProgram(b, n2, rank2, place2)
  BY <1>4 DEF Grows
<1>6. /\ \E n3, rank3, place3 : Grows(b, place2, c, n3, rank3, place3)
      /\ DOMAIN c.relations = DOMAIN b.relations \cup {ReferenceName(r)}
  BY <1>1, <1>2, <1>5, AddTable
<1>7. AddCacheTablesOf(a, r) = c
  BY DEF AddCacheTablesOf, b
<1> HIDE DEF c
<1>8. PICK n3, rank3, place3 : Grows(b, place2, c, n3, rank3, place3)
  BY <1>6
<1>9. Grows(a, place, c, n3, rank3, place3)
  BY <1>4, <1>8, GrowsTwice
<1>10. DOMAIN c.relations = DOMAIN a.relations \cup CacheNames(r)
  BY <1>3, <1>6 DEF CacheNames
<1> QED  BY <1>7, <1>9, <1>10

CachesTo(a, list, i) == {j \in 1..i : UsesCache(a, list[j])}

NamesOfCaches(a, list, i) == UNION {CacheNames(list[j].relationName) : j \in CachesTo(a, list, i)}

CachedTo(a, place, list, i) ==
  {b \in ProgramSet : /\ \E n2, rank2, place2 : Grows(a, place, b, n2, rank2, place2)
                      /\ DOMAIN b.relations = DOMAIN a.relations \cup NamesOfCaches(a, list, i)}

LEMMA CacheStep ==
  ASSUME NEW a, NEW n, NEW rank, NEW place, IsProgram(a, n, rank, place),
         NEW list \in Seq(DistributionSet), \A d \in ToSet(list) : d.relationName \in DOMAIN a.relations,
         NEW i \in 1..Len(list), NEW k \in CachedTo(a, place, list, i - 1)
  PROVE  (IF UsesCache(a, list[i]) THEN AddCacheTablesOf(k, list[i].relationName) ELSE k)
           \in CachedTo(a, place, list, i)
<1> DEFINE r == list[i].relationName
           b == AddCacheTablesOf(k, r)
<1>1. PICK n2, rank2, place2 : Grows(a, place, k, n2, rank2, place2)
  BY DEF CachedTo
<1>2. DOMAIN k.relations = DOMAIN a.relations \cup NamesOfCaches(a, list, i - 1) /\ k \in ProgramSet
  BY DEF CachedTo
<1>3. \A j \in 1..i : j \in 1..(i - 1) \/ j = i
  OBVIOUS
<1>4. i \in 1..i /\ i \notin 1..(i - 1) /\ \A j \in 1..(i - 1) : j \in 1..i
  OBVIOUS
<1>5. CASE ~UsesCache(a, list[i])
  <2>1. CachesTo(a, list, i) = CachesTo(a, list, i - 1)
    BY <1>3, <1>4, <1>5 DEF CachesTo
  <2>2. k \in CachedTo(a, place, list, i)
    BY <2>1, <1>1, <1>2 DEF CachedTo, NamesOfCaches
  <2> QED  BY <2>2, <1>5
<1>6. CASE UsesCache(a, list[i])
  <2>1. CachesTo(a, list, i) = CachesTo(a, list, i - 1) \cup {i}
    BY <1>3, <1>4, <1>6 DEF CachesTo
  <2>2. NamesOfCaches(a, list, i) = NamesOfCaches(a, list, i - 1) \cup CacheNames(r)
    BY <2>1 DEF NamesOfCaches
  <2>3. r \in Evaluated
    <3>1. list[i] \in ToSet(list)
      <4>1. i \in DOMAIN list
        OBVIOUS
      <4> QED  BY <4>1 DEF ToSet
    <3>2. r \in DOMAIN a.relations /\ TypeOf(a, r) = "EventView"
      BY <3>1, <1>6 DEF UsesCache
    <3>3. r \in Derived(a)
      BY <3>2 DEF Derived, OfType
    <3> QED  BY <3>3 DEF IsProgram, Sound
  <2>4. IsProgram(k, n2, rank2, place2)
    BY <1>1 DEF Grows
  <2>5. /\ \E n3, rank3, place3 : Grows(k, place2, b, n3, rank3, place3)
        /\ DOMAIN b.relations = DOMAIN k.relations \cup CacheNames(r)
    BY <2>3, <2>4, AddCacheOf
  <2> HIDE DEF b, r
  <2>6. PICK n3, rank3, place3 : Grows(k, place2, b, n3, rank3, place3)
    BY <2>5
  <2>7. Grows(a, place, b, n3, rank3, place3)
    BY <2>6, <1>1, GrowsTwice
  <2>8. b \in ProgramSet
    BY <2>6, InProgramSet DEF Grows, IsProgram
  <2>9. DOMAIN b.relations = DOMAIN a.relations \cup NamesOfCaches(a, list, i)
    BY <2>2, <2>5, <1>2
  <2>10. b \in CachedTo(a, place, list, i)
    BY <2>7, <2>8, <2>9 DEF CachedTo
  <2> QED  BY <2>10, <1>6 DEF b, r
<1> QED  BY <1>5, <1>6

LEMMA CachesAre ==
  ASSUME NEW a, NEW nn, NEW rank, NEW place, IsProgram(a, nn, rank, place),
         NEW list \in Seq(DistributionSet), \A d \in ToSet(list) : d.relationName \in DOMAIN a.relations
  PROVE  AddCacheTables(a, list) \in CachedTo(a, place, list, Len(list))
<1> DEFINE n         == Len(list)
           V         == [i \in 0..n |-> CachedTo(a, place, list, i)]
           one(k, i) == IF UsesCache(a, list[i]) THEN AddCacheTablesOf(k, list[i].relationName) ELSE k
           step      == [i \in 1..n |-> [k \in V[i - 1] |-> one(k, i)]]
           F         == CHOOSE f : f = [i \in 0..n |->
                          IF i = 0 THEN a
                          ELSE IF UsesCache(a, list[i])
                               THEN AddCacheTablesOf(f[i - 1], list[i].relationName)
                          ELSE f[i - 1]]
<1>1. n \in Nat /\ \A i \in 1..n : i \in 0..n /\ i - 1 \in 0..n /\ i # 0
  OBVIOUS
<1>2. a \in V[0]
  <2>1. NamesOfCaches(a, list, 0) = {}
    BY DEF NamesOfCaches, CachesTo
  <2>2. a \in ProgramSet
    BY InProgramSet DEF IsProgram
  <2>3. a \in CachedTo(a, place, list, 0)
    BY <2>1, <2>2, GrowsNot DEF CachedTo
  <2> QED  BY <2>3, <1>1
<1>3. \A i \in 1..n : \A k \in V[i - 1] : one(k, i) \in V[i]
  <2>1. ASSUME NEW i \in 1..n, NEW k \in CachedTo(a, place, list, i - 1)
        PROVE  one(k, i) \in CachedTo(a, place, list, i)
    BY CacheStep
  <2> HIDE DEF one
  <2> QED  BY <2>1, <1>1
<1> HIDE DEF V, one
<1>4. \A i \in 1..n : \A k \in V[i - 1] : step[i][k] = one(k, i)
  OBVIOUS
<1> HIDE DEF step
<1>5. PICK f : Staged(f, n, V, a, step)
  <2>1. \A i \in 1..n : \A k \in V[i - 1] : step[i][k] \in V[i]
    BY <1>3, <1>4
  <2> HIDE DEF n
  <2> QED  BY <2>1, <1>1, <1>2, Stages
<1>6. f = [i \in 0..n |-> IF i = 0 THEN a ELSE one(f[i - 1], i)]
  <2>1. /\ f = [i \in 0..n |-> f[i]] /\ f[0] = a
        /\ \A i \in 0..n : f[i] \in V[i]
        /\ \A i \in 1..n : f[i] = step[i][f[i - 1]]
    BY <1>5 DEF Staged
  <2>2. \A i \in 1..n : f[i] = one(f[i - 1], i)
    BY <2>1, <1>1, <1>4
  <2>3. \A i \in 0..n : i = 0 \/ i \in 1..n
    BY <1>1
  <2> HIDE DEF n
  <2> QED  BY <2>1, <2>2, <2>3
<1>7. F = [i \in 0..n |-> IF i = 0 THEN a
                          ELSE IF UsesCache(a, list[i])
                               THEN AddCacheTablesOf(F[i - 1], list[i].relationName)
                          ELSE F[i - 1]]
  BY <1>6 DEF one
<1>8. AddCacheTables(a, list) = F[n]
  BY DEF AddCacheTables
<1> HIDE DEF F
<1>9. F[0] = a /\ \A i \in 1..n : F[i] = one(F[i - 1], i)
  <2>1. F = [i \in 0..n |-> IF i = 0 THEN a ELSE one(F[i - 1], i)]
    BY <1>7 DEF one
  <2>2. 0 \in 0..n
    BY <1>1
  <2> HIDE DEF n
  <2> QED  BY <2>1, <2>2, <1>1
<1>10. \A i \in 0..n : F[i] \in V[i]
  <2> DEFINE P == {i \in 0..n : F[i] \in V[i]}
  <2>1. 0 \in P
    BY <1>1, <1>2, <1>9
  <2>2. ASSUME NEW i \in 1..n, i - 1 \in P PROVE i \in P
    BY <2>2, <1>1, <1>3, <1>9
  <2>3. P \subseteq 0..n
    OBVIOUS
  <2> HIDE DEF P, n
  <2>4. P = 0..n
    BY <2>1, <2>2, <2>3, <1>1, NatInd
  <2> QED  BY <2>4 DEF P
<1>11. n \in 0..n
  BY <1>1
<1>12. F[n] \in CachedTo(a, place, list, n)
  BY <1>10, <1>11 DEF V
<1> QED  BY <1>8, <1>12

-----------------------------------------------------------------------------
(***************************************************************************)
(* A view that is added to the running program.                            *)
(***************************************************************************)
LEMMA DeleteNothing ==
  ASSUME NEW a, Mirror(a, {}), NEW r, r \notin DOMAIN a.relations, a.relations = [x \in DOMAIN a.relations |-> a.relations[x]]
  PROVE  DeleteView(a, r).relations = a.relations /\ Mirror(DeleteView(a, r), {})
<1> DEFINE b == DeleteView(a, r)
           N == DOMAIN a.depTree.node
<1>1. /\ a = [relations |-> a.relations, depTree |-> a.depTree]
      /\ IsTree(a.depTree, AllNames) /\ N \subseteq DOMAIN a.relations
      /\ \A x \in N \cap DOMAIN a.relations : a.depTree.node[x].dependsOn = RefsOf(a, x)
      /\ \A x \in Derived(a) : x \in N /\ ToSet(RefsOf(a, x)) \subseteq N
      /\ \A x \in DOMAIN a.relations \ Derived(a) : RefsOf(a, x) = <<>>
  BY DEF Mirror
<1>2. b = [relations |-> [x \in DOMAIN a.relations \ {r} |-> a.relations[x]],
           depTree |-> DeleteNode(a.depTree, r)]
  <2> DEFINE c == DeleteRelation(a, r)
  <2>1. c = [relations |-> [x \in DOMAIN a.relations \ {r} |-> a.relations[x]], depTree |-> a.depTree]
    BY <1>1 DEF DeleteRelation
  <2>2. b = [c EXCEPT !.depTree = DeleteNode(@, r)]
    BY DEF DeleteView
  <2> HIDE DEF c, b
  <2> QED  BY <2>1, <2>2
<1>3. b.relations = a.relations /\ b.depTree = DeleteNode(a.depTree, r) /\ b = [relations |-> b.relations, depTree |-> b.depTree]
  <2>1. DOMAIN a.relations \ {r} = DOMAIN a.relations
    OBVIOUS
  <2>2. [x \in DOMAIN a.relations \ {r} |-> a.relations[x]] = a.relations
    BY <2>1
  <2> HIDE DEF b
  <2> QED  BY <2>2, <1>2
<1> HIDE DEF b
<1>4. /\ IsTree(b.depTree, AllNames) /\ DOMAIN b.depTree.node = N
      /\ \A x \in N : b.depTree.node[x] = a.depTree.node[x]
  <2> DEFINE u == DeleteNode(a.depTree, r)
  <2>1. /\ IsTree(u, AllNames) /\ DOMAIN u.node = N \ {r}
        /\ \A x \in DOMAIN u.node : u.node[x] = a.depTree.node[x]
    BY <1>1, DeleteNodeIs
  <2>2. N \ {r} = N
    BY <1>1
  <2> HIDE DEF u, N
  <2> QED  BY <2>1, <2>2, <1>3 DEF u
<1>5. Derived(b) = Derived(a) /\ \A x : RefsOf(b, x) = RefsOf(a, x)
  BY <1>3 DEF Derived, OfType, TypeOf, GetRelationDef, RefsOf
<1>6. \A x \in DOMAIN b.depTree.node \cap DOMAIN b.relations : b.depTree.node[x].dependsOn = RefsOf(b, x)
  BY <1>1, <1>3, <1>4, <1>5
<1>7. Mirror(b, {})
  BY <1>1, <1>3, <1>4, <1>5, <1>6 DEF Mirror
<1> QED  BY <1>3, <1>7 DEF b

LEMMA CompileIs ==
  ASSUME NEW a, Mirror(a, {}), NEW rel \in RelationSet, rel.rName \notin DOMAIN a.relations,
         IsRelationTypeDerived(rel.relationType), ToSet(Reads(rel)) \subseteq DOMAIN a.relations
  PROVE  Compile(a, rel).relations = With(a.relations, rel) /\ Mirror(Compile(a, rel), {})
<1> DEFINE r     == rel.rName
           deps  == Reads(rel)
           added == AddRelation(a, rel)
           b     == Compile(a, rel)
           t     == added.depTree
           N     == DOMAIN t.node
           u     == AddSingleDependency(t, deps, r, Events(added))
<1>1. added.relations = With(a.relations, rel) /\ Mirror(added, {})
  <2>1. {} \in SUBSET AllNames /\ {} \ {r} = {}
    OBVIOUS
  <2>2. added.relations = With(a.relations, rel) /\ Mirror(added, {} \ {r})
    BY <2>1, AddRelationIs
  <2> QED  BY <2>1, <2>2
<1>2. b = [added EXCEPT !.depTree = u]
  BY DEF Compile
<1>3. deps \in Seq(AllNames) /\ r \in AllNames
  BY ReadsIs DEF RelationSet
<1>4. r \in DOMAIN added.relations /\ RefsOf(added, r) = deps /\ r \in Derived(added)
  <2>1. r \in DOMAIN With(a.relations, rel) /\ With(a.relations, rel)[r] = rel
    BY DEF With
  <2> HIDE DEF added
  <2> QED  BY <2>1, <1>1 DEF RefsOf, Derived, OfType, TypeOf, GetRelationDef, IsRelationTypeDerived
<1> HIDE DEF added, deps
<1>5. /\ added = [relations |-> added.relations, depTree |-> t]
      /\ IsTree(t, AllNames) /\ N \subseteq DOMAIN added.relations
      /\ \A x \in N \cap DOMAIN added.relations : t.node[x].dependsOn = RefsOf(added, x)
      /\ \A x \in Derived(added) : x \in N /\ ToSet(RefsOf(added, x)) \subseteq N
      /\ \A x \in DOMAIN added.relations \ Derived(added) : RefsOf(added, x) = <<>>
  BY <1>1 DEF Mirror
<1>6. b = [relations |-> added.relations, depTree |-> u]
  BY <1>2, <1>5
<1>7. b.relations = added.relations /\ b.depTree = u /\ b = [relations |-> b.relations, depTree |-> b.depTree]
  BY <1>6
<1>8. IsAdded(t, u, AllNames, deps, r)
  BY <1>3, <1>5, AddSingleAdds
<1> HIDE DEF b, u
<1>9. /\ IsTree(u, AllNames) /\ DOMAIN u.node = N \cup {r} \cup ToSet(deps)
      /\ u.node[r].dependsOn = deps
      /\ \A x \in N \ {r} : u.node[x].dependsOn = t.node[x].dependsOn
  <2>1. ToSet(deps) = {deps[i] : i \in DOMAIN deps}
    BY DEF ToSet
  <2> QED  BY <2>1, <1>8 DEF IsAdded
<1>10. r \in N /\ ToSet(deps) \subseteq N
  BY <1>4, <1>5
<1>11. DOMAIN u.node = N
  BY <1>9, <1>10
<1>12. Derived(b) = Derived(added) /\ \A x : RefsOf(b, x) = RefsOf(added, x)
  BY <1>7 DEF Derived, OfType, TypeOf, GetRelationDef, RefsOf
<1>13. \A x \in DOMAIN u.node \cap DOMAIN b.relations : u.node[x].dependsOn = RefsOf(b, x)
  BY <1>4, <1>5, <1>7, <1>9, <1>11, <1>12
<1>14. Mirror(b, {})
  BY <1>5, <1>7, <1>9, <1>11, <1>12, <1>13 DEF Mirror
<1> QED  BY <1>1, <1>7, <1>14 DEF b

-----------------------------------------------------------------------------
(***************************************************************************)
(* What the databases define: what they defined before, and of what is     *)
(* asked for with the same name the first.                                 *)
(***************************************************************************)
DefSet ==
  [rName : AllNames, relationType : {"View", "Table"}, isDynamic : BOOLEAN,
   timeColumns : BOOLEAN, reads : Seq(AllNames)]

AskedSet == [dbId : Db, def : DefSet]

SpecSet == {specs \in UNION {[S -> Seq(DefSet)] : S \in SUBSET Db} : LocalDbId \in DOMAIN specs}

DefinedIn(specs, db) == {s.rName : s \in ToSet(specs[db])}

FirstAsked(specs, asked, j) ==
  /\ asked[j].dbId \in DOMAIN specs => asked[j].def.rName \notin DefinedIn(specs, asked[j].dbId)
  /\ \A k \in 1..(j - 1) : ~(asked[k].dbId = asked[j].dbId /\ asked[k].def.rName = asked[j].def.rName)

IsAsked(specs, asked, i, db, x) ==
  \E j \in 1..i : asked[j].dbId = db /\ asked[j].def = x /\ FirstAsked(specs, asked, j)

AddedTo(specs, asked, s, i) ==
  /\ DOMAIN specs \subseteq DOMAIN s
  /\ \A db \in DOMAIN specs : ToSet(specs[db]) \subseteq ToSet(s[db])
  /\ \A j \in 1..i : asked[j].dbId \in DOMAIN s /\ asked[j].def.rName \in DefinedIn(s, asked[j].dbId)
  /\ \A db \in DOMAIN s : \A x \in ToSet(s[db]) :
       (db \in DOMAIN specs /\ x \in ToSet(specs[db])) \/ IsAsked(specs, asked, i, db, x)

LEMMA SpecSetIs ==
  \A specs \in SpecSet : /\ LocalDbId \in DOMAIN specs /\ DOMAIN specs \subseteq Db
                         /\ \A db \in DOMAIN specs : specs[db] \in Seq(DefSet)
                         /\ specs = [db \in DOMAIN specs |-> specs[db]]
BY DEF SpecSet

LEMMA IntoSpecSet ==
  ASSUME NEW specs, LocalDbId \in DOMAIN specs, DOMAIN specs \subseteq Db,
         \A db \in DOMAIN specs : specs[db] \in Seq(DefSet),
         specs = [db \in DOMAIN specs |-> specs[db]]
  PROVE  specs \in SpecSet
<1>1. specs \in [DOMAIN specs -> Seq(DefSet)]
  OBVIOUS
<1> QED  BY <1>1 DEF SpecSet

LEMMA AddIfNewIs ==
  ASSUME NEW l \in Seq(DefSet), NEW def \in DefSet
  PROVE  LET m == AddRelationIfOnlyNotExist(l, def)
         IN  /\ m \in Seq(DefSet)
             /\ def.rName \in {s.rName : s \in ToSet(m)}
             /\ ToSet(l) \subseteq ToSet(m)
             /\ \A x \in ToSet(m) : x \in ToSet(l)
                                    \/ (x = def /\ def.rName \notin {s.rName : s \in ToSet(l)})
<1> DEFINE m == AddRelationIfOnlyNotExist(l, def)
<1>1. CASE \E i \in DOMAIN l : l[i].rName = def.rName
  <2>1. m = l
    BY <1>1 DEF AddRelationIfOnlyNotExist
  <2>2. def.rName \in {s.rName : s \in ToSet(l)}
    BY <1>1 DEF ToSet
  <2> QED  BY <2>1, <2>2
<1>2. CASE ~\E i \in DOMAIN l : l[i].rName = def.rName
  <2>1. m = Append(l, def)
    BY <1>2 DEF AddRelationIfOnlyNotExist
  <2>2. m \in Seq(DefSet) /\ ToSet(m) = ToSet(l) \cup {def}
    <3>1. <<def>> \in Seq(DefSet) /\ ToSet(<<def>>) = {def}
      BY DEF ToSet
    <3>2. Append(l, def) = l \o <<def>>
      OBVIOUS
    <3> DEFINE one == <<def>>
    <3>3. one \in Seq(DefSet) /\ ToSet(one) = {def}
      BY <3>1
    <3> HIDE DEF one, m
    <3>4. l \o one \in Seq(DefSet) /\ ToSet(l \o one) = ToSet(l) \cup ToSet(one)
      BY <3>3, ToSetOfJoin
    <3>5. m = l \o one
      BY <2>1, <3>2 DEF one
    <3> QED  BY <3>3, <3>4, <3>5
  <2>3. def.rName \notin {s.rName : s \in ToSet(l)}
    BY <1>2 DEF ToSet
  <2>4. /\ def.rName \in {s.rName : s \in ToSet(m)} /\ ToSet(l) \subseteq ToSet(m)
        /\ \A x \in ToSet(m) : x \in ToSet(l) \/ x = def
    <3> HIDE DEF m
    <3> QED  BY <2>2
  <2> QED  BY <2>2, <2>3, <2>4
<1> QED  BY <1>1, <1>2

LEMMA AddDefinitionStep ==
  ASSUME NEW specs \in SpecSet, NEW asked \in Seq(AskedSet), NEW i \in 1..Len(asked),
         NEW s \in SpecSet, AddedTo(specs, asked, s, i - 1)
  PROVE  /\ AddDefinition(s, asked[i]) \in SpecSet
         /\ AddedTo(specs, asked, AddDefinition(s, asked[i]), i)
<1> DEFINE x == asked[i]
           e == x.dbId
           l == IF e \in DOMAIN s THEN s[e] ELSE <<>>
           m == AddRelationIfOnlyNotExist(l, x.def)
           u == AddDefinition(s, x)
<1>1. x \in AskedSet /\ e \in Db /\ x.def \in DefSet
  <2>1. asked[i] \in AskedSet
    OBVIOUS
  <2> QED  BY <2>1 DEF AskedSet
<1>2. /\ LocalDbId \in DOMAIN s /\ DOMAIN s \subseteq Db
      /\ \A db \in DOMAIN s : s[db] \in Seq(DefSet)
  BY SpecSetIs
<1>3. l \in Seq(DefSet)
  BY <1>2
<1>4. /\ m \in Seq(DefSet) /\ x.def.rName \in {t.rName : t \in ToSet(m)} /\ ToSet(l) \subseteq ToSet(m)
      /\ \A y \in ToSet(m) : y \in ToSet(l)
                             \/ (y = x.def /\ x.def.rName \notin {t.rName : t \in ToSet(l)})
  <2> HIDE DEF l, x
  <2> QED  BY <1>1, <1>3, AddIfNewIs
<1>5. u = [db \in DOMAIN s \cup {e} |-> IF db # e THEN s[db] ELSE m]
  BY DEF AddDefinition
<1>6. e \notin DOMAIN s => ToSet(l) = {}
  BY DEF ToSet
<1>7. e \in DOMAIN s => l = s[e]
  OBVIOUS
<1> HIDE DEF l, m, u
<1>8. /\ DOMAIN u = DOMAIN s \cup {e} /\ u[e] = m
      /\ \A db \in DOMAIN s \ {e} : u[db] = s[db]
  BY <1>5
<1>9. u \in SpecSet
  <2>1. /\ LocalDbId \in DOMAIN u /\ DOMAIN u \subseteq Db
        /\ \A db \in DOMAIN u : u[db] \in Seq(DefSet)
    BY <1>1, <1>2, <1>4, <1>8
  <2>2. u = [db \in DOMAIN u |-> u[db]]
    BY <1>5
  <2> QED  BY <2>1, <2>2, IntoSpecSet
<1>10. /\ DOMAIN specs \subseteq DOMAIN s
       /\ \A db \in DOMAIN specs : ToSet(specs[db]) \subseteq ToSet(s[db])
       /\ \A j \in 1..(i - 1) : asked[j].dbId \in DOMAIN s /\ asked[j].def.rName \in DefinedIn(s, asked[j].dbId)
       /\ \A db \in DOMAIN s : \A y \in ToSet(s[db]) :
            (db \in DOMAIN specs /\ y \in ToSet(specs[db])) \/ IsAsked(specs, asked, i - 1, db, y)
  BY DEF AddedTo
<1>11. \A j \in 1..i : j \in 1..(i - 1) \/ j = i
  OBVIOUS
<1>12. i \in 1..i /\ \A j \in 1..(i - 1) : j \in 1..i
  OBVIOUS
<1>13. \A db \in DOMAIN s : ToSet(s[db]) \subseteq ToSet(u[db])
  BY <1>4, <1>7, <1>8
<1>14. \A db \in DOMAIN s : DefinedIn(s, db) \subseteq DefinedIn(u, db)
  BY <1>13 DEF DefinedIn
<1>15. /\ DOMAIN specs \subseteq DOMAIN u
       /\ \A db \in DOMAIN specs : ToSet(specs[db]) \subseteq ToSet(u[db])
  BY <1>8, <1>10, <1>13
<1>16. ASSUME NEW j \in 1..i
       PROVE  asked[j].dbId \in DOMAIN u /\ asked[j].def.rName \in DefinedIn(u, asked[j].dbId)
  <2>1. CASE j \in 1..(i - 1)
    <3>1. asked[j].dbId \in DOMAIN s /\ asked[j].def.rName \in DefinedIn(s, asked[j].dbId)
      BY <2>1, <1>10
    <3> QED  BY <3>1, <1>8, <1>14
  <2>2. CASE j = i
    BY <2>2, <1>4, <1>8 DEF DefinedIn
  <2> QED  BY <2>1, <2>2, <1>11
<1>17. \A db, y : IsAsked(specs, asked, i - 1, db, y) => IsAsked(specs, asked, i, db, y)
  BY <1>12 DEF IsAsked
<1>18. ASSUME NEW db \in DOMAIN u, NEW y \in ToSet(u[db])
       PROVE  (db \in DOMAIN specs /\ y \in ToSet(specs[db])) \/ IsAsked(specs, asked, i, db, y)
  <2>1. CASE db \in DOMAIN s /\ y \in ToSet(s[db])
    BY <2>1, <1>10, <1>17
  <2>2. CASE db # e
    BY <2>1, <2>2, <1>8
  <2>3. CASE db = e /\ ~(db \in DOMAIN s /\ y \in ToSet(s[db]))
    <3>1. y \notin ToSet(l)
      BY <2>3, <1>6, <1>7
    <3>2. y = x.def /\ x.def.rName \notin {t.rName : t \in ToSet(l)}
      BY <3>1, <2>3, <1>4, <1>8
    <3>3. e \in DOMAIN s => x.def.rName \notin DefinedIn(s, e)
      BY <3>2, <1>7 DEF DefinedIn
    <3>4. e \in DOMAIN specs => x.def.rName \notin DefinedIn(specs, e)
      <4>1. e \in DOMAIN specs => e \in DOMAIN s /\ DefinedIn(specs, e) \subseteq DefinedIn(s, e)
        BY <1>10 DEF DefinedIn
      <4> QED  BY <4>1, <3>3
    <3>5. \A k \in 1..(i - 1) : ~(asked[k].dbId = e /\ asked[k].def.rName = x.def.rName)
      BY <1>10, <3>3
    <3>6. FirstAsked(specs, asked, i)
      BY <3>4, <3>5 DEF FirstAsked
    <3> QED  BY <3>2, <3>6, <2>3, <1>12 DEF IsAsked
  <2> QED  BY <2>1, <2>2, <2>3
<1>19. AddedTo(specs, asked, u, i)
  BY <1>15, <1>16, <1>18 DEF AddedTo
<1> QED  BY <1>9, <1>19 DEF u

LEMMA AddDefinitionsIs ==
  ASSUME NEW specs \in SpecSet, NEW asked \in Seq(AskedSet)
  PROVE  /\ AddDefinitions(specs, asked) \in SpecSet
         /\ AddedTo(specs, asked, AddDefinitions(specs, asked), Len(asked))
<1> DEFINE n         == Len(asked)
           V         == [i \in 0..n |-> {s \in SpecSet : AddedTo(specs, asked, s, i)}]
           one(k, i) == AddDefinition(k, asked[i])
           step      == [i \in 1..n |-> [k \in V[i - 1] |-> one(k, i)]]
           F         == CHOOSE f : f = [i \in 0..n |-> IF i = 0 THEN specs
                                                       ELSE AddDefinition(f[i - 1], asked[i])]
<1>1. n \in Nat /\ \A i \in 1..n : i \in 0..n /\ i - 1 \in 0..n /\ i # 0
  OBVIOUS
<1>2. specs \in V[0]
  <2>1. AddedTo(specs, asked, specs, 0)
    BY DEF AddedTo
  <2> QED  BY <2>1, <1>1
<1>3. \A i \in 1..n : \A k \in V[i - 1] : one(k, i) \in V[i]
  <2>1. ASSUME NEW i \in 1..n, NEW k \in SpecSet, AddedTo(specs, asked, k, i - 1)
        PROVE  one(k, i) \in SpecSet /\ AddedTo(specs, asked, one(k, i), i)
    BY <2>1, AddDefinitionStep
  <2> HIDE DEF one
  <2> QED  BY <2>1, <1>1
<1> HIDE DEF V, one
<1>4. \A i \in 1..n : \A k \in V[i - 1] : step[i][k] = one(k, i)
  OBVIOUS
<1> HIDE DEF step
<1>5. PICK f : Staged(f, n, V, specs, step)
  <2>1. \A i \in 1..n : \A k \in V[i - 1] : step[i][k] \in V[i]
    BY <1>3, <1>4
  <2> HIDE DEF n
  <2> QED  BY <2>1, <1>1, <1>2, Stages
<1>6. f = [i \in 0..n |-> IF i = 0 THEN specs ELSE one(f[i - 1], i)]
  <2>1. /\ f = [i \in 0..n |-> f[i]] /\ f[0] = specs
        /\ \A i \in 0..n : f[i] \in V[i]
        /\ \A i \in 1..n : f[i] = step[i][f[i - 1]]
    BY <1>5 DEF Staged
  <2>2. \A i \in 1..n : f[i] = one(f[i - 1], i)
    BY <2>1, <1>1, <1>4
  <2>3. \A i \in 0..n : i = 0 \/ i \in 1..n
    BY <1>1
  <2> HIDE DEF n
  <2> QED  BY <2>1, <2>2, <2>3
<1>7. F = [i \in 0..n |-> IF i = 0 THEN specs ELSE AddDefinition(F[i - 1], asked[i])]
  BY <1>6 DEF one
<1>8. AddDefinitions(specs, asked) = F[n]
  BY DEF AddDefinitions
<1> HIDE DEF F
<1>9. F[0] = specs /\ \A i \in 1..n : F[i] = one(F[i - 1], i)
  <2>1. F = [i \in 0..n |-> IF i = 0 THEN specs ELSE one(F[i - 1], i)]
    BY <1>7 DEF one
  <2>2. 0 \in 0..n
    BY <1>1
  <2> HIDE DEF n
  <2> QED  BY <2>1, <2>2, <1>1
<1>10. \A i \in 0..n : F[i] \in V[i]
  <2> DEFINE P == {i \in 0..n : F[i] \in V[i]}
  <2>1. 0 \in P
    BY <1>1, <1>2, <1>9
  <2>2. ASSUME NEW i \in 1..n, i - 1 \in P PROVE i \in P
    BY <2>2, <1>1, <1>3, <1>9
  <2>3. P \subseteq 0..n
    OBVIOUS
  <2> HIDE DEF P, n
  <2>4. P = 0..n
    BY <2>1, <2>2, <2>3, <1>1, NatInd
  <2> QED  BY <2>4 DEF P
<1>11. n \in 0..n
  BY <1>1
<1>12. F[n] \in SpecSet /\ AddedTo(specs, asked, F[n], n)
  BY <1>10, <1>11 DEF V
<1> QED  BY <1>8, <1>12

-----------------------------------------------------------------------------
(***************************************************************************)
(* What a distribution asks for.                                           *)
(***************************************************************************)
AskAt(db, def) == [dbId |-> db, def |-> def]

LEMMA AppendToThree ==
  ASSUME NEW x1, NEW x2, NEW x3, NEW x4
  PROVE  Append(<<x1, x2, x3>>, x4) = <<x1, x2, x3, x4>>
<1> DEFINE q == Append(<<x1, x2, x3>>, x4)
           r == <<x1, x2, x3, x4>>
           S == {x1, x2, x3, x4}
<1>1. q \in Seq(S) /\ Len(q) = 4 /\ r \in Seq(S) /\ Len(r) = 4
  OBVIOUS
<1>2. q[1] = x1 /\ q[2] = x2 /\ q[3] = x3 /\ q[4] = x4
  OBVIOUS
<1>3. r[1] = x1 /\ r[2] = x2 /\ r[3] = x3 /\ r[4] = x4
  OBVIOUS
<1> HIDE DEF q, r
<1>4. \A i \in 1..4 : i = 1 \/ i = 2 \/ i = 3 \/ i = 4
  OBVIOUS
<1>5. q = [i \in 1..4 |-> q[i]] /\ r = [i \in 1..4 |-> r[i]]
  BY <1>1
<1>6. \A i \in 1..4 : q[i] = r[i]
  BY <1>2, <1>3, <1>4
<1>7. q = r
  BY <1>5, <1>6, Zenon
<1> QED  BY <1>7 DEF q, r

LEMMA DefinitionsAre ==
  ASSUME NEW a, Sound(a), NEW d \in DistributionSet, d.relationName \in DOMAIN a.relations
  PROVE  LET r    == d.relationName
             type == TypeOf(a, r)
             view == SqlView(r, RefsOf(a, r))
             D    == Definitions(a, d)
         IN  /\ type \in RelationTypes
             /\ type \in {"Table", "EventTable"} =>
                  LET table == SqlTable(r, type = "EventTable", type = "EventTable" /\ d.to = LocalDbId)
                  IN  D = <<AskAt(d.from, table), AskAt(d.to, table)>>
             /\ type = "ExistingAndImmutable" =>
                  D = IF d.from = d.to THEN <<>> ELSE <<AskAt(d.to, SqlTable(r, FALSE, FALSE))>>
             /\ UsesCache(a, d) =>
                  D = <<AskAt(LocalDbId, SqlTable(CacheName(r), TRUE, TRUE)),
                        AskAt(LocalDbId, SqlTable(ReferenceName(r), TRUE, TRUE)),
                        AskAt(LocalDbId, SqlView(r, <<CacheName(r), ReferenceName(r)>>)),
                        AskAt(d.from, view)>>
             /\ type \in {"View", "EventView"} /\ ~UsesCache(a, d) =>
                  D = <<AskAt(d.from, view),
                        AskAt(d.to, SqlTable(r, TRUE, type = "EventView" /\ d.to = LocalDbId))>>
             /\ type = "Output" =>
                  D = IF d.from # d.to /\ d.from # LocalDbId THEN <<>>
                      ELSE IF d.to # LocalDbId /\ d.from = LocalDbId
                      THEN <<AskAt(LocalDbId, view), AskAt(d.to, SqlTable(r, TRUE, FALSE))>>
                      ELSE <<AskAt(LocalDbId, view)>>
             /\ UsesCache(a, d) => type = "EventView" /\ d.to = LocalDbId /\ d.from # d.to
<1> DEFINE r    == d.relationName
           type == TypeOf(a, r)
           rel  == a.relations[r]
           refs == RefsOf(a, r)
           view == SqlView(r, refs)
           D    == Definitions(a, d)
<1>1. /\ rel.rName = r /\ rel.relationType = type /\ rel.relationType \in RelationTypes
      /\ d.from # NoDb /\ d.to # NoDb /\ Reads(rel) = refs
  <2>1. rel \in RelationSet /\ rel.rName = r
    BY DEF Sound
  <2>2. d.from \in Db /\ d.to \in Db
    BY DEF DistributionSet
  <2> QED  BY <2>1, <2>2, PlanAssumption DEF TypeOf, GetRelationDef, RelationSet, RefsOf
<1>2. GetRelationDef(a, r) = rel
  BY DEF GetRelationDef
<1> HIDE DEF type, refs
<1>3. UsesCache(a, d) => type = "EventView" /\ d.to = LocalDbId /\ d.from # d.to
  BY DEF UsesCache, type
<1> DEFINE tables == <<AskAt(d.from, SqlTable(r, type = "EventTable", type = "EventTable" /\ d.to = LocalDbId)),
                       AskAt(d.to, SqlTable(r, type = "EventTable", type = "EventTable" /\ d.to = LocalDbId))>>
           copies == IF d.from = d.to THEN <<>> ELSE <<AskAt(d.to, SqlTable(r, FALSE, FALSE))>>
           caches == Append(CacheRelations(r), AskAt(d.from, view))
           views  == <<AskAt(d.from, view),
                       AskAt(d.to, SqlTable(r, TRUE, type = "EventView" /\ d.to = LocalDbId))>>
           sent   == <<AskAt(LocalDbId, view), AskAt(d.to, SqlTable(r, TRUE, FALSE))>>
           shown  == <<AskAt(LocalDbId, view)>>
<1>4. D = CASE d.from = NoDb \/ d.to = NoDb -> <<>>
            [] type \in {"Table", "EventTable"} -> tables
            [] type = "ExistingAndImmutable" -> copies
            [] UsesCache(a, d) -> caches
            [] type \in {"View", "EventView"} /\ ~UsesCache(a, d) -> views
            [] type = "Output" -> CASE d.from # d.to /\ d.from # LocalDbId -> <<>>
                                    [] d.to # LocalDbId /\ d.from = LocalDbId -> sent
                                    [] OTHER -> shown
  <2>1. rel.relationType = type /\ rel.rName = r /\ Reads(rel) = refs
    BY <1>1
  <2> QED  BY <2>1, <1>2, Zenon DEF Definitions, AskAt
<1> HIDE DEF D, tables, copies, caches, views, sent, shown
<1>5. type \in {"Table", "EventTable"} => D = tables
  BY <1>1, <1>3, <1>4
<1>6. type = "ExistingAndImmutable" => D = copies
  BY <1>1, <1>3, <1>4
<1>7. UsesCache(a, d) => D = caches
  BY <1>1, <1>3, <1>4
<1>8. type \in {"View", "EventView"} /\ ~UsesCache(a, d) => D = views
  BY <1>1, <1>3, <1>4
<1>9. type = "Output" => D = IF d.from # d.to /\ d.from # LocalDbId THEN <<>>
                             ELSE IF d.to # LocalDbId /\ d.from = LocalDbId THEN sent ELSE shown
  <2>1. type = "Output" => D = CASE d.from # d.to /\ d.from # LocalDbId -> <<>>
                                 [] d.to # LocalDbId /\ d.from = LocalDbId -> sent
                                 [] OTHER -> shown
    BY <1>1, <1>3, <1>4
  <2> QED  BY <2>1
<1>10. type \in RelationTypes
  BY <1>1
<1>11. caches = <<AskAt(LocalDbId, SqlTable(CacheName(r), TRUE, TRUE)),
                  AskAt(LocalDbId, SqlTable(ReferenceName(r), TRUE, TRUE)),
                  AskAt(LocalDbId, SqlView(r, <<CacheName(r), ReferenceName(r)>>)),
                  AskAt(d.from, view)>>
  <2> DEFINE x1 == AskAt(LocalDbId, SqlTable(CacheName(r), TRUE, TRUE))
             x2 == AskAt(LocalDbId, SqlTable(ReferenceName(r), TRUE, TRUE))
             x3 == AskAt(LocalDbId, SqlView(r, <<CacheName(r), ReferenceName(r)>>))
             x4 == AskAt(d.from, view)
  <2>1. CacheRelations(r) = <<x1, x2, x3>>
    BY DEF CacheRelations, AskAt
  <2>2. caches = Append(CacheRelations(r), x4)
    BY DEF caches
  <2> HIDE DEF x1, x2, x3, x4
  <2>3. caches = <<x1, x2, x3, x4>>
    BY <2>1, <2>2, AppendToThree
  <2> QED  BY <2>3 DEF x1, x2, x3, x4
<1> QED  BY <1>3, <1>5, <1>6, <1>7, <1>8, <1>9, <1>10, <1>11, Zenon
         DEF D, tables, copies, views, sent, shown, view, type, refs

-----------------------------------------------------------------------------
ViewOf(a, r) == SqlView(r, RefsOf(a, r))

(***************************************************************************)
(* What a distribution asks for, one by one.                               *)
(***************************************************************************)
Asks(a, d, x) ==
  LET r    == d.relationName
      type == TypeOf(a, r)
  IN  \/ type \in {"Table", "ExistingAndImmutable"} /\ x.def = SqlTable(r, FALSE, FALSE)
      \/ type = "EventTable" /\ x.def \in {SqlTable(r, TRUE, TRUE), SqlTable(r, TRUE, FALSE)}
      \/ type \in {"View", "EventView"} /\ x = AskAt(d.from, ViewOf(a, r))
      \/ type = "View" /\ x = AskAt(d.to, SqlTable(r, TRUE, FALSE))
      \/ /\ type = "EventView" /\ ~UsesCache(a, d)
         /\ x = AskAt(d.to, SqlTable(r, TRUE, d.to = LocalDbId))
      \/ type = "Output" /\ x = AskAt(LocalDbId, ViewOf(a, r)) /\ (d.from = d.to \/ d.from = LocalDbId)
      \/ type = "Output" /\ x = AskAt(d.to, SqlTable(r, TRUE, FALSE))
      \/ /\ UsesCache(a, d) /\ type = "EventView"
         /\ x \in {AskAt(LocalDbId, SqlTable(CacheName(r), TRUE, TRUE)),
                   AskAt(LocalDbId, SqlTable(ReferenceName(r), TRUE, TRUE)),
                   AskAt(LocalDbId, SqlView(r, <<CacheName(r), ReferenceName(r)>>))}

\* A database is asked to define name.
AsksFor(a, d, db, name) == \E x \in ToSet(Definitions(a, d)) : x.dbId = db /\ x.def.rName = name

(***************************************************************************)
(* What a distribution brings is defined where it is brought to, unless it *)
(* is there already.                                                       *)
(***************************************************************************)
NotBrought(a, d) ==
  \/ TypeOf(a, d.relationName) = "ExistingAndImmutable" /\ d.from = d.to
  \/ TypeOf(a, d.relationName) = "Output" /\ d.from # LocalDbId

LEMMA TwoIs == ASSUME NEW x, NEW y PROVE ToSet(<<x, y>>) = {x, y}
BY DEF ToSet

LEMMA FourIs == ASSUME NEW x, NEW y, NEW z, NEW w PROVE ToSet(<<x, y, z, w>>) = {x, y, z, w}
<1> DEFINE s == <<x, y, z, w>>
<1>1. DOMAIN s = 1..4 /\ s[1] = x /\ s[2] = y /\ s[3] = z /\ s[4] = w
  OBVIOUS
<1>2. 1..4 = {1, 2, 3, 4}
  OBVIOUS
<1> HIDE DEF s
<1>3. ToSet(s) = {x, y, z, w}
  BY <1>1, <1>2 DEF ToSet
<1> QED  BY <1>3 DEF s

LEMMA OneIs == ASSUME NEW x PROVE ToSet(<<x>>) = {x}
BY DEF ToSet

LEMMA NoneIs == ToSet(<<>>) = {}
BY DEF ToSet

LEMMA AsksIs ==
  ASSUME NEW a, Sound(a), NEW d \in DistributionSet, d.relationName \in DOMAIN a.relations
  PROVE  /\ \A x \in ToSet(Definitions(a, d)) : Asks(a, d, x)
         /\ NotBrought(a, d) \/ AsksFor(a, d, d.to, d.relationName)
         /\ UsesCache(a, d) => \A name \in CacheNames(d.relationName) : AsksFor(a, d, LocalDbId, name)
<1> DEFINE r     == d.relationName
           type  == TypeOf(a, r)
           view  == ViewOf(a, r)
           D     == Definitions(a, d)
           event == SqlTable(r, TRUE, d.to = LocalDbId)
           both  == SqlTable(r, type = "EventTable", type = "EventTable" /\ d.to = LocalDbId)
           moved == SqlTable(r, TRUE, type = "EventView" /\ d.to = LocalDbId)
           plain == SqlTable(r, FALSE, FALSE)
           sent  == SqlTable(r, TRUE, FALSE)
           kept  == SqlTable(CacheName(r), TRUE, TRUE)
           refd  == SqlTable(ReferenceName(r), TRUE, TRUE)
           join  == SqlView(r, <<CacheName(r), ReferenceName(r)>>)
<1>1. /\ type \in RelationTypes
      /\ type \in {"Table", "EventTable"} => D = <<AskAt(d.from, both), AskAt(d.to, both)>>
      /\ type = "ExistingAndImmutable" => D = IF d.from = d.to THEN <<>> ELSE <<AskAt(d.to, plain)>>
      /\ UsesCache(a, d) => D = <<AskAt(LocalDbId, kept), AskAt(LocalDbId, refd), AskAt(LocalDbId, join),
                                  AskAt(d.from, view)>>
      /\ type \in {"View", "EventView"} /\ ~UsesCache(a, d) =>
           D = <<AskAt(d.from, view), AskAt(d.to, moved)>>
      /\ type = "Output" => D = IF d.from # d.to /\ d.from # LocalDbId THEN <<>>
                                ELSE IF d.to # LocalDbId /\ d.from = LocalDbId
                                THEN <<AskAt(LocalDbId, view), AskAt(d.to, sent)>>
                                ELSE <<AskAt(LocalDbId, view)>>
      /\ UsesCache(a, d) => type = "EventView" /\ d.to = LocalDbId /\ d.from # d.to
  BY DefinitionsAre DEF ViewOf
<1>2. /\ type = "Table" => both = plain
      /\ type = "EventTable" => both = event /\ both \in {SqlTable(r, TRUE, TRUE), sent}
      /\ type = "View" => moved = sent
      /\ type = "EventView" => moved = event
  <2>1. type = "Table" => (type = "EventTable") = FALSE /\ (type = "EventTable" /\ d.to = LocalDbId) = FALSE
    OBVIOUS
  <2>2. type = "EventTable" => (type = "EventTable") = TRUE
                               /\ (type = "EventTable" /\ d.to = LocalDbId) = (d.to = LocalDbId)
    OBVIOUS
  <2>3. type = "View" => (type = "EventView" /\ d.to = LocalDbId) = FALSE
    OBVIOUS
  <2>4. type = "EventView" => (type = "EventView" /\ d.to = LocalDbId) = (d.to = LocalDbId)
    OBVIOUS
  <2>5. (d.to = LocalDbId) = TRUE \/ (d.to = LocalDbId) = FALSE
    OBVIOUS
  <2>6. event \in {SqlTable(r, TRUE, TRUE), sent}
    BY <2>5
  <2> QED  BY <2>1, <2>2, <2>3, <2>4, <2>6
<1>3. \A db, def : AskAt(db, def).dbId = db /\ AskAt(db, def).def = def
  BY DEF AskAt
<1>4. /\ view.rName = r /\ event.rName = r /\ both.rName = r /\ moved.rName = r /\ plain.rName = r
      /\ sent.rName = r /\ kept.rName = CacheName(r) /\ refd.rName = ReferenceName(r) /\ join.rName = r
  BY DEF ViewOf, SqlView, SqlTable
<1> HIDE DEF view, D, event, both, moved, plain, sent, kept, refd, join
<1>5. \A x : Asks(a, d, x) <=>
        \/ type \in {"Table", "ExistingAndImmutable"} /\ x.def = plain
        \/ type = "EventTable" /\ x.def \in {SqlTable(r, TRUE, TRUE), sent}
        \/ type \in {"View", "EventView"} /\ x = AskAt(d.from, view)
        \/ type = "View" /\ x = AskAt(d.to, sent)
        \/ type = "EventView" /\ ~UsesCache(a, d) /\ x = AskAt(d.to, event)
        \/ type = "Output" /\ x = AskAt(LocalDbId, view) /\ (d.from = d.to \/ d.from = LocalDbId)
        \/ type = "Output" /\ x = AskAt(d.to, sent)
        \/ /\ UsesCache(a, d) /\ type = "EventView"
           /\ x \in {AskAt(LocalDbId, kept), AskAt(LocalDbId, refd), AskAt(LocalDbId, join)}
  BY Zenon DEF Asks, view, event, plain, sent, kept, refd, join
<1> HIDE DEF type
<1>6. CASE type \in {"Table", "EventTable"}
  <2>1. ToSet(D) = {AskAt(d.from, both), AskAt(d.to, both)}
    BY <1>1, <1>6, TwoIs
  <2>2. AsksFor(a, d, d.to, r)
    BY <2>1, <1>3, <1>4 DEF AsksFor, D
  <2>3. ~UsesCache(a, d)
    BY <1>1, <1>6
  <2>4. \A x \in ToSet(D) : x.def = both
    BY <2>1, <1>3
  <2>5. \A x \in ToSet(D) : Asks(a, d, x)
    BY <2>4, <1>2, <1>5, <1>6
  <2> QED  BY <2>2, <2>3, <2>5 DEF D
<1>7. CASE type = "ExistingAndImmutable"
  <2>1. d.from # d.to => ToSet(D) = {AskAt(d.to, plain)}
    BY <1>1, <1>7, OneIs
  <2>2. d.from = d.to => ToSet(D) = {}
    BY <1>1, <1>7, NoneIs
  <2>3. d.from # d.to => AsksFor(a, d, d.to, r)
    BY <2>1, <1>3, <1>4 DEF AsksFor, D
  <2>4. \A x \in ToSet(D) : Asks(a, d, x)
    BY <2>1, <2>2, <1>3, <1>5, <1>7
  <2>5. ~UsesCache(a, d)
    BY <1>1, <1>7
  <2> QED  BY <2>3, <2>4, <2>5, <1>7 DEF D, NotBrought, type
<1>8. CASE UsesCache(a, d)
  <2>1. ToSet(D) = {AskAt(LocalDbId, kept), AskAt(LocalDbId, refd), AskAt(LocalDbId, join), AskAt(d.from, view)}
    BY <1>1, <1>8, FourIs
  <2>2. type = "EventView" /\ d.to = LocalDbId
    BY <1>1, <1>8
  <2>3. AsksFor(a, d, d.to, r)
    BY <2>1, <2>2, <1>3, <1>4 DEF AsksFor, D
  <2>4. AsksFor(a, d, LocalDbId, CacheName(r)) /\ AsksFor(a, d, LocalDbId, ReferenceName(r))
    BY <2>1, <1>3, <1>4 DEF AsksFor, D
  <2>5. \A x \in ToSet(D) : Asks(a, d, x)
    BY <2>1, <2>2, <1>5, <1>8
  <2> QED  BY <2>3, <2>4, <2>5 DEF D, CacheNames
<1>9. CASE type \in {"View", "EventView"} /\ ~UsesCache(a, d)
  <2>1. ToSet(D) = {AskAt(d.from, view), AskAt(d.to, moved)}
    BY <1>1, <1>9, TwoIs
  <2>2. AsksFor(a, d, d.to, r)
    BY <2>1, <1>3, <1>4 DEF AsksFor, D
  <2>3. \A x \in ToSet(D) : Asks(a, d, x)
    BY <2>1, <1>2, <1>5, <1>9
  <2> QED  BY <2>2, <2>3, <1>9 DEF D
<1>10. CASE type = "Output"
  <2>1. CASE d.from # d.to /\ d.from # LocalDbId
    <3>1. ToSet(D) = {}
      BY <1>1, <1>10, <2>1, NoneIs
    <3>2. NotBrought(a, d) /\ ~UsesCache(a, d)
      BY <1>1, <1>10, <2>1 DEF NotBrought, type
    <3> QED  BY <3>1, <3>2 DEF D
  <2>2. CASE d.to # LocalDbId /\ d.from = LocalDbId
    <3>1. ToSet(D) = {AskAt(LocalDbId, view), AskAt(d.to, sent)}
      BY <1>1, <1>10, <2>2, TwoIs
    <3>2. AsksFor(a, d, d.to, r)
      BY <3>1, <1>3, <1>4 DEF AsksFor, D
    <3>3. \A x \in ToSet(D) : Asks(a, d, x)
      BY <3>1, <1>5, <1>10, <2>2
    <3> QED  BY <3>2, <3>3, <1>1, <1>10 DEF D
  <2>3. CASE ~(d.from # d.to /\ d.from # LocalDbId) /\ ~(d.to # LocalDbId /\ d.from = LocalDbId)
    <3>1. ToSet(D) = {AskAt(LocalDbId, view)}
      BY <1>1, <1>10, <2>3, OneIs
    <3>2. d.from # LocalDbId \/ (d.to = LocalDbId)
      BY <2>3
    <3>3. NotBrought(a, d) \/ AsksFor(a, d, d.to, r)
      <4>1. d.from # LocalDbId => NotBrought(a, d)
        BY <1>10 DEF NotBrought, type
      <4>2. d.to = LocalDbId => AsksFor(a, d, d.to, r)
        BY <3>1, <1>3, <1>4 DEF AsksFor, D
      <4> QED  BY <3>2, <4>1, <4>2
    <3>4. \A x \in ToSet(D) : Asks(a, d, x)
      BY <3>1, <1>5, <1>10, <2>3
    <3> QED  BY <3>3, <3>4, <1>1, <1>10 DEF D
  <2> QED  BY <2>1, <2>2, <2>3
<1> QED  BY <1>1, <1>6, <1>7, <1>8, <1>9, <1>10 DEF RelationTypes

-----------------------------------------------------------------------------
(***************************************************************************)
(* What is known of a definition on a database: what it stands for, what   *)
(* fills it, that what it reads is there, and where answers go.            *)
(***************************************************************************)
LEMMA SqlIn ==
  /\ \A r \in AllNames : \A b, c \in BOOLEAN : SqlTable(r, b, c) \in DefSet
  /\ \A r \in AllNames : \A s \in Seq(AllNames) : SqlView(r, s) \in DefSet
<1>1. <<>> \in Seq(AllNames)
  OBVIOUS
<1> QED  BY <1>1 DEF SqlTable, SqlView, DefSet

LEMMA DefinitionsIn ==
  ASSUME NEW a, Sound(a), NEW d \in DistributionSet, d.relationName \in DOMAIN a.relations
  PROVE  Definitions(a, d) \in Seq(AskedSet)
<1> DEFINE r     == d.relationName
           type  == TypeOf(a, r)
           refs  == RefsOf(a, r)
           D     == Definitions(a, d)
<1>1. r \in AllNames /\ refs \in Seq(AllNames) /\ d.from \in Db /\ d.to \in Db /\ LocalDbId \in Db
  <2>1. a.relations[r] \in RelationSet
    BY DEF Sound
  <2>2. refs \in Seq(AllNames)
    BY <2>1, ReadsIs DEF RefsOf
  <2> QED  BY <2>2, PlanAssumption DEF DistributionSet
<1>2. type = "EventView" => r \in Evaluated
  BY DEF Sound, Derived, OfType, TypeOf
<1>3. r \in Evaluated => CacheName(r) \in AllNames /\ ReferenceName(r) \in AllNames
  BY DEF AllNames
<1>4. \A x, y : x \in AskedSet /\ y \in AskedSet => <<>> \in Seq(AskedSet) /\ <<x>> \in Seq(AskedSet) /\ <<x, y>> \in Seq(AskedSet)
  OBVIOUS
<1>5. \A x, y, z, w : x \in AskedSet /\ y \in AskedSet /\ z \in AskedSet /\ w \in AskedSet
        => <<x, y, z, w>> \in Seq(AskedSet)
  OBVIOUS
<1>6. \A db \in Db : \A def \in DefSet : AskAt(db, def) \in AskedSet
  BY DEF AskAt, AskedSet
<1>7. CASE type \in {"Table", "EventTable"}
  <2> DEFINE both  == SqlTable(r, type = "EventTable", type = "EventTable" /\ d.to = LocalDbId)
  <2>1. (type = "EventTable") \in BOOLEAN /\ (type = "EventTable" /\ d.to = LocalDbId) \in BOOLEAN
    OBVIOUS
  <2>2. both \in DefSet
    BY <2>1, <1>1, SqlIn
  <2>3. D = <<AskAt(d.from, both), AskAt(d.to, both)>>
    BY <1>7, DefinitionsAre
  <2> HIDE DEF both, D
  <2>4. D \in Seq(AskedSet)
    BY <2>2, <2>3, <1>1, <1>4, <1>6
  <2> QED  BY <2>4 DEF D
<1>8. CASE type = "ExistingAndImmutable"
  <2> DEFINE plain == SqlTable(r, FALSE, FALSE)
  <2>1. plain \in DefSet
    BY <1>1, SqlIn
  <2>2. D = IF d.from = d.to THEN <<>> ELSE <<AskAt(d.to, plain)>>
    BY <1>8, DefinitionsAre
  <2> HIDE DEF plain, D
  <2>3. AskAt(d.to, plain) \in AskedSet
    BY <2>1, <1>1, <1>6
  <2>4. D \in Seq(AskedSet)
    BY <2>2, <2>3, <1>4
  <2> QED  BY <2>4 DEF D
<1>9. SqlView(r, refs) \in DefSet
  BY <1>1, SqlIn
<1>10. CASE UsesCache(a, d)
  <2> DEFINE kept  == SqlTable(CacheName(r), TRUE, TRUE)
             refd  == SqlTable(ReferenceName(r), TRUE, TRUE)
             join  == SqlView(r, <<CacheName(r), ReferenceName(r)>>)
             view  == SqlView(r, refs)
  <2>1. type = "EventView"
    BY <1>10, DefinitionsAre
  <2>2. CacheName(r) \in AllNames /\ ReferenceName(r) \in AllNames
    BY <2>1, <1>2, <1>3
  <2>3. <<CacheName(r), ReferenceName(r)>> \in Seq(AllNames)
    BY <2>2
  <2>4. kept \in DefSet /\ refd \in DefSet /\ join \in DefSet /\ view \in DefSet
    BY <2>2, <2>3, <1>1, <1>9, SqlIn
  <2>5. D = <<AskAt(LocalDbId, kept), AskAt(LocalDbId, refd), AskAt(LocalDbId, join), AskAt(d.from, view)>>
    BY <1>10, DefinitionsAre
  <2> HIDE DEF kept, refd, join, view, D
  <2>6. D \in Seq(AskedSet)
    BY <2>4, <2>5, <1>1, <1>5, <1>6
  <2> QED  BY <2>6 DEF D
<1>11. CASE type \in {"View", "EventView"} /\ ~UsesCache(a, d)
  <2> DEFINE moved == SqlTable(r, TRUE, type = "EventView" /\ d.to = LocalDbId)
             view  == SqlView(r, refs)
  <2>1. (type = "EventView" /\ d.to = LocalDbId) \in BOOLEAN
    OBVIOUS
  <2>2. moved \in DefSet
    BY <2>1, <1>1, SqlIn
  <2>3. D = <<AskAt(d.from, view), AskAt(d.to, moved)>>
    BY <1>11, DefinitionsAre
  <2>4. view \in DefSet
    BY <1>9
  <2> HIDE DEF view, moved, D
  <2>5. D \in Seq(AskedSet)
    BY <2>2, <2>3, <2>4, <1>1, <1>4, <1>6
  <2> QED  BY <2>5 DEF D
<1>12. CASE type = "Output"
  <2> DEFINE sent == SqlTable(r, TRUE, FALSE)
             view == SqlView(r, refs)
  <2>1. D = IF d.from # d.to /\ d.from # LocalDbId THEN <<>>
            ELSE IF d.to # LocalDbId /\ d.from = LocalDbId
            THEN <<AskAt(LocalDbId, view), AskAt(d.to, sent)>>
            ELSE <<AskAt(LocalDbId, view)>>
    BY <1>12, DefinitionsAre
  <2>2. sent \in DefSet /\ view \in DefSet
    BY <1>1, <1>9, SqlIn
  <2> HIDE DEF view, sent, D
  <2>3. AskAt(LocalDbId, view) \in AskedSet /\ AskAt(d.to, sent) \in AskedSet
    BY <2>2, <1>1, <1>6
  <2>4. D \in Seq(AskedSet)
    BY <2>1, <2>3, <1>4
  <2> QED  BY <2>4 DEF D
<1>13. type \in RelationTypes
  BY DefinitionsAre
<1> QED  BY <1>7, <1>8, <1>10, <1>11, <1>12, <1>13 DEF RelationTypes

(***************************************************************************)
(* What a definition s on db says: it is of a relation of the program, or  *)
(* made by the caches; what is neither evaluated nor static is filled by   *)
(* events and shipments; a view is where its relation is evaluated, or     *)
(* joins the tables of a cache; the table that receives the answers of an  *)
(* event view has the columns of their timesteps.                          *)
(***************************************************************************)
IsNamed(a, s) == s.rName \in DOMAIN a.relations \/ s.rName \notin Evaluated

IsFilled(a, L, db, s) ==
  \/ db = LocalDbId
  \/ \E d \in L : d.relationName = s.rName /\ d.from = db
  \/ s.relationType = "Table" /\ s.isDynamic
  \/ s.rName \in OfType(a, {"Table", "ExistingAndImmutable"})

IsReadable(a, place, L, names, db, s) ==
  \/ s.reads = <<>>
  \/ /\ s.rName \in Derived(a) /\ s.reads = RefsOf(a, s.rName) /\ place[s.rName].fromDbId = db
     /\ \E d \in L : d.relationName = s.rName
  \/ /\ db = LocalDbId /\ s.reads = <<CacheName(s.rName), ReferenceName(s.rName)>>
     /\ CacheNames(s.rName) \subseteq names

IsAnswered(a, place, db, s) ==
  db = LocalDbId =>
    /\ s.rName \in OfType(a, {"EventView"}) =>
         \/ place[s.rName].fromDbId = LocalDbId
         \/ cache /\ IsEventViewCacheable(GetRelationDef(a, s.rName))
         \/ s = SqlTable(s.rName, TRUE, TRUE)
    /\ \A r \in Evaluated : s.rName = CacheName(r) => s = SqlTable(s.rName, TRUE, TRUE)

DefIs(a, place, L, names, db, s) ==
  /\ IsNamed(a, s) /\ IsFilled(a, L, db, s)
  /\ IsReadable(a, place, L, names, db, s) /\ IsAnswered(a, place, db, s)

\* An output is evaluated in the main database.
OutputsLocal(a, place) == \A o \in OfType(a, {"Output"}) : place[o].fromDbId = LocalDbId

LEMMA TypesPlace ==
  ASSUME NEW a, NEW n, NEW rank, NEW place, IsProgram(a, n, rank, place), NEW r \in DOMAIN a.relations
  PROVE  /\ TypeOf(a, r) \in RelationTypes /\ place[r].dbId \in Db /\ place[r].fromDbId \in Db
         /\ TypeOf(a, r) \in {"EventView", "Output"} => place[r].dbId = LocalDbId
         /\ TypeOf(a, r) \notin {"EventView", "Output"} => place[r].dbId = place[r].fromDbId
         /\ TypeOf(a, r) \in {"View", "EventView", "Output"} => r \in Derived(a) /\ r \in Evaluated
         /\ TypeOf(a, r) # "Output" => Now(a, r) = r
         /\ r \notin ToSet(RefsOf(a, r))
<1>1. a.relations[r] \in RelationSet /\ place[r] \in Places
  BY DEF IsProgram, Sound, PlacedBy
<1>2. TypeOf(a, r) \in RelationTypes /\ place[r].dbId \in Db /\ place[r].fromDbId \in Db
  BY <1>1 DEF RelationSet, TypeOf, GetRelationDef, Places
<1>3. \E owner : place[r] = PlaceAt(TypeOf(a, r), owner)
  BY DEF IsProgram, PlacedBy
<1>4. /\ TypeOf(a, r) \in {"EventView", "Output"} => place[r].dbId = LocalDbId
      /\ TypeOf(a, r) \notin {"EventView", "Output"} => place[r].dbId = place[r].fromDbId
  BY <1>3 DEF PlaceAt
<1>5. TypeOf(a, r) \in {"View", "EventView", "Output"} => r \in Derived(a) /\ r \in Evaluated
  BY DEF IsProgram, Sound, Derived, OfType
<1>6. TypeOf(a, r) # "Output" => Now(a, r) = r
  BY SplitsIn DEF Now
<1>7. r \notin ToSet(RefsOf(a, r))
  <2>1. n \in Nat /\ rank[r] \in 0..n /\ \A y \in ToSet(RefsOf(a, r)) : rank[y] < rank[r]
    BY DEF IsProgram, RankedBy
  <2> QED  BY <2>1
<1> QED  BY <1>2, <1>4, <1>5, <1>6, <1>7

(***************************************************************************)
(* An event view that a distribution takes from where it is not read is    *)
(* brought up by it; so is one that is needed for itself.                  *)
(***************************************************************************)
LEMMA EventViewFrom ==
  ASSUME NEW a, NEW n, NEW rank, NEW place, IsProgram(a, n, rank, place),
         NEW d, IsNeeded(a, place, d), TypeOf(a, d.relationName) = "EventView",
         d.from # LocalDbId \/ d.forRelationName = d.relationName
  PROVE  d.from = place[d.relationName].fromDbId /\ d.to = LocalDbId
<1> DEFINE r == d.relationName
<1>1. /\ r \in DOMAIN a.relations /\ place[r].dbId = LocalDbId /\ Now(a, r) = r /\ r \notin ToSet(RefsOf(a, r))
  BY TypesPlace DEF IsNeeded
<1>2. ~IsShip(a, place, d)
  <2>1. SUFFICES ASSUME IsShip(a, place, d) PROVE FALSE
    OBVIOUS
  <2>2. d.from = LocalDbId /\ \E f \in {d.forRelationName, Now(a, d.forRelationName)} : r \in ToSet(RefsOf(a, f))
    BY <2>1, <1>1 DEF IsShip
  <2>3. d.forRelationName = r
    BY <2>2
  <2> QED  BY <2>2, <2>3, <1>1
<1>3. IsOwn(a, place, d)
  BY <1>2 DEF IsNeeded
<1> QED  BY <1>1, <1>3 DEF IsOwn

-----------------------------------------------------------------------------
\* What is known of a definition that is the first to be asked for with its name.
IsFirst(a, place, d, x) ==
  /\ x.dbId = LocalDbId /\ x.def.rName = d.relationName /\ TypeOf(a, d.relationName) = "EventView" =>
       place[d.relationName].fromDbId = LocalDbId \/ d.forRelationName = d.relationName
  /\ \A r \in Evaluated : x.dbId = LocalDbId /\ x.def.rName = CacheName(r) => ~Has(a, CacheName(r))

LEMMA NewDefinition ==
  ASSUME NEW a, NEW n, NEW rank, NEW place, IsProgram(a, n, rank, place), OutputsLocal(a, place),
         NEW d \in DistributionSet, IsNeeded(a, place, d), NEW L, d \in L,
         NEW x, Asks(a, d, x), IsFirst(a, place, d, x),
         NEW names, UsesCache(a, d) => CacheNames(d.relationName) \subseteq names
  PROVE  DefIs(a, place, L, names, x.dbId, x.def)
<1> DEFINE r    == d.relationName
           type == TypeOf(a, r)
           view == ViewOf(a, r)
           db   == x.dbId
           s    == x.def
<1>1. /\ r \in DOMAIN a.relations /\ type \in RelationTypes
      /\ type \in {"EventView", "Output"} => place[r].dbId = LocalDbId
      /\ type \notin {"EventView", "Output"} => place[r].dbId = place[r].fromDbId
      /\ type \in {"View", "EventView", "Output"} => r \in Derived(a) /\ r \in Evaluated
  BY TypesPlace DEF IsNeeded
<1>2. /\ type = "EventView" /\ (d.from # LocalDbId \/ d.forRelationName = r) =>
           d.from = place[r].fromDbId /\ d.to = LocalDbId
      /\ type = "View" => d.from = place[r].fromDbId
      /\ type = "Output" => place[r].fromDbId = LocalDbId
  <2>1. type = "EventView" /\ (d.from # LocalDbId \/ d.forRelationName = r) =>
           d.from = place[r].fromDbId /\ d.to = LocalDbId
    BY EventViewFrom
  <2>2. type = "View" => d.from = place[r].fromDbId
    BY <1>1 DEF IsNeeded, IsOwn, IsShip
  <2>3. type = "Output" => place[r].fromDbId = LocalDbId
    BY <1>1 DEF OutputsLocal, OfType, TypeOf
  <2> QED  BY <2>1, <2>2, <2>3
<1>3. /\ r \in OfType(a, {"EventView"}) => type = "EventView"
      /\ type \in {"Table", "ExistingAndImmutable"} => r \in OfType(a, {"Table", "ExistingAndImmutable"})
  BY <1>1 DEF OfType
<1>4. /\ r \in Evaluated => CacheName(r) \notin Evaluated /\ ReferenceName(r) \notin Evaluated
      /\ r \in Evaluated => \A q \in Evaluated : CacheName(q) # r /\ CacheName(q) # ReferenceName(r)
  BY NameAssumption
<1>5. db = LocalDbId /\ s.rName = r => \A q \in Evaluated : CacheName(q) # r
  BY <1>1 DEF IsFirst, Has
<1>6. \A q : q \in OfType(a, {"EventView"}) => q \in Evaluated
  BY DEF IsProgram, Sound, Derived, OfType
<1>7. CASE type \in {"Table", "ExistingAndImmutable"} /\ s = SqlTable(r, FALSE, FALSE)
  <2>1. s.rName = r /\ s.reads = <<>>
    BY <1>7 DEF SqlTable, SqlView, AskAt
  <2>2. IsNamed(a, s) /\ IsFilled(a, L, db, s) /\ IsReadable(a, place, L, names, db, s)
    BY <2>1, <1>1, <1>3, <1>7 DEF IsNamed, IsFilled, IsReadable
  <2>3. IsAnswered(a, place, db, s)
    <3>1. r \notin OfType(a, {"EventView"}) /\ (db = LocalDbId => \A q \in Evaluated : CacheName(q) # s.rName)
      BY <2>1, <1>3, <1>5, <1>7
    <3> QED  BY <3>1, <2>1 DEF IsAnswered
  <2> QED  BY <2>2, <2>3 DEF DefIs
<1>8. CASE type = "EventTable" /\ s \in {SqlTable(r, TRUE, TRUE), SqlTable(r, TRUE, FALSE)}
  <2>1. s.rName = r /\ s.reads = <<>> /\ s.relationType = "Table" /\ s.isDynamic
    BY <1>8 DEF SqlTable, SqlView, AskAt
  <2>2. IsNamed(a, s) /\ IsFilled(a, L, db, s) /\ IsReadable(a, place, L, names, db, s)
    BY <2>1, <1>1, <1>3, <1>8 DEF IsNamed, IsFilled, IsReadable
  <2>3. IsAnswered(a, place, db, s)
    <3>1. r \notin OfType(a, {"EventView"}) /\ (db = LocalDbId => \A q \in Evaluated : CacheName(q) # s.rName)
      BY <2>1, <1>3, <1>5, <1>8
    <3> QED  BY <3>1, <2>1 DEF IsAnswered
  <2> QED  BY <2>2, <2>3 DEF DefIs
<1>9. CASE type \in {"View", "EventView"} /\ x = AskAt(d.from, view)
  <2>1. s.rName = r /\ s.reads = RefsOf(a, r) /\ db = d.from
    BY <1>9 DEF SqlTable, SqlView, AskAt, ViewOf
  <2>2. db = place[r].fromDbId
    <3>1. CASE type = "View"
      BY <3>1, <2>1, <1>2
    <3>2. CASE type = "EventView"
      <4>1. db = LocalDbId => place[r].fromDbId = LocalDbId \/ d.forRelationName = r
        BY <3>2, <2>1 DEF IsFirst
      <4> QED  BY <4>1, <3>2, <2>1, <1>2
    <3> QED  BY <3>1, <3>2, <1>9
  <2>3. IsNamed(a, s)
    BY <2>1, <1>1 DEF IsNamed
  <2>4. IsFilled(a, L, db, s)
    BY <2>1 DEF IsFilled
  <2>5. IsReadable(a, place, L, names, db, s)
    BY <2>1, <2>2, <1>1, <1>9 DEF IsReadable
  <2>6. IsAnswered(a, place, db, s)
    BY <2>1, <2>2, <1>1, <1>4, <1>9 DEF IsAnswered
  <2> QED  BY <2>3, <2>4, <2>5, <2>6 DEF DefIs
<1>10. CASE (type = "View" \/ type = "Output") /\ x = AskAt(d.to, SqlTable(r, TRUE, FALSE))
  <2>1. s.rName = r /\ s.reads = <<>> /\ s.relationType = "Table" /\ s.isDynamic
    BY <1>10 DEF SqlTable, SqlView, AskAt
  <2>2. IsNamed(a, s) /\ IsFilled(a, L, db, s) /\ IsReadable(a, place, L, names, db, s)
    BY <2>1, <1>1 DEF IsNamed, IsFilled, IsReadable
  <2>3. IsAnswered(a, place, db, s)
    <3>1. r \notin OfType(a, {"EventView"}) /\ \A q \in Evaluated : CacheName(q) # s.rName
      BY <2>1, <1>1, <1>3, <1>4, <1>10
    <3> QED  BY <3>1, <2>1 DEF IsAnswered
  <2> QED  BY <2>2, <2>3 DEF DefIs
<1>11. CASE type = "EventView" /\ x = AskAt(d.to, SqlTable(r, TRUE, d.to = LocalDbId))
  <2>1. s.rName = r /\ s.reads = <<>> /\ s.relationType = "Table" /\ s.isDynamic /\ db = d.to
    BY <1>11 DEF SqlTable, SqlView, AskAt
  <2>2. IsNamed(a, s) /\ IsFilled(a, L, db, s) /\ IsReadable(a, place, L, names, db, s)
    BY <2>1, <1>1 DEF IsNamed, IsFilled, IsReadable
  <2>3. db = LocalDbId => s = SqlTable(r, TRUE, TRUE)
    <3>1. s = SqlTable(r, TRUE, d.to = LocalDbId)
      BY <1>11 DEF SqlTable, SqlView, AskAt
    <3>2. db = LocalDbId => (d.to = LocalDbId) = TRUE
      BY <2>1
    <3> QED  BY <3>1, <3>2
  <2>4. IsAnswered(a, place, db, s)
    BY <2>1, <2>3 DEF IsAnswered
  <2> QED  BY <2>2, <2>4 DEF DefIs
<1>12. CASE type = "Output" /\ x = AskAt(LocalDbId, view)
  <2>1. s.rName = r /\ s.reads = RefsOf(a, r) /\ db = LocalDbId
    BY <1>12 DEF SqlTable, SqlView, AskAt, ViewOf
  <2>2. IsNamed(a, s) /\ IsFilled(a, L, db, s) /\ IsReadable(a, place, L, names, db, s)
    BY <2>1, <1>1, <1>2, <1>12 DEF IsNamed, IsFilled, IsReadable
  <2>3. IsAnswered(a, place, db, s)
    <3>1. r \notin OfType(a, {"EventView"}) /\ \A q \in Evaluated : CacheName(q) # s.rName
      BY <2>1, <1>1, <1>3, <1>4, <1>12
    <3> QED  BY <3>1, <2>1 DEF IsAnswered
  <2> QED  BY <2>2, <2>3 DEF DefIs
<1>13. CASE UsesCache(a, d) /\ type = "EventView" /\ x = AskAt(LocalDbId, SqlTable(CacheName(r), TRUE, TRUE))
  <2>1. s.rName = CacheName(r) /\ s.reads = <<>> /\ s = SqlTable(s.rName, TRUE, TRUE) /\ db = LocalDbId
    BY <1>13 DEF SqlTable, SqlView, AskAt
  <2>2. IsNamed(a, s) /\ IsFilled(a, L, db, s) /\ IsReadable(a, place, L, names, db, s)
    BY <2>1, <1>1, <1>4, <1>13 DEF IsNamed, IsFilled, IsReadable
  <2>3. IsAnswered(a, place, db, s)
    BY <2>1 DEF IsAnswered
  <2> QED  BY <2>2, <2>3 DEF DefIs
<1>14. CASE UsesCache(a, d) /\ type = "EventView" /\ x = AskAt(LocalDbId, SqlTable(ReferenceName(r), TRUE, TRUE))
  <2>1. s.rName = ReferenceName(r) /\ s.reads = <<>> /\ s = SqlTable(s.rName, TRUE, TRUE) /\ db = LocalDbId
    BY <1>14 DEF SqlTable, SqlView, AskAt
  <2>2. IsNamed(a, s) /\ IsFilled(a, L, db, s) /\ IsReadable(a, place, L, names, db, s)
    BY <2>1, <1>1, <1>4, <1>14 DEF IsNamed, IsFilled, IsReadable
  <2>3. IsAnswered(a, place, db, s)
    BY <2>1 DEF IsAnswered
  <2> QED  BY <2>2, <2>3 DEF DefIs
<1>15. CASE /\ UsesCache(a, d) /\ type = "EventView"
            /\ x = AskAt(LocalDbId, SqlView(r, <<CacheName(r), ReferenceName(r)>>))
  <2>1. s.rName = r /\ s.reads = <<CacheName(r), ReferenceName(r)>> /\ db = LocalDbId
    BY <1>15 DEF SqlTable, SqlView, AskAt
  <2>2. IsNamed(a, s) /\ IsFilled(a, L, db, s) /\ IsReadable(a, place, L, names, db, s)
    BY <2>1, <1>1, <1>15 DEF IsNamed, IsFilled, IsReadable
  <2>3. cache /\ IsEventViewCacheable(GetRelationDef(a, r))
    BY <1>15 DEF UsesCache
  <2>4. IsAnswered(a, place, db, s)
    BY <2>1, <2>3, <1>1, <1>4, <1>15 DEF IsAnswered
  <2> QED  BY <2>2, <2>4 DEF DefIs
<1>16. \/ type \in {"Table", "ExistingAndImmutable"} /\ s = SqlTable(r, FALSE, FALSE)
       \/ type = "EventTable" /\ s \in {SqlTable(r, TRUE, TRUE), SqlTable(r, TRUE, FALSE)}
       \/ type \in {"View", "EventView"} /\ x = AskAt(d.from, view)
       \/ (type = "View" \/ type = "Output") /\ x = AskAt(d.to, SqlTable(r, TRUE, FALSE))
       \/ type = "EventView" /\ x = AskAt(d.to, SqlTable(r, TRUE, d.to = LocalDbId))
       \/ type = "Output" /\ x = AskAt(LocalDbId, view)
       \/ UsesCache(a, d) /\ type = "EventView" /\ x = AskAt(LocalDbId, SqlTable(CacheName(r), TRUE, TRUE))
       \/ UsesCache(a, d) /\ type = "EventView" /\ x = AskAt(LocalDbId, SqlTable(ReferenceName(r), TRUE, TRUE))
       \/ /\ UsesCache(a, d) /\ type = "EventView"
          /\ x = AskAt(LocalDbId, SqlView(r, <<CacheName(r), ReferenceName(r)>>))
  <2> HIDE DEF view
  <2> QED  BY DEF Asks, view
<1> QED  BY <1>7, <1>8, <1>9, <1>10, <1>11, <1>12, <1>13, <1>14, <1>15, <1>16

-----------------------------------------------------------------------------
\* An element stands in one of the sequences, and behind all those of the sequences before.
LEMMA ConcatenationPlaces ==
  ASSUME NEW X, NEW seqs \in Seq(Seq(X)), NEW k \in 1..Len(Concatenation(seqs))
  PROVE  \E i \in 1..Len(seqs) :
           /\ Concatenation(seqs)[k] \in ToSet(seqs[i])
           /\ \A h \in 1..(i - 1) : \A x \in ToSet(seqs[h]) :
                \E q \in 1..(k - 1) : Concatenation(seqs)[q] = x
<1> DEFINE c == Concatenation(seqs)
           n == Len(seqs)
<1>1. c \in Seq(X) /\ \E at : Blocks(c, seqs, at, n)
  BY ConcatenationIs
<1>2. k \in 1..Len(c)
  OBVIOUS
<1> HIDE DEF c
<1>3. PICK at : Blocks(c, seqs, at, n)
  BY <1>1
<1>4. /\ n \in Nat /\ Len(c) \in Nat
      /\ \A i \in 1..n : /\ Len(seqs[i]) \in Nat
                         /\ ToSet(seqs[i]) = {seqs[i][j] : j \in 1..Len(seqs[i])}
  BY <1>1 DEF ToSet
<1>5. /\ at \in [1..n -> Nat]
      /\ \A i \in 1..n : \A j \in 1..Len(seqs[i]) : c[at[i] + j] = seqs[i][j]
      /\ \A i, j \in 1..n : i < j => at[i] + Len(seqs[i]) <= at[j]
  BY <1>3 DEF Blocks
<1>6. PICK i \in 1..n : \E j \in 1..Len(seqs[i]) : k = at[i] + j
  BY <1>2, <1>3 DEF Blocks
<1>7. PICK j \in 1..Len(seqs[i]) : k = at[i] + j
  BY <1>6
<1>8. c[k] \in ToSet(seqs[i])
  <2>1. c[k] = seqs[i][j]
    BY <1>5, <1>7
  <2>2. ToSet(seqs[i]) = {seqs[i][l] : l \in 1..Len(seqs[i])}
    BY <1>4
  <2> QED  BY <2>1, <2>2
<1>9. ASSUME NEW h \in 1..(i - 1), NEW x \in ToSet(seqs[h])
      PROVE  \E q \in 1..(k - 1) : c[q] = x
  <2>1. h \in 1..n /\ h < i
    BY <1>4
  <2>2. PICK l \in 1..Len(seqs[h]) : x = seqs[h][l]
    BY <2>1, <1>4
  <2>3. at[h] \in Nat /\ at[i] \in Nat /\ at[h] + Len(seqs[h]) <= at[i] /\ Len(seqs[h]) \in Nat /\ Len(seqs[i]) \in Nat
    BY <2>1, <1>4, <1>5
  <2>4. at[h] + l \in 1..(k - 1)
    <3>1. \A p, q, u, v, w \in Nat : \A y \in 1..u : \A z \in 1..v :
            p + u <= q /\ w = q + z => p + y \in 1..(w - 1)
      OBVIOUS
    <3> DEFINE p == at[h]
               q == at[i]
               u == Len(seqs[h])
               v == Len(seqs[i])
    <3>2. p \in Nat /\ q \in Nat /\ u \in Nat /\ v \in Nat /\ p + u <= q /\ l \in 1..u /\ j \in 1..v
      BY <2>3
    <3>3. k = q + j
      BY <1>7
    <3> HIDE DEF n, p, q, u, v
    <3>4. k \in Nat
      BY <1>2, <1>4
    <3>5. p + l \in 1..(k - 1)
      BY <3>1, <3>2, <3>3, <3>4
    <3> QED  BY <3>5 DEF p
  <2>5. c[at[h] + l] = x
    BY <2>1, <2>2, <1>5
  <2> QED  BY <2>4, <2>5
<1>10. c[k] \in ToSet(seqs[i]) /\ \A h \in 1..(i - 1) : \A x \in ToSet(seqs[h]) : \E q \in 1..(k - 1) : c[q] = x
  BY <1>8, <1>9
<1>11. \E f \in 1..n : c[k] \in ToSet(seqs[f]) /\ \A h \in 1..(f - 1) : \A x \in ToSet(seqs[h]) : \E q \in 1..(k - 1) : c[q] = x
  BY <1>10
<1> QED  BY <1>11 DEF c

(***************************************************************************)
(* What the databases define, for the distributions in L.                  *)
(***************************************************************************)
LocalNames(specs) == DefinedIn(specs, LocalDbId)

SpecsAre(a, place, L, specs) ==
  /\ specs \in SpecSet
  /\ \A db \in DOMAIN specs : \A s \in ToSet(specs[db]) : DefIs(a, place, L, LocalNames(specs), db, s)
  /\ \A d \in L : \/ NotBrought(a, d)
                  \/ d.to \in DOMAIN specs /\ d.relationName \in DefinedIn(specs, d.to)
  /\ \A d \in L : UsesCache(a, d) => CacheNames(d.relationName) \subseteq LocalNames(specs)
  /\ \A r \in Evaluated : Has(a, CacheName(r)) => CacheName(r) \in LocalNames(specs)

LEMMA DefGrows ==
  ASSUME NEW a, NEW place, NEW L, NEW names, NEW db, NEW s, DefIs(a, place, L, names, db, s),
         NEW M, L \subseteq M, NEW others, names \subseteq others
  PROVE  DefIs(a, place, M, others, db, s)
<1>1. IsNamed(a, s) /\ IsAnswered(a, place, db, s)
  BY DEF DefIs
<1>2. IsFilled(a, M, db, s)
  BY DEF DefIs, IsFilled
<1>3. IsReadable(a, place, M, others, db, s)
  BY DEF DefIs, IsReadable
<1> QED  BY <1>1, <1>2, <1>3 DEF DefIs

\* The definitions that a list asks for.
AskedOf(a, list) == [i \in DOMAIN list |-> Definitions(a, list[i])]

LEMMA AskedOfIs ==
  ASSUME NEW a, Sound(a), NEW list \in Seq(DistributionSet),
         \A d \in ToSet(list) : d.relationName \in DOMAIN a.relations
  PROVE  /\ AskedOf(a, list) \in Seq(Seq(AskedSet)) /\ Len(AskedOf(a, list)) = Len(list)
         /\ \A i \in 1..Len(list) : /\ AskedOf(a, list)[i] = Definitions(a, list[i])
                                    /\ list[i] \in ToSet(list) /\ list[i] \in DistributionSet
<1>1. DOMAIN list = 1..Len(list) /\ Len(list) \in Nat
      /\ \A i \in 1..Len(list) : list[i] \in DistributionSet /\ list[i] \in ToSet(list)
  BY DEF ToSet
<1>2. \A i \in 1..Len(list) : Definitions(a, list[i]) \in Seq(AskedSet)
  BY <1>1, DefinitionsIn
<1>3. AskedOf(a, list) = [i \in 1..Len(list) |-> Definitions(a, list[i])]
  BY <1>1 DEF AskedOf
<1>4. AskedOf(a, list) \in [1..Len(list) -> Seq(AskedSet)]
  BY <1>2, <1>3
<1>5. AskedOf(a, list) \in Seq(Seq(AskedSet)) /\ Len(AskedOf(a, list)) = Len(list)
  BY <1>1, <1>4
<1> QED  BY <1>1, <1>3, <1>5

\* The first one to be asked for, of those with its name.
LEMMA FirstIs ==
  ASSUME NEW a, NEW n, NEW rank, NEW place, IsProgram(a, n, rank, place),
         NEW new \in Seq(DistributionSet), \A d \in ToSet(new) : IsNeeded(a, place, d), Ordered(a, new),
         NEW specs, \A r \in Evaluated : Has(a, CacheName(r)) => CacheName(r) \in LocalNames(specs),
         LocalDbId \in DOMAIN specs,
         NEW asked, NEW k, FirstAsked(specs, asked, k),
         NEW i \in 1..Len(new), asked[k] \in ToSet(Definitions(a, new[i])),
         \A h \in 1..(i - 1) : \A x \in ToSet(Definitions(a, new[h])) : \E q \in 1..(k - 1) : asked[q] = x
  PROVE  IsFirst(a, place, new[i], asked[k])
<1> DEFINE d == new[i]
           x == asked[k]
           r == d.relationName
<1>1. DOMAIN new = 1..Len(new) /\ Len(new) \in Nat /\ d \in ToSet(new) /\ d \in DistributionSet
  BY DEF ToSet
<1>2. /\ x.dbId = LocalDbId => x.def.rName \notin LocalNames(specs)
      /\ \A q \in 1..(k - 1) : ~(asked[q].dbId = x.dbId /\ asked[q].def.rName = x.def.rName)
  BY DEF FirstAsked, LocalNames
<1>3. \A t \in Evaluated : x.dbId = LocalDbId /\ x.def.rName = CacheName(t) => ~Has(a, CacheName(t))
  BY <1>2
<1>4. ASSUME x.dbId = LocalDbId, x.def.rName = r, TypeOf(a, r) = "EventView", d.forRelationName # r
      PROVE  place[r].fromDbId = LocalDbId
  <2>1. PICK h \in 1..(i - 1) : new[h].relationName = r /\ new[h].forRelationName = r
    BY <1>1, <1>4 DEF Ordered
  <2> DEFINE e == new[h]
  <2>2. h \in 1..Len(new) /\ e \in ToSet(new) /\ e \in DistributionSet
    <3>1. h \in 1..Len(new)
      BY <1>1
    <3> QED  BY <3>1, <1>1 DEF ToSet
  <2>3. IsNeeded(a, place, e) /\ e.relationName = r /\ e.forRelationName = r
    BY <2>1, <2>2
  <2> HIDE DEF e
  <2>4. e.to = LocalDbId
    BY <2>3, <1>4, EventViewFrom
  <2>5. ~NotBrought(a, e)
    BY <2>3, <1>4 DEF NotBrought
  <2>6. AsksFor(a, e, LocalDbId, r)
    <3>1. Sound(a) /\ e.relationName \in DOMAIN a.relations
      BY <2>3 DEF IsProgram, IsNeeded
    <3>2. e \in DistributionSet
      BY <2>2 DEF e
    <3> QED  BY <3>1, <3>2, <2>3, <2>4, <2>5, AsksIs
  <2>7. PICK y \in ToSet(Definitions(a, e)) : y.dbId = LocalDbId /\ y.def.rName = r
    BY <2>6 DEF AsksFor
  <2>8. \E q \in 1..(k - 1) : asked[q] = y
    BY <2>7 DEF e
  <2> QED  BY <2>7, <2>8, <1>2, <1>4
<1> QED  BY <1>3, <1>4 DEF IsFirst

-----------------------------------------------------------------------------
\* The distributions of a list, planned in a.
IsList(a, place, new) ==
  new \in Seq(DistributionSet) /\ (\A d \in ToSet(new) : IsNeeded(a, place, d)) /\ Ordered(a, new)

LEMMA AddNewRelationsAre ==
  ASSUME NEW a, NEW n, NEW rank, NEW place, IsProgram(a, n, rank, place), OutputsLocal(a, place),
         NEW L, NEW specs, SpecsAre(a, place, L, specs), NEW new, IsList(a, place, new)
  PROVE  SpecsAre(a, place, L \cup ToSet(new), AddNewRelations(specs, a, new))
<1> DEFINE M     == L \cup ToSet(new)
           seqs  == AskedOf(a, new)
           asked == Concatenation(seqs)
           m     == Len(asked)
           s     == AddDefinitions(specs, asked)
           names == LocalNames(s)
<1>1. /\ Sound(a) /\ new \in Seq(DistributionSet) /\ Ordered(a, new)
      /\ \A d \in ToSet(new) : IsNeeded(a, place, d) /\ d.relationName \in DOMAIN a.relations
  BY DEF IsProgram, IsList, IsNeeded
<1>2. /\ specs \in SpecSet /\ LocalDbId \in DOMAIN specs
      /\ \A r \in Evaluated : Has(a, CacheName(r)) => CacheName(r) \in LocalNames(specs)
  BY SpecSetIs DEF SpecsAre
<1>3. /\ seqs \in Seq(Seq(AskedSet)) /\ Len(seqs) = Len(new)
      /\ \A i \in 1..Len(new) : /\ seqs[i] = Definitions(a, new[i])
                                /\ new[i] \in ToSet(new) /\ new[i] \in DistributionSet
  BY <1>1, AskedOfIs
<1>4. AddNewRelations(specs, a, new) = s
  BY DEF AddNewRelations, AskedOf
<1>5. \A d \in ToSet(new) : \E i \in 1..Len(new) : d = new[i]
  BY <1>1 DEF ToSet
<1> HIDE DEF seqs
<1>6. /\ asked \in Seq(AskedSet)
      /\ \A i \in 1..Len(new) : ToSet(Definitions(a, new[i])) \subseteq ToSet(asked)
  BY <1>3, ConcatenationHas
<1>7. \A k \in 1..m : \E i \in 1..Len(new) :
        /\ asked[k] \in ToSet(Definitions(a, new[i]))
        /\ \A h \in 1..(i - 1) : \A x \in ToSet(Definitions(a, new[h])) : \E q \in 1..(k - 1) : asked[q] = x
  <2>1. TAKE k \in 1..m
  <2>2. PICK i \in 1..Len(seqs) :
          /\ asked[k] \in ToSet(seqs[i])
          /\ \A h \in 1..(i - 1) : \A x \in ToSet(seqs[h]) : \E q \in 1..(k - 1) : asked[q] = x
    BY <1>3, ConcatenationPlaces
  <2>3. i \in 1..Len(new) /\ \A h \in 1..(i - 1) : h \in 1..Len(new)
    BY <1>1, <1>3
  <2> HIDE DEF asked
  <2> QED  BY <2>2, <2>3, <1>3
<1> HIDE DEF asked
<1>8. s \in SpecSet /\ AddedTo(specs, asked, s, m)
  BY <1>2, <1>6, AddDefinitionsIs
<1> HIDE DEF s
<1>9. /\ LocalDbId \in DOMAIN s /\ LocalDbId \in DOMAIN specs /\ DOMAIN specs \subseteq DOMAIN s
      /\ \A db \in DOMAIN specs : ToSet(specs[db]) \subseteq ToSet(s[db])
      /\ \A db \in DOMAIN specs : DefinedIn(specs, db) \subseteq DefinedIn(s, db)
      /\ LocalNames(specs) \subseteq names
  <2>1. /\ DOMAIN specs \subseteq DOMAIN s
        /\ \A db \in DOMAIN specs : ToSet(specs[db]) \subseteq ToSet(s[db])
    BY <1>8 DEF AddedTo
  <2>2. \A db \in DOMAIN specs : DefinedIn(specs, db) \subseteq DefinedIn(s, db)
    BY <2>1 DEF DefinedIn
  <2> QED  BY <2>1, <2>2, <1>2, <1>8, SpecSetIs DEF LocalNames
<1>10. \A d \in ToSet(new) : \A db, name : AsksFor(a, d, db, name) => db \in DOMAIN s /\ name \in DefinedIn(s, db)
  <2> SUFFICES ASSUME NEW d \in ToSet(new), NEW db, NEW name, AsksFor(a, d, db, name)
               PROVE  db \in DOMAIN s /\ name \in DefinedIn(s, db)
    OBVIOUS
  <2>1. PICK x \in ToSet(asked) : x.dbId = db /\ x.def.rName = name
    BY <1>5, <1>6 DEF AsksFor
  <2>2. PICK k \in 1..m : x = asked[k]
    BY <1>6 DEF ToSet
  <2>3. asked[k].dbId \in DOMAIN s /\ asked[k].def.rName \in DefinedIn(s, asked[k].dbId)
    BY <1>8 DEF AddedTo
  <2> QED  BY <2>1, <2>2, <2>3
<1>11. \A d \in ToSet(new) : d \in DistributionSet /\ d.relationName \in DOMAIN a.relations
  BY <1>1, <1>3, <1>5
<1>12. ASSUME NEW d \in ToSet(new)
       PROVE  /\ NotBrought(a, d) \/ (d.to \in DOMAIN s /\ d.relationName \in DefinedIn(s, d.to))
              /\ UsesCache(a, d) => CacheNames(d.relationName) \subseteq names
  <2>1. /\ NotBrought(a, d) \/ AsksFor(a, d, d.to, d.relationName)
        /\ UsesCache(a, d) => \A name \in CacheNames(d.relationName) : AsksFor(a, d, LocalDbId, name)
    BY <1>1, <1>11, AsksIs
  <2> QED  BY <2>1, <1>10 DEF LocalNames
<1>13. ASSUME NEW d \in L
       PROVE  /\ NotBrought(a, d) \/ (d.to \in DOMAIN s /\ d.relationName \in DefinedIn(s, d.to))
              /\ UsesCache(a, d) => CacheNames(d.relationName) \subseteq names
  BY <1>9 DEF SpecsAre
<1>14. \A r \in Evaluated : Has(a, CacheName(r)) => CacheName(r) \in names
  BY <1>2, <1>9
<1>15. ASSUME NEW db \in DOMAIN s, NEW x \in ToSet(s[db])
       PROVE  DefIs(a, place, M, names, db, x)
  <2>1. (db \in DOMAIN specs /\ x \in ToSet(specs[db])) \/ IsAsked(specs, asked, m, db, x)
    BY <1>8 DEF AddedTo
  <2>2. CASE db \in DOMAIN specs /\ x \in ToSet(specs[db])
    <3>1. DefIs(a, place, L, LocalNames(specs), db, x)
      BY <2>2 DEF SpecsAre
    <3> HIDE DEF names
    <3>2. L \subseteq M
      OBVIOUS
    <3>3. LocalNames(specs) \subseteq names
      BY <1>9 DEF names
    <3> HIDE DEF M
    <3> QED  BY <3>1, <3>2, <3>3, DefGrows
  <2>3. CASE IsAsked(specs, asked, m, db, x)
    <3>1. PICK k \in 1..m : asked[k].dbId = db /\ asked[k].def = x /\ FirstAsked(specs, asked, k)
      BY <2>3 DEF IsAsked
    <3>2. PICK i \in 1..Len(new) :
            /\ asked[k] \in ToSet(Definitions(a, new[i]))
            /\ \A h \in 1..(i - 1) : \A y \in ToSet(Definitions(a, new[h])) : \E q \in 1..(k - 1) : asked[q] = y
      BY <1>7
    <3>3. IsFirst(a, place, new[i], asked[k])
      BY <3>1, <3>2, <1>1, <1>2, FirstIs
    <3>4. new[i] \in ToSet(new) /\ new[i] \in DistributionSet
      BY <1>3
    <3> DEFINE d == new[i]
               y == asked[k]
    <3>5. IsNeeded(a, place, d) /\ d.relationName \in DOMAIN a.relations /\ d \in M
      BY <3>4, <1>1
    <3>6. Asks(a, d, y)
      BY <3>2, <3>4, <3>5, <1>1, AsksIs
    <3>7. UsesCache(a, d) => CacheNames(d.relationName) \subseteq names
      BY <3>4, <1>12
    <3>8. d \in DistributionSet /\ IsFirst(a, place, d, y)
      BY <3>3, <3>4
    <3>9. y.dbId = db /\ y.def = x
      BY <3>1
    <3> HIDE DEF d, y, M, names
    <3>10. DefIs(a, place, M, names, y.dbId, y.def)
      BY <3>5, <3>6, <3>7, <3>8, NewDefinition
    <3> QED  BY <3>9, <3>10
  <2> QED  BY <2>1, <2>2, <2>3
<1>16. \A d \in M : /\ NotBrought(a, d) \/ (d.to \in DOMAIN s /\ d.relationName \in DefinedIn(s, d.to))
                    /\ UsesCache(a, d) => CacheNames(d.relationName) \subseteq names
  BY <1>12, <1>13
<1>17. SpecsAre(a, place, M, s)
  <2> HIDE DEF M
  <2> QED  BY <1>8, <1>14, <1>15, <1>16 DEF SpecsAre
<1> QED  BY <1>4, <1>17

(***************************************************************************)
(* A program that extends another, by names that the databases do not      *)
(* define yet, or by the tables of caches that they do.                    *)
(***************************************************************************)
LEMMA SpecsExtend ==
  ASSUME NEW a, NEW n, NEW rank, NEW place, IsProgram(a, n, rank, place),
         NEW b, NEW place2, Sound(b), Extends(a, place, b, place2),
         NEW L, \A d \in L : d.relationName \in DOMAIN a.relations,
         \A x \in DOMAIN b.relations \ DOMAIN a.relations :
           x \in Evaluated \/ \E d \in L : UsesCache(a, d) /\ x \in CacheNames(d.relationName),
         NEW specs, SpecsAre(a, place, L, specs)
  PROVE  SpecsAre(b, place2, L, specs)
<1> DEFINE names == LocalNames(specs)
<1>1. Sound(a)
  BY DEF IsProgram
<1>2. \A x \in DOMAIN a.relations :
        /\ x \in DOMAIN b.relations /\ TypeOf(b, x) = TypeOf(a, x) /\ RefsOf(b, x) = RefsOf(a, x)
        /\ place2[x] = place[x] /\ GetRelationDef(b, x) = GetRelationDef(a, x)
  BY <1>1, ExtendsKeeps DEF Extends, GetRelationDef
<1>3. ASSUME NEW db \in DOMAIN specs, NEW s \in ToSet(specs[db])
      PROVE  DefIs(b, place2, L, names, db, s)
  <2>1. IsNamed(a, s) /\ IsFilled(a, L, db, s) /\ IsReadable(a, place, L, names, db, s) /\ IsAnswered(a, place, db, s)
    BY DEF SpecsAre, DefIs
  <2>2. IsNamed(b, s)
    BY <2>1, <1>2 DEF IsNamed
  <2>3. IsFilled(b, L, db, s)
    BY <2>1, <1>2 DEF IsFilled, OfType
  <2>4. IsReadable(b, place2, L, names, db, s)
    <3>1. s.rName \in Derived(a) => /\ s.rName \in Derived(b) /\ RefsOf(b, s.rName) = RefsOf(a, s.rName)
                                    /\ place2[s.rName] = place[s.rName]
      BY <1>2 DEF Derived, OfType
    <3> HIDE DEF names
    <3> QED  BY <2>1, <3>1 DEF IsReadable
  <2>5. IsAnswered(b, place2, db, s)
    <3>1. s.rName \in OfType(b, {"EventView"}) => s.rName \in DOMAIN b.relations /\ s.rName \in Evaluated
      BY DEF Sound, Derived, OfType
    <3>2. s.rName \in OfType(b, {"EventView"}) => s.rName \in DOMAIN a.relations
      BY <3>1, <2>1 DEF IsNamed
    <3>3. s.rName \in OfType(b, {"EventView"}) =>
            /\ s.rName \in OfType(a, {"EventView"}) /\ place2[s.rName] = place[s.rName]
            /\ GetRelationDef(b, s.rName) = GetRelationDef(a, s.rName)
      BY <3>2, <1>2 DEF OfType
    <3> QED  BY <2>1, <3>3 DEF IsAnswered
  <2> QED  BY <2>2, <2>3, <2>4, <2>5 DEF DefIs
<1>4. \A d \in L : (NotBrought(a, d) => NotBrought(b, d)) /\ (UsesCache(b, d) => UsesCache(a, d))
  BY <1>2 DEF NotBrought, UsesCache
<1>5. ASSUME NEW r \in Evaluated, Has(b, CacheName(r)) PROVE CacheName(r) \in names
  <2>1. CASE CacheName(r) \in DOMAIN a.relations
    BY <2>1 DEF SpecsAre, Has
  <2>2. CASE CacheName(r) \notin DOMAIN a.relations
    <3>1. CacheName(r) \in DOMAIN b.relations /\ CacheName(r) \notin Evaluated
      BY <1>5, NameAssumption DEF Has
    <3>2. PICK d \in L : UsesCache(a, d) /\ CacheName(r) \in CacheNames(d.relationName)
      BY <2>2, <3>1
    <3> QED  BY <3>2 DEF SpecsAre
  <2> QED  BY <2>1, <2>2
<1> QED  BY <1>3, <1>4, <1>5 DEF SpecsAre

-----------------------------------------------------------------------------
(***************************************************************************)
(* Views that are read twice become tables.                                *)
(***************************************************************************)
LEMMA SetToSeqIs ==
  ASSUME NEW S, IsFiniteSet(S)
  PROVE  SetToSeq(S) \in Seq(S)
<1> DEFINE c == Cardinality(S)
<1>1. c \in Nat /\ ExistsBijection(1..c, S)
  BY FS_CardinalityType
<1>2. PICK f : f \in Bijection(1..c, S)
  BY <1>1 DEF ExistsBijection
<1>3. f \in [1..c -> S] /\ \A x, y \in 1..c : f[x] = f[y] => x = y
  BY <1>2 DEF Bijection, Injection, IsInjective
<1>4. IsInjective(f)
  BY <1>3 DEF IsInjective
<1>5. SetToSeq(S) \in [1..c -> S]
  BY <1>3, <1>4 DEF SetToSeq
<1> QED  BY <1>1, <1>5

LEMMA MaterializeIs ==
  ASSUME NEW spec \in Seq(DefSet)
  PROVE  /\ Materialize(spec) \in Seq(DefSet) /\ Len(Materialize(spec)) = Len(spec)
         /\ \A i \in 1..Len(spec) :
              \/ Materialize(spec)[i] = spec[i]
              \/ Materialize(spec)[i] = SqlTable(spec[i].rName, FALSE, FALSE) /\ spec[i].relationType = "View"
<1> DEFINE m == Materialize(spec)
           n == Len(spec)
<1>1. n \in Nat /\ DOMAIN spec = 1..n /\ \A i \in 1..n : spec[i] \in DefSet
  OBVIOUS
<1>2. /\ m = [i \in DOMAIN spec |-> m[i]]
      /\ \A i \in DOMAIN spec : \/ m[i] = spec[i]
                                \/ m[i] = SqlTable(spec[i].rName, FALSE, FALSE) /\ spec[i].relationType = "View"
  <2> DEFINE views == SelectSeq(spec, LAMBDA s : s.relationType = "View")
             names == [i \in DOMAIN views |-> views[i].rName]
             reads == [r \in ToSet(names) |-> views[IndexFirstSubSeq(<<r>>, names)].reads]
             tree  == AddDependencies(EmptyTree, names, reads, {})
             many(s) == Len(tree.node[s.rName].isDependedBy) > 1
  <2>1. m = [i \in DOMAIN spec |-> IF spec[i].relationType = "View" /\ many(spec[i])
                                   THEN SqlTable(spec[i].rName, FALSE, FALSE) ELSE spec[i]]
    BY Zenon DEF Materialize
  <2> HIDE DEF many, m
  <2> QED  BY <2>1
<1> HIDE DEF m
<1>3. ASSUME NEW i \in 1..n PROVE m[i] \in DefSet
  <2>1. spec[i].rName \in AllNames
    BY <1>1 DEF DefSet
  <2>2. SqlTable(spec[i].rName, FALSE, FALSE) \in DefSet
    BY <2>1, SqlIn
  <2> QED  BY <2>2, <1>1, <1>2
<1>4. m \in [1..n -> DefSet]
  BY <1>1, <1>2, <1>3
<1>5. m \in Seq(DefSet) /\ Len(m) = n
  BY <1>1, <1>4
<1> QED  BY <1>1, <1>2, <1>5 DEF m

MaterializedAll(specs) == [db \in DOMAIN specs |-> Materialize(specs[db])]

LEMMA SpecsMaterialized ==
  ASSUME NEW a, NEW place, NEW L, NEW specs, SpecsAre(a, place, L, specs)
  PROVE  SpecsAre(a, place, L, MaterializedAll(specs))
<1> DEFINE m == MaterializedAll(specs)
<1>1. /\ LocalDbId \in DOMAIN specs /\ DOMAIN specs \subseteq Db
      /\ \A db \in DOMAIN specs : specs[db] \in Seq(DefSet)
  BY SpecSetIs DEF SpecsAre
<1>2. DOMAIN m = DOMAIN specs /\ \A db \in DOMAIN specs : m[db] = Materialize(specs[db])
  BY DEF MaterializedAll
<1>3. m = [db \in DOMAIN m |-> m[db]]
  BY DEF MaterializedAll
<1> HIDE DEF m
<1>4. ASSUME NEW db \in DOMAIN specs
      PROVE  /\ m[db] \in Seq(DefSet) /\ DefinedIn(m, db) = DefinedIn(specs, db)
             /\ \A x \in ToSet(m[db]) : \E s \in ToSet(specs[db]) :
                  x = s \/ (x = SqlTable(s.rName, FALSE, FALSE) /\ s.relationType = "View")
  <2> DEFINE l == specs[db]
             k == m[db]
             n == Len(l)
  <2>1. l \in Seq(DefSet)
    BY <1>1
  <2>2. /\ k \in Seq(DefSet) /\ Len(k) = n
        /\ \A i \in 1..n : k[i] = l[i] \/ (k[i] = SqlTable(l[i].rName, FALSE, FALSE) /\ l[i].relationType = "View")
    <3> HIDE DEF l
    <3>1. k = Materialize(l)
      BY <1>2 DEF l
    <3> HIDE DEF k
    <3> QED  BY <2>1, <3>1, MaterializeIs
  <2> HIDE DEF l, k
  <2>3. /\ ToSet(l) = {l[i] : i \in 1..n} /\ ToSet(k) = {k[i] : i \in 1..n}
    BY <2>1, <2>2 DEF ToSet
  <2>4. \A i \in 1..n : k[i].rName = l[i].rName
    <3>1. \A r : SqlTable(r, FALSE, FALSE).rName = r
      BY DEF SqlTable
    <3> QED  BY <2>2, <3>1
  <2>5. {s.rName : s \in ToSet(k)} = {s.rName : s \in ToSet(l)}
    BY <2>3, <2>4
  <2>6. \A x \in ToSet(k) : \E s \in ToSet(l) :
          x = s \/ (x = SqlTable(s.rName, FALSE, FALSE) /\ s.relationType = "View")
    BY <2>2, <2>3
  <2> QED  BY <2>2, <2>5, <2>6 DEF l, k, DefinedIn
<1>5. m \in SpecSet
  BY <1>1, <1>2, <1>3, <1>4, IntoSpecSet
<1>6. LocalNames(m) = LocalNames(specs)
  BY <1>1, <1>4 DEF LocalNames
<1> DEFINE names == LocalNames(specs)
<1>7. ASSUME NEW db \in DOMAIN m, NEW x \in ToSet(m[db])
      PROVE  DefIs(a, place, L, names, db, x)
  <2>1. PICK s \in ToSet(specs[db]) :
          x = s \/ (x = SqlTable(s.rName, FALSE, FALSE) /\ s.relationType = "View")
    BY <1>2, <1>4
  <2>2. DefIs(a, place, L, names, db, s)
    BY <1>2 DEF SpecsAre
  <2>3. CASE x = SqlTable(s.rName, FALSE, FALSE) /\ s.relationType = "View"
    <3>1. x.rName = s.rName /\ x.reads = <<>>
      BY <2>3 DEF SqlTable
    <3>2. \A r, b, c : s # SqlTable(r, b, c)
      BY <2>3 DEF SqlTable
    <3> HIDE DEF names
    <3>3. IsNamed(a, x)
      BY <2>2, <3>1 DEF DefIs, IsNamed
    <3>4. IsFilled(a, L, db, x)
      BY <2>2, <2>3, <3>1 DEF DefIs, IsFilled
    <3>5. IsReadable(a, place, L, names, db, x)
      BY <3>1 DEF IsReadable
    <3>6. IsAnswered(a, place, db, x)
      BY <2>2, <3>1, <3>2 DEF DefIs, IsAnswered
    <3> QED  BY <3>3, <3>4, <3>5, <3>6 DEF DefIs
  <2> QED  BY <2>1, <2>2, <2>3
<1>8. \A d \in L : \/ NotBrought(a, d)
                   \/ d.to \in DOMAIN m /\ d.relationName \in DefinedIn(m, d.to)
  BY <1>2, <1>4 DEF SpecsAre
<1>9. /\ \A d \in L : UsesCache(a, d) => CacheNames(d.relationName) \subseteq LocalNames(m)
      /\ \A r \in Evaluated : Has(a, CacheName(r)) => CacheName(r) \in LocalNames(m)
  BY <1>6 DEF SpecsAre
<1>10. \A db \in DOMAIN m : \A x \in ToSet(m[db]) : DefIs(a, place, L, LocalNames(m), db, x)
  BY <1>6, <1>7
<1>11. SpecsAre(a, place, L, m)
  BY <1>5, <1>8, <1>9, <1>10 DEF SpecsAre
<1> QED  BY <1>11 DEF m

-----------------------------------------------------------------------------
\* What GetSqlAstSpecsFromDistribution makes of the definitions of specs.
WithUnused(specs, a, list) ==
  [specs EXCEPT ![LocalDbId] = AddUnusedTables(@, a, list)]

HasTablesMore(a, spec, k) ==
  /\ k \in Seq(DefSet) /\ ToSet(spec) \subseteq ToSet(k)
  /\ \A s \in ToSet(k) : \/ s \in ToSet(spec)
                          \/ \E r \in OfType(a, {"Table"}) : s = SqlTable(r, FALSE, FALSE)

LEMMA UnusedIs ==
  ASSUME NEW a, Sound(a), IsFiniteSet(DOMAIN a.relations), NEW spec \in Seq(DefSet), NEW list
  PROVE  HasTablesMore(a, spec, AddUnusedTables(spec, a, list))
<1> DEFINE S      == {r \in OfType(a, {"Table"}) :
                        /\ \A i \in DOMAIN list : list[i].relationName # r
                        /\ \A i \in DOMAIN spec : spec[i].rName # r}
           unused == SetToSeq(S)
           more   == [i \in DOMAIN unused |-> SqlTable(unused[i], FALSE, FALSE)]
<1>1. S \subseteq OfType(a, {"Table"}) /\ OfType(a, {"Table"}) \subseteq DOMAIN a.relations
      /\ DOMAIN a.relations \subseteq AllNames
  BY DEF OfType, Sound
<1>2. AddUnusedTables(spec, a, list) = spec \o more
  BY DEF AddUnusedTables
<1> HIDE DEF S
<1>3. IsFiniteSet(S)
  BY <1>1, FS_Subset
<1>4. unused \in Seq(S)
  BY <1>3, SetToSeqIs
<1> HIDE DEF unused
<1>5. DOMAIN unused = 1..Len(unused) /\ Len(unused) \in Nat /\ \A i \in 1..Len(unused) : unused[i] \in S
  BY <1>4
<1>6. \A i \in 1..Len(unused) : more[i] \in DefSet /\ more[i] = SqlTable(unused[i], FALSE, FALSE)
  BY <1>1, <1>5, SqlIn
<1>7. more \in Seq(DefSet) /\ DOMAIN more = 1..Len(unused)
  <2>1. DOMAIN more = 1..Len(unused) /\ more = [i \in 1..Len(unused) |-> more[i]]
    BY <1>5
  <2> HIDE DEF more
  <2>2. more \in [1..Len(unused) -> DefSet]
    BY <2>1, <1>6
  <2> QED  BY <2>1, <2>2, <1>5
<1>8. \A s \in ToSet(more) : \E r \in OfType(a, {"Table"}) : s = SqlTable(r, FALSE, FALSE)
  BY <1>1, <1>5, <1>6, <1>7 DEF ToSet
<1> HIDE DEF more
<1>9. spec \o more \in Seq(DefSet) /\ ToSet(spec \o more) = ToSet(spec) \cup ToSet(more)
  BY <1>7, ToSetOfJoin
<1> QED  BY <1>2, <1>8, <1>9 DEF HasTablesMore

LEMMA SpecsWithUnused ==
  ASSUME NEW a, Sound(a), IsFiniteSet(DOMAIN a.relations), DOMAIN a.relations \subseteq Evaluated,
         NEW place, NEW L, NEW specs, SpecsAre(a, place, L, specs), NEW list
  PROVE  SpecsAre(a, place, L, WithUnused(specs, a, list))
<1> DEFINE m    == WithUnused(specs, a, list)
           l    == specs[LocalDbId]
           k    == AddUnusedTables(l, a, list)
<1>1. /\ LocalDbId \in DOMAIN specs /\ DOMAIN specs \subseteq Db
      /\ \A db \in DOMAIN specs : specs[db] \in Seq(DefSet)
      /\ specs = [db \in DOMAIN specs |-> specs[db]]
  BY SpecSetIs DEF SpecsAre
<1>2. l \in Seq(DefSet)
  BY <1>1
<1>3. /\ k \in Seq(DefSet) /\ ToSet(l) \subseteq ToSet(k)
      /\ \A s \in ToSet(k) : s \in ToSet(l) \/ \E r \in OfType(a, {"Table"}) : s = SqlTable(r, FALSE, FALSE)
  <2>1. HasTablesMore(a, l, k)
    <3> HIDE DEF l
    <3> QED  BY <1>2, UnusedIs
  <2> QED  BY <2>1 DEF HasTablesMore
<1>4. m = [db \in DOMAIN specs |-> IF db = LocalDbId THEN k ELSE specs[db]]
  BY <1>1 DEF WithUnused
<1> HIDE DEF k, m
<1>5. /\ DOMAIN m = DOMAIN specs /\ m[LocalDbId] = k
      /\ \A db \in DOMAIN specs \ {LocalDbId} : m[db] = specs[db]
  BY <1>1, <1>4
<1>6. m = [db \in DOMAIN m |-> m[db]]
  BY <1>4
<1>7. m \in SpecSet
  BY <1>1, <1>3, <1>5, <1>6, IntoSpecSet
<1>8. \A db \in DOMAIN specs : DefinedIn(specs, db) \subseteq DefinedIn(m, db)
  BY <1>1, <1>3, <1>5 DEF DefinedIn
<1>9. LocalNames(specs) \subseteq LocalNames(m)
  BY <1>1, <1>8 DEF LocalNames
<1> DEFINE names == LocalNames(m)
<1>10. ASSUME NEW db \in DOMAIN m, NEW x \in ToSet(m[db])
       PROVE  DefIs(a, place, L, names, db, x)
  <2>1. CASE x \in ToSet(specs[db])
    <3>1. DefIs(a, place, L, LocalNames(specs), db, x)
      BY <2>1, <1>5 DEF SpecsAre
    <3>2. LocalNames(specs) \subseteq names /\ L \subseteq L
      BY <1>9
    <3> HIDE DEF names
    <3> QED  BY <3>1, <3>2, DefGrows
  <2>2. CASE x \notin ToSet(specs[db])
    <3>1. db = LocalDbId /\ x \in ToSet(k)
      BY <2>2, <1>5
    <3>2. PICK r \in OfType(a, {"Table"}) : x = SqlTable(r, FALSE, FALSE)
      BY <2>2, <3>1, <1>3
    <3>3. x.rName = r /\ x.reads = <<>> /\ r \in DOMAIN a.relations /\ r \in Evaluated
          /\ r \notin OfType(a, {"EventView"})
      BY <3>2 DEF SqlTable, OfType
    <3>4. \A q \in Evaluated : CacheName(q) # r
      BY <3>3, NameAssumption
    <3> HIDE DEF names
    <3>5. IsNamed(a, x) /\ IsFilled(a, L, db, x) /\ IsReadable(a, place, L, names, db, x)
      BY <3>1, <3>3 DEF IsNamed, IsFilled, IsReadable
    <3>6. IsAnswered(a, place, db, x)
      BY <3>3, <3>4 DEF IsAnswered
    <3> QED  BY <3>5, <3>6 DEF DefIs
  <2> QED  BY <2>1, <2>2
<1>11. \A d \in L : \/ NotBrought(a, d)
                    \/ d.to \in DOMAIN m /\ d.relationName \in DefinedIn(m, d.to)
  BY <1>5, <1>8 DEF SpecsAre
<1>12. /\ \A d \in L : UsesCache(a, d) => CacheNames(d.relationName) \subseteq names
       /\ \A r \in Evaluated : Has(a, CacheName(r)) => CacheName(r) \in names
  <2> HIDE DEF names
  <2>1. LocalNames(specs) \subseteq names
    BY <1>9 DEF names
  <2> QED  BY <2>1 DEF SpecsAre
<1>13. SpecsAre(a, place, L, m)
  BY <1>7, <1>10, <1>11, <1>12 DEF SpecsAre
<1> QED  BY <1>13 DEF m

NoSpecs == [db \in {LocalDbId} |-> <<>>]

LEMMA NoSpecsAre ==
  ASSUME NEW a, DOMAIN a.relations \subseteq Evaluated, NEW place
  PROVE  SpecsAre(a, place, {}, NoSpecs)
<1>1. DOMAIN NoSpecs = {LocalDbId} /\ NoSpecs[LocalDbId] = <<>> /\ NoSpecs = [db \in DOMAIN NoSpecs |-> NoSpecs[db]]
  BY DEF NoSpecs
<1>2. <<>> \in Seq(DefSet) /\ ToSet(<<>>) = {}
  BY NoneIs
<1>3. NoSpecs \in SpecSet
  BY <1>1, <1>2, PlanAssumption, IntoSpecSet
<1>4. \A r \in Evaluated : ~Has(a, CacheName(r))
  BY NameAssumption DEF Has
<1> QED  BY <1>1, <1>2, <1>3, <1>4 DEF SpecsAre

\* The definitions that the constructor makes of the plan.
SpecsOf(a, list) == MaterializedAll(WithUnused(AddNewRelations(NoSpecs, a, list), a, list))

LEMMA SpecsOfAre ==
  ASSUME NEW a, NEW n, NEW rank, NEW place, IsProgram(a, n, rank, place), OutputsLocal(a, place),
         IsFiniteSet(DOMAIN a.relations), DOMAIN a.relations \subseteq Evaluated,
         NEW list, IsList(a, place, list)
  PROVE  SpecsAre(a, place, ToSet(list), SpecsOf(a, list))
<1> DEFINE s == AddNewRelations(NoSpecs, a, list)
           t == WithUnused(s, a, list)
<1>1. SpecsAre(a, place, {}, NoSpecs)
  BY NoSpecsAre
<1>2. SpecsAre(a, place, {} \cup ToSet(list), s)
  BY <1>1, AddNewRelationsAre
<1>3. {} \cup ToSet(list) = ToSet(list) /\ Sound(a)
  BY DEF IsProgram
<1>4. SpecsAre(a, place, ToSet(list), s)
  BY <1>2, <1>3
<1> HIDE DEF s
<1>5. SpecsAre(a, place, ToSet(list), t)
  BY <1>3, <1>4, SpecsWithUnused
<1> HIDE DEF t
<1>6. SpecsAre(a, place, ToSet(list), MaterializedAll(t))
  BY <1>5, SpecsMaterialized
<1> QED  BY <1>6 DEF SpecsOf, s, t

-----------------------------------------------------------------------------
(***************************************************************************)
(* The outputs that are still to be planned.                               *)
(***************************************************************************)
LEMMA TailIs ==
  ASSUME NEW X, NEW q \in Seq(X), q # <<>>, Distinct(q)
  PROVE  /\ Head(q) \in ToSet(q) /\ Head(q) \in X /\ Tail(q) \in Seq(X) /\ Distinct(Tail(q))
         /\ ToSet(q) = ToSet(Tail(q)) \cup {Head(q)} /\ Head(q) \notin ToSet(Tail(q))
<1> DEFINE t == Tail(q)
           h == Head(q)
<1>1. /\ h \in X /\ t \in Seq(X) /\ h = q[1] /\ 1 \in DOMAIN q
      /\ \A i \in DOMAIN t : i + 1 \in DOMAIN q /\ t[i] = q[i + 1]
      /\ \A i \in DOMAIN q : i # 1 => i - 1 \in DOMAIN t /\ t[i - 1] = q[i]
  BY HeadAndTail
<1>2. \A i \in DOMAIN t : i \in Nat /\ i + 1 # 1
  BY <1>1
<1> HIDE DEF t, h
<1>3. Distinct(t)
  <2>1. ASSUME NEW i \in DOMAIN t, NEW j \in DOMAIN t, t[i] = t[j] PROVE i = j
    <3>1. i + 1 = j + 1
      BY <2>1, <1>1 DEF Distinct
    <3> QED  BY <3>1, <1>2
  <2> QED  BY <2>1 DEF Distinct
<1>4. h \in ToSet(q) /\ ToSet(t) \subseteq ToSet(q) /\ ToSet(q) \subseteq ToSet(t) \cup {h}
  <2>1. h \in ToSet(q)
    BY <1>1 DEF ToSet
  <2>2. ToSet(t) \subseteq ToSet(q)
    BY <1>1 DEF ToSet
  <2>3. ASSUME NEW i \in DOMAIN q PROVE q[i] \in ToSet(t) \cup {h}
    <3>1. i # 1 => i - 1 \in DOMAIN t /\ t[i - 1] = q[i]
      BY <1>1
    <3> QED  BY <3>1, <1>1 DEF ToSet
  <2>4. ToSet(q) \subseteq ToSet(t) \cup {h}
    BY <2>3 DEF ToSet
  <2> QED  BY <2>1, <2>2, <2>4
<1>5. h \notin ToSet(t)
  BY <1>1, <1>2 DEF ToSet, Distinct
<1> QED  BY <1>1, <1>3, <1>4, <1>5 DEF t, h

\* An output is never the internal error: its own distribution is found.
LEMMA OutputIsOk ==
  ASSUME NEW a, NEW n, NEW rank, NEW place, IsProgram(a, n, rank, place),
         NEW aug, NEW m, AugmentedBy(a, aug, m), NEW o \in DOMAIN aug, TypeOf(a, o) = "Output"
  PROVE  DistributedEvalForOutput(a, aug, o).ok
<1> DEFINE rk     == Through(aug, m, rank)
           pl     == Through(aug, m, place)
           result == QueryDistributionRecursiveEval(a, aug, o, o)
           self   == \E i \in DOMAIN result.list : result.list[i].relationName = o
<1>1. Setting(a, aug, n, rk, pl) /\ n \in Nat
  BY SettingIs DEF IsProgram
<1>2. o \in AllNames
  BY DEF AugmentedBy, IsProgram, Sound
<1> HIDE DEF rk, pl
<1>3. Found(a, aug, pl, o, o, result)
  BY <1>1, <1>2, EvaluationIs
<1>4. pl[o].fromDbId \in Db
  BY <1>1 DEF Setting, Places
<1> HIDE DEF result
<1>5. o \in MadeOf(aug, o)
  BY DEF MadeOf
<1>6. OwnOf(pl, o, o) \in ToSet(result.list)
  <2>1. OwnOf(pl, o, o) \in Needs(a, aug, pl, o, o)
    BY DEF Needs
  <2> QED  BY <2>1, <1>3, <1>5 DEF Found, NeededBy
<1>7. self
  BY <1>6 DEF ToSet, OwnOf, Distribution
<1>8. result.fromDbId # NoDb
  BY <1>3, <1>4, PlanAssumption DEF Found
<1>9. SplitIfRemote(a, o, result).ok
  <2>1. self = TRUE
    BY <1>7
  <2> HIDE DEF self
  <2>2. result.fromDbId = LocalDbId => SplitIfRemote(a, o, result).ok
    BY <1>8 DEF SplitIfRemote
  <2>3. result.fromDbId # LocalDbId => SplitIfRemote(a, o, result).ok = self
    BY <1>8 DEF SplitIfRemote, self
  <2> QED  BY <2>1, <2>2, <2>3
<1> QED  BY <1>9 DEF DistributedEvalForOutput, result

(***************************************************************************)
(* While the plan is made: the outputs to come, and what is known of the   *)
(* tree with the locations, which is the one of the program at first.      *)
(***************************************************************************)
Nows(a, aug) == [x \in DOMAIN aug |-> Now(a, x)]

Planning(a, aug, pend, list) ==
  /\ AugmentedBy(a, aug, Nows(a, aug))
  /\ pend \in Seq(OfType(a, {"Output"})) /\ Distinct(pend)
  /\ ToSet(pend) \subseteq DOMAIN aug \ Splits(a)
  /\ Ordered(a, list)
  /\ DOMAIN a.relations \subseteq Evaluated /\ IsFiniteSet(DOMAIN a.relations)

\* An output is evaluated in the main database, once it has been planned.
OutputsAt(a, place, pend) ==
  \A o \in OfType(a, {"Output"}) : o \in ToSet(pend) \/ place[o].fromDbId = LocalDbId

LEMMA SplitPlanning ==
  ASSUME NEW a, NEW n, NEW rank, NEW place, IsProgram(a, n, rank, place),
         NEW b, NEW n2, NEW rank2, NEW place2, IsProgram(b, n2, rank2, place2),
         NEW o, IsSplitAt(a, place, b, place2, o), TypeOf(a, o) = "Output",
         NEW aug, NEW q, NEW list, Planning(a, aug, q, list), NEW t \in Seq(OfType(a, {"Output"})),
         Distinct(t), ToSet(q) = ToSet(t) \cup {o}, o \notin ToSet(t),
         OutputsAt(a, place, q), NEW new, Ordered(b, new)
  PROVE  Planning(b, aug, t, new) /\ OutputsAt(b, place2, t)
<1> DEFINE A == AsyncView(o)
<1>1. /\ A \notin DOMAIN a.relations /\ o \in DOMAIN a.relations
      /\ DOMAIN b.relations = DOMAIN a.relations \cup {A}
      /\ \A x \in DOMAIN a.relations \ {o} : b.relations[x] = a.relations[x] /\ place2[x] = place[x]
      /\ TypeOf(b, o) = "Output" /\ RefsOf(b, o) = <<A, A>>
      /\ TypeOf(b, A) = "EventView" /\ RefsOf(b, A) = RefsOf(a, o)
      /\ place2[o].fromDbId = LocalDbId /\ Splits(b) = Splits(a) \cup {o}
  BY DEF IsSplitAt
<1>2. /\ \A x \in DOMAIN aug : /\ x \in DOMAIN a.relations /\ aug[x].remoteId = RemoteId(a, x)
                               /\ aug[x].dependsOn = RefsOf(a, Now(a, x))
                               /\ ToSet(aug[x].dependsOn) \subseteq DOMAIN aug
      /\ ToSet(q) \subseteq DOMAIN aug \ Splits(a)
      /\ DOMAIN a.relations \subseteq Evaluated /\ IsFiniteSet(DOMAIN a.relations)
  BY DEF Planning, AugmentedBy, Nows
<1>3. o \notin Splits(a) /\ Now(a, o) = o /\ Now(b, o) = A /\ o \in DOMAIN aug
  BY <1>1, <1>2 DEF Now
<1>4. o \in ProgramNames
  <2>1. o \in OfType(a, {"Output"})
    BY <1>1 DEF OfType
  <2> QED  BY <2>1 DEF IsProgram, Sound
<1>5. \A x \in DOMAIN a.relations \ {o} :
        /\ TypeOf(b, x) = TypeOf(a, x) /\ RefsOf(b, x) = RefsOf(a, x) /\ RemoteId(b, x) = RemoteId(a, x)
        /\ Now(b, x) = Now(a, x)
  <2>1. \A x \in DOMAIN a.relations \ {o} : TypeOf(b, x) = TypeOf(a, x) /\ RefsOf(b, x) = RefsOf(a, x)
    BY <1>1 DEF TypeOf, RefsOf, GetRelationDef
  <2>2. \A x \in DOMAIN a.relations \ {o} : RemoteId(b, x) = RemoteId(a, x)
    BY <2>1 DEF RemoteId
  <2> QED  BY <2>1, <2>2, <1>1 DEF Now
<1>6. RemoteId(b, o) = RemoteId(a, o)
  BY <1>1 DEF RemoteId
<1>7. \A x \in DOMAIN aug : Now(a, x) # o \/ x = o
  <2>1. \A x \in Splits(a) : x \in ProgramNames /\ AsyncView(x) # o
    BY <1>4, NameAssumption DEF IsProgram, Sound, Splits
  <2> QED  BY <2>1 DEF Now
<1>8. ASSUME NEW x \in DOMAIN aug
      PROVE  aug[x].remoteId = RemoteId(b, x) /\ aug[x].dependsOn = RefsOf(b, Now(b, x))
  <2>1. CASE x = o
    BY <2>1, <1>1, <1>2, <1>3, <1>6
  <2>2. CASE x # o
    <3>1. Now(b, x) = Now(a, x) /\ Now(a, x) # o /\ Now(a, x) \in DOMAIN a.relations /\ RemoteId(b, x) = RemoteId(a, x)
      BY <2>2, <1>2, <1>5, <1>7, NowIn
    <3> QED  BY <3>1, <1>2, <1>5
  <2> QED  BY <2>1, <2>2
<1>9. AugmentedBy(b, aug, Nows(b, aug))
  BY <1>1, <1>2, <1>8 DEF AugmentedBy, Nows
<1>10. OfType(b, {"Output"}) = OfType(a, {"Output"})
  BY <1>1, <1>5 DEF OfType
<1>11. ToSet(t) \subseteq DOMAIN aug \ Splits(b)
  BY <1>1, <1>2
<1>12. DOMAIN b.relations \subseteq Evaluated
  BY <1>1, <1>2, <1>4 DEF Evaluated
<1>13. IsFiniteSet(DOMAIN b.relations)
  BY <1>1, <1>2, FS_AddElement
<1>14. Planning(b, aug, t, new)
  BY <1>9, <1>10, <1>11, <1>12, <1>13 DEF Planning
<1>15. OutputsAt(b, place2, t)
  <2>1. ASSUME NEW p \in OfType(b, {"Output"}) PROVE p \in ToSet(t) \/ place2[p].fromDbId = LocalDbId
    <3>1. p \in OfType(a, {"Output"}) /\ p \in DOMAIN a.relations
      BY <1>10 DEF OfType
    <3>2. CASE p = o
      BY <3>2, <1>1
    <3>3. CASE p # o
      BY <3>1, <3>3, <1>1 DEF OutputsAt
    <3> QED  BY <3>2, <3>3
  <2> QED  BY <2>1 DEF OutputsAt
<1> QED  BY <1>14, <1>15

-----------------------------------------------------------------------------
(***************************************************************************)
(* One output after the other is planned.                                  *)
(***************************************************************************)
LEMMA IsPlannedIs ==
  ASSUME NEW a, NEW n, NEW rank, NEW place, IsProgram(a, n, rank, place),
         NEW aug, NEW q, NEW list, Planned(a, place, list), Planning(a, aug, q, list),
         OutputsAt(a, place, q), Ledger(a, place, list, ToSet(q)), q # <<>>
  PROVE  LET eval == DistributedEvalForOutput(a, aug, Head(q))
         IN  \E n2, rank2, place2 :
               /\ IsProgram(eval.ast, n2, rank2, place2) /\ Planned(eval.ast, place2, eval.new \o list)
               /\ Planning(eval.ast, aug, Tail(q), eval.new \o list)
               /\ OutputsAt(eval.ast, place2, Tail(q))
               /\ Ledger(eval.ast, place2, eval.new \o list, ToSet(Tail(q)))
<1> DEFINE o    == Head(q)
           t    == Tail(q)
           eval == DistributedEvalForOutput(a, aug, o)
           b    == eval.ast
           new  == eval.new
           O    == OfType(a, {"Output"})
<1>1. /\ AugmentedBy(a, aug, Nows(a, aug)) /\ q \in Seq(O) /\ Distinct(q)
      /\ ToSet(q) \subseteq DOMAIN aug \ Splits(a) /\ Ordered(a, list)
      /\ DOMAIN a.relations \subseteq Evaluated /\ IsFiniteSet(DOMAIN a.relations)
  BY DEF Planning
<1>2. /\ o \in ToSet(q) /\ o \in O /\ t \in Seq(O) /\ Distinct(t)
      /\ ToSet(q) = ToSet(t) \cup {o} /\ o \notin ToSet(t)
  <2> HIDE DEF O
  <2> QED  BY <1>1, TailIs
<1> HIDE DEF o, t
<1>3. /\ o \in DOMAIN aug /\ TypeOf(a, o) = "Output" /\ o \in DOMAIN a.relations
      /\ o \in ProgramNames /\ o \in Derived(a) /\ AsyncView(o) \notin DOMAIN a.relations
  <2>1. o \in DOMAIN a.relations /\ TypeOf(a, o) = "Output" /\ o \in Derived(a)
    BY <1>2 DEF OfType, Derived
  <2>2. o \in ProgramNames
    BY <1>2 DEF IsProgram, Sound
  <2>3. o \notin Splits(a) /\ o \in DOMAIN aug
    BY <1>1, <1>2
  <2> QED  BY <1>2, <2>1, <2>2, <2>3 DEF Splits, Has
<1>4. eval.ok
  BY <1>1, <1>3, OutputIsOk
<1> HIDE DEF eval
<1>5. PICK n2, rank2, place2 : IsPlanned(a, place, list, eval, o, n2, rank2, place2)
  BY <1>1, <1>3, <1>4, EvalStep DEF eval
<1>6. /\ IsProgram(b, n2, rank2, place2) /\ new \in Seq(DistributionSet)
      /\ Planned(b, place2, new \o list) /\ Ordered(b, new) /\ Ordered(b, list)
  BY <1>1, <1>5 DEF IsPlanned
<1>7. list \in Seq(DistributionSet)
  BY DEF Planned
<1>8. Ordered(b, new \o list)
  <2> HIDE DEF b, new
  <2> QED  BY <1>6, <1>7, OrderedJoin
<1>9. Ledger(b, place2, new \o list, ToSet(t))
  <2>1. ToSet(t) = ToSet(q) \ {o}
    BY <1>2
  <2>2. Ledger(b, place2, new \o list, ToSet(q) \ {o})
    BY <1>1, <1>2, <1>3, <1>4, <1>5, <1>7, LedgerPlans DEF eval
  <2> QED  BY <2>1, <2>2
<1>10. CASE b = a /\ place2 = place /\ place[o].fromDbId = LocalDbId
  <2>1. ToSet(t) \subseteq DOMAIN aug \ Splits(a)
    BY <1>1, <1>2
  <2>2. Planning(b, aug, t, new \o list)
    BY <2>1, <1>1, <1>2, <1>8, <1>10 DEF Planning
  <2>3. OutputsAt(b, place2, t)
    BY <1>2, <1>10 DEF OutputsAt
  <2> QED  BY <2>2, <2>3, <1>6, <1>9 DEF eval, o, t
<1>11. CASE IsSplitAt(a, place, b, place2, o)
  <2>1. Planning(b, aug, t, new \o list) /\ OutputsAt(b, place2, t)
    <3> DEFINE all == new \o list
    <3>1. Ordered(b, all)
      BY <1>8
    <3> HIDE DEF b, all, O
    <3>2. Planning(b, aug, t, all) /\ OutputsAt(b, place2, t)
      BY <3>1, <1>2, <1>3, <1>6, <1>11, SplitPlanning DEF O
    <3> QED  BY <3>2 DEF all
  <2> QED  BY <2>1, <1>6, <1>9 DEF eval, o, t
<1> QED  BY <1>5, <1>10, <1>11 DEF IsPlanned

\* The start: no output has been planned.
LEMMA StartIs ==
  ASSUME NEW program \in Programs
  PROVE  \E n, rank, place :
           /\ IsProgram(Compiled(program), n, rank, place) /\ Planned(Compiled(program), place, <<>>)
           /\ Planning(Compiled(program), AugmentDepTree(Compiled(program)), GetAllOutputs(program), <<>>)
           /\ OutputsAt(Compiled(program), place, GetAllOutputs(program))
           /\ Ledger(Compiled(program), place, <<>>, ToSet(GetAllOutputs(program)))
<1> DEFINE a   == Compiled(program)
           aug == AugmentDepTree(a)
           q   == GetAllOutputs(program)
           O   == OfType(a, {"Output"})
<1>1. a \in CompiledTo(program, Len(program))
  BY CompiledIs
<1>2. q \in Seq(ProgramNames) /\ Distinct(q) /\ ToSet(q) = O
  BY OutputsOfProgram
<1> HIDE DEF a, q
<1>3. PICK n, rank, place : IsUnsplit(a, n, rank, place)
  BY <1>1 DEF CompiledTo
<1>4. IsProgram(a, n, rank, place) /\ Splits(a) = {} /\ DOMAIN a.relations = NamesTo(program, Len(program))
  BY <1>1, <1>3 DEF IsUnsplit, CompiledTo
<1>5. AugmentedBy(a, aug, [x \in DOMAIN aug |-> x]) /\ Derived(a) \subseteq DOMAIN aug
  BY <1>4, AugmentIs
<1> HIDE DEF aug
<1>6. AugmentedBy(a, aug, Nows(a, aug))
  <2>1. \A x : Now(a, x) = x
    BY <1>4 DEF Now
  <2>2. Nows(a, aug) = [x \in DOMAIN aug |-> x]
    BY <2>1 DEF Nows
  <2> QED  BY <1>5, <2>2
<1>7. q \in Seq(O)
  <2>1. \A i \in DOMAIN q : q[i] \in O
    BY <1>2 DEF ToSet
  <2>2. DOMAIN q = 1..Len(q) /\ Len(q) \in Nat /\ q = [i \in 1..Len(q) |-> q[i]]
    BY <1>2
  <2>3. q \in [1..Len(q) -> O]
    BY <2>1, <2>2
  <2> QED  BY <2>2, <2>3
<1>8. ToSet(q) \subseteq DOMAIN aug \ Splits(a)
  BY <1>2, <1>4, <1>5 DEF Derived, OfType
<1>9. program \in Seq(Definition)
  BY ProgramAssumption
<1>10. DOMAIN a.relations \subseteq Evaluated
  <2>1. \A i \in 1..Len(program) : program[i].rName \in ProgramNames
    <3>1. \A i \in 1..Len(program) : program[i] \in Definition
      BY <1>9
    <3> QED  BY <3>1 DEF Definition
  <2> QED  BY <2>1, <1>4 DEF NamesTo, ProgramNames, Evaluated
<1>11. IsFiniteSet(DOMAIN a.relations)
  <2> DEFINE I == 1..Len(program)
             N == {program[i].rName : i \in I}
             f == [i \in I |-> program[i].rName]
  <2>1. IsFiniteSet(I)
    BY <1>9, FS_Interval
  <2>2. f \in Surjection(I, N)
    BY DEF Surjection
  <2>3. IsFiniteSet(N)
    BY <2>1, <2>2, FS_Surjection DEF ExistsSurjection
  <2>4. IsFiniteSet(TableNames)
    <3>1. TableNames = DOMAIN RelationLocation \cup EventTable \cup Table
      BY DEF TableNames
    <3> QED  BY <3>1, PlanAssumption
  <2>5. IsFiniteSet(TableNames \cup N)
    BY <2>3, <2>4, FS_Union
  <2> QED  BY <2>5, <1>4 DEF NamesTo
<1>12. ToSet(<<>>) = {} /\ <<>> \in Seq(DistributionSet) /\ DOMAIN <<>> = {}
  BY NoneIs
<1>13. Ordered(a, <<>>)
  BY <1>12 DEF Ordered
<1>14. Planned(a, place, <<>>)
  BY <1>4, <1>12 DEF Planned, PlannedSet
<1>15. Planning(a, aug, q, <<>>)
  BY <1>2, <1>6, <1>7, <1>8, <1>10, <1>11, <1>13 DEF Planning
<1>16. OutputsAt(a, place, q)
  BY <1>2 DEF OutputsAt
<1>17. Ledger(a, place, <<>>, ToSet(q))
  BY <1>2, <1>12, <1>13 DEF Ledger
<1> QED  BY <1>4, <1>14, <1>15, <1>16, <1>17 DEF a, aug, q

-----------------------------------------------------------------------------
(***************************************************************************)
(* The program runs: it is planned, and its databases define what the plan *)
(* says.                                                                   *)
(***************************************************************************)
IsRunning(a, n, rank, place, list, specs) ==
  /\ IsProgram(a, n, rank, place) /\ Planned(a, place, list)
  /\ OutputsLocal(a, place) /\ SpecsAre(a, place, ToSet(list), specs)
  /\ Ledger(a, place, list, {})

\* What a list uses of the cache is added to the program.
LEMMA CachesRun ==
  ASSUME NEW a, NEW n, NEW rank, NEW place, NEW list, NEW specs,
         IsRunning(a, n, rank, place, list, specs),
         NEW part \in Seq(DistributionSet), ToSet(part) \subseteq ToSet(list)
  PROVE  \E n2, rank2, place2 : IsRunning(AddCacheTables(a, part), n2, rank2, place2, list, specs)
<1> DEFINE b == AddCacheTables(a, part)
           L == ToSet(list)
<1>1. /\ IsProgram(a, n, rank, place) /\ Planned(a, place, list) /\ Sound(a)
      /\ OutputsLocal(a, place) /\ SpecsAre(a, place, L, specs)
  BY DEF IsRunning, IsProgram
<1>2. \A d \in L : d.relationName \in DOMAIN a.relations /\ d \in DistributionSet
  BY <1>1 DEF Planned, PlannedSet, IsNeeded
<1>3. \A d \in ToSet(part) : d.relationName \in DOMAIN a.relations
  BY <1>2
<1>4. b \in CachedTo(a, place, part, Len(part))
  BY <1>1, <1>3, CachesAre
<1> HIDE DEF b
<1>5. PICK n2, rank2, place2 : Grows(a, place, b, n2, rank2, place2)
  BY <1>4 DEF CachedTo
<1>6. /\ IsProgram(b, n2, rank2, place2) /\ Sound(b) /\ Extends(a, place, b, place2)
      /\ Splits(b) = Splits(a)
  BY <1>5 DEF Grows, IsProgram
<1>7. DOMAIN b.relations = DOMAIN a.relations \cup NamesOfCaches(a, part, Len(part))
  BY <1>4 DEF CachedTo
<1>8. \A x \in DOMAIN b.relations \ DOMAIN a.relations :
        \E d \in L : UsesCache(a, d) /\ x \in CacheNames(d.relationName)
  <2> SUFFICES ASSUME NEW x \in NamesOfCaches(a, part, Len(part))
               PROVE  \E d \in L : UsesCache(a, d) /\ x \in CacheNames(d.relationName)
    BY <1>7
  <2>1. PICK j \in 1..Len(part) : UsesCache(a, part[j]) /\ x \in CacheNames(part[j].relationName)
    BY DEF NamesOfCaches, CachesTo
  <2>2. part[j] \in ToSet(part)
    BY DEF ToSet
  <2> QED  BY <2>1, <2>2
<1>9. \A x \in DOMAIN b.relations \ DOMAIN a.relations : x \notin ProgramNames
  <2> SUFFICES ASSUME NEW x \in DOMAIN b.relations \ DOMAIN a.relations PROVE x \notin ProgramNames
    OBVIOUS
  <2>1. PICK d \in L : UsesCache(a, d) /\ x \in CacheNames(d.relationName)
    BY <1>8
  <2>2. d.relationName \in Evaluated
    BY <2>1, <1>1, <1>2, TypesPlace DEF UsesCache
  <2>3. x \notin Evaluated
    BY <2>1, <2>2, NameAssumption DEF CacheNames
  <2> QED  BY <2>3 DEF Evaluated
<1>10. OutputsLocal(b, place2)
  <2> SUFFICES ASSUME NEW o \in OfType(b, {"Output"}) PROVE place2[o].fromDbId = LocalDbId
    BY DEF OutputsLocal
  <2>1. o \in DOMAIN b.relations /\ o \in ProgramNames
    BY <1>6 DEF OfType, Sound
  <2>2. o \in DOMAIN a.relations
    BY <2>1, <1>9
  <2>3. TypeOf(a, o) = "Output"
    BY <2>2, <1>6 DEF Extends, OfType, TypeOf, GetRelationDef
  <2>4. o \in OfType(a, {"Output"})
    BY <2>2, <2>3 DEF OfType
  <2> QED  BY <2>2, <2>4, <1>1, <1>6 DEF OutputsLocal, Extends
<1>11. Planned(b, place2, list)
  BY <1>1, <1>6, PlannedExtends
<1>12. SpecsAre(b, place2, L, specs)
  <2> HIDE DEF L
  <2> QED  BY <1>1, <1>2, <1>6, <1>8, SpecsExtend
<1>13. Ledger(b, place2, list, {})
  <2>1. OfType(b, {"Output"}) \subseteq DOMAIN a.relations
    <3>1. \A o \in OfType(b, {"Output"}) : o \in DOMAIN b.relations /\ o \in ProgramNames
      BY <1>6 DEF OfType, Sound
    <3> QED  BY <3>1, <1>9
  <2>2. Ledger(a, place, list, {})
    BY DEF IsRunning
  <2> QED  BY <2>1, <2>2, <1>1, <1>6, LedgerExtends
<1> QED  BY <1>6, <1>10, <1>11, <1>12, <1>13 DEF IsRunning, b

\* The constructor has planned the outputs and says what the databases define.
LEMMA SetUpRuns ==
  ASSUME NEW a, NEW n, NEW rank, NEW place, IsProgram(a, n, rank, place),
         NEW list, Planned(a, place, list), NEW aug, Planning(a, aug, <<>>, list),
         OutputsAt(a, place, <<>>), Ledger(a, place, list, {})
  PROVE  \E n2, rank2, place2 :
           IsRunning(AddCacheTables(a, list), n2, rank2, place2, list, SpecsOf(a, list))
<1>1. OutputsLocal(a, place)
  BY NoneIs DEF OutputsAt, OutputsLocal
<1>2. IsList(a, place, list) /\ list \in Seq(DistributionSet)
  BY DEF IsList, Planned, PlannedSet, Planning
<1>3. DOMAIN a.relations \subseteq Evaluated /\ IsFiniteSet(DOMAIN a.relations)
  BY DEF Planning
<1>4. SpecsAre(a, place, ToSet(list), SpecsOf(a, list))
  BY <1>1, <1>2, <1>3, SpecsOfAre
<1>5. IsRunning(a, n, rank, place, list, SpecsOf(a, list))
  BY <1>1, <1>4 DEF IsRunning
<1> QED  BY <1>2, <1>5, CachesRun

Added(a, rel) == Compile(DeleteView(a, rel.rName), rel)

AddedEval(a, rel) == DistributedEvalForOutput(Added(a, rel), AugmentDepTree(Added(a, rel)), rel.rName)

\* A relation whose name is new is compiled.
LEMMA AddedIs ==
  ASSUME NEW a, NEW n, NEW rank, NEW place, IsProgram(a, n, rank, place),
         NEW rel \in Additions, rel.rName \notin DOMAIN a.relations,
         ToSet(Reads(rel)) \subseteq DOMAIN a.relations
  PROVE  /\ \E n2, rank2, place2 : Grows(a, place, Added(a, rel), n2, rank2, place2)
         /\ DOMAIN Added(a, rel).relations = DOMAIN a.relations \cup {rel.rName}
         /\ rel.rName \in Derived(Added(a, rel)) /\ rel.rName \in ProgramNames
<1> DEFINE c == DeleteView(a, rel.rName)
           b == Added(a, rel)
<1>1. Sound(a) /\ Mirror(a, {})
  BY DEF IsProgram
<1>2. rel \in Definition /\ Reads(rel) # <<>>
  BY ProgramAssumption
<1>3. /\ rel \in RelationSet /\ rel.rName \in ProgramNames
      /\ rel.relationType \in {"View", "EventView", "Output"}
  <2>1. \A r \in ProgramNames : r \in AllNames
    BY DEF AllNames, Evaluated
  <2> QED  BY <1>2, <2>1 DEF Definition, RelationSet, RelationTypes
<1>4. IsRelationTypeDerived(rel.relationType)
  BY <1>3 DEF IsRelationTypeDerived
<1>5. a.relations = [x \in DOMAIN a.relations |-> a.relations[x]]
  BY <1>1 DEF Sound
<1>6. c.relations = a.relations /\ Mirror(c, {})
  BY <1>1, <1>5, DeleteNothing
<1> HIDE DEF c
<1>7. Compile(c, rel).relations = With(c.relations, rel) /\ Mirror(Compile(c, rel), {})
  BY <1>3, <1>4, <1>6, CompileIs
<1>8. b.relations = With(a.relations, rel) /\ Mirror(b, {})
  BY <1>6, <1>7 DEF Added, c
<1> HIDE DEF b
<1>9. IsNew(a, rel)
  BY <1>2, <1>3, <1>4 DEF IsNew
<1>10. \E n2, rank2, place2 : Grows(a, place, b, n2, rank2, place2)
  BY <1>8, <1>9, ExtendByOne DEF Grows
<1>11. DOMAIN b.relations = DOMAIN a.relations \cup {rel.rName} /\ b.relations[rel.rName] = rel
  BY <1>8 DEF With
<1>12. rel.rName \in Derived(b)
  BY <1>3, <1>11 DEF Derived, OfType, TypeOf, GetRelationDef
<1> QED  BY <1>3, <1>10, <1>11, <1>12 DEF b

\* AddViewByAst: it is planned, and what the databases lack of it is defined.
LEMMA AdditionRuns ==
  ASSUME NEW a, NEW n, NEW rank, NEW place, NEW list, NEW specs,
         IsRunning(a, n, rank, place, list, specs),
         NEW rel \in Additions, rel.rName \notin DOMAIN a.relations,
         ToSet(Reads(rel)) \subseteq DOMAIN a.relations, AddedEval(a, rel).ok
  PROVE  LET eval == AddedEval(a, rel)
         IN  \E n2, rank2, place2 :
               IsRunning(AddCacheTables(eval.ast, eval.new), n2, rank2, place2,
                         eval.new \o list, AddNewRelations(specs, eval.ast, eval.new))
<1> DEFINE c    == Added(a, rel)
           o    == rel.rName
           aug  == AugmentDepTree(c)
           eval == AddedEval(a, rel)
           b    == eval.ast
           new  == eval.new
           L    == ToSet(list)
<1>1. /\ IsProgram(a, n, rank, place) /\ Planned(a, place, list) /\ Sound(a)
      /\ OutputsLocal(a, place) /\ SpecsAre(a, place, L, specs)
  BY DEF IsRunning, IsProgram
<1>2. /\ DOMAIN c.relations = DOMAIN a.relations \cup {o}
      /\ o \in Derived(c) /\ o \in ProgramNames
  BY <1>1, AddedIs
<1>3. PICK n1, rank1, place1 : Grows(a, place, c, n1, rank1, place1)
  BY <1>1, AddedIs
<1>4. /\ IsProgram(c, n1, rank1, place1) /\ Extends(a, place, c, place1) /\ Splits(c) = Splits(a)
      /\ Sound(c)
  BY <1>3 DEF Grows, IsProgram
<1>5. AsyncView(o) \notin DOMAIN c.relations /\ AsyncView(o) # o
  <2>1. AsyncView(o) # o
    BY <1>2, NameAssumption
  <2>2. ~Has(a, AsyncView(o))
    <3>1. o \notin OfType(a, {"Output"})
      BY DEF OfType
    <3> QED  BY <1>1, <1>2, <3>1 DEF Sound
  <2> QED  BY <2>1, <2>2, <1>2 DEF Has
<1>6. AugmentedBy(c, aug, [x \in DOMAIN aug |-> x]) /\ o \in DOMAIN aug
  BY <1>2, <1>4, AugmentIs
<1>7. eval = DistributedEvalForOutput(c, aug, o) /\ eval.ok
  BY DEF AddedEval
<1>8. Planned(c, place1, list)
  BY <1>1, <1>4, PlannedExtends
<1> HIDE DEF c, aug, eval, o
<1>9. PICK n2, rank2, place2 : IsPlanned(c, place1, list, eval, o, n2, rank2, place2)
  BY <1>2, <1>4, <1>5, <1>6, <1>7, <1>8, EvalStep
<1>10. /\ IsProgram(b, n2, rank2, place2) /\ Sound(b) /\ new \in Seq(DistributionSet)
       /\ Planned(b, place2, new \o list) /\ Ordered(b, new)
  BY <1>9 DEF IsPlanned, IsProgram
<1>11. /\ Extends(a, place, b, place2) /\ DOMAIN b.relations \subseteq DOMAIN a.relations \cup {o, AsyncView(o)}
       /\ OutputsLocal(b, place2)
  <2>1. o \notin DOMAIN a.relations
    BY DEF o
  <2>2. OfType(a, {"Output"}) = {x \in DOMAIN a.relations : TypeOf(a, x) = "Output"}
    BY DEF OfType
  <2>3. OfType(b, {"Output"}) = {x \in DOMAIN b.relations : TypeOf(b, x) = "Output"}
    BY DEF OfType
  <2>4. \A x : TypeOf(a, x) = a.relations[x].relationType /\ TypeOf(b, x) = b.relations[x].relationType
    BY DEF TypeOf, GetRelationDef
  <2>5. CASE b = c /\ place2 = place1 /\ place1[o].fromDbId = LocalDbId
    <3>1. \A x \in OfType(b, {"Output"}) : place2[x].fromDbId = LocalDbId
      BY <2>2, <2>3, <2>4, <2>5, <1>1, <1>2, <1>4 DEF Extends, OutputsLocal
    <3> QED  BY <3>1, <2>5, <1>2, <1>4 DEF OutputsLocal
  <2>6. CASE IsSplitAt(c, place1, b, place2, o)
    <3>1. /\ DOMAIN b.relations = DOMAIN c.relations \cup {AsyncView(o)}
          /\ \A x \in DOMAIN c.relations \ {o} : b.relations[x] = c.relations[x] /\ place2[x] = place1[x]
          /\ TypeOf(b, AsyncView(o)) = "EventView" /\ place2[o].fromDbId = LocalDbId
          /\ Splits(b) = Splits(c) \cup {o}
      BY <2>6 DEF IsSplitAt
    <3>2. Extends(a, place, b, place2)
      BY <3>1, <2>1, <1>2, <1>4 DEF Extends
    <3>3. \A x \in OfType(b, {"Output"}) : x \in DOMAIN a.relations \cup {o}
      BY <3>1, <2>3, <1>2
    <3>4. \A x \in OfType(b, {"Output"}) : place2[x].fromDbId = LocalDbId
      BY <3>1, <3>2, <3>3, <2>2, <2>3, <2>4, <1>1 DEF Extends, OutputsLocal
    <3> QED  BY <3>1, <3>2, <3>4, <1>2 DEF OutputsLocal
  <2> QED  BY <1>9, <2>5, <2>6 DEF IsPlanned
<1>12. SpecsAre(b, place2, L, specs)
  <2>1. \A d \in L : d.relationName \in DOMAIN a.relations
    BY <1>1 DEF Planned, PlannedSet, IsNeeded
  <2>2. \A x \in DOMAIN b.relations \ DOMAIN a.relations : x \in Evaluated
    BY <1>2, <1>11, AsyncViewIs
  <2> HIDE DEF L, b
  <2> QED  BY <2>1, <2>2, <1>1, <1>10, <1>11, SpecsExtend
<1>13. IsList(b, place2, new)
  <2>1. list \in Seq(DistributionSet)
    BY <1>1 DEF Planned
  <2>2. ToSet(new \o list) = ToSet(new) \cup L
    BY <2>1, <1>10, ToSetOfJoin
  <2> QED  BY <2>2, <1>10 DEF IsList, Planned, PlannedSet
<1> DEFINE made == AddNewRelations(specs, b, new)
<1>14. SpecsAre(b, place2, L \cup ToSet(new), made)
  <2> HIDE DEF L, b, new
  <2> QED  BY <1>10, <1>11, <1>12, <1>13, AddNewRelationsAre
<1>15. ToSet(new \o list) = L \cup ToSet(new)
  <2>1. list \in Seq(DistributionSet)
    BY <1>1 DEF Planned
  <2> QED  BY <2>1, <1>10, ToSetOfJoin
<1>16. Ledger(b, place2, new \o list, {})
  <2>1. Ledger(a, place, list, {}) /\ list \in Seq(DistributionSet)
    BY <1>8 DEF IsRunning, Planned
  <2>2. Ledger(c, place1, list, {o})
    <3>1. {o} \cap DOMAIN a.relations = {} \cap DOMAIN a.relations
      BY DEF o
    <3>2. OfType(c, {"Output"}) \subseteq DOMAIN a.relations \cup {o}
      BY <1>2 DEF OfType
    <3> QED  BY <3>1, <3>2, <2>1, <1>1, <1>4, LedgerExtends
  <2>3. {o} \ {o} = {}
    OBVIOUS
  <2>4. Ledger(b, place2, new \o list, {o} \ {o})
    BY <2>1, <2>2, <1>2, <1>4, <1>5, <1>6, <1>7, <1>9, LedgerPlans
  <2> QED  BY <2>3, <2>4
<1>17. IsRunning(b, n2, rank2, place2, new \o list, made)
  <2> HIDE DEF made, b, new
  <2> QED  BY <1>10, <1>11, <1>14, <1>15, <1>16 DEF IsRunning
<1>18. \E n3, rank3, place3 :
         IsRunning(AddCacheTables(b, new), n3, rank3, place3, new \o list, made)
  <2> HIDE DEF made, b, new, L
  <2> QED  BY <1>10, <1>15, <1>17, CachesRun
<1> QED  BY <1>18 DEF eval

-----------------------------------------------------------------------------
(***************************************************************************)
(* The invariant, as long as no addition has failed and no relation has    *)
(* been defined anew: while the outputs are planned, and while it runs.    *)
(***************************************************************************)
PlansOutputs(n, rank, place) ==
  /\ phase = "plan" /\ sqlAstSpecPerDb = NoSpecs
  /\ IsProgram(ast, n, rank, place) /\ Planned(ast, place, distributions)
  /\ Planning(ast, augmentedDep, pending, distributions) /\ OutputsAt(ast, place, pending)
  /\ Ledger(ast, place, distributions, ToSet(pending))

Runs(n, rank, place) ==
  phase = "run" /\ IsRunning(ast, n, rank, place, distributions, sqlAstSpecPerDb)

PlanInv ==
  rejected = {} /\ replaced = {} =>
    \E n, rank, place : PlansOutputs(n, rank, place) \/ Runs(n, rank, place)

LEMMA StartInv == Init => PlanInv
<1> SUFFICES ASSUME Init PROVE \E n, rank, place : PlansOutputs(n, rank, place)
  BY DEF PlanInv
<1>1. PICK program \in Programs : ast = Compiled(program) /\ pending = GetAllOutputs(program)
  BY DEF Init
<1>2. /\ augmentedDep = AugmentDepTree(ast) /\ distributions = <<>>
      /\ phase = "plan" /\ sqlAstSpecPerDb = NoSpecs
  BY DEF Init, NoSpecs
<1>3. \E n, rank, place :
        /\ IsProgram(ast, n, rank, place) /\ Planned(ast, place, distributions)
        /\ Planning(ast, augmentedDep, pending, distributions)
        /\ OutputsAt(ast, place, pending)
        /\ Ledger(ast, place, distributions, ToSet(pending))
  BY <1>1, <1>2, StartIs
<1> QED  BY <1>2, <1>3 DEF PlansOutputs

\* What is said of the definitions depends on whether there is a cache, which does not change.
LEMMA RunsPrimed ==
  ASSUME cache' = cache, NEW n, NEW rank, NEW place,
         IsRunning(ast', n, rank, place, distributions', sqlAstSpecPerDb'), phase' = "run"
  PROVE  Runs(n, rank, place)'
<1>1. /\ IsProgram(ast', n, rank, place) /\ Planned(ast', place, distributions')
      /\ OutputsLocal(ast', place) /\ SpecsAre(ast', place, ToSet(distributions'), sqlAstSpecPerDb')
      /\ Ledger(ast', place, distributions', {})
  BY DEF IsRunning
<1>2. IsProgram(ast, n, rank, place)' /\ Planned(ast, place, distributions)'
      /\ OutputsLocal(ast, place)' /\ Ledger(ast, place, distributions, {})'
  BY <1>1
<1>3. SpecsAre(ast, place, ToSet(distributions), sqlAstSpecPerDb)'
  BY <1>1 DEF SpecsAre, DefIs, IsAnswered, UsesCache
<1> QED  BY <1>2, <1>3 DEF Runs, IsRunning

LEMMA EvalKeepsInv ==
  ASSUME DistributedEval, NEW n, NEW rank, NEW place, PlansOutputs(n, rank, place)
  PROVE  \E n2, rank2, place2 : PlansOutputs(n2, rank2, place2)'
<1>1. /\ pending # <<>> /\ pending' = Tail(pending) /\ augmentedDep' = augmentedDep
      /\ sqlAstSpecPerDb' = sqlAstSpecPerDb /\ phase' = phase
      /\ ast' = DistributedEvalForOutput(ast, augmentedDep, Head(pending)).ast
      /\ distributions' =
           DistributedEvalForOutput(ast, augmentedDep, Head(pending)).new \o distributions
  BY DEF DistributedEval
<1>2. /\ phase = "plan" /\ sqlAstSpecPerDb = NoSpecs
      /\ IsProgram(ast, n, rank, place) /\ Planned(ast, place, distributions)
      /\ Planning(ast, augmentedDep, pending, distributions) /\ OutputsAt(ast, place, pending)
      /\ Ledger(ast, place, distributions, ToSet(pending))
  BY DEF PlansOutputs
<1>3. \E n2, rank2, place2 :
        /\ IsProgram(ast', n2, rank2, place2) /\ Planned(ast', place2, distributions')
        /\ Planning(ast', augmentedDep, Tail(pending), distributions')
        /\ OutputsAt(ast', place2, Tail(pending))
        /\ Ledger(ast', place2, distributions', ToSet(Tail(pending)))
  BY <1>1, <1>2, IsPlannedIs
<1>4. PICK n2, rank2, place2 :
        /\ IsProgram(ast', n2, rank2, place2) /\ Planned(ast', place2, distributions')
        /\ Planning(ast', augmentedDep', pending', distributions')
        /\ OutputsAt(ast', place2, pending')
        /\ Ledger(ast', place2, distributions', ToSet(pending'))
  BY <1>1, <1>3
<1>5. PlansOutputs(n2, rank2, place2)'
  BY <1>1, <1>2, <1>4 DEF PlansOutputs, NoSpecs
<1> QED  BY <1>5

LEMMA SpecsKeepInv ==
  ASSUME GetSqlAstSpecsFromDistribution, NEW n, NEW rank, NEW place, PlansOutputs(n, rank, place)
  PROVE  \E n2, rank2, place2 : Runs(n2, rank2, place2)'
<1>1. /\ pending = <<>> /\ cache' = cache /\ phase' = "run" /\ distributions' = distributions
      /\ ast' = AddCacheTables(ast, distributions)
      /\ sqlAstSpecPerDb = NoSpecs
  BY DEF GetSqlAstSpecsFromDistribution, PlansOutputs
<1>2. sqlAstSpecPerDb' = SpecsOf(ast, distributions)
  <2>1. sqlAstSpecPerDb' = MaterializedAll(WithUnused(AddNewRelations(sqlAstSpecPerDb, ast, distributions),
                                                      ast, distributions))
    BY DEF GetSqlAstSpecsFromDistribution, MaterializedAll, WithUnused
  <2> QED  BY <2>1, <1>1 DEF SpecsOf
<1>3. /\ IsProgram(ast, n, rank, place) /\ Planned(ast, place, distributions)
      /\ Planning(ast, augmentedDep, <<>>, distributions) /\ OutputsAt(ast, place, <<>>)
      /\ Ledger(ast, place, distributions, {})
  BY <1>1, NoneIs DEF PlansOutputs
<1>4. PICK n2, rank2, place2 :
        IsRunning(AddCacheTables(ast, distributions), n2, rank2, place2, distributions,
                  SpecsOf(ast, distributions))
  BY <1>3, SetUpRuns
<1>5. IsRunning(ast', n2, rank2, place2, distributions', sqlAstSpecPerDb')
  BY <1>1, <1>2, <1>4
<1> QED  BY <1>1, <1>5, RunsPrimed

LEMMA AddingKeepsInv ==
  ASSUME NEW rel \in Additions, AddViewByAst(rel), rejected' = {}, replaced' = {},
         NEW n, NEW rank, NEW place, Runs(n, rank, place)
  PROVE  \E n2, rank2, place2 : Runs(n2, rank2, place2)'
<1> DEFINE eval == AddedEval(ast, rel)
<1>1. /\ cache' = cache /\ phase' = "run" /\ ~Has(ast, rel.rName)
      /\ \A r \in ToSet(Reads(rel)) : Has(ast, r)
      /\ Plan(Compile(DeleteView(ast, rel.rName), rel), rel.rName)
  BY DEF AddViewByAst
<1>2. Plan(Added(ast, rel), rel.rName)
  BY <1>1 DEF Added
<1>3. \E e \in {DistributedEvalForOutput(Added(ast, rel), AugmentDepTree(Added(ast, rel)), rel.rName)} :
        /\ ast' = AddCacheTables(e.ast, e.new)
        /\ distributions' = e.new \o distributions
        /\ sqlAstSpecPerDb' = AddNewRelations(sqlAstSpecPerDb, e.ast, e.new)
        /\ rejected' = IF e.ok THEN rejected ELSE rejected \cup {rel.rName}
  BY <1>2 DEF Plan
<1>4. /\ ast' = AddCacheTables(eval.ast, eval.new)
      /\ distributions' = eval.new \o distributions
      /\ sqlAstSpecPerDb' = AddNewRelations(sqlAstSpecPerDb, eval.ast, eval.new)
      /\ rejected' = IF eval.ok THEN rejected ELSE rejected \cup {rel.rName}
  BY <1>3 DEF AddedEval
<1>5. eval.ok
  BY <1>4
<1>6. rel.rName \notin DOMAIN ast.relations /\ ToSet(Reads(rel)) \subseteq DOMAIN ast.relations
  BY <1>1 DEF Has
<1>7. IsRunning(ast, n, rank, place, distributions, sqlAstSpecPerDb)
  BY DEF Runs
<1>8. PICK n2, rank2, place2 :
        IsRunning(AddCacheTables(eval.ast, eval.new), n2, rank2, place2, eval.new \o distributions,
                  AddNewRelations(sqlAstSpecPerDb, eval.ast, eval.new))
  BY <1>5, <1>6, <1>7, AdditionRuns
<1>9. IsRunning(ast', n2, rank2, place2, distributions', sqlAstSpecPerDb')
  BY <1>4, <1>8
<1> QED  BY <1>1, <1>9, RunsPrimed

\* What a step does to the history.
LEMMA HistoryGrows ==
  ASSUME Next, rejected' = {}, replaced' = {} PROVE rejected = {} /\ replaced = {}
<1>1. CASE DistributedEval \/ GetSqlAstSpecsFromDistribution
  BY <1>1 DEF DistributedEval, GetSqlAstSpecsFromDistribution
<1>2. ASSUME NEW rel \in Additions, AddViewByAst(rel) PROVE rejected = {} /\ replaced = {}
  BY <1>2 DEF AddViewByAst, Plan
<1> QED  BY <1>1, <1>2 DEF Next

LEMMA StepInv == PlanInv /\ [Next]_vars => PlanInv'
<1> SUFFICES ASSUME PlanInv, [Next]_vars, rejected' = {}, replaced' = {}
             PROVE  \E n, rank, place : PlansOutputs(n, rank, place)' \/ Runs(n, rank, place)'
  BY DEF PlanInv
<1>1. CASE UNCHANGED vars
  <2>1. PICK n, rank, place : PlansOutputs(n, rank, place) \/ Runs(n, rank, place)
    BY <1>1 DEF PlanInv, vars
  <2>2. CASE PlansOutputs(n, rank, place)
    <3>1. PlansOutputs(n, rank, place)'
      BY <1>1, <2>2 DEF PlansOutputs, vars, NoSpecs
    <3> QED  BY <3>1
  <2>3. CASE Runs(n, rank, place)
    <3>1. IsRunning(ast', n, rank, place, distributions', sqlAstSpecPerDb')
      BY <1>1, <2>3 DEF Runs, vars
    <3>2. phase' = "run" /\ cache' = cache
      BY <1>1, <2>3 DEF Runs, vars
    <3> QED  BY <3>1, <3>2, RunsPrimed
  <2> QED  BY <2>1, <2>2, <2>3
<1>2. CASE Next
  <2>1. PICK n, rank, place : PlansOutputs(n, rank, place) \/ Runs(n, rank, place)
    BY <1>2, HistoryGrows DEF PlanInv
  <2>2. phase = "plan" => PlansOutputs(n, rank, place)
    BY <2>1 DEF Runs
  <2>3. phase = "run" => Runs(n, rank, place)
    BY <2>1 DEF PlansOutputs
  <2>4. CASE DistributedEval
    BY <2>2, <2>4, EvalKeepsInv DEF DistributedEval
  <2>5. CASE GetSqlAstSpecsFromDistribution
    BY <2>2, <2>5, SpecsKeepInv DEF GetSqlAstSpecsFromDistribution
  <2>6. ASSUME NEW rel \in Additions, AddViewByAst(rel)
        PROVE  \E n2, rank2, place2 : Runs(n2, rank2, place2)'
    BY <2>3, <2>6, AddingKeepsInv DEF AddViewByAst
  <2> QED  BY <1>2, <2>4, <2>5, <2>6 DEF Next
<1> QED  BY <1>1, <1>2

THEOREM PlanInvariant == Spec => []PlanInv
<1>1. Init => PlanInv
  BY StartInv
<1>2. PlanInv /\ [Next]_vars => PlanInv'
  BY StepInv
<1> QED  BY <1>1, <1>2, PTL DEF Spec

-----------------------------------------------------------------------------
\* The invariant, of a program that runs as it was written.
LEMMA RunningAsWritten ==
  ASSUME PlanInv, AsWritten
  PROVE  \E n, rank, place : IsRunning(ast, n, rank, place, distributions, sqlAstSpecPerDb)
  BY DEF PlanInv, AsWritten, PlansOutputs, Runs

\* Where an immutable table is.
LEMMA ExistingIs ==
  ASSUME NEW a, NEW n, NEW rank, NEW place, IsProgram(a, n, rank, place),
         NEW r \in DOMAIN a.relations, TypeOf(a, r) = "ExistingAndImmutable"
  PROVE  r \in DOMAIN RelationLocation /\ place[r].dbId = RelationLocation[r]
<1>1. Sound(a) /\ PlacedBy(a, place)
  BY DEF IsProgram
<1>2. r \in OfType(a, {"ExistingAndImmutable"}) /\ r \notin Derived(a)
  BY DEF OfType, Derived
<1>3. r \in DOMAIN RelationLocation /\ a.relations[r].refs = <<>>
  BY <1>1, <1>2 DEF Sound
<1>4. RefsOf(a, r) = <<>>
  BY <1>3, ReadsOfNothing DEF RefsOf
<1>5. OwnerOf(a, r, place) = RelationLocation[r]
  BY <1>4 DEF OwnerOf, RemoteId
<1>6. place[r] = PlaceAt("ExistingAndImmutable", RelationLocation[r])
  BY <1>1, <1>5 DEF PlacedBy
<1>7. PlaceAt("ExistingAndImmutable", RelationLocation[r]).dbId = RelationLocation[r]
  BY DEF PlaceAt
<1> QED  BY <1>3, <1>6, <1>7

LEMMA ReadsAreDefined ==
  ASSUME NEW n, NEW rank, NEW place,
         IsRunning(ast, n, rank, place, distributions, sqlAstSpecPerDb),
         NEW db \in DOMAIN sqlAstSpecPerDb, NEW s \in ToSet(sqlAstSpecPerDb[db]),
         NEW r \in ToSet(s.reads)
  PROVE  \/ r \in DefinedAt(db)
         \/ r \in DOMAIN RelationLocation /\ RelationLocation[r] = db
<1> DEFINE L     == ToSet(distributions)
           names == LocalNames(sqlAstSpecPerDb)
<1>1. /\ IsProgram(ast, n, rank, place) /\ Planned(ast, place, distributions)
      /\ SpecsAre(ast, place, L, sqlAstSpecPerDb)
  BY DEF IsRunning
<1>2. /\ \A d \in L : \/ NotBrought(ast, d)
                      \/ /\ d.to \in DOMAIN sqlAstSpecPerDb
                         /\ d.relationName \in DefinedIn(sqlAstSpecPerDb, d.to)
      /\ IsReadable(ast, place, L, names, db, s)
  BY <1>1 DEF SpecsAre, DefIs
<1>3. s.reads # <<>>
  BY NoneIs
<1>4. CASE /\ s.rName \in Derived(ast) /\ s.reads = RefsOf(ast, s.rName)
           /\ place[s.rName].fromDbId = db /\ \E d \in L : d.relationName = s.rName
  <2>1. Complete(ast, place, L, s.rName)
    BY <1>1, <1>4 DEF Planned, PlannedSet
  <2>2. PICK e \in L : e.relationName = r /\ e.from = place[r].dbId /\ e.to = db
    BY <2>1, <1>4 DEF Complete
  <2>3. CASE NotBrought(ast, e)
    <3>1. r \in DOMAIN ast.relations
      BY <2>2, <1>1 DEF Planned, PlannedSet, IsNeeded
    <3>2. TypeOf(ast, r) # "Output"
      BY <2>2, <2>3, <3>1, <1>1, TypesPlace DEF NotBrought
    <3>3. TypeOf(ast, r) = "ExistingAndImmutable" /\ place[r].dbId = db
      BY <2>2, <2>3, <3>2 DEF NotBrought
    <3> QED  BY <3>1, <3>3, <1>1, ExistingIs
  <2>4. CASE r \in DefinedIn(sqlAstSpecPerDb, db)
    BY <2>4 DEF DefinedIn, DefinedAt
  <2> QED  BY <1>2, <2>2, <2>3, <2>4
<1>5. CASE /\ db = LocalDbId /\ s.reads = <<CacheName(s.rName), ReferenceName(s.rName)>>
           /\ CacheNames(s.rName) \subseteq names
  <2>1. r \in CacheNames(s.rName)
    BY <1>5, TwoIs DEF CacheNames
  <2> QED  BY <2>1, <1>5 DEF LocalNames, DefinedIn, DefinedAt
<1> QED  BY <1>2, <1>3, <1>4, <1>5 DEF IsReadable

LEMMA AnswersAreReceived ==
  ASSUME NEW n, NEW rank, NEW place,
         IsRunning(ast, n, rank, place, distributions, sqlAstSpecPerDb),
         NEW db \in Remotes, NEW y \in Answering(db),
         cache => IsEventViewCacheable(GetRelationDef(ast, y))
  PROVE  SqlTable(IF cache THEN CacheName(y) ELSE y, TRUE, TRUE) \in ToSet(sqlAstSpecPerDb[LocalDbId])
<1> DEFINE L     == ToSet(distributions)
           specs == sqlAstSpecPerDb
<1>1. /\ IsProgram(ast, n, rank, place) /\ Planned(ast, place, distributions)
      /\ SpecsAre(ast, place, L, specs) /\ Sound(ast)
  BY DEF IsRunning, IsProgram
<1>2. PICK d \in L : /\ d.relationName = y /\ d.from = db /\ d.to = LocalDbId
                     /\ TypeOf(ast, y) = "EventView" /\ db # LocalDbId
  BY DEF Answering, Remotes
<1>3. IsNeeded(ast, place, d) /\ y \in DOMAIN ast.relations
  BY <1>1, <1>2 DEF Planned, PlannedSet, IsNeeded
<1>4. place[y].fromDbId # LocalDbId
  BY <1>1, <1>2, <1>3, EventViewFrom
<1>5. y \in Evaluated /\ y \in OfType(ast, {"EventView"})
  BY <1>1, <1>2, <1>3, TypesPlace DEF OfType
<1>6. /\ LocalDbId \in DOMAIN specs
      /\ \A s \in ToSet(specs[LocalDbId]) : IsAnswered(ast, place, LocalDbId, s)
  BY <1>1, SpecSetIs DEF SpecsAre, DefIs
<1>7. CASE cache
  <2>1. UsesCache(ast, d)
    BY <1>2, <1>7 DEF UsesCache
  <2>2. CacheName(y) \in LocalNames(specs)
    BY <2>1, <1>1, <1>2 DEF SpecsAre, CacheNames
  <2>3. PICK s \in ToSet(specs[LocalDbId]) : s.rName = CacheName(y)
    BY <2>2 DEF LocalNames, DefinedIn
  <2>4. s = SqlTable(CacheName(y), TRUE, TRUE)
    BY <2>3, <1>5, <1>6 DEF IsAnswered
  <2> QED  BY <2>3, <2>4, <1>7
<1>8. CASE ~cache
  <2>1. ~NotBrought(ast, d)
    BY <1>2 DEF NotBrought
  <2>2. y \in DefinedIn(specs, LocalDbId)
    BY <2>1, <1>1, <1>2 DEF SpecsAre
  <2>3. PICK s \in ToSet(specs[LocalDbId]) : s.rName = y
    BY <2>2 DEF DefinedIn
  <2>4. s = SqlTable(y, TRUE, TRUE)
    BY <2>3, <1>4, <1>5, <1>6, <1>8 DEF IsAnswered
  <2> QED  BY <2>3, <2>4, <1>8
<1> QED  BY <1>7, <1>8

(***************************************************************************)
(* What a database is told to define can be executed there.                *)
(***************************************************************************)
THEOREM SpecsAreExecutable == Spec => []ReadsDefined
<1>1. PlanInv => ReadsDefined
  <2> SUFFICES ASSUME PlanInv, AsWritten,
                      NEW db \in DOMAIN sqlAstSpecPerDb, NEW s \in ToSet(sqlAstSpecPerDb[db]),
                      NEW r \in ToSet(s.reads)
               PROVE  \/ r \in DefinedAt(db)
                      \/ r \in DOMAIN RelationLocation /\ RelationLocation[r] = db
    BY DEF ReadsDefined
  <2> QED  BY RunningAsWritten, ReadsAreDefined
<1> QED  BY <1>1, PlanInvariant, PTL

(***************************************************************************)
(* The answer of an event view finds its table in the main database, with  *)
(* the columns of its timesteps.                                           *)
(***************************************************************************)
THEOREM AnswersReceived == Spec => []AnswersHaveTables
<1>1. PlanInv => AnswersHaveTables
  <2> SUFFICES ASSUME PlanInv, AsWritten, NEW db \in Remotes, NEW y \in Answering(db),
                      cache => IsEventViewCacheable(GetRelationDef(ast, y))
               PROVE  SqlTable(IF cache THEN CacheName(y) ELSE y, TRUE, TRUE)
                        \in ToSet(sqlAstSpecPerDb[LocalDbId])
    BY DEF AnswersHaveTables
  <2> QED  BY RunningAsWritten, AnswersAreReceived
<1> QED  BY <1>1, PlanInvariant, PTL

-----------------------------------------------------------------------------
(***************************************************************************)
(* What a relation brings up.  A distribution from a database to itself is *)
(* for a relation of a higher rank, so that the recursion ends, and what it*)
(* finds is made of relations that the closure C of the first has.         *)
(***************************************************************************)
Leaving(L, db, r) == {d \in L : d.relationName = r /\ d.from = db}

UpOf(L, db, r, f) ==
  {d \in Leaving(L, db, r) : d.to # db}
  \cup UNION {f[d.forRelationName] :
                d \in {x \in Leaving(L, db, r) : x.to = db /\ x.forRelationName # r}}

Rising(L, db, S, n, rank) ==
  /\ n \in Nat /\ rank \in [S -> 0..n]
  /\ \A d \in L : d.from = db /\ d.to = db /\ d.forRelationName # d.relationName =>
       /\ d.relationName \in S /\ d.forRelationName \in S
       /\ rank[d.relationName] < rank[d.forRelationName]

SolvesUp(L, db, S, f) == f \in [S -> SUBSET L] /\ \A r \in S : f[r] = UpOf(L, db, r, f)

ClosedUp(L, db, C) ==
  \A d \in L : d.from = db /\ d.to = db /\ d.relationName \in C => d.forRelationName \in C

LEMMA Reversed ==
  /\ \A n \in Nat : \A k \in 0..n : n - k \in 0..n
  /\ \A n \in Nat : \A k, l \in 0..n : k < l => n - l < n - k
  /\ \A n \in Nat : \A k \in 1..n : \A l, m \in 0..n : l < m /\ m <= k => l <= k - 1
OBVIOUS

LEMMA UpSolves ==
  ASSUME NEW L, NEW db, NEW S, NEW n, NEW rank, Rising(L, db, S, n, rank)
  PROVE  SolvesUp(L, db, S, CHOOSE f : f = [r \in S |-> UpOf(L, db, r, f)])
<1> DEFINE T    == SUBSET L
           G    == [S -> T]
           step == [r \in S |-> [f \in G |-> UpOf(L, db, r, f)]]
           back == [r \in S |-> n - rank[r]]
           F    == CHOOSE f : f = [r \in S |-> UpOf(L, db, r, f)]
<1>1. /\ n \in Nat /\ rank \in [S -> 0..n]
      /\ \A d \in L : d.from = db /\ d.to = db /\ d.forRelationName # d.relationName =>
           /\ d.relationName \in S /\ d.forRelationName \in S
           /\ rank[d.relationName] < rank[d.forRelationName]
  BY DEF Rising
<1>2. ASSUME NEW r \in S, NEW d \in {x \in Leaving(L, db, r) : x.to = db /\ x.forRelationName # r}
      PROVE  d.forRelationName \in S /\ back[d.forRelationName] < back[r]
  <2>1. /\ d.forRelationName \in S /\ rank[r] < rank[d.forRelationName]
        /\ rank[r] \in 0..n /\ rank[d.forRelationName] \in 0..n
    BY <1>1 DEF Leaving
  <2>2. back[r] = n - rank[r] /\ back[d.forRelationName] = n - rank[d.forRelationName]
    BY <2>1
  <2> HIDE DEF back
  <2> QED  BY <2>1, <2>2, <1>1, Reversed
<1>3. ASSUME NEW r \in S, NEW f \in G PROVE UpOf(L, db, r, f) \in T
  BY <1>2 DEF UpOf, Leaving
<1>4. step \in [S -> [G -> T]]
  BY <1>3
<1>5. back \in [S -> 0..n]
  <2>1. \A r \in S : rank[r] \in 0..n
    BY <1>1
  <2> QED  BY <2>1, <1>1, Reversed
<1>6. ASSUME NEW r \in S, NEW f \in G, NEW g \in G, \A x \in S : back[x] < back[r] => f[x] = g[x]
      PROVE  step[r][f] = step[r][g]
  <2>1. \A d \in {x \in Leaving(L, db, r) : x.to = db /\ x.forRelationName # r} :
          f[d.forRelationName] = g[d.forRelationName]
    BY <1>2, <1>6
  <2>2. UpOf(L, db, r, f) = UpOf(L, db, r, g)
    BY <2>1 DEF UpOf
  <2> QED  BY <2>2
<1>7. Ranked(n, S, T, back, step)
  <2>1. OnLower(S, T, back, step)
    <3> HIDE DEF step, back
    <3> QED  BY <1>6 DEF OnLower
  <2> HIDE DEF step, back
  <2> QED  BY <2>1, <1>4, <1>5 DEF Ranked
<1>8. PICK f : Fixed(f, S, T, step)
  <2>1. {} \in T
    OBVIOUS
  <2> HIDE DEF step, back, T
  <2> QED  BY <2>1, <1>1, <1>7, RecursionByRank
<1>9. f \in G /\ \A r \in S : f[r] = step[r][f]
  <2> HIDE DEF step
  <2> QED  BY <1>8 DEF Fixed
<1>10. f = [r \in S |-> UpOf(L, db, r, f)]
  <2>1. \A r \in S : f[r] = UpOf(L, db, r, f)
    BY <1>9
  <2> QED  BY <2>1, <1>9
<1>11. F = [r \in S |-> UpOf(L, db, r, F)]
  BY <1>10
<1> HIDE DEF F
<1> DEFINE P == {k \in 0..n : \A r \in S : back[r] <= k => F[r] \in T}
<1>12. ASSUME NEW r \in S, \A x \in S : back[x] < back[r] => F[x] \in T PROVE F[r] \in T
  <2>1. F[r] = UpOf(L, db, r, F)
    BY <1>11
  <2>2. \A d \in {x \in Leaving(L, db, r) : x.to = db /\ x.forRelationName # r} :
          F[d.forRelationName] \in T
    BY <1>2, <1>12
  <2> QED  BY <2>1, <2>2 DEF UpOf, Leaving
<1>13. P = 0..n
  <2>1. \A x \in S : back[x] \in 0..n
    BY <1>5
  <2> HIDE DEF back, T
  <2>2. 0 \in P
    BY <2>1, <1>1, <1>12
  <2>3. ASSUME NEW i \in 1..n, i - 1 \in P PROVE i \in P
    <3>1. i \in 0..n
      BY <1>1
    <3>2. ASSUME NEW r \in S, back[r] <= i PROVE F[r] \in T
      <4>1. \A x \in S : back[x] < back[r] => back[x] <= i - 1
        BY <2>1, <3>2, <1>1, Reversed
      <4> QED  BY <4>1, <2>3, <1>12
    <3> QED  BY <3>1, <3>2
  <2>4. P \in SUBSET (0..n)
    OBVIOUS
  <2> HIDE DEF P
  <2> QED  BY <2>2, <2>3, <2>4, <1>1, NatInd
<1>14. \A r \in S : F[r] \in T
  <2>1. n \in P
    BY <1>1, <1>13
  <2>2. \A r \in S : back[r] <= n
    BY <1>1, <1>5
  <2> QED  BY <2>1, <2>2
<1>15. F \in G
  BY <1>11, <1>14
<1> QED  BY <1>11, <1>15 DEF SolvesUp, F

LEMMA UpIs ==
  ASSUME NEW L, NEW db, NEW S, NEW n, NEW rank, Rising(L, db, S, n, rank),
         NEW f, SolvesUp(L, db, S, f), NEW C \in SUBSET S, ClosedUp(L, db, C)
  PROVE  \A r \in C : \A d \in f[r] :
           d \in L /\ d.relationName \in C /\ d.from = db /\ d.to # db
<1> DEFINE Good(r) == \A d \in f[r] : d \in L /\ d.relationName \in C /\ d.from = db /\ d.to # db
           P       == {k \in 0..n : \A r \in C : n - rank[r] <= k => Good(r)}
<1>1. /\ n \in Nat /\ rank \in [S -> 0..n]
      /\ \A d \in L : d.from = db /\ d.to = db /\ d.forRelationName # d.relationName =>
           /\ d.relationName \in S /\ d.forRelationName \in S
           /\ rank[d.relationName] < rank[d.forRelationName]
  BY DEF Rising
<1>2. ASSUME NEW r \in C, \A x \in C : n - rank[x] < n - rank[r] => Good(x) PROVE Good(r)
  <2> SUFFICES ASSUME NEW d \in f[r]
               PROVE  d \in L /\ d.relationName \in C /\ d.from = db /\ d.to # db
    OBVIOUS
  <2>1. d \in UpOf(L, db, r, f)
    BY DEF SolvesUp
  <2>2. CASE d \in Leaving(L, db, r) /\ d.to # db
    BY <2>2 DEF Leaving
  <2>3. ASSUME NEW x \in Leaving(L, db, r), x.to = db, x.forRelationName # r,
               d \in f[x.forRelationName]
        PROVE  d \in L /\ d.relationName \in C /\ d.from = db /\ d.to # db
    <3>1. x \in L /\ x.relationName = r /\ x.from = db
      BY DEF Leaving
    <3>2. x.forRelationName \in C
      BY <2>3, <3>1 DEF ClosedUp
    <3>3. rank[r] < rank[x.forRelationName] /\ rank[r] \in 0..n /\ rank[x.forRelationName] \in 0..n
      BY <2>3, <3>1, <3>2, <1>1
    <3>4. n - rank[x.forRelationName] < n - rank[r]
      BY <3>3, <1>1, Reversed
    <3>5. Good(x.forRelationName)
      BY <3>2, <3>4, <1>2
    <3> QED  BY <3>5, <2>3
  <2> QED  BY <2>1, <2>2, <2>3 DEF UpOf
<1> HIDE DEF Good
<1>3. \A r \in C : n - rank[r] \in 0..n
  BY <1>1, Reversed
<1>4. P = 0..n
  <2> DEFINE back(r) == n - rank[r]
  <2>0. /\ \A r \in C : back(r) \in 0..n
        /\ P = {k \in 0..n : \A r \in C : back(r) <= k => Good(r)}
        /\ \A r \in C : (\A x \in C : back(x) < back(r) => Good(x)) => Good(r)
    BY <1>2, <1>3
  <2> HIDE DEF back, P
  <2>2. 0 \in P
    BY <2>0, <1>1
  <2>3. ASSUME NEW i \in 1..n, i - 1 \in P PROVE i \in P
    <3>1. i \in 0..n
      BY <1>1
    <3>2. ASSUME NEW r \in C, back(r) <= i PROVE Good(r)
      <4>1. \A x \in C : back(x) < back(r) => back(x) <= i - 1
        BY <2>0, <3>2, <1>1, Reversed
      <4> QED  BY <4>1, <2>3, <2>0
    <3> QED  BY <3>1, <3>2, <2>0
  <2>4. P \in SUBSET (0..n)
    BY <2>0
  <2> QED  BY <2>2, <2>3, <2>4, <1>1, NatInd
<1>5. \A r \in C : Good(r)
  <2>1. n \in P
    BY <1>1, <1>4
  <2>2. \A r \in C : n - rank[r] <= n
    BY <1>1, <1>3
  <2> QED  BY <2>1, <2>2
<1> QED  BY <1>5 DEF Good

-----------------------------------------------------------------------------
\* In the main database what is read there is brought up to its readers, which have a higher rank.
LEMMA LocalShips ==
  ASSUME NEW a, NEW n, NEW rank, NEW place, IsProgram(a, n, rank, place),
         NEW d, IsNeeded(a, place, d), d.from = LocalDbId, d.to = LocalDbId,
         d.forRelationName # d.relationName
  PROVE  /\ d.relationName \in DOMAIN a.relations /\ d.forRelationName \in DOMAIN a.relations
         /\ d.relationName \in ToSet(RefsOf(a, d.forRelationName))
         /\ rank[d.relationName] < rank[d.forRelationName]
<1>1. RankedBy(a, n, rank) /\ SplitsAre(a, place)
  BY DEF IsProgram
<1>2. /\ d.relationName \in DOMAIN a.relations /\ d.forRelationName \in DOMAIN a.relations
      /\ IsShip(a, place, d)
  BY DEF IsNeeded, IsOwn
<1>3. PICK f \in {d.forRelationName, Now(a, d.forRelationName)} :
        d.relationName \in ToSet(RefsOf(a, f)) /\ place[f].fromDbId = LocalDbId
  BY <1>2 DEF IsShip
<1>4. f = d.forRelationName
  BY <1>1, <1>3 DEF Now, SplitsAre
<1> QED  BY <1>1, <1>2, <1>3, <1>4 DEF RankedBy

\* What depends on e: derived relations, and whatever reads one of them.
LEMMA DependentsOf ==
  ASSUME NEW a, NEW n, NEW rank, NEW place, IsProgram(a, n, rank, place),
         NEW e \in DOMAIN a.relations
  PROVE  LET R == DeriveDependentRelations(a.depTree, e)
         IN  /\ R \subseteq Derived(a)
             /\ \A x \in DOMAIN a.relations : \A r \in R \cup {e} :
                  r \in ToSet(RefsOf(a, x)) => x \in R
<1> DEFINE t == a.depTree
           R == DeriveDependentRelations(t, e)
           N == DOMAIN t.node
           E == {k \in N : t.node[k].dependsOn # <<>>}
<1>1. /\ Sound(a) /\ IsTree(t, AllNames)
      /\ N \subseteq DOMAIN a.relations
      /\ \A x \in N : t.node[x].dependsOn = RefsOf(a, x)
      /\ \A x \in Derived(a) : x \in N
      /\ \A x \in DOMAIN a.relations \ Derived(a) : RefsOf(a, x) = <<>>
  BY DEF IsProgram, Mirror
<1>2. LeastWithReaders(t, e, R)
  BY <1>1, DependentsAre
<1> HIDE DEF R
<1>3. \A x \in N : \A r : Contains(t.node[x].dependsOn, r) <=> r \in ToSet(RefsOf(a, x))
  <2> SUFFICES ASSUME NEW x \in N, NEW r
               PROVE  Contains(t.node[x].dependsOn, r) <=> r \in ToSet(RefsOf(a, x))
    OBVIOUS
  <2>1. RefsOf(a, x) \in Seq(DOMAIN a.relations)
    BY <1>1, ReadsAre
  <2> QED  BY <2>1, <1>1, ContainsIs
<1>4. R \subseteq Derived(a)
  <2>1. \A r : Readers(t, r) \subseteq E
    BY <1>1, <1>3, NoneIs DEF Readers
  <2>2. R \subseteq E
    BY <2>1, <1>2 DEF LeastWithReaders, HasReaders
  <2> QED  BY <2>2, <1>1
<1>5. ASSUME NEW x \in DOMAIN a.relations, NEW r \in R \cup {e}, r \in ToSet(RefsOf(a, x))
      PROVE  x \in R
  <2>1. x \in Derived(a)
    BY <1>1, <1>5, NoneIs
  <2>2. x \in Readers(t, r)
    BY <2>1, <1>1, <1>3, <1>5 DEF Readers
  <2> QED  BY <2>2, <1>2, <1>5 DEF LeastWithReaders, HasReaders
<1> QED  BY <1>4, <1>5 DEF R

\* An event is one of the tables for events or an event view.
LEMMA EventIs ==
  ASSUME NEW n, NEW rank, NEW place, IsProgram(ast, n, rank, place),
         Planned(ast, place, distributions), NEW e \in InputEvents
  PROVE  e \in DOMAIN ast.relations /\ TypeOf(ast, e) \in {"EventTable", "EventView"}
<1>1. CASE e \in EventTable
  <2>1. e \in TableNames
    BY <1>1 DEF TableNames
  <2>2. e \in DOMAIN ast.relations /\ ast.relations[e] = Tables[e]
    BY <2>1 DEF IsProgram, Sound
  <2>3. Tables[e].relationType = "EventTable"
    BY <1>1, <2>1 DEF Tables, Relation
  <2> QED  BY <2>2, <2>3 DEF TypeOf, GetRelationDef
<1>2. CASE \E db \in Remotes : e \in Answering(db)
  <2>1. \A d \in ToSet(distributions) : d.relationName \in DOMAIN ast.relations
    BY DEF Planned, PlannedSet, IsNeeded
  <2> QED  BY <1>2, <2>1 DEF Answering
<1> QED  BY <1>1, <1>2 DEF InputEvents

\* What an event brings up in the main database depends on it.
LEMMA BroughtUp ==
  ASSUME NEW n, NEW rank, NEW place, IsProgram(ast, n, rank, place),
         Planned(ast, place, distributions), NEW e \in DOMAIN ast.relations,
         NEW d \in BubbledUp(LocalDbId, e)
  PROVE  /\ d \in ToSet(distributions) /\ d.relationName \in Dependents(e)
         /\ d.from = LocalDbId /\ d.to # LocalDbId
<1> DEFINE L == ToSet(distributions)
           S == DOMAIN ast.relations
           R == DeriveDependentRelations(ast.depTree, e)
           C == Dependents(e)
           F == CHOOSE f : f = [r \in S |-> UpOf(L, LocalDbId, r, f)]
<1>1. \A x \in L : IsNeeded(ast, place, x)
  BY DEF Planned, PlannedSet
<1>2. Rising(L, LocalDbId, S, n, rank)
  <2>1. n \in Nat /\ rank \in [S -> 0..n]
    BY DEF IsProgram, RankedBy
  <2> HIDE DEF L, S
  <2> QED  BY <2>1, <1>1, LocalShips DEF Rising, S
<1>3. SolvesUp(L, LocalDbId, S, F)
  <2> HIDE DEF L, S
  <2> QED  BY <1>2, UpSolves
<1>4. C \subseteq S /\ C = R \cup {e}
  <2>1. R \subseteq Derived(ast)
    BY DependentsOf
  <2> QED  BY <2>1 DEF Dependents, Derived, OfType
<1>5. ClosedUp(L, LocalDbId, C)
  <2> SUFFICES ASSUME NEW x \in L, x.from = LocalDbId, x.to = LocalDbId, x.relationName \in C
               PROVE  x.forRelationName \in C
    BY DEF ClosedUp
  <2>1. CASE x.forRelationName = x.relationName
    BY <2>1
  <2>2. CASE x.forRelationName # x.relationName
    <3>1. x.forRelationName \in S /\ x.relationName \in ToSet(RefsOf(ast, x.forRelationName))
      BY <2>2, <1>1, LocalShips
    <3>2. x.forRelationName \in R
      BY <3>1, <1>4, DependentsOf
    <3> QED  BY <3>2, <1>4
  <2> QED  BY <2>1, <2>2
<1>6. BubbledUp(LocalDbId, e) = F[e]
  BY DEF BubbledUp, UpOf, Leaving
<1>7. d \in F[e] /\ e \in C
  BY <1>4, <1>6
<1> HIDE DEF L, S, F, C
<1>8. d \in L /\ d.relationName \in C /\ d.from = LocalDbId /\ d.to # LocalDbId
  BY <1>2, <1>3, <1>4, <1>5, <1>7, UpIs
<1> QED  BY <1>8 DEF L, C

LEMMA ShipmentIsExpected ==
  ASSUME NEW n, NEW rank, NEW place,
         IsRunning(ast, n, rank, place, distributions, sqlAstSpecPerDb),
         NEW e \in InputEvents,
         NEW s \in GetBubbledUpRelationToShipForEvent(LocalDbId, e, EventViewsOf(e)),
         ~EvaluatedAt(s.destination, s.relation)
  PROVE  s.relation \in Deps(s.destination, e)
<1> DEFINE L     == ToSet(distributions)
           specs == sqlAstSpecPerDb
<1>1. /\ IsProgram(ast, n, rank, place) /\ Planned(ast, place, distributions)
      /\ SpecsAre(ast, place, L, specs)
  BY DEF IsRunning
<1>2. e \in DOMAIN ast.relations /\ TypeOf(ast, e) \in {"EventTable", "EventView"}
  BY <1>1, EventIs
<1>3. PICK d \in BubbledUp(LocalDbId, e) : s = [destination |-> d.to, relation |-> d.relationName]
  BY DEF GetBubbledUpRelationToShipForEvent, Sent
<1>4. /\ d \in L /\ d.relationName \in Dependents(e)
      /\ d.from = LocalDbId /\ d.to # LocalDbId
  BY <1>1, <1>2, BroughtUp
<1>5. ~NotBrought(ast, d)
  BY <1>4 DEF NotBrought
<1>6. d.to \in DOMAIN specs /\ d.relationName \in DefinedIn(specs, d.to)
  BY <1>1, <1>4, <1>5 DEF SpecsAre
<1>7. PICK x \in ToSet(specs[d.to]) : x.rName = d.relationName
  BY <1>6 DEF DefinedIn
<1>8. IsFilled(ast, L, d.to, x)
  BY <1>1, <1>6 DEF SpecsAre, DefIs
<1>9. d.relationName \notin OfType(ast, {"Table", "ExistingAndImmutable"})
  <2>1. CASE d.relationName = e
    BY <2>1, <1>2 DEF OfType
  <2>2. CASE d.relationName \in DeriveDependentRelations(ast.depTree, e)
    <3>1. d.relationName \in Derived(ast)
      BY <2>2, <1>1, <1>2, DependentsOf
    <3> QED  BY <3>1 DEF Derived, OfType
  <2> QED  BY <2>1, <2>2, <1>4 DEF Dependents
<1>10. x.isDynamic
  BY <1>3, <1>4, <1>7, <1>8, <1>9 DEF IsFilled, EvaluatedAt
<1> QED  BY <1>3, <1>4, <1>7, <1>10 DEF Deps

(***************************************************************************)
(* An event ships to a remote database only what that database waits for in*)
(* its timestep, or evaluates itself.                                      *)
(***************************************************************************)
THEOREM ShipmentsAreExpected == Spec => []ShipmentsExpected
<1>1. PlanInv => ShipmentsExpected
  <2> SUFFICES ASSUME PlanInv, AsWritten, NEW e \in InputEvents,
                      NEW s \in GetBubbledUpRelationToShipForEvent(LocalDbId, e, EventViewsOf(e)),
                      ~EvaluatedAt(s.destination, s.relation)
               PROVE  s.relation \in Deps(s.destination, e)
    BY DEF ShipmentsExpected
  <2> QED  BY RunningAsWritten, ShipmentIsExpected
<1> QED  BY <1>1, PlanInvariant, PTL

-----------------------------------------------------------------------------
(***************************************************************************)
(* What a relation is made of, and what depends on it, are the same.       *)
(***************************************************************************)
LEMMA DependentsGrow ==
  ASSUME NEW a, NEW n, NEW rank, NEW place, IsProgram(a, n, rank, place),
         NEW x, NEW y, x \in DeriveDependentRelations(a.depTree, y)
  PROVE  DeriveDependentRelations(a.depTree, x) \subseteq DeriveDependentRelations(a.depTree, y)
<1> DEFINE t == a.depTree
           X == DeriveDependentRelations(t, x)
           Y == DeriveDependentRelations(t, y)
<1>1. IsTree(t, AllNames)
  BY DEF IsProgram, Mirror
<1>2. LeastWithReaders(t, x, X) /\ LeastWithReaders(t, y, Y)
  BY <1>1, DependentsAre
<1> HIDE DEF X, Y
<1>3. HasReaders(t, x, Y)
  BY <1>2 DEF LeastWithReaders, HasReaders, X, Y
<1> QED  BY <1>2, <1>3 DEF LeastWithReaders, X, Y

LEMMA MadeOfDepends ==
  ASSUME NEW a, NEW n, NEW rank, NEW place, IsProgram(a, n, rank, place),
         NEW o \in DOMAIN a.relations
  PROVE  \A x \in MadeOf(Reading(a), o) : x = o \/ o \in DeriveDependentRelations(a.depTree, x)
<1> DEFINE R    == DOMAIN a.relations
           D(x) == DeriveDependentRelations(a.depTree, x)
           C    == {x \in R : x = o \/ o \in D(x)}
<1>1. /\ DOMAIN Reading(a) = R
      /\ \A x \in R : Reading(a)[x].dependsOn = RefsOf(a, x) /\ ToSet(RefsOf(a, x)) \subseteq R
  BY ReadingIs DEF IsProgram
<1>2. \A x, y : x \in D(y) => D(x) \subseteq D(y)
  BY DependentsGrow
<1>3. \A x, y \in R : y \in ToSet(RefsOf(a, x)) => x \in D(y)
  <2> SUFFICES ASSUME NEW x \in R, NEW y \in R, y \in ToSet(RefsOf(a, x)) PROVE x \in D(y)
    OBVIOUS
  <2>1. \A z \in R : \A r \in D(y) \cup {y} : r \in ToSet(RefsOf(a, z)) => z \in D(y)
    BY DependentsOf
  <2> HIDE DEF D
  <2> QED  BY <2>1
<1> HIDE DEF D
<1>4. ASSUME NEW x \in C, NEW y \in ToSet(RefsOf(a, x)) PROVE y \in C
  <2>1. x \in R /\ y \in R /\ x \in D(y)
    BY <1>1, <1>3
  <2> QED  BY <2>1, <1>2
<1>5. C \subseteq DOMAIN Reading(a) /\ o \in C /\ HasReads(Reading(a), C)
  BY <1>1, <1>4 DEF HasReads
<1> HIDE DEF C
<1>6. MadeOf(Reading(a), o) \subseteq C
  BY <1>5 DEF MadeOf
<1> QED  BY <1>6 DEF C, D

LEMMA DependsMadeOf ==
  ASSUME NEW a, NEW n, NEW rank, NEW place, IsProgram(a, n, rank, place),
         NEW y \in DOMAIN a.relations
  PROVE  \A o \in DeriveDependentRelations(a.depTree, y) :
           o \in DOMAIN a.relations /\ y \in MadeOf(Reading(a), o)
<1> DEFINE R == DOMAIN a.relations
           t == a.depTree
           C == {x \in R : y \in MadeOf(Reading(a), x)}
<1>1. /\ DOMAIN Reading(a) = R /\ Sound(a)
      /\ \A x \in R : Reading(a)[x].dependsOn = RefsOf(a, x) /\ ToSet(RefsOf(a, x)) \subseteq R
  BY ReadingIs DEF IsProgram
<1>2. /\ IsTree(t, AllNames) /\ DOMAIN t.node \subseteq R
      /\ \A x \in DOMAIN t.node : t.node[x].dependsOn = RefsOf(a, x)
  BY DEF IsProgram, Mirror
<1>3. ASSUME NEW x \in R, NEW z \in ToSet(RefsOf(a, x)) PROVE MadeOf(Reading(a), z) \subseteq MadeOf(Reading(a), x)
  <2>1. \A r \in DOMAIN Reading(a) : ToSet(Reading(a)[r].dependsOn) \subseteq DOMAIN Reading(a)
    BY <1>1
  <2>2. MadeOf(Reading(a), x) = {x} \cup UNION {MadeOf(Reading(a), w) : w \in ToSet(Reading(a)[x].dependsOn)}
    BY <2>1, <1>1, MadeOfIs
  <2> QED  BY <2>2, <1>1
<1>4. y \in MadeOf(Reading(a), y)
  BY MadeOfReading
<1>5. ASSUME NEW z \in C \cup {y}, NEW x \in Readers(t, z) PROVE x \in C
  <2>1. x \in DOMAIN t.node /\ Contains(t.node[x].dependsOn, z) /\ x \in R
    BY <1>2 DEF Readers
  <2>2. RefsOf(a, x) \in Seq(R)
    BY <2>1, <1>1, ReadsAre
  <2>3. z \in ToSet(RefsOf(a, x))
    BY <2>1, <2>2, <1>2, ContainsIs
  <2>4. y \in MadeOf(Reading(a), z)
    BY <1>4
  <2> QED  BY <2>1, <2>3, <2>4, <1>3
<1>6. HasReaders(t, y, C)
  BY <1>5 DEF HasReaders
<1> HIDE DEF C
<1>7. DeriveDependentRelations(t, y) \subseteq C
  BY <1>2, <1>6, DependentsAre DEF LeastWithReaders
<1> QED  BY <1>7 DEF C

\* An output below that has been split shows as such.
LEMMA NotOverSplit ==
  ASSUME NEW n, NEW rank, NEW place, IsProgram(ast, n, rank, place),
         NEW o \in Outputs, ~OverSplitOutput(o)
  PROVE  o \in DOMAIN ast.relations /\ NoSplitBelow(ast, o)
<1>1. o \in DOMAIN ast.relations
  BY DEF Outputs, OfType
<1>2. \A x \in MadeOf(Reading(ast), o) : x = o \/ o \in DeriveDependentRelations(ast.depTree, x)
  BY <1>1, MadeOfDepends
<1>3. \A x \in Splits(ast) : x \in Outputs /\ Has(ast, AsyncView(x))
  BY DEF Splits, Outputs
<1> QED  BY <1>1, <1>2, <1>3 DEF NoSplitBelow, OverSplitOutput

LEMMA IsPlannedOnce ==
  ASSUME NEW n, NEW rank, NEW place,
         IsRunning(ast, n, rank, place, distributions, sqlAstSpecPerDb),
         NEW o \in Outputs, ~OverSplitOutput(o)
  PROVE  {d \in ToSet(distributions) : d.finalOutputName = o}
           = ToSet(DistributedEvalForOutput(ast, AugmentDepTree(ast), o).new)
<1> DEFINE aug  == AugmentDepTree(ast)
           m    == [x \in DOMAIN aug |-> x]
           eval == DistributedEvalForOutput(ast, aug, o)
           N    == NeededBy(ast, aug, Through(aug, m, place), o, o)
<1>1. /\ IsProgram(ast, n, rank, place) /\ OutputsLocal(ast, place)
      /\ Ledger(ast, place, distributions, {})
  BY DEF IsRunning
<1>2. o \in DOMAIN ast.relations /\ NoSplitBelow(ast, o)
  BY <1>1, NotOverSplit
<1>3. /\ TypeOf(ast, o) = "Output" /\ o \in OfType(ast, {"Output"}) /\ o \in Derived(ast)
      /\ o \in ProgramNames /\ place[o].fromDbId = LocalDbId
  <2>1. o \in OfType(ast, {"Output"})
    BY DEF Outputs
  <2> QED  BY <2>1, <1>1 DEF OfType, Derived, IsProgram, Sound, OutputsLocal
<1>4. AugmentedBy(ast, aug, m) /\ o \in DOMAIN aug
  BY <1>1, <1>3, AugmentIs
<1>5. m[o] = o
  BY <1>4
<1> HIDE DEF aug, m
<1>6. eval.ok
  BY <1>1, <1>3, <1>4, OutputIsOk
<1>7. PICK list : IsEval(ast, N, o, place[o].fromDbId, eval, list)
  BY <1>1, <1>3, <1>4, <1>5, <1>6, EvalFinds
<1>8. ToSet(eval.new) = N
  BY <1>3, <1>7 DEF IsEval
<1>9. N = NeededIn(ast, place, o)
  <2>1. \A x \in MadeOf(Reading(ast), o) : x # o => x \notin Splits(ast)
    BY <1>2 DEF NoSplitBelow
  <2> QED  BY <2>1, <1>1, <1>4, <1>5, FoundIsNeeded
<1>10. OfOutput(ToSet(distributions), o) = NeededIn(ast, place, o)
  BY <1>1, <1>2, <1>3 DEF Ledger
<1> QED  BY <1>8, <1>9, <1>10 DEF OfOutput, aug

(***************************************************************************)
(* What an output needs does not depend on when it was planned.            *)
(***************************************************************************)
THEOREM OutputsPlannedOnce == Spec => []PlannedOnce
<1>1. PlanInv => PlannedOnce
  <2> SUFFICES ASSUME PlanInv, AsWritten, NEW o \in Outputs, ~OverSplitOutput(o)
               PROVE  {d \in ToSet(distributions) : d.finalOutputName = o}
                        = ToSet(DistributedEvalForOutput(ast, AugmentDepTree(ast), o).new)
    BY DEF PlannedOnce
  <2> QED  BY RunningAsWritten, IsPlannedOnce
<1> QED  BY <1>1, PlanInvariant, PTL

-----------------------------------------------------------------------------
\* What is shipped within a database is for a relation of a higher rank.
LEMMA ShipsRise ==
  ASSUME NEW a, NEW n, NEW rank, NEW place, IsProgram(a, n, rank, place),
         NEW d, IsNeeded(a, place, d), d.forRelationName # d.relationName
  PROVE  /\ d.relationName \in DOMAIN a.relations /\ d.forRelationName \in DOMAIN a.relations
         /\ rank[d.relationName] < rank[d.forRelationName]
<1>1. /\ RankedBy(a, n, rank)
      /\ \A o \in Splits(a) : AsyncView(o) \in DOMAIN a.relations /\ rank[AsyncView(o)] < rank[o]
  BY SplitIs DEF IsProgram
<1>2. /\ d.relationName \in DOMAIN a.relations /\ d.forRelationName \in DOMAIN a.relations
      /\ IsShip(a, place, d)
  BY DEF IsNeeded, IsOwn
<1>3. PICK f \in {d.forRelationName, Now(a, d.forRelationName)} : d.relationName \in ToSet(RefsOf(a, f))
  BY <1>2 DEF IsShip
<1>4. f \in DOMAIN a.relations
  BY <1>2, <1>3, NowIn
<1>5. rank[d.relationName] < rank[f]
  BY <1>1, <1>3, <1>4 DEF RankedBy
<1>6. CASE f = d.forRelationName
  BY <1>2, <1>5, <1>6
<1>7. CASE f # d.forRelationName
  <2>1. rank[f] < rank[d.forRelationName]
    BY <1>1, <1>3, <1>7 DEF Now
  <2>2. \A x \in DOMAIN a.relations : rank[x] \in 0..n
    BY <1>1 DEF RankedBy
  <2>3. rank[d.relationName] \in 0..n /\ rank[f] \in 0..n /\ rank[d.forRelationName] \in 0..n
    BY <2>2, <1>2, <1>4
  <2> QED  BY <2>1, <2>3, <1>2, <1>5
<1> QED  BY <1>6, <1>7

\* What a relation brings up from a database to others, one step at a time.
LEMMA BubblesUp ==
  ASSUME NEW n, NEW rank, NEW place, IsProgram(ast, n, rank, place),
         Planned(ast, place, distributions), NEW db, NEW d \in ToSet(distributions), d.from = db
  PROVE  /\ d.relationName \in DOMAIN ast.relations /\ d.forRelationName \in DOMAIN ast.relations
         /\ d.to # db => d \in BubbledUp(db, d.relationName)
         /\ d.to = db => BubbledUp(db, d.forRelationName) \subseteq BubbledUp(db, d.relationName)
<1> DEFINE L    == ToSet(distributions)
           S    == DOMAIN ast.relations
           F    == CHOOSE f : f = [r \in S |-> UpOf(L, db, r, f)]
           r    == d.relationName
           next == d.forRelationName
<1>1. \A x \in L : IsNeeded(ast, place, x)
  BY DEF Planned, PlannedSet
<1>2. Rising(L, db, S, n, rank)
  <2>1. n \in Nat /\ rank \in [S -> 0..n]
    BY DEF IsProgram, RankedBy
  <2> HIDE DEF L, S
  <2> QED  BY <2>1, <1>1, ShipsRise DEF Rising, S
<1>3. r \in S /\ next \in S
  BY <1>1 DEF IsNeeded
<1>4. SolvesUp(L, db, S, F)
  <2> HIDE DEF L, S
  <2> QED  BY <1>2, UpSolves
<1>5. \A x : BubbledUp(db, x) = F[x]
  BY DEF BubbledUp, UpOf, Leaving
<1> HIDE DEF F, S
<1>6. F[r] = UpOf(L, db, r, F)
  BY <1>3, <1>4 DEF SolvesUp
<1>7. d \in Leaving(L, db, r)
  BY DEF Leaving
<1> HIDE DEF L
<1>8. d.to # db => d \in F[r]
  BY <1>6, <1>7 DEF UpOf
<1>9. d.to = db /\ next # r => F[next] \subseteq F[r]
  BY <1>6, <1>7 DEF UpOf
<1>10. d.to = db => F[next] \subseteq F[r]
  BY <1>9
<1> QED  BY <1>3, <1>5, <1>8, <1>10 DEF S

\* Who answers is evaluated remotely, and reads a relation of that database.
LEMMA AnsweringIs ==
  ASSUME NEW n, NEW rank, NEW place, IsProgram(ast, n, rank, place),
         Planned(ast, place, distributions), NEW db, db # LocalDbId, NEW y \in Answering(db)
  PROVE  /\ y \in DOMAIN ast.relations /\ TypeOf(ast, y) = "EventView"
         /\ place[y].fromDbId = db /\ place[y].dbId = LocalDbId
         /\ \E z \in ToSet(RefsOf(ast, y)) : place[z].dbId = db
<1>1. PICK d \in ToSet(distributions) : /\ d.relationName = y /\ d.from = db /\ d.to = LocalDbId
                                        /\ TypeOf(ast, y) = "EventView"
  BY DEF Answering
<1>2. IsNeeded(ast, place, d) /\ y \in DOMAIN ast.relations
  BY <1>1 DEF Planned, PlannedSet, IsNeeded
<1>3. place[y].fromDbId = db
  BY <1>1, <1>2, EventViewFrom
<1>4. place[y].dbId = LocalDbId /\ y \in Derived(ast)
  BY <1>1, <1>2, TypesPlace
<1> DEFINE s   == RefsOf(ast, y)
           ids == [i \in DOMAIN s |-> place[s[i]].dbId]
<1>5. /\ s # <<>> /\ s \in Seq(DOMAIN ast.relations)
      /\ \A i \in DOMAIN s : s[i] \in ToSet(s) /\ s[i] \in DOMAIN ast.relations
  BY <1>2, <1>4, ReadsAre DEF IsProgram, Sound
<1>6. place[y] = PlaceAt("EventView", OwnerOf(ast, y, place))
  BY <1>1, <1>2 DEF IsProgram, PlacedBy
<1>7. PlaceAt("EventView", OwnerOf(ast, y, place)).fromDbId = OwnerOf(ast, y, place)
  BY DEF PlaceAt
<1>8. SelectRelationEvalOwner(ids) = db
  BY <1>3, <1>5, <1>6, <1>7 DEF OwnerOf
<1> HIDE DEF s
<1>9. ids \in Seq(Db) /\ DOMAIN ids = DOMAIN s
  <2>1. \A i \in DOMAIN s : place[s[i]].dbId \in Db
    BY <1>5, TypesPlace
  <2>2. DOMAIN s = 1..Len(s) /\ Len(s) \in Nat
    BY <1>5
  <2> QED  BY <2>1, <2>2
<1>10. db \in ToSet(ids)
  BY <1>8, <1>9, OwnerIsAmong
<1>11. PICK i \in DOMAIN s : db = place[s[i]].dbId
  BY <1>9, <1>10 DEF ToSet
<1> QED  BY <1>1, <1>2, <1>3, <1>4, <1>5, <1>11 DEF s

LEMMA BoundOutputIsFed ==
  ASSUME NEW n, NEW rank, NEW place,
         IsRunning(ast, n, rank, place, distributions, sqlAstSpecPerDb),
         NEW o \in Outputs, NEW db \in Remotes, NEW y \in Answering(db),
         o \in DeriveDependentRelations(ast.depTree, y), ~OverSplitOutput(o)
  PROVE  \E t \in GetStaticAsyncViewTrigger(o) :
           [destination |-> LocalDbId, relation |-> y]
             \in GetBubbledUpRelationToShipForStatic(t.dbId, t.relation, o)
<1> DEFINE L == ToSet(distributions)
<1>1. /\ IsProgram(ast, n, rank, place) /\ Planned(ast, place, distributions)
      /\ Ledger(ast, place, distributions, {}) /\ db # LocalDbId
  BY DEF IsRunning, Remotes
<1>2. /\ y \in DOMAIN ast.relations /\ TypeOf(ast, y) = "EventView"
      /\ place[y].fromDbId = db /\ place[y].dbId = LocalDbId
      /\ \E z \in ToSet(RefsOf(ast, y)) : place[z].dbId = db
  BY <1>1, AnsweringIs
<1>3. PICK z \in ToSet(RefsOf(ast, y)) : place[z].dbId = db
  BY <1>2
<1>4. y \in MadeOf(Reading(ast), o) /\ NoSplitBelow(ast, o)
  BY <1>1, <1>2, DependsMadeOf, NotOverSplit
<1>5. NeededIn(ast, place, o) \subseteq L /\ \A d \in NeededIn(ast, place, o) : d.finalOutputName = o
  <2>1. OfOutput(L, o) = NeededIn(ast, place, o)
    BY <1>1, <1>4 DEF Ledger, Outputs
  <2> QED  BY <2>1 DEF OfOutput
<1> DEFINE own  == OwnOf(place, o, y)
           ship == ShipOf(place, o, z, y)
<1>6. own \in L /\ own.finalOutputName = o /\ ship \in L /\ ship.finalOutputName = o
  <2>1. Reading(ast)[y].dependsOn = RefsOf(ast, y)
    BY <1>2 DEF Reading
  <2>2. own \in Needs(ast, Reading(ast), place, o, y) /\ ship \in Needs(ast, Reading(ast), place, o, y)
    BY <2>1, <1>2 DEF Needs
  <2>3. own \in NeededIn(ast, place, o) /\ ship \in NeededIn(ast, place, o)
    BY <2>2, <1>4 DEF NeededIn, NeededBy
  <2> HIDE DEF own, ship, L
  <2> QED  BY <2>3, <1>5
<1>7. /\ own.relationName = y /\ own.from = db /\ own.to = LocalDbId
      /\ ship.relationName = z /\ ship.forRelationName = y /\ ship.from = db /\ ship.to = db
  BY <1>2, <1>3 DEF OwnOf, ShipOf, Distribution
<1> HIDE DEF own, ship, L
<1>8. own \in BubbledUp(db, y)
  BY <1>1, <1>6, <1>7, BubblesUp DEF L
<1>9. BubbledUp(db, y) \subseteq BubbledUp(db, z)
  BY <1>1, <1>6, <1>7, BubblesUp DEF L
<1> DEFINE t == [dbId |-> ship.from, relation |-> ship.relationName]
<1>10. t \in GetStaticAsyncViewTrigger(o)
  BY <1>1, <1>6, <1>7 DEF GetStaticAsyncViewTrigger, L
<1>11. t.dbId = db /\ t.relation = z
  BY <1>7
<1>12. [destination |-> own.to, relation |-> own.relationName]
         \in GetBubbledUpRelationToShipForStatic(db, z, o)
  BY <1>6, <1>8, <1>9 DEF GetBubbledUpRelationToShipForStatic, Sent
<1> HIDE DEF t
<1> QED  BY <1>7, <1>10, <1>11, <1>12

(***************************************************************************)
(* Binding an output makes the remote databases answer for every event view*)
(* that it shows, before any event.                                        *)
(***************************************************************************)
THEOREM OutputsAreFed == Spec => []BoundOutputsAreFed
<1>1. PlanInv => BoundOutputsAreFed
  <2> SUFFICES ASSUME PlanInv, AsWritten,
                      NEW o \in Outputs, NEW db \in Remotes, NEW y \in Answering(db),
                      o \in DeriveDependentRelations(ast.depTree, y) /\ ~OverSplitOutput(o)
               PROVE  \E t \in GetStaticAsyncViewTrigger(o) :
                        [destination |-> LocalDbId, relation |-> y]
                          \in GetBubbledUpRelationToShipForStatic(t.dbId, t.relation, o)
    BY DEF BoundOutputsAreFed
  <2> QED  BY RunningAsWritten, BoundOutputIsFed
<1> QED  BY <1>1, PlanInvariant, PTL

-----------------------------------------------------------------------------
\* A view of the main database that no remote one answers for, over e or over
\* what is derived, reads in the main database; what it brings up its reads do.
LEMMA ReadLocally ==
  ASSUME NEW n, NEW rank, NEW place,
         IsRunning(ast, n, rank, place, distributions, sqlAstSpecPerDb),
         NEW w \in Derived(ast), place[w].dbId = LocalDbId,
         \E d \in ToSet(distributions) : d.relationName = w,
         w \notin UNION {Answering(db) : db \in Remotes},
         NEW z \in ToSet(RefsOf(ast, w)), TypeOf(ast, z) # "ExistingAndImmutable"
  PROVE  /\ place[z].dbId = LocalDbId
         /\ \E d \in ToSet(distributions) : d.relationName = z
         /\ BubbledUp(LocalDbId, w) \subseteq BubbledUp(LocalDbId, z)
<1> DEFINE L == ToSet(distributions)
<1>1. /\ IsProgram(ast, n, rank, place) /\ Planned(ast, place, distributions)
      /\ SpecsAre(ast, place, L, sqlAstSpecPerDb) /\ Ordered(ast, distributions)
      /\ OutputsLocal(ast, place) /\ Sound(ast)
  BY DEF IsRunning, IsProgram, Ledger
<1>2. /\ w \in DOMAIN ast.relations /\ RefsOf(ast, w) # <<>> /\ z \in DOMAIN ast.relations
      /\ TypeOf(ast, w) \in {"View", "EventView", "Output"}
  BY <1>1 DEF Sound, Derived, OfType
<1>3. Complete(ast, place, L, w)
  BY <1>1 DEF Planned, PlannedSet
<1>4. PICK d \in L : /\ d.relationName = z /\ d.forRelationName = w
                     /\ d.from = place[z].dbId /\ d.to = place[w].fromDbId
  BY <1>3 DEF Complete
<1>5. place[w].fromDbId = LocalDbId
  <2>1. CASE TypeOf(ast, w) = "View"
    BY <2>1, <1>1, <1>2, TypesPlace
  <2>2. CASE TypeOf(ast, w) = "Output"
    BY <2>2, <1>1, <1>2 DEF OutputsLocal, OfType
  <2>3. CASE TypeOf(ast, w) = "EventView"
    <3> SUFFICES ASSUME place[w].fromDbId # LocalDbId PROVE FALSE
      OBVIOUS
    <3>1. PICK x \in L : x.relationName = w /\ x.forRelationName = w
      <4>1. PICK i \in DOMAIN distributions : distributions[i].relationName = w
        BY DEF ToSet
      <4>2. \E j \in DOMAIN distributions : /\ distributions[j].relationName = w
                                            /\ distributions[j].forRelationName = w
        <5>1. distributions \in Seq(DistributionSet)
          BY <1>1 DEF Planned
        <5>2. DOMAIN distributions = 1..Len(distributions) /\ Len(distributions) \in Nat
          BY <5>1
        <5>3. \A j \in 1..(i - 1) : j \in DOMAIN distributions
          BY <5>2
        <5> QED  BY <1>1, <2>3, <4>1, <5>3 DEF Ordered
      <4> QED  BY <4>2 DEF ToSet
    <3>2. IsNeeded(ast, place, x) /\ TypeOf(ast, x.relationName) = "EventView"
      BY <1>1, <2>3, <3>1 DEF Planned, PlannedSet
    <3>3. x.from = place[w].fromDbId /\ x.to = LocalDbId
      BY <1>1, <3>1, <3>2, EventViewFrom
    <3>4. w \in Answering(place[w].fromDbId)
      BY <3>1, <3>2, <3>3 DEF Answering
    <3>5. ~NotBrought(ast, d)
      BY <1>1, <1>2, <1>4, TypesPlace DEF NotBrought
    <3>6. place[w].fromDbId \in DOMAIN sqlAstSpecPerDb
      BY <1>1, <1>4, <3>5 DEF SpecsAre
    <3> QED  BY <3>4, <3>6 DEF Remotes
  <2> QED  BY <1>2, <2>1, <2>2, <2>3
<1>6. place[z].dbId = LocalDbId
  <2> DEFINE s   == RefsOf(ast, w)
             ids == [i \in DOMAIN s |-> place[s[i]].dbId]
  <2>1. s \in Seq(DOMAIN ast.relations) /\ \A i \in DOMAIN s : s[i] \in DOMAIN ast.relations
    BY <1>1, <1>2, ReadsAre
  <2>2. place[w] = PlaceAt(TypeOf(ast, w), OwnerOf(ast, w, place))
    BY <1>1, <1>2 DEF IsProgram, PlacedBy
  <2>3. SelectRelationEvalOwner(ids) = LocalDbId
    BY <2>2, <1>2, <1>5 DEF PlaceAt, OwnerOf
  <2> HIDE DEF s
  <2>4. ids \in Seq(Db) /\ DOMAIN ids = DOMAIN s
    <3>1. \A i \in DOMAIN s : place[s[i]].dbId \in Db
      BY <2>1, <1>1, TypesPlace
    <3>2. DOMAIN s = 1..Len(s) /\ Len(s) \in Nat
      BY <2>1
    <3> QED  BY <3>1, <3>2
  <2>5. \A i \in DOMAIN s : place[s[i]].dbId = LocalDbId
    <3>1. \A i \in DOMAIN ids : ids[i] = LocalDbId
      BY <2>3, <2>4, LocalOwner
    <3> QED  BY <3>1, <2>4
  <2>6. PICK i \in DOMAIN s : z = s[i]
    BY DEF s, ToSet
  <2> QED  BY <2>5, <2>6
<1>7. BubbledUp(LocalDbId, w) \subseteq BubbledUp(LocalDbId, z)
  BY <1>1, <1>4, <1>5, <1>6, BubblesUp
<1> QED  BY <1>4, <1>6, <1>7

\* What is derived from e in the main database brings nothing up that e does not.
LEMMA ChangesBringUp ==
  ASSUME NEW n, NEW rank, NEW place,
         IsRunning(ast, n, rank, place, distributions, sqlAstSpecPerDb),
         NEW e \in InputEvents, NEW x \in ChangesWith(e), place[x].dbId = LocalDbId,
         \E d \in ToSet(distributions) : d.relationName = x
  PROVE  BubbledUp(LocalDbId, x) \subseteq BubbledUp(LocalDbId, e)
<1> DEFINE t       == ast.depTree
           answers == UNION {Answering(db) : db \in Remotes}
           local   == DOMAIN t.node \ answers
           u       == [t EXCEPT !.node = [r \in local |-> @[r]]]
           In(z)   == place[z].dbId = LocalDbId /\ \E d \in ToSet(distributions) : d.relationName = z
           Up(z)   == BubbledUp(LocalDbId, z)
           Q       == {z \in Derived(ast) : In(z) => Up(z) \subseteq Up(e)}
<1>1. /\ IsProgram(ast, n, rank, place) /\ Planned(ast, place, distributions)
      /\ Sound(ast) /\ IsTree(t, AllNames)
  BY DEF IsRunning, IsProgram, Mirror
<1>2. e \in DOMAIN ast.relations /\ TypeOf(ast, e) \in {"EventTable", "EventView"}
  BY <1>1, EventIs
<1>3. u.node = [r \in local |-> t.node[r]]
  BY <1>1 DEF IsTree
<1>4. x = e \/ x \in DeriveDependentRelations(u, e)
  BY DEF ChangesWith
<1> HIDE DEF u, answers
<1>5. LeastWithReaders(u, e, DeriveDependentRelations(u, e))
  <2>1. IsFiniteSet(DOMAIN t.node) /\ DOMAIN u.node \subseteq DOMAIN t.node
    BY <1>1, <1>3, TreeIsFinite
  <2>2. IsFiniteSet(DOMAIN u.node)
    BY <2>1, FS_Subset
  <2> QED  BY <2>2, DependentsAreLeast
<1>6. ASSUME NEW z \in Q \cup {e}, NEW w \in Readers(u, z) PROVE w \in Q
  <2>1. w \in DOMAIN t.node /\ w \notin answers /\ Contains(t.node[w].dependsOn, z)
    BY <1>3 DEF Readers
  <2>2. w \in DOMAIN ast.relations /\ t.node[w].dependsOn = RefsOf(ast, w)
    BY <2>1, <1>1 DEF IsProgram, Mirror
  <2>3. z \in ToSet(RefsOf(ast, w))
    <3>1. RefsOf(ast, w) \in Seq(DOMAIN ast.relations)
      BY <1>1, <2>2, ReadsAre
    <3> QED  BY <2>1, <2>2, <3>1, ContainsIs
  <2>4. w \in Derived(ast)
    <3>1. RefsOf(ast, w) # <<>>
      BY <2>3, NoneIs
    <3> QED  BY <3>1, <2>2, <1>1, ReadsOfNothing DEF Sound, RefsOf
  <2>5. TypeOf(ast, z) # "ExistingAndImmutable"
    <3>1. CASE z = e
      BY <3>1, <1>2
    <3>2. CASE z \in Derived(ast)
      BY <3>2 DEF Derived, OfType
    <3> QED  BY <3>1, <3>2
  <2>6. ASSUME In(w) PROVE Up(w) \subseteq Up(e)
    <3>1. In(z) /\ Up(w) \subseteq Up(z)
      BY <2>1, <2>3, <2>4, <2>5, <2>6, ReadLocally DEF answers
    <3> HIDE DEF In, Up
    <3> QED  BY <3>1
  <2> HIDE DEF In, Up
  <2> QED  BY <2>4, <2>6
<1>7. HasReaders(u, e, Q)
  <2> HIDE DEF Q
  <2> QED  BY <1>6 DEF HasReaders
<1>8. DeriveDependentRelations(u, e) \subseteq Q
  <2> HIDE DEF Q
  <2> QED  BY <1>5, <1>7 DEF LeastWithReaders
<1>9. In(x)
  OBVIOUS
<1>10. x = e \/ x \in Q
  <2> HIDE DEF Q
  <2> QED  BY <1>4, <1>8
<1>11. Up(x) \subseteq Up(e)
  <2> HIDE DEF Up, In
  <2> QED  BY <1>9, <1>10
<1> QED  BY <1>11

LEMMA EventReachesView ==
  ASSUME NEW n, NEW rank, NEW place,
         IsRunning(ast, n, rank, place, distributions, sqlAstSpecPerDb),
         NEW e \in InputEvents, NEW db \in Remotes, NEW y \in Answering(db), y \in EventViewsOf(e),
         NEW x \in ToSet(ast.depTree.node[y].dependsOn), x \in ChangesWith(e),
         ~FromAnotherRemote(db, x)
  PROVE  /\ \/ EvaluatedAt(db, x)
            \/ [destination |-> db, relation |-> x]
                 \in GetBubbledUpRelationToShipForEvent(LocalDbId, e, EventViewsOf(e))
         /\ [destination |-> LocalDbId, relation |-> y] \in GetRelationsToShipForDb(db, e)
<1> DEFINE L == ToSet(distributions)
<1>1. /\ IsProgram(ast, n, rank, place) /\ Planned(ast, place, distributions)
      /\ Mirror(ast, {}) /\ db # LocalDbId
  BY DEF IsRunning, IsProgram, Remotes
<1>2. y \in DOMAIN ast.relations /\ TypeOf(ast, y) = "EventView" /\ place[y].fromDbId = db
  BY <1>1, AnsweringIs
<1>3. [destination |-> LocalDbId, relation |-> y] \in GetRelationsToShipForDb(db, e)
  <2>1. PICK d \in L : d.relationName = y /\ d.from = db /\ d.to = LocalDbId
    BY DEF Answering
  <2>2. y \in Dependents(e)
    BY DEF EventViewsOf, Dependents
  <2> QED  BY <2>1, <2>2, <1>1 DEF GetRelationsToShipForDb, Shipments
<1>4. x \in ToSet(RefsOf(ast, y))
  <2>1. y \in Derived(ast)
    BY <1>2 DEF Derived, OfType
  <2> QED  BY <2>1, <1>1 DEF Mirror
<1>5. Complete(ast, place, L, y)
  <2>1. \E d \in L : d.relationName = y
    BY DEF Answering
  <2> QED  BY <2>1, <1>1 DEF Planned, PlannedSet
<1>6. PICK d \in L : /\ d.relationName = x /\ d.forRelationName = y
                     /\ d.from = place[x].dbId /\ d.to = db
  BY <1>2, <1>4, <1>5 DEF Complete
<1>7. CASE place[x].dbId = db
  BY <1>3, <1>6, <1>7 DEF EvaluatedAt
<1>8. CASE place[x].dbId \notin {LocalDbId, db}
  BY <1>6, <1>8 DEF FromAnotherRemote
<1>9. CASE place[x].dbId = LocalDbId
  <2>1. d \in BubbledUp(LocalDbId, x)
    BY <1>1, <1>6, <1>9, BubblesUp
  <2>2. BubbledUp(LocalDbId, x) \subseteq BubbledUp(LocalDbId, e)
    BY <1>6, <1>9, ChangesBringUp
  <2>3. [destination |-> d.to, relation |-> d.relationName]
          \in GetBubbledUpRelationToShipForEvent(LocalDbId, e, EventViewsOf(e))
    BY <2>1, <2>2, <1>6 DEF GetBubbledUpRelationToShipForEvent, Sent
  <2> QED  BY <2>3, <1>3, <1>6
<1> QED  BY <1>7, <1>8, <1>9

(***************************************************************************)
(* An event reaches the event views that read it, directly or through views*)
(* of the main database, and their answers come back -- if they read a     *)
(* registered table themselves.                                            *)
(***************************************************************************)
THEOREM EventsReach == Spec => []EventsReachTheirViews
<1>1. PlanInv => EventsReachTheirViews
  <2> SUFFICES ASSUME PlanInv, AsWritten, NEW e \in InputEvents,
                      NEW db \in Remotes, NEW y \in Answering(db), y \in EventViewsOf(e),
                      NEW x \in ToSet(ast.depTree.node[y].dependsOn), x \in ChangesWith(e),
                      ~FromAnotherRemote(db, x)
               PROVE  /\ \/ EvaluatedAt(db, x)
                         \/ [destination |-> db, relation |-> x]
                              \in GetBubbledUpRelationToShipForEvent(LocalDbId, e, EventViewsOf(e))
                      /\ [destination |-> LocalDbId, relation |-> y] \in GetRelationsToShipForDb(db, e)
    BY DEF EventsReachTheirViews, ReachesViews
  <2> QED  BY RunningAsWritten, EventReachesView
<1> QED  BY <1>1, PlanInvariant, PTL
=============================================================================
