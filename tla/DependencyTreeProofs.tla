-------------------------- MODULE DependencyTreeProofs --------------------------
(***************************************************************************)
(* Lemmas about the operators of DependencyTree, for trees of any size:    *)
(* what the additions make of a tree, and what the three algorithms over it*)
(* compute.  They are loops, written as recursive functions, so that first *)
(* comes what is needed of recursion: that a function which is defined by  *)
(* it exists, and that what a step keeps holds of the result.              *)
(***************************************************************************)
EXTENDS DependencyTree, TLAPS, FiniteSetTheorems, SequenceTheorems, WellFoundedInduction

-----------------------------------------------------------------------------
(***************************************************************************)
(* Recursion.  A function on S with values in T is defined by its value    *)
(* out[s] where s is in done, and elsewhere by step[s] from its value at   *)
(* next[s], which is before s in a well-founded relation.                  *)
(***************************************************************************)
\* f obeys the recursion on the part A of its arguments, which is closed under next.
Attempt(f, A, S, T, done, out, step, next) ==
  /\ A \subseteq S
  /\ \A s \in A \ done : next[s] \in A
  /\ f \in [A -> T]
  /\ \A s \in A : f[s] = IF s \in done THEN out[s] ELSE step[s][f[next[s]]]

LEMMA AttemptsAgree ==
  ASSUME NEW R, NEW S, NEW T, NEW done, NEW out, NEW step, NEW next,
         IsWellFoundedOn(R, S),
         \A s \in S \ done : next[s] \in S /\ <<next[s], s>> \in R,
         NEW f, NEW A, Attempt(f, A, S, T, done, out, step, next),
         NEW g, NEW B, Attempt(g, B, S, T, done, out, step, next)
  PROVE  \A s \in A \cap B : f[s] = g[s]
<1> SUFFICES ASSUME NEW s0 \in A \cap B, f[s0] # g[s0] PROVE FALSE
  OBVIOUS
<1> DEFINE D == {s \in A \cap B : f[s] # g[s]}
<1>1. D \subseteq S /\ D # {}
  BY DEF Attempt
<1>2. PICK s \in D : \A y \in D : ~(<<y, s>> \in R)
  <2> HIDE DEF D
  <2> QED BY <1>1, WFMin
<1>3. s \notin done
  BY <1>2 DEF Attempt
<1>4. next[s] \in A \cap B /\ <<next[s], s>> \in R
  BY <1>2, <1>3 DEF Attempt
<1>5. f[next[s]] = g[next[s]]
  BY <1>2, <1>4
<1> QED BY <1>2, <1>3, <1>5 DEF Attempt

Recursive(R, S, T, done, out, step, next) ==
  /\ IsWellFoundedOn(R, S)
  /\ \A s \in S \cap done : out[s] \in T
  /\ \A s \in S \ done : next[s] \in S /\ <<next[s], s>> \in R /\ step[s] \in [T -> T]

Solves(f, S, T, done, out, step, next) ==
  /\ f \in [S -> T]
  /\ \A s \in S : f[s] = IF s \in done THEN out[s] ELSE step[s][f[next[s]]]

LEMMA Recursion ==
  ASSUME NEW R, NEW S, NEW T, NEW done, NEW out, NEW step, NEW next,
         Recursive(R, S, T, done, out, step, next)
  PROVE  \E f : Solves(f, S, T, done, out, step, next)
<1>0. /\ IsWellFoundedOn(R, S)
      /\ \A s \in S \cap done : out[s] \in T
      /\ \A s \in S \ done : next[s] \in S /\ <<next[s], s>> \in R /\ step[s] \in [T -> T]
  BY DEF Recursive
<1> DEFINE Att(f, A) == Attempt(f, A, S, T, done, out, step, next)
           Covered == {s \in S : \E A \in SUBSET S : s \in A /\ \E f \in [A -> T] : Att(f, A)}
<1>1. ASSUME NEW s \in S, s \in done \/ next[s] \in Covered PROVE s \in Covered
  <2>1. CASE s \in done
    <3> DEFINE f == [x \in {s} |-> out[s]]
    <3>1. f \in [{s} -> T] /\ f[s] = out[s]
      BY <2>1, <1>0
    <3> HIDE DEF f
    <3>2. Att(f, {s})
      BY <3>1, <2>1, <1>0 DEF Attempt
    <3> QED BY <3>1, <3>2
  <2>2. CASE s \notin done
    <3>1. PICK A \in SUBSET S : next[s] \in A /\ \E f \in [A -> T] : Att(f, A)
      BY <1>1, <2>2
    <3>2. PICK f \in [A -> T] : Att(f, A)
      BY <3>1
    <3>3. CASE s \in A
      BY <3>2, <3>3
    <3>4. CASE s \notin A
      <4> DEFINE g == [x \in A \cup {s} |-> IF x = s THEN step[s][f[next[s]]] ELSE f[x]]
      <4>1. f[next[s]] \in T /\ step[s] \in [T -> T]
        BY <3>1, <2>2, <1>0
      <4>2. step[s][f[next[s]]] \in T
        BY <4>1
      <4>3. /\ g \in [A \cup {s} -> T] /\ g[s] = step[s][f[next[s]]]
            /\ \A x \in A : g[x] = f[x]
        BY <4>2, <3>4
      <4> HIDE DEF g
      <4>4. g[s] = step[s][g[next[s]]]
        BY <4>3, <3>1
      <4>5. \A x \in A : next[x] \in A \/ x \in done
        BY <3>2 DEF Attempt
      <4>6. \A x \in A : g[x] = IF x \in done THEN out[x] ELSE step[x][g[next[x]]]
        BY <3>2, <4>3, <4>5 DEF Attempt
      <4>7. Att(g, A \cup {s})
        BY <4>3, <4>4, <4>5, <4>6, <3>1, <2>2, <1>0 DEF Attempt
      <4> QED BY <4>3, <4>7
    <3> QED BY <3>3, <3>4
  <2> QED BY <2>1, <2>2
<1>2. Covered = S
  <2> SUFFICES ASSUME S \ Covered # {} PROVE FALSE
    OBVIOUS
  <2>1. PICK s \in S \ Covered : \A y \in S \ Covered : ~(<<y, s>> \in R)
    <3> HIDE DEF Covered
    <3>1. S \ Covered \subseteq S
      OBVIOUS
    <3> QED BY <3>1, <1>0, WFMin
  <2>2. s \notin done /\ next[s] \in S /\ <<next[s], s>> \in R
    BY <2>1, <1>1, <1>0
  <2>3. next[s] \in Covered
    BY <2>1, <2>2
  <2> QED BY <2>1, <2>3, <1>1
<1> DEFINE Part(s) == CHOOSE A \in SUBSET S : s \in A /\ \E f \in [A -> T] : Att(f, A)
           Fcn(s) == CHOOSE f \in [Part(s) -> T] : Att(f, Part(s))
           h == [s \in S |-> Fcn(s)[s]]
<1>3. ASSUME NEW s \in S
      PROVE  s \in Part(s) /\ Fcn(s) \in [Part(s) -> T] /\ Att(Fcn(s), Part(s))
  <2>1. \E A \in SUBSET S : s \in A /\ \E f \in [A -> T] : Att(f, A)
    BY <1>2
  <2>2. s \in Part(s) /\ \E f \in [Part(s) -> T] : Att(f, Part(s))
    <3> HIDE DEF Att
    <3> QED BY <2>1
  <2> HIDE DEF Att, Part
  <2> QED BY <2>2
<1>4. h \in [S -> T] /\ \A s \in S : h[s] = Fcn(s)[s]
  BY <1>3
<1>5. ASSUME NEW s \in S \ done PROVE h[s] = step[s][h[next[s]]]
  <2> DEFINE n == next[s]
  <2>1. n \in S /\ n \in Part(s)
    BY <1>3, <1>0 DEF Attempt
  <2> HIDE DEF Part, Fcn, h
  <2>2. Fcn(s)[n] = Fcn(n)[n]
    <3>1. Attempt(Fcn(s), Part(s), S, T, done, out, step, next) /\ Attempt(Fcn(n), Part(n), S, T, done, out, step, next)
      BY <1>3, <2>1
    <3>2. n \in Part(s) \cap Part(n)
      BY <1>3, <2>1
    <3>3. \A x \in S \ done : next[x] \in S /\ <<next[x], x>> \in R
      BY <1>0
    <3>4. \A x \in Part(s) \cap Part(n) : Fcn(s)[x] = Fcn(n)[x]
      BY <3>1, <3>3, <1>0, AttemptsAgree
    <3> QED BY <3>2, <3>4
  <2>3. Fcn(s)[s] = step[s][Fcn(s)[n]]
    BY <1>3 DEF Attempt
  <2> QED BY <1>4, <2>1, <2>2, <2>3
<1>6. ASSUME NEW s \in S, s \in done PROVE h[s] = out[s]
  <2> HIDE DEF Part, Fcn, h
  <2>1. s \in Part(s) /\ Attempt(Fcn(s), Part(s), S, T, done, out, step, next)
    BY <1>3
  <2>2. Fcn(s)[s] = out[s]
    BY <2>1, <1>6 DEF Attempt
  <2> QED BY <1>4, <2>2
<1> HIDE DEF h
<1> QED BY <1>4, <1>5, <1>6 DEF Solves

(***************************************************************************)
(* What is below comes with three measures, the first being the weightiest.*)
(***************************************************************************)
LEMMA LeastNumber ==
  ASSUME NEW T, T \subseteq Nat, T # {}
  PROVE  \E x \in T : \A y \in T : x <= y
<1>1. IsWellFoundedOn(OpToRel(<, Nat), Nat)
  BY NatLessThanWellFounded
<1>2. PICK x \in T : \A y \in T : ~(<<y, x>> \in OpToRel(<, Nat))
  BY <1>1, WFMin
<1>3. \A y \in T : ~(y < x)
  BY <1>2 DEF OpToRel
<1> QED  BY <1>3

Lighter(a, b, c, x, y) ==
  a[x] < a[y] \/ (a[x] = a[y] /\ (b[x] < b[y] \/ (b[x] = b[y] /\ c[x] < c[y])))

Less(S, a, b, c) == {p \in S \X S : Lighter(a, b, c, p[1], p[2])}

LEMMA LessIsWellFounded ==
  ASSUME NEW S, NEW a \in [S -> Nat], NEW b \in [S -> Nat], NEW c \in [S -> Nat]
  PROVE  IsWellFoundedOn(Less(S, a, b, c), S)
<1>1. ASSUME NEW T \in SUBSET S, T # {}
      PROVE  \E x \in T : \A y \in T : ~(<<y, x>> \in Less(S, a, b, c))
  <2>1. PICK x1 \in T : \A y \in T : a[x1] <= a[y]
    <3> DEFINE M == {a[x] : x \in T}
    <3>1. M \subseteq Nat /\ M # {}
      BY <1>1
    <3>2. PICK m \in M : \A k \in M : m <= k
      BY <3>1, LeastNumber
    <3> QED  BY <3>2
  <2> DEFINE T1 == {x \in T : a[x] = a[x1]}
  <2>2. PICK x2 \in T1 : \A y \in T1 : b[x2] <= b[y]
    <3> DEFINE M == {b[x] : x \in T1}
    <3>1. M \subseteq Nat /\ M # {}
      BY <2>1
    <3>2. PICK m \in M : \A k \in M : m <= k
      BY <3>1, LeastNumber
    <3> QED  BY <3>2
  <2> DEFINE T2 == {x \in T1 : b[x] = b[x2]}
  <2>3. PICK x3 \in T2 : \A y \in T2 : c[x3] <= c[y]
    <3> DEFINE M == {c[x] : x \in T2}
    <3>1. M \subseteq Nat /\ M # {}
      BY <2>2
    <3>2. PICK m \in M : \A k \in M : m <= k
      BY <3>1, LeastNumber
    <3> QED  BY <3>2
  <2>4. ASSUME NEW y \in T PROVE ~Lighter(a, b, c, y, x3)
    <3>1. /\ x3 \in T /\ a[x3] = a[x1] /\ b[x3] = b[x2] /\ a[x1] <= a[y]
          /\ a[y] = a[x1] => b[x2] <= b[y]
          /\ a[y] = a[x1] /\ b[y] = b[x2] => c[x3] <= c[y]
      BY <2>1, <2>2, <2>3
    <3>2. /\ a[y] \in Nat /\ b[y] \in Nat /\ c[y] \in Nat
          /\ a[x3] \in Nat /\ b[x3] \in Nat /\ c[x3] \in Nat
      BY <3>1
    <3> QED  BY <3>1, <3>2 DEF Lighter
  <2>5. x3 \in T
    BY <2>3
  <2> QED  BY <2>4, <2>5 DEF Less
<1> QED  BY <1>1, MinWF

\* Induction: P is everything if each s is in it when all that is lighter is.
LEMMA LessInduction ==
  ASSUME NEW S, NEW a \in [S -> Nat], NEW b \in [S -> Nat], NEW c \in [S -> Nat],
         NEW P \in SUBSET S,
         \A s \in S : (\A x \in S : Lighter(a, b, c, x, s) => x \in P) => s \in P
  PROVE  P = S
<1> SUFFICES ASSUME S \ P # {} PROVE FALSE
  OBVIOUS
<1>1. S \ P \subseteq S /\ IsWellFoundedOn(Less(S, a, b, c), S)
  BY LessIsWellFounded
<1>2. PICK s \in S \ P : \A y \in S \ P : ~(<<y, s>> \in Less(S, a, b, c))
  BY <1>1, WFMin
<1> QED  BY <1>2 DEF Less

LEMMA NatInd ==
  ASSUME NEW n \in Nat, NEW P \in SUBSET (0..n), 0 \in P,
         \A i \in 1..n : i - 1 \in P => i \in P
  PROVE  P = 0..n
<1> SUFFICES ASSUME (0..n) \ P # {} PROVE FALSE
  OBVIOUS
<1>1. PICK i \in (0..n) \ P : \A j \in (0..n) \ P : i <= j
  <2>1. (0..n) \ P \subseteq Nat
    OBVIOUS
  <2> QED  BY <2>1, LeastNumber
<1>2. i \in 1..n /\ i - 1 \in 0..n
  BY <1>1
<1>3. i - 1 \in P
  BY <1>1, <1>2
<1> QED  BY <1>1, <1>2, <1>3

\* A loop from 1 to n, whose turn i is step[i].
Counts(f, n, T, t, step) ==
  f \in [0..n -> T] /\ f[0] = t /\ \A i \in 1..n : f[i] = step[i][f[i - 1]]

LEMMA ForLoop ==
  ASSUME NEW n \in Nat, NEW T, NEW t \in T, NEW step, step \in [1..n -> [T -> T]]
  PROVE  \E f : Counts(f, n, T, t, step)
<1> DEFINE S    == 0..n
           done == {0}
           m    == [i \in S |-> i]
           out  == [i \in S |-> t]
           next == [i \in S |-> i - 1]
           R    == Less(S, m, m, m)
<1>1. m \in [S -> Nat] /\ \A i \in S : m[i] = i /\ out[i] = t /\ next[i] = i - 1
  OBVIOUS
<1>2. IsWellFoundedOn(R, S)
  <2> HIDE DEF m, S
  <2> QED  BY <1>1, LessIsWellFounded
<1>3. \A i \in S \cap done : out[i] \in T
  BY <1>1
<1>4. \A i \in S \ done : next[i] \in S /\ <<next[i], i>> \in R /\ step[i] \in [T -> T]
  BY <1>1 DEF Less, Lighter
<1>5. Recursive(R, S, T, done, out, step, next)
  <2> HIDE DEF m, out, next, R, S, done
  <2> QED  BY <1>2, <1>3, <1>4 DEF Recursive
<1> HIDE DEF m, out, next, R, done
<1>6. PICK f : Solves(f, S, T, done, out, step, next)
  BY <1>5, Recursion
<1> USE DEF done, Solves
<1>7. f[0] = t /\ \A i \in 1..n : f[i] = step[i][f[i - 1]]
  <2>1. f[0] = out[0] /\ 0 \in 0..n
    BY <1>6
  <2>2. ASSUME NEW i \in 1..n PROVE f[i] = step[i][f[next[i]]] /\ i \in 0..n
    BY <1>6
  <2> QED  BY <1>1, <2>1, <2>2
<1> QED  BY <1>6, <1>7 DEF Counts

\* A loop that goes from s to next[s] until s is in done.
Loops(S, T, done, out, next, a, b, c) ==
  /\ a \in [S -> Nat] /\ b \in [S -> Nat] /\ c \in [S -> Nat]
  /\ \A s \in S \cap done : out[s] \in T
  /\ \A s \in S \ done : next[s] \in S /\ Lighter(a, b, c, next[s], s)

Ends(f, S, T, done, out, next) ==
  f \in [S -> T] /\ \A s \in S : f[s] = IF s \in done THEN out[s] ELSE f[next[s]]

LEMMA WhileLoop ==
  ASSUME NEW S, NEW T, NEW done, NEW out, NEW next, NEW a, NEW b, NEW c,
         Loops(S, T, done, out, next, a, b, c)
  PROVE  \E f : Ends(f, S, T, done, out, next)
<1> DEFINE same == [x \in T |-> x]
           step == [s \in S |-> same]
           R    == Less(S, a, b, c)
<1>1. same \in [T -> T] /\ (\A x \in T : same[x] = x) /\ \A s \in S : step[s] = same
  OBVIOUS
<1>2. IsWellFoundedOn(R, S)
  BY LessIsWellFounded DEF Loops
<1>3. \A s \in S \ done : next[s] \in S /\ <<next[s], s>> \in R /\ step[s] \in [T -> T]
  <2> HIDE DEF same, step
  <2> QED  BY <1>1 DEF Loops, Less
<1> HIDE DEF same, step, R
<1>4. Recursive(R, S, T, done, out, step, next)
  BY <1>2, <1>3 DEF Recursive, Loops
<1>5. PICK f : Solves(f, S, T, done, out, step, next)
  BY <1>4, Recursion
<1>6. f \in [S -> T] /\ \A s \in S \ done : next[s] \in S
  BY <1>3, <1>5 DEF Solves
<1>7. ASSUME NEW s \in S PROVE f[s] = IF s \in done THEN out[s] ELSE f[next[s]]
  <2>1. CASE s \in done
    BY <1>5, <2>1 DEF Solves
  <2>2. CASE s \notin done
    <3>1. f[s] = step[s][f[next[s]]] /\ f[next[s]] \in T
      BY <1>5, <1>6, <2>2 DEF Solves
    <3> QED  BY <3>1, <1>1, <2>2
  <2> QED  BY <2>1, <2>2
<1> QED  BY <1>6, <1>7 DEF Ends

\* What is true of the ends and goes from next[s] to s is true of all results.
LEMMA LoopInduction ==
  ASSUME NEW S, NEW T, NEW done, NEW out, NEW next, NEW a, NEW b, NEW c,
         Loops(S, T, done, out, next, a, b, c),
         NEW P \in SUBSET S, S \cap done \subseteq P,
         \A s \in S \ done : next[s] \in P => s \in P
  PROVE  P = S
<1>1. \A s \in S : (\A x \in S : Lighter(a, b, c, x, s) => x \in P) => s \in P
  BY DEF Loops
<1> QED  BY <1>1, LessInduction DEF Loops

(***************************************************************************)
(* A function on S whose value at r depends on its values at what has a    *)
(* lower rank: it is what n + 1 rounds of step make of any function.       *)
(***************************************************************************)
OnLower(S, T, rank, step) ==
  \A r \in S : \A f, g \in [S -> T] :
    (\A x \in S : rank[x] < rank[r] => f[x] = g[x]) => step[r][f] = step[r][g]

Ranked(n, S, T, rank, step) ==
  /\ rank \in [S -> 0..n] /\ step \in [S -> [[S -> T] -> T]]
  /\ OnLower(S, T, rank, step)

Fixed(f, S, T, step) == f \in [S -> T] /\ \A r \in S : f[r] = step[r][f]

LEMMA RecursionByRank ==
  ASSUME NEW n \in Nat, NEW S, NEW T, NEW t \in T, NEW rank, NEW step,
         Ranked(n, S, T, rank, step)
  PROVE  \E f : Fixed(f, S, T, step)
<1>0. /\ rank \in [S -> 0..n] /\ step \in [S -> [[S -> T] -> T]]
      /\ OnLower(S, T, rank, step)
  BY DEF Ranked
<1> DEFINE G    == [S -> T]
           any  == [r \in S |-> t]
           next == [i \in 1..(n + 1) |-> [f \in G |-> [r \in S |-> step[r][f]]]]
<1>1. any \in G /\ next \in [1..(n + 1) -> [G -> G]]
  BY <1>0
<1>2. \A i \in 1..(n + 1) : \A f \in G : \A r \in S : next[i][f][r] = step[r][f]
  OBVIOUS
<1> HIDE DEF any, next
<1>3. PICK h : Counts(h, n + 1, G, any, next)
  <2> HIDE DEF G
  <2>1. n + 1 \in Nat
    OBVIOUS
  <2> QED  BY <1>1, <2>1, ForLoop
<1>4. h \in [0..(n + 1) -> G] /\ \A i \in 1..(n + 1) : h[i] = next[i][h[i - 1]]
  <2> HIDE DEF G
  <2> QED  BY <1>3 DEF Counts
<1>5. \A i \in 0..(n + 1) : h[i] \in G
  BY <1>4
<1>6. ASSUME NEW i \in 1..(n + 1), NEW r \in S PROVE h[i][r] = step[r][h[i - 1]]
  <2>1. h[i - 1] \in G
    BY <1>5
  <2>2. h[i] = next[i][h[i - 1]]
    BY <1>4
  <2> HIDE DEF G
  <2>3. next[i][h[i - 1]][r] = step[r][h[i - 1]]
    BY <2>1, <1>2
  <2> QED  BY <2>2, <2>3
<1> DEFINE P == {i \in 0..(n + 1) : \A r \in S : rank[r] < i => h[i][r] = step[r][h[i]]}
<1>7. 0 \in P
  BY <1>0
<1>8. ASSUME NEW i \in 1..(n + 1), i - 1 \in P PROVE i \in P
  <2> SUFFICES ASSUME NEW r \in S, rank[r] < i PROVE h[i][r] = step[r][h[i]]
    OBVIOUS
  <2>1. h[i] \in G /\ h[i - 1] \in G
    BY <1>5
  <2>2. ASSUME NEW x \in S, rank[x] < rank[r] PROVE h[i - 1][x] = h[i][x]
    <3>1. rank[x] < i - 1
      BY <2>2, <1>0
    <3>2. h[i - 1][x] = step[x][h[i - 1]]
      BY <3>1, <1>8
    <3> QED  BY <3>2, <1>6
  <2>3. step[r][h[i - 1]] = step[r][h[i]]
    BY <2>1, <2>2, <1>0 DEF OnLower
  <2> QED  BY <2>3, <1>6
<1>9. P = 0..(n + 1)
  <2> HIDE DEF P
  <2>1. P \subseteq 0..(n + 1) /\ n + 1 \in Nat
    BY DEF P
  <2> QED  BY <2>1, <1>7, <1>8, NatInd
<1>10. \A r \in S : rank[r] < n + 1
  BY <1>0
<1>11. h[n + 1] \in G /\ \A r \in S : h[n + 1][r] = step[r][h[n + 1]]
  <2>1. n + 1 \in P
    <3> HIDE DEF P
    <3> QED  BY <1>9
  <2> QED  BY <2>1, <1>5, <1>10
<1> QED  BY <1>11 DEF Fixed

-----------------------------------------------------------------------------
(***************************************************************************)
(* The trees over the names in N.  The keys are those of the nodes.        *)
(***************************************************************************)
Nodes(N) == [dependsOn : Seq(N), isDependedBy : Seq(N), isDynamic : BOOLEAN]

IsTree(t, N) ==
  /\ t = [order |-> t.order, node |-> t.node]
  /\ t.order \in Seq(N)
  /\ DOMAIN t.node \subseteq N
  /\ t.node \in [DOMAIN t.node -> Nodes(N)]
  /\ {t.order[i] : i \in DOMAIN t.order} = DOMAIN t.node
  /\ \A i, j \in DOMAIN t.order : t.order[i] = t.order[j] => i = j

Trees(N) ==
  {t \in [order : Seq(N), node : UNION {[D -> Nodes(N)] : D \in SUBSET N}] : IsTree(t, N)}

LEMMA TreesAre == \A N, t : t \in Trees(N) <=> IsTree(t, N)
<1> TAKE N, t
<1>1. ASSUME IsTree(t, N) PROVE t \in Trees(N)
  <2>1. t.node \in UNION {[D -> Nodes(N)] : D \in SUBSET N}
    BY <1>1 DEF IsTree
  <2>2. t \in [order : Seq(N), node : UNION {[D -> Nodes(N)] : D \in SUBSET N}]
    BY <1>1, <2>1 DEF IsTree
  <2> QED  BY <1>1, <2>2 DEF Trees
<1> QED  BY <1>1 DEF Trees

LEMMA EmptyIsTree == \A N : IsTree(EmptyTree, N)
BY DEF IsTree, EmptyTree

\* What SetNode makes of a tree.
LEMMA SetNodeIs ==
  ASSUME NEW N, NEW t, IsTree(t, N), NEW r \in N, NEW n \in Nodes(N)
  PROVE  LET u == SetNode(t, r, n)
         IN  /\ IsTree(u, N)
             /\ DOMAIN u.node = DOMAIN t.node \cup {r}
             /\ u.node[r] = n
             /\ \A x \in DOMAIN t.node \ {r} : u.node[x] = t.node[x]
<1> DEFINE u == SetNode(t, r, n)
<1>1. /\ u.order = IF r \in DOMAIN t.node THEN t.order ELSE Append(t.order, r)
      /\ u.node = [s \in DOMAIN t.node \cup {r} |-> IF s = r THEN n ELSE t.node[s]]
      /\ u = [order |-> u.order, node |-> u.node]
  BY DEF SetNode
<1> HIDE DEF u
<1>2. /\ DOMAIN u.node = DOMAIN t.node \cup {r}
      /\ u.node[r] = n
      /\ \A x \in DOMAIN t.node \ {r} : u.node[x] = t.node[x]
      /\ u.node \in [DOMAIN u.node -> Nodes(N)]
  BY <1>1 DEF IsTree
<1>3. /\ u.order \in Seq(N) /\ {u.order[i] : i \in DOMAIN u.order} = DOMAIN u.node
      /\ \A i, j \in DOMAIN u.order : u.order[i] = u.order[j] => i = j
  <2>1. CASE r \in DOMAIN t.node
    BY <1>1, <1>2, <2>1 DEF IsTree
  <2>2. CASE r \notin DOMAIN t.node
    <3>1. u.order = Append(t.order, r) /\ t.order \in Seq(N)
      BY <1>1, <2>2 DEF IsTree
    <3>2. /\ u.order \in Seq(N) /\ Len(u.order) = Len(t.order) + 1
          /\ u.order[Len(t.order) + 1] = r
          /\ \A i \in DOMAIN t.order : i \in DOMAIN u.order /\ u.order[i] = t.order[i]
          /\ \A i \in DOMAIN u.order : i \in DOMAIN t.order \/ i = Len(t.order) + 1
          /\ Len(t.order) + 1 \in DOMAIN u.order
      BY <3>1
    <3>3. {u.order[i] : i \in DOMAIN u.order} = DOMAIN u.node
      BY <3>2, <1>2 DEF IsTree
    <3>4. \A i \in DOMAIN t.order : t.order[i] # r
      BY <2>2 DEF IsTree
    <3>5. ASSUME NEW i \in DOMAIN u.order, NEW j \in DOMAIN u.order, u.order[i] = u.order[j]
          PROVE  i = j
      <4>1. CASE i \in DOMAIN t.order /\ j \in DOMAIN t.order
        BY <3>2, <3>5, <4>1 DEF IsTree
      <4>2. CASE ~(i \in DOMAIN t.order /\ j \in DOMAIN t.order)
        BY <3>2, <3>4, <3>5, <4>2
      <4> QED  BY <4>1, <4>2
    <3> QED  BY <3>2, <3>3, <3>5
  <2> QED  BY <2>1, <2>2
<1>4. IsTree(u, N)
  BY <1>1, <1>2, <1>3 DEF IsTree
<1> QED  BY <1>2, <1>4 DEF u

(***************************************************************************)
(* The nodes that d and nothing else was added to: what a node reads and   *)
(* whether it is dynamic stays.                                            *)
(***************************************************************************)
Grown(t, u, D, dynamic) ==
  /\ DOMAIN u.node = DOMAIN t.node \cup D
  /\ \A x \in DOMAIN t.node : /\ u.node[x].dependsOn = t.node[x].dependsOn
                              /\ u.node[x].isDynamic = t.node[x].isDynamic
  /\ \A x \in D \ DOMAIN t.node : /\ u.node[x].dependsOn = <<>>
                                  /\ u.node[x].isDynamic = (x \in dynamic)

LEMMA AddReaderGrows ==
  ASSUME NEW N, NEW t, IsTree(t, N), NEW d \in N, NEW r \in N, NEW dynamic
  PROVE  LET u == AddReader(t, d, r, dynamic)
         IN  IsTree(u, N) /\ Grown(t, u, {d}, dynamic)
<1> DEFINE u == AddReader(t, d, r, dynamic)
<1>1. CASE d \in DOMAIN t.node
  <2> DEFINE n == [t.node[d] EXCEPT !.isDependedBy = Append(@, r)]
  <2>1. u = [t EXCEPT !.node = [t.node EXCEPT ![d] = n]]
    BY <1>1 DEF AddReader
  <2>2. /\ n \in Nodes(N) /\ n.dependsOn = t.node[d].dependsOn
        /\ n.isDynamic = t.node[d].isDynamic
    <3>1. t.node[d] \in Nodes(N)
      BY <1>1 DEF IsTree
    <3>2. ASSUME NEW k \in Nodes(N), NEW q \in Seq(N)
          PROVE  LET m == [k EXCEPT !.isDependedBy = q]
                 IN  m \in Nodes(N) /\ m.dependsOn = k.dependsOn /\ m.isDynamic = k.isDynamic
      BY DEF Nodes
    <3>3. Append(t.node[d].isDependedBy, r) \in Seq(N)
      BY <3>1 DEF Nodes
    <3> QED  BY <3>1, <3>2, <3>3
  <2> HIDE DEF n
  <2>3. /\ u.order = t.order /\ u.node = [t.node EXCEPT ![d] = n]
        /\ u = [order |-> u.order, node |-> u.node]
    BY <2>1 DEF IsTree
  <2> HIDE DEF u
  <2>4. /\ DOMAIN u.node = DOMAIN t.node /\ u.node \in [DOMAIN u.node -> Nodes(N)]
        /\ u.node[d] = n /\ \A x \in DOMAIN t.node : x # d => u.node[x] = t.node[x]
    BY <2>2, <2>3, <1>1 DEF IsTree
  <2>5. IsTree(u, N)
    BY <2>3, <2>4 DEF IsTree
  <2>6. Grown(t, u, {d}, dynamic)
    BY <2>2, <2>4, <1>1 DEF Grown
  <2> QED  BY <2>5, <2>6 DEF u
<1>2. CASE d \notin DOMAIN t.node
  <2> DEFINE n == [dependsOn |-> <<>>, isDependedBy |-> <<r>>, isDynamic |-> d \in dynamic]
  <2>1. u = SetNode(t, d, n)
    BY <1>2 DEF AddReader
  <2>2. n \in Nodes(N) /\ n.dependsOn = <<>> /\ n.isDynamic = (d \in dynamic)
    BY DEF Nodes
  <2> HIDE DEF n, u
  <2>3. /\ IsTree(u, N) /\ DOMAIN u.node = DOMAIN t.node \cup {d} /\ u.node[d] = n
        /\ \A x \in DOMAIN t.node \ {d} : u.node[x] = t.node[x]
    BY <2>1, <2>2, SetNodeIs
  <2>4. Grown(t, u, {d}, dynamic)
    BY <2>2, <2>3, <1>2 DEF Grown
  <2> QED  BY <2>3, <2>4 DEF u
<1> QED  BY <1>1, <1>2

LEMMA GrownIsTransitive ==
  ASSUME NEW t, NEW u, NEW v, NEW D, NEW E, NEW dynamic,
         Grown(t, u, D, dynamic), Grown(u, v, E, dynamic)
  PROVE  Grown(t, v, D \cup E, dynamic)
<1>1. DOMAIN v.node = DOMAIN t.node \cup (D \cup E)
  BY DEF Grown
<1>2. \A x \in DOMAIN t.node : /\ v.node[x].dependsOn = t.node[x].dependsOn
                               /\ v.node[x].isDynamic = t.node[x].isDynamic
  BY DEF Grown
<1>3. ASSUME NEW x \in (D \cup E) \ DOMAIN t.node
      PROVE  v.node[x].dependsOn = <<>> /\ v.node[x].isDynamic = (x \in dynamic)
  <2>1. CASE x \in D
    BY <2>1 DEF Grown
  <2>2. CASE x \notin D
    <3>1. x \in E \ DOMAIN u.node
      BY <2>2 DEF Grown
    <3> QED  BY <3>1 DEF Grown
  <2> QED  BY <2>1, <2>2
<1> QED  BY <1>1, <1>2, <1>3 DEF Grown

\* The loop of addDependencyOtherWay adds a node for everything r reads.
LEMMA AddOtherWayGrows ==
  ASSUME NEW N, NEW t, IsTree(t, N), NEW deps \in Seq(N), NEW r \in N, NEW dynamic
  PROVE  LET u == AddDependencyOtherWay(t, deps, r, dynamic)
         IN  IsTree(u, N) /\ Grown(t, u, {deps[i] : i \in DOMAIN deps}, dynamic)
<1> DEFINE n    == Len(deps)
           T    == Trees(N)
           step == [i \in 1..n |-> [x \in T |-> AddReader(x, deps[i], r, dynamic)]]
           F    == CHOOSE f : f = [i \in 0..n |->
                     IF i = 0 THEN t ELSE AddReader(f[i - 1], deps[i], r, dynamic)]
<1>1. n \in Nat /\ DOMAIN deps = 1..n /\ \A i \in 1..n : deps[i] \in N
  OBVIOUS
<1>2. ASSUME NEW i \in 1..n, NEW x \in T
      PROVE  AddReader(x, deps[i], r, dynamic) \in T
  BY <1>1, TreesAre, AddReaderGrows
<1>3. step \in [1..n -> [T -> T]]
  BY <1>2
<1>4. t \in T
  BY TreesAre
<1>5. PICK f : Counts(f, n, T, t, step)
  <2> HIDE DEF n, T, step, F
  <2>1. n \in Nat
    BY <1>1
  <2> QED  BY <2>1, <1>3, <1>4, ForLoop
<1>6. f = [i \in 0..n |-> IF i = 0 THEN t ELSE AddReader(f[i - 1], deps[i], r, dynamic)]
  <2>1. ASSUME NEW i \in 1..n PROVE f[i] = AddReader(f[i - 1], deps[i], r, dynamic)
    <3>1. f[i - 1] \in T
      BY <1>1, <1>5 DEF Counts
    <3> QED  BY <3>1, <1>5 DEF Counts
  <2> QED  BY <2>1, <1>1, <1>5 DEF Counts
<1>7. F = [i \in 0..n |-> IF i = 0 THEN t ELSE AddReader(F[i - 1], deps[i], r, dynamic)]
  BY <1>6
<1>8. AddDependencyOtherWay(t, deps, r, dynamic) = F[n]
  BY DEF AddDependencyOtherWay
<1> HIDE DEF F
<1>9. F[0] = t /\ \A i \in 1..n : F[i] = AddReader(F[i - 1], deps[i], r, dynamic)
  BY <1>1, <1>7
<1> DEFINE P == {i \in 0..n : F[i] \in T /\ Grown(t, F[i], {deps[j] : j \in 1..i}, dynamic)}
<1>10. 0 \in P
  <2>1. Grown(t, t, {}, dynamic) /\ {deps[j] : j \in 1..0} = {}
    BY DEF Grown
  <2>2. F[0] \in T /\ Grown(t, F[0], {deps[j] : j \in 1..0}, dynamic)
    BY <2>1, <1>4, <1>9
  <2> QED  BY <2>2, <1>1
<1>11. ASSUME NEW i \in 1..n, i - 1 \in P PROVE i \in P
  <2>1. /\ F[i] = AddReader(F[i - 1], deps[i], r, dynamic) /\ IsTree(F[i - 1], N)
        /\ Grown(t, F[i - 1], {deps[j] : j \in 1..(i - 1)}, dynamic)
    BY <1>9, <1>11, TreesAre
  <2>2. IsTree(F[i], N) /\ Grown(F[i - 1], F[i], {deps[i]}, dynamic)
    BY <2>1, <1>1, AddReaderGrows
  <2>3. {deps[j] : j \in 1..(i - 1)} \cup {deps[i]} = {deps[j] : j \in 1..i}
    BY <1>1
  <2>4. Grown(t, F[i], {deps[j] : j \in 1..(i - 1)} \cup {deps[i]}, dynamic)
    BY <2>1, <2>2, GrownIsTransitive
  <2>5. Grown(t, F[i], {deps[j] : j \in 1..i}, dynamic)
    BY <2>3, <2>4
  <2>6. F[i] \in T
    BY <2>2, TreesAre
  <2> HIDE DEF T, step
  <2> QED  BY <2>5, <2>6, <1>1
<1>12. P = 0..n
  <2> HIDE DEF P
  <2>1. P \subseteq 0..n
    BY DEF P
  <2> QED  BY <2>1, <1>1, <1>10, <1>11, NatInd
<1>13. n \in P
  <2> HIDE DEF P, n, step
  <2> QED  BY <1>1, <1>12
<1> QED  BY <1>1, <1>8, <1>13, TreesAre

(***************************************************************************)
(* AddSingleDependency: r reads deps afterwards, whatever it read before,  *)
(* and every other node reads what it did.                                 *)
(***************************************************************************)
LEMMA AddSingleIs ==
  ASSUME NEW N, NEW t, IsTree(t, N), NEW deps \in Seq(N), NEW r \in N, NEW dynamic
  PROVE  LET u == AddSingleDependency(t, deps, r, dynamic)
         IN  /\ IsTree(u, N)
             /\ DOMAIN u.node = DOMAIN t.node \cup {r} \cup {deps[i] : i \in DOMAIN deps}
             /\ u.node[r].dependsOn = deps /\ u.node[r].isDynamic = (r \in dynamic)
             /\ \A x \in DOMAIN t.node \ {r} : /\ u.node[x].dependsOn = t.node[x].dependsOn
                                               /\ u.node[x].isDynamic = t.node[x].isDynamic
             /\ \A x \in DOMAIN u.node \ (DOMAIN t.node \cup {r}) :
                  u.node[x].dependsOn = <<>> /\ u.node[x].isDynamic = (x \in dynamic)
<1> DEFINE n == [dependsOn |-> deps, isDependedBy |-> <<>>, isDynamic |-> r \in dynamic]
           m == SetNode(t, r, n)
           u == AddDependencyOtherWay(m, deps, r, dynamic)
<1>1. n \in Nodes(N) /\ n.dependsOn = deps /\ n.isDynamic = (r \in dynamic)
  BY DEF Nodes
<1>2. AddSingleDependency(t, deps, r, dynamic) = u
  BY DEF AddSingleDependency, AddDependencyOneWay
<1> HIDE DEF n
<1>3. /\ IsTree(m, N) /\ DOMAIN m.node = DOMAIN t.node \cup {r} /\ m.node[r] = n
      /\ \A x \in DOMAIN t.node \ {r} : m.node[x] = t.node[x]
  BY <1>1, SetNodeIs
<1> HIDE DEF m
<1>4. IsTree(u, N) /\ Grown(m, u, {deps[i] : i \in DOMAIN deps}, dynamic)
  BY <1>3, AddOtherWayGrows
<1> HIDE DEF u
<1> QED  BY <1>1, <1>2, <1>3, <1>4 DEF Grown

LEMMA TreeIsFinite == ASSUME NEW N, NEW t, IsTree(t, N) PROVE IsFiniteSet(DOMAIN t.node)
<1> DEFINE D == DOMAIN t.order
<1>1. IsFiniteSet(D)
  <2>1. t.order \in Seq(N)
    BY DEF IsTree
  <2>2. D = 1..Len(t.order) /\ Len(t.order) \in Nat
    BY <2>1
  <2>3. IsFiniteSet(1..Len(t.order))
    BY <2>2, FS_Interval
  <2> QED  BY <2>2, <2>3
<1>2. t.order \in [D -> DOMAIN t.node] /\ \A x \in DOMAIN t.node : \E i \in D : t.order[i] = x
  BY DEF IsTree
<1>3. t.order \in Surjection(D, DOMAIN t.node)
  BY <1>2 DEF Surjection
<1> QED  BY <1>1, <1>3, FS_Surjection

-----------------------------------------------------------------------------
(***************************************************************************)
(* DeriveDependentRelations.  Its result is the least set that has with r  *)
(* and with each of its members their readers.                             *)
(***************************************************************************)
HasReaders(t, r, C) == \A x \in C \cup {r} : Readers(t, x) \subseteq C

LeastWithReaders(t, r, R) ==
  /\ R \subseteq DOMAIN t.node
  /\ HasReaders(t, r, R)
  /\ \A C : HasReaders(t, r, C) => R \subseteq C

LEMMA SmallerSet ==
  ASSUME NEW A, IsFiniteSet(A), NEW B, B \subseteq A
  PROVE  /\ Cardinality(A) \in Nat /\ Cardinality(B) \in Nat
         /\ Cardinality(B) <= Cardinality(A)
         /\ B # A => Cardinality(B) < Cardinality(A)
BY FS_Subset, FS_CardinalityType

LEMMA DependentsAreLeast ==
  ASSUME NEW t, IsFiniteSet(DOMAIN t.node), NEW r
  PROVE  LeastWithReaders(t, r, DeriveDependentRelations(t, r))
<1> DEFINE D       == DOMAIN t.node
           S       == [todo : SUBSET (D \cup {r}), found : SUBSET D]
           T       == SUBSET D
           one(s)  == CHOOSE x \in s.todo : TRUE
           new(s)  == Readers(t, one(s)) \ s.found
           then(s) == [todo |-> (s.todo \ {one(s)}) \cup new(s), found |-> s.found \cup new(s)]
           done    == {s \in S : s.todo = {}}
           out     == [s \in S |-> s.found]
           next    == [s \in S |-> then(s)]
           a       == [s \in S |-> Cardinality(D \ s.found)]
           b       == [s \in S |-> Cardinality(s.todo)]
           F       == CHOOSE f : f = [s \in S |->
                        IF s.todo = {} THEN s.found ELSE f[then(s)]]
           start   == [todo |-> {r}, found |-> {}]
<1>1. IsFiniteSet(D) /\ IsFiniteSet(D \cup {r})
  BY FS_AddElement
<1>2. ASSUME NEW s \in S
      PROVE  /\ s.todo \subseteq D \cup {r} /\ s.found \subseteq D
             /\ IsFiniteSet(s.todo) /\ IsFiniteSet(D \ s.found)
  BY <1>1, FS_Subset
<1>3. a \in [S -> Nat] /\ b \in [S -> Nat]
  BY <1>2, FS_CardinalityType
<1>4. ASSUME NEW s \in S, s.todo # {}
      PROVE  /\ one(s) \in s.todo /\ new(s) \subseteq D /\ new(s) \cap s.found = {}
             /\ then(s) \in S /\ Lighter(a, b, b, then(s), s)
  <2>1. one(s) \in s.todo
    BY <1>4
  <2>2. new(s) \subseteq D /\ new(s) \cap s.found = {}
    BY DEF Readers
  <2> HIDE DEF one, new
  <2>3. then(s) \in S
    BY <1>2, <2>1, <2>2
  <2>4. CASE new(s) = {}
    <3>1. then(s).found = s.found /\ then(s).todo \subseteq s.todo /\ then(s).todo # s.todo
      BY <2>1, <2>4
    <3>2. Cardinality(then(s).todo) < Cardinality(s.todo)
      BY <3>1, <1>2, SmallerSet
    <3> QED  BY <2>1, <2>2, <2>3, <3>1, <3>2 DEF Lighter
  <2>5. CASE new(s) # {}
    <3>1. D \ then(s).found \subseteq D \ s.found /\ D \ then(s).found # D \ s.found
      BY <2>2, <2>5
    <3>2. Cardinality(D \ then(s).found) < Cardinality(D \ s.found)
      BY <3>1, <1>2, SmallerSet
    <3> QED  BY <2>1, <2>2, <2>3, <3>2 DEF Lighter
  <2> QED  BY <2>4, <2>5
<1>5. Loops(S, T, done, out, next, a, b, b)
  <2>1. \A s \in S \cap done : out[s] \in T
    BY <1>2
  <2>2. ASSUME NEW s \in S \ done
        PROVE  next[s] \in S /\ Lighter(a, b, b, next[s], s)
    <3>1. next[s] = then(s) /\ s.todo # {}
      OBVIOUS
    <3> HIDE DEF next, a, b, then
    <3> QED  BY <1>4, <3>1
  <2> HIDE DEF S, T, done, out, next, a, b
  <2> QED  BY <1>3, <2>1, <2>2 DEF Loops
<1>6. PICK f : Ends(f, S, T, done, out, next)
  <2> HIDE DEF S, T, done, out, next, a, b, F
  <2> QED  BY <1>5, WhileLoop
<1>7. f = [s \in S |-> IF s.todo = {} THEN s.found ELSE f[then(s)]]
  BY <1>6 DEF Ends
<1>8. F = [s \in S |-> IF s.todo = {} THEN s.found ELSE F[then(s)]]
  <2> HIDE DEF S, then
  <2> QED  BY <1>7
<1>9. DeriveDependentRelations(t, r) = F[start]
  BY DEF DeriveDependentRelations
<1> HIDE DEF F
<1> DEFINE Good(s) == /\ \A x \in (s.found \cup {r}) \ s.todo : Readers(t, x) \subseteq s.found
                      /\ \A C : HasReaders(t, r, C) =>
                                  s.found \subseteq C /\ s.todo \subseteq C \cup {r}
           P == {s \in S : Good(s) => LeastWithReaders(t, r, F[s])}
<1>10. S \cap done \subseteq P
  <2> SUFFICES ASSUME NEW s \in S, s.todo = {}, Good(s)
               PROVE  LeastWithReaders(t, r, s.found)
    BY <1>8
  <2> QED  BY <1>2 DEF LeastWithReaders, HasReaders
<1>11. ASSUME NEW s \in S \ done, next[s] \in P PROVE s \in P
  <2>1. s \in S /\ s.todo # {} /\ next[s] = then(s)
    OBVIOUS
  <2> SUFFICES ASSUME Good(s) PROVE LeastWithReaders(t, r, F[s])
    BY <2>1
  <2>2. F[s] = F[then(s)]
    BY <1>8, <2>1
  <2>3. one(s) \in s.todo /\ Readers(t, one(s)) \subseteq s.found \cup new(s)
    BY <1>4, <2>1
  <2>4. ASSUME NEW x \in (then(s).found \cup {r}) \ then(s).todo
        PROVE  Readers(t, x) \subseteq then(s).found
    BY <2>3
  <2>5. ASSUME NEW C, HasReaders(t, r, C)
        PROVE  then(s).found \subseteq C /\ then(s).todo \subseteq C \cup {r}
    <3>1. Readers(t, one(s)) \subseteq C
      BY <2>3, <2>5 DEF HasReaders
    <3> QED  BY <3>1, <2>5
  <2>6. Good(then(s))
    BY <2>4, <2>5
  <2> QED  BY <1>11, <2>1, <2>2, <2>6
<1>12. P = S
  <2> HIDE DEF Good, S, T, done, out, next, a, b
  <2>1. P \in SUBSET S
    OBVIOUS
  <2> HIDE DEF P
  <2> QED  BY <2>1, <1>5, <1>10, <1>11, LoopInduction
<1>13. start \in S /\ Good(start)
  OBVIOUS
<1>14. start \in P
  <2> HIDE DEF P, S, start
  <2> QED  BY <1>12, <1>13
<1> QED  BY <1>9, <1>13, <1>14

LEMMA DependentsAre ==
  ASSUME NEW N, NEW t, IsTree(t, N), NEW r
  PROVE  LeastWithReaders(t, r, DeriveDependentRelations(t, r))
BY TreeIsFinite, DependentsAreLeast

-----------------------------------------------------------------------------
(***************************************************************************)
(* Sequences.                                                              *)
(***************************************************************************)
LEMMA HeadAndTail ==
  ASSUME NEW X, NEW s \in Seq(X), s # <<>>
  PROVE  /\ Head(s) \in X /\ Tail(s) \in Seq(X) /\ Len(Tail(s)) = Len(s) - 1
         /\ 1 \in DOMAIN s /\ s[1] = Head(s)
         /\ \A i \in DOMAIN Tail(s) : i + 1 \in DOMAIN s /\ Tail(s)[i] = s[i + 1]
         /\ \A i \in DOMAIN s : i # 1 => i - 1 \in DOMAIN Tail(s) /\ Tail(s)[i - 1] = s[i]
OBVIOUS

LEMMA Joined ==
  ASSUME NEW X, NEW p \in Seq(X), NEW q \in Seq(X)
  PROVE  LET s == p \o q
         IN  /\ s \in Seq(X) /\ Len(s) = Len(p) + Len(q)
             /\ \A i \in DOMAIN p : i \in DOMAIN s /\ s[i] = p[i]
             /\ \A i \in DOMAIN q : Len(p) + i \in DOMAIN s /\ s[Len(p) + i] = q[i]
             /\ \A i \in DOMAIN s : i \notin DOMAIN p =>
                  i - Len(p) \in DOMAIN q /\ s[i] = q[i - Len(p)]
OBVIOUS

-----------------------------------------------------------------------------
(***************************************************************************)
(* DeriveOriginalRelationsAViewDependsOn.  B gives for each node what is   *)
(* below it, in a tree that has a node for everything that is read.        *)
(***************************************************************************)
ReadIn(t, x) == {t.node[x].dependsOn[i] : i \in DOMAIN t.node[x].dependsOn}

Whole(t) == \A x \in DOMAIN t.node : t.node[x].dependsOn \in Seq(DOMAIN t.node)

Cone(B, x) == B[x] \cup {x}

IsBelow(t, B) ==
  /\ B \in [DOMAIN t.node -> SUBSET DOMAIN t.node]
  /\ \A x \in DOMAIN t.node :
       /\ B[x] = UNION {Cone(B, y) : y \in ReadIn(t, x)}
       /\ \A y \in B[x] : B[y] \subseteq B[x]
       /\ x \notin B[x]
       /\ t.node[x].isDynamic => t.node[x].dependsOn = <<>>

\* Nothing is read along two paths below v.
Unshared(t, B, v) ==
  \A x \in Cone(B, v) : \A i, j \in DOMAIN t.node[x].dependsOn :
    i < j => Cone(B, t.node[x].dependsOn[i]) \cap Cone(B, t.node[x].dependsOn[j]) = {}

DynamicBelow(t, B, v) == {x \in B[v] : t.node[x].isDynamic}

\* What the loop keeps.
OnlyBelow(t, B, v, s) ==
  /\ \A i \in DOMAIN s.toVisit : s.toVisit[i] \in B[v]
  /\ s.tables \subseteq DynamicBelow(t, B, v)

Disjoint(B, q, visited) ==
  /\ \A i, j \in DOMAIN q : i < j => Cone(B, q[i]) \cap Cone(B, q[j]) = {}
  /\ \A i \in DOMAIN q : Cone(B, q[i]) \cap visited = {}

AllFoundOrToVisit(t, B, v, s) ==
  \A x \in DynamicBelow(t, B, v) : x \in s.tables \/ \E i \in DOMAIN s.toVisit : x \in Cone(B, s.toVisit[i])

Children(t, s) ==
  IF \/ t.node[Head(s.toVisit)].isDynamic
     \/ Contains(Tail(s.toVisit), Head(s.toVisit)) \/ Head(s.toVisit) \in s.visited
  THEN <<>> ELSE t.node[Head(s.toVisit)].dependsOn

Visited(t, s) ==
  [toVisit |-> Tail(s.toVisit) \o Children(t, s),
   visited |-> s.visited \cup {Head(s.toVisit)},
   tables  |-> s.tables \cup
               (IF t.node[Head(s.toVisit)].isDynamic THEN {Head(s.toVisit)} ELSE {})]

Visits(D) == [toVisit : Seq(D), visited : SUBSET D, tables : SUBSET D]

LEMMA VisitedType ==
  ASSUME NEW t, Whole(t), NEW s \in Visits(DOMAIN t.node), s.toVisit # <<>>
  PROVE  /\ Visited(t, s) \in Visits(DOMAIN t.node)
         /\ Head(s.toVisit) \in DOMAIN t.node
         /\ Children(t, s) \in Seq(DOMAIN t.node)
         /\ \/ Head(s.toVisit) \notin s.visited
            \/ Visited(t, s).visited = s.visited /\ Len(Visited(t, s).toVisit) < Len(s.toVisit)
<1> DEFINE D == DOMAIN t.node
           h == Head(s.toVisit)
           c == Children(t, s)
<1>1. /\ s.toVisit \in Seq(D) /\ s.visited \subseteq D /\ s.tables \subseteq D
      /\ h \in D /\ Tail(s.toVisit) \in Seq(D) /\ Len(Tail(s.toVisit)) = Len(s.toVisit) - 1
      /\ Len(s.toVisit) \in Nat
  BY DEF Visits
<1>2. c \in Seq(D)
  <2>1. t.node[h].dependsOn \in Seq(D)
    BY <1>1 DEF Whole
  <2>2. c = <<>> \/ c = t.node[h].dependsOn
    BY DEF Children
  <2>3. <<>> \in Seq(D)
    OBVIOUS
  <2> HIDE DEF c, h, D
  <2> QED  BY <2>1, <2>2, <2>3
<1>3. h \in s.visited => c = <<>>
  BY DEF Children
<1> HIDE DEF c
<1>4. Tail(s.toVisit) \o c \in Seq(D)
  <2> DEFINE q == Tail(s.toVisit)
  <2>1. q \in Seq(D)
    BY <1>1
  <2> HIDE DEF q
  <2>2. q \o c \in Seq(D)
    BY <1>2, <2>1, Joined
  <2> QED  BY <2>2 DEF q
<1>5. Visited(t, s) \in Visits(D)
  BY <1>1, <1>4 DEF Visited, Visits, c
<1>6. CASE h \in s.visited
  <2>1. Visited(t, s).visited = s.visited
    BY <1>6 DEF Visited
  <2>2. Tail(s.toVisit) \o c = Tail(s.toVisit)
    BY <1>1, <1>3, <1>6
  <2>3. Len(Visited(t, s).toVisit) < Len(s.toVisit)
    BY <2>2, <1>1 DEF Visited, c
  <2> QED  BY <2>1, <2>3, <1>1, <1>2, <1>5 DEF c
<1> QED  BY <1>1, <1>2, <1>5, <1>6 DEF c

LEMMA VisitedKeepsOnlyBelow ==
  ASSUME NEW t, NEW B, Whole(t), IsBelow(t, B), NEW v \in DOMAIN t.node,
         NEW s \in Visits(DOMAIN t.node), s.toVisit # <<>>, OnlyBelow(t, B, v, s)
  PROVE  OnlyBelow(t, B, v, Visited(t, s))
<1> DEFINE D == DOMAIN t.node
           h == Head(s.toVisit)
           q == Tail(s.toVisit)
           c == Children(t, s)
<1>1. /\ s.toVisit \in Seq(D) /\ h \in D /\ h \in B[v] /\ q \in Seq(D) /\ c \in Seq(D)
      /\ \A i \in DOMAIN q : q[i] \in B[v]
  BY VisitedType, HeadAndTail DEF OnlyBelow, Visits
<1>2. ASSUME NEW i \in DOMAIN c PROVE c[i] \in B[v]
  <2>1. c[i] \in ReadIn(t, h)
    BY <1>1 DEF Children, ReadIn
  <2>2. c[i] \in B[h] /\ B[h] \subseteq B[v]
    BY <2>1, <1>1 DEF IsBelow, Cone
  <2> QED  BY <2>2
<1>3. ASSUME NEW i \in DOMAIN (q \o c) PROVE (q \o c)[i] \in B[v]
  <2> HIDE DEF q, c
  <2> QED  BY <1>1, <1>2, Joined
<1>4. s.tables \cup (IF t.node[h].isDynamic THEN {h} ELSE {}) \subseteq DynamicBelow(t, B, v)
  BY <1>1 DEF OnlyBelow, DynamicBelow
<1> QED  BY <1>3, <1>4 DEF OnlyBelow, Visited

\* What the loop keeps where nothing is shared.
Searching(t, B, v, s) ==
  /\ OnlyBelow(t, B, v, s)
  /\ Disjoint(B, s.toVisit, s.visited)
  /\ AllFoundOrToVisit(t, B, v, s)

LEMMA ReadsOf ==
  ASSUME NEW t, NEW B, Whole(t), IsBelow(t, B), NEW x \in DOMAIN t.node
  PROVE  LET c == t.node[x].dependsOn
         IN  /\ c \in Seq(DOMAIN t.node)
             /\ \A i \in DOMAIN c : c[i] \in DOMAIN t.node /\ Cone(B, c[i]) \subseteq B[x]
             /\ \A y \in B[x] : \E i \in DOMAIN c : y \in Cone(B, c[i])
             /\ x \notin B[x]
             /\ B[x] \subseteq DOMAIN t.node
<1> DEFINE c == t.node[x].dependsOn
<1>1. c \in Seq(DOMAIN t.node)
  BY DEF Whole
<1>2. /\ B[x] = UNION {Cone(B, y) : y \in ReadIn(t, x)} /\ x \notin B[x]
      /\ B[x] \subseteq DOMAIN t.node
  BY DEF IsBelow
<1>3. ReadIn(t, x) = {c[i] : i \in DOMAIN c}
  BY DEF ReadIn
<1> HIDE DEF c
<1>4. ASSUME NEW i \in DOMAIN c PROVE c[i] \in DOMAIN t.node /\ Cone(B, c[i]) \subseteq B[x]
  BY <1>1, <1>2, <1>3
<1>5. ASSUME NEW y \in B[x] PROVE \E i \in DOMAIN c : y \in Cone(B, c[i])
  BY <1>2, <1>3
<1> QED  BY <1>1, <1>2, <1>4, <1>5 DEF c

LEMMA ChildrenOfNew ==
  ASSUME NEW t, NEW B, Whole(t), IsBelow(t, B),
         NEW s \in Visits(DOMAIN t.node), s.toVisit # <<>>,
         Disjoint(B, s.toVisit, s.visited)
  PROVE  /\ Children(t, s) = t.node[Head(s.toVisit)].dependsOn
         /\ Head(s.toVisit) \notin s.visited
<1> DEFINE D == DOMAIN t.node
           p == s.toVisit
           h == Head(p)
           q == Tail(p)
<1>1. p \in Seq(D) /\ p # <<>>
  BY DEF Visits
<1>2. /\ h \in D /\ q \in Seq(D) /\ 1 \in DOMAIN p /\ p[1] = h
      /\ \A i \in DOMAIN q : i \in Nat /\ i + 1 \in DOMAIN p /\ q[i] = p[i + 1] /\ 1 < i + 1
  <2> HIDE DEF p
  <2>1. /\ h \in D /\ q \in Seq(D) /\ 1 \in DOMAIN p /\ p[1] = h
        /\ \A i \in DOMAIN q : i + 1 \in DOMAIN p /\ q[i] = p[i + 1]
    BY <1>1, HeadAndTail
  <2> HIDE DEF q, h
  <2>2. \A i \in DOMAIN q : i \in Nat /\ 1 < i + 1
    BY <2>1
  <2> QED  BY <2>1, <2>2
<1>3. h \notin s.visited
  BY <1>2 DEF Disjoint, Cone
<1>4. ~Contains(q, h)
  <2> SUFFICES ASSUME NEW i \in DOMAIN q, q[i] = h PROVE FALSE
    <3>1. Contains(q, h) => \E i \in 1..Len(q) : q[i] = h
      BY DEF Contains
    <3>2. DOMAIN q = 1..Len(q)
      BY <1>2
    <3> HIDE DEF q, h
    <3> QED  BY <3>1, <3>2
  <2>1. Cone(B, p[1]) \cap Cone(B, p[i + 1]) = {}
    <3> HIDE DEF q, h
    <3> QED  BY <1>2 DEF Disjoint
  <2> QED  BY <2>1, <1>2 DEF Cone
<1>5. t.node[h].isDynamic => t.node[h].dependsOn = <<>>
  BY <1>2 DEF IsBelow
<1> QED  BY <1>3, <1>4, <1>5 DEF Children

LEMMA VisitedKeepsSearching ==
  ASSUME NEW t, NEW B, Whole(t), IsBelow(t, B), NEW v \in DOMAIN t.node, Unshared(t, B, v),
         NEW s \in Visits(DOMAIN t.node), s.toVisit # <<>>, Searching(t, B, v, s)
  PROVE  Searching(t, B, v, Visited(t, s))
<1> DEFINE D == DOMAIN t.node
           p == s.toVisit
           h == Head(p)
           q == Tail(p)
           c == t.node[h].dependsOn
           u == Visited(t, s)
<1>1. OnlyBelow(t, B, v, u)
  BY VisitedKeepsOnlyBelow DEF Searching
<1>2. Children(t, s) = c /\ h \notin s.visited
  BY ChildrenOfNew DEF Searching
<1>3. /\ u.toVisit = q \o c /\ u.visited = s.visited \cup {h}
      /\ s.tables \subseteq u.tables /\ (t.node[h].isDynamic => h \in u.tables)
  BY <1>2 DEF Visited
<1>4. p \in Seq(D) /\ p # <<>>
  BY DEF Visits
<1>5. /\ h \in D /\ q \in Seq(D) /\ 1 \in DOMAIN p /\ p[1] = h
      /\ \A i \in DOMAIN q : i + 1 \in DOMAIN p /\ q[i] = p[i + 1]
      /\ \A i \in DOMAIN p : i # 1 => i - 1 \in DOMAIN q /\ q[i - 1] = p[i]
  <2> HIDE DEF p
  <2> QED  BY <1>4, HeadAndTail
<1>6. h \in B[v]
  BY <1>5 DEF Searching, OnlyBelow
<1>7. /\ c \in Seq(D)
      /\ \A i \in DOMAIN c : c[i] \in D /\ Cone(B, c[i]) \subseteq B[h]
      /\ \A y \in B[h] : \E i \in DOMAIN c : y \in Cone(B, c[i])
      /\ h \notin B[h]
  <2> HIDE DEF h
  <2> QED  BY <1>5, ReadsOf
<1>8. \A i, j \in DOMAIN c : i < j => Cone(B, c[i]) \cap Cone(B, c[j]) = {}
  <2>1. h \in Cone(B, v)
    BY <1>6 DEF Cone
  <2> HIDE DEF h
  <2> QED  BY <2>1 DEF Unshared
<1>9. \A i, j \in DOMAIN p : i < j => Cone(B, p[i]) \cap Cone(B, p[j]) = {}
  BY DEF Searching, Disjoint
<1>10. \A i \in DOMAIN p : Cone(B, p[i]) \cap s.visited = {}
  BY DEF Searching, Disjoint
<1>11. \A x \in DynamicBelow(t, B, v) : x \in s.tables \/ \E i \in DOMAIN p : x \in Cone(B, p[i])
  BY DEF Searching, AllFoundOrToVisit
<1> HIDE DEF p, h, q, c, u
<1>12. \A i \in DOMAIN q : i \in Nat /\ 1 < i + 1
  BY <1>5
<1>13. \A i \in DOMAIN q : Cone(B, q[i]) \cap Cone(B, h) = {}
  BY <1>5, <1>9, <1>12
<1>14. \A i, j \in DOMAIN q : i < j => Cone(B, q[i]) \cap Cone(B, q[j]) = {}
  <2> SUFFICES ASSUME NEW i \in DOMAIN q, NEW j \in DOMAIN q, i < j
               PROVE  Cone(B, q[i]) \cap Cone(B, q[j]) = {}
    OBVIOUS
  <2>1. i + 1 < j + 1
    BY <1>12
  <2> QED  BY <2>1, <1>5, <1>9
<1>15. \A i \in DOMAIN q : Cone(B, q[i]) \cap s.visited = {}
  BY <1>5, <1>10
<1>16. Cone(B, h) \cap s.visited = {}
  BY <1>5, <1>10
<1>17. \A i \in DOMAIN c : Cone(B, c[i]) \subseteq Cone(B, h)
  BY <1>7 DEF Cone
<1> DEFINE z == q \o c
<1>18. /\ z \in Seq(D) /\ Len(z) = Len(q) + Len(c)
       /\ \A i \in DOMAIN q : i \in DOMAIN z /\ z[i] = q[i]
       /\ \A i \in DOMAIN c : Len(q) + i \in DOMAIN z /\ z[Len(q) + i] = c[i]
       /\ \A i \in DOMAIN z : i \notin DOMAIN q => i - Len(q) \in DOMAIN c /\ z[i] = c[i - Len(q)]
  BY <1>5, <1>7, Joined
<1>19. /\ Len(q) \in Nat /\ DOMAIN q = 1..Len(q)
       /\ \A i \in DOMAIN z : i \in Nat /\ 1 <= i
  BY <1>5, <1>18
<1> HIDE DEF z
<1>20. ASSUME NEW i \in DOMAIN z, NEW j \in DOMAIN z, i < j
       PROVE  Cone(B, z[i]) \cap Cone(B, z[j]) = {}
  <2>1. CASE j \in DOMAIN q
    <3>1. i \in DOMAIN q
      BY <2>1, <1>19, <1>20
    <3> QED  BY <3>1, <2>1, <1>14, <1>18, <1>20
  <2>2. CASE i \in DOMAIN q /\ j \notin DOMAIN q
    BY <2>2, <1>13, <1>17, <1>18
  <2>3. CASE i \notin DOMAIN q /\ j \notin DOMAIN q
    <3>1. /\ i - Len(q) \in DOMAIN c /\ z[i] = c[i - Len(q)]
          /\ j - Len(q) \in DOMAIN c /\ z[j] = c[j - Len(q)]
      BY <2>3, <1>18
    <3>2. i - Len(q) < j - Len(q)
      BY <1>19, <1>20
    <3> QED  BY <3>1, <3>2, <1>8
  <2> QED  BY <2>1, <2>2, <2>3
<1>21. ASSUME NEW i \in DOMAIN z PROVE Cone(B, z[i]) \cap u.visited = {}
  <2>1. CASE i \in DOMAIN q
    BY <2>1, <1>3, <1>13, <1>15, <1>18 DEF Cone
  <2>2. CASE i \notin DOMAIN q
    <3>1. i - Len(q) \in DOMAIN c /\ z[i] = c[i - Len(q)]
      BY <2>2, <1>18
    <3>2. Cone(B, z[i]) \subseteq B[h] /\ Cone(B, z[i]) \subseteq Cone(B, h)
      BY <3>1, <1>7, <1>17
    <3> QED  BY <3>2, <1>3, <1>7, <1>16
  <2> QED  BY <2>1, <2>2
<1>22. ASSUME NEW x \in DynamicBelow(t, B, v), x \notin u.tables
       PROVE  \E i \in DOMAIN z : x \in Cone(B, z[i])
  <2>1. PICK i \in DOMAIN p : x \in Cone(B, p[i])
    BY <1>22, <1>3, <1>11
  <2>2. CASE i # 1
    BY <2>1, <2>2, <1>5, <1>18
  <2>3. CASE i = 1
    <3>1. x \in Cone(B, h) /\ t.node[x].isDynamic
      BY <2>1, <2>3, <1>5 DEF DynamicBelow
    <3>2. x \in B[h]
      BY <3>1, <1>3, <1>22 DEF Cone
    <3>3. PICK j \in DOMAIN c : x \in Cone(B, c[j])
      BY <3>2, <1>7
    <3> QED  BY <3>3, <1>18
  <2> QED  BY <2>2, <2>3
<1>23. u.toVisit = z
  BY <1>3 DEF z
<1> QED  BY <1>1, <1>20, <1>21, <1>22, <1>23 DEF Searching, Disjoint, AllFoundOrToVisit, u

(***************************************************************************)
(* The search never looks at what a dynamic relation reads, except for that*)
(* of v, and v it never meets: it goes as it would in the tree where what  *)
(* the dynamic relations read is cut off, and v is like any view.          *)
(***************************************************************************)
CutNode(t, v, x) ==
  [dependsOn    |-> IF x # v /\ t.node[x].isDynamic THEN <<>> ELSE t.node[x].dependsOn,
   isDependedBy |-> t.node[x].isDependedBy,
   isDynamic    |-> IF x = v THEN FALSE ELSE t.node[x].isDynamic]

CutTree(t, v) == [order |-> t.order, node |-> [x \in DOMAIN t.node |-> CutNode(t, v, x)]]

LEMMA VisitedInCutTree ==
  ASSUME NEW t, NEW v, NEW s, Head(s.toVisit) \in DOMAIN t.node, Head(s.toVisit) # v
  PROVE  Visited(CutTree(t, v), s) = Visited(t, s)
<1> DEFINE u == CutTree(t, v)
           h == Head(s.toVisit)
<1>1. u.node[h] = CutNode(t, v, h)
  BY DEF CutTree
<1>2. /\ u.node[h].isDynamic = t.node[h].isDynamic
      /\ ~t.node[h].isDynamic => u.node[h].dependsOn = t.node[h].dependsOn
  BY <1>1 DEF CutNode
<1> HIDE DEF u
<1>3. Children(u, s) = Children(t, s)
  BY <1>2 DEF Children
<1> QED  BY <1>2, <1>3 DEF Visited, u

(***************************************************************************)
(* The result has dynamic relations below v only, and all of them where    *)
(* nothing is shared.                                                      *)
(***************************************************************************)
SearchFinds(t, B, v, R) ==
  /\ R \subseteq DynamicBelow(t, B, v)
  /\ Unshared(t, B, v) => R = DynamicBelow(t, B, v)

LEMMA OriginalsAre ==
  ASSUME NEW N, NEW t, IsTree(t, N), Whole(t), NEW v \in DOMAIN t.node,
         NEW u, u = CutTree(t, v), Whole(u), NEW B, IsBelow(u, B)
  PROVE  SearchFinds(u, B, v, DeriveOriginalRelationsAViewDependsOn(t, v))
<1> DEFINE D       == DOMAIN t.node
           S       == Visits(D)
           T       == SUBSET D
           done    == {s \in S : s.toVisit = <<>>}
           out     == [s \in S |-> s.tables]
           next    == [s \in S |-> Visited(t, s)]
           a       == [s \in S |-> Cardinality(D \ s.visited)]
           b       == [s \in S |-> Len(s.toVisit)]
           F       == CHOOSE f : f = [s \in S |->
                        IF s.toVisit = <<>> THEN s.tables ELSE f[Visited(t, s)]]
           start   == [toVisit |-> t.node[v].dependsOn, visited |-> {v}, tables |-> {}]
<1>0. DOMAIN u.node = D /\ v \in DOMAIN u.node
  BY DEF CutTree
<1>1. IsFiniteSet(D)
  BY TreeIsFinite
<1>2. ASSUME NEW s \in S
      PROVE  /\ s.toVisit \in Seq(D) /\ s.visited \subseteq D /\ s.tables \subseteq D
             /\ IsFiniteSet(D \ s.visited)
  BY <1>1, FS_Subset DEF Visits
<1>3. a \in [S -> Nat] /\ b \in [S -> Nat]
  BY <1>2, FS_CardinalityType
<1>4. ASSUME NEW s \in S, s.toVisit # <<>>
      PROVE  Visited(t, s) \in S /\ Lighter(a, b, b, Visited(t, s), s)
  <2> DEFINE w == Visited(t, s)
             h == Head(s.toVisit)
  <2>1. /\ w \in S /\ h \in D
        /\ h \notin s.visited \/ (w.visited = s.visited /\ Len(w.toVisit) < Len(s.toVisit))
    BY <1>4, VisitedType
  <2>2. w.visited = s.visited \cup {h}
    BY DEF Visited
  <2> HIDE DEF w, h
  <2>3. CASE h \notin s.visited
    <3>1. D \ w.visited \subseteq D \ s.visited /\ D \ w.visited # D \ s.visited
      BY <2>1, <2>2, <2>3
    <3>2. Cardinality(D \ w.visited) < Cardinality(D \ s.visited)
      BY <3>1, <1>2, SmallerSet
    <3> QED  BY <2>1, <3>2 DEF Lighter, w
  <2>4. CASE w.visited = s.visited /\ Len(w.toVisit) < Len(s.toVisit)
    BY <2>1, <2>4 DEF Lighter, w
  <2> QED  BY <2>1, <2>3, <2>4
<1>5. Loops(S, T, done, out, next, a, b, b)
  <2>1. \A s \in S \cap done : out[s] \in T
    BY <1>2
  <2>2. ASSUME NEW s \in S \ done
        PROVE  next[s] \in S /\ Lighter(a, b, b, next[s], s)
    <3>1. next[s] = Visited(t, s) /\ s.toVisit # <<>>
      OBVIOUS
    <3> HIDE DEF next, a, b
    <3> QED  BY <1>4, <3>1
  <2> HIDE DEF S, T, done, out, next, a, b
  <2> QED  BY <1>3, <2>1, <2>2 DEF Loops
<1>6. PICK f : Ends(f, S, T, done, out, next)
  <2> HIDE DEF S, T, done, out, next, a, b, F
  <2> QED  BY <1>5, WhileLoop
<1>7. f = [s \in S |-> IF s.toVisit = <<>> THEN s.tables ELSE f[Visited(t, s)]]
  BY <1>6 DEF Ends
<1>8. F = [s \in S |-> IF s.toVisit = <<>> THEN s.tables ELSE F[Visited(t, s)]]
  <2> HIDE DEF S
  <2> QED  BY <1>7
<1>9. DeriveOriginalRelationsAViewDependsOn(t, v) = F[start]
  BY DEF DeriveOriginalRelationsAViewDependsOn, Visited, Visits, Children
<1> HIDE DEF F
<1> DEFINE Good(s) == /\ OnlyBelow(u, B, v, s)
                      /\ Unshared(u, B, v) => Searching(u, B, v, s)
           P == {s \in S : Good(s) => SearchFinds(u, B, v, F[s])}
<1>10. S \cap done \subseteq P
  <2> SUFFICES ASSUME NEW s \in S, s.toVisit = <<>>, Good(s)
               PROVE  SearchFinds(u, B, v, s.tables)
    BY <1>8
  <2>1. DOMAIN s.toVisit = {}
    OBVIOUS
  <2>2. s.tables \subseteq DynamicBelow(u, B, v)
    BY DEF OnlyBelow
  <2>3. Unshared(u, B, v) => DynamicBelow(u, B, v) \subseteq s.tables
    BY <2>1 DEF Searching, AllFoundOrToVisit
  <2> QED  BY <2>2, <2>3 DEF SearchFinds
<1>11. ASSUME NEW s \in S \ done, next[s] \in P PROVE s \in P
  <2>1. s \in S /\ s.toVisit # <<>> /\ next[s] = Visited(t, s)
    OBVIOUS
  <2> SUFFICES ASSUME Good(s) PROVE SearchFinds(u, B, v, F[s])
    BY <2>1
  <2>2. F[s] = F[Visited(t, s)]
    BY <1>8, <2>1
  <2>3. Head(s.toVisit) \in D /\ Head(s.toVisit) # v
    <3>1. s.toVisit \in Seq(D)
      BY <1>2
    <3>2. Head(s.toVisit) \in D /\ 1 \in DOMAIN s.toVisit /\ s.toVisit[1] = Head(s.toVisit)
      BY <2>1, <3>1
    <3>3. Head(s.toVisit) \in B[v]
      BY <3>2 DEF OnlyBelow
    <3> QED  BY <3>2, <3>3, <1>0 DEF IsBelow
  <2>4. Visited(t, s) = Visited(u, s)
    BY <2>3, VisitedInCutTree
  <2>5. Good(Visited(u, s))
    <3>1. s \in Visits(DOMAIN u.node)
      BY <1>0, <2>1
    <3> QED  BY <1>0, <2>1, <3>1, VisitedKeepsOnlyBelow, VisitedKeepsSearching
  <2> QED  BY <1>11, <2>1, <2>2, <2>4, <2>5
<1>12. P = S
  <2> HIDE DEF Good, S, T, done, out, next, a, b
  <2>1. P \in SUBSET S
    OBVIOUS
  <2> HIDE DEF P
  <2> QED  BY <2>1, <1>5, <1>10, <1>11, LoopInduction
<1>13. start \in S /\ Good(start)
  <2> DEFINE c == t.node[v].dependsOn
  <2>1. /\ c \in Seq(D)
        /\ \A i \in DOMAIN c : c[i] \in D /\ Cone(B, c[i]) \subseteq B[v]
        /\ \A y \in B[v] : \E i \in DOMAIN c : y \in Cone(B, c[i])
        /\ v \notin B[v]
    <3>1. u.node[v].dependsOn = c
      BY DEF CutTree, CutNode
    <3> HIDE DEF c
    <3> QED  BY <3>1, <1>0, ReadsOf
  <2>2. v \in Cone(B, v)
    BY DEF Cone
  <2>3. start.toVisit = c /\ start.visited = {v} /\ start.tables = {} /\ start \in S
    BY <2>1 DEF Visits
  <2> HIDE DEF start
  <2>4. OnlyBelow(u, B, v, start)
    BY <2>1, <2>3 DEF OnlyBelow, Cone
  <2>5. ASSUME Unshared(u, B, v) PROVE Disjoint(B, start.toVisit, start.visited)
    <3>1. \A i, j \in DOMAIN c : i < j => Cone(B, c[i]) \cap Cone(B, c[j]) = {}
      <4>1. u.node[v].dependsOn = c
        BY DEF CutTree, CutNode
      <4> HIDE DEF c
      <4> QED  BY <4>1, <2>2, <2>5 DEF Unshared
    <3>2. \A i \in DOMAIN c : Cone(B, c[i]) \cap {v} = {}
      BY <2>1
    <3> HIDE DEF c
    <3> QED  BY <2>3, <3>1, <3>2 DEF Disjoint
  <2>6. AllFoundOrToVisit(u, B, v, start)
    BY <2>1, <2>3 DEF AllFoundOrToVisit, DynamicBelow
  <2> QED  BY <2>3, <2>4, <2>5, <2>6 DEF Searching
<1>14. start \in P
  <2> HIDE DEF P, S, start
  <2> QED  BY <1>12, <1>13
<1> QED  BY <1>9, <1>13, <1>14

-----------------------------------------------------------------------------
(***************************************************************************)
(* Keep: k has the elements of the first n of s that are in R, at the      *)
(* places that e tells.                                                    *)
(***************************************************************************)
Picks(e, k, s, R, n) ==
  /\ e \in [1..Len(k) -> 1..n]
  /\ \A i \in 1..Len(k) : k[i] = s[e[i]] /\ s[e[i]] \in R
  /\ \A i, j \in 1..Len(k) : i < j => e[i] < e[j]
  /\ \A m \in 1..n : s[m] \in R => \E i \in 1..Len(k) : e[i] = m

LEMMA PickOne ==
  ASSUME NEW X, NEW s \in Seq(X), NEW R, NEW n \in 1..Len(s), NEW k \in Seq(X),
         NEW e, Picks(e, k, s, R, n - 1)
  PROVE  LET l == IF s[n] \in R THEN Append(k, s[n]) ELSE k
         IN  l \in Seq(X) /\ \E f : Picks(f, l, s, R, n)
<1>1. n \in Nat /\ n - 1 \in Nat /\ s[n] \in X /\ Len(k) \in Nat /\ 1..(n - 1) \subseteq 1..n
  OBVIOUS
<1>2. CASE s[n] \notin R
  <2>1. Picks(e, k, s, R, n)
    <3>1. e \in [1..Len(k) -> 1..n]
      BY <1>1 DEF Picks
    <3>2. ASSUME NEW m \in 1..n, s[m] \in R PROVE \E i \in 1..Len(k) : e[i] = m
      <4>1. m \in 1..(n - 1)
        BY <3>2, <1>2
      <4> QED  BY <4>1, <3>2 DEF Picks
    <3> QED  BY <3>1, <3>2 DEF Picks
  <2> QED  BY <2>1, <1>2
<1>3. CASE s[n] \in R
  <2> DEFINE l == Append(k, s[n])
             f == [i \in 1..(Len(k) + 1) |-> IF i \in 1..Len(k) THEN e[i] ELSE n]
  <2>1. /\ l \in Seq(X) /\ Len(l) = Len(k) + 1 /\ l[Len(k) + 1] = s[n]
        /\ \A i \in 1..Len(k) : l[i] = k[i]
    BY <1>1
  <2>2. /\ \A i \in 1..Len(k) : f[i] = e[i] /\ e[i] \in 1..(n - 1)
        /\ f[Len(k) + 1] = n /\ DOMAIN f = 1..Len(l)
        /\ f = [i \in DOMAIN f |-> f[i]]
        /\ \A i \in 1..Len(l) : i \in 1..Len(k) \/ i = Len(k) + 1
        /\ Len(k) + 1 \in 1..Len(l)
    <3>1. \A i \in 1..Len(k) : e[i] \in 1..(n - 1)
      BY DEF Picks
    <3> HIDE DEF l
    <3>2. \A i \in 1..Len(k) : i \in 1..(Len(k) + 1)
      BY <1>1
    <3>3. Len(k) + 1 \in 1..(Len(k) + 1) /\ Len(k) + 1 \notin 1..Len(k)
      BY <1>1
    <3>4. \A i \in 1..(Len(k) + 1) : i \in 1..Len(k) \/ i = Len(k) + 1
      BY <1>1
    <3> QED  BY <2>1, <3>1, <3>2, <3>3, <3>4
  <2> HIDE DEF l, f
  <2>3. ASSUME NEW i \in 1..Len(l)
        PROVE  f[i] \in 1..n /\ l[i] = s[f[i]] /\ s[f[i]] \in R
    <3>1. CASE i \in 1..Len(k)
      BY <3>1, <1>1, <2>1, <2>2 DEF Picks
    <3>2. CASE i = Len(k) + 1
      BY <3>2, <1>1, <1>3, <2>1, <2>2
    <3> QED  BY <3>1, <3>2, <2>2
  <2>4. ASSUME NEW i \in 1..Len(l), NEW j \in 1..Len(l), i < j PROVE f[i] < f[j]
    <3>1. i \in 1..Len(k)
      BY <2>1, <2>4, <1>1
    <3>2. CASE j \in 1..Len(k)
      BY <2>2, <2>4, <3>1, <3>2 DEF Picks
    <3>3. CASE j = Len(k) + 1
      BY <2>2, <3>1, <3>3, <1>1
    <3> QED  BY <3>2, <3>3, <2>2
  <2>5. ASSUME NEW m \in 1..n, s[m] \in R PROVE \E i \in 1..Len(l) : f[i] = m
    <3>1. CASE m = n
      BY <3>1, <2>2
    <3>2. CASE m # n
      <4>1. m \in 1..(n - 1)
        BY <3>2
      <4>2. PICK i \in 1..Len(k) : e[i] = m
        BY <4>1, <2>5 DEF Picks
      <4> QED  BY <4>2, <2>1, <2>2, <1>1
    <3> QED  BY <3>1, <3>2
  <2>6. Picks(f, l, s, R, n)
    BY <2>2, <2>3, <2>4, <2>5 DEF Picks
  <2> QED  BY <2>1, <2>6, <1>3 DEF l
<1> QED  BY <1>2, <1>3

LEMMA KeepPicks ==
  ASSUME NEW X, NEW s \in Seq(X), NEW R
  PROVE  Keep(s, R) \in Seq(X) /\ \E e : Picks(e, Keep(s, R), s, R, Len(s))
<1> DEFINE n    == Len(s)
           T    == Seq(X)
           one(k, i) == IF s[i] \in R THEN Append(k, s[i]) ELSE k
           step == [i \in 1..n |-> [k \in T |-> one(k, i)]]
           none == <<>>
           F    == CHOOSE f : f = [i \in 0..n |->
                     IF i = 0 THEN <<>>
                     ELSE IF s[i] \in R THEN Append(f[i - 1], s[i]) ELSE f[i - 1]]
<1>1. n \in Nat /\ \A i \in 1..n : s[i] \in X
  OBVIOUS
<1>2. ASSUME NEW i \in 1..n, NEW k \in T PROVE one(k, i) \in T
  BY <1>1
<1>3. step \in [1..n -> [T -> T]]
  BY <1>2
<1>4. <<>> \in T
  OBVIOUS
<1>5. PICK f : Counts(f, n, T, none, step)
  <2> HIDE DEF n, T, step, F, none
  <2>1. n \in Nat
    BY <1>1
  <2>2. none \in T
    BY <1>4 DEF none
  <2> QED  BY <2>1, <2>2, <1>3, ForLoop
<1>6. f = [i \in 0..n |-> IF i = 0 THEN <<>>
                          ELSE IF s[i] \in R THEN Append(f[i - 1], s[i]) ELSE f[i - 1]]
  <2>0. /\ f \in [0..n -> T] /\ f[0] = <<>>
        /\ \A i \in 1..n : f[i] = step[i][f[i - 1]]
    <3> HIDE DEF n, T, step, F
    <3> QED  BY <1>5 DEF Counts
  <2>1. ASSUME NEW i \in 1..n PROVE f[i] = one(f[i - 1], i)
    <3>1. f[i - 1] \in T
      <4>1. i - 1 \in 0..n
        BY <1>1
      <4> HIDE DEF n, T
      <4> QED  BY <4>1, <2>0
    <3>2. step[i][f[i - 1]] = one(f[i - 1], i)
      <4> HIDE DEF n, T, one
      <4> QED  BY <3>1
    <3> QED  BY <3>2, <2>0
  <2>2. \A i \in 0..n : i = 0 \/ i \in 1..n
    BY <1>1
  <2>3. f = [i \in 0..n |-> IF i = 0 THEN <<>> ELSE one(f[i - 1], i)]
    <3> HIDE DEF n, T, step, one, F
    <3> QED  BY <2>0, <2>1, <2>2
  <2> QED  BY <2>3
<1>7. F = [i \in 0..n |-> IF i = 0 THEN <<>>
                          ELSE IF s[i] \in R THEN Append(F[i - 1], s[i]) ELSE F[i - 1]]
  BY <1>6
<1>8. Keep(s, R) = F[n]
  BY DEF Keep
<1> HIDE DEF F
<1>9. F[0] = <<>> /\ \A i \in 1..n : F[i] = one(F[i - 1], i)
  <2>1. F = [i \in 0..n |-> IF i = 0 THEN <<>> ELSE one(F[i - 1], i)]
    BY <1>7
  <2>2. 0 \in 0..n /\ \A i \in 1..n : i \in 0..n /\ i # 0
    BY <1>1
  <2> HIDE DEF n, one
  <2> QED  BY <2>1, <2>2
<1> DEFINE P == {i \in 0..n : F[i] \in T /\ \E e : Picks(e, F[i], s, R, i)}
<1>10. 0 \in P
  <2> DEFINE e == [i \in 1..0 |-> 0]
  <2>1. Len(F[0]) = 0 /\ F[0] \in T
    BY <1>9
  <2>2. e \in [1..Len(F[0]) -> 1..0] /\ 1..0 = {}
    BY <2>1
  <2> HIDE DEF e
  <2>3. Picks(e, F[0], s, R, 0)
    BY <2>1, <2>2 DEF Picks
  <2> QED  BY <2>1, <2>3, <1>1
<1>11. ASSUME NEW i \in 1..n, i - 1 \in P PROVE i \in P
  <2>1. F[i] = one(F[i - 1], i) /\ F[i - 1] \in T
    BY <1>9, <1>11
  <2>2. PICK e : Picks(e, F[i - 1], s, R, i - 1)
    BY <1>11
  <2>3. F[i] \in T /\ \E f1 : Picks(f1, F[i], s, R, i)
    BY <2>1, <2>2, PickOne
  <2> QED  BY <2>3, <1>1
<1>12. P = 0..n
  <2> HIDE DEF P
  <2>1. P \subseteq 0..n
    BY DEF P
  <2> QED  BY <2>1, <1>1, <1>10, <1>11, NatInd
<1>13. n \in P
  <2> HIDE DEF P, n, step
  <2> QED  BY <1>1, <1>12
<1> QED  BY <1>8, <1>13

-----------------------------------------------------------------------------
(***************************************************************************)
(* GetTopologicalOrder.  What is below a relation is of higher rank than   *)
(* what is below anything it reads, which bounds the calls in progress.    *)
(***************************************************************************)
Stacks(D) == [stack : Seq(D), sorted : Seq(D)]

InSorted(s, x) == \E i \in DOMAIN s.sorted : s.sorted[i] = x

\* The index of what is called for next, or 0.
NextUnsorted(t, s) ==
  SelectInSeq(ToVisit(t, s.stack), LAMBDA d : d \in DOMAIN t.node \ ToSet(s.sorted))

Called(t, s) == [s EXCEPT !.stack = <<ToVisit(t, s.stack)[NextUnsorted(t, s)]>> \o @]

Returned(s) == [stack |-> Tail(s.stack), sorted |-> Append(s.sorted, Head(s.stack))]

LEMMA NextUnsortedIs ==
  ASSUME NEW N, NEW t, IsTree(t, N), Whole(t), NEW s \in Stacks(DOMAIN t.node)
  PROVE  LET q == ToVisit(t, s.stack)
             i == NextUnsorted(t, s)
         IN  /\ \/ i = 0 /\ \A k \in DOMAIN q : q[k] \in DOMAIN t.node => InSorted(s, q[k])
                \/ i # 0 /\ i \in DOMAIN q /\ q[i] \in DOMAIN t.node /\ ~InSorted(s, q[i])
             /\ s.stack # <<>> => Head(s.stack) \in DOMAIN t.node
             /\ q = IF s.stack = <<>> THEN t.order ELSE t.node[Head(s.stack)].dependsOn
<1> DEFINE D == DOMAIN t.node
           q == ToVisit(t, s.stack)
           I == {k \in 1..Len(q) : q[k] \in D \ ToSet(s.sorted)}
           i == NextUnsorted(t, s)
<1>1. s.stack \in Seq(D) /\ s.sorted \in Seq(D)
  BY DEF Stacks
<1>2. s.stack # <<>> => Head(s.stack) \in D
  <2> DEFINE p == s.stack
  <2> HIDE DEF p
  <2> QED  BY <1>1, HeadAndTail DEF p
<1>3. q = IF s.stack = <<>> THEN t.order ELSE t.node[Head(s.stack)].dependsOn
  BY DEF ToVisit
<1>4. q \in Seq(N \cup D)
  <2>1. CASE s.stack = <<>>
    <3>1. t.order \in Seq(N) /\ q = t.order
      BY <1>3, <2>1 DEF IsTree
    <3> HIDE DEF q
    <3> QED  BY <3>1
  <2>2. CASE s.stack # <<>>
    <3>1. q \in Seq(D)
      BY <1>2, <1>3, <2>2 DEF Whole
    <3> HIDE DEF q
    <3> QED  BY <3>1
  <2> QED  BY <2>1, <2>2
<1>5. i = IF I # {} THEN Min(I) ELSE 0
  BY DEF NextUnsorted, SelectInSeq
<1>6. I \subseteq Nat /\ DOMAIN q = 1..Len(q) /\ 0 \notin I
  <2> HIDE DEF q
  <2> QED  BY <1>4
<1>7. ASSUME NEW x PROVE x \in ToSet(s.sorted) <=> InSorted(s, x)
  BY DEF ToSet, InSorted
<1> HIDE DEF q, i
<1>8. CASE I = {}
  <2>1. \A k \in DOMAIN q : q[k] \in D => InSorted(s, q[k])
    BY <1>6, <1>7, <1>8
  <2> QED  BY <2>1, <1>2, <1>3, <1>5, <1>8 DEF q, i
<1>9. CASE I # {}
  <2>1. Min(I) \in I
    <3> HIDE DEF I
    <3>1. PICK m \in I : \A k \in I : m <= k
      BY <1>6, <1>9, LeastNumber
    <3> QED  BY <3>1 DEF Min
  <2>2. i \in DOMAIN q /\ i # 0 /\ q[i] \in D /\ ~InSorted(s, q[i])
    BY <2>1, <1>5, <1>6, <1>7, <1>9
  <2> QED  BY <2>2, <1>2, <1>3 DEF q, i
<1> QED  BY <1>8, <1>9

\* The measures of the loop: what is not sorted, the calls whose relation is, the rank.
Rank(t, B, s) ==
  IF s.stack = <<>> THEN Cardinality(DOMAIN t.node) + 1 ELSE Cardinality(B[Head(s.stack)])

Unsorted(t, s) == {x \in DOMAIN t.node : ~InSorted(s, x)}

\* Places are counted from below, so that a call on top does not move them.
Stale(s) ==
  {Len(s.stack) - i : i \in {j \in DOMAIN s.stack : InSorted(s, s.stack[j])}}

LEMMA RankDecreases ==
  ASSUME NEW N, NEW t, IsTree(t, N), Whole(t), NEW B, IsBelow(t, B),
         NEW x \in DOMAIN t.node
  PROVE  /\ Cardinality(B[x]) \in Nat
         /\ Cardinality(B[x]) < Cardinality(DOMAIN t.node) + 1
         /\ \A i \in DOMAIN t.node[x].dependsOn :
              Cardinality(B[t.node[x].dependsOn[i]]) < Cardinality(B[x])
<1> DEFINE D == DOMAIN t.node
           c == t.node[x].dependsOn
<1>1. IsFiniteSet(D)
  BY TreeIsFinite
<1>2. B[x] \subseteq D /\ IsFiniteSet(B[x])
  BY <1>1, FS_Subset DEF IsBelow
<1>3. Cardinality(B[x]) \in Nat /\ Cardinality(D) \in Nat /\ Cardinality(B[x]) <= Cardinality(D)
  BY <1>1, <1>2, SmallerSet
<1>4. ASSUME NEW i \in DOMAIN c PROVE Cardinality(B[c[i]]) < Cardinality(B[x])
  <2>1. c[i] \in D /\ Cone(B, c[i]) \subseteq B[x]
    BY ReadsOf
  <2>2. c[i] \notin B[c[i]]
    BY <2>1 DEF IsBelow
  <2>3. B[c[i]] \subseteq B[x] /\ B[c[i]] # B[x]
    BY <2>1, <2>2 DEF Cone
  <2> HIDE DEF c
  <2> QED  BY <2>3, <1>2, SmallerSet
<1> QED  BY <1>3, <1>4

LEMMA CalledIs ==
  ASSUME NEW N, NEW t, IsTree(t, N), Whole(t),
         NEW s \in Stacks(DOMAIN t.node), NextUnsorted(t, s) # 0
  PROVE  LET u == Called(t, s)
             d == ToVisit(t, s.stack)[NextUnsorted(t, s)]
         IN  /\ u \in Stacks(DOMAIN t.node)
             /\ u.sorted = s.sorted
             /\ u.stack # <<>> /\ Head(u.stack) = d
             /\ d \in DOMAIN t.node /\ ~InSorted(s, d)
             /\ s.stack # <<>> =>
                  /\ Head(s.stack) \in DOMAIN t.node
                  /\ \E i \in DOMAIN t.node[Head(s.stack)].dependsOn :
                       d = t.node[Head(s.stack)].dependsOn[i]
             /\ Len(u.stack) = Len(s.stack) + 1 /\ Len(s.stack) \in Nat
             /\ u.stack[1] = d
             /\ \A i \in DOMAIN s.stack :
                  i \in Nat /\ i + 1 \in DOMAIN u.stack /\ u.stack[i + 1] = s.stack[i]
             /\ \A i \in DOMAIN u.stack :
                  i = 1 \/ (i - 1 \in DOMAIN s.stack /\ u.stack[i] = s.stack[i - 1])
<1> DEFINE D == DOMAIN t.node
           q == ToVisit(t, s.stack)
           d == q[NextUnsorted(t, s)]
           u == Called(t, s)
           z == s.stack
<1>1. /\ NextUnsorted(t, s) \in DOMAIN q /\ d \in D /\ ~InSorted(s, d)
      /\ z # <<>> => Head(z) \in D /\ q = t.node[Head(z)].dependsOn
  BY NextUnsortedIs
<1>2. z \in Seq(D) /\ s.sorted \in Seq(D) /\ s = [stack |-> z, sorted |-> s.sorted]
  BY DEF Stacks
<1>3. u.stack = <<d>> \o z /\ u.sorted = s.sorted /\ u = [stack |-> u.stack, sorted |-> u.sorted]
  <2>1. u = [s EXCEPT !.stack = <<d>> \o z]
    BY DEF Called
  <2> HIDE DEF u, d
  <2> QED  BY <2>1, <1>2
<1>4. z # <<>> => \E i \in DOMAIN t.node[Head(z)].dependsOn : d = t.node[Head(z)].dependsOn[i]
  BY <1>1
<1> HIDE DEF z, d, u, q
<1> DEFINE w == <<d>> \o z
<1>5. /\ w \in Seq(D) /\ w # <<>> /\ Head(w) = d /\ Len(w) = Len(z) + 1 /\ Len(z) \in Nat /\ w[1] = d
      /\ \A i \in DOMAIN z : i \in Nat /\ i + 1 \in DOMAIN w /\ w[i + 1] = z[i]
      /\ \A i \in DOMAIN w : i = 1 \/ (i - 1 \in DOMAIN z /\ w[i] = z[i - 1])
  <2>1. <<d>> \in Seq(D) /\ Len(<<d>>) = 1 /\ <<d>>[1] = d /\ DOMAIN <<d>> = {1}
    <3>1. d \in D
      BY <1>1
    <3> HIDE DEF D
    <3>2. <<d>> \in Seq(D) /\ Len(<<d>>) = 1 /\ <<d>>[1] = d
      BY <3>1
    <3>3. DOMAIN <<d>> = {1}
      OBVIOUS
    <3> QED  BY <3>2, <3>3
  <2>2. Len(z) \in Nat /\ \A i \in DOMAIN z : i \in Nat
    BY <1>2
  <2> DEFINE e == <<d>>
  <2> HIDE DEF e
  <2>3. /\ w \in Seq(D) /\ Len(w) = Len(e) + Len(z)
        /\ \A i \in DOMAIN e : i \in DOMAIN w /\ w[i] = e[i]
        /\ \A i \in DOMAIN z : Len(e) + i \in DOMAIN w /\ w[Len(e) + i] = z[i]
        /\ \A i \in DOMAIN w : i \notin DOMAIN e =>
             i - Len(e) \in DOMAIN z /\ w[i] = z[i - Len(e)]
    BY <1>2, <2>1, Joined DEF e
  <2> HIDE DEF w
  <2>4. Len(e) = 1 /\ e[1] = d /\ DOMAIN e = {1}
    BY <2>1 DEF e
  <2>5. w # <<>> /\ Head(w) = w[1]
    BY <2>2, <2>3, <2>4
  <2>6. ASSUME NEW i \in DOMAIN z PROVE i + 1 \in DOMAIN w /\ w[i + 1] = z[i]
    <3>1. Len(e) + i = i + 1
      BY <2>2, <2>4
    <3> QED  BY <3>1, <2>3
  <2> QED  BY <2>2, <2>3, <2>4, <2>5, <2>6
<1> HIDE DEF w
<1>6. u.stack = w
  BY <1>3 DEF w
<1>7. u \in Stacks(D)
  BY <1>2, <1>3, <1>5, <1>6 DEF Stacks
<1> QED  BY <1>1, <1>3, <1>4, <1>5, <1>6, <1>7 DEF u, d, z, q

LEMMA ReturnedIs ==
  ASSUME NEW D, NEW s \in Stacks(D), s.stack # <<>>
  PROVE  LET u == Returned(s)
             h == Head(s.stack)
             n == Len(s.sorted)
         IN  /\ u \in Stacks(D) /\ h \in D
             /\ 1 \in DOMAIN s.stack /\ s.stack[1] = h
             /\ Len(u.stack) = Len(s.stack) - 1 /\ Len(s.stack) \in Nat
             /\ \A i \in DOMAIN u.stack :
                  i \in Nat \ {0} /\ i + 1 \in DOMAIN s.stack /\ u.stack[i] = s.stack[i + 1]
             /\ n \in Nat /\ DOMAIN s.sorted = 1..n /\ DOMAIN u.sorted = 1..(n + 1)
             /\ u.sorted[n + 1] = h
             /\ \A i \in 1..n : u.sorted[i] = s.sorted[i]
             /\ \A x : InSorted(u, x) <=> InSorted(s, x) \/ x = h
<1> DEFINE u == Returned(s)
           z == s.stack
           h == Head(z)
           r == s.sorted
           n == Len(r)
           q == Tail(z)
           v == Append(r, h)
<1>1. z \in Seq(D) /\ r \in Seq(D) /\ z # <<>>
  BY DEF Stacks
<1>2. u = [stack |-> q, sorted |-> v]
  BY DEF Returned
<1> HIDE DEF z, r, u
<1>3. /\ h \in D /\ q \in Seq(D) /\ Len(q) = Len(z) - 1 /\ Len(z) \in Nat
      /\ 1 \in DOMAIN z /\ z[1] = h
      /\ \A i \in DOMAIN q : i \in Nat \ {0} /\ i + 1 \in DOMAIN z /\ q[i] = z[i + 1]
  BY <1>1
<1> HIDE DEF q, h
<1>4. /\ n \in Nat /\ DOMAIN r = 1..n /\ v \in Seq(D) /\ DOMAIN v = 1..(n + 1)
      /\ v[n + 1] = h /\ \A i \in 1..n : v[i] = r[i]
  BY <1>1, <1>3
<1> HIDE DEF v, n
<1>5. ASSUME NEW x PROVE (\E i \in DOMAIN v : v[i] = x) <=> (\E i \in DOMAIN r : r[i] = x) \/ x = h
  <2>1. 1..(n + 1) = (1..n) \cup {n + 1}
    BY <1>4
  <2> QED  BY <2>1, <1>4
<1>6. u \in Stacks(D) /\ u.stack = q /\ u.sorted = v
  BY <1>2, <1>3, <1>4 DEF Stacks
<1>7. ASSUME NEW x PROVE InSorted(u, x) <=> InSorted(s, x) \/ x = h
  BY <1>5, <1>6 DEF InSorted, r
<1> QED  BY <1>3, <1>4, <1>6, <1>7 DEF u, z, h, r, n

LEMMA StaleIsFinite ==
  ASSUME NEW D, NEW s \in Stacks(D)
  PROVE  IsFiniteSet(Stale(s)) /\ Cardinality(Stale(s)) \in Nat
<1> DEFINE z == s.stack
<1>1. z \in Seq(D)
  BY DEF Stacks
<1>2. Len(z) \in Nat /\ DOMAIN z = 1..Len(z)
  BY <1>1
<1>3. Stale(s) \subseteq 0..Len(z)
  <2> HIDE DEF z
  <2>1. ASSUME NEW i \in DOMAIN z PROVE Len(z) - i \in 0..Len(z)
    BY <1>2
  <2> QED  BY <2>1 DEF Stale, z
<1>4. IsFiniteSet(0..Len(z))
  BY <1>2, FS_Interval
<1> QED  BY <1>3, <1>4, FS_Subset, FS_CardinalityType

LEMMA CallIsLighter ==
  ASSUME NEW N, NEW t, IsTree(t, N), Whole(t), NEW B, IsBelow(t, B),
         NEW s \in Stacks(DOMAIN t.node), NextUnsorted(t, s) # 0
  PROVE  LET u == Called(t, s)
         IN  Unsorted(t, u) = Unsorted(t, s) /\ Stale(u) = Stale(s) /\ Rank(t, B, u) < Rank(t, B, s)
<1> DEFINE u == Called(t, s)
           d == ToVisit(t, s.stack)[NextUnsorted(t, s)]
           z == s.stack
           w == u.stack
<1>1. /\ u.sorted = s.sorted /\ w # <<>> /\ Head(w) = d
      /\ d \in DOMAIN t.node /\ ~InSorted(s, d)
      /\ z # <<>> => /\ Head(z) \in DOMAIN t.node
                     /\ \E i \in DOMAIN t.node[Head(z)].dependsOn : d = t.node[Head(z)].dependsOn[i]
      /\ Len(w) = Len(z) + 1 /\ Len(z) \in Nat /\ w[1] = d
      /\ \A i \in DOMAIN z : i \in Nat /\ i + 1 \in DOMAIN w /\ w[i + 1] = z[i]
      /\ \A i \in DOMAIN w : i = 1 \/ (i - 1 \in DOMAIN z /\ w[i] = z[i - 1])
  BY CalledIs
<1>2. ASSUME NEW x PROVE InSorted(u, x) <=> InSorted(s, x)
  BY <1>1 DEF InSorted
<1>3. Unsorted(t, u) = Unsorted(t, s)
  BY <1>2 DEF Unsorted
<1> HIDE DEF u, d, z, w
<1>4. Stale(u) = Stale(s)
  <2>0. z = s.stack /\ w = u.stack
    BY DEF z, w
  <2>1. ASSUME NEW m \in Stale(u) PROVE m \in Stale(s)
    <3>1. PICK i \in DOMAIN w : InSorted(u, w[i]) /\ m = Len(w) - i
      BY <2>0 DEF Stale
    <3>2. i - 1 \in DOMAIN z /\ w[i] = z[i - 1]
      BY <3>1, <1>1, <1>2
    <3>3. m = Len(z) - (i - 1)
      <4>1. i - 1 \in Nat
        BY <3>2, <1>1
      <4>2. i \in Nat
        BY <3>2, <1>1
      <4> QED  BY <3>1, <4>1, <1>1
    <3> QED  BY <3>1, <3>2, <3>3, <1>2, <2>0 DEF Stale
  <2>2. ASSUME NEW m \in Stale(s) PROVE m \in Stale(u)
    <3>1. PICK i \in DOMAIN z : InSorted(s, z[i]) /\ m = Len(z) - i
      BY <2>0 DEF Stale
    <3>0. i \in Nat /\ i + 1 \in DOMAIN w /\ w[i + 1] = z[i]
      BY <1>1
    <3>2. i + 1 \in DOMAIN w /\ w[i + 1] = z[i] /\ m = Len(w) - (i + 1)
      BY <3>0, <3>1, <1>1
    <3> QED  BY <3>1, <3>2, <1>2, <2>0 DEF Stale
  <2> QED  BY <2>1, <2>2
<1>5. Rank(t, B, u) = Cardinality(B[d])
  BY <1>1 DEF Rank, w
<1>6. CASE z = <<>>
  <2>1. Rank(t, B, s) = Cardinality(DOMAIN t.node) + 1
    BY <1>6 DEF Rank, z
  <2> QED  BY <2>1, <1>1, <1>3, <1>4, <1>5, RankDecreases DEF u
<1>7. CASE z # <<>>
  <2>1. Rank(t, B, s) = Cardinality(B[Head(z)])
    BY <1>7 DEF Rank, z
  <2> DEFINE h == Head(z)
  <2>2. h \in DOMAIN t.node /\ \E i \in DOMAIN t.node[h].dependsOn : d = t.node[h].dependsOn[i]
    BY <1>1, <1>7
  <2> HIDE DEF h
  <2>3. Cardinality(B[d]) < Cardinality(B[h])
    BY <2>2, RankDecreases
  <2> QED  BY <2>1, <2>3, <1>3, <1>4, <1>5 DEF u, h
<1> QED  BY <1>6, <1>7

LEMMA ReturnIsLighter ==
  ASSUME NEW N, NEW t, IsTree(t, N), NEW s \in Stacks(DOMAIN t.node), s.stack # <<>>
  PROVE  LET u == Returned(s)
         IN  \/ Cardinality(Unsorted(t, u)) < Cardinality(Unsorted(t, s))
             \/ Unsorted(t, u) = Unsorted(t, s) /\ Cardinality(Stale(u)) < Cardinality(Stale(s))
<1> DEFINE D == DOMAIN t.node
           u == Returned(s)
           z == s.stack
           w == u.stack
           h == Head(z)
<1>1. /\ h \in D /\ 1 \in DOMAIN z /\ z[1] = h
      /\ Len(w) = Len(z) - 1 /\ Len(z) \in Nat
      /\ \A i \in DOMAIN w : i \in Nat \ {0} /\ i + 1 \in DOMAIN z /\ w[i] = z[i + 1]
      /\ \A x : InSorted(u, x) <=> InSorted(s, x) \/ x = h
  BY ReturnedIs
<1>0. z = s.stack /\ w = u.stack
  OBVIOUS
<1> HIDE DEF u, z, w, h
<1>2. CASE ~InSorted(s, h)
  <2>1. Unsorted(t, u) \subseteq Unsorted(t, s) /\ Unsorted(t, u) # Unsorted(t, s)
    BY <1>1, <1>2 DEF Unsorted
  <2>2. IsFiniteSet(Unsorted(t, s))
    BY TreeIsFinite, FS_Subset DEF Unsorted
  <2>3. Cardinality(Unsorted(t, u)) < Cardinality(Unsorted(t, s))
    BY <2>1, <2>2, SmallerSet
  <2> QED  BY <2>3 DEF u
<1>3. CASE InSorted(s, h)
  <2>1. \A x : InSorted(u, x) <=> InSorted(s, x)
    BY <1>1, <1>3
  <2>2. Unsorted(t, u) = Unsorted(t, s)
    BY <2>1 DEF Unsorted
  <2>3. ASSUME NEW m \in Stale(u) PROVE m \in Stale(s) /\ m # Len(z) - 1
    <3>1. PICK i \in DOMAIN w : InSorted(u, w[i]) /\ m = Len(w) - i
      BY <1>0 DEF Stale
    <3>2. /\ i + 1 \in DOMAIN z /\ w[i] = z[i + 1] /\ m = Len(z) - (i + 1)
          /\ m # Len(z) - 1
      BY <3>1, <1>1
    <3> QED  BY <3>1, <3>2, <2>1, <1>0 DEF Stale
  <2>4. Len(z) - 1 \in Stale(s)
    BY <1>0, <1>1, <1>3 DEF Stale
  <2>5. Cardinality(Stale(u)) < Cardinality(Stale(s))
    BY <2>3, <2>4, StaleIsFinite, SmallerSet
  <2> QED  BY <2>2, <2>5 DEF u
<1> QED  BY <1>2, <1>3

(***************************************************************************)
(* What the loop keeps: the order so far has nothing twice and everything  *)
(* after what it reads; no call in progress is of a relation in it, and    *)
(* they were made from the relation of the highest rank down.              *)
(***************************************************************************)
ReadsBefore(t, q) ==
  /\ \A i, j \in DOMAIN q : q[i] = q[j] => i = j
  /\ \A i \in DOMAIN q : \A y \in ReadIn(t, q[i]) : \E j \in DOMAIN q : j < i /\ q[j] = y

Sorting(t, B, s) ==
  /\ ReadsBefore(t, s.sorted)
  /\ \A i \in DOMAIN s.stack : ~InSorted(s, s.stack[i])
  /\ \A i, j \in DOMAIN s.stack : i < j => Cardinality(B[s.stack[i]]) < Cardinality(B[s.stack[j]])

LEMMA CallKeepsSorting ==
  ASSUME NEW N, NEW t, IsTree(t, N), Whole(t), NEW B, IsBelow(t, B),
         NEW s \in Stacks(DOMAIN t.node), NextUnsorted(t, s) # 0, Sorting(t, B, s)
  PROVE  Sorting(t, B, Called(t, s))
<1> DEFINE u == Called(t, s)
           d == ToVisit(t, s.stack)[NextUnsorted(t, s)]
           z == s.stack
           w == u.stack
           h == Head(z)
           C(x) == Cardinality(B[x])
<1>0. z \in Seq(DOMAIN t.node)
  BY DEF Stacks
<1>1. /\ u \in Stacks(DOMAIN t.node)
      /\ u.sorted = s.sorted
      /\ w # <<>> /\ Head(w) = d
      /\ d \in DOMAIN t.node /\ ~InSorted(s, d)
      /\ z # <<>> => /\ h \in DOMAIN t.node
                     /\ \E i \in DOMAIN t.node[h].dependsOn : d = t.node[h].dependsOn[i]
      /\ Len(w) = Len(z) + 1 /\ Len(z) \in Nat
      /\ w[1] = d
      /\ \A i \in DOMAIN z : i \in Nat /\ i + 1 \in DOMAIN w /\ w[i + 1] = z[i]
      /\ \A i \in DOMAIN w : i = 1 \/ (i - 1 \in DOMAIN z /\ w[i] = z[i - 1])
  BY CalledIs
<1>2. ASSUME NEW x PROVE InSorted(u, x) <=> InSorted(s, x)
  BY <1>1 DEF InSorted
<1>3. z # <<>> => h = z[1] /\ 1 \in DOMAIN z /\ C(d) < C(h)
  <2> HIDE DEF z, d, h
  <2>1. z # <<>> => h = z[1] /\ 1 \in DOMAIN z
    BY <1>0, HeadAndTail DEF h
  <2>2. z # <<>> => C(d) < C(h)
    BY <1>1, RankDecreases
  <2> QED  BY <2>1, <2>2
<1>4. /\ \A i \in DOMAIN z : i \in Nat \ {0} /\ z[i] \in DOMAIN t.node
      /\ w \in Seq(DOMAIN t.node)
  <2>1. w \in Seq(DOMAIN t.node)
    BY <1>1 DEF Stacks
  <2> HIDE DEF z
  <2> QED  BY <1>0, <2>1
<1>5. \A i \in DOMAIN w : i \in Nat \ {0}
  <2> HIDE DEF w
  <2> QED  BY <1>4
<1>6. ASSUME NEW x \in DOMAIN t.node PROVE C(x) \in Nat
  BY RankDecreases
<1>7. /\ \A i \in DOMAIN z : ~InSorted(s, z[i])
      /\ \A i, j \in DOMAIN z : i < j => C(z[i]) < C(z[j])
  BY DEF Sorting
<1> HIDE DEF u, d, z, w, h, C
<1>8. ASSUME NEW i \in DOMAIN w PROVE ~InSorted(u, w[i])
  BY <1>1, <1>2, <1>7
<1>9. ASSUME NEW i \in DOMAIN z PROVE C(d) < C(z[i])
  <2>1. z # <<>>
    BY <1>0
  <2>2. CASE i = 1
    BY <2>1, <2>2, <1>3
  <2>3. CASE i # 1
    <3>1. 1 < i
      BY <2>3, <1>4
    <3>2. C(z[1]) < C(z[i])
      BY <3>1, <2>1, <1>3, <1>7
    <3>3. C(d) \in Nat /\ C(z[1]) \in Nat /\ C(z[i]) \in Nat
      BY <2>1, <1>1, <1>3, <1>4, <1>6
    <3> QED  BY <3>2, <3>3, <2>1, <1>3
  <2> QED  BY <2>2, <2>3
<1>10. ASSUME NEW i \in DOMAIN w, NEW j \in DOMAIN w, i < j PROVE C(w[i]) < C(w[j])
  <2>1. j # 1
    BY <1>5, <1>10
  <2>2. j - 1 \in DOMAIN z /\ w[j] = z[j - 1]
    BY <2>1, <1>1
  <2>3. CASE i = 1
    BY <2>2, <2>3, <1>1, <1>9
  <2>4. CASE i # 1
    <3>1. i - 1 \in DOMAIN z /\ w[i] = z[i - 1]
      BY <2>4, <1>1
    <3>2. i - 1 < j - 1
      BY <1>5, <1>10
    <3> QED  BY <3>1, <3>2, <2>2, <1>7
  <2> QED  BY <2>3, <2>4
<1>11. ReadsBefore(t, u.sorted)
  BY <1>1 DEF Sorting
<1> QED  BY <1>8, <1>10, <1>11 DEF Sorting, u, w, C

LEMMA ReturnKeepsSorting ==
  ASSUME NEW N, NEW t, IsTree(t, N), Whole(t), NEW B, IsBelow(t, B),
         NEW s \in Stacks(DOMAIN t.node), NextUnsorted(t, s) = 0, s.stack # <<>>,
         Sorting(t, B, s)
  PROVE  Sorting(t, B, Returned(s))
<1> DEFINE D == DOMAIN t.node
           u == Returned(s)
           z == s.stack
           w == u.stack
           h == Head(z)
           C(x) == Cardinality(B[x])
           n == Len(s.sorted)
           p == s.sorted
           q == u.sorted
<1>1. /\ h \in D /\ 1 \in DOMAIN z /\ z[1] = h
      /\ \A i \in DOMAIN w : i \in Nat \ {0} /\ i + 1 \in DOMAIN z /\ w[i] = z[i + 1]
      /\ n \in Nat /\ DOMAIN p = 1..n /\ DOMAIN q = 1..(n + 1) /\ q[n + 1] = h
      /\ \A i \in 1..n : q[i] = p[i]
      /\ \A x : InSorted(u, x) <=> InSorted(s, x) \/ x = h
  BY ReturnedIs
<1>2. \A y \in ReadIn(t, h) : InSorted(s, y)
  <2> DEFINE c == t.node[h].dependsOn
  <2>1. \A k \in DOMAIN c : c[k] \in D => InSorted(s, c[k])
    BY NextUnsortedIs
  <2>2. \A k \in DOMAIN c : c[k] \in D
    <3>1. c \in Seq(D)
      BY <1>1 DEF Whole
    <3> HIDE DEF c
    <3> QED  BY <3>1
  <2> QED  BY <2>1, <2>2 DEF ReadIn
<1>3. /\ ReadsBefore(t, p)
      /\ \A i \in DOMAIN z : ~InSorted(s, z[i])
      /\ \A i, j \in DOMAIN z : i < j => C(z[i]) < C(z[j])
  BY DEF Sorting
<1>4. z[1] \in D /\ C(z[1]) \in Nat
  BY <1>1, RankDecreases
<1>5. \A x : InSorted(s, x) <=> \E i \in DOMAIN p : p[i] = x
  BY DEF InSorted
<1> HIDE DEF u, z, w, h, C, p, q, n
<1>6. ASSUME NEW i \in DOMAIN q, NEW j \in DOMAIN q, q[i] = q[j] PROVE i = j
  <2>1. ASSUME NEW k \in 1..n PROVE q[k] # h
    BY <1>1, <1>3, <1>5
  <2>2. CASE i \in 1..n /\ j \in 1..n
    BY <2>2, <1>1, <1>3, <1>6 DEF ReadsBefore
  <2>3. CASE i = n + 1 \/ j = n + 1
    <3>1. (i = n + 1 \/ i \in 1..n) /\ (j = n + 1 \/ j \in 1..n)
      BY <1>1
    <3> QED  BY <3>1, <2>1, <2>3, <1>1, <1>6
  <2> QED  BY <2>2, <2>3, <1>1
<1>7. ASSUME NEW i \in DOMAIN q, NEW y \in ReadIn(t, q[i])
      PROVE  \E j \in DOMAIN q : j < i /\ q[j] = y
  <2>1. CASE i \in 1..n
    <3>1. PICK j \in DOMAIN p : j < i /\ p[j] = y
      BY <2>1, <1>1, <1>3, <1>7 DEF ReadsBefore
    <3> QED  BY <3>1, <1>1
  <2>2. CASE i = n + 1
    <3>1. PICK j \in DOMAIN p : p[j] = y
      BY <2>2, <1>1, <1>2, <1>5, <1>7
    <3>2. j \in DOMAIN q /\ j < i /\ q[j] = y
      BY <3>1, <2>2, <1>1
    <3> QED  BY <3>2
  <2> QED  BY <2>1, <2>2, <1>1
<1>8. ASSUME NEW i \in DOMAIN w PROVE ~InSorted(u, w[i])
  <2>1. C(z[1]) < C(z[i + 1])
    <3>1. 1 < i + 1
      BY <1>1
    <3> QED  BY <3>1, <1>1, <1>3
  <2>2. w[i] # h
    BY <2>1, <1>1, <1>4
  <2> QED  BY <2>2, <1>1, <1>3
<1>9. ASSUME NEW i \in DOMAIN w, NEW j \in DOMAIN w, i < j PROVE C(w[i]) < C(w[j])
  <2>1. i + 1 < j + 1
    BY <1>1, <1>9
  <2> QED  BY <2>1, <1>1, <1>3
<1>10. ReadsBefore(t, q)
  BY <1>6, <1>7 DEF ReadsBefore
<1> QED  BY <1>8, <1>9, <1>10 DEF Sorting, u, w, C, q

(***************************************************************************)
(* The result is the nodes of the tree, each once and after all it reads.  *)
(***************************************************************************)
OrderIs(t, q) ==
  /\ q \in Seq(DOMAIN t.node)
  /\ ReadsBefore(t, q)
  /\ \A x \in DOMAIN t.node : \E i \in DOMAIN q : q[i] = x

LEMMA TopologicalOrderIs ==
  ASSUME NEW N, NEW t, IsTree(t, N), Whole(t), NEW B, IsBelow(t, B)
  PROVE  OrderIs(t, GetTopologicalOrder(t))
<1> DEFINE D       == DOMAIN t.node
           S       == Stacks(D)
           T       == Seq(D)
           then(s) == IF NextUnsorted(t, s) # 0 THEN Called(t, s) ELSE Returned(s)
           done    == {s \in S : NextUnsorted(t, s) = 0 /\ s.stack = <<>>}
           out     == [s \in S |-> s.sorted]
           next    == [s \in S |-> then(s)]
           a       == [s \in S |-> Cardinality(Unsorted(t, s))]
           b       == [s \in S |-> Cardinality(Stale(s))]
           c       == [s \in S |-> Rank(t, B, s)]
           F       == CHOOSE f : f = [s \in S |->
                        IF NextUnsorted(t, s) # 0 THEN f[Called(t, s)]
                        ELSE IF s.stack = <<>> THEN s.sorted ELSE f[Returned(s)]]
           start   == [stack |-> <<>>, sorted |-> <<>>]
<1>1. IsFiniteSet(D) /\ Cardinality(D) \in Nat
  BY TreeIsFinite, FS_CardinalityType
<1>2. ASSUME NEW s \in S
      PROVE  /\ s.stack \in Seq(D) /\ s.sorted \in Seq(D)
             /\ Cardinality(Unsorted(t, s)) \in Nat /\ Cardinality(Stale(s)) \in Nat
             /\ Rank(t, B, s) \in Nat
  <2>1. s.stack \in Seq(D) /\ s.sorted \in Seq(D)
    BY DEF Stacks
  <2>2. Cardinality(Unsorted(t, s)) \in Nat
    BY <1>1, SmallerSet DEF Unsorted
  <2>3. Rank(t, B, s) \in Nat
    <3>1. s.stack # <<>> => Head(s.stack) \in D
      <4> DEFINE z == s.stack
      <4> HIDE DEF z
      <4> QED  BY <2>1, HeadAndTail DEF z
    <3> QED  BY <3>1, <1>1, RankDecreases DEF Rank
  <2> QED  BY <2>1, <2>2, <2>3, StaleIsFinite
<1>3. a \in [S -> Nat] /\ b \in [S -> Nat] /\ c \in [S -> Nat]
  BY <1>2
<1>4. ASSUME NEW s \in S, s \notin done
      PROVE  then(s) \in S /\ Lighter(a, b, c, then(s), s)
  <2>1. CASE NextUnsorted(t, s) # 0
    <3> DEFINE u == Called(t, s)
    <3>1. u \in S
      BY <2>1, CalledIs
    <3>2. Unsorted(t, u) = Unsorted(t, s) /\ Stale(u) = Stale(s) /\ Rank(t, B, u) < Rank(t, B, s)
      BY <2>1, CallIsLighter
    <3> HIDE DEF u
    <3>3. then(s) = u
      BY <2>1 DEF u
    <3> HIDE DEF then
    <3> QED  BY <3>1, <3>2, <3>3 DEF Lighter
  <2>2. CASE NextUnsorted(t, s) = 0
    <3> DEFINE u == Returned(s)
    <3>1. s.stack # <<>>
      BY <2>2, <1>4
    <3>2. u \in S
      BY <3>1, ReturnedIs
    <3>3. \/ Cardinality(Unsorted(t, u)) < Cardinality(Unsorted(t, s))
          \/ Unsorted(t, u) = Unsorted(t, s) /\ Cardinality(Stale(u)) < Cardinality(Stale(s))
      BY <3>1, ReturnIsLighter
    <3> HIDE DEF u
    <3>4. then(s) = u
      BY <2>2 DEF u
    <3> HIDE DEF then
    <3> QED  BY <3>2, <3>3, <3>4 DEF Lighter
  <2> QED  BY <2>1, <2>2
<1>5. Loops(S, T, done, out, next, a, b, c)
  <2>1. \A s \in S \cap done : out[s] \in T
    BY <1>2
  <2>2. ASSUME NEW s \in S \ done
        PROVE  next[s] \in S /\ Lighter(a, b, c, next[s], s)
    <3>1. next[s] = then(s)
      OBVIOUS
    <3> HIDE DEF next, a, b, c, then, done
    <3> QED  BY <1>4, <3>1
  <2> HIDE DEF S, T, done, out, next, a, b, c
  <2> QED  BY <1>3, <2>1, <2>2 DEF Loops
<1>6. PICK f : Ends(f, S, T, done, out, next)
  <2> HIDE DEF S, T, done, out, next, a, b, c, F
  <2> QED  BY <1>5, WhileLoop
<1>7. f = [s \in S |-> IF NextUnsorted(t, s) # 0 THEN f[Called(t, s)]
                       ELSE IF s.stack = <<>> THEN s.sorted ELSE f[Returned(s)]]
  BY <1>6 DEF Ends
<1>8. F = [s \in S |-> IF NextUnsorted(t, s) # 0 THEN F[Called(t, s)]
                       ELSE IF s.stack = <<>> THEN s.sorted ELSE F[Returned(s)]]
  <2> HIDE DEF S
  <2> QED  BY <1>7
<1>9. GetTopologicalOrder(t) = F[start]
  BY DEF GetTopologicalOrder, Called, Returned, Stacks, NextUnsorted
<1> HIDE DEF F
<1> DEFINE P == {s \in S : Sorting(t, B, s) => OrderIs(t, F[s])}
<1>10. S \cap done \subseteq P
  <2> SUFFICES ASSUME NEW s \in S, NextUnsorted(t, s) = 0, s.stack = <<>>, Sorting(t, B, s)
               PROVE  OrderIs(t, s.sorted)
    BY <1>8
  <2>1. \A k \in DOMAIN t.order : t.order[k] \in D => InSorted(s, t.order[k])
    BY NextUnsortedIs
  <2>2. \A x \in D : InSorted(s, x)
    BY <2>1 DEF IsTree
  <2> QED  BY <2>2, <1>2 DEF OrderIs, Sorting, InSorted
<1>11. ASSUME NEW s \in S \ done, next[s] \in P PROVE s \in P
  <2>1. s \in S /\ s \notin done /\ next[s] = then(s)
    OBVIOUS
  <2> SUFFICES ASSUME Sorting(t, B, s) PROVE OrderIs(t, F[s])
    BY <2>1
  <2>2. F[s] = F[then(s)]
    BY <1>8, <2>1
  <2>3. Sorting(t, B, then(s))
    BY <2>1, CallKeepsSorting, ReturnKeepsSorting
  <2> QED  BY <1>11, <2>1, <2>2, <2>3
<1>12. P = S
  <2> HIDE DEF S, T, done, out, next, a, b, c
  <2>1. P \in SUBSET S
    OBVIOUS
  <2> HIDE DEF P
  <2> QED  BY <2>1, <1>5, <1>10, <1>11, LoopInduction
<1>13. start \in S /\ Sorting(t, B, start)
  <2>1. start \in S /\ DOMAIN start.sorted = {} /\ DOMAIN start.stack = {}
    BY DEF Stacks
  <2> QED  BY <2>1 DEF Sorting, ReadsBefore
<1>14. start \in P
  <2> HIDE DEF P, S, start
  <2> QED  BY <1>12, <1>13
<1> QED  BY <1>9, <1>13, <1>14

-----------------------------------------------------------------------------
(***************************************************************************)
(* What DeleteNode leaves.                                                 *)
(***************************************************************************)
Distinct(s) == \A i, j \in DOMAIN s : s[i] = s[j] => i = j

LEMMA RemoveFirstIs ==
  ASSUME NEW X, NEW s \in Seq(X), Distinct(s), NEW e
  PROVE  LET r == RemoveFirst(s, e)
         IN  r \in Seq(X) /\ Distinct(r) /\ ToSet(r) = ToSet(s) \ {e}
<1> DEFINE n == Len(s)
           I == {i \in 1..n : s[i] = e}
           k == SelectInSeq(s, LAMBDA v : v = e)
           p == SubSeq(s, 1, k - 1)
           q == SubSeq(s, k + 1, n)
           r == RemoveFirst(s, e)
<1>1. n \in Nat /\ DOMAIN s = 1..n /\ \A i \in 1..n : s[i] \in X
  OBVIOUS
<1>2. CASE I = {}
  <2>1. r = s
    BY <1>2 DEF RemoveFirst
  <2>2. e \notin ToSet(s)
    BY <1>1, <1>2 DEF ToSet
  <2> QED  BY <2>1, <2>2
<1>3. CASE I # {}
  <2>1. k \in I
    <3>1. k = Min(I)
      BY <1>3 DEF SelectInSeq
    <3>2. I \subseteq Nat
      BY <1>1
    <3> HIDE DEF I, k
    <3>3. PICK m \in I : \A j \in I : m <= j
      BY <1>3, <3>2, LeastNumber
    <3> QED  BY <3>1, <3>3 DEF Min
  <2>2. r = p \o q
    BY <1>3 DEF RemoveFirst, RemoveAt
  <2>3. k \in 1..n /\ s[k] = e
    BY <2>1
  <2> HIDE DEF k, I
  <2>4. /\ p \in Seq(X) /\ DOMAIN p = 1..(k - 1) /\ Len(p) = k - 1
        /\ \A i \in 1..(k - 1) : p[i] = s[i]
    BY <1>1, <2>3
  <2>5. /\ q \in Seq(X) /\ DOMAIN q = 1..(n - k) /\ Len(q) = n - k
        /\ \A i \in 1..(n - k) : q[i] = s[i + k]
    <3>1. k + 1 \in 1..(n + 1) /\ n \in 0..n /\ \A i \in (k + 1)..n : i \in 1..n
      BY <1>1, <2>3
    <3>2. /\ q \in Seq(X)
          /\ Len(q) = IF k + 1 <= n THEN n - (k + 1) + 1 ELSE 0
      <4>1. \A i \in (k + 1)..n : s[i] \in X
        BY <1>1, <3>1
      <4>2. k + 1 \in Int /\ n \in Int
        BY <1>1, <2>3
      <4> HIDE DEF n
      <4> QED  BY <4>1, <4>2, SubSeqProperties
    <3>3. q \in Seq(X) /\ Len(q) = n - k
      <4>1. n \in Nat /\ k \in 1..n
        BY <1>1, <2>3
      <4> HIDE DEF q, n
      <4>2. CASE k + 1 <= n
        BY <3>2, <4>1, <4>2
      <4>3. CASE k = n
        BY <3>2, <4>1, <4>3
      <4> QED  BY <4>1, <4>2, <4>3
    <3>4. DOMAIN q = 1..(n - k)
      <4> HIDE DEF q, n
      <4> QED  BY <3>3
    <3>5. \A i \in 1..(n - k) : q[i] = s[i + k]
      BY <1>1, <2>3
    <3> QED  BY <3>3, <3>4, <3>5
  <2> HIDE DEF n, p, q, r
  <2> DEFINE z == p \o q
  <2>6. /\ z \in Seq(X) /\ Len(z) = Len(p) + Len(q)
        /\ \A i \in DOMAIN p : i \in DOMAIN z /\ z[i] = p[i]
        /\ \A i \in DOMAIN q : Len(p) + i \in DOMAIN z /\ z[Len(p) + i] = q[i]
        /\ \A i \in DOMAIN z : i \notin DOMAIN p =>
             i - Len(p) \in DOMAIN q /\ z[i] = q[i - Len(p)]
    BY <2>4, <2>5, Joined
  <2> HIDE DEF z
  <2>7. DOMAIN z = 1..(n - 1)
    BY <2>3, <2>4, <2>5, <2>6, <1>1
  <2>8. \A i \in 1..(n - 1) : z[i] = IF i < k THEN s[i] ELSE s[i + 1]
    <3> SUFFICES ASSUME NEW i \in 1..(n - 1) PROVE z[i] = IF i < k THEN s[i] ELSE s[i + 1]
      OBVIOUS
    <3>1. CASE i < k
      <4>1. i \in 1..(k - 1)
        BY <3>1, <2>3, <1>1
      <4> QED  BY <4>1, <3>1, <2>4, <2>6
    <3>2. CASE ~(i < k)
      <4> DEFINE j == i - k + 1
      <4>1. j \in 1..(n - k) /\ Len(p) + j = i /\ j + k = i + 1
        BY <3>2, <2>3, <2>4, <1>1
      <4> HIDE DEF j
      <4>2. z[Len(p) + j] = q[j] /\ q[j] = s[j + k]
        BY <4>1, <2>5, <2>6
      <4> QED  BY <4>1, <4>2, <3>2
    <3> QED  BY <3>1, <3>2
  <2>9. Distinct(z)
    <3> SUFFICES ASSUME NEW i \in 1..(n - 1), NEW j \in 1..(n - 1), z[i] = z[j] PROVE i = j
      BY <2>7 DEF Distinct
    <3> DEFINE f(m) == IF m < k THEN m ELSE m + 1
    <3>1. f(i) \in 1..n /\ f(j) \in 1..n /\ (f(i) = f(j) => i = j)
      BY <1>1, <2>3
    <3>2. z[i] = s[f(i)] /\ z[j] = s[f(j)]
      BY <2>8
    <3> HIDE DEF f
    <3> QED  BY <3>1, <3>2, <1>1 DEF Distinct
  <2>10. ToSet(z) = ToSet(s) \ {e}
    <3>1. ASSUME NEW i \in 1..(n - 1) PROVE \E j \in 1..n : z[i] = s[j] /\ j # k
      <4>1. CASE i < k
        BY <4>1, <2>8, <2>3, <1>1
      <4>2. CASE ~(i < k)
        <5>1. i + 1 \in 1..n /\ i + 1 # k
          BY <4>2, <2>3, <1>1
        <5> QED  BY <5>1, <4>2, <2>8
      <4> QED  BY <4>1, <4>2
    <3>2. ASSUME NEW j \in 1..n, j # k PROVE \E i \in 1..(n - 1) : z[i] = s[j]
      <4>1. CASE j < k
        <5>1. j \in 1..(n - 1)
          BY <4>1, <2>3, <1>1
        <5> QED  BY <5>1, <4>1, <2>8
      <4>2. CASE ~(j < k)
        <5>1. j - 1 \in 1..(n - 1) /\ ~(j - 1 < k) /\ j - 1 + 1 = j
          BY <4>2, <3>2, <2>3, <1>1
        <5> QED  BY <5>1, <2>8
      <4> QED  BY <4>1, <4>2
    <3>3. \A j \in 1..n : j # k => s[j] # e
      BY <2>3, <1>1 DEF Distinct
    <3>4. ToSet(z) = {z[i] : i \in 1..(n - 1)} /\ ToSet(s) = {s[j] : j \in 1..n}
      BY <1>1, <2>7 DEF ToSet
    <3>5. ToSet(z) \subseteq ToSet(s) \ {e}
      BY <3>1, <3>3, <3>4
    <3>6. ToSet(s) \ {e} \subseteq ToSet(z)
      BY <3>2, <3>4, <2>3
    <3> QED  BY <3>5, <3>6
  <2> QED  BY <2>2, <2>6, <2>9, <2>10 DEF z, r
<1> QED  BY <1>2, <1>3

LEMMA DeleteNodeIs ==
  ASSUME NEW N, NEW t, IsTree(t, N), NEW r
  PROVE  LET u == DeleteNode(t, r)
         IN  /\ IsTree(u, N)
             /\ DOMAIN u.node = DOMAIN t.node \ {r}
             /\ \A x \in DOMAIN u.node : u.node[x] = t.node[x]
<1> DEFINE u == DeleteNode(t, r)
           D == DOMAIN t.node
<1>1. /\ u.order = RemoveFirst(t.order, r)
      /\ u.node = [x \in D \ {r} |-> t.node[x]]
      /\ u = [order |-> u.order, node |-> u.node]
  BY DEF DeleteNode
<1> HIDE DEF u
<1>2. /\ t.order \in Seq(N) /\ Distinct(t.order) /\ {t.order[i] : i \in DOMAIN t.order} = D
      /\ D \subseteq N /\ t.node \in [D -> Nodes(N)]
  BY DEF IsTree, Distinct
<1>3. /\ u.order \in Seq(N) /\ Distinct(u.order)
      /\ {u.order[i] : i \in DOMAIN u.order} = {t.order[i] : i \in DOMAIN t.order} \ {r}
  <2> DEFINE o == RemoveFirst(t.order, r)
  <2>1. o \in Seq(N) /\ Distinct(o) /\ ToSet(o) = ToSet(t.order) \ {r}
    BY <1>2, RemoveFirstIs
  <2>2. u.order = o
    BY <1>1
  <2> HIDE DEF o
  <2> QED  BY <2>1, <2>2 DEF ToSet
<1>4. /\ DOMAIN u.node = D \ {r} /\ u.node \in [D \ {r} -> Nodes(N)]
      /\ \A x \in D \ {r} : u.node[x] = t.node[x]
  BY <1>1, <1>2
<1>5. IsTree(u, N)
  BY <1>1, <1>2, <1>3, <1>4 DEF IsTree, Distinct
<1> QED  BY <1>4, <1>5 DEF u

-----------------------------------------------------------------------------
(***************************************************************************)
(* ArrangeInTopologicalOrder: the same relations, each after those it reads*)
(***************************************************************************)
IsKept(s, R, k) ==
  /\ Distinct(k) /\ ToSet(k) = ToSet(s) \cap R
  /\ \A a, b \in DOMAIN s : a < b /\ s[a] \in R /\ s[b] \in R =>
       \E i, j \in DOMAIN k : i < j /\ k[i] = s[a] /\ k[j] = s[b]

LEMMA KeepIs ==
  ASSUME NEW X, NEW s \in Seq(X), Distinct(s), NEW R
  PROVE  Keep(s, R) \in Seq(X) /\ IsKept(s, R, Keep(s, R))
<1> DEFINE k == Keep(s, R)
           n == Len(s)
           l == Len(k)
<1>1. k \in Seq(X) /\ \E e : Picks(e, k, s, R, n)
  BY KeepPicks
<1> HIDE DEF k
<1>2. PICK e : Picks(e, k, s, R, n)
  BY <1>1
<1>3. n \in Nat /\ DOMAIN s = 1..n /\ l \in Nat /\ DOMAIN k = 1..l
  BY <1>1
<1>4. /\ \A i \in 1..l : e[i] \in 1..n /\ k[i] = s[e[i]] /\ s[e[i]] \in R
      /\ \A i, j \in 1..l : i < j => e[i] < e[j]
      /\ \A m \in 1..n : s[m] \in R => \E i \in 1..l : e[i] = m
  BY <1>2 DEF Picks
<1> HIDE DEF n, l
<1>5. Distinct(k)
  <2> SUFFICES ASSUME NEW i \in 1..l, NEW j \in 1..l, k[i] = k[j] PROVE i = j
    BY <1>3 DEF Distinct
  <2>1. e[i] = e[j]
    BY <1>3, <1>4 DEF Distinct
  <2>2. ~(i < j) /\ ~(j < i)
    BY <2>1, <1>3, <1>4
  <2> QED  BY <2>2, <1>3
<1>6. ToSet(k) = ToSet(s) \cap R
  <2>1. ToSet(k) = {k[i] : i \in 1..l} /\ ToSet(s) = {s[m] : m \in 1..n}
    BY <1>3 DEF ToSet
  <2>2. ToSet(k) \subseteq ToSet(s) \cap R
    BY <2>1, <1>4
  <2>3. ToSet(s) \cap R \subseteq ToSet(k)
    BY <2>1, <1>4
  <2> QED  BY <2>2, <2>3
<1>7. ASSUME NEW a \in 1..n, NEW b \in 1..n, a < b, s[a] \in R, s[b] \in R
      PROVE  \E i, j \in 1..l : i < j /\ k[i] = s[a] /\ k[j] = s[b]
  <2>1. PICK i \in 1..l : e[i] = a
    BY <1>4, <1>7
  <2>2. PICK j \in 1..l : e[j] = b
    BY <1>4, <1>7
  <2>3. ~(j < i) /\ i # j
    BY <2>1, <2>2, <1>3, <1>4, <1>7
  <2>4. i < j
    BY <2>3, <1>3
  <2> QED  BY <2>1, <2>2, <2>4, <1>4
<1> QED  BY <1>1, <1>3, <1>5, <1>6, <1>7 DEF k, IsKept

LEMMA JoinDistinct ==
  ASSUME NEW X, NEW p \in Seq(X), NEW q \in Seq(X), Distinct(p), Distinct(q),
         ToSet(p) \cap ToSet(q) = {}
  PROVE  LET s == p \o q
         IN  s \in Seq(X) /\ Distinct(s) /\ ToSet(s) = ToSet(p) \cup ToSet(q)
<1> DEFINE s == p \o q
<1>1. /\ s \in Seq(X) /\ Len(s) = Len(p) + Len(q)
      /\ \A i \in DOMAIN p : i \in DOMAIN s /\ s[i] = p[i]
      /\ \A i \in DOMAIN q : Len(p) + i \in DOMAIN s /\ s[Len(p) + i] = q[i]
      /\ \A i \in DOMAIN s : i \notin DOMAIN p =>
           i - Len(p) \in DOMAIN q /\ s[i] = q[i - Len(p)]
  BY Joined
<1> HIDE DEF s
<1>2. Len(p) \in Nat /\ \A i \in DOMAIN s : i \in Nat
  BY <1>1
<1>3. ASSUME NEW i \in DOMAIN s, NEW j \in DOMAIN s, s[i] = s[j] PROVE i = j
  <2>1. CASE i \in DOMAIN p /\ j \in DOMAIN p
    BY <2>1, <1>1, <1>3 DEF Distinct
  <2>2. CASE i \notin DOMAIN p /\ j \notin DOMAIN p
    <3>1. i - Len(p) = j - Len(p)
      BY <2>2, <1>1, <1>3 DEF Distinct
    <3> QED  BY <3>1, <1>2
  <2>3. ASSUME NEW m \in DOMAIN p, NEW n \in DOMAIN q PROVE p[m] # q[n]
    <3>1. p[m] \in ToSet(p) /\ q[n] \in ToSet(q)
      BY DEF ToSet
    <3> QED  BY <3>1
  <2>4. CASE i \in DOMAIN p /\ j \notin DOMAIN p
    <3>1. j - Len(p) \in DOMAIN q /\ s[j] = q[j - Len(p)] /\ s[i] = p[i]
      BY <2>4, <1>1
    <3> QED  BY <3>1, <2>3, <2>4, <1>3
  <2>5. CASE i \notin DOMAIN p /\ j \in DOMAIN p
    <3>1. i - Len(p) \in DOMAIN q /\ s[i] = q[i - Len(p)] /\ s[j] = p[j]
      BY <2>5, <1>1
    <3> QED  BY <3>1, <2>3, <2>5, <1>3
  <2> QED  BY <2>1, <2>2, <2>4, <2>5
<1>4. ToSet(s) = ToSet(p) \cup ToSet(q)
  <2>1. ToSet(s) \subseteq ToSet(p) \cup ToSet(q)
    BY <1>1 DEF ToSet
  <2>2. ToSet(p) \subseteq ToSet(s) /\ ToSet(q) \subseteq ToSet(s)
    BY <1>1 DEF ToSet
  <2> QED  BY <2>1, <2>2
<1> QED  BY <1>1, <1>3, <1>4 DEF Distinct, s

\* What the tree has of the relations q comes after all of them that it reads.
ArrangedIs(t, q, a) ==
  /\ Distinct(a) /\ ToSet(a) = ToSet(q)
  /\ \A x \in DOMAIN t.node \cap ToSet(q), y \in ToSet(q) : y \in ReadIn(t, x) =>
       \E i, j \in DOMAIN a : i < j /\ a[i] = y /\ a[j] = x

LEMMA ArrangeIs ==
  ASSUME NEW N, NEW t, IsTree(t, N), Whole(t), NEW B, IsBelow(t, B),
         NEW q \in Seq(N), Distinct(q)
  PROVE  LET a == ArrangeInTopologicalOrder(t, q)
         IN  a \in Seq(N) /\ ArrangedIs(t, q, a)
<1> DEFINE D == DOMAIN t.node
           R == ToSet(q)
           g == GetTopologicalOrder(t)
           k == Keep(g, R)
           r == Keep(q, R \ ToSet(k))
           a == k \o r
<1>1. ArrangeInTopologicalOrder(t, q) = a
  BY DEF ArrangeInTopologicalOrder
<1>2. OrderIs(t, g)
  BY TopologicalOrderIs
<1> HIDE DEF g
<1>3. g \in Seq(N) /\ Distinct(g)
  <2>1. D \subseteq N /\ g \in Seq(D)
    BY <1>2 DEF OrderIs, IsTree
  <2>2. g \in Seq(N)
    BY <2>1
  <2> QED  BY <2>2, <1>2 DEF OrderIs, ReadsBefore, Distinct
<1>4. /\ k \in Seq(N) /\ Distinct(k) /\ ToSet(k) = ToSet(g) \cap R
      /\ \A m, n \in DOMAIN g : m < n /\ g[m] \in R /\ g[n] \in R =>
           \E i, j \in DOMAIN k : i < j /\ k[i] = g[m] /\ k[j] = g[n]
  <2> HIDE DEF R
  <2>1. k \in Seq(N) /\ IsKept(g, R, k)
    BY <1>3, KeepIs
  <2> HIDE DEF k
  <2> QED  BY <2>1 DEF IsKept
<1> HIDE DEF k
<1>5. r \in Seq(N) /\ Distinct(r) /\ ToSet(r) = R \cap (R \ ToSet(k))
  <2> DEFINE W == R \ ToSet(k)
  <2> HIDE DEF W
  <2>1. Keep(q, W) \in Seq(N) /\ IsKept(q, W, Keep(q, W))
    BY KeepIs
  <2> QED  BY <2>1 DEF W, IsKept
<1> HIDE DEF r
<1>6. a \in Seq(N) /\ Distinct(a) /\ ToSet(a) = ToSet(k) \cup ToSet(r)
  <2>1. ToSet(k) \cap ToSet(r) = {}
    BY <1>5
  <2> QED  BY <2>1, <1>4, <1>5, JoinDistinct
<1>7. \A i \in DOMAIN k : i \in DOMAIN a /\ a[i] = k[i]
  BY <1>4, <1>5, Joined
<1> HIDE DEF a
<1>8. ToSet(a) = R
  BY <1>4, <1>5, <1>6
<1>9. ASSUME NEW x \in D \cap R, NEW y \in R, y \in ReadIn(t, x)
      PROVE  \E i, j \in DOMAIN a : i < j /\ a[i] = y /\ a[j] = x
  <2>1. PICK n \in DOMAIN g : g[n] = x
    BY <1>2 DEF OrderIs
  <2>2. PICK m \in DOMAIN g : m < n /\ g[m] = y
    BY <2>1, <1>2, <1>9 DEF OrderIs, ReadsBefore
  <2>3. PICK i \in DOMAIN k, j \in DOMAIN k : i < j /\ k[i] = g[m] /\ k[j] = g[n]
    BY <2>1, <2>2, <1>4, <1>9
  <2> QED  BY <2>1, <2>2, <2>3, <1>7
<1> QED  BY <1>1, <1>6, <1>8, <1>9 DEF ArrangedIs

-----------------------------------------------------------------------------
(***************************************************************************)
(* Below(ds, r) is the least set that has what r reads and what its members*)
(* read.                                                                   *)
(***************************************************************************)
LEMMA BelowHasReads ==
  ASSUME NEW ds, NEW r
  PROVE  /\ ReadBy(ds, r) \subseteq Below(ds, r)
         /\ \A x \in Below(ds, r) : ReadBy(ds, x) \subseteq Below(ds, r)
         /\ Below(ds, r) \subseteq AllRead(ds)
<1>1. ASSUME NEW x PROVE ReadBy(ds, x) \subseteq AllRead(ds)
  BY DEF ReadBy, AllRead
<1>2. Below(ds, r) \subseteq AllRead(ds)
  BY DEF Below
<1>3. ReadBy(ds, r) \subseteq Below(ds, r)
  BY <1>1 DEF Below
<1>4. ASSUME NEW x \in Below(ds, r) PROVE ReadBy(ds, x) \subseteq Below(ds, r)
  BY <1>1 DEF Below
<1> QED  BY <1>2, <1>3, <1>4

LEMMA BelowIsLeast ==
  ASSUME NEW ds, NEW r, NEW S, ReadBy(ds, r) \subseteq S,
         \A x \in S : ReadBy(ds, x) \subseteq S
  PROVE  Below(ds, r) \subseteq S
<1> DEFINE C == S \cap AllRead(ds)
<1>1. ASSUME NEW x PROVE ReadBy(ds, x) \subseteq AllRead(ds)
  BY DEF ReadBy, AllRead
<1>2. /\ C \in SUBSET AllRead(ds) /\ ReadBy(ds, r) \subseteq C
      /\ \A x \in C : ReadBy(ds, x) \subseteq C
  BY <1>1
<1> HIDE DEF C
<1>3. Below(ds, r) \subseteq C
  BY <1>2 DEF Below
<1> QED  BY <1>3 DEF C

LEMMA BelowIsTransitive ==
  ASSUME NEW ds, NEW r, NEW x \in Below(ds, r)
  PROVE  Below(ds, x) \subseteq Below(ds, r)
BY BelowHasReads, BelowIsLeast

\* Something is below r only if r reads something.
LEMMA BelowOfUndefined ==
  ASSUME NEW ds, NEW r, r \notin DOMAIN ds
  PROVE  Below(ds, r) = {}
<1>1. ReadBy(ds, r) \subseteq {}
  BY DEF ReadBy
<1>2. Below(ds, r) \subseteq {}
  BY <1>1, BelowIsLeast
<1> QED  BY <1>2

LEMMA BelowBySteps ==
  ASSUME NEW ds, NEW r
  PROVE  Below(ds, r) = UNION {Below(ds, y) \cup {y} : y \in ReadBy(ds, r)}
<1> DEFINE S == UNION {Below(ds, y) \cup {y} : y \in ReadBy(ds, r)}
<1>1. ReadBy(ds, r) \subseteq S
  OBVIOUS
<1>2. ASSUME NEW x \in S PROVE ReadBy(ds, x) \subseteq S
  <2>1. PICK y \in ReadBy(ds, r) : x \in Below(ds, y) \cup {y}
    OBVIOUS
  <2>2. ReadBy(ds, x) \subseteq Below(ds, y)
    BY <2>1, BelowHasReads
  <2> QED  BY <2>1, <2>2
<1>3. Below(ds, r) \subseteq S
  <2> HIDE DEF S
  <2> QED  BY <1>1, <1>2, BelowIsLeast
<1>4. ASSUME NEW y \in ReadBy(ds, r) PROVE Below(ds, y) \cup {y} \subseteq Below(ds, r)
  BY BelowHasReads, BelowIsTransitive
<1> QED  BY <1>3, <1>4

-----------------------------------------------------------------------------
(***************************************************************************)
(* Definitions without a cycle.                                            *)
(***************************************************************************)
NoCycle(ds) == \A v \in DOMAIN ds : v \notin Below(ds, v)

\* The definitions ds with that of v put in its place.
Defined(ds, v, deps) == [w \in DOMAIN ds \cup {v} |-> IF w = v THEN deps ELSE ds[w]]

LEMMA DefinedHasNoCycle ==
  ASSUME NEW ds, NEW v, NEW deps, NoCycle(ds),
         \A d \in ToSet(deps) : d # v /\ v \notin Below(ds, d)
  PROVE  NoCycle(Defined(ds, v, deps))
<1> DEFINE es == Defined(ds, v, deps)
           K  == UNION {Below(ds, d) \cup {d} : d \in ToSet(deps)}
<1>1. /\ DOMAIN es = DOMAIN ds \cup {v} /\ ReadBy(es, v) = ToSet(deps)
      /\ \A x : x # v => ReadBy(es, x) = ReadBy(ds, x)
  BY DEF Defined, ReadBy
<1> HIDE DEF es
<1>2. v \notin K /\ ToSet(deps) \subseteq K
  OBVIOUS
<1>3. ASSUME NEW x \in K PROVE ReadBy(es, x) \subseteq K
  <2>1. PICK d \in ToSet(deps) : x \in Below(ds, d) \cup {d}
    OBVIOUS
  <2>2. ReadBy(ds, x) \subseteq Below(ds, d)
    BY <2>1, BelowHasReads
  <2>3. x # v
    BY <1>2
  <2> QED  BY <2>1, <2>2, <2>3, <1>1
<1>4. ASSUME NEW x \in K PROVE v \notin Below(ds, x)
  <2>1. PICK d \in ToSet(deps) : x \in Below(ds, d) \cup {d}
    OBVIOUS
  <2>2. Below(ds, x) \subseteq Below(ds, d)
    BY <2>1, BelowIsTransitive
  <2> QED  BY <2>2
<1> HIDE DEF K
<1>5. ASSUME NEW w \in DOMAIN es PROVE w \notin Below(es, w)
  <2>1. CASE w = v
    <3>1. Below(es, v) \subseteq K
      BY <1>1, <1>2, <1>3, BelowIsLeast
    <3> QED  BY <2>1, <3>1, <1>2
  <2>2. CASE w # v /\ v \notin Below(ds, w)
    <3> DEFINE S == Below(ds, w)
    <3>1. ReadBy(es, w) \subseteq S /\ \A x \in S : ReadBy(es, x) \subseteq S
      BY <2>2, <1>1, BelowHasReads
    <3> HIDE DEF S
    <3>2. Below(es, w) \subseteq S
      BY <3>1, BelowIsLeast
    <3> QED  BY <2>2, <3>2, <1>1 DEF NoCycle, S
  <2>3. CASE w # v /\ v \in Below(ds, w)
    <3> DEFINE S == Below(ds, w) \cup K
    <3>1. ReadBy(es, w) \subseteq S
      BY <2>3, <1>1, BelowHasReads
    <3>2. ASSUME NEW x \in S PROVE ReadBy(es, x) \subseteq S
      <4>1. CASE x = v
        BY <4>1, <1>1, <1>2
      <4>2. CASE x # v /\ x \in K
        BY <4>2, <1>3
      <4>3. CASE x # v /\ x \in Below(ds, w)
        BY <4>3, <1>1, BelowHasReads
      <4> QED  BY <4>1, <4>2, <4>3
    <3>3. w \notin S
      BY <2>3, <1>1, <1>4 DEF NoCycle
    <3> HIDE DEF S
    <3>4. Below(es, w) \subseteq S
      BY <3>1, <3>2, BelowIsLeast
    <3> QED  BY <3>3, <3>4
  <2> QED  BY <2>1, <2>2, <2>3
<1> QED  BY <1>5 DEF NoCycle, es

-----------------------------------------------------------------------------
(***************************************************************************)
(* The tree mirrors the definitions: it has a node for every view that is  *)
(* defined and for everything that is read, and the node reads what the    *)
(* view does.  MirrorsBut leaves out what the tree has for r.              *)
(***************************************************************************)
MirrorsBut(t, ds, r, N, dynamic) ==
  /\ IsTree(t, N)
  /\ DOMAIN ds \subseteq DOMAIN t.node \cup {r}
  /\ \A x \in DOMAIN t.node \ {r} :
       /\ t.node[x].dependsOn = IF x \in DOMAIN ds THEN ds[x] ELSE <<>>
       /\ t.node[x].dependsOn \in Seq(DOMAIN t.node \cup {r})
       /\ t.node[x].isDynamic = (x \in dynamic)

Mirrors(t, ds, N, dynamic) ==
  /\ IsTree(t, N) /\ Whole(t)
  /\ DOMAIN ds \subseteq DOMAIN t.node
  /\ \A x \in DOMAIN t.node :
       /\ t.node[x].dependsOn = IF x \in DOMAIN ds THEN ds[x] ELSE <<>>
       /\ t.node[x].isDynamic = (x \in dynamic)

LEMMA MirrorsAllBut ==
  ASSUME NEW t, NEW ds, NEW r, NEW N, NEW dynamic, Mirrors(t, ds, N, dynamic)
  PROVE  MirrorsBut(t, ds, r, N, dynamic)
<1>1. \A x \in DOMAIN t.node : t.node[x].dependsOn \in Seq(DOMAIN t.node)
  BY DEF Mirrors, Whole
<1>2. Seq(DOMAIN t.node) \subseteq Seq(DOMAIN t.node \cup {r})
  OBVIOUS
<1> QED  BY <1>1, <1>2 DEF Mirrors, MirrorsBut

LEMMA MirrorsAfterDelete ==
  ASSUME NEW t, NEW ds, NEW r, NEW N, NEW dynamic, Mirrors(t, ds, N, dynamic)
  PROVE  MirrorsBut(DeleteNode(t, r), ds, r, N, dynamic)
<1> DEFINE u == DeleteNode(t, r)
<1>1. /\ IsTree(u, N) /\ DOMAIN u.node = DOMAIN t.node \ {r}
      /\ \A x \in DOMAIN u.node : u.node[x] = t.node[x]
  BY DeleteNodeIs DEF Mirrors
<1>2. MirrorsBut(t, ds, r, N, dynamic)
  BY MirrorsAllBut
<1>3. DOMAIN u.node \cup {r} = DOMAIN t.node \cup {r}
  BY <1>1
<1> HIDE DEF u
<1> QED  BY <1>1, <1>2, <1>3 DEF MirrorsBut, u

LEMMA MirrorsAfterAdd ==
  ASSUME NEW t, NEW ds, NEW r, NEW N, NEW dynamic, MirrorsBut(t, ds, r, N, dynamic),
         r \in N, NEW deps \in Seq(N)
  PROVE  Mirrors(AddSingleDependency(t, deps, r, dynamic), Defined(ds, r, deps), N, dynamic)
<1> DEFINE u == AddSingleDependency(t, deps, r, dynamic)
           es == Defined(ds, r, deps)
           E == {deps[i] : i \in DOMAIN deps}
<1>1. /\ IsTree(u, N) /\ DOMAIN u.node = DOMAIN t.node \cup {r} \cup E
      /\ u.node[r].dependsOn = deps /\ u.node[r].isDynamic = (r \in dynamic)
      /\ \A x \in DOMAIN t.node \ {r} : /\ u.node[x].dependsOn = t.node[x].dependsOn
                                        /\ u.node[x].isDynamic = t.node[x].isDynamic
      /\ \A x \in DOMAIN u.node \ (DOMAIN t.node \cup {r}) :
           u.node[x].dependsOn = <<>> /\ u.node[x].isDynamic = (x \in dynamic)
  BY AddSingleIs DEF MirrorsBut
<1>2. DOMAIN es = DOMAIN ds \cup {r} /\ es[r] = deps /\ \A x \in DOMAIN ds : x # r => es[x] = ds[x]
  BY DEF Defined
<1> HIDE DEF u, es
<1>3. deps \in Seq(E) /\ <<>> \in Seq(DOMAIN u.node)
  OBVIOUS
<1> HIDE DEF E
<1>4. DOMAIN es \subseteq DOMAIN u.node
  BY <1>1, <1>2 DEF MirrorsBut
<1>5. ASSUME NEW x \in DOMAIN u.node
      PROVE  /\ u.node[x].dependsOn = IF x \in DOMAIN es THEN es[x] ELSE <<>>
             /\ u.node[x].isDynamic = (x \in dynamic)
             /\ u.node[x].dependsOn \in Seq(DOMAIN u.node)
  <2>1. CASE x = r
    <3>1. Seq(E) \subseteq Seq(DOMAIN u.node)
      <4>1. E \subseteq DOMAIN u.node
        BY <1>1
      <4> QED  BY <4>1
    <3> QED  BY <2>1, <3>1, <1>1, <1>2, <1>3
  <2>2. CASE x # r /\ x \in DOMAIN t.node
    <3>1. Seq(DOMAIN t.node \cup {r}) \subseteq Seq(DOMAIN u.node)
      <4>1. DOMAIN t.node \cup {r} \subseteq DOMAIN u.node
        BY <1>1
      <4> QED  BY <4>1
    <3>2. /\ t.node[x].dependsOn = IF x \in DOMAIN ds THEN ds[x] ELSE <<>>
          /\ t.node[x].dependsOn \in Seq(DOMAIN t.node \cup {r})
          /\ t.node[x].isDynamic = (x \in dynamic)
      BY <2>2 DEF MirrorsBut
    <3> QED  BY <2>2, <3>1, <3>2, <1>1, <1>2
  <2>3. CASE x # r /\ x \notin DOMAIN t.node
    <3>1. x \notin DOMAIN es
      BY <2>3, <1>2 DEF MirrorsBut
    <3> QED  BY <2>3, <3>1, <1>1, <1>3
  <2> QED  BY <2>1, <2>2, <2>3
<1> QED  BY <1>1, <1>4, <1>5 DEF Mirrors, Whole, u, es

-----------------------------------------------------------------------------
(***************************************************************************)
(* What is derived from a tree that mirrors the definitions.               *)
(***************************************************************************)
LEMMA MirrorsReads ==
  ASSUME NEW t, NEW ds, NEW N, NEW dynamic, Mirrors(t, ds, N, dynamic), NEW x \in DOMAIN t.node
  PROVE  /\ ReadIn(t, x) = ReadBy(ds, x)
         /\ \A y : Contains(t.node[x].dependsOn, y) <=> y \in ReadBy(ds, x)
         /\ t.node[x].dependsOn = IF x \in DOMAIN ds THEN ds[x] ELSE <<>>
<1> DEFINE c == t.node[x].dependsOn
<1>1. c \in Seq(DOMAIN t.node) /\ c = IF x \in DOMAIN ds THEN ds[x] ELSE <<>>
  BY DEF Mirrors, Whole
<1>2. ReadIn(t, x) = {c[i] : i \in DOMAIN c}
  BY DEF ReadIn
<1> HIDE DEF c
<1>3. DOMAIN c = 1..Len(c)
  BY <1>1
<1>4. ReadBy(ds, x) = {c[i] : i \in DOMAIN c}
  <2>1. CASE x \in DOMAIN ds
    BY <2>1, <1>1 DEF ReadBy, ToSet
  <2>2. CASE x \notin DOMAIN ds
    BY <2>2, <1>1 DEF ReadBy
  <2> QED  BY <2>1, <2>2
<1>5. \A y : Contains(c, y) <=> y \in ReadBy(ds, x)
  BY <1>3, <1>4 DEF Contains
<1> QED  BY <1>1, <1>2, <1>4, <1>5 DEF c

LEMMA DependentsOfMirror ==
  ASSUME NEW t, NEW ds, NEW N, NEW dynamic, Mirrors(t, ds, N, dynamic), NEW r
  PROVE  DeriveDependentRelations(t, r) = {v \in DOMAIN ds : r \in Below(ds, v)}
<1> DEFINE R == DeriveDependentRelations(t, r)
           X == {v \in DOMAIN ds : r \in Below(ds, v)}
           S == {x \in AllRead(ds) : x \notin R \cup {r}}
<1>1. LeastWithReaders(t, r, R)
  BY DependentsAre DEF Mirrors
<1>2. ASSUME NEW x, NEW k PROVE k \in Readers(t, x) <=> k \in DOMAIN ds /\ x \in ReadBy(ds, k)
  <2>1. k \in Readers(t, x) <=> k \in DOMAIN t.node /\ Contains(t.node[k].dependsOn, x)
    BY DEF Readers
  <2>2. x \in ReadBy(ds, k) => k \in DOMAIN ds
    BY DEF ReadBy
  <2>3. k \in DOMAIN ds => k \in DOMAIN t.node
    BY DEF Mirrors
  <2> QED  BY <2>1, <2>2, <2>3, MirrorsReads
<1> HIDE DEF R
<1>3. R \subseteq X
  <2>1. ASSUME NEW x \in X \cup {r}, NEW k \in Readers(t, x) PROVE k \in X
    <3>1. k \in DOMAIN ds /\ x \in ReadBy(ds, k)
      BY <1>2
    <3>2. x \in Below(ds, k)
      BY <3>1, BelowHasReads
    <3>3. Below(ds, x) \subseteq Below(ds, k)
      BY <3>2, BelowIsTransitive
    <3> QED  BY <3>1, <3>2, <3>3
  <2>2. HasReaders(t, r, X)
    BY <2>1 DEF HasReaders
  <2> HIDE DEF X
  <2> QED  BY <2>2, <1>1 DEF LeastWithReaders
<1>4. X \subseteq R
  <2> SUFFICES ASSUME NEW v \in X, v \notin R PROVE FALSE
    OBVIOUS
  <2>1. ASSUME NEW k, k \notin R, NEW x \in ReadBy(ds, k) PROVE x \in S
    <3>1. k \in Readers(t, x)
      BY <1>2 DEF ReadBy
    <3>2. x \notin R \cup {r}
      BY <3>1, <1>1, <2>1 DEF LeastWithReaders, HasReaders
    <3>3. x \in AllRead(ds)
      BY DEF ReadBy, AllRead
    <3> QED  BY <3>2, <3>3
  <2>2. ReadBy(ds, v) \subseteq S /\ \A x \in S : ReadBy(ds, x) \subseteq S
    BY <2>1
  <2>3. r \notin S
    OBVIOUS
  <2> HIDE DEF S
  <2>4. Below(ds, v) \subseteq S
    BY <2>2, BelowIsLeast
  <2> QED  BY <2>3, <2>4
<1> QED  BY <1>3, <1>4 DEF R

\* What is below each node of the tree.
Depth(t, ds) == [x \in DOMAIN t.node |-> Below(ds, x)]

LEMMA MirrorIsBelow ==
  ASSUME NEW t, NEW ds, NEW N, NEW dynamic, Mirrors(t, ds, N, dynamic), NoCycle(ds),
         dynamic \cap DOMAIN ds = {}
  PROVE  IsBelow(t, Depth(t, ds))
<1> DEFINE B == Depth(t, ds)
           D == DOMAIN t.node
<1>1. \A x \in D : B[x] = Below(ds, x)
  BY DEF Depth
<1>2. \A x \in D : ReadIn(t, x) = ReadBy(ds, x) /\ ReadIn(t, x) \subseteq D
  <2>1. ASSUME NEW x \in D PROVE ReadIn(t, x) \subseteq D
    <3> DEFINE c == t.node[x].dependsOn
    <3>1. c \in Seq(D)
      BY DEF Mirrors, Whole
    <3> HIDE DEF c
    <3>2. \A i \in DOMAIN c : c[i] \in D
      BY <3>1
    <3> QED  BY <3>2 DEF ReadIn, c
  <2> QED  BY <2>1, MirrorsReads
<1>3. AllRead(ds) \subseteq D
  BY <1>2 DEF AllRead, Mirrors
<1>4. B = [x \in D |-> B[x]] /\ B \in [D -> SUBSET D]
  BY <1>3, BelowHasReads DEF Depth
<1> HIDE DEF B
<1>5. ASSUME NEW x \in D
      PROVE  /\ B[x] = UNION {Cone(B, y) : y \in ReadIn(t, x)}
             /\ \A y \in B[x] : B[y] \subseteq B[x]
             /\ x \notin B[x]
             /\ t.node[x].isDynamic => t.node[x].dependsOn = <<>>
  <2>1. \A y \in ReadIn(t, x) : Cone(B, y) = Below(ds, y) \cup {y}
    BY <1>1, <1>2 DEF Cone
  <2>2. B[x] = UNION {Cone(B, y) : y \in ReadIn(t, x)}
    <3>1. Below(ds, x) = UNION {Below(ds, y) \cup {y} : y \in ReadBy(ds, x)}
      BY BelowBySteps
    <3> QED  BY <3>1, <2>1, <1>1, <1>2
  <2>3. ASSUME NEW y \in B[x] PROVE B[y] \subseteq B[x]
    <3>1. y \in D /\ y \in Below(ds, x)
      BY <1>1, <1>4
    <3> QED  BY <3>1, <1>1, BelowIsTransitive
  <2>4. x \notin B[x]
    BY <1>1, BelowOfUndefined DEF NoCycle
  <2>5. t.node[x].isDynamic => t.node[x].dependsOn = <<>>
    BY DEF Mirrors
  <2> QED  BY <2>2, <2>3, <2>4, <2>5
<1> QED  BY <1>4, <1>5 DEF IsBelow, B

-----------------------------------------------------------------------------
(***************************************************************************)
(* Views that are added to the empty tree one after the other.             *)
(***************************************************************************)
LEMMA AddDependenciesMirror ==
  ASSUME NEW N, NEW q \in Seq(N), NEW ds, NEW dynamic, \A v \in ToSet(q) : ds[v] \in Seq(N)
  PROVE  Mirrors(AddDependencies(EmptyTree, q, ds, dynamic), [v \in ToSet(q) |-> ds[v]],
                 N, dynamic)
<1> DEFINE n    == Len(q)
           T    == Trees(N)
           one(x, i) == AddSingleDependency(x, ds[q[i]], q[i], dynamic)
           step == [i \in 1..n |-> [x \in T |-> one(x, i)]]
           F    == CHOOSE f : f = [i \in 0..n |->
                     IF i = 0 THEN EmptyTree
                     ELSE AddSingleDependency(f[i - 1], ds[q[i]], q[i], dynamic)]
<1>1. n \in Nat /\ DOMAIN q = 1..n /\ \A i \in 1..n : q[i] \in N
  OBVIOUS
<1>2. \A i \in 1..n : ds[q[i]] \in Seq(N)
  BY <1>1 DEF ToSet
<1>3. ASSUME NEW i \in 1..n, NEW x \in T PROVE one(x, i) \in T
  <2>1. IsTree(x, N) /\ q[i] \in N /\ ds[q[i]] \in Seq(N)
    BY <1>1, <1>2, TreesAre
  <2>2. IsTree(AddSingleDependency(x, ds[q[i]], q[i], dynamic), N)
    BY <2>1, AddSingleIs
  <2> QED  BY <2>2, TreesAre
<1>4. step \in [1..n -> [T -> T]]
  BY <1>3
<1>5. EmptyTree \in T
  BY EmptyIsTree, TreesAre
<1>6. PICK f : Counts(f, n, T, EmptyTree, step)
  <2> HIDE DEF n, T, step, F
  <2>1. n \in Nat
    BY <1>1
  <2> QED  BY <2>1, <1>4, <1>5, ForLoop
<1>7. f = [i \in 0..n |-> IF i = 0 THEN EmptyTree
                         ELSE AddSingleDependency(f[i - 1], ds[q[i]], q[i], dynamic)]
  <2>0. /\ f \in [0..n -> T] /\ f[0] = EmptyTree
        /\ \A i \in 1..n : f[i] = step[i][f[i - 1]]
    <3> HIDE DEF n, T, step, F
    <3> QED  BY <1>6 DEF Counts
  <2>1. ASSUME NEW i \in 1..n PROVE f[i] = one(f[i - 1], i)
    <3>1. f[i - 1] \in T
      <4>1. i - 1 \in 0..n
        BY <1>1
      <4> HIDE DEF n, T
      <4> QED  BY <4>1, <2>0
    <3>2. step[i][f[i - 1]] = one(f[i - 1], i)
      <4> HIDE DEF n, T, one
      <4> QED  BY <3>1
    <3> QED  BY <3>2, <2>0
  <2>2. \A i \in 0..n : i = 0 \/ i \in 1..n
    BY <1>1
  <2>3. f = [i \in 0..n |-> IF i = 0 THEN EmptyTree ELSE one(f[i - 1], i)]
    <3> HIDE DEF n, T, step, one, F
    <3> QED  BY <2>0, <2>1, <2>2
  <2> QED  BY <2>3
<1>8. F = [i \in 0..n |-> IF i = 0 THEN EmptyTree
                         ELSE AddSingleDependency(F[i - 1], ds[q[i]], q[i], dynamic)]
  BY <1>7
<1>9. AddDependencies(EmptyTree, q, ds, dynamic) = F[n]
  BY DEF AddDependencies
<1> HIDE DEF F
<1>10. F[0] = EmptyTree /\ \A i \in 1..n : F[i] = one(F[i - 1], i)
  <2>1. F = [i \in 0..n |-> IF i = 0 THEN EmptyTree ELSE one(F[i - 1], i)]
    BY <1>8
  <2>2. 0 \in 0..n /\ \A i \in 1..n : i \in 0..n /\ i # 0
    BY <1>1
  <2> HIDE DEF n, one
  <2> QED  BY <2>1, <2>2
<1> DEFINE Upto(i) == [v \in {q[j] : j \in 1..i} |-> ds[v]]
           P == {i \in 0..n : Mirrors(F[i], Upto(i), N, dynamic)}
<1>11. 0 \in P
  <2>1. DOMAIN Upto(0) = {} /\ DOMAIN EmptyTree.node = {}
    BY DEF EmptyTree
  <2> HIDE DEF Upto
  <2>2. F[0] = EmptyTree
    BY <1>10
  <2>3. Mirrors(F[0], Upto(0), N, dynamic)
    BY <2>1, <2>2, EmptyIsTree DEF Mirrors, Whole
  <2> QED  BY <2>3, <1>1
<1>12. ASSUME NEW i \in 1..n, i - 1 \in P PROVE i \in P
  <2>1. F[i] = one(F[i - 1], i) /\ Mirrors(F[i - 1], Upto(i - 1), N, dynamic)
    BY <1>10, <1>12
  <2>2. {q[j] : j \in 1..i} = {q[j] : j \in 1..(i - 1)} \cup {q[i]}
    BY <1>1
  <2>3. Upto(i) = Defined(Upto(i - 1), q[i], ds[q[i]])
    BY <2>2 DEF Defined
  <2>4. MirrorsBut(F[i - 1], Upto(i - 1), q[i], N, dynamic)
    BY <2>1, MirrorsAllBut
  <2>5. q[i] \in N /\ ds[q[i]] \in Seq(N)
    BY <1>1, <1>2
  <2>6. F[i] = AddSingleDependency(F[i - 1], ds[q[i]], q[i], dynamic)
    BY <2>1
  <2> HIDE DEF Upto
  <2>7. Mirrors(F[i], Upto(i), N, dynamic)
    BY <2>3, <2>4, <2>5, <2>6, MirrorsAfterAdd
  <2> QED  BY <2>7, <1>1
<1>13. P = 0..n
  <2> HIDE DEF P
  <2>1. P \subseteq 0..n
    BY DEF P
  <2> QED  BY <2>1, <1>1, <1>11, <1>12, NatInd
<1>14. n \in P
  <2> HIDE DEF P, n, step
  <2> QED  BY <1>1, <1>13
<1>15. Upto(n) = [v \in ToSet(q) |-> ds[v]]
  BY <1>1 DEF ToSet
<1> QED  BY <1>9, <1>14, <1>15

LEMMA ContainsIs ==
  ASSUME NEW X, NEW s \in Seq(X), NEW r
  PROVE  Contains(s, r) <=> r \in ToSet(s)
<1>1. DOMAIN s = 1..Len(s)
  OBVIOUS
<1> QED  BY <1>1 DEF Contains, ToSet

-----------------------------------------------------------------------------
(***************************************************************************)
(* The search from a view of a tree that mirrors the definitions: it goes  *)
(* by the definitions of v and of what is not dynamic.                     *)
(***************************************************************************)
UpTo(ds, dynamic, v) == Restrict(ds, {w \in DOMAIN ds : w = v \/ w \notin dynamic})

LEMMA UpToIs ==
  ASSUME NEW ds, NEW dynamic, NEW v, NoCycle(ds)
  PROVE  LET cut == UpTo(ds, dynamic, v)
         IN  /\ DOMAIN cut \subseteq DOMAIN ds /\ \A x \in DOMAIN cut : cut[x] = ds[x]
             /\ \A x \in DOMAIN ds : x \in DOMAIN cut <=> x = v \/ x \notin dynamic
             /\ NoCycle(cut)
<1> DEFINE cut == UpTo(ds, dynamic, v)
<1>1. /\ DOMAIN cut \subseteq DOMAIN ds /\ \A x \in DOMAIN cut : cut[x] = ds[x]
      /\ \A x \in DOMAIN ds : x \in DOMAIN cut <=> x = v \/ x \notin dynamic
  BY DEF UpTo, Restrict
<1> HIDE DEF cut
<1>2. \A x : ReadBy(cut, x) \subseteq ReadBy(ds, x)
  BY <1>1 DEF ReadBy
<1>3. ASSUME NEW x PROVE Below(cut, x) \subseteq Below(ds, x)
  BY <1>2, BelowHasReads, BelowIsLeast
<1>4. NoCycle(cut)
  BY <1>1, <1>3 DEF NoCycle
<1> QED  BY <1>1, <1>4 DEF cut

LEMMA CutTreeMirrors ==
  ASSUME NEW t, NEW ds, NEW N, NEW dynamic, Mirrors(t, ds, N, dynamic), NoCycle(ds),
         NEW v \in DOMAIN t.node
  PROVE  LET u   == CutTree(t, v)
             cut == UpTo(ds, dynamic, v)
         IN  Mirrors(u, cut, N, dynamic \ {v}) /\ DOMAIN u.node = DOMAIN t.node
<1> DEFINE u   == CutTree(t, v)
           cut == UpTo(ds, dynamic, v)
           D   == DOMAIN t.node
<1>1. IsTree(t, N) /\ Whole(t) /\ DOMAIN ds \subseteq D
  BY DEF Mirrors
<1>2. ASSUME NEW x \in D
      PROVE  /\ t.node[x].dependsOn = IF x \in DOMAIN ds THEN ds[x] ELSE <<>>
             /\ t.node[x].isDynamic = (x \in dynamic)
             /\ t.node[x].dependsOn \in Seq(D) /\ t.node[x].dependsOn \in Seq(N)
             /\ t.node[x].isDependedBy \in Seq(N)
  <2>1. t.node[x] \in Nodes(N)
    BY <1>1 DEF IsTree
  <2> QED  BY <1>1, <2>1 DEF Mirrors, Whole, Nodes
<1>3. /\ u.order = t.order /\ DOMAIN u.node = D /\ u = [order |-> u.order, node |-> u.node]
      /\ u.node = [x \in D |-> CutNode(t, v, x)]
  BY DEF CutTree
<1>4. /\ DOMAIN cut \subseteq DOMAIN ds /\ \A x \in DOMAIN cut : cut[x] = ds[x]
      /\ \A x \in DOMAIN ds : x \in DOMAIN cut <=> x = v \/ x \notin dynamic
  BY UpToIs
<1> HIDE DEF u, cut, D
<1>5. ASSUME NEW x \in D
      PROVE  /\ u.node[x].dependsOn = IF x \in DOMAIN cut THEN cut[x] ELSE <<>>
             /\ u.node[x].dependsOn \in Seq(D)
             /\ u.node[x].isDynamic = (x \in dynamic \ {v})
             /\ u.node[x] \in Nodes(N)
  <2>0. u.node[x] = CutNode(t, v, x)
    BY <1>3
  <2>1. /\ u.node[x].dependsOn = IF x # v /\ t.node[x].isDynamic THEN <<>> ELSE t.node[x].dependsOn
        /\ u.node[x].isDependedBy = t.node[x].isDependedBy
    BY <2>0 DEF CutNode
  <2>2. u.node[x].dependsOn = IF x \in DOMAIN cut THEN cut[x] ELSE <<>>
    BY <2>1, <1>2, <1>4
  <2>3. <<>> \in Seq(D) /\ <<>> \in Seq(N)
    OBVIOUS
  <2>4. u.node[x].dependsOn \in Seq(D) /\ u.node[x].dependsOn \in Seq(N)
    BY <2>1, <2>3, <1>2
  <2>5. u.node[x].isDynamic = (x \in dynamic \ {v})
    <3>1. CASE x = v
      <4>1. u.node[x].isDynamic = FALSE
        BY <3>1, <2>0 DEF CutNode
      <4>2. (x \in dynamic \ {v}) = FALSE
        BY <3>1
      <4> QED  BY <4>1, <4>2
    <3>2. CASE x # v
      <4>1. u.node[x].isDynamic = t.node[x].isDynamic
        BY <3>2, <2>0 DEF CutNode
      <4> QED  BY <3>2, <4>1, <1>2
    <3> QED  BY <3>1, <3>2
  <2>6. u.node[x] \in Nodes(N)
    <3>1. u.node[x] = [dependsOn |-> u.node[x].dependsOn, isDependedBy |-> u.node[x].isDependedBy,
                       isDynamic |-> u.node[x].isDynamic]
      BY <2>0 DEF CutNode
    <3>2. u.node[x].isDependedBy \in Seq(N) /\ u.node[x].isDynamic \in BOOLEAN
      BY <2>1, <2>5, <1>2
    <3> QED  BY <3>1, <3>2, <2>4 DEF Nodes
  <2> QED  BY <2>2, <2>4, <2>5, <2>6
<1>6. u.node \in [DOMAIN u.node -> Nodes(N)]
  BY <1>3, <1>5
<1>7. IsTree(u, N)
  BY <1>1, <1>3, <1>6 DEF IsTree, D
<1>8. Whole(u)
  BY <1>3, <1>5 DEF Whole
<1>9. DOMAIN cut \subseteq D
  BY <1>1, <1>4 DEF D
<1> QED  BY <1>3, <1>5, <1>7, <1>8, <1>9 DEF Mirrors, u, cut, D

LEMMA OriginalsUpToDynamic ==
  ASSUME NEW t, NEW ds, NEW N, NEW dynamic, Mirrors(t, ds, N, dynamic), NoCycle(ds),
         NEW v \in DOMAIN t.node
  PROVE  LET found  == DeriveOriginalRelationsAViewDependsOn(t, v)
             cut    == UpTo(ds, dynamic, v)
             behind == Below(cut, v) \cap dynamic
         IN  found \subseteq behind /\ (TreeShaped(cut, v) => found = behind)
<1> DEFINE u   == CutTree(t, v)
           cut == UpTo(ds, dynamic, v)
           B   == Depth(u, cut)
           R   == DeriveOriginalRelationsAViewDependsOn(t, v)
<1>1. Mirrors(u, cut, N, dynamic \ {v}) /\ v \in DOMAIN u.node
  BY CutTreeMirrors
<1>2. NoCycle(cut) /\ (dynamic \ {v}) \cap DOMAIN cut = {}
  BY UpToIs
<1>3. IsBelow(u, B)
  <2> HIDE DEF u, cut
  <2> QED  BY <1>1, <1>2, MirrorIsBelow
<1>4. IsTree(u, N) /\ Whole(u)
  BY <1>1 DEF Mirrors
<1>5. SearchFinds(u, B, v, R)
  <2>1. IsTree(t, N) /\ Whole(t)
    BY DEF Mirrors
  <2> HIDE DEF B
  <2> QED  BY <2>1, <1>3, <1>4, OriginalsAre
<1>6. B \in [DOMAIN u.node -> SUBSET DOMAIN u.node] /\ \A x \in DOMAIN u.node : B[x] = Below(cut, x)
  <2> HIDE DEF u, cut
  <2> QED  BY <1>3 DEF IsBelow, Depth
<1> HIDE DEF B, R, u, cut
<1>7. DynamicBelow(u, B, v) = Below(cut, v) \cap dynamic
  <2>1. B[v] = Below(cut, v) /\ B[v] \subseteq DOMAIN u.node
    BY <1>1, <1>6
  <2>2. \A x \in DOMAIN u.node : u.node[x].isDynamic = (x \in dynamic \ {v})
    BY <1>1 DEF Mirrors
  <2>3. v \notin B[v]
    BY <1>1, <1>3 DEF IsBelow
  <2> QED  BY <2>1, <2>2, <2>3 DEF DynamicBelow
<1>8. ASSUME TreeShaped(cut, v) PROVE Unshared(u, B, v)
  <2> SUFFICES ASSUME NEW x \in Cone(B, v), NEW i \in DOMAIN u.node[x].dependsOn,
                      NEW j \in DOMAIN u.node[x].dependsOn, i < j
               PROVE  Cone(B, u.node[x].dependsOn[i]) \cap Cone(B, u.node[x].dependsOn[j]) = {}
    BY DEF Unshared
  <2>1. x \in DOMAIN u.node /\ x \in Below(cut, v) \cup {v}
    BY <1>1, <1>6 DEF Cone
  <2> DEFINE c == u.node[x].dependsOn
  <2>2. c = IF x \in DOMAIN cut THEN cut[x] ELSE <<>>
    BY <1>1, <2>1 DEF Mirrors
  <2>3. x \in DOMAIN cut /\ c = cut[x]
    BY <2>2
  <2>4. c[i] \in DOMAIN u.node /\ c[j] \in DOMAIN u.node
    <3>1. c \in Seq(DOMAIN u.node)
      BY <1>4, <2>1 DEF Whole
    <3>2. i \in DOMAIN c /\ j \in DOMAIN c
      OBVIOUS
    <3> HIDE DEF c
    <3> QED  BY <3>1, <3>2
  <2>5. Cone(B, c[i]) = {c[i]} \cup Below(cut, c[i]) /\ Cone(B, c[j]) = {c[j]} \cup Below(cut, c[j])
    BY <2>4, <1>6 DEF Cone
  <2>6. ({c[i]} \cup Below(cut, c[i])) \cap ({c[j]} \cup Below(cut, c[j])) = {}
    BY <1>8, <2>1, <2>3 DEF TreeShaped
  <2> QED  BY <2>5, <2>6
<1> QED  BY <1>5, <1>7, <1>8 DEF SearchFinds, R, cut

\* When only tables are dynamic, nothing is cut off.
LEMMA OriginalsOfMirror ==
  ASSUME NEW t, NEW ds, NEW N, NEW dynamic, Mirrors(t, ds, N, dynamic), NoCycle(ds),
         ds = [w \in DOMAIN ds |-> ds[w]], dynamic \cap DOMAIN ds = {}, NEW v \in DOMAIN t.node
  PROVE  LET found == DeriveOriginalRelationsAViewDependsOn(t, v)
             behind == Below(ds, v) \cap dynamic
         IN  found \subseteq behind /\ (TreeShaped(ds, v) => found = behind)
<1>1. {w \in DOMAIN ds : w = v \/ w \notin dynamic} = DOMAIN ds
  OBVIOUS
<1>2. UpTo(ds, dynamic, v) = ds
  BY <1>1 DEF UpTo, Restrict
<1> QED  BY <1>2, OriginalsUpToDynamic
=============================================================================
