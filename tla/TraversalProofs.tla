---------------------------- MODULE TraversalProofs ----------------------------
(***************************************************************************)
(* What the queries of Traversal answer, for any graph, any number of hops *)
(* and any list of vertices, and how many matches SubgraphMatching counts. *)
(* First what EdgeScan computes: a table sorts its keys, and a prefix scan *)
(* finds those with the prefix.  Then walks, balls and how many walks      *)
(* there are; then each query, level by level or vertex by vertex; then    *)
(* the backtracking search of subgraph matching.                           *)
(***************************************************************************)
EXTENDS Traversal, FiniteSetTheorems, SequenceTheorems, WellFoundedInduction, TLAPS

\* A set of numbers that is not empty has a least one.
LEMMA LeastNumber ==
    ASSUME NEW S \in SUBSET Nat, S # {}
    PROVE  \E m \in S : \A n \in S : m <= n
<1> DEFINE R == OpToRel(<, Nat)
<1>1. R = {ss \in Nat \X Nat : ss[1] < ss[2]}
  BY DEF OpToRel
<1>2. IsWellFoundedOn(R, Nat)
  BY NatLessThanWellFounded
<1> HIDE DEF R
<1>3. PICK m \in S : \A n \in S : <<n, m>> \notin R
  BY WFMin, <1>2
<1>4. ASSUME NEW n \in S PROVE m <= n
  <2>1. m \in Nat /\ n \in Nat
    OBVIOUS
  <2>2. n < m => <<n, m>> \in R
    BY <2>1, <1>1
  <2> QED
    BY <1>3, <2>1, <2>2
<1> QED
  BY <1>4

\* A set of numbers with a bound has a greatest one, which is its Max.
LEMMA GreatestNumber ==
    ASSUME NEW S \in SUBSET Nat, S # {}, NEW bound \in Nat, \A n \in S : n <= bound
    PROVE  /\ Max(S) \in S
           /\ \A n \in S : n <= Max(S)
<1> DEFINE Bounds == {b \in Nat : \A n \in S : n <= b}
<1>1. Bounds \in SUBSET Nat /\ bound \in Bounds
  OBVIOUS
<1> HIDE DEF Bounds
<1>2. PICK m \in Bounds : \A b \in Bounds : m <= b
  BY <1>1, LeastNumber
<1>3. m \in Nat /\ \A n \in S : n <= m
  BY DEF Bounds
<1>4. m \in S
  <2> SUFFICES ASSUME m \notin S PROVE FALSE
    OBVIOUS
  <2>1. PICK n \in S : n \in Nat
    OBVIOUS
  <2>2. m - 1 \in Nat /\ \A k \in S : k <= m - 1
    BY <1>3, <2>1
  <2>3. m - 1 \in Bounds /\ ~ (m <= m - 1)
    BY <1>3, <2>2 DEF Bounds
  <2> QED
    BY <1>2, <2>3
<1>5. \A n \in S : m >= n
  BY <1>3
<1> QED
  BY <1>4, <1>5 DEF Max

\* A collection of subsets of a finite set has one that contains no other.
LEMMA LeastSubset ==
    ASSUME NEW S, IsFiniteSet(S), NEW B \in SUBSET SUBSET S, B # {}
    PROVE  \E T \in B : \A U \in B : U \subseteq T => U = T
<1>1. B \subseteq FiniteSubsetsOf(S)
  BY FS_Subset DEF FiniteSubsetsOf
<1>2. PICK T \in B : \A U \in B : <<U, T>> \notin StrictSubsetOrdering(S)
  BY <1>1, WFMin, FS_StrictSubsetOrderingWellFounded
<1>3. ASSUME NEW U \in B, U \subseteq T PROVE U = T
  <2>1. U \in SUBSET S /\ T \in SUBSET S
    OBVIOUS
  <2> QED
    BY <1>2, <1>3, <2>1 DEF StrictSubsetOrdering
<1> QED
  BY <1>3

\* What is repeated step by step: the values after each number of steps.
Repeats(f, S, first, step) ==
    f \in [Nat -> S] /\ f[0] = first /\ \A n \in Nat : f[n + 1] = step[f[n]]

\* Whatever is repeated step by step has a value after every number of steps.
LEMMA Repeated ==
    ASSUME NEW S, NEW first \in S, NEW step \in [S -> S]
    PROVE  \E f : Repeats(f, S, first, step)
<1> DEFINE Run(n) == {g \in [0 .. n -> S] :
                        g[0] = first /\ \A i \in 0 .. n - 1 : g[i + 1] = step[g[i]]}
<1>1. \A n \in Nat : Run(n) # {}
  <2> DEFINE Bad == {n \in Nat : Run(n) = {}}
  <2> SUFFICES ASSUME Bad # {} PROVE FALSE
    OBVIOUS
  <2>1. Bad \in SUBSET Nat
    OBVIOUS
  <2> HIDE DEF Bad
  <2>2. PICK n \in Bad : \A m \in Bad : n <= m
    BY <2>1, LeastNumber
  <2> USE DEF Bad
  <2>3. n \in Nat /\ Run(n) = {}
    OBVIOUS
  <2>4. CASE n = 0
    <3>1. [i \in 0 .. 0 |-> first] \in Run(0)
      OBVIOUS
    <3> QED
      BY <2>3, <2>4, <3>1
  <2>5. CASE n # 0
    <3>1. n - 1 \in Nat /\ n - 1 \notin Bad
      <4>1. n - 1 \in Nat /\ ~ (n <= n - 1)
        BY <2>3, <2>5
      <4> HIDE DEF Bad
      <4> QED
        BY <2>2, <4>1
    <3>2. PICK g : g \in Run(n - 1)
      BY <3>1
    <3> DEFINE h == [i \in 0 .. n |-> IF i = n THEN step[g[n - 1]] ELSE g[i]]
    <3>3. h \in [0 .. n -> S]
      BY <2>3, <2>5, <3>1, <3>2
    <3>4. h[0] = first
      BY <2>3, <2>5, <3>2
    <3>5. ASSUME NEW i \in 0 .. n - 1 PROVE h[i + 1] = step[h[i]]
      <4>1. CASE i = n - 1
        BY <4>1, <2>3, <3>1
      <4>2. CASE i # n - 1
        <5>1. i \in 0 .. (n - 1) - 1 /\ i + 1 # n /\ i # n /\ i \in 0 .. n /\ i + 1 \in 0 .. n
          BY <4>2, <2>3
        <5>2. h[i + 1] = g[i + 1] /\ h[i] = g[i]
          BY <5>1
        <5> QED
          BY <3>2, <5>1, <5>2
      <4> QED
        BY <4>1, <4>2
    <3> HIDE DEF h
    <3>6. h \in Run(n)
      BY <3>3, <3>4, <3>5
    <3> QED
      BY <2>3, <3>6
  <2> QED
    BY <2>4, <2>5
<1>2. ASSUME NEW m \in Nat, NEW n \in Nat, NEW g \in Run(m), NEW h \in Run(n), m <= n
      PROVE  \A i \in 0 .. m : g[i] = h[i]
  <2> DEFINE Bad == {i \in 0 .. m : g[i] # h[i]}
  <2> SUFFICES ASSUME Bad # {} PROVE FALSE
    OBVIOUS
  <2>1. Bad \in SUBSET Nat
    OBVIOUS
  <2> HIDE DEF Bad
  <2>2. PICK i \in Bad : \A j \in Bad : i <= j
    BY <2>1, LeastNumber
  <2> USE DEF Bad
  <2>3. i # 0
    BY g[0] = first, h[0] = first
  <2>4. i - 1 \in 0 .. m /\ i - 1 \notin Bad /\ i - 1 \in 0 .. m - 1 /\ i - 1 \in 0 .. n - 1
    BY <1>2, <2>2, <2>3
  <2>5. g[i - 1] = h[i - 1]
    BY <2>4
  <2>6. g[(i - 1) + 1] = step[g[i - 1]] /\ h[(i - 1) + 1] = step[h[i - 1]]
    BY <2>4
  <2>7. (i - 1) + 1 = i
    OBVIOUS
  <2> QED
    BY <2>2, <2>5, <2>6, <2>7
<1> DEFINE run(n) == CHOOSE g : g \in Run(n)
           f == [n \in Nat |-> run(n)[n]]
<1>3. \A n \in Nat : run(n) \in Run(n)
  BY <1>1
<1> HIDE DEF run
<1>4. f \in [Nat -> S]
  BY <1>3
<1>5. f[0] = first
  BY <1>3
<1>6. ASSUME NEW n \in Nat PROVE f[n + 1] = step[f[n]]
  <2>1. run(n)[n] = run(n + 1)[n]
    <3>1. n \in Nat /\ n + 1 \in Nat /\ n <= n + 1 /\ run(n) \in Run(n) /\ run(n + 1) \in Run(n + 1)
      BY <1>3
    <3> HIDE DEF Run
    <3> QED
      BY <1>2, <3>1
  <2>2. run(n + 1) \in Run(n + 1) /\ n \in 0 .. (n + 1) - 1
    BY <1>3
  <2>3. run(n + 1)[n + 1] = step[run(n + 1)[n]]
    BY <2>2
  <2> QED
    BY <2>1, <2>3
<1> QED
  BY <1>4, <1>5, <1>6 DEF Repeats

\* What is done element by element with a finite set: pick says which element
\* of a set comes first, and step what is made of it and the result for the others.
IsRecursion(S, V, base, pick, step) ==
    /\ base \in V
    /\ \A T \in SUBSET S : T # {} => pick[T] \in T
    /\ \A x \in S, v \in V : step[<<x, v>>] \in V
\* What is defined element by element: an element is picked, and the rest goes on.
Solves(f, S, V, base, pick, step) ==
    /\ f \in [SUBSET S -> V]
    /\ f[{}] = base
    /\ \A T \in SUBSET S : T # {} => f[T] = step[<<pick[T], f[T \ {pick[T]}]>>]

\* Whatever is defined element by element exists for every finite set.
LEMMA ElementByElement ==
    ASSUME NEW S, IsFiniteSet(S), NEW V, NEW base, NEW pick, NEW step,
           IsRecursion(S, V, base, pick, step)
    PROVE  \E f : Solves(f, S, V, base, pick, step)
<1>0. /\ base \in V
      /\ \A T \in SUBSET S : T # {} => pick[T] \in T
      /\ \A x \in S, v \in V : step[<<x, v>>] \in V
  BY DEF IsRecursion
<1> DEFINE Sol(T) == {g \in [SUBSET T -> V] :
                        /\ g[{}] = base
                        /\ \A U \in SUBSET T :
                              U # {} => g[U] = step[<<pick[U], g[U \ {pick[U]}]>>]}
<1>1. ASSUME NEW T \in SUBSET S, NEW T2 \in SUBSET S, NEW g \in Sol(T), NEW h \in Sol(T2)
      PROVE  \A U \in SUBSET T : U \in SUBSET T2 => g[U] = h[U]
  <2> DEFINE Bad == {U \in SUBSET S : U \subseteq T /\ U \subseteq T2 /\ g[U] # h[U]}
  <2> SUFFICES ASSUME Bad # {} PROVE FALSE
    OBVIOUS
  <2>1. Bad \in SUBSET SUBSET S
    OBVIOUS
  <2> HIDE DEF Bad
  <2>2. PICK U \in Bad : \A W \in Bad : W \subseteq U => W = U
    BY <2>1, LeastSubset
  <2> USE DEF Bad
  <2>3. U # {}
    OBVIOUS
  <2>4. U \in SUBSET S /\ U \in SUBSET T /\ U \in SUBSET T2 /\ pick[U] \in U
    BY <1>0, <2>3
  <2> DEFINE W == U \ {pick[U]}
  <2>5. W \subseteq U /\ W # U /\ W \in SUBSET S /\ W \in SUBSET T /\ W \in SUBSET T2
    BY <2>4
  <2>6. g[W] = h[W]
    BY <2>2, <2>5
  <2>7. g[U] = step[<<pick[U], g[W]>>] /\ h[U] = step[<<pick[U], h[W]>>]
    BY <2>3, <2>4
  <2> QED
    BY <2>6, <2>7
<1> DEFINE sol(T) == CHOOSE g : g \in Sol(T)
<1>2. ASSUME NEW T \in SUBSET S, T # {}, \A U \in SUBSET T : U # T => Sol(U) # {}
      PROVE  Sol(T) # {}
  <2> DEFINE T0 == T \ {pick[T]}
             h == [U \in SUBSET T |-> IF U = T THEN step[<<pick[T], sol(T0)[T0]>>]
                                      ELSE sol(U)[U]]
  <2>1. pick[T] \in T /\ T0 \in SUBSET T /\ T0 # T
    BY <1>0, <1>2
  <2>2. \A U \in SUBSET T : U # T => sol(U) \in Sol(U)
    BY <1>2
  <2> HIDE DEF sol
  <2>3. \A U \in SUBSET T : U # T => sol(U)[U] \in V
    <3> SUFFICES ASSUME NEW U \in SUBSET T, U # T PROVE sol(U)[U] \in V
      OBVIOUS
    <3>1. sol(U) \in [SUBSET U -> V] /\ U \in SUBSET U
      BY <2>2
    <3> QED
      BY <3>1
  <2>4. h \in [SUBSET T -> V]
    <3>1. step[<<pick[T], sol(T0)[T0]>>] \in V
      BY <1>0, <2>1, <2>3
    <3> QED
      BY <2>3, <3>1
  <2>5. h[{}] = base
    <3>1. sol({}) \in Sol({}) /\ {} \in SUBSET T
      BY <1>2, <2>2
    <3> QED
      BY <1>2, <3>1
  <2>6. ASSUME NEW U \in SUBSET T, U # {} PROVE h[U] = step[<<pick[U], h[U \ {pick[U]}]>>]
    <3> DEFINE W == U \ {pick[U]}
    <3>1. pick[U] \in U /\ W \in SUBSET T /\ W # T
      BY <1>0, <2>6
    <3>2. h[W] = sol(W)[W]
      BY <3>1
    <3>3. CASE U = T
      BY <3>2, <3>3
    <3>4. CASE U # T
      <4>1. sol(U) \in Sol(U) /\ sol(W) \in Sol(W) /\ W \in SUBSET U /\ W \in SUBSET W
        BY <2>2, <3>1, <3>4
      <4>2. sol(U)[U] = step[<<pick[U], sol(U)[W]>>]
        BY <4>1, <2>6
      <4>3. U \in SUBSET S /\ W \in SUBSET S
        OBVIOUS
      <4>4. sol(U)[W] = sol(W)[W]
        <5> HIDE DEF Sol, W
        <5> QED
          BY <1>1, <4>1, <4>3
      <4> QED
        BY <3>2, <3>4, <4>2, <4>4
    <3> QED
      BY <3>3, <3>4
  <2> HIDE DEF h
  <2>7. h \in Sol(T)
    BY <2>4, <2>5, <2>6
  <2> QED
    BY <2>7
<1>3. Sol({}) # {}
  <2>1. [U \in SUBSET {} |-> base] \in Sol({})
    BY <1>0
  <2> QED
    BY <2>1
<1>4. Sol(S) # {}
  <2> DEFINE Bad == {T \in SUBSET S : Sol(T) = {}}
  <2> SUFFICES ASSUME Bad # {} PROVE FALSE
    OBVIOUS
  <2>1. Bad \in SUBSET SUBSET S
    OBVIOUS
  <2> HIDE DEF Bad
  <2>2. PICK T \in Bad : \A U \in Bad : U \subseteq T => U = T
    BY <2>1, LeastSubset
  <2> HIDE DEF Sol
  <2> USE DEF Bad
  <2>3. T \in SUBSET S /\ T # {} /\ \A U \in SUBSET T : U # T => Sol(U) # {}
    BY <2>2, <1>3
  <2>4. Sol(T) # {}
    BY <2>3, <1>2
  <2> QED
    BY <2>4
<1> QED
  BY <1>4 DEF Solves

-----------------------------------------------------------------------------
(* The order of keys *)

\* Tuples of n numbers: keys, or prefixes of the same number of fields.
Tuples(n) == {t \in Seq(Int) : Len(t) = n}

\* What a tuple is as a sequence.
LEMMA Fields ==
    ASSUME NEW n \in Nat, NEW t \in Tuples(n)
    PROVE  t \in Seq(Int) /\ Len(t) = n /\ DOMAIN t = 1 .. n /\ \A i \in 1 .. n : t[i] \in Int
BY DEF Tuples

\* Of two tuples of one length one is before the other if it is less where they
\* first differ.
Less(a, b, n) == \E i \in 1 .. n : a[i] < b[i] /\ \A j \in 1 .. i - 1 : a[j] = b[j]

\* For tuples of one length the order of the table compares the fields in turn ...
LEMMA BeforeIsLess ==
    ASSUME NEW n \in Nat, NEW a \in Tuples(n), NEW b \in Tuples(n)
    PROVE  Before(a, b) <=> Less(a, b, n)
<1>1. /\ a \in Seq(Int) /\ b \in Seq(Int) /\ Len(a) = n /\ Len(b) = n
  BY DEF Tuples
<1>2. ~ IsStrictPrefix(a, b)
  <2>1. SubSeq(a, 1, Len(a)) = a /\ SubSeq(b, 1, Len(b)) = b
    BY <1>1, SubSeqFull
  <2> QED
    BY <1>1, <2>1 DEF IsStrictPrefix, IsPrefix
<1> QED
  BY <1>1, <1>2 DEF Before, Less

\* ... which compares any two ...
LEMMA LessIsTotal ==
    ASSUME NEW n \in Nat, NEW a \in Tuples(n), NEW b \in Tuples(n), a # b
    PROVE  Less(a, b, n) \/ Less(b, a, n)
<1>1. /\ a \in Seq(Int) /\ b \in Seq(Int) /\ Len(a) = n /\ Len(b) = n
      /\ \A i \in 1 .. n : a[i] \in Int /\ b[i] \in Int
  BY DEF Tuples
<1> DEFINE D == {i \in 1 .. n : a[i] # b[i]}
<1>2. D \in SUBSET Nat /\ D # {}
  <2> SUFFICES ASSUME D = {} PROVE FALSE
    OBVIOUS
  <2>1. Len(a) = Len(b) /\ \A i \in 1 .. Len(a) : a[i] = b[i]
    BY <1>1
  <2> QED
    BY <1>1, <2>1, SeqEqual, Zenon
<1> HIDE DEF D
<1>3. PICK i \in D : \A j \in D : i <= j
  BY <1>2, LeastNumber
<1> USE DEF D
<1>4. i \in 1 .. n /\ a[i] # b[i]
  OBVIOUS
<1>5. \A j \in 1 .. i - 1 : a[j] = b[j]
  <2> SUFFICES ASSUME NEW j \in 1 .. i - 1, a[j] # b[j] PROVE FALSE
    OBVIOUS
  <2>1. j \in D /\ ~ (i <= j)
    BY <1>4
  <2> QED
    BY <1>3, <2>1
<1>6. a[i] < b[i] \/ b[i] < a[i]
  BY <1>1, <1>4
<1> QED
  BY <1>4, <1>5, <1>6 DEF Less

\* ... and is an order.
LEMMA LessIsStrict ==
    ASSUME NEW n \in Nat, NEW a \in Tuples(n), NEW b \in Tuples(n), NEW c \in Tuples(n)
    PROVE  /\ ~ Less(a, a, n)
           /\ Less(a, b, n) /\ Less(b, c, n) => Less(a, c, n)
<1>1. \A i \in 1 .. n : a[i] \in Int /\ b[i] \in Int /\ c[i] \in Int
  BY DEF Tuples
<1>2. ~ Less(a, a, n)
  BY <1>1 DEF Less
<1>3. ASSUME Less(a, b, n), Less(b, c, n) PROVE Less(a, c, n)
  <2>1. PICK i \in 1 .. n : a[i] < b[i] /\ \A j \in 1 .. i - 1 : a[j] = b[j]
    BY <1>3 DEF Less
  <2>2. PICK k \in 1 .. n : b[k] < c[k] /\ \A j \in 1 .. k - 1 : b[j] = c[j]
    BY <1>3 DEF Less
  <2> DEFINE m == IF i <= k THEN i ELSE k
  <2>3. m \in 1 .. n
    OBVIOUS
  <2>4. a[m] < c[m]
    <3>1. CASE i < k
      <4>1. b[i] = c[i]
        BY <2>2, <3>1
      <4> QED
        BY <1>1, <2>1, <3>1, <4>1
    <3>2. CASE i = k
      BY <1>1, <2>1, <2>2, <3>2
    <3>3. CASE k < i
      <4>1. a[k] = b[k]
        BY <2>1, <3>3
      <4> QED
        BY <1>1, <2>2, <3>3, <4>1
    <3> QED
      BY <3>1, <3>2, <3>3
  <2>5. \A j \in 1 .. m - 1 : a[j] = c[j]
    BY <2>1, <2>2
  <2> QED
    BY <2>3, <2>4, <2>5 DEF Less
<1> QED
  BY <1>2, <1>3

\* A finite set of tuples that is not empty has a first.
LEMMA FirstExists ==
    ASSUME NEW n \in Nat, NEW S \in SUBSET Tuples(n), IsFiniteSet(S), S # {}
    PROVE  \E x \in S : \A y \in S \ {x} : Before(x, y)
<1> DEFINE HasFirst(T) == \E x \in T : \A y \in T \ {x} : Less(x, y, n)
           Bad == {T \in SUBSET S : T # {} /\ ~ HasFirst(T)}
<1>1. ASSUME Bad # {} PROVE FALSE
  <2>1. Bad \in SUBSET SUBSET S
    OBVIOUS
  <2> HIDE DEF Bad
  <2>2. PICK T \in Bad : \A U \in Bad : U \subseteq T => U = T
    BY <1>1, <2>1, LeastSubset
  <2>3. T \in SUBSET S /\ T # {} /\ ~ HasFirst(T)
    BY DEF Bad
  <2>4. PICK x \in T : TRUE
    BY <2>3
  <2> DEFINE U == T \ {x}
  <2>5. U \notin Bad /\ U \in SUBSET S
    BY <2>2, <2>3, <2>4
  <2>6. U # {}
    BY <2>3, <2>4
  <2>7. PICK y \in U : \A z \in U \ {y} : Less(y, z, n)
    BY <2>5, <2>6 DEF Bad
  <2>8. x \in Tuples(n) /\ y \in Tuples(n) /\ x # y /\ T = U \cup {x}
    BY <2>3, <2>4
  <2>9. CASE Less(x, y, n)
    <3>1. ASSUME NEW z \in T \ {x} PROVE Less(x, z, n)
      <4>1. z \in Tuples(n) /\ (z = y \/ Less(y, z, n))
        BY <2>3, <2>7
      <4> QED
        BY <2>8, <2>9, <4>1, LessIsStrict
    <3> QED
      BY <2>3, <3>1
  <2>10. CASE Less(y, x, n)
    <3>1. \A z \in T \ {y} : Less(y, z, n)
      BY <2>7, <2>8, <2>10
    <3> QED
      BY <2>3, <2>8, <3>1
  <2> QED
    BY <2>8, <2>9, <2>10, LessIsTotal
<1>2. HasFirst(S)
  BY <1>1
<1>3. PICK x \in S : \A y \in S \ {x} : Less(x, y, n)
  BY <1>2
<1>4. \A y \in S \ {x} : Before(x, y)
  BY <1>3, BeforeIsLess
<1> QED
  BY <1>4

\* A sequence has the elements of a set in their order.
Sorts(s, S) ==
    /\ s \in Seq(S)
    /\ \A x \in S : \E i \in 1 .. Len(s) : s[i] = x
    /\ \A i, j \in 1 .. Len(s) : i < j => Before(s[i], s[j])

\* InOrder puts the elements of a finite set in their order, each once.
LEMMA InOrderSorts ==
    ASSUME NEW n \in Nat, NEW S \in SUBSET Tuples(n), IsFiniteSet(S)
    PROVE  Sorts(InOrder(S), S)
<1> DEFINE first(T) == CHOOSE x \in T : \A y \in T \ {x} : Before(x, y)
           Sort(g) == g = [T \in SUBSET S |->
                             IF T = {} THEN <<>> ELSE <<first(T)>> \o g[T \ {first(T)}]]
           sort == CHOOSE g : Sort(g)
<1>1. InOrder(S) = sort[S]
  BY DEF InOrder
<1>2. ASSUME NEW T \in SUBSET S, T # {}
      PROVE  first(T) \in T /\ \A y \in T \ {first(T)} : Before(first(T), y)
  <2>1. IsFiniteSet(T) /\ T \in SUBSET Tuples(n)
    BY FS_Subset
  <2> QED
    BY <1>2, <2>1, FirstExists
<1> HIDE DEF first
<1>3. \E f : Sort(f)
  <2> DEFINE pick == [T \in SUBSET S |-> first(T)]
             step == [p \in S \X Seq(S) |-> <<p[1]>> \o p[2]]
  <2>1. \A T \in SUBSET S : T # {} => pick[T] \in T
    BY <1>2
  <2>2. \A x \in S, v \in Seq(S) : step[<<x, v>>] = <<x>> \o v /\ step[<<x, v>>] \in Seq(S)
    <3> SUFFICES ASSUME NEW x \in S, NEW v \in Seq(S)
                 PROVE  step[<<x, v>>] = <<x>> \o v /\ step[<<x, v>>] \in Seq(S)
      OBVIOUS
    <3>1. <<x, v>> \in S \X Seq(S) /\ <<x>> \in Seq(S)
      OBVIOUS
    <3>2. <<x>> \o v \in Seq(S)
      BY <3>1, ConcatProperties
    <3> QED
      BY <3>1, <3>2
  <2>3. <<>> \in Seq(S)
    OBVIOUS
  <2> HIDE DEF step
  <2>4. IsRecursion(S, Seq(S), <<>>, pick, step)
    BY <2>1, <2>2, <2>3 DEF IsRecursion
  <2>5. PICK f : Solves(f, S, Seq(S), <<>>, pick, step)
    BY <2>4, ElementByElement
  <2>6. /\ f \in [SUBSET S -> Seq(S)] /\ f[{}] = <<>>
        /\ \A T \in SUBSET S : T # {} => f[T] = step[<<pick[T], f[T \ {pick[T]}]>>]
    BY <2>5 DEF Solves
  <2>7. ASSUME NEW T \in SUBSET S, T # {}
        PROVE  f[T] = <<first(T)>> \o f[T \ {first(T)}]
    <3>1. first(T) \in S /\ T \ {first(T)} \in SUBSET S /\ pick[T] = first(T)
      BY <1>2, <2>7
    <3>2. f[T \ {first(T)}] \in Seq(S)
      BY <2>6, <3>1
    <3> QED
      BY <2>2, <2>6, <2>7, <3>1, <3>2
  <2>8. Sort(f)
    BY <2>6, <2>7
  <2> QED
    BY <2>8
<1>4. Sort(sort)
  <2> HIDE DEF Sort
  <2> QED
    BY <1>3
<1> HIDE DEF sort
<1>5. /\ sort[{}] = <<>>
      /\ \A T \in SUBSET S : T # {} => sort[T] = <<first(T)>> \o sort[T \ {first(T)}]
  BY <1>4
<1> HIDE DEF Sort
<1> DEFINE Bad == {T \in SUBSET S : ~ Sorts(sort[T], T)}
<1>6. ASSUME Bad # {} PROVE FALSE
  <2>1. Bad \in SUBSET SUBSET S
    OBVIOUS
  <2> HIDE DEF Bad
  <2>2. PICK T \in Bad : \A U \in Bad : U \subseteq T => U = T
    BY <1>6, <2>1, LeastSubset
  <2>3. T \in SUBSET S /\ ~ Sorts(sort[T], T)
    BY DEF Bad
  <2>4. CASE T = {}
    <3>1. sort[T] = <<>>
      BY <1>5, <2>4
    <3>2. Sorts(<<>>, {})
      BY DEF Sorts
    <3> QED
      BY <2>3, <2>4, <3>1, <3>2
  <2>5. CASE T # {}
    <3> DEFINE x == first(T)
               U == T \ {x}
               s == sort[U]
               t == <<x>> \o s
    <3>1. x \in T /\ \A y \in U : Before(x, y)
      BY <1>2, <2>3, <2>5
    <3>2. U \in SUBSET S /\ U \subseteq T /\ U # T
      BY <2>3, <3>1
    <3>3. Sorts(s, U)
      BY <2>2, <3>2 DEF Bad
    <3>4. sort[T] = t
      BY <1>5, <2>3, <2>5
    <3> HIDE DEF x, U, s
    <3>5. s \in Seq(U) /\ s \in Seq(T) /\ <<x>> \in Seq(T) /\ Len(s) \in Nat
      BY <3>1, <3>2, <3>3, SeqMonotonic DEF Sorts
    <3>6. /\ t \in Seq(T) /\ Len(t) = 1 + Len(s)
          /\ \A i \in 1 .. Len(t) : t[i] = IF i = 1 THEN x ELSE s[i - 1]
      <4>1. Len(<<x>>) = 1 /\ <<x>>[1] = x
        OBVIOUS
      <4> QED
        BY <3>5, <4>1, ConcatProperties
    <3> HIDE DEF t
    <3>7. ASSUME NEW y \in T PROVE \E i \in 1 .. Len(t) : t[i] = y
      <4>1. CASE y = x
        BY <3>5, <3>6, <4>1
      <4>2. CASE y # x
        <5>1. y \in U
          BY <4>2 DEF U
        <5>2. PICK i \in 1 .. Len(s) : s[i] = y
          BY <3>3, <5>1 DEF Sorts
        <5>3. i + 1 \in 1 .. Len(t) /\ i + 1 # 1 /\ (i + 1) - 1 = i
          BY <3>5, <3>6, <5>2
        <5> QED
          BY <3>6, <5>2, <5>3
      <4> QED
        BY <4>1, <4>2
    <3>8. ASSUME NEW i \in 1 .. Len(t), NEW j \in 1 .. Len(t), i < j
          PROVE  Before(t[i], t[j])
      <4>1. j - 1 \in 1 .. Len(s) /\ t[j] = s[j - 1]
        BY <3>5, <3>6, <3>8
      <4>2. CASE i = 1
        <5>1. s[j - 1] \in U
          BY <3>5, <4>1
        <5> QED
          BY <3>1, <3>6, <4>1, <4>2, <5>1
      <4>3. CASE i # 1
        <5>1. i - 1 \in 1 .. Len(s) /\ t[i] = s[i - 1] /\ i - 1 < j - 1
          BY <3>5, <3>6, <3>8, <4>3
        <5> QED
          BY <3>3, <4>1, <5>1 DEF Sorts
      <4> QED
        BY <4>2, <4>3
    <3>9. Sorts(t, T)
      BY <3>6, <3>7, <3>8 DEF Sorts
    <3> QED
      BY <2>3, <3>4, <3>9
  <2> QED
    BY <2>4, <2>5
<1> QED
  BY <1>1, <1>6

-----------------------------------------------------------------------------
(* The prefix scan *)

\* A key has a prefix, field by field.
Matches(key, p) == \A i \in 1 .. Len(p) : key[i] = p[i]

\* A key before a prefix, one that matches it, and one behind both.
LEMMA KeyAndPrefix ==
    ASSUME NEW m \in 1 .. 3, NEW p \in Tuples(m), NEW key \in Tuples(4)
    PROVE  /\ IsPrefix(p, key) <=> Matches(key, p)
           /\ SubSeq(key, 1, Len(p)) = p <=> Matches(key, p)
           /\ Before(key, p) <=>
                 \E i \in 1 .. m : key[i] < p[i] /\ \A j \in 1 .. i - 1 : key[j] = p[j]
           /\ ~ Before(key, p) /\ ~ Matches(key, p) =>
                 \E i \in 1 .. m : p[i] < key[i] /\ \A j \in 1 .. i - 1 : key[j] = p[j]
<1>1. /\ p \in Seq(Int) /\ key \in Seq(Int) /\ Len(p) = m /\ Len(key) = 4 /\ m \in Nat
      /\ \A i \in 1 .. m : p[i] \in Int /\ key[i] \in Int
  BY SMTT(30) DEF Tuples
<1> DEFINE head == SubSeq(key, 1, m)
<1>2. /\ head \in Seq(Int) /\ Len(head) = m
      /\ \A i \in 1 .. m : head[i] = key[i]
  BY <1>1
<1>3. SubSeq(p, 1, m) = p
  BY <1>1, SubSeqFull
<1>4. head = p <=> Matches(key, p)
  <2>1. ASSUME head = p PROVE Matches(key, p)
    BY <1>1, <1>2, <2>1 DEF Matches
  <2>2. ASSUME Matches(key, p) PROVE head = p
    <3>1. Len(head) = Len(p) /\ \A i \in 1 .. Len(head) : head[i] = p[i]
      BY <1>1, <1>2, <2>2 DEF Matches
    <3> HIDE DEF head
    <3> QED
      BY <1>1, <1>2, <3>1, SeqEqual
  <2> QED
    BY <2>1, <2>2
<1>5. IsPrefix(p, key) <=> Matches(key, p)
  BY <1>1, <1>3, <1>4 DEF IsPrefix
<1>6. Before(key, p) <=> \E i \in 1 .. m : key[i] < p[i] /\ \A j \in 1 .. i - 1 : key[j] = p[j]
  <2>1. ~ IsStrictPrefix(key, p)
    BY <1>1 DEF IsStrictPrefix, IsPrefix
  <2> QED
    BY <1>1, <2>1, SMTT(30) DEF Before
<1>7. ASSUME ~ Before(key, p), ~ Matches(key, p)
      PROVE  \E i \in 1 .. m : p[i] < key[i] /\ \A j \in 1 .. i - 1 : key[j] = p[j]
  <2> DEFINE D == {i \in 1 .. m : key[i] # p[i]}
  <2>1. D \in SUBSET Nat /\ D # {}
    BY <1>1, <1>7, SMTT(30) DEF Matches
  <2> HIDE DEF D
  <2>2. PICK i \in D : \A j \in D : i <= j
    BY <2>1, LeastNumber
  <2>3. i \in 1 .. m /\ key[i] # p[i]
    BY DEF D
  <2>4. ASSUME NEW j \in 1 .. i - 1 PROVE key[j] = p[j]
    <3>1. j \in 1 .. m /\ ~ (i <= j)
      BY <2>3, <1>1
    <3> QED
      BY <2>2, <3>1 DEF D
  <2>5. p[i] < key[i]
    BY <1>1, <1>6, <1>7, <2>3, <2>4, SMTT(30)
  <2> QED
    BY <2>3, <2>4, <2>5
<1> QED
  BY <1>1, <1>4, <1>5, <1>6, <1>7

\* In the order of keys those before a prefix come first, then those that match.
LEMMA MatchesAreTogether ==
    ASSUME NEW m \in 1 .. 3, NEW p \in Tuples(m),
           NEW a \in Tuples(4), NEW b \in Tuples(4), Before(a, b)
    PROVE  /\ Before(b, p) => Before(a, p)
           /\ Matches(b, p) => Before(a, p) \/ Matches(a, p)
           /\ Matches(b, p) => ~ Before(b, p)
<1>1. /\ Len(p) = m /\ \A i \in 1 .. 4 : a[i] \in Int /\ b[i] \in Int
      /\ \A i \in 1 .. m : p[i] \in Int
  <2>1. m \in Nat /\ 4 \in Nat
    OBVIOUS
  <2> QED
    BY <2>1, Fields
<1>2. PICK k \in 1 .. 4 : a[k] < b[k] /\ \A j \in 1 .. k - 1 : a[j] = b[j]
  BY BeforeIsLess DEF Less
<1>3. ASSUME Before(b, p) PROVE Before(a, p)
  <2>1. PICK i \in 1 .. m : b[i] < p[i] /\ \A j \in 1 .. i - 1 : b[j] = p[j]
    BY <1>3, KeyAndPrefix
  <2> DEFINE l == IF i <= k THEN i ELSE k
  <2>2. l \in 1 .. m /\ l \in 1 .. 4
    OBVIOUS
  <2>3. a[l] < p[l]
    <3>1. CASE i < k
      <4>1. a[i] = b[i]
        BY <1>2, <3>1
      <4> QED
        BY <1>1, <2>1, <3>1, <4>1
    <3>2. CASE i = k
      <4>1. /\ l = i /\ a[i] < b[i] /\ b[i] < p[i]
            /\ a[i] \in Int /\ b[i] \in Int /\ p[i] \in Int
        BY <1>1, <1>2, <2>1, <3>2
      <4> QED
        BY <4>1
    <3>3. CASE k < i
      <4>1. b[k] = p[k]
        BY <2>1, <3>3
      <4> QED
        BY <1>1, <1>2, <3>3, <4>1
    <3> QED
      BY <3>1, <3>2, <3>3
  <2>4. \A j \in 1 .. l - 1 : a[j] = p[j]
    <3> TAKE j \in 1 .. l - 1
    <3>1. j \in 1 .. i - 1 /\ j \in 1 .. k - 1
      OBVIOUS
    <3> QED
      BY <1>2, <2>1, <3>1
  <2> HIDE DEF l
  <2> QED
    BY <2>2, <2>3, <2>4, KeyAndPrefix
<1>4. ASSUME Matches(b, p), ~ Before(a, p), ~ Matches(a, p) PROVE FALSE
  <2>1. PICK i \in 1 .. m : p[i] < a[i] /\ \A j \in 1 .. i - 1 : a[j] = p[j]
    BY <1>4, KeyAndPrefix
  <2>2. \A j \in 1 .. m : b[j] = p[j]
    BY <1>1, <1>4 DEF Matches
  <2>3. CASE k < i
    <3>1. a[k] = p[k] /\ b[k] = p[k] /\ k \in 1 .. m
      BY <2>1, <2>2, <2>3
    <3> QED
      BY <1>1, <1>2, <3>1
  <2>4. CASE k = i
    BY <1>1, <1>2, <2>1, <2>2, <2>4, SMTT(30)
  <2>5. CASE i < k
    <3>1. a[i] = b[i] /\ i \in 1 .. 4
      BY <1>2, <2>5
    <3> QED
      BY <1>1, <2>1, <2>2, <3>1
  <2> QED
    BY <2>3, <2>4, <2>5
<1>5. ASSUME Matches(b, p), Before(b, p) PROVE FALSE
  <2>1. PICK i \in 1 .. m : b[i] < p[i]
    BY <1>5, KeyAndPrefix
  <2> QED
    BY <1>1, <1>5, <2>1 DEF Matches
<1> QED
  BY <1>3, <1>4, <1>5

\* What is read from a position on: the keys up to the first that does not match.
LEMMA ReadsUpToMismatch ==
    ASSUME NEW m \in 1 .. 3, NEW p \in Tuples(m), NEW ks \in Seq(Tuples(4)),
           NEW i \in 1 .. Len(ks) + 1
    PROVE  ReadFrom(ks, i, p) =
             {ks[k] : k \in {x \in i .. Len(ks) : \A l \in i .. x : Matches(ks[l], p)}}
<1> DEFINE N == Len(ks)
           Is(g) == g = [j \in 1 .. N + 1 |->
                            IF j > N THEN {}
                            ELSE IF IsPrefix(p, ks[j]) THEN {ks[j]} \cup g[j + 1] ELSE {}]
           read == CHOOSE g : Is(g)
           Block(j) == {x \in j .. N : \A l \in j .. x : Matches(ks[l], p)}
           R == [j \in 1 .. N + 1 |-> {ks[k] : k \in Block(j)}]
<1>1. ReadFrom(ks, i, p) = read[i]
  BY DEF ReadFrom
<1>2. N \in Nat /\ \A j \in 1 .. N : ks[j] \in Tuples(4) /\ (IsPrefix(p, ks[j]) <=> Matches(ks[j], p))
  BY KeyAndPrefix
<1> HIDE DEF N
<1>3. ASSUME NEW j \in 1 .. N + 1
      PROVE  R[j] = IF j > N THEN {}
                    ELSE IF IsPrefix(p, ks[j]) THEN {ks[j]} \cup R[j + 1] ELSE {}
  <2>1. CASE j > N
    <3>1. Block(j) = {}
      BY <1>2, <2>1
    <3> QED
      BY <2>1, <3>1
  <2>2. CASE j <= N /\ ~ Matches(ks[j], p)
    <3>1. Block(j) = {}
      BY <1>2, <2>2
    <3> QED
      BY <1>2, <2>2, <3>1
  <2>3. CASE j <= N /\ Matches(ks[j], p)
    <3>1. Block(j) = {j} \cup Block(j + 1)
      <4>1. ASSUME NEW x \in Block(j), x # j PROVE x \in Block(j + 1)
        BY <1>2, <2>3, <4>1
      <4>2. ASSUME NEW x \in Block(j + 1) PROVE x \in Block(j)
        <5>1. x \in j .. N
          BY <1>2, <2>3
        <5>2. ASSUME NEW l \in j .. x PROVE Matches(ks[l], p)
          <6>1. CASE l = j
            BY <2>3, <6>1
          <6>2. CASE l # j
            BY <6>2, <5>1
          <6> QED
            BY <6>1, <6>2
        <5> QED
          BY <5>1, <5>2
      <4>3. j \in Block(j)
        BY <1>2, <2>3
      <4> QED
        BY <4>1, <4>2, <4>3
    <3>2. j + 1 \in 1 .. N + 1 /\ j \in 1 .. N
      BY <1>2, <2>3
    <3> HIDE DEF Block
    <3>3. R[j] = {ks[j]} \cup R[j + 1]
      BY <3>1, <3>2
    <3>4. ~ (j > N) /\ IsPrefix(p, ks[j])
      BY <1>2, <2>3, <3>2
    <3> HIDE DEF R
    <3> QED
      BY <3>3, <3>4
  <2> QED
    BY <1>2, <2>1, <2>2, <2>3
<1>4. Is(R)
  <2> HIDE DEF Block
  <2> QED
    BY <1>3
<1>5. Is(read)
  <2> HIDE DEF Is, R
  <2> QED
    BY <1>4
<1>6. \A j \in 1 .. N + 1 : read[j] = IF j > N THEN {}
                    ELSE IF IsPrefix(p, ks[j]) THEN {ks[j]} \cup read[j + 1] ELSE {}
  <2> HIDE DEF read
  <2> QED
    BY <1>5
<1> HIDE DEF read, R, Is
<1> DEFINE Bad == {d \in 0 .. N : read[N + 1 - d] # R[N + 1 - d]}
<1>7. ASSUME Bad # {} PROVE FALSE
  <2>1. Bad \in SUBSET Nat
    OBVIOUS
  <2> HIDE DEF Bad
  <2>2. PICK d \in Bad : \A c \in Bad : d <= c
    BY <1>7, <2>1, LeastNumber
  <2>3. d \in 0 .. N /\ read[N + 1 - d] # R[N + 1 - d]
    BY DEF Bad
  <2> DEFINE j == N + 1 - d
  <2>4. j \in 1 .. N + 1
    BY <1>2, <2>3
  <2>5. CASE d = 0
    <3>1. j > N
      BY <1>2, <2>5
    <3> QED
      BY <1>3, <1>6, <2>3, <2>4, <3>1
  <2>6. CASE d # 0
    <3>1. d - 1 \in 0 .. N /\ ~ (d <= d - 1) /\ N + 1 - (d - 1) = j + 1
      BY <1>2, <2>3, <2>6
    <3>2. d - 1 \notin Bad
      BY <2>2, <3>1
    <3>3. read[j + 1] = R[j + 1]
      BY <3>1, <3>2 DEF Bad
    <3> QED
      BY <1>3, <1>6, <2>3, <2>4, <3>3
  <2> QED
    BY <2>5, <2>6
<1>8. read[i] = R[i]
  <2>1. N + 1 - i \in 0 .. N /\ N + 1 - (N + 1 - i) = i
    BY <1>2 DEF N
  <2> QED
    BY <1>7, <2>1
<1> QED
  BY <1>1, <1>8 DEF R, N

\* A look-up returns exactly the keys that match, wherever search_near leaves
\* the cursor.
LEMMA NeighborsMatch ==
    ASSUME NEW m \in 1 .. 3, NEW p \in Tuples(m), NEW S \in SUBSET Tuples(4), NEW ks, Sorts(ks, S)
    PROVE  Neighbors(ks, p) = {{key \in S : Matches(key, p)}}
<1> DEFINE Found == {key \in S : Matches(key, p)}
           smaller == {i \in DOMAIN ks : Before(ks[i], p)}
           larger == DOMAIN ks \ smaller
<1>1. /\ ks \in Seq(S) /\ ks \in Seq(Tuples(4)) /\ Len(ks) \in Nat /\ DOMAIN ks = 1 .. Len(ks)
      /\ \A i \in 1 .. Len(ks) : ks[i] \in S /\ ks[i] \in Tuples(4)
  BY SeqMonotonic DEF Sorts
<1>2. \A i, j \in 1 .. Len(ks) : i < j => Before(ks[i], ks[j])
  BY DEF Sorts
<1>3. ASSUME NEW start \in 1 .. Len(ks) + 1,
             \A i \in 1 .. Len(ks) : i < start <=> Before(ks[i], p)
      PROVE  ReadFrom(ks, start, p) = Found
  <2> DEFINE Block == {x \in start .. Len(ks) : \A l \in start .. x : Matches(ks[l], p)}
  <2>1. ReadFrom(ks, start, p) = {ks[k] : k \in Block}
    BY <1>1, ReadsUpToMismatch
  <2>2. ASSUME NEW k \in Block PROVE ks[k] \in Found
    BY <1>1
  <2>3. ASSUME NEW key \in Found PROVE \E k \in Block : ks[k] = key
    <3>1. PICK k \in 1 .. Len(ks) : ks[k] = key
      BY DEF Sorts
    <3>2. Matches(ks[k], p) /\ ks[k] \in Tuples(4)
      BY <1>1, <3>1
    <3>3. ~ Before(ks[k], p)
      <4>1. SUFFICES ASSUME Before(ks[k], p) PROVE FALSE
        OBVIOUS
      <4>2. PICK i \in 1 .. m : ks[k][i] < p[i]
        BY <3>2, <4>1, KeyAndPrefix
      <4>3. Len(p) = m /\ p[i] \in Int
        BY DEF Tuples
      <4> QED
        BY <3>2, <4>2, <4>3 DEF Matches
    <3>4. start <= k
      BY <1>1, <1>3, <3>3
    <3>5. ASSUME NEW l \in start .. k PROVE Matches(ks[l], p)
      <4>1. l \in 1 .. Len(ks) /\ ~ Before(ks[l], p)
        BY <1>1, <1>3, <3>4
      <4>2. CASE l = k
        BY <3>2, <4>2
      <4>3. CASE l < k
        <5>1. Before(ks[l], ks[k]) /\ ks[l] \in Tuples(4)
          BY <1>1, <1>2, <4>1, <4>3
        <5> QED
          BY <3>2, <4>1, <5>1, MatchesAreTogether
      <4> QED
        BY <4>1, <4>2, <4>3
    <3>6. k \in Block
      BY <1>1, <3>4, <3>5
    <3> QED
      BY <3>1, <3>6
  <2> HIDE DEF Block, Found
  <2> QED
    BY <2>1, <2>2, <2>3
<1>4. \A i, j \in 1 .. Len(ks) : i < j /\ Before(ks[j], p) => Before(ks[i], p)
  BY <1>1, <1>2, MatchesAreTogether
<1>5. CASE ks = <<>>
  <2>1. Found = {}
    BY <1>5 DEF Sorts
  <2> QED
    BY <1>5, <2>1 DEF Neighbors
<1>6. CASE ks # <<>>
  <2>0. Len(ks) # 0
    BY <1>1, <1>6
  <2>1. ASSUME smaller # {}
        PROVE  /\ Max(smaller) + 1 \in 1 .. Len(ks) + 1
               /\ \A i \in 1 .. Len(ks) : i < Max(smaller) + 1 <=> Before(ks[i], p)
    <3>1. smaller \in SUBSET Nat /\ \A x \in smaller : x <= Len(ks)
      BY <1>1
    <3>2. Max(smaller) \in smaller /\ \A x \in smaller : x <= Max(smaller)
      <4> HIDE DEF smaller
      <4> QED
        BY <1>1, <2>1, <3>1, GreatestNumber
    <3>3. /\ Max(smaller) \in 1 .. Len(ks) /\ Before(ks[Max(smaller)], p)
          /\ \A i \in 1 .. Len(ks) : Before(ks[i], p) => i <= Max(smaller)
      BY <1>1, <3>2
    <3> HIDE DEF smaller
    <3>4. ASSUME NEW i \in 1 .. Len(ks) PROVE i < Max(smaller) + 1 <=> Before(ks[i], p)
      <4>1. i < Max(smaller) + 1 <=> i < Max(smaller) \/ i = Max(smaller)
        BY <1>1, <3>3
      <4>2. Before(ks[i], p) => i < Max(smaller) + 1
        BY <1>1, <3>3
      <4> QED
        BY <1>4, <3>3, <4>1, <4>2
    <3> QED
      BY <1>1, <3>3, <3>4
  <2>2. ASSUME larger # {}
        PROVE  /\ Min(larger) \in 1 .. Len(ks) + 1
               /\ \A i \in 1 .. Len(ks) : i < Min(larger) <=> Before(ks[i], p)
    <3>1. larger \in SUBSET Nat
      BY <1>1
    <3>2. Min(larger) \in larger /\ \A x \in larger : Min(larger) <= x
      <4> HIDE DEF larger
      <4> QED
        BY <2>2, <3>1, LeastNumber DEF Min
    <3>3. /\ Min(larger) \in 1 .. Len(ks) /\ ~ Before(ks[Min(larger)], p)
          /\ \A i \in 1 .. Len(ks) : ~ Before(ks[i], p) => Min(larger) <= i
      BY <1>1, <3>2
    <3> HIDE DEF larger
    <3>4. ASSUME NEW i \in 1 .. Len(ks) PROVE i < Min(larger) <=> Before(ks[i], p)
      <4>1. i < Min(larger) \/ i = Min(larger) \/ Min(larger) < i
        BY <1>1, <3>3
      <4>2. i < Min(larger) => Before(ks[i], p)
        BY <1>1, <3>3
      <4>3. Min(larger) < i => ~ Before(ks[i], p)
        BY <1>4, <3>3
      <4>4. Min(larger) < i => ~ (i < Min(larger))
        BY <1>1, <3>3
      <4> QED
        BY <3>3, <4>1, <4>2, <4>3, <4>4
    <3> QED
      BY <1>1, <3>3, <3>4
  <2>3. SearchNear(ks, p) = {[pos |-> Max(s), exact |-> -1] : s \in {smaller} \ {{}}}
                              \cup {[pos |-> Min(s), exact |-> 1] : s \in {larger} \ {{}}}
    BY DEF SearchNear
  <2>4. smaller # {} \/ larger # {}
    <3>1. 1 \in DOMAIN ks
      BY <1>1, <2>0
    <3> QED
      BY <3>1
  <2> HIDE DEF smaller, larger, Found
  <2>5. \A near \in SearchNear(ks, p) :
           ReadFrom(ks, IF near.exact < 0 THEN near.pos + 1 ELSE near.pos, p) = Found
    <3> TAKE near \in SearchNear(ks, p)
    <3>1. CASE smaller # {} /\ near = [pos |-> Max(smaller), exact |-> -1]
      <4>1. near.exact < 0 /\ near.pos = Max(smaller)
        BY <3>1
      <4> QED
        BY <1>3, <2>1, <3>1, <4>1
    <3>2. CASE larger # {} /\ near = [pos |-> Min(larger), exact |-> 1]
      <4>1. ~ (near.exact < 0) /\ near.pos = Min(larger)
        BY <3>2
      <4> QED
        BY <1>3, <2>2, <3>2, <4>1
    <3> QED
      BY <2>3, <3>1, <3>2
  <2>6. SearchNear(ks, p) # {}
    BY <2>3, <2>4
  <2>7. Neighbors(ks, p) =
           {ReadFrom(ks, IF near.exact < 0 THEN near.pos + 1 ELSE near.pos, p) :
              near \in SearchNear(ks, p)}
    BY <1>6 DEF Neighbors
  <2>8. Neighbors(ks, p) = {Found}
    BY <2>5, <2>6, <2>7
  <2> QED
    BY <2>8 DEF Found
<1> QED
  BY <1>5, <1>6

-----------------------------------------------------------------------------
(* The look-ups of a query *)

\* The keys of a graph's edges, in both directions.
KeysOf(graph) ==
    UNION {{<<e[1], OUTGOING, e[2], e[3]>>, <<e[3], INCOMING, e[2], e[1]>>} : e \in graph}
Stored == KeysOf(edges)
IsKey(key) ==
    /\ key \in Tuples(4)
    /\ key[1] \in Vertex /\ key[2] \in {OUTGOING, INCOMING} /\ key[3] \in Relation /\ key[4] \in Vertex

\* What never changes while a query runs.
Table == edges \in EdgeSets /\ query \in Queries /\ keys = EdgeTable(edges)

\* A finite set has a finite image.
LEMMA ImageIsFinite ==
    ASSUME NEW S, IsFiniteSet(S), NEW f, f = [x \in S |-> f[x]]
    PROVE  IsFiniteSet({f[x] : x \in S})
<1> DEFINE T == {f[x] : x \in S}
<1>1. f \in [S -> T]
  OBVIOUS
<1>2. f \in Surjection(S, T)
  BY <1>1 DEF Surjection
<1> HIDE DEF T
<1>3. IsFiniteSet(T)
  BY <1>2, FS_Surjection
<1> QED
  BY <1>3 DEF T

\* A graph that may be stored has finitely many keys, of vertices and relations.
LEMMA KeysAreFinite ==
    ASSUME NEW graph \in EdgeSets
    PROVE  IsFiniteSet(KeysOf(graph)) /\ \A key \in KeysOf(graph) : IsKey(key)
<1>1. graph \subseteq Vertex \X Relation \X Vertex
  BY EdgeAssumption
<1>2. IsFiniteSet(graph)
  <2>1. IsFiniteSet(Relation \X Vertex)
    BY VertexAssumption, RelationAssumption, FS_Product
  <2> DEFINE f == [e \in Vertex \X (Relation \X Vertex) |-> <<e[1], e[2][1], e[2][2]>>]
             P == Vertex \X (Relation \X Vertex)
  <2>2. IsFiniteSet(P)
    BY <2>1, VertexAssumption, FS_Product
  <2>3. IsFiniteSet({f[e] : e \in P})
    <3>1. f = [e \in P |-> f[e]]
      OBVIOUS
    <3> HIDE DEF f, P
    <3> QED
      BY <2>2, <3>1, ImageIsFinite
  <2>4. Vertex \X Relation \X Vertex \subseteq {f[e] : e \in P}
    <3> SUFFICES ASSUME NEW e \in Vertex \X Relation \X Vertex
                 PROVE  e \in {f[d] : d \in P}
      OBVIOUS
    <3>1. <<e[1], <<e[2], e[3]>>>> \in P /\ e = <<e[1], e[2], e[3]>>
      OBVIOUS
    <3>2. f[<<e[1], <<e[2], e[3]>>>>] = e
      BY <3>1
    <3> QED
      BY <3>1, <3>2
  <2> HIDE DEF f, P
  <2> QED
    BY <1>1, <2>3, <2>4, FS_Subset
<1>3. IsFiniteSet(KeysOf(graph))
  <2> DEFINE pair(e) == {<<e[1], OUTGOING, e[2], e[3]>>, <<e[3], INCOMING, e[2], e[1]>>}
             f == [e \in graph |-> pair(e)]
             Pairs == {f[e] : e \in graph}
  <2>1. \A e \in graph : IsFiniteSet(pair(e))
    <3> SUFFICES ASSUME NEW e \in graph PROVE IsFiniteSet(pair(e))
      OBVIOUS
    <3>1. IsFiniteSet({<<e[1], OUTGOING, e[2], e[3]>>}) /\ IsFiniteSet({<<e[3], INCOMING, e[2], e[1]>>})
      BY FS_Singleton
    <3>2. pair(e) = {<<e[1], OUTGOING, e[2], e[3]>>} \cup {<<e[3], INCOMING, e[2], e[1]>>}
      OBVIOUS
    <3> HIDE DEF pair
    <3> QED
      BY <3>1, <3>2, FS_Union
  <2>2. KeysOf(graph) = UNION Pairs
    BY DEF KeysOf
  <2> HIDE DEF pair
  <2>3. IsFiniteSet(Pairs)
    <3>1. f = [e \in graph |-> f[e]]
      OBVIOUS
    <3> HIDE DEF f
    <3> QED
      BY <1>2, <3>1, ImageIsFinite
  <2>4. \A s \in Pairs : IsFiniteSet(s)
    BY <2>1
  <2> HIDE DEF Pairs
  <2> QED
    BY <2>2, <2>3, <2>4, FS_UNION
<1>4. ASSUME NEW key \in KeysOf(graph) PROVE IsKey(key)
  <2>1. PICK e \in graph : \/ key = <<e[1], OUTGOING, e[2], e[3]>>
                           \/ key = <<e[3], INCOMING, e[2], e[1]>>
    BY DEF KeysOf
  <2>2. e[1] \in Vertex /\ e[2] \in Relation /\ e[3] \in Vertex
    BY <1>1
  <2>3. \A v \in Vertex : v \in Int
    BY VertexAssumption
  <2>4. \A r \in Relation : r \in Int
    BY RelationAssumption
  <2>5. /\ key = <<key[1], key[2], key[3], key[4]>>
        /\ key[1] \in Vertex /\ key[2] \in {OUTGOING, INCOMING} /\ key[3] \in Relation /\ key[4] \in Vertex
    BY <2>1, <2>2
  <2>6. key[1] \in Int /\ key[2] \in Int /\ key[3] \in Int /\ key[4] \in Int
    BY <2>3, <2>4, <2>5 DEF OUTGOING, INCOMING
  <2>7. <<key[1], key[2], key[3], key[4]>> \in Seq(Int) /\ Len(<<key[1], key[2], key[3], key[4]>>) = 4
    BY <2>6
  <2> QED
    BY <2>5, <2>7, Zenon DEF Tuples, IsKey
<1> QED
  BY <1>3, <1>4

\* A sorted sequence has the elements of its set.
LEMMA SortedElements ==
    ASSUME NEW S, NEW s, Sorts(s, S)
    PROVE  ToSet(s) = S
BY DEF Sorts, ToSet

\* The edge table of a graph sorts its keys.
LEMMA TableSorts ==
    ASSUME NEW graph \in EdgeSets
    PROVE  Sorts(EdgeTable(graph), KeysOf(graph)) /\ ToSet(EdgeTable(graph)) = KeysOf(graph)
<1>1. KeysOf(graph) \in SUBSET Tuples(4) /\ IsFiniteSet(KeysOf(graph))
  BY KeysAreFinite DEF IsKey
<1>2. EdgeTable(graph) = InOrder(KeysOf(graph))
  BY DEF EdgeTable, KeysOf
<1>3. Sorts(EdgeTable(graph), KeysOf(graph))
  <2>1. 4 \in Nat
    OBVIOUS
  <2> QED
    BY <1>1, <1>2, <2>1, InOrderSorts
<1> QED
  BY <1>3, SortedElements

\* The same of the graph that is stored: its keys are finitely many ...
LEMMA StoredIsFinite ==
    ASSUME Table
    PROVE  IsFiniteSet(Stored) /\ \A key \in Stored : IsKey(key)
BY KeysAreFinite DEF Table, Stored

\* ... and the cursor sees them in order.
LEMMA TableIsSorted ==
    ASSUME Table
    PROVE  /\ Sorts(keys, Stored) /\ ToSet(keys) = Stored
           /\ \A key \in ToSet(keys) : IsKey(key)
<1>1. Sorts(keys, Stored) /\ ToSet(keys) = Stored
  BY TableSorts DEF Table, Stored
<1> QED
  BY <1>1, StoredIsFinite

\* The prefix that finds a key, and what a look-up finds.
LookUpOf(key) == IF query.r_labels = <<>> THEN <<key[1], key[2]>> ELSE <<key[1], key[2], key[3]>>
\* The keys that a look-up is to find, and those that some look-up is for.
Found(p) == {key \in ToSet(keys) : LookUpOf(key) = p}
Admitted(key) ==
    /\ key[2] \in ToSet(Directions)
    /\ query.r_labels = <<>> \/ key[3] \in ToSet(query.r_labels)

\* The look-ups of some vertices, and the number of their fields.
LookUpsOf(V) == UNION {LookUps(v) : v \in V}
Width == IF query.r_labels = <<>> THEN 2 ELSE 3

\* The directions of a query are some of the two, for common neighbours both.
LEMMA DirectionsAre ==
    /\ ToSet(Directions) \in SUBSET {OUTGOING, INCOMING}
    /\ IsFiniteSet(ToSet(Directions))
    /\ Common => ToSet(Directions) = {OUTGOING, INCOMING}
<1>1. /\ ToSet(<<OUTGOING>>) = {OUTGOING} /\ ToSet(<<INCOMING>>) = {INCOMING}
      /\ ToSet(<<INCOMING, OUTGOING>>) = {OUTGOING, INCOMING}
      /\ ToSet(<<OUTGOING, INCOMING>>) = {OUTGOING, INCOMING}
      /\ ToSet(<< >>) = {}
  <2>1. \A a : ToSet(<<a>>) = {a}
    <3> TAKE a
    <3>1. DOMAIN <<a>> = {1} /\ <<a>>[1] = a
      OBVIOUS
    <3> QED
      BY <3>1 DEF ToSet
  <2>2. \A a, b : ToSet(<<a, b>>) = {a, b}
    <3> TAKE a, b
    <3>1. DOMAIN <<a, b>> = {1, 2} /\ <<a, b>>[1] = a /\ <<a, b>>[2] = b
      OBVIOUS
    <3> QED
      BY <3>1 DEF ToSet
  <2>3. ToSet(<< >>) = {}
    BY DEF ToSet
  <2>4. ToSet(<<INCOMING, OUTGOING>>) = {INCOMING, OUTGOING}
    BY <2>2
  <2>5. {INCOMING, OUTGOING} = {OUTGOING, INCOMING}
    OBVIOUS
  <2> QED
    BY <2>1, <2>2, <2>3, <2>4, <2>5
<1>2. /\ Common => Directions = <<OUTGOING, INCOMING>>
      /\ Directions \in {<<OUTGOING>>, <<INCOMING>>, <<INCOMING, OUTGOING>>, <<OUTGOING, INCOMING>>, << >>}
  BY DEF Directions
<1>3. ToSet(Directions) \in SUBSET {OUTGOING, INCOMING}
  BY <1>1, <1>2
<1>4. IsFiniteSet({OUTGOING, INCOMING})
  <2>1. IsFiniteSet({OUTGOING}) /\ IsFiniteSet({INCOMING}) /\ {OUTGOING, INCOMING} = {OUTGOING} \cup {INCOMING}
    BY FS_Singleton
  <2> QED
    BY <2>1, FS_Union
<1> QED
  BY <1>1, <1>2, <1>3, <1>4, FS_Subset

\* The list of relations is one of relations, finitely many positions of which
\* ask for a look-up.
LEMMA RelationsAre ==
    ASSUME Table
    PROVE  /\ ToSet(query.r_labels) \in SUBSET Relation
           /\ ToSet(query.r_labels) = {} <=> query.r_labels = <<>>
           /\ \A key : key[3] \in ToSet(query.r_labels) \/ query.r_labels = <<>> <=> Named(key) # {}
           /\ \A key : Named(key) \subseteq 0 .. Len(query.r_labels)
           /\ IsFiniteSet(0 .. Len(query.r_labels))
<1> DEFINE list == query.r_labels
<1>1. /\ list \in Seq(Relation) /\ Len(list) \in Nat /\ DOMAIN list = 1 .. Len(list)
      /\ list = <<>> <=> Len(list) = 0
  BY QueryAssumption DEF Table
<1>2. \A i \in 1 .. Len(list) : list[i] \in Relation
  BY <1>1
<1>3. 0 \in Int /\ Len(list) \in Int
  BY <1>1
<1> HIDE DEF list
<1>4. ToSet(list) \in SUBSET Relation /\ (ToSet(list) = {} <=> list = <<>>)
  <2>1. ToSet(list) = {list[i] : i \in 1 .. Len(list)}
    BY <1>1 DEF ToSet
  <2>2. Len(list) # 0 => 1 \in 1 .. Len(list)
    BY <1>1
  <2>3. Len(list) = 0 => 1 .. Len(list) = {}
    BY <1>1
  <2> QED
    BY <1>1, <1>2, <2>1, <2>2, <2>3
<1>5. \A key : key[3] \in ToSet(list) \/ list = <<>> <=> Named(key) # {}
  BY DEF Named, ToSet, list
<1>6. \A key : Named(key) \subseteq 0 .. Len(list)
  BY <1>1 DEF Named, list
<1>7. IsFiniteSet(0 .. Len(list))
  BY <1>3, FS_Interval
<1> QED
  BY <1>4, <1>5, <1>6, <1>7 DEF list

\* The look-ups of some vertices are tuples of one width, and a key is matched by
\* exactly the one look-up it is for.
LEMMA LookUpsAre ==
    ASSUME Table, NEW V \in SUBSET Vertex
    PROVE  /\ LookUpsOf(V) \in SUBSET Tuples(Width) /\ IsFiniteSet(LookUpsOf(V))
           /\ Width \in 1 .. 3
           /\ \A p \in LookUpsOf(V) : p[1] \in V
           /\ \A p \in LookUpsOf(V), key \in ToSet(keys) : Matches(key, p) <=> LookUpOf(key) = p
           /\ \A key \in ToSet(keys) : LookUpOf(key) \in LookUpsOf(V) <=> key[1] \in V /\ Admitted(key)
           /\ \A key \in ToSet(keys) : LookUpOf(key)[1] = key[1]
<1> DEFINE D == ToSet(Directions)
           R == ToSet(query.r_labels)
<1>1. /\ R \in SUBSET Relation /\ (R = {} <=> query.r_labels = <<>>)
      /\ \A v \in Vertex : v \in Int
      /\ \A r \in Relation : r \in Int
      /\ D \in SUBSET {OUTGOING, INCOMING} /\ IsFiniteSet(D) /\ \A d \in D : d \in Int
  BY RelationsAre, VertexAssumption, RelationAssumption, DirectionsAre DEF OUTGOING, INCOMING
<1>2. IsFiniteSet(V) /\ IsFiniteSet(R)
  BY <1>1, VertexAssumption, RelationAssumption, FS_Subset
<1>3. \A key \in ToSet(keys) : IsKey(key)
  BY TableIsSorted
<1>4. \A key \in ToSet(keys) : LookUpOf(key)[1] = key[1]
  BY DEF LookUpOf
<1> HIDE DEF D, R
<1>5. CASE R = {}
  <2>1. LookUpsOf(V) = V \X D
    BY <1>1, <1>5 DEF LookUpsOf, LookUps, D, R
  <2>2. IsFiniteSet(V \X D)
    BY <1>1, <1>2, FS_Product
  <2>3. Width = 2
    BY <1>1, <1>5 DEF Width, R
  <2>4. ASSUME NEW p \in V \X D PROVE p \in Tuples(2) /\ Len(p) = 2 /\ p[1] \in V /\ p = <<p[1], p[2]>>
    <3>1. p = <<p[1], p[2]>> /\ p[1] \in Int /\ p[2] \in Int
      BY <1>1
    <3>2. <<p[1], p[2]>> \in Seq(Int) /\ Len(<<p[1], p[2]>>) = 2
      BY <3>1
    <3> QED
      BY <3>1, <3>2 DEF Tuples
  <2>5. ASSUME NEW p \in V \X D, NEW key \in ToSet(keys)
        PROVE  Matches(key, p) <=> LookUpOf(key) = p
    <3>1. LookUpOf(key) = <<key[1], key[2]>>
      BY <1>1, <1>5 DEF LookUpOf, R
    <3>2. Matches(key, p) <=> key[1] = p[1] /\ key[2] = p[2]
      <4>1. Len(p) = 2 /\ 1 .. 2 = {1, 2}
        BY <2>4
      <4> QED
        BY <4>1 DEF Matches
    <3> QED
      BY <2>4, <3>1, <3>2
  <2>6. ASSUME NEW key \in ToSet(keys)
        PROVE  LookUpOf(key) \in V \X D <=> key[1] \in V /\ Admitted(key)
    BY <1>1, <1>5 DEF LookUpOf, Admitted, D, R
  <2> QED
    BY <1>4, <2>1, <2>2, <2>3, <2>4, <2>5, <2>6
<1>6. CASE R # {}
  <2>1. LookUpsOf(V) = V \X D \X R
    BY <1>1, <1>6 DEF LookUpsOf, LookUps, D, R
  <2>2. IsFiniteSet(V \X D \X R)
    <3>1. IsFiniteSet(D \X R)
      BY <1>1, <1>2, FS_Product
    <3> DEFINE P == V \X (D \X R)
               f == [e \in P |-> <<e[1], e[2][1], e[2][2]>>]
    <3>2. IsFiniteSet(P)
      BY <3>1, <1>2, FS_Product
    <3>3. V \X D \X R \subseteq {f[e] : e \in P}
      <4> SUFFICES ASSUME NEW e \in V \X D \X R PROVE e \in {f[d] : d \in P}
        OBVIOUS
      <4>1. <<e[1], <<e[2], e[3]>>>> \in P /\ e = <<e[1], e[2], e[3]>>
        OBVIOUS
      <4>2. f[<<e[1], <<e[2], e[3]>>>>] = e
        BY <4>1
      <4> QED
        BY <4>1, <4>2
    <3>4. f = [e \in P |-> f[e]]
      OBVIOUS
    <3> HIDE DEF f, P
    <3>5. IsFiniteSet({f[e] : e \in P})
      BY <3>2, <3>4, ImageIsFinite
    <3> QED
      BY <3>3, <3>5, FS_Subset
  <2>3. Width = 3
    BY <1>1, <1>6 DEF Width, R
  <2>4. ASSUME NEW p \in V \X D \X R
        PROVE  p \in Tuples(3) /\ Len(p) = 3 /\ p[1] \in V /\ p = <<p[1], p[2], p[3]>>
    <3>1. p = <<p[1], p[2], p[3]>> /\ p[1] \in Int /\ p[2] \in Int /\ p[3] \in Int /\ p[1] \in V
      BY <1>1
    <3>2. <<p[1], p[2], p[3]>> \in Seq(Int) /\ Len(<<p[1], p[2], p[3]>>) = 3
      BY <3>1
    <3> QED
      BY <3>1, <3>2 DEF Tuples
  <2>5. ASSUME NEW p \in V \X D \X R, NEW key \in ToSet(keys)
        PROVE  Matches(key, p) <=> LookUpOf(key) = p
    <3>1. LookUpOf(key) = <<key[1], key[2], key[3]>>
      BY <1>1, <1>6 DEF LookUpOf, R
    <3>2. Matches(key, p) <=> key[1] = p[1] /\ key[2] = p[2] /\ key[3] = p[3]
      <4>1. Len(p) = 3 /\ 1 .. 3 = {1, 2, 3}
        BY <2>4
      <4> QED
        BY <4>1 DEF Matches
    <3> QED
      BY <2>4, <3>1, <3>2
  <2>6. ASSUME NEW key \in ToSet(keys)
        PROVE  LookUpOf(key) \in V \X D \X R <=> key[1] \in V /\ Admitted(key)
    BY <1>1, <1>6 DEF LookUpOf, Admitted, D, R
  <2> QED
    BY <1>4, <2>1, <2>2, <2>3, <2>4, <2>5, <2>6
<1> QED
  BY <1>5, <1>6

\* Wherever the cursor is left, a look-up has one result.
LEMMA LookUpFinds ==
    ASSUME Table, NEW p \in LookUpsOf(Vertex)
    PROVE  Neighbors(keys, p) = {Found(p)}
<1>1. /\ Width \in 1 .. 3 /\ p \in Tuples(Width)
      /\ \A key \in ToSet(keys) : Matches(key, p) <=> LookUpOf(key) = p
  BY LookUpsAre
<1>2. Sorts(keys, Stored) /\ ToSet(keys) = Stored /\ Stored \in SUBSET Tuples(4)
  BY TableIsSorted DEF IsKey
<1>3. Neighbors(keys, p) = {{key \in Stored : Matches(key, p)}}
  BY <1>1, <1>2, NeighborsMatch
<1>4. {key \in Stored : Matches(key, p)} = Found(p)
  BY <1>1, <1>2 DEF Found
<1> QED
  BY <1>3, <1>4

\* The look-ups of a level, each once.
LEMMA ScansOfLevel ==
    ASSUME Table, NEW level
    PROVE  /\ Sorts(ScansOf(level), LookUpsOf(Members(level)))
           /\ ToSet(ScansOf(level)) = LookUpsOf(Members(level))
<1>1. Members(level) \in SUBSET Vertex
  BY DEF Members
<1>2. Width \in Nat /\ LookUpsOf(Members(level)) \in SUBSET Tuples(Width) /\ IsFiniteSet(LookUpsOf(Members(level)))
  BY <1>1, LookUpsAre
<1>3. ScansOf(level) = InOrder(LookUpsOf(Members(level)))
  BY DEF ScansOf, LookUpsOf
<1> QED
  BY <1>2, <1>3, InOrderSorts, SortedElements

\* What is left when the first element is taken off.
LEMMA TailSorts ==
    ASSUME NEW n \in Nat, NEW S \in SUBSET Tuples(n), NEW s, Sorts(s, S), s # <<>>
    PROVE  /\ Head(s) \in S
           /\ Sorts(Tail(s), S \ {Head(s)})
<1>1. s \in Seq(S) /\ Len(s) \in Nat /\ Len(s) # 0
  BY DEF Sorts
<1> DEFINE t == Tail(s)
<1>2. /\ Head(s) = s[1] /\ s[1] \in S
      /\ t \in Seq(S) /\ Len(t) = Len(s) - 1 /\ \A i \in 1 .. Len(t) : t[i] = s[i + 1]
  BY <1>1
<1>3. \A i \in 2 .. Len(s) : s[i] # s[1]
  <2> SUFFICES ASSUME NEW i \in 2 .. Len(s), s[i] = s[1] PROVE FALSE
    OBVIOUS
  <2>1. Before(s[1], s[1]) /\ s[1] \in Tuples(n)
    BY <1>1, <1>2 DEF Sorts
  <2>2. Less(s[1], s[1], n)
    BY <2>1, BeforeIsLess
  <2> QED
    BY <2>1, <2>2, LessIsStrict
<1> HIDE DEF t
<1>4. \A i \in 1 .. Len(t) : t[i] \in S \ {Head(s)}
  BY <1>1, <1>2, <1>3
<1>5. t \in Seq(S \ {Head(s)})
  <2>1. t = [i \in 1 .. Len(t) |-> t[i]] /\ Len(t) \in Nat
    BY <1>2
  <2> QED
    BY <1>4, <2>1
<1>6. ASSUME NEW x \in S \ {Head(s)} PROVE \E i \in 1 .. Len(t) : t[i] = x
  <2>1. PICK i \in 1 .. Len(s) : s[i] = x
    BY DEF Sorts
  <2>2. i - 1 \in 1 .. Len(t) /\ (i - 1) + 1 = i
    BY <1>1, <1>2, <2>1
  <2> QED
    BY <1>2, <2>1, <2>2
<1>7. ASSUME NEW i \in 1 .. Len(t), NEW j \in 1 .. Len(t), i < j PROVE Before(t[i], t[j])
  <2>1. i + 1 \in 1 .. Len(s) /\ j + 1 \in 1 .. Len(s) /\ i + 1 < j + 1
    BY <1>1, <1>2, <1>7
  <2> QED
    BY <1>2, <2>1 DEF Sorts
<1> QED
  BY <1>2, <1>5, <1>6, <1>7 DEF Sorts, t

-----------------------------------------------------------------------------
(* Scans are exact *)

\* The look-ups left are look-ups of vertices, each once.
ScansSorted == Sorts(scans, ToSet(scans)) /\ ToSet(scans) \in SUBSET LookUpsOf(Vertex)

\* The look-up that is made next finds its keys, whatever search_near does.
LEMMA ScansFind ==
    ASSUME Table, ScansSorted, scans # <<>>
    PROVE  /\ Head(scans) \in ToSet(scans)
           /\ Head(scans) \in LookUpsOf(Vertex)
           /\ Head(scans)[1] \in Vertex
           /\ Neighbors(keys, Head(scans)) = {Found(Head(scans))}
           /\ Sorts(Tail(scans), ToSet(scans) \ {Head(scans)})
           /\ ToSet(Tail(scans)) = ToSet(scans) \ {Head(scans)}
<1>1. Width \in Nat /\ ToSet(scans) \in SUBSET Tuples(Width)
  BY LookUpsAre DEF ScansSorted
<1>2. Head(scans) \in ToSet(scans) /\ Sorts(Tail(scans), ToSet(scans) \ {Head(scans)})
  BY <1>1, TailSorts DEF ScansSorted
<1>3. Head(scans) \in LookUpsOf(Vertex) /\ Head(scans)[1] \in Vertex
  BY <1>2, LookUpsAre DEF ScansSorted
<1> QED
  BY <1>2, <1>3, LookUpFinds, SortedElements

\* So it returns exactly the keys with its prefix.
LEMMA ScansExact ==
    ASSUME Table, ScansSorted
    PROVE  ScanIsExact
<1> SUFFICES ASSUME scans # <<>>
             PROVE  Neighbors(keys, Head(scans))
                      = {{key \in ToSet(keys) : SubSeq(key, 1, Len(Head(scans))) = Head(scans)}}
  BY DEF ScanIsExact
<1> DEFINE p == Head(scans)
<1>1. Neighbors(keys, p) = {Found(p)} /\ p \in LookUpsOf(Vertex)
  BY ScansFind
<1>2. /\ Width \in 1 .. 3 /\ p \in Tuples(Width)
      /\ \A key \in ToSet(keys) : Matches(key, p) <=> LookUpOf(key) = p
  BY <1>1, LookUpsAre
<1> HIDE DEF p
<1>3. ASSUME NEW key \in ToSet(keys) PROVE SubSeq(key, 1, Len(p)) = p <=> Matches(key, p)
  BY <1>2, TableIsSorted, KeyAndPrefix DEF IsKey
<1> QED
  BY <1>1, <1>2, <1>3 DEF Found, p

-----------------------------------------------------------------------------
(* Walks and balls *)

\* The ends of the edges that begin in a set.
Ends(follow, X) == {key[4] : key \in {k \in follow : k[1] \in X}}

\* What n edges lead to from a set of starts, what at most n do, and what n edges
\* and no fewer do; the walks with one edge more than those of W.
Reach(follow, from, n) == UNION {{End(v, w) : w \in Walks(follow, v, n)} : v \in from}
Near(follow, from, n) == UNION {Reach(follow, from, i) : i \in 0 .. n}
Ring(follow, from, n) ==
    Near(follow, from, n) \ (IF n = 0 THEN {} ELSE Near(follow, from, n - 1))

Longer(follow, v, W) ==
    UNION {{Append(w, key) : key \in {k \in follow : k[1] = End(v, w)}} : w \in W}

\* The last element of what was appended to.
LEMMA AppendLast ==
    ASSUME NEW follow, NEW w \in Seq(follow), NEW key \in follow
    PROVE  Append(w, key) # <<>> /\ Last(Append(w, key)) = key
<1>1. Append(w, key) \in Seq(follow) /\ Len(Append(w, key)) = Len(w) + 1 /\ Len(w) \in Nat
  OBVIOUS
<1>2. Append(w, key)[Len(w) + 1] = key
  OBVIOUS
<1> QED
  BY <1>1, <1>2 DEF Last

\* A walk ends where its last edge does.
LEMMA EndOfWalk ==
    ASSUME NEW follow, NEW v, NEW w \in Seq(follow), NEW key \in follow
    PROVE  End(v, Append(w, key)) = key[4]
BY AppendLast DEF End

\* A walk of n + 1 edges is one of n edges and an edge more.
LEMMA WalkSteps ==
    ASSUME NEW follow, NEW v
    PROVE  /\ Walks(follow, v, 0) = {<<>>}
           /\ \A n \in Nat : /\ Walks(follow, v, n) \in SUBSET Seq(follow)
                             /\ Walks(follow, v, n + 1) = Longer(follow, v, Walks(follow, v, n))
<1> DEFINE Is(g) == g = [i \in Nat |-> IF i = 0 THEN {<<>>} ELSE Longer(follow, v, g[i - 1])]
           walks == CHOOSE g : Is(g)
           S == SUBSET Seq(follow)
           step == [W \in S |-> Longer(follow, v, W)]
<1>1. ASSUME NEW n \in Nat PROVE Walks(follow, v, n) = walks[n]
  BY DEF Walks, Longer
<1>2. {<<>>} \in S
  OBVIOUS
<1>3. step \in [S -> S]
  <2> SUFFICES ASSUME NEW W \in S PROVE Longer(follow, v, W) \in S
    OBVIOUS
  <2>1. ASSUME NEW w \in W, NEW key \in follow PROVE Append(w, key) \in Seq(follow)
    OBVIOUS
  <2> QED
    BY <2>1 DEF Longer
<1> HIDE DEF S
<1>4. PICK f : f \in [Nat -> S] /\ f[0] = {<<>>} /\ \A n \in Nat : f[n + 1] = step[f[n]]
  <2> HIDE DEF step
  <2>1. \E f : Repeats(f, S, {<<>>}, step)
    BY <1>2, <1>3, Repeated
  <2> QED
    BY <2>1 DEF Repeats
<1>5. Is(f)
  <2>1. ASSUME NEW i \in Nat
        PROVE  f[i] = IF i = 0 THEN {<<>>} ELSE Longer(follow, v, f[i - 1])
    <3>1. CASE i = 0
      BY <1>4, <3>1
    <3>2. CASE i # 0
      <4>1. i - 1 \in Nat /\ (i - 1) + 1 = i
        BY <3>2
      <4>2. f[(i - 1) + 1] = step[f[i - 1]] /\ f[i - 1] \in S
        BY <1>4, <4>1
      <4> QED
        BY <3>2, <4>1, <4>2
    <3> QED
      BY <3>1, <3>2
  <2>2. f = [i \in Nat |-> f[i]]
    BY <1>4
  <2> QED
    BY <2>1, <2>2
<1>6. Is(walks)
  <2> HIDE DEF Is
  <2> QED
    BY <1>5
<1> HIDE DEF walks
<1>7. walks[0] = {<<>>} /\ \A n \in Nat : walks[n + 1] = Longer(follow, v, walks[n])
  <2>1. \A i \in Nat : walks[i] = IF i = 0 THEN {<<>>} ELSE Longer(follow, v, walks[i - 1])
    BY <1>6
  <2>2. \A n \in Nat : n + 1 \in Nat /\ n + 1 # 0 /\ (n + 1) - 1 = n
    OBVIOUS
  <2> HIDE DEF Is
  <2> QED
    BY <2>1, <2>2
<1> HIDE DEF Is
<1> DEFINE Bad == {n \in Nat : walks[n] \notin S}
<1>8. ASSUME Bad # {} PROVE FALSE
  <2>1. Bad \in SUBSET Nat
    OBVIOUS
  <2> HIDE DEF Bad
  <2>2. PICK n \in Bad : \A m \in Bad : n <= m
    BY <1>8, <2>1, LeastNumber
  <2>3. n \in Nat /\ walks[n] \notin S
    BY DEF Bad
  <2>4. n # 0
    BY <1>2, <1>7, <2>3
  <2>5. n - 1 \in Nat /\ ~ (n <= n - 1) /\ (n - 1) + 1 = n
    BY <2>3, <2>4
  <2>6. walks[n - 1] \in S
    BY <2>2, <2>5 DEF Bad
  <2>7. walks[n] = step[walks[n - 1]]
    BY <1>7, <2>5, <2>6
  <2> HIDE DEF step
  <2> QED
    BY <1>3, <2>3, <2>6, <2>7
<1>9. \A n \in Nat : walks[n] \in S
  BY <1>8
<1> QED
  BY <1>1, <1>7, <1>9, SMTT(30) DEF S

\* The ends of the longer walks are the ends of the edges at those of the shorter.
LEMMA ReachSteps ==
    ASSUME NEW follow, NEW from
    PROVE  /\ Reach(follow, from, 0) = from
           /\ \A n \in Nat : Reach(follow, from, n + 1) = Ends(follow, Reach(follow, from, n))
<1>1. Reach(follow, from, 0) = from
  <2>1. \A v \in from : {End(v, w) : w \in Walks(follow, v, 0)} = {v}
    BY WalkSteps DEF End
  <2> QED
    BY <2>1 DEF Reach
<1>2. ASSUME NEW n \in Nat
      PROVE  Reach(follow, from, n + 1) = Ends(follow, Reach(follow, from, n))
  <2>1. ASSUME NEW x \in Reach(follow, from, n + 1) PROVE x \in Ends(follow, Reach(follow, from, n))
    <3>1. PICK v \in from : \E u \in Walks(follow, v, n + 1) : x = End(v, u)
      BY DEF Reach
    <3>2. PICK u \in Longer(follow, v, Walks(follow, v, n)) : x = End(v, u)
      BY <3>1, WalkSteps
    <3>3. PICK w \in Walks(follow, v, n), key \in follow : key[1] = End(v, w) /\ u = Append(w, key)
      BY <3>2 DEF Longer
    <3>6. w \in Seq(follow)
      BY <3>3, WalkSteps
    <3>7. End(v, Append(w, key)) = key[4]
      BY <3>6, EndOfWalk, Zenon
    <3>4. x = key[4]
      BY <3>2, <3>3, <3>7
    <3>5. key[1] \in Reach(follow, from, n)
      BY <3>3 DEF Reach
    <3> QED
      BY <3>4, <3>5 DEF Ends
  <2>2. ASSUME NEW x \in Ends(follow, Reach(follow, from, n)) PROVE x \in Reach(follow, from, n + 1)
    <3>1. PICK key \in follow : key[1] \in Reach(follow, from, n) /\ x = key[4]
      BY DEF Ends
    <3>2. PICK v \in from : \E w \in Walks(follow, v, n) : key[1] = End(v, w)
      BY <3>1 DEF Reach
    <3>5. PICK w \in Walks(follow, v, n) : key[1] = End(v, w)
      BY <3>2
    <3>6. w \in Seq(follow) /\ Walks(follow, v, n + 1) = Longer(follow, v, Walks(follow, v, n))
      BY <3>5, WalkSteps
    <3>3. Append(w, key) \in Walks(follow, v, n + 1)
      <4> DEFINE more(u) == {Append(u, e) : e \in {k \in follow : k[1] = End(v, u)}}
      <4>1. Append(w, key) \in more(w)
        BY <3>1, <3>5
      <4>2. Walks(follow, v, n + 1) = UNION {more(u) : u \in Walks(follow, v, n)}
        BY <3>6 DEF Longer
      <4> HIDE DEF more
      <4> QED
        BY <4>1, <4>2
    <3>4. End(v, Append(w, key)) = key[4]
      BY <3>6, EndOfWalk, Zenon
    <3> QED
      BY <3>1, <3>3, <3>4 DEF Reach
  <2> QED
    BY <2>1, <2>2
<1> QED
  BY <1>1, <1>2

\* A ball grows by the ends of the edges at its outermost ring.
LEMMA NearSteps ==
    ASSUME NEW follow, NEW from
    PROVE  /\ Near(follow, from, 0) = from
           /\ \A n \in Nat :
                 /\ Near(follow, from, n) \subseteq Near(follow, from, n + 1)
                 /\ Near(follow, from, n + 1) = Near(follow, from, n) \cup Reach(follow, from, n + 1)
                 /\ Ends(follow, Near(follow, from, n)) \subseteq Near(follow, from, n + 1)
                 /\ Near(follow, from, n + 1)
                      = Near(follow, from, n) \cup Ends(follow, Ring(follow, from, n))
<1> DEFINE N(n) == Near(follow, from, n)
           R(n) == Reach(follow, from, n)
<1>1. N(0) = from
  <2>1. 0 .. 0 = {0}
    OBVIOUS
  <2>2. N(0) = R(0)
    BY <2>1 DEF Near
  <2> QED
    BY <2>2, ReachSteps
<1>2. ASSUME NEW n \in Nat PROVE N(n + 1) = N(n) \cup R(n + 1)
  <2>1. 0 .. n + 1 = (0 .. n) \cup {n + 1}
    OBVIOUS
  <2> QED
    BY <2>1 DEF Near
<1>3. ASSUME NEW n \in Nat PROVE Ends(follow, N(n)) \subseteq N(n + 1)
  <2> SUFFICES ASSUME NEW key \in follow, key[1] \in N(n) PROVE key[4] \in N(n + 1)
    BY DEF Ends
  <2>1. PICK i \in 0 .. n : key[1] \in R(i)
    BY DEF Near
  <2>2. key[4] \in R(i + 1)
    BY <2>1, ReachSteps DEF Ends
  <2>3. i + 1 \in 0 .. n + 1
    OBVIOUS
  <2> QED
    BY <2>2, <2>3 DEF Near
<1>4. ASSUME NEW n \in Nat PROVE R(n + 1) \subseteq N(n) \cup Ends(follow, Ring(follow, from, n))
  <2> SUFFICES ASSUME NEW key \in follow, key[1] \in R(n), key[4] \notin N(n)
               PROVE  key[1] \in Ring(follow, from, n)
    <3>1. R(n + 1) = Ends(follow, R(n))
      BY ReachSteps
    <3> QED
      BY <3>1 DEF Ends
  <2>1. key[1] \in N(n)
    <3>1. n \in 0 .. n
      OBVIOUS
    <3> QED
      BY <3>1 DEF Near
  <2>2. CASE n = 0
    BY <2>1, <2>2 DEF Ring
  <2>3. CASE n # 0
    <3>1. n - 1 \in Nat /\ (n - 1) + 1 = n
      BY <2>3
    <3>2. key[1] \notin N(n - 1)
      BY <1>3, <3>1 DEF Ends
    <3> QED
      BY <2>1, <2>3, <3>2 DEF Ring
  <2> QED
    BY <2>2, <2>3
<1>5. ASSUME NEW n \in Nat PROVE Ends(follow, Ring(follow, from, n)) \subseteq N(n + 1)
  <2>1. Ends(follow, Ring(follow, from, n)) \subseteq Ends(follow, N(n))
    BY DEF Ends, Ring
  <2> QED
    BY <1>3, <2>1
<1> HIDE DEF N, R
<1>6. \A n \in Nat : N(n + 1) = N(n) \cup Ends(follow, Ring(follow, from, n))
  BY <1>2, <1>4, <1>5
<1> QED
  BY <1>1, <1>2, <1>3, <1>6 DEF N, R

\* Once a ball has not grown it never does again.
LEMMA NearStays ==
    ASSUME NEW follow, NEW from, NEW n \in Nat, NEW k \in Nat, n < k,
           Near(follow, from, n + 1) = Near(follow, from, n)
    PROVE  Near(follow, from, k) = Near(follow, from, n)
<1> DEFINE N(i) == Near(follow, from, i)
           Bad == {i \in Nat : n <= i /\ N(i) # N(n)}
<1>1. ASSUME Bad # {} PROVE FALSE
  <2>1. Bad \in SUBSET Nat
    OBVIOUS
  <2> HIDE DEF Bad
  <2>2. PICK m \in Bad : \A i \in Bad : m <= i
    BY <1>1, <2>1, LeastNumber
  <2>3. m \in Nat /\ n <= m /\ N(m) # N(n)
    BY DEF Bad
  <2>4. m # n
    BY <2>3
  <2> DEFINE p == m - 1
  <2>5. p \in Nat /\ n <= p /\ p + 1 = m /\ ~ (m <= p)
    BY <2>3, <2>4
  <2>6. N(p) = N(n)
    BY <2>2, <2>5 DEF Bad
  <2> HIDE DEF p
  <2>7. N(p + 1) = N(p) \cup Ends(follow, Ring(follow, from, p))
    BY <2>5, NearSteps
  <2>8. Ends(follow, Ring(follow, from, p)) \subseteq Ends(follow, N(n))
    BY <2>6 DEF Ends, Ring
  <2>9. Ends(follow, N(n)) \subseteq N(n)
    BY NearSteps
  <2> QED
    BY <2>3, <2>5, <2>6, <2>7, <2>8, <2>9
<1> QED
  BY <1>1

\* A set that holds the starts and is not left by any edge holds the ball.
LEMMA NearWithin ==
    ASSUME NEW follow, NEW from, NEW S, from \subseteq S, \A key \in follow : key[4] \in S
    PROVE  \A n \in Nat : Near(follow, from, n) \subseteq S /\ Reach(follow, from, n) \subseteq S
<1>1. ASSUME NEW n \in Nat PROVE Reach(follow, from, n) \subseteq S
  <2>1. CASE n = 0
    BY <2>1, ReachSteps
  <2>2. CASE n # 0
    <3>1. n - 1 \in Nat /\ (n - 1) + 1 = n
      BY <2>2
    <3>2. Reach(follow, from, (n - 1) + 1) = Ends(follow, Reach(follow, from, n - 1))
      BY <3>1, ReachSteps
    <3> QED
      BY <3>1, <3>2 DEF Ends
  <2> QED
    BY <2>1, <2>2
<1>2. ASSUME NEW n \in Nat PROVE Near(follow, from, n) \subseteq S
  BY <1>1 DEF Near
<1> QED
  BY <1>1, <1>2

-----------------------------------------------------------------------------
(* The levels of a query *)

\* The ends of some edges.
EndsOf(K) == {key[4] : key \in K}

\* The edges of the level that the look-ups made so far have found.
Gone == {key \in Followed : key[1] \in Members(vids) /\ LookUpOf(key) \notin ToSet(scans)}

\* Where a query of levels is.
Levels ==
    /\ hop \in Nat
    /\ at = "called" => hop = 0 /\ visited = {} /\ next_vids = None
    /\ at = "level" /\ ~ Common => hop < query.k /\ ToSet(scans) \in SUBSET LookUpsOf(Members(vids))
    /\ at = "answer" /\ ~ Common => 0 < hop /\ hop <= query.k /\ (KHop \/ hop = query.k)

\* A bag with each vertex once.
LEMMA OnceMembers ==
    ASSUME NEW S
    PROVE  /\ Members(Once(S)) = S \cap Vertex
           /\ S \subseteq Vertex => Members(Once(S)) = S
           /\ Members(None) = {} /\ Once({}) = None
           /\ Once(S) \in [Vertex -> Nat] /\ None \in [Vertex -> Nat]
BY DEF Members, Once, None

\* What depends on the query and on the table only stays as it is.
LEMMA QueryStays ==
    ASSUME Table, query' = query, keys' = keys, edges' = edges
    PROVE  /\ Table'
           /\ KHop' = KHop /\ Adj' = Adj /\ Common' = Common /\ Distinct' = Distinct
           /\ Followed' = Followed /\ Starts' = Starts
           /\ LookUpsOf(Vertex)' = LookUpsOf(Vertex)
           /\ LookUpsOf(Members(vids))' = LookUpsOf(Members(vids'))
<1>1. KHop' = KHop /\ Adj' = Adj /\ Common' = Common /\ Distinct' = Distinct
  BY DEF KHop, Adj, Common, Distinct
<1>2. Directions' = Directions
  BY <1>1 DEF Directions, Common
<1>3. \A v : LookUps(v)' = LookUps(v)
  BY <1>2 DEF LookUps
<1>4. LookUpsOf(Vertex)' = LookUpsOf(Vertex)
  BY <1>3 DEF LookUpsOf
<1>5. LookUpsOf(Members(vids))' = LookUpsOf(Members(vids'))
  BY <1>2 DEF LookUpsOf, LookUps
<1>6. Followed' = Followed
  BY <1>2 DEF Followed, Allowed, Each, Named
<1>7. Starts' = Starts
  BY <1>1 DEF Starts, Allowed
<1>8. Table'
  BY DEF Table
<1> QED
  BY <1>1, <1>4, <1>5, <1>6, <1>7, <1>8

\* Appending to a sequence leaves its members as they are.
LEMMA AppendKeeps ==
    ASSUME NEW S, NEW s \in Seq(S), NEW i, NEW j \in 1 .. Len(s)
    PROVE  Append(s, i)[j] = s[j]
OBVIOUS

\* A key with the position of the list it is found for has its fields.
LEMMA PositionAdds ==
    ASSUME Table, NEW key \in ToSet(keys), NEW i
    PROVE  /\ Append(key, i)[1] = key[1] /\ Append(key, i)[4] = key[4]
           /\ LookUpOf(Append(key, i)) = LookUpOf(key)
<1>1. key \in Seq(Int) /\ Len(key) = 4
  BY TableIsSorted DEF IsKey, Tuples
<1> DEFINE longer == Append(key, i)
<1>2. \A j \in 1 .. Len(key) : longer[j] = key[j]
  BY ONLY <1>1, AppendKeeps
<1> HIDE DEF longer
<1>3. longer[1] = key[1] /\ longer[2] = key[2] /\ longer[3] = key[3] /\ longer[4] = key[4]
  BY ONLY <1>1, <1>2
<1>4. LookUpOf(longer) = LookUpOf(key)
  BY ONLY <1>3 DEF LookUpOf
<1> QED
  BY <1>3, <1>4 DEF longer

\* There are finitely many keys with positions.
LEMMA PositionsAreFinite ==
    ASSUME Table, NEW S,
           \A e \in S : \E key \in ToSet(keys) : \E i \in 0 .. Len(query.r_labels) : e = Append(key, i)
    PROVE  IsFiniteSet(S)
<1> DEFINE P == ToSet(keys) \X (0 .. Len(query.r_labels))
           f == [e \in P |-> Append(e[1], e[2])]
<1>1. IsFiniteSet(P)
  BY TableIsSorted, StoredIsFinite, RelationsAre, FS_Product
<1>2. \A key \in ToSet(keys) : \A i \in 0 .. Len(query.r_labels) :
         <<key, i>> \in P /\ f[<<key, i>>] = Append(key, i)
  OBVIOUS
<1>3. f = [e \in P |-> f[e]]
  OBVIOUS
<1> HIDE DEF f, P
<1>4. IsFiniteSet({f[e] : e \in P})
  BY <1>1, <1>3, ImageIsFinite
<1>5. S \in SUBSET {f[e] : e \in P}
  BY <1>2
<1> QED
  BY <1>4, <1>5, FS_Subset

\* Look-ups with one prefix find a key for every position, with the same fields.
LEMMA EachHas ==
    ASSUME Table, NEW p, NEW found \in SUBSET ToSet(keys)
    PROVE  /\ \A e \in Each(found, p) : \E key \in found : \E i \in Named(p) :
                 /\ e = Append(key, i)
                 /\ e[1] = key[1] /\ e[4] = key[4] /\ LookUpOf(e) = LookUpOf(key)
           /\ \A key \in found : \A i \in Named(p) :
                 /\ Append(key, i) \in Each(found, p)
                 /\ Append(key, i)[4] = key[4]
           /\ IsFiniteSet(Each(found, p))
<1>1. ASSUME NEW e \in Each(found, p)
      PROVE  \E key \in found : \E i \in Named(p) :
                 /\ e = Append(key, i)
                 /\ e[1] = key[1] /\ e[4] = key[4] /\ LookUpOf(e) = LookUpOf(key)
  <2>1. PICK key \in found, i \in Named(p) : e = Append(key, i)
    BY DEF Each
  <2>2. Append(key, i)[1] = key[1] /\ Append(key, i)[4] = key[4] /\ LookUpOf(Append(key, i)) = LookUpOf(key)
    BY PositionAdds
  <2> QED
    BY <2>1, <2>2
<1>2. ASSUME NEW key \in found, NEW i \in Named(p)
      PROVE  Append(key, i) \in Each(found, p) /\ Append(key, i)[4] = key[4]
  <2>1. Append(key, i) \in Each(found, p)
    BY DEF Each
  <2>2. key \in ToSet(keys)
    OBVIOUS
  <2> QED
    BY <2>1, <2>2, PositionAdds
<1>3. IsFiniteSet(Each(found, p))
  <2>1. \A e \in Each(found, p) :
           \E key \in ToSet(keys) : \E i \in 0 .. Len(query.r_labels) : e = Append(key, i)
    BY <1>1, RelationsAre
  <2> QED
    BY <2>1, PositionsAreFinite
<1> QED
  BY <1>1, <1>2, <1>3

\* The edges a query may follow are stored ones, for each position that asks for
\* them, finitely many.
LEMMA FollowedAre ==
    ASSUME Table
    PROVE  /\ \A key \in ToSet(keys) : \A i \in Named(key) :
                 Admitted(key) /\ Allowed(key[4]) => Append(key, i) \in Followed
           /\ \A e \in Followed : \E key \in ToSet(keys) : \E i \in Named(key) :
                 /\ e = Append(key, i) /\ Admitted(key) /\ Allowed(key[4])
                 /\ e[1] = key[1] /\ e[4] = key[4] /\ LookUpOf(e) = LookUpOf(key)
           /\ \A e \in Followed : e[4] \in Vertex /\ e[1] \in Vertex
           /\ IsFiniteSet(Followed)
<1> DEFINE Fit == {k \in ToSet(keys) : k[2] \in ToSet(Directions) /\ Allowed(k[4])}
<1>0. Followed = UNION {Each({key}, key) : key \in Fit}
  BY DEF Followed
<1>1. ASSUME NEW key \in ToSet(keys), NEW i \in Named(key), Admitted(key), Allowed(key[4])
      PROVE  Append(key, i) \in Followed
  <2>1. key \in Fit
    BY <1>1 DEF Admitted
  <2>2. {key} \in SUBSET ToSet(keys) /\ key \in {key}
    OBVIOUS
  <2>3. Append(key, i) \in Each({key}, key)
    BY <2>2, EachHas
  <2> HIDE DEF Fit
  <2> QED
    BY <1>0, <2>1, <2>3
<1>2. ASSUME NEW e \in Followed
      PROVE  \E key \in ToSet(keys) : \E i \in Named(key) :
                /\ e = Append(key, i) /\ Admitted(key) /\ Allowed(key[4])
                /\ e[1] = key[1] /\ e[4] = key[4] /\ LookUpOf(e) = LookUpOf(key)
  <2>1. PICK key \in Fit : e \in Each({key}, key)
    BY <1>0
  <2>2. {key} \in SUBSET ToSet(keys)
    OBVIOUS
  <2>3. PICK i \in Named(key) : /\ e = Append(key, i)
                                /\ e[1] = key[1] /\ e[4] = key[4] /\ LookUpOf(e) = LookUpOf(key)
    <3> HIDE DEF Fit
    <3> QED
      BY <2>1, <2>2, EachHas
  <2>4. Admitted(key)
    BY <2>3, RelationsAre DEF Admitted
  <2> QED
    BY <2>3, <2>4
<1> HIDE DEF Fit
<1>3. \A key \in ToSet(keys) : key[1] \in Vertex /\ key[4] \in Vertex
  BY TableIsSorted DEF IsKey
<1>4. \A e \in Followed : e[4] \in Vertex /\ e[1] \in Vertex
  BY <1>2, <1>3
<1>5. IsFiniteSet(Followed)
  <2>1. \A e \in Followed :
           \E key \in ToSet(keys) : \E i \in 0 .. Len(query.r_labels) : e = Append(key, i)
    BY <1>2, RelationsAre
  <2> QED
    BY <2>1, PositionsAreFinite
<1> QED
  BY <1>1, <1>2, <1>4, <1>5

\* A level begins with all of its look-ups.
LEMMA LevelBegins ==
    ASSUME Table, query' = query, keys' = keys, edges' = edges, scans' = ScansOf(vids')
    PROVE  /\ ScansSorted'
           /\ (ToSet(scans) \in SUBSET LookUpsOf(Members(vids)))'
           /\ Gone' = {}
<1>1. /\ Sorts(scans', LookUpsOf(Members(vids')))
      /\ ToSet(scans') = LookUpsOf(Members(vids'))
  BY ScansOfLevel
<1>2. Members(vids') \in SUBSET Vertex
  BY DEF Members
<1>3. LookUpsOf(Members(vids')) \in SUBSET LookUpsOf(Vertex)
  BY <1>2 DEF LookUpsOf
<1>4. ScansSorted'
  BY <1>1, <1>3, QueryStays DEF ScansSorted
<1>5. ASSUME NEW key \in Followed, key[1] \in Members(vids')
      PROVE  LookUpOf(key) \in ToSet(scans')
  <2>1. PICK stored \in ToSet(keys) :
           Admitted(stored) /\ stored[1] = key[1] /\ LookUpOf(stored) = LookUpOf(key)
    BY FollowedAre
  <2> QED
    BY <1>1, <1>2, <1>5, <2>1, LookUpsAre
<1>6. Gone' = {key \in Followed : key[1] \in Members(vids') /\ LookUpOf(key) \notin ToSet(scans')}
  BY QueryStays DEF Gone, LookUpOf
<1> QED
  BY <1>1, <1>4, <1>5, <1>6, QueryStays

\* A look-up takes one from those of the level.
LEMMA LevelShrinks ==
    ASSUME Table, ScansSorted, scans # <<>>, ToSet(scans) \in SUBSET LookUpsOf(Members(vids)),
           query' = query, keys' = keys, edges' = edges, vids' = vids, scans' = Tail(scans)
    PROVE  /\ ScansSorted'
           /\ (ToSet(scans) \in SUBSET LookUpsOf(Members(vids)))'
           /\ ToSet(scans') = ToSet(scans) \ {Head(scans)}
<1>1. /\ Sorts(Tail(scans), ToSet(scans) \ {Head(scans)})
      /\ ToSet(Tail(scans)) = ToSet(scans) \ {Head(scans)}
  BY ScansFind
<1>2. ScansSorted'
  BY <1>1, QueryStays DEF ScansSorted
<1>3. LookUpsOf(Members(vids))' = LookUpsOf(Members(vids))
  BY QueryStays
<1> QED
  BY <1>1, <1>2, <1>3

\* A look-up adds what it finds.
LEMMA LevelGoesOn ==
    ASSUME Table, ScansSorted, scans # <<>>, ToSet(scans) \in SUBSET LookUpsOf(Members(vids)),
           query' = query, keys' = keys, edges' = edges, vids' = vids, scans' = Tail(scans),
           NEW found \in Neighbors(keys, Head(scans))
    PROVE  /\ ScansSorted'
           /\ (ToSet(scans) \in SUBSET LookUpsOf(Members(vids)))'
           /\ Head(scans)[1] \in Members(vids)
           /\ LET new == {key \in Each(found, Head(scans)) : Allowed(key[4])}
              IN  /\ new \in SUBSET Followed
                  /\ Gone' = Gone \cup new /\ Gone \cap new = {}
                  /\ \A key \in new : key[1] = Head(scans)[1]
                  /\ EndsOf(new) = EndsOf({key \in found : Allowed(key[4])})
<1> DEFINE p == Head(scans)
           new == {key \in Each(found, p) : Allowed(key[4])}
<1>1. /\ p \in ToSet(scans) /\ found = Found(p)
      /\ Sorts(Tail(scans), ToSet(scans) \ {p}) /\ ToSet(Tail(scans)) = ToSet(scans) \ {p}
  BY ScansFind
<1>2. ScansSorted'
  BY <1>1, QueryStays DEF ScansSorted
<1>3. (ToSet(scans) \in SUBSET LookUpsOf(Members(vids)))'
  BY <1>1, QueryStays
<1>4. Members(vids) \in SUBSET Vertex
  BY DEF Members
<1>5. p \in LookUpsOf(Members(vids))
  BY <1>1
<1> HIDE DEF p
<1>6. p[1] \in Members(vids)
  BY <1>4, <1>5, LookUpsAre
<1>7. /\ \A key \in found : /\ key \in ToSet(keys) /\ LookUpOf(key) = p
                            /\ Admitted(key) /\ key[1] = p[1] /\ Named(key) = Named(p)
      /\ Named(p) # {} \/ found = {}
  <2>1. ASSUME NEW key \in found
        PROVE  /\ key \in ToSet(keys) /\ LookUpOf(key) = p
               /\ Admitted(key) /\ key[1] = p[1] /\ Named(key) = Named(p)
    <3>1. key \in ToSet(keys) /\ LookUpOf(key) = p
      BY <1>1 DEF Found
    <3>2. Admitted(key) /\ key[1] = p[1]
      BY <1>4, <1>5, <3>1, LookUpsAre
    <3>3. query.r_labels # <<>> => p[3] = key[3]
      BY <3>1 DEF LookUpOf
    <3>4. Named(key) = Named(p)
      BY <3>3 DEF Named
    <3> QED
      BY <3>1, <3>2, <3>4
  <2>2. \A key \in found : Named(key) # {}
    BY <2>1, RelationsAre DEF Admitted
  <2> QED
    BY <2>1, <2>2
<1> found \in SUBSET ToSet(keys)
  BY <1>7
<1>8. ASSUME NEW key \in new
      PROVE  /\ key \in Followed /\ LookUpOf(key) = p /\ key[1] = p[1]
             /\ key[4] \in EndsOf({k \in found : Allowed(k[4])})
  <2>1. PICK stored \in found : \E i \in Named(p) :
           /\ key = Append(stored, i)
           /\ key[1] = stored[1] /\ key[4] = stored[4] /\ LookUpOf(key) = LookUpOf(stored)
    BY EachHas
  <2>2. /\ stored \in ToSet(keys) /\ Admitted(stored) /\ Named(stored) = Named(p)
        /\ LookUpOf(stored) = p /\ stored[1] = p[1]
    BY <1>7
  <2>3. Allowed(stored[4])
    BY <2>1
  <2>4. key \in Followed
    BY <2>1, <2>2, <2>3, FollowedAre
  <2> QED
    BY <2>1, <2>2, <2>3, <2>4 DEF EndsOf
<1>9. ASSUME NEW key \in Followed, LookUpOf(key) = p PROVE key \in new
  <2>1. PICK stored \in ToSet(keys) : \E i \in Named(stored) :
           /\ key = Append(stored, i) /\ Admitted(stored) /\ Allowed(stored[4])
           /\ key[4] = stored[4] /\ LookUpOf(key) = LookUpOf(stored)
    BY FollowedAre
  <2>2. stored \in found /\ Named(stored) = Named(p)
    BY <1>1, <1>7, <1>9, <2>1 DEF Found
  <2>3. key \in Each(found, p)
    BY <2>1, <2>2, EachHas
  <2> QED
    BY <2>1, <2>3
<1>10. ASSUME NEW key \in found, Allowed(key[4]) PROVE key[4] \in EndsOf(new)
  <2>1. PICK i \in Named(p) : TRUE
    BY <1>7
  <2>2. Append(key, i) \in Each(found, p) /\ Append(key, i)[4] = key[4]
    BY EachHas
  <2> QED
    BY <1>10, <2>2 DEF EndsOf
<1> HIDE DEF new
<1> DEFINE allowed == {key \in found : Allowed(key[4])}
<1>11. EndsOf(new) = EndsOf(allowed)
  <2>1. \A key \in new : key[4] \in EndsOf(allowed)
    BY <1>8
  <2>2. \A key \in allowed : key[4] \in EndsOf(new)
    BY <1>10
  <2> HIDE DEF allowed
  <2>3. \A v \in EndsOf(new) : v \in EndsOf(allowed)
    BY <2>1 DEF EndsOf
  <2>4. \A v \in EndsOf(allowed) : v \in EndsOf(new)
    BY <2>2 DEF EndsOf
  <2> QED
    BY <2>3, <2>4
<1>12. Gone' = {key \in Followed : key[1] \in Members(vids) /\ LookUpOf(key) \notin ToSet(scans) \ {p}}
  BY <1>1, QueryStays DEF Gone, LookUpOf
<1>13. Gone' = Gone \cup new /\ Gone \cap new = {}
  BY <1>1, <1>6, <1>8, <1>9, <1>12 DEF Gone
<1>14. new \in SUBSET Followed /\ \A key \in new : key[1] = p[1]
  BY <1>8
<1> QED
  BY <1>2, <1>3, <1>6, <1>13, <1>14, <1>11 DEF p, new

\* A level ends when every edge from its vertices has been found.
LEMMA LevelEnds ==
    ASSUME scans = <<>>
    PROVE  /\ Gone = {key \in Followed : key[1] \in Members(vids)}
           /\ EndsOf(Gone) = Ends(Followed, Members(vids))
BY DEF Gone, ToSet, EndsOf, Ends

-----------------------------------------------------------------------------
(* The k-hop query goes out ring by ring *)

\* The ball and the ring around the starts.
NearStarts(n) == Near(Followed, Members(Starts), n)
RingOfStarts(n) == Ring(Followed, Members(Starts), n)

\* The level is the ring; visited is the ball, and what the level has found so far.
KHopInv == KHop =>
    /\ at = "level" =>
          /\ vids = Once(RingOfStarts(hop))
          /\ visited = NearStarts(hop) \cup EndsOf(Gone)
          /\ next_vids = Once(EndsOf(Gone) \ NearStarts(hop))
    /\ at = "answer" =>
          /\ vids = Once(RingOfStarts(hop))
          /\ visited = NearStarts(hop)
          /\ hop = query.k \/ NearStarts(hop) = NearStarts(hop - 1)
    /\ at = "done" => \/ hop = 0
                      \/ 0 < query.k /\ count = Cardinality(NearStarts(query.k))

\* Walks end at vertices.
LEMMA NearIsVertices ==
    ASSUME Table
    PROVE  \A n \in Nat : NearStarts(n) \subseteq Vertex /\ Reach(Followed, Members(Starts), n) \subseteq Vertex
<1>1. Members(Starts) \subseteq Vertex
  BY DEF Members
<1>2. \A key \in Followed : key[4] \in Vertex
  BY FollowedAre
<1> QED
  BY <1>1, <1>2, NearWithin DEF NearStarts

\* The first level is the ring of radius 0 ...
LEMMA KHopBegins ==
    ASSUME Table, Levels, Begin
    PROVE  KHopInv'
<1> SUFFICES ASSUME KHop PROVE KHopInv'
  BY QueryStays DEF Begin, KHopInv
<1>1. /\ query' = query /\ keys' = keys /\ edges' = edges /\ hop' = 0 /\ at' = "level"
      /\ vids' = Starts /\ visited' = Members(Starts) /\ next_vids' = None /\ scans' = ScansOf(vids')
  BY DEF Begin, Levels
<1>2. Gone' = {}
  BY <1>1, LevelBegins
<1>3. EndsOf(Gone)' = {}
  BY <1>2 DEF EndsOf
<1>4. Near(Followed, Members(Starts), 0) = Members(Starts)
  BY NearSteps
<1>5. Ring(Followed, Members(Starts), 0) = Members(Starts)
  BY <1>4 DEF Ring
<1>6. Starts = Once(Members(Starts))
  <2>1. Starts = Once({v \in ToSet(query.vertex_id_list) : Allowed(v)})
    BY DEF Starts, KHop, Distinct
  <2> QED
    BY <2>1 DEF Once, Members
<1>7. (NearStarts(hop))' = Members(Starts) /\ (RingOfStarts(hop))' = Members(Starts)
  BY <1>1, <1>4, <1>5, QueryStays DEF NearStarts, RingOfStarts
<1>8. Once({}) = None
  BY OnceMembers
<1> QED
  BY <1>1, <1>3, <1>6, <1>7, <1>8 DEF KHopInv

\* ... a look-up adds what it finds ...
LEMMA KHopScans ==
    ASSUME Table, ScansSorted, Levels, KHopInv, KHopScan
    PROVE  KHopInv'
<1>1. /\ query' = query /\ keys' = keys /\ edges' = edges /\ hop' = hop /\ at' = "level" /\ at = "level"
      /\ vids' = vids /\ scans # <<>> /\ scans' = Tail(scans) /\ KHop
  BY DEF KHopScan
<1>2. PICK found \in Neighbors(keys, Head(scans)) :
         LET new == EndsOf({k \in found : Allowed(k[4])}) \ visited
         IN  /\ visited' = visited \cup new
             /\ next_vids' = Once(Members(next_vids) \cup new)
  BY DEF KHopScan, EndsOf
<1>3. ~ Common
  BY <1>1 DEF KHop, Common
<1>4. ToSet(scans) \in SUBSET LookUpsOf(Members(vids))
  BY <1>1, <1>3 DEF Levels
<1> DEFINE keysNew == {key \in Each(found, Head(scans)) : Allowed(key[4])}
           endsNew == EndsOf({k \in found : Allowed(k[4])})
           near == NearStarts(hop)
<1>5. keysNew \in SUBSET Followed /\ Gone' = Gone \cup keysNew /\ EndsOf(keysNew) = endsNew
  BY <1>1, <1>4, LevelGoesOn
<1>6. visited = near \cup EndsOf(Gone) /\ next_vids = Once(EndsOf(Gone) \ near) /\ vids = Once(RingOfStarts(hop))
  BY <1>1 DEF KHopInv
<1>7. EndsOf(Gone)' = EndsOf(Gone) \cup EndsOf(keysNew)
  BY <1>5 DEF EndsOf
<1>8. EndsOf(Gone) \subseteq Vertex
  BY FollowedAre DEF Gone, EndsOf
<1> HIDE DEF keysNew, endsNew, near
<1>9. Members(next_vids) = EndsOf(Gone) \ near
  <2>1. EndsOf(Gone) \ near \subseteq Vertex
    BY <1>8
  <2> QED
    BY <1>6, <2>1, OnceMembers
<1>10. near' = near /\ (RingOfStarts(hop))' = RingOfStarts(hop)
  BY <1>1, QueryStays DEF near, NearStarts, RingOfStarts
<1>11. visited' = near \cup EndsOf(Gone)'
  BY <1>2, <1>5, <1>6, <1>7 DEF endsNew
<1>12. next_vids' = Once(EndsOf(Gone)' \ near)
  <2>1. Members(next_vids) \cup (endsNew \ visited) = EndsOf(Gone)' \ near
    BY <1>5, <1>6, <1>7, <1>9
  <2> QED
    BY <1>2, <2>1 DEF endsNew
<1> QED
  BY <1>1, <1>6, <1>10, <1>11, <1>12 DEF KHopInv, near

\* ... a finished level has found the next ring, and if that is empty the ball
\* does not grow any more ...
LEMMA KHopNextLevel ==
    ASSUME Table, ScansSorted, Levels, KHopInv, NextLevel
    PROVE  KHopInv'
<1> SUFFICES ASSUME KHop PROVE KHopInv'
  BY QueryStays DEF NextLevel, KHopInv
<1>1. /\ query' = query /\ keys' = keys /\ edges' = edges /\ hop' = hop + 1 /\ at = "level"
      /\ scans = <<>> /\ vids' = next_vids /\ next_vids' = None /\ visited' = visited
      /\ \/ /\ LastLevel \/ Members(next_vids) = {}
            /\ at' = "answer"
         \/ /\ ~ LastLevel /\ Members(next_vids) # {}
            /\ at' = "level" /\ scans' = ScansOf(vids')
  BY DEF NextLevel
<1>2. hop \in Nat /\ query.k \in Int
  BY QueryAssumption DEF Levels, Table
<1> DEFINE near == NearStarts(hop)
           nearer == NearStarts(hop + 1)
<1>3. vids = Once(RingOfStarts(hop)) /\ visited = near \cup EndsOf(Gone) /\ next_vids = Once(EndsOf(Gone) \ near)
  BY <1>1 DEF KHopInv
<1>4. near \subseteq Vertex /\ nearer \subseteq Vertex
  BY <1>2, NearIsVertices
<1>5. Members(vids) = RingOfStarts(hop)
  <2>1. RingOfStarts(hop) \subseteq Vertex
    BY <1>4 DEF RingOfStarts, NearStarts, Ring
  <2> QED
    BY <1>3, <2>1, OnceMembers
<1>6. nearer = near \cup EndsOf(Gone)
  <2>1. EndsOf(Gone) = Ends(Followed, RingOfStarts(hop))
    BY <1>1, <1>5, LevelEnds
  <2>2. Near(Followed, Members(Starts), hop + 1)
          = Near(Followed, Members(Starts), hop) \cup Ends(Followed, Ring(Followed, Members(Starts), hop))
    BY <1>2, NearSteps
  <2> QED
    BY <2>1, <2>2 DEF NearStarts, RingOfStarts
<1>7. RingOfStarts(hop + 1) = nearer \ near
  <2>1. hop + 1 # 0 /\ (hop + 1) - 1 = hop
    BY <1>2
  <2> QED
    BY <2>1 DEF RingOfStarts, NearStarts, Ring
<1>8. EndsOf(Gone) \ near = RingOfStarts(hop + 1)
  BY <1>6, <1>7
<1>9. /\ (NearStarts(hop))' = nearer /\ (RingOfStarts(hop))' = RingOfStarts(hop + 1)
      /\ (NearStarts(hop - 1))' = near
  <2>1. (hop + 1) - 1 = hop
    BY <1>2
  <2> QED
    BY <1>1, <2>1, QueryStays DEF NearStarts, RingOfStarts
<1>10. vids' = Once(RingOfStarts(hop + 1)) /\ visited' = nearer
  BY <1>1, <1>3, <1>6, <1>8
<1>11. CASE at' = "answer"
  <2>1. CASE LastLevel
    <3>1. hop' = query'.k
      BY <1>1, <2>1 DEF LastLevel
    <3> QED
      BY <1>9, <1>10, <1>11, <3>1 DEF KHopInv
  <2>2. CASE Members(next_vids) = {}
    <3>1. RingOfStarts(hop + 1) \subseteq Vertex
      BY <1>4, <1>7
    <3>2. RingOfStarts(hop + 1) = {}
      BY <1>3, <1>8, <2>2, <3>1, OnceMembers
    <3>3. nearer = near
      BY <1>6, <1>7, <3>2
    <3> QED
      BY <1>9, <1>10, <1>11, <3>3 DEF KHopInv
  <2> QED
    BY <1>1, <1>11, <2>1, <2>2
<1>12. CASE at' = "level"
  <2>1. Gone' = {}
    BY <1>1, <1>12, LevelBegins
  <2>2. EndsOf(Gone)' = {}
    BY <2>1 DEF EndsOf
  <2>3. Once({}) = None /\ {} \ nearer = {}
    BY OnceMembers
  <2> QED
    BY <1>1, <1>9, <1>10, <1>12, <2>2, <2>3 DEF KHopInv
<1> QED
  BY <1>1, <1>11, <1>12

\* ... so that the ball of radius k is counted in any case.
LEMMA KHopAnswers ==
    ASSUME Table, Levels, KHopInv, Answer
    PROVE  KHopInv'
<1> SUFFICES ASSUME KHop PROVE KHopInv'
  BY QueryStays DEF Answer, KHopInv
<1>1. /\ query' = query /\ keys' = keys /\ edges' = edges /\ at = "answer" /\ at' = "done"
      /\ count' = Cardinality(visited) /\ ~ Common
  BY DEF Answer
<1>2. /\ visited = NearStarts(hop)
      /\ hop = query.k \/ NearStarts(hop) = NearStarts(hop - 1)
  BY <1>1 DEF KHopInv
<1>3. hop \in Nat /\ 0 < hop /\ hop <= query.k /\ query.k \in Int
  BY <1>1, QueryAssumption DEF Levels, Table
<1>4. NearStarts(hop) = NearStarts(query.k)
  <2>1. CASE hop = query.k
    BY <2>1
  <2>2. CASE hop # query.k
    <3>1. hop - 1 \in Nat /\ query.k \in Nat /\ hop - 1 < query.k /\ (hop - 1) + 1 = hop
      BY <1>3
    <3>2. NearStarts(hop) = NearStarts(hop - 1)
      BY <1>2, <2>2
    <3>3. Near(Followed, Members(Starts), (hop - 1) + 1) = Near(Followed, Members(Starts), hop - 1)
      BY <3>1, <3>2 DEF NearStarts
    <3>4. Near(Followed, Members(Starts), query.k) = Near(Followed, Members(Starts), hop - 1)
      BY <3>1, <3>3, NearStays
    <3> QED
      BY <3>2, <3>4 DEF NearStarts
  <2> QED
    BY <2>1, <2>2
<1>5. (NearStarts(query.k))' = NearStarts(query.k)
  BY <1>1, QueryStays DEF NearStarts
<1> QED
  BY <1>1, <1>2, <1>3, <1>4, <1>5 DEF KHopInv

\* The invariant says where the level and visited lie ...
LEMMA KHopFrontier ==
    ASSUME Table, Levels, KHopInv
    PROVE  FrontierIsDistance
<1> SUFFICES ASSUME KHop, at \in {"level", "answer"}
             PROVE  /\ Ball(hop) \subseteq visited
                    /\ visited \subseteq Ball(hop + 1)
                    /\ vids = Once(Ball(hop) \ (IF hop = 0 THEN {} ELSE Ball(hop - 1)))
  BY DEF FrontierIsDistance
<1>1. hop \in Nat /\ \A n : Ball(n) = NearStarts(n)
  BY DEF Levels, Ball, Reached, WalksFrom, NearStarts, Near, Reach
<1>2. /\ vids = Once(RingOfStarts(hop))
      /\ visited = NearStarts(hop) \/ visited = NearStarts(hop) \cup EndsOf(Gone)
  BY DEF KHopInv
<1>3. /\ NearStarts(hop) \subseteq NearStarts(hop + 1)
      /\ Ends(Followed, NearStarts(hop)) \subseteq NearStarts(hop + 1)
  BY <1>1, NearSteps DEF NearStarts
<1>4. EndsOf(Gone) \subseteq Ends(Followed, NearStarts(hop))
  <2>1. Members(vids) \subseteq NearStarts(hop)
    BY <1>2, OnceMembers DEF RingOfStarts, NearStarts, Ring
  <2> QED
    BY <2>1 DEF EndsOf, Gone, Ends
<1> QED
  BY <1>1, <1>2, <1>3, <1>4 DEF RingOfStarts, NearStarts, Ring

\* ... and what the answer is.
LEMMA KHopCounts ==
    ASSUME Table, Levels, KHopInv
    PROVE  KHopCountsNeighbors
<1> DEFINE starts == {v \in Vertex : Asked(v)}
<1> SUFFICES ASSUME KHop, at = "done", hop > 0
             PROVE  count - Cardinality(starts) = Cardinality(Within \ starts)
  BY DEF KHopCountsNeighbors
<1>1. count = Cardinality(NearStarts(query.k)) /\ query.k \in Int /\ 0 < query.k
  BY QueryAssumption DEF KHopInv, Levels, Table
<1>2. Members(Starts) = starts
  <2>1. Starts = Once({v \in ToSet(query.vertex_id_list) : Allowed(v)})
    BY DEF Starts, KHop, Distinct
  <2> QED
    BY <2>1, OnceMembers DEF Asked
<1>3. ASSUME NEW x \in NearStarts(query.k) PROVE x \in Within
  <2>1. PICK n \in 0 .. query.k : x \in Reach(Followed, Members(Starts), n)
    BY DEF NearStarts, Near
  <2>2. x \in Vertex
    BY <1>1, <2>1, NearIsVertices
  <2>3. PICK v \in Members(Starts) : \E w \in Walks(Followed, v, n) : End(v, w) = x
    BY <2>1 DEF Reach
  <2> QED
    BY <1>2, <2>2, <2>3 DEF WalksFrom, Within
<1>4. ASSUME NEW x \in Within PROVE x \in NearStarts(query.k)
  <2>1. PICK v \in Members(Starts), n \in 0 .. query.k : \E w \in WalksFrom(v, n) : End(v, w) = x
    BY <1>2 DEF Within
  <2>2. x \in Reach(Followed, Members(Starts), n)
    BY <2>1 DEF Reach, WalksFrom
  <2> QED
    BY <2>2 DEF NearStarts, Near
<1>5. Within = NearStarts(query.k)
  BY <1>3, <1>4
<1>6. starts \subseteq Within
  <2>1. Reach(Followed, Members(Starts), 0) = Members(Starts) /\ 0 \in 0 .. query.k
    BY <1>1, ReachSteps
  <2> QED
    BY <1>2, <1>5, <2>1 DEF NearStarts, Near
<1>7. IsFiniteSet(Within)
  BY VertexAssumption, FS_Subset DEF Within
<1> HIDE DEF starts
<1>8. Cardinality(Within \ starts) = Cardinality(Within) - Cardinality(Within \cap starts)
  BY <1>7, FS_Difference
<1>9. Within \cap starts = starts /\ IsFiniteSet(starts)
  BY <1>6, <1>7, FS_Subset
<1>10. Cardinality(Within) \in Nat /\ Cardinality(starts) \in Nat
  BY <1>7, <1>9, FS_CardinalityType
<1> QED
  BY <1>1, <1>5, <1>8, <1>9, <1>10

-----------------------------------------------------------------------------
(* The common neighbours are collected vertex by vertex *)

\* The stored keys of the admitted relations, those from a vertex, and their ends.
JoinedKeys == {key \in ToSet(keys) : Admitted(key)}
From(K, v) == {key \in K : key[1] = v}
JoinedTo(v) == EndsOf(From(JoinedKeys, v))

\* The sets of the vertices gone past are complete, that of the vertex at hand has
\* what its look-ups so far have found.
CommonInv == Common =>
    LET list == query.vertex_id_list
        n == Len(neighbor_sets)
    IN  /\ at = "called" => count = 0
        /\ at \in {"level", "answer"} =>
              /\ neighbor_sets \in Seq(SUBSET Vertex) /\ 0 < n /\ n <= Len(list) /\ 1 < Len(list)
              /\ \A i \in 1 .. n - 1 : neighbor_sets[i] = EndsOf(From(JoinedKeys, list[i]))
        /\ at = "level" =>
              /\ \A p \in ToSet(scans) : p[1] = list[n]
              /\ neighbor_sets[n] = EndsOf({key \in From(JoinedKeys, list[n]) : LookUpOf(key) \notin ToSet(scans)})
        /\ at = "answer" =>
              n = Len(list) /\ neighbor_sets[n] = EndsOf(From(JoinedKeys, list[n]))
        /\ at = "done" =>
              count = IF Len(list) <= 1 THEN 0
                      ELSE Cardinality({x \in Vertex : \A v \in ToSet(list) : x \in EndsOf(From(JoinedKeys, v))})

\* No step changes them.
LEMMA JoinedStay ==
    ASSUME Table, query' = query, keys' = keys, edges' = edges
    PROVE  JoinedKeys' = JoinedKeys /\ Common' = Common
<1>1. Directions' = Directions
  BY DEF Directions, Common
<1> QED
  BY <1>1, QueryStays DEF JoinedKeys, Admitted

\* They are finite sets of vertices.
LEMMA JoinedAre ==
    ASSUME Table
    PROVE  \A v : JoinedTo(v) \subseteq Vertex /\ IsFiniteSet(JoinedTo(v))
<1>1. \A v : JoinedTo(v) \in SUBSET Vertex
  BY TableIsSorted DEF JoinedTo, EndsOf, From, JoinedKeys, IsKey
<1> QED
  BY <1>1, VertexAssumption, FS_Subset

\* Every vertex of the list begins with all of its look-ups.
LEMMA VertexBegins ==
    ASSUME Table, query' = query, keys' = keys, edges' = edges,
           NEW v \in Vertex, scans' = ScansOf(Once({v}))
    PROVE  /\ ScansSorted'
           /\ \A p \in ToSet(scans') : p[1] = v
           /\ \A key \in From(JoinedKeys, v) : LookUpOf(key) \in ToSet(scans')
<1>1. Members(Once({v})) = {v}
  BY OnceMembers
<1>2. Sorts(scans', LookUpsOf({v})) /\ ToSet(scans') = LookUpsOf({v})
  BY <1>1, ScansOfLevel
<1>3. LookUpsOf({v}) \in SUBSET LookUpsOf(Vertex)
  BY DEF LookUpsOf
<1>4. {v} \in SUBSET Vertex
  OBVIOUS
<1>5. /\ \A p \in LookUpsOf({v}) : p[1] \in {v}
      /\ \A key \in ToSet(keys) : LookUpOf(key) \in LookUpsOf({v}) <=> key[1] \in {v} /\ Admitted(key)
  BY <1>4, LookUpsAre
<1> QED
  BY <1>2, <1>3, <1>5, QueryStays DEF ScansSorted, From, JoinedKeys

\* The list is begun ...
LEMMA CommonBegins ==
    ASSUME Table, CommonInv, BeginCommon
    PROVE  ScansSorted' /\ CommonInv'
<1> DEFINE list == query.vertex_id_list
<1>1. /\ query' = query /\ keys' = keys /\ edges' = edges /\ at' = "level" /\ Common
      /\ Len(list) > 1 /\ scans' = ScansOf(Once({Head(list)})) /\ neighbor_sets' = <<{}>>
  BY DEF BeginCommon
<1>2. list \in Seq(Vertex)
  BY QueryAssumption DEF Table
<1>3. Head(list) = list[1] /\ list[1] \in Vertex /\ Len(list) \in Nat
  BY <1>1, <1>2
<1>4. /\ ScansSorted'
      /\ \A p \in ToSet(scans') : p[1] = list[1]
      /\ \A key \in From(JoinedKeys, list[1]) : LookUpOf(key) \in ToSet(scans')
  BY <1>1, <1>3, VertexBegins
<1>5. {key \in From(JoinedKeys, list[1]) : LookUpOf(key) \notin ToSet(scans')} = {}
  BY <1>4
<1>6. EndsOf({key \in From(JoinedKeys, list[1]) : LookUpOf(key) \notin ToSet(scans')}) = {}
  BY <1>5 DEF EndsOf
<1>7. neighbor_sets' \in Seq(SUBSET Vertex) /\ Len(neighbor_sets') = 1 /\ neighbor_sets'[1] = {}
  BY <1>1
<1>8. (EndsOf({key \in From(JoinedKeys, query.vertex_id_list[Len(neighbor_sets)]) : LookUpOf(key) \notin ToSet(scans)}))' = {}
  BY <1>1, <1>6, <1>7, JoinedStay DEF LookUpOf
<1>9. \A i \in 1 .. 1 - 1 : FALSE
  OBVIOUS
<1>10. Len(list) >= 1 /\ list' = list
  BY <1>1, <1>3
<1>11. \A i \in 1 .. Len(neighbor_sets') - 1 : FALSE
  BY <1>7, <1>9
<1> HIDE DEF list
<1>12. /\ (\A i \in 1 .. Len(neighbor_sets) - 1 : neighbor_sets[i] = EndsOf(From(JoinedKeys, query.vertex_id_list[i])))'
       /\ (\A p \in ToSet(scans) : p[1] = query.vertex_id_list[Len(neighbor_sets)])'
       /\ (neighbor_sets[Len(neighbor_sets)])' = {}
  BY <1>1, <1>4, <1>7, <1>11 DEF list
<1>13. /\ (0 < Len(neighbor_sets) /\ Len(neighbor_sets) <= Len(query.vertex_id_list))'
       /\ (1 < Len(query.vertex_id_list))' /\ at' = "level"
  BY <1>1, <1>3, <1>7, <1>10 DEF list
<1> QED
  BY <1>4, <1>7, <1>8, <1>12, <1>13 DEF CommonInv

\* ... a look-up adds what it finds ...
LEMMA CommonScans ==
    ASSUME Table, ScansSorted, CommonInv, CommonScan
    PROVE  ScansSorted' /\ CommonInv'
<1> DEFINE list == query.vertex_id_list
           n == Len(neighbor_sets)
           p == Head(scans)
           left == {key \in From(JoinedKeys, list[n]) : LookUpOf(key) \notin ToSet(scans)}
           leftNow == {key \in From(JoinedKeys, list[n]) : LookUpOf(key) \notin ToSet(scans')}
<1>1. /\ query' = query /\ keys' = keys /\ edges' = edges /\ at = "level" /\ at' = "level" /\ Common
      /\ scans # <<>> /\ scans' = Tail(scans)
  BY DEF CommonScan
<1>2. PICK found \in Neighbors(keys, p) :
         neighbor_sets' = [neighbor_sets EXCEPT ![n] = @ \cup EndsOf(found)]
  BY DEF CommonScan, EndsOf
<1>3. /\ p \in ToSet(scans) /\ found = Found(p) /\ p \in LookUpsOf(Vertex)
      /\ Sorts(scans', ToSet(scans) \ {p}) /\ ToSet(scans') = ToSet(scans) \ {p}
  BY <1>1, ScansFind
<1>4. ScansSorted'
  BY <1>1, <1>3, QueryStays DEF ScansSorted
<1>5. /\ neighbor_sets \in Seq(SUBSET Vertex) /\ 0 < n /\ n <= Len(list) /\ 1 < Len(list)
      /\ \A i \in 1 .. n - 1 : neighbor_sets[i] = EndsOf(From(JoinedKeys, list[i]))
      /\ \A q \in ToSet(scans) : q[1] = list[n]
      /\ neighbor_sets[n] = EndsOf(left)
  BY <1>1 DEF CommonInv
<1> HIDE DEF p
<1>6. leftNow = left \cup found
  <2>1. ASSUME NEW key \in found PROVE key \in From(JoinedKeys, list[n]) /\ LookUpOf(key) = p
    <3>1. key \in ToSet(keys) /\ LookUpOf(key) = p
      BY <1>3 DEF Found
    <3>2. Vertex \in SUBSET Vertex
      OBVIOUS
    <3>3. Admitted(key) /\ key[1] = p[1]
      BY <1>3, <3>1, <3>2, LookUpsAre
    <3> QED
      BY <1>3, <1>5, <3>1, <3>3 DEF From, JoinedKeys
  <2>2. ASSUME NEW key \in From(JoinedKeys, list[n]), LookUpOf(key) = p PROVE key \in found
    BY <1>3, <2>2 DEF From, JoinedKeys, Found
  <2> QED
    BY <1>3, <2>1, <2>2
<1> HIDE DEF left, leftNow
<1>7. EndsOf(leftNow) = EndsOf(left) \cup EndsOf(found)
  BY <1>6 DEF EndsOf
<1>8. EndsOf(found) \subseteq Vertex
  BY <1>3, TableIsSorted DEF EndsOf, Found, IsKey
<1>9. n \in Nat /\ n \in 1 .. n
  BY <1>5
<1> HIDE DEF n
<1>10. /\ neighbor_sets' \in Seq(SUBSET Vertex) /\ Len(neighbor_sets') = n
       /\ neighbor_sets'[n] = EndsOf(leftNow)
       /\ \A i \in 1 .. n - 1 : neighbor_sets'[i] = neighbor_sets[i]
  <2>1. neighbor_sets[n] \cup EndsOf(found) \in SUBSET Vertex
    BY <1>5, <1>8, <1>9 DEF n
  <2>2. DOMAIN neighbor_sets = 1 .. n
    BY <1>5 DEF n
  <2>3. neighbor_sets'[n] = EndsOf(leftNow)
    BY <1>2, <1>5, <1>7, <1>9, <2>2
  <2>4. \A i \in 1 .. n - 1 : neighbor_sets'[i] = neighbor_sets[i]
    BY <1>2, <1>9, <2>2
  <2>5. neighbor_sets' = [i \in 1 .. n |-> IF i = n THEN neighbor_sets[n] \cup EndsOf(found) ELSE neighbor_sets[i]]
    BY <1>2, <2>2
  <2>6. \A i \in 1 .. n : neighbor_sets[i] \in SUBSET Vertex
    BY <1>5 DEF n
  <2>7. neighbor_sets' \in Seq(SUBSET Vertex) /\ Len(neighbor_sets') = n
    <3>1. \A i \in 1 .. n : (IF i = n THEN neighbor_sets[n] \cup EndsOf(found) ELSE neighbor_sets[i]) \in SUBSET Vertex
      BY <2>1, <2>6
    <3> QED
      BY <1>9, <2>5, <3>1
  <2> QED
    BY <2>3, <2>4, <2>7
<1>11. EndsOf(leftNow) = (EndsOf({key \in From(JoinedKeys, query.vertex_id_list[Len(neighbor_sets)]) : LookUpOf(key) \notin ToSet(scans)}))'
  BY <1>1, <1>10, JoinedStay DEF leftNow, LookUpOf
<1> QED
  BY <1>1, <1>3, <1>4, <1>5, <1>10, <1>11, JoinedStay DEF CommonInv, n

\* ... a vertex without look-ups is complete ...
LEMMA CommonNextVertex ==
    ASSUME Table, ScansSorted, CommonInv, NextVertex
    PROVE  ScansSorted' /\ CommonInv'
<1> DEFINE list == query.vertex_id_list
           n == Len(neighbor_sets)
<1>1. /\ query' = query /\ keys' = keys /\ edges' = edges /\ at = "level" /\ Common /\ scans = <<>>
      /\ count' = count
  BY DEF NextVertex
<1>2. /\ neighbor_sets \in Seq(SUBSET Vertex) /\ 0 < n /\ n <= Len(list) /\ 1 < Len(list)
      /\ \A i \in 1 .. n - 1 : neighbor_sets[i] = EndsOf(From(JoinedKeys, list[i]))
      /\ neighbor_sets[n] = EndsOf({key \in From(JoinedKeys, list[n]) : LookUpOf(key) \notin ToSet(scans)})
  BY <1>1 DEF CommonInv
<1>3. neighbor_sets[n] = EndsOf(From(JoinedKeys, list[n]))
  <2>1. ToSet(scans) = {}
    BY <1>1 DEF ToSet
  <2>2. {key \in From(JoinedKeys, list[n]) : LookUpOf(key) \notin ToSet(scans)} = From(JoinedKeys, list[n])
    BY <2>1
  <2> QED
    BY <1>2, <2>2
<1>4. list \in Seq(Vertex) /\ Len(list) \in Nat /\ n \in Nat
  BY <1>2, QueryAssumption DEF Table
<1>5. \A i \in 1 .. n : neighbor_sets[i] = EndsOf(From(JoinedKeys, list[i]))
  <2> SUFFICES ASSUME NEW i \in 1 .. n PROVE neighbor_sets[i] = EndsOf(From(JoinedKeys, list[i]))
    OBVIOUS
  <2>1. i = n \/ i \in 1 .. n - 1
    BY <1>4
  <2> QED
    BY <1>2, <1>3, <2>1
<1>6. CASE n < Len(list)
  <2>1. /\ scans' = ScansOf(Once({list[n + 1]}))
        /\ neighbor_sets' = Append(neighbor_sets, {}) /\ at' = "level"
    BY <1>1, <1>6 DEF NextVertex
  <2>2. list[n + 1] \in Vertex
    BY <1>4, <1>6
  <2>3. /\ ScansSorted'
        /\ \A p \in ToSet(scans') : p[1] = list[n + 1]
        /\ \A key \in From(JoinedKeys, list[n + 1]) : LookUpOf(key) \in ToSet(scans')
    BY <1>1, <2>1, <2>2, VertexBegins
  <2>4. /\ neighbor_sets' \in Seq(SUBSET Vertex) /\ Len(neighbor_sets') = n + 1
        /\ neighbor_sets'[n + 1] = {}
        /\ \A i \in 1 .. n : neighbor_sets'[i] = neighbor_sets[i]
    BY <1>2, <2>1
  <2>5. {key \in From(JoinedKeys, list[n + 1]) : LookUpOf(key) \notin ToSet(scans')} = {}
    BY <2>3
  <2>6. EndsOf({key \in From(JoinedKeys, list[n + 1]) : LookUpOf(key) \notin ToSet(scans')}) = {}
    BY <2>5 DEF EndsOf
  <2>7. (n + 1) - 1 = n /\ 0 < n + 1 /\ n + 1 <= Len(list)
    BY <1>4, <1>6
  <2> HIDE DEF n
  <2> QED
    BY <1>1, <1>2, <1>5, <2>1, <2>3, <2>4, <2>6, <2>7, JoinedStay DEF CommonInv, LookUpOf
<1>7. CASE ~ (n < Len(list))
  <2>1. scans' = scans /\ neighbor_sets' = neighbor_sets /\ at' = "answer"
    BY <1>1, <1>7 DEF NextVertex
  <2>2. n = Len(list)
    BY <1>2, <1>4, <1>7
  <2>3. ScansSorted'
    BY <1>1, <2>1, QueryStays DEF ScansSorted
  <2> HIDE DEF n
  <2> QED
    BY <1>1, <1>2, <1>3, <2>1, <2>2, <2>3, JoinedStay DEF CommonInv, n
<1> QED
  BY <1>6, <1>7

\* ... some set is the first of the smallest ...
LEMMA MinIdxExists ==
    ASSUME neighbor_sets \in Seq(SUBSET Vertex), 0 < Len(neighbor_sets)
    PROVE  MinIdx \in DOMAIN neighbor_sets
<1> DEFINE D == DOMAIN neighbor_sets
           size == [i \in D |-> Cardinality(neighbor_sets[i])]
           Sizes == {size[i] : i \in D}
           IsFirst(k) == \A j \in D : \/ Cardinality(neighbor_sets[k]) < Cardinality(neighbor_sets[j])
                                     \/ /\ Cardinality(neighbor_sets[k]) = Cardinality(neighbor_sets[j])
                                        /\ k <= j
<1>1. D \in SUBSET Nat /\ 1 \in D /\ \A i \in D : neighbor_sets[i] \in SUBSET Vertex
  OBVIOUS
<1>2. \A i \in D : size[i] \in Nat /\ size[i] = Cardinality(neighbor_sets[i])
  BY <1>1, VertexAssumption, FS_Subset, FS_CardinalityType
<1> HIDE DEF size, D
<1>3. Sizes \in SUBSET Nat /\ Sizes # {}
  BY <1>1, <1>2
<1>4. PICK c \in Sizes : \A d \in Sizes : c <= d
  BY <1>3, LeastNumber
<1> DEFINE Smallest == {i \in D : size[i] = c}
<1>5. Smallest \in SUBSET Nat /\ Smallest # {}
  BY <1>1, <1>4
<1> HIDE DEF Smallest
<1>6. PICK i \in Smallest : \A j \in Smallest : i <= j
  BY <1>5, LeastNumber
<1>7. i \in D /\ size[i] = c
  BY DEF Smallest
<1>8. ASSUME NEW j \in D PROVE size[i] < size[j] \/ (size[i] = size[j] /\ i <= j)
  <2>1. size[i] <= size[j] /\ size[i] \in Nat /\ size[j] \in Nat
    BY <1>2, <1>4, <1>7
  <2>2. i \in Nat /\ j \in Nat
    BY <1>1, <1>7
  <2>3. size[j] = c => i <= j
    BY <1>6 DEF Smallest
  <2>4. CASE size[j] = c
    BY <1>7, <2>2, <2>3, <2>4
  <2>5. CASE size[j] # c
    BY <1>7, <2>1, <2>5
  <2> QED
    BY <2>4, <2>5
<1>9. IsFirst(i)
  <2> SUFFICES ASSUME NEW j \in D
               PROVE  \/ Cardinality(neighbor_sets[i]) < Cardinality(neighbor_sets[j])
                      \/ /\ Cardinality(neighbor_sets[i]) = Cardinality(neighbor_sets[j])
                         /\ i <= j
    OBVIOUS
  <2>1. size[i] = Cardinality(neighbor_sets[i]) /\ size[j] = Cardinality(neighbor_sets[j])
    BY <1>2, <1>7
  <2> QED
    BY <1>8, <2>1
<1>10. MinIdx = CHOOSE k \in D : IsFirst(k)
  BY DEF MinIdx, D
<1> HIDE DEF IsFirst
<1>11. MinIdx \in D
  BY <1>7, <1>9, <1>10
<1> QED
  BY <1>11 DEF D

\* ... and what is in it and in all others is in all.
LEMMA CommonAnswers ==
    ASSUME Table, CommonInv, CommonAnswer
    PROVE  CommonInv'
<1> DEFINE list == query.vertex_id_list
           n == Len(neighbor_sets)
           joined(v) == EndsOf(From(JoinedKeys, v))
           all == {x \in Vertex : \A v \in ToSet(list) : x \in joined(v)}
           some == {v \in neighbor_sets[MinIdx] :
                      \A i \in DOMAIN neighbor_sets \ {MinIdx} : v \in neighbor_sets[i]}
<1>1. /\ query' = query /\ keys' = keys /\ edges' = edges /\ at = "answer" /\ at' = "done" /\ Common
      /\ count' = Cardinality(some)
  BY DEF CommonAnswer
<1>2. /\ neighbor_sets \in Seq(SUBSET Vertex) /\ 0 < n /\ n = Len(list) /\ 1 < Len(list)
      /\ \A i \in 1 .. n - 1 : neighbor_sets[i] = joined(list[i])
      /\ neighbor_sets[n] = joined(list[n])
  BY <1>1 DEF CommonInv
<1>3. list \in Seq(Vertex) /\ Len(list) \in Nat /\ n \in Nat /\ DOMAIN neighbor_sets = 1 .. n /\ DOMAIN list = 1 .. n
  BY <1>2, QueryAssumption DEF Table
<1>4. \A i \in 1 .. n : neighbor_sets[i] = joined(list[i])
  <2> SUFFICES ASSUME NEW i \in 1 .. n PROVE neighbor_sets[i] = joined(list[i])
    OBVIOUS
  <2>1. i = n \/ i \in 1 .. n - 1
    BY <1>3
  <2> QED
    BY <1>2, <2>1
<1>5. MinIdx \in 1 .. n
  BY <1>2, <1>3, MinIdxExists
<1>6. \A v : joined(v) \subseteq Vertex
  BY JoinedAre DEF JoinedTo
<1> HIDE DEF joined, n
<1>7. some = all
  <2>1. ASSUME NEW x \in some PROVE x \in all
    <3>1. x \in Vertex
      BY <1>4, <1>5, <1>6
    <3>2. ASSUME NEW i \in 1 .. n PROVE x \in neighbor_sets[i]
      BY <1>3
    <3> QED
      BY <1>3, <1>4, <3>1, <3>2 DEF ToSet
  <2>2. ASSUME NEW x \in all PROVE x \in some
    <3>1. \A i \in 1 .. n : x \in joined(list[i])
      BY <1>3 DEF ToSet
    <3> QED
      BY <1>3, <1>4, <1>5, <3>1
  <2> QED
    BY <2>1, <2>2
<1>8. ~ (Len(list) <= 1)
  BY <1>2, <1>3
<1> HIDE DEF some
<1> QED
  BY <1>1, <1>7, <1>8, JoinedStay DEF CommonInv, joined

\* The invariant says what the answer is, in terms of the stored edges.
LEMMA CommonCounts ==
    ASSUME Table, CommonInv
    PROVE  CommonIsIntersection
<1> DEFINE list == query.vertex_id_list
           joined(v, x) == \E e \in edges :
                              /\ {e[1], e[3]} = {v, x}
                              /\ query.r_labels = <<>> \/ e[2] \in ToSet(query.r_labels)
<1> SUFFICES ASSUME Common, at = "done"
             PROVE  count = IF Len(list) <= 1 THEN 0
                            ELSE Cardinality({x \in Vertex : \A v \in ToSet(list) : joined(v, x)})
  BY DEF CommonIsIntersection
<1>1. count = IF Len(list) <= 1 THEN 0
              ELSE Cardinality({x \in Vertex : \A v \in ToSet(list) : x \in EndsOf(From(JoinedKeys, v))})
  BY DEF CommonInv
<1>2. ToSet(keys) = Stored /\ ToSet(Directions) = {OUTGOING, INCOMING}
  BY TableIsSorted, DirectionsAre
<1>3. ASSUME NEW v, NEW x PROVE x \in EndsOf(From(JoinedKeys, v)) <=> joined(v, x)
  <2>1. ASSUME NEW key \in From(JoinedKeys, v), x = key[4] PROVE joined(v, x)
    <3>1. key \in Stored /\ key[1] = v /\ (query.r_labels = <<>> \/ key[3] \in ToSet(query.r_labels))
      BY <1>2 DEF From, JoinedKeys, Admitted
    <3>2. PICK e \in edges : \/ key = <<e[1], OUTGOING, e[2], e[3]>>
                             \/ key = <<e[3], INCOMING, e[2], e[1]>>
      BY <3>1 DEF Stored, KeysOf
    <3>3. {e[1], e[3]} = {v, x} /\ e[2] = key[3]
      BY <2>1, <3>1, <3>2
    <3> QED
      BY <3>1, <3>3
  <2>2. ASSUME NEW e \in edges, {e[1], e[3]} = {v, x}, query.r_labels = <<>> \/ e[2] \in ToSet(query.r_labels)
        PROVE  \E key \in From(JoinedKeys, v) : x = key[4]
    <3> DEFINE out == <<e[1], OUTGOING, e[2], e[3]>>
               in == <<e[3], INCOMING, e[2], e[1]>>
    <3>1. out \in Stored /\ in \in Stored
      BY DEF Stored, KeysOf
    <3>2. out \in JoinedKeys /\ in \in JoinedKeys
      BY <1>2, <2>2, <3>1 DEF JoinedKeys, Admitted
    <3>3. CASE e[1] = v /\ e[3] = x
      BY <3>2, <3>3 DEF From
    <3>4. CASE e[3] = v /\ e[1] = x
      BY <3>2, <3>4 DEF From
    <3> QED
      BY <2>2, <3>3, <3>4
  <2> QED
    BY <2>1, <2>2 DEF EndsOf
<1> HIDE DEF joined
<1> QED
  BY <1>1, <1>3

-----------------------------------------------------------------------------
(* The adjacency count counts walks *)

\* Sets that belong to the vertices, no two of which have an element in common.
Slices(W, bag) ==
    /\ \A v \in Vertex : IsFiniteSet(W[v]) /\ bag[v] = Cardinality(W[v])
    /\ \A u, v \in Vertex : u # v => W[u] \cap W[v] = {}

\* The size of a bag is the number of elements of the sets it counts.
LEMMA SizeCounts ==
    ASSUME NEW W, NEW bag, Slices(W, bag)
    PROVE  Size(bag) = Cardinality(UNION {W[v] : v \in Vertex})
<1> DEFINE some(T) == CHOOSE x \in T : TRUE
           Is(g) == g = [T \in SUBSET Vertex |->
                           IF T = {} THEN 0 ELSE bag[some(T)] + g[T \ {some(T)}]]
           sum == CHOOSE g : Is(g)
           U(T) == UNION {W[v] : v \in T}
           f == [T \in SUBSET Vertex |-> Cardinality(U(T))]
<1>1. Size(bag) = sum[Vertex]
  BY DEF Size, MapThenSumSet, MapThenFoldSet
<1>2. /\ \A v \in Vertex : IsFiniteSet(W[v]) /\ bag[v] = Cardinality(W[v])
      /\ \A u, v \in Vertex : u # v => W[u] \cap W[v] = {}
  BY DEF Slices
<1>3. ASSUME NEW T \in SUBSET Vertex PROVE IsFiniteSet(U(T))
  <2> DEFINE g == [v \in T |-> W[v]]
  <2>1. IsFiniteSet(T)
    BY VertexAssumption, FS_Subset
  <2>2. IsFiniteSet({g[v] : v \in T})
    <3>1. g = [v \in T |-> g[v]]
      OBVIOUS
    <3> HIDE DEF g
    <3> QED
      BY <2>1, <3>1, ImageIsFinite
  <2>3. {g[v] : v \in T} = {W[v] : v \in T}
    OBVIOUS
  <2>4. \A s \in {W[v] : v \in T} : IsFiniteSet(s)
    BY <1>2
  <2> QED
    BY <2>2, <2>3, <2>4, FS_UNION
<1>4. \A T \in SUBSET Vertex : T # {} => some(T) \in T
  OBVIOUS
<1> HIDE DEF some
<1>5. ASSUME NEW T \in SUBSET Vertex
      PROVE  f[T] = IF T = {} THEN 0 ELSE bag[some(T)] + f[T \ {some(T)}]
  <2>1. CASE T = {}
    <3>1. U(T) = {}
      BY <2>1
    <3> QED
      BY <2>1, <3>1, FS_EmptySet
  <2>2. CASE T # {}
    <3> DEFINE x == some(T)
               S == T \ {x}
    <3>1. x \in T /\ x \in Vertex /\ S \in SUBSET Vertex /\ x \notin S
      BY <1>4, <2>2
    <3> HIDE DEF x
    <3>2. U(T) = W[x] \cup U(S)
      BY <3>1
    <3>3. W[x] \cap U(S) = {}
      BY <1>2, <3>1
    <3>4. IsFiniteSet(W[x]) /\ IsFiniteSet(U(S))
      BY <1>2, <1>3, <3>1
    <3> HIDE DEF U
    <3>5. Cardinality(U(T)) = Cardinality(W[x]) + Cardinality(U(S)) - Cardinality({})
      <4>1. Cardinality(W[x] \cup U(S))
              = Cardinality(W[x]) + Cardinality(U(S)) - Cardinality(W[x] \cap U(S))
        BY ONLY <3>4, FS_Union
      <4> QED
        BY ONLY <3>2, <3>3, <4>1
    <3>6. Cardinality({}) = 0 /\ Cardinality(W[x]) \in Nat /\ Cardinality(U(S)) \in Nat
      BY <3>4, FS_EmptySet, FS_CardinalityType
    <3>7. Cardinality(U(T)) = bag[x] + Cardinality(U(S))
      BY <1>2, <3>1, <3>5, <3>6
    <3>8. f[T] = Cardinality(U(T)) /\ f[S] = Cardinality(U(S))
      BY <3>1
    <3> HIDE DEF f
    <3> QED
      BY <2>2, <3>7, <3>8 DEF x
  <2> QED
    BY <2>1, <2>2
<1> HIDE DEF U
<1>6. Is(f)
  <2>1. f = [T \in SUBSET Vertex |-> f[T]]
    OBVIOUS
  <2> HIDE DEF f
  <2>2. [T \in SUBSET Vertex |-> f[T]]
          = [T \in SUBSET Vertex |-> IF T = {} THEN 0 ELSE bag[some(T)] + f[T \ {some(T)}]]
    BY <1>5
  <2> QED
    BY <2>1, <2>2
<1>7. Is(sum)
  <2> HIDE DEF Is
  <2> QED
    BY <1>6
<1> HIDE DEF sum, f
<1>8. \A T \in SUBSET Vertex : sum[T] = IF T = {} THEN 0 ELSE bag[some(T)] + sum[T \ {some(T)}]
  BY <1>7
<1> HIDE DEF Is
<1> DEFINE Bad == {T \in SUBSET Vertex : sum[T] # f[T]}
<1>9. ASSUME Bad # {} PROVE FALSE
  <2>1. Bad \in SUBSET SUBSET Vertex
    OBVIOUS
  <2> HIDE DEF Bad
  <2>2. PICK T \in Bad : \A S \in Bad : S \subseteq T => S = T
    <3>1. IsFiniteSet(Vertex)
      BY VertexAssumption
    <3> HIDE DEF Is
    <3> QED
      BY ONLY <1>9, <2>1, <3>1, LeastSubset
  <2>3. T \in SUBSET Vertex /\ sum[T] # f[T]
    BY DEF Bad
  <2>4. T # {}
    BY <1>5, <1>8, <2>3
  <2> DEFINE S == T \ {some(T)}
  <2>5. S \in SUBSET Vertex /\ S \subseteq T /\ S # T
    BY <1>4, <2>3, <2>4
  <2>6. sum[S] = f[S]
    BY <2>2, <2>5 DEF Bad
  <2> QED
    BY <1>5, <1>8, <2>3, <2>4, <2>6
<1>10. sum[Vertex] = f[Vertex]
  BY <1>9
<1> QED
  BY <1>1, <1>10 DEF f, U

\* The walks of n edges from the vertices of a list, those that end at a vertex,
\* and those with one edge more, the last of which is one of a set.
Paths(follow, list, n) ==
    {p \in (DOMAIN list) \X Seq(follow) : p[2] \in Walks(follow, list[p[1]], n)}
PathsTo(follow, list, n, x) == {p \in Paths(follow, list, n) : End(list[p[1]], p[2]) = x}
LongerTo(follow, list, n, K, x) ==
    {q \in (DOMAIN list) \X Seq(follow) :
       \E key \in K : /\ key[4] = x
                      /\ \E p \in PathsTo(follow, list, n, key[1]) : q = <<p[1], Append(p[2], key)>>}

\* The walks of n + 1 edges that end at a vertex come from those of n edges.
LEMMA PathsStep ==
    ASSUME NEW follow, NEW list, NEW n \in Nat, NEW x
    PROVE  PathsTo(follow, list, n + 1, x) = LongerTo(follow, list, n, follow, x)
<1>1. ASSUME NEW q \in PathsTo(follow, list, n + 1, x) PROVE q \in LongerTo(follow, list, n, follow, x)
  <2>1. /\ q \in (DOMAIN list) \X Seq(follow) /\ q[2] \in Walks(follow, list[q[1]], n + 1)
        /\ End(list[q[1]], q[2]) = x
    BY DEF PathsTo, Paths
  <2>2. q[2] \in Longer(follow, list[q[1]], Walks(follow, list[q[1]], n))
    BY <2>1, WalkSteps
  <2>3. PICK w \in Walks(follow, list[q[1]], n), key \in follow :
           key[1] = End(list[q[1]], w) /\ q[2] = Append(w, key)
    BY <2>2 DEF Longer
  <2>4. w \in Seq(follow)
    BY WalkSteps
  <2>5. key[4] = x
    BY <2>1, <2>3, <2>4, EndOfWalk
  <2> DEFINE p == <<q[1], w>>
  <2>6. p \in PathsTo(follow, list, n, key[1]) /\ q = <<p[1], Append(p[2], key)>>
    BY <2>1, <2>3, <2>4 DEF PathsTo, Paths
  <2> HIDE DEF p
  <2> QED
    BY <2>1, <2>5, <2>6 DEF LongerTo
<1>2. ASSUME NEW q \in LongerTo(follow, list, n, follow, x) PROVE q \in PathsTo(follow, list, n + 1, x)
  <2>1. PICK key \in follow : /\ key[4] = x
                              /\ \E p \in PathsTo(follow, list, n, key[1]) : q = <<p[1], Append(p[2], key)>>
    BY DEF LongerTo
  <2>2. PICK p \in PathsTo(follow, list, n, key[1]) : q = <<p[1], Append(p[2], key)>>
    BY <2>1
  <2> DEFINE i == p[1]
             w == p[2]
  <2>3. w \in Walks(follow, list[i], n) /\ End(list[i], w) = key[1] /\ w \in Seq(follow)
    BY DEF PathsTo, Paths
  <2>4. q \in (DOMAIN list) \X Seq(follow) /\ q[1] = i /\ q[2] = Append(w, key)
    BY <2>2 DEF LongerTo
  <2> HIDE DEF i, w
  <2>5. Append(w, key) \in Walks(follow, list[i], n + 1)
    <3> DEFINE more(u) == {Append(u, e) : e \in {k \in follow : k[1] = End(list[i], u)}}
    <3>1. Append(w, key) \in more(w)
      BY <2>3
    <3>2. Walks(follow, list[i], n + 1) = UNION {more(u) : u \in Walks(follow, list[i], n)}
      BY WalkSteps DEF Longer
    <3> HIDE DEF more
    <3> QED
      BY <2>3, <3>1, <3>2
  <2>6. End(list[i], Append(w, key)) = key[4]
    BY <2>3, EndOfWalk
  <2> QED
    BY <2>1, <2>4, <2>5, <2>6 DEF PathsTo, Paths
<1> QED
  BY <1>1, <1>2

\* The walks without an edge end where they begin.
LEMMA PathsStart ==
    ASSUME NEW follow, NEW list, NEW x
    PROVE  /\ Paths(follow, list, 0) = (DOMAIN list) \X {<<>>}
           /\ PathsTo(follow, list, 0, x) = {i \in DOMAIN list : list[i] = x} \X {<<>>}
<1>1. ASSUME NEW v PROVE Walks(follow, v, 0) = {<<>>}
  BY WalkSteps
<1>2. ASSUME NEW v PROVE End(v, <<>>) = v
  BY DEF End
<1>3. <<>> \in Seq(follow)
  OBVIOUS
<1>4. Paths(follow, list, 0) = (DOMAIN list) \X {<<>>}
  BY <1>1, <1>3 DEF Paths
<1> QED
  BY <1>2, <1>4 DEF PathsTo

\* There are finitely many walks of each length.
LEMMA PathsAreFinite ==
    ASSUME NEW follow, IsFiniteSet(follow), NEW list, IsFiniteSet(DOMAIN list)
    PROVE  \A n \in Nat : IsFiniteSet(Paths(follow, list, n))
<1> DEFINE Bad == {n \in Nat : ~ IsFiniteSet(Paths(follow, list, n))}
<1>1. ASSUME Bad # {} PROVE FALSE
  <2>1. Bad \in SUBSET Nat
    OBVIOUS
  <2> HIDE DEF Bad
  <2>2. PICK n \in Bad : \A m \in Bad : n <= m
    BY <1>1, <2>1, LeastNumber
  <2>3. n \in Nat /\ ~ IsFiniteSet(Paths(follow, list, n))
    BY DEF Bad
  <2>4. n # 0
    <3>1. IsFiniteSet({<<>>})
      BY FS_Singleton
    <3>2. IsFiniteSet((DOMAIN list) \X {<<>>})
      BY <3>1, FS_Product
    <3> QED
      BY <2>3, <3>2, PathsStart
  <2> DEFINE m == n - 1
  <2>5. m \in Nat /\ m + 1 = n /\ ~ (n <= m)
    BY <2>3, <2>4
  <2>6. IsFiniteSet(Paths(follow, list, m))
    BY <2>2, <2>5 DEF Bad
  <2> HIDE DEF m
  <2> DEFINE P == Paths(follow, list, m) \X follow
             f == [e \in P |-> <<e[1][1], Append(e[1][2], e[2])>>]
  <2>7. IsFiniteSet(P)
    BY <2>6, FS_Product
  <2>8. IsFiniteSet({f[e] : e \in P})
    <3>1. f = [e \in P |-> f[e]]
      OBVIOUS
    <3> HIDE DEF f, P
    <3> QED
      BY <2>7, <3>1, ImageIsFinite
  <2>9. ASSUME NEW q \in Paths(follow, list, n) PROVE q \in {f[e] : e \in P}
    <3> DEFINE x == End(list[q[1]], q[2])
    <3>1. q \in PathsTo(follow, list, m + 1, x)
      BY <2>5 DEF PathsTo
    <3> HIDE DEF x
    <3>2. q \in LongerTo(follow, list, m, follow, x)
      BY <2>5, <3>1, PathsStep
    <3>3. PICK key \in follow : \E p \in PathsTo(follow, list, m, key[1]) : q = <<p[1], Append(p[2], key)>>
      BY <3>2 DEF LongerTo
    <3>4. PICK p \in PathsTo(follow, list, m, key[1]) : q = <<p[1], Append(p[2], key)>>
      BY <3>3
    <3>5. <<p, key>> \in P /\ f[<<p, key>>] = q
      BY <3>4 DEF PathsTo
    <3> HIDE DEF f, P
    <3> QED
      BY <3>5
  <2>10. Paths(follow, list, n) \in SUBSET {f[e] : e \in P}
    BY <2>9
  <2> HIDE DEF f, P
  <2> QED
    BY <2>3, <2>8, <2>10, FS_Subset
<1> QED
  BY <1>1

\* Two sets of edges a query may follow that have none in common, and one whose
\* edges leave the same vertex.
Parts(follow, K, L) == K \subseteq follow /\ L \subseteq follow /\ K \cap L = {}
LeavesOf(follow, K, v) == K \subseteq follow /\ \A key \in K : key[1] = v

\* More edges make more walks, and others.
LEMMA LongerGrows ==
    ASSUME NEW follow, NEW list, NEW n \in Nat, NEW K, NEW L, Parts(follow, K, L), NEW x
    PROVE  /\ LongerTo(follow, list, n, K \cup L, x)
                = LongerTo(follow, list, n, K, x) \cup LongerTo(follow, list, n, L, x)
           /\ LongerTo(follow, list, n, K, x) \cap LongerTo(follow, list, n, L, x) = {}
           /\ LongerTo(follow, list, n, {}, x) = {}
<1> K \in SUBSET follow /\ L \in SUBSET follow /\ K \cap L = {}
  BY DEF Parts
<1>1. LongerTo(follow, list, n, K \cup L, x)
        = LongerTo(follow, list, n, K, x) \cup LongerTo(follow, list, n, L, x)
  BY DEF LongerTo
<1>2. LongerTo(follow, list, n, {}, x) = {}
  BY DEF LongerTo
<1>3. ASSUME NEW q \in LongerTo(follow, list, n, K, x), q \in LongerTo(follow, list, n, L, x) PROVE FALSE
  <2>1. PICK key \in K : \E p \in PathsTo(follow, list, n, key[1]) : q = <<p[1], Append(p[2], key)>>
    BY DEF LongerTo
  <2>2. PICK p \in PathsTo(follow, list, n, key[1]) : q = <<p[1], Append(p[2], key)>>
    BY <2>1
  <2>3. PICK key2 \in L : \E r \in PathsTo(follow, list, n, key2[1]) : q = <<r[1], Append(r[2], key2)>>
    BY <1>3 DEF LongerTo
  <2>4. PICK r \in PathsTo(follow, list, n, key2[1]) : q = <<r[1], Append(r[2], key2)>>
    BY <2>3
  <2>5. p[2] \in Seq(follow) /\ r[2] \in Seq(follow) /\ key \in follow /\ key2 \in follow
    BY DEF PathsTo, Paths
  <2>6. Last(Append(p[2], key)) = key /\ Last(Append(r[2], key2)) = key2
    BY <2>5, AppendLast
  <2>7. Append(p[2], key) = Append(r[2], key2)
    BY <2>2, <2>4
  <2> QED
    BY <2>6, <2>7
<1> QED
  BY <1>1, <1>2, <1>3

\* Edges that leave one vertex prolong each walk that ends there by each of them.
LEMMA LongerCount ==
    ASSUME NEW follow, IsFiniteSet(follow), NEW list, IsFiniteSet(DOMAIN list), NEW n \in Nat,
           NEW K, NEW v, LeavesOf(follow, K, v), NEW x
    PROVE  /\ IsFiniteSet(LongerTo(follow, list, n, K, x))
           /\ Cardinality(LongerTo(follow, list, n, K, x))
                = Cardinality(PathsTo(follow, list, n, v)) * Cardinality({key \in K : key[4] = x})
<1> DEFINE P == PathsTo(follow, list, n, v)
           E == {key \in K : key[4] = x}
           L == LongerTo(follow, list, n, K, x)
           f == [e \in P \X E |-> <<e[1][1], Append(e[1][2], e[2])>>]
<1> K \in SUBSET follow /\ \A key \in K : key[1] = v
  BY DEF LeavesOf
<1>1. IsFiniteSet(P) /\ IsFiniteSet(E)
  <2>1. P \in SUBSET Paths(follow, list, n) /\ E \in SUBSET follow
    BY DEF PathsTo
  <2> QED
    BY <2>1, PathsAreFinite, FS_Subset
<1>2. IsFiniteSet(P \X E) /\ Cardinality(P \X E) = Cardinality(P) * Cardinality(E)
  BY <1>1, FS_Product
<1>3. \A p \in P : p = <<p[1], p[2]>> /\ p[1] \in DOMAIN list /\ p[2] \in Seq(follow)
  BY DEF PathsTo, Paths
<1>4. ASSUME NEW p \in P, NEW key \in E
      PROVE  /\ f[<<p, key>>] = <<p[1], Append(p[2], key)>> /\ <<p, key>> \in P \X E
             /\ f[<<p, key>>] \in L
  <2>1. f[<<p, key>>] = <<p[1], Append(p[2], key)>> /\ <<p, key>> \in P \X E
    OBVIOUS
  <2>2. Append(p[2], key) \in Seq(follow) /\ p[1] \in DOMAIN list
    BY <1>3
  <2>3. key \in K /\ key[4] = x /\ key[1] = v
    OBVIOUS
  <2>4. <<p[1], Append(p[2], key)>> \in (DOMAIN list) \X Seq(follow)
    BY <2>2
  <2> QED
    BY <2>1, <2>3, <2>4 DEF LongerTo
<1>5. \A e \in P \X E : e = <<e[1], e[2]>> /\ e[1] \in P /\ e[2] \in E
  OBVIOUS
<1>6. f \in [P \X E -> L]
  <2>1. \A e \in P \X E : f[e] \in L
    BY <1>4, <1>5
  <2> QED
    BY <2>1
<1>7. ASSUME NEW d \in P \X E, NEW e \in P \X E, f[d] = f[e] PROVE d = e
  <2>1. /\ f[d] = <<d[1][1], Append(d[1][2], d[2])>>
        /\ f[e] = <<e[1][1], Append(e[1][2], e[2])>>
    OBVIOUS
  <2>2. d[1][1] = e[1][1] /\ Append(d[1][2], d[2]) = Append(e[1][2], e[2])
    BY <1>7, <2>1
  <2>3. d[1][2] \in Seq(follow) /\ e[1][2] \in Seq(follow) /\ d[2] \in follow /\ e[2] \in follow
    BY <1>3, <1>5
  <2>4. d[1][2] = e[1][2] /\ d[2] = e[2]
    <3> DEFINE s == d[1][2]
               t == e[1][2]
               a == d[2]
               b == e[2]
    <3>1. s \in Seq(follow) /\ t \in Seq(follow) /\ a \in follow /\ b \in follow
          /\ Append(s, a) = Append(t, b)
      BY <2>2, <2>3
    <3> HIDE DEF s, t, a, b
    <3>2. s = t /\ a = b
      BY <3>1, AppendInjective
    <3> QED
      BY <3>2 DEF s, t, a, b
  <2>5. d[1] = e[1]
    BY <1>3, <1>5, <2>2, <2>4
  <2> QED
    BY <1>5, <2>4, <2>5
<1>8. ASSUME NEW q \in L PROVE \E e \in P \X E : f[e] = q
  <2>1. PICK key \in K : /\ key[4] = x
                         /\ \E p \in PathsTo(follow, list, n, key[1]) : q = <<p[1], Append(p[2], key)>>
    BY DEF LongerTo
  <2>2. PICK p \in P : q = <<p[1], Append(p[2], key)>>
    BY <2>1
  <2>3. key \in E
    BY <2>1
  <2> HIDE DEF f, P, E
  <2> QED
    BY <1>4, <2>2, <2>3
<1> HIDE DEF f, P, E, L
<1>9. f \in Bijection(P \X E, L)
  <2>1. f \in Injection(P \X E, L)
    BY <1>6, <1>7 DEF Injection, IsInjective
  <2>2. f \in Surjection(P \X E, L)
    BY <1>6, <1>8 DEF Surjection
  <2> QED
    BY <2>1, <2>2 DEF Bijection
<1>10. IsFiniteSet(L) /\ Cardinality(L) = Cardinality(P \X E)
  BY <1>2, <1>9, FS_Bijection DEF ExistsBijection
<1> QED
  BY <1>2, <1>10 DEF P, E, L

\* Where the walks from the list end, how many end at each vertex, and how many
\* of the next length do that have their last edge in a set.
ReachStarts(n) == Reach(Followed, Members(Starts), n)
WalkCounts(n) == [v \in Vertex |-> Cardinality(PathsTo(Followed, query.vertex_id_list, n, v))]
LongerCounts(n, K) == [x \in Vertex |-> Cardinality(LongerTo(Followed, query.vertex_id_list, n, K, x))]

\* The level is the ends of the walks so far, each once or once for each walk; the
\* next level has the walks prolonged by what its look-ups have found.
AdjInv == Adj =>
    /\ at = "level" /\ Distinct =>
          /\ vids = Once(ReachStarts(hop))
          /\ visited = EndsOf(Gone)
          /\ next_vids = Once(EndsOf(Gone))
    /\ at = "level" /\ ~ Distinct =>
          /\ vids = WalkCounts(hop)
          /\ next_vids = LongerCounts(hop, Gone)
    /\ at = "answer" =>
          vids = IF Distinct THEN Once(ReachStarts(hop)) ELSE WalkCounts(hop)
    /\ at = "done" =>
          \/ hop = 0
          \/ /\ 0 < query.k
             /\ count = IF Distinct THEN Cardinality(ReachStarts(query.k))
                        ELSE Cardinality(Paths(Followed, query.vertex_id_list, query.k))

\* No step changes what that means.
LEMMA AdjStays ==
    ASSUME Table, query' = query, keys' = keys, edges' = edges
    PROVE  /\ Adj' = Adj /\ Distinct' = Distinct /\ query'.k = query.k
           /\ (ReachStarts(hop))' = ReachStarts(hop')
           /\ (WalkCounts(hop))' = WalkCounts(hop')
           /\ (LongerCounts(hop, Gone))' = LongerCounts(hop', Gone')
           /\ (ReachStarts(query.k))' = ReachStarts(query.k)
           /\ (Paths(Followed, query.vertex_id_list, query.k))'
                = Paths(Followed, query.vertex_id_list, query.k)
BY QueryStays DEF ReachStarts, WalkCounts, LongerCounts

\* The list is one of vertices.
LEMMA ListIs ==
    ASSUME Table
    PROVE  /\ query.vertex_id_list \in Seq(Vertex)
           /\ IsFiniteSet(DOMAIN query.vertex_id_list)
           /\ ToSet(query.vertex_id_list) \in SUBSET Vertex
<1>1. query.vertex_id_list \in Seq(Vertex)
  BY QueryAssumption DEF Table
<1>2. DOMAIN query.vertex_id_list = 1 .. Len(query.vertex_id_list) /\ Len(query.vertex_id_list) \in Nat
  BY <1>1
<1>3. IsFiniteSet(DOMAIN query.vertex_id_list)
  <2> DEFINE n == Len(query.vertex_id_list)
  <2>1. n \in Int /\ 1 \in Int /\ DOMAIN query.vertex_id_list = 1 .. n
    BY <1>2
  <2> HIDE DEF n
  <2>2. IsFiniteSet(1 .. n)
    BY <2>1, FS_Interval
  <2> QED
    BY <2>1, <2>2
<1>4. ToSet(query.vertex_id_list) \in SUBSET Vertex
  BY <1>1, <1>2 DEF ToSet
<1> QED
  BY <1>1, <1>3, <1>4

\* The first level is the list ...
LEMMA AdjBegins ==
    ASSUME Table, Levels, Begin
    PROVE  AdjInv'
<1> SUFFICES ASSUME Adj PROVE AdjInv'
  BY QueryStays DEF Begin, AdjInv
<1> DEFINE list == query.vertex_id_list
<1>1. /\ query' = query /\ keys' = keys /\ edges' = edges /\ hop' = 0 /\ at' = "level" /\ ~ KHop
      /\ vids' = Starts /\ visited' = {} /\ next_vids' = None /\ scans' = ScansOf(vids')
  BY DEF Begin, Levels, Adj
<1>2. Gone' = {} /\ EndsOf(Gone)' = {}
  BY <1>1, LevelBegins DEF EndsOf
<1>3. CASE Distinct
  <2>1. Starts = Once(ToSet(list))
    BY <1>1, <1>3 DEF Starts
  <2>2. Members(Starts) = ToSet(list)
    BY <2>1, ListIs, OnceMembers
  <2>3. ReachStarts(0) = ToSet(list)
    BY <2>2, ReachSteps DEF ReachStarts
  <2>4. Once({}) = None
    BY OnceMembers
  <2> QED
    BY <1>1, <1>2, <1>3, <2>1, <2>3, <2>4, AdjStays DEF AdjInv
<1>4. CASE ~ Distinct
  <2>1. Starts = [v \in Vertex |-> Cardinality({i \in DOMAIN list : list[i] = v})]
    BY <1>1, <1>4 DEF Starts
  <2>2. ASSUME NEW v \in Vertex
        PROVE  Cardinality(PathsTo(Followed, list, 0, v)) = Cardinality({i \in DOMAIN list : list[i] = v})
    <3> DEFINE I == {i \in DOMAIN list : list[i] = v}
    <3>1. I \in SUBSET DOMAIN list
      OBVIOUS
    <3>2. IsFiniteSet(I)
      BY <3>1, ListIs, FS_Subset
    <3>3. PathsTo(Followed, list, 0, v) = I \X {<<>>}
      BY PathsStart
    <3>4. IsFiniteSet({<<>>}) /\ Cardinality({<<>>}) = 1
      BY FS_Singleton
    <3> HIDE DEF I
    <3>5. Cardinality(I \X {<<>>}) = Cardinality(I) * 1 /\ Cardinality(I) \in Nat
      BY <3>2, <3>4, FS_Product, FS_CardinalityType
    <3>6. Cardinality(I \X {<<>>}) = Cardinality(I)
      BY <3>5
    <3> QED
      BY <3>3, <3>6 DEF I
  <2>3. Starts = WalkCounts(0)
    BY <2>1, <2>2 DEF WalkCounts
  <2>4. LongerCounts(0, {}) = None
    <3>1. ASSUME NEW x \in Vertex PROVE Cardinality(LongerTo(Followed, list, 0, {}, x)) = 0
      <4>1. LongerTo(Followed, list, 0, {}, x) = {}
        BY DEF LongerTo
      <4> QED
        BY <4>1, FS_EmptySet
    <3> QED
      BY <3>1 DEF LongerCounts, None
  <2> QED
    BY <1>1, <1>2, <1>4, <2>3, <2>4, AdjStays DEF AdjInv
<1> QED
  BY <1>3, <1>4

\* ... a look-up prolongs every walk to its vertex by the edges it finds ...
LEMMA AdjScans ==
    ASSUME Table, ScansSorted, Levels, AdjInv, AdjScan
    PROVE  AdjInv'
<1> DEFINE list == query.vertex_id_list
           p == Head(scans)
<1>1. /\ query' = query /\ keys' = keys /\ edges' = edges /\ hop' = hop /\ at' = "level" /\ at = "level"
      /\ vids' = vids /\ scans # <<>> /\ scans' = Tail(scans) /\ Adj /\ ~ Common
  BY DEF AdjScan, Adj
<1>2. PICK found \in Neighbors(keys, p) :
         LET ends(v) == {key \in Each(found, p) : key[4] = v /\ Allowed(v)}
             more == [v \in Vertex |-> vids[p[1]] * Cardinality(ends(v))]
         IN  /\ visited' = visited \cup Members(more)
             /\ next_vids' = IF Distinct THEN Once(visited')
                             ELSE [v \in Vertex |-> next_vids[v] + more[v]]
  BY DEF AdjScan
<1>3. ToSet(scans) \in SUBSET LookUpsOf(Members(vids)) /\ hop \in Nat
  BY <1>1 DEF Levels
<1> DEFINE new == {key \in Each(found, p) : Allowed(key[4])}
           ends(v) == {key \in Each(found, p) : key[4] = v /\ Allowed(v)}
           times == vids[p[1]]
           more == [v \in Vertex |-> times * Cardinality(ends(v))]
<1>4. /\ p[1] \in Members(vids) /\ new \in SUBSET Followed
      /\ Gone' = Gone \cup new /\ Gone \cap new = {}
      /\ \A key \in new : key[1] = p[1]
  BY <1>1, <1>3, LevelGoesOn
<1>5. \A v : ends(v) = {key \in new : key[4] = v}
  OBVIOUS
<1>6. IsFiniteSet(Followed) /\ \A key \in Followed : key[4] \in Vertex
  BY FollowedAre
<1>7. IsFiniteSet(new) /\ Gone \in SUBSET Followed
  BY <1>4, <1>6, FS_Subset DEF Gone
<1>8. \A v : IsFiniteSet(ends(v)) /\ Cardinality(ends(v)) \in Nat
  <2> SUFFICES ASSUME NEW v PROVE IsFiniteSet(ends(v)) /\ Cardinality(ends(v)) \in Nat
    OBVIOUS
  <2>1. ends(v) \in SUBSET new
    BY <1>5
  <2> HIDE DEF ends, new
  <2> QED
    BY <1>7, <2>1, FS_Subset, FS_CardinalityType
<1>9. visited' = visited \cup Members(more)
  BY <1>2
<1>10. next_vids' = IF Distinct THEN Once(visited') ELSE [v \in Vertex |-> next_vids[v] + more[v]]
  BY <1>2
<1> HIDE DEF new, ends, p
<1>11. p[1] \in Vertex /\ times > 0
  BY <1>4 DEF Members
<1>12. CASE Distinct
  <2>1. vids = Once(ReachStarts(hop)) /\ visited = EndsOf(Gone)
    BY <1>1, <1>12 DEF AdjInv
  <2>2. times = 1
    BY <1>11, <2>1 DEF Once
  <2>3. Members(more) = EndsOf(new)
    <3>1. ASSUME NEW v \in Vertex PROVE more[v] > 0 <=> v \in EndsOf(new)
      <4>1. more[v] = Cardinality(ends(v))
        BY <1>8, <2>2
      <4>2. Cardinality(ends(v)) = 0 <=> ends(v) = {}
        BY <1>8, FS_EmptySet
      <4>3. ends(v) = {} <=> v \notin EndsOf(new)
        BY <1>5 DEF EndsOf
      <4> QED
        BY <1>8, <4>1, <4>2, <4>3
    <3>2. EndsOf(new) \subseteq Vertex
      BY <1>4, <1>6 DEF EndsOf
    <3> HIDE DEF more
    <3> QED
      BY <3>1, <3>2 DEF Members
  <2>4. EndsOf(Gone)' = EndsOf(Gone) \cup EndsOf(new)
    BY <1>4 DEF EndsOf
  <2>5. visited' = EndsOf(Gone)' /\ next_vids' = Once(EndsOf(Gone)')
    BY <1>9, <1>10, <1>12, <2>1, <2>3, <2>4
  <2>6. vids' = Once(ReachStarts(hop'))
    BY <1>1, <2>1
  <2>7. (ReachStarts(hop))' = ReachStarts(hop') /\ Distinct' = Distinct
    BY <1>1, AdjStays
  <2> HIDE DEF more, times
  <2> QED
    BY <1>1, <1>12, <2>5, <2>6, <2>7 DEF AdjInv
<1>13. CASE ~ Distinct
  <2>1. vids = WalkCounts(hop) /\ next_vids = LongerCounts(hop, Gone)
    BY <1>1, <1>13 DEF AdjInv
  <2>2. ASSUME NEW x \in Vertex
        PROVE  next_vids[x] + more[x] = Cardinality(LongerTo(Followed, list, hop, Gone', x))
    <3> DEFINE A == LongerTo(Followed, list, hop, Gone, x)
               B == LongerTo(Followed, list, hop, new, x)
    <3>1. LongerTo(Followed, list, hop, Gone', x) = A \cup B /\ A \cap B = {}
      <4>1. Parts(Followed, Gone, new) /\ hop \in Nat
        BY <1>3, <1>4, <1>7 DEF Parts
      <4>2. /\ LongerTo(Followed, list, hop, Gone \cup new, x) = A \cup B
            /\ A \cap B = {}
        BY <4>1, LongerGrows, SMTT(30)
      <4>3. Gone' = Gone \cup new
        BY <1>4
      <4> HIDE DEF A, B
      <4> QED
        BY <4>2, <4>3
    <3>2. IsFiniteSet(B) /\ Cardinality(B) = Cardinality(PathsTo(Followed, list, hop, p[1]))
                                                * Cardinality({key \in new : key[4] = x})
      <4> DEFINE v == p[1]
      <4>1. hop \in Nat /\ LeavesOf(Followed, new, v) /\ IsFiniteSet(Followed)
        BY <1>3, <1>4, <1>6 DEF LeavesOf
      <4>2. IsFiniteSet(DOMAIN list)
        BY ListIs
      <4> HIDE DEF v
      <4>3. IsFiniteSet(B) /\ Cardinality(B) = Cardinality(PathsTo(Followed, list, hop, v))
                                                  * Cardinality({key \in new : key[4] = x})
        BY <4>1, <4>2, LongerCount
      <4> QED
        BY <4>3 DEF v
    <3>3. Cardinality(PathsTo(Followed, list, hop, p[1])) = times
      BY <1>11, <2>1 DEF WalkCounts
    <3>4. Cardinality(B) = more[x]
      BY <1>5, <3>2, <3>3
    <3>5. IsFiniteSet(A)
      <4>1. A \in SUBSET LongerTo(Followed, list, hop, Followed, x)
        BY <1>7 DEF LongerTo
      <4>2. LongerTo(Followed, list, hop, Followed, x) \in SUBSET Paths(Followed, list, hop + 1)
        BY <1>3, PathsStep DEF PathsTo
      <4>3. IsFiniteSet(Paths(Followed, list, hop + 1))
        BY <1>3, <1>6, ListIs, PathsAreFinite
      <4> HIDE DEF A
      <4> QED
        BY <4>1, <4>2, <4>3, FS_Subset
    <3>6. next_vids[x] = Cardinality(A)
      BY <2>1 DEF LongerCounts
    <3> HIDE DEF A, B, more
    <3>7. Cardinality(A \cup B) = Cardinality(A) + Cardinality(B) - Cardinality({})
      BY <3>1, <3>2, <3>5, FS_Union
    <3>8. Cardinality({}) = 0 /\ Cardinality(A) \in Nat /\ Cardinality(B) \in Nat
      BY <3>2, <3>5, FS_EmptySet, FS_CardinalityType
    <3> QED
      BY <3>1, <3>4, <3>6, <3>7, <3>8
  <2> HIDE DEF more, times
  <2>3. next_vids' = LongerCounts(hop, Gone')
    BY <1>10, <1>13, <2>2 DEF LongerCounts
  <2>4. (WalkCounts(hop))' = WalkCounts(hop') /\ Distinct' = Distinct
        /\ (LongerCounts(hop, Gone))' = LongerCounts(hop', Gone')
    BY <1>1, AdjStays
  <2> QED
    BY <1>1, <1>13, <2>1, <2>3, <2>4 DEF AdjInv
<1> QED
  BY <1>12, <1>13

\* ... a finished level has prolonged all ...
LEMMA AdjNextLevel ==
    ASSUME Table, ScansSorted, Levels, AdjInv, NextLevel
    PROVE  AdjInv'
<1> SUFFICES ASSUME Adj PROVE AdjInv'
  BY QueryStays DEF NextLevel, AdjInv
<1> DEFINE list == query.vertex_id_list
<1>1. /\ query' = query /\ keys' = keys /\ edges' = edges /\ hop' = hop + 1 /\ at = "level" /\ ~ KHop
      /\ scans = <<>> /\ vids' = next_vids /\ next_vids' = None /\ visited' = {}
      /\ \/ at' = "answer"
         \/ at' = "level" /\ scans' = ScansOf(vids')
  BY DEF NextLevel, Adj
<1>2. hop \in Nat
  BY DEF Levels
<1>3. Gone = {key \in Followed : key[1] \in Members(vids)} /\ EndsOf(Gone) = Ends(Followed, Members(vids))
  BY <1>1, LevelEnds
<1>4. vids' = IF Distinct THEN Once(ReachStarts(hop + 1)) ELSE WalkCounts(hop + 1)
  <2>1. CASE Distinct
    <3>1. vids = Once(ReachStarts(hop)) /\ next_vids = Once(EndsOf(Gone))
      BY <1>1, <2>1 DEF AdjInv
    <3>2. ReachStarts(hop) \subseteq Vertex
      BY <1>2, NearIsVertices DEF ReachStarts
    <3>3. Members(vids) = ReachStarts(hop)
      BY <3>1, <3>2, OnceMembers
    <3>4. Ends(Followed, ReachStarts(hop)) = ReachStarts(hop + 1)
      BY <1>2, ReachSteps DEF ReachStarts
    <3> QED
      BY <1>1, <1>3, <2>1, <3>1, <3>3, <3>4
  <2>2. CASE ~ Distinct
    <3>1. vids = WalkCounts(hop) /\ next_vids = LongerCounts(hop, Gone)
      BY <1>1, <2>2 DEF AdjInv
    <3>2. ASSUME NEW x \in Vertex
          PROVE  LongerTo(Followed, list, hop, Gone, x) = PathsTo(Followed, list, hop + 1, x)
      <4>1. ASSUME NEW key \in Followed, PathsTo(Followed, list, hop, key[1]) # {} PROVE key \in Gone
        <5>1. key[1] \in Vertex
          BY FollowedAre
        <5>2. IsFiniteSet(PathsTo(Followed, list, hop, key[1]))
          <6>1. PathsTo(Followed, list, hop, key[1]) \in SUBSET Paths(Followed, list, hop)
            BY DEF PathsTo
          <6>2. IsFiniteSet(Paths(Followed, list, hop))
            BY <1>2, FollowedAre, ListIs, PathsAreFinite
          <6> QED
            BY <6>1, <6>2, FS_Subset
        <5>3. /\ Cardinality(PathsTo(Followed, list, hop, key[1])) # 0
              /\ Cardinality(PathsTo(Followed, list, hop, key[1])) \in Nat
          BY <4>1, <5>2, FS_EmptySet, FS_CardinalityType
        <5>4. vids[key[1]] > 0
          BY <3>1, <5>1, <5>3 DEF WalkCounts
        <5> QED
          BY <1>3, <5>1, <5>4 DEF Members
      <4>2. LongerTo(Followed, list, hop, Gone, x) = LongerTo(Followed, list, hop, Followed, x)
        BY <1>3, <4>1 DEF LongerTo
      <4> QED
        BY <1>2, <4>2, PathsStep
    <3>3. LongerCounts(hop, Gone) = WalkCounts(hop + 1)
      BY <3>2 DEF LongerCounts, WalkCounts
    <3> QED
      BY <1>1, <2>2, <3>1, <3>3
  <2> QED
    BY <2>1, <2>2
<1>5. /\ Distinct' = Distinct
      /\ (ReachStarts(hop))' = ReachStarts(hop + 1) /\ (WalkCounts(hop))' = WalkCounts(hop + 1)
      /\ (LongerCounts(hop, Gone))' = LongerCounts(hop + 1, Gone')
  BY <1>1, AdjStays
<1>6. CASE at' = "answer"
  BY <1>4, <1>5, <1>6 DEF AdjInv
<1>7. CASE at' = "level" /\ scans' = ScansOf(vids')
  <2>1. Gone' = {} /\ EndsOf(Gone)' = {}
    BY <1>1, <1>7, LevelBegins DEF EndsOf
  <2>2. Once({}) = None
    BY OnceMembers
  <2>3. LongerCounts(hop + 1, {}) = None
    <3>1. ASSUME NEW x \in Vertex PROVE Cardinality(LongerTo(Followed, list, hop + 1, {}, x)) = 0
      <4>1. LongerTo(Followed, list, hop + 1, {}, x) = {}
        BY DEF LongerTo
      <4> QED
        BY <4>1, FS_EmptySet
    <3> QED
      BY <3>1 DEF LongerCounts, None
  <2> QED
    BY <1>1, <1>4, <1>5, <1>7, <2>1, <2>2, <2>3 DEF AdjInv
<1> QED
  BY <1>1, <1>6, <1>7

\* ... the size of a level is the number of its walks ...
LEMMA WalksOfList ==
    ASSUME Table, NEW n \in Nat
    PROVE  Size(WalkCounts(n)) = Cardinality(Paths(Followed, query.vertex_id_list, n))
<1> DEFINE list == query.vertex_id_list
           W == [v \in Vertex |-> PathsTo(Followed, list, n, v)]
<1>1. IsFiniteSet(Paths(Followed, list, n))
  BY FollowedAre, ListIs, PathsAreFinite
<1>2. \A v \in Vertex : IsFiniteSet(W[v]) /\ WalkCounts(n)[v] = Cardinality(W[v])
  BY <1>1, FS_Subset DEF PathsTo, WalkCounts
<1>3. \A u, v \in Vertex : u # v => W[u] \cap W[v] = {}
  BY DEF PathsTo
<1>4. Slices(W, WalkCounts(n))
  <2> HIDE DEF W
  <2> QED
    BY <1>2, <1>3 DEF Slices
<1>5. UNION {W[v] : v \in Vertex} = Paths(Followed, list, n)
  <2>1. ASSUME NEW q \in Paths(Followed, list, n) PROVE End(list[q[1]], q[2]) \in Vertex
    <3>1. q[1] \in DOMAIN list /\ q[2] \in Seq(Followed) /\ list[q[1]] \in Vertex
      BY ListIs DEF Paths
    <3>2. CASE q[2] = <<>>
      BY <3>1, <3>2 DEF End
    <3>3. CASE q[2] # <<>>
      <4>1. Last(q[2]) \in Followed
        BY <3>1, <3>3 DEF Last
      <4> QED
        BY <3>3, <4>1, FollowedAre DEF End
    <3> QED
      BY <3>2, <3>3
  <2>2. ASSUME NEW q \in Paths(Followed, list, n) PROVE \E v \in Vertex : q \in W[v]
    BY <2>1 DEF PathsTo
  <2>3. ASSUME NEW v \in Vertex, NEW q \in W[v] PROVE q \in Paths(Followed, list, n)
    BY DEF PathsTo
  <2> HIDE DEF W
  <2> QED
    BY <2>2, <2>3
<1> HIDE DEF W
<1> QED
  BY <1>4, <1>5, SizeCounts

\* ... or of its vertices ...
LEMMA SizeOnce ==
    ASSUME NEW S \in SUBSET Vertex
    PROVE  Size(Once(S)) = Cardinality(S)
<1> DEFINE W == [v \in Vertex |-> IF v \in S THEN {v} ELSE {}]
<1>1. \A v \in Vertex : IsFiniteSet(W[v]) /\ Once(S)[v] = Cardinality(W[v])
  BY FS_EmptySet, FS_Singleton DEF Once
<1>2. \A u, v \in Vertex : u # v => W[u] \cap W[v] = {}
  OBVIOUS
<1>3. UNION {W[v] : v \in Vertex} = S
  <2>1. ASSUME NEW x \in S PROVE x \in Vertex /\ x \in W[x]
    OBVIOUS
  <2>2. ASSUME NEW v \in Vertex, NEW x \in W[v] PROVE x \in S
    OBVIOUS
  <2> HIDE DEF W
  <2> QED
    BY <2>1, <2>2
<1> HIDE DEF W
<1>4. Slices(W, Once(S))
  BY <1>1, <1>2 DEF Slices
<1> QED
  BY <1>3, <1>4, SizeCounts

\* ... and that is the answer.
LEMMA AdjAnswers ==
    ASSUME Table, Levels, AdjInv, Answer
    PROVE  AdjInv'
<1> SUFFICES ASSUME Adj PROVE AdjInv'
  BY QueryStays DEF Answer, AdjInv
<1>1. /\ query' = query /\ keys' = keys /\ edges' = edges /\ at = "answer" /\ at' = "done"
      /\ count' = Size(vids) /\ ~ KHop /\ ~ Common
  BY DEF Answer, Adj
<1>2. hop \in Nat /\ 0 < hop /\ hop = query.k
  BY <1>1 DEF Levels
<1>3. vids = IF Distinct THEN Once(ReachStarts(hop)) ELSE WalkCounts(hop)
  BY <1>1 DEF AdjInv
<1>4. ReachStarts(hop) \subseteq Vertex
  BY <1>2, NearIsVertices DEF ReachStarts
<1>5. count' = IF Distinct THEN Cardinality(ReachStarts(query.k))
               ELSE Cardinality(Paths(Followed, query.vertex_id_list, query.k))
  BY <1>1, <1>2, <1>3, <1>4, SizeOnce, WalksOfList
<1> QED
  BY <1>1, <1>2, <1>5, AdjStays DEF AdjInv

\* The invariant says what the answer is.
LEMMA AdjCounts ==
    ASSUME Table, Levels, AdjInv
    PROVE  AdjCountsWalks
<1> DEFINE list == query.vertex_id_list
           walks == UNION {{<<i, w>> : w \in WalksFrom(list[i], query.k)} : i \in DOMAIN list}
<1> SUFFICES ASSUME Adj, at = "done", hop > 0
             PROVE  count = IF Distinct THEN Cardinality({Last(w[2])[4] : w \in walks})
                            ELSE Cardinality(walks)
  BY DEF AdjCountsWalks
<1>1. hop # 0
  BY DEF Levels
<1>2. /\ 0 < query.k
      /\ count = IF Distinct THEN Cardinality(ReachStarts(query.k))
                 ELSE Cardinality(Paths(Followed, list, query.k))
  BY <1>1 DEF AdjInv
<1>3. query.k \in Nat
  <2>1. query.k \in Int
    BY QueryAssumption DEF Table
  <2> QED
    BY <1>2, <2>1
<1>4. walks = Paths(Followed, list, query.k)
  <2>1. ASSUME NEW i \in DOMAIN list PROVE WalksFrom(list[i], query.k) \in SUBSET Seq(Followed)
    BY <1>3, WalkSteps DEF WalksFrom
  <2>2. \A i \in DOMAIN list : WalksFrom(list[i], query.k) = Walks(Followed, list[i], query.k)
    BY DEF WalksFrom
  <2>3. ASSUME NEW q \in walks PROVE q \in Paths(Followed, list, query.k)
    <3>1. PICK i \in DOMAIN list : q \in {<<i, w>> : w \in WalksFrom(list[i], query.k)}
      OBVIOUS
    <3>2. PICK w \in WalksFrom(list[i], query.k) : q = <<i, w>>
      BY <3>1
    <3> QED
      BY <2>1, <2>2, <3>2 DEF Paths
  <2>4. ASSUME NEW q \in Paths(Followed, list, query.k) PROVE q \in walks
    <3>1. q[1] \in DOMAIN list /\ q[2] \in WalksFrom(list[q[1]], query.k) /\ q = <<q[1], q[2]>>
      BY <2>2 DEF Paths
    <3>2. q \in {<<q[1], w>> : w \in WalksFrom(list[q[1]], query.k)}
      BY <3>1
    <3> QED
      BY <3>1, <3>2
  <2> QED
    BY <2>3, <2>4
<1> HIDE DEF walks
<1>5. CASE ~ Distinct
  BY <1>2, <1>4, <1>5
<1>6. CASE Distinct
  <2>1. Members(Starts) = ToSet(list)
    <3>1. Starts = Once(ToSet(list))
      BY <1>6 DEF Starts, Adj
    <3> QED
      BY <3>1, ListIs, OnceMembers
  <2>2. ASSUME NEW q \in Paths(Followed, list, query.k)
        PROVE  End(list[q[1]], q[2]) = Last(q[2])[4]
    <3> DEFINE n == query.k - 1
    <3>1. n \in Nat /\ n + 1 = query.k
      BY <1>2, <1>3
    <3> HIDE DEF n
    <3>2. q[2] \in Walks(Followed, list[q[1]], n + 1)
      BY <3>1 DEF Paths
    <3>3. q[2] \in Longer(Followed, list[q[1]], Walks(Followed, list[q[1]], n))
      BY <3>1, <3>2, WalkSteps
    <3>4. PICK w \in Walks(Followed, list[q[1]], n), key \in Followed : q[2] = Append(w, key)
      BY <3>3 DEF Longer
    <3>5. w \in Seq(Followed)
      BY <3>1, WalkSteps
    <3>6. q[2] # <<>>
      BY <3>4, <3>5, AppendLast
    <3> QED
      BY <3>6 DEF End
  <2>3. ASSUME NEW x \in ReachStarts(query.k) PROVE x \in {Last(q[2])[4] : q \in walks}
    <3>1. PICK v \in ToSet(list) : \E w \in Walks(Followed, v, query.k) : x = End(v, w)
      BY <2>1 DEF ReachStarts, Reach
    <3>2. PICK i \in DOMAIN list : v = list[i]
      BY DEF ToSet
    <3>3. PICK w \in Walks(Followed, list[i], query.k) : x = End(list[i], w)
      BY <3>1, <3>2
    <3>4. w \in Seq(Followed)
      BY <1>3, WalkSteps
    <3>5. <<i, w>> \in Paths(Followed, list, query.k) /\ <<i, w>>[1] = i /\ <<i, w>>[2] = w
      BY <3>4 DEF Paths
    <3>6. x = Last(<<i, w>>[2])[4]
      BY <2>2, <3>3, <3>5
    <3> QED
      BY <1>4, <3>5, <3>6
  <2>4. ASSUME NEW q \in walks PROVE Last(q[2])[4] \in ReachStarts(query.k)
    <3>1. q \in Paths(Followed, list, query.k)
      BY <1>4
    <3>2. End(list[q[1]], q[2]) = Last(q[2])[4]
      BY <2>2, <3>1
    <3>3. list[q[1]] \in Members(Starts) /\ q[2] \in Walks(Followed, list[q[1]], query.k)
      BY <2>1, <3>1 DEF Paths, ToSet
    <3> QED
      BY <3>2, <3>3 DEF ReachStarts, Reach
  <2>5. ReachStarts(query.k) = {Last(q[2])[4] : q \in walks}
    BY <2>3, <2>4
  <2> QED
    BY <1>2, <1>6, <2>5
<1> QED
  BY <1>5, <1>6

-----------------------------------------------------------------------------
(* The inductive invariant and the theorems *)

\* The inductive invariant.
Inv ==
    /\ Table          \* the cursor sees what is stored, in order
    /\ ScansSorted    \* the look-ups still to be made, in order
    /\ Levels         \* where the query is
    /\ KHopInv /\ AdjInv /\ CommonInv

\* No step changes what is stored, or the query.
LEMMA NothingIsWritten ==
    ASSUME Next
    PROVE  query' = query /\ keys' = keys /\ edges' = edges
BY DEF Next, Refuse, Begin, KHopScan, AdjScan, NextLevel, Answer,
       BeginCommon, CommonScan, NextVertex, CommonAnswer, Done, vars

\* Every step leaves the query on one of its levels.
LEMMA LevelsStay ==
    ASSUME Inv, Next
    PROVE  Levels'
<1> Table /\ ScansSorted /\ Levels
  BY DEF Inv
<1> query' = query /\ keys' = keys /\ edges' = edges
  BY NothingIsWritten
<1>0. query.k \in Int
  BY QueryAssumption DEF Table
<1>1. KHop' = KHop /\ Common' = Common
  BY QueryStays
<1>2. hop \in Nat
  BY DEF Levels
<1>3. CASE Refuse
  BY <1>2, <1>3 DEF Refuse, Levels
<1>4. CASE Begin
  <2>1. hop' = 0 /\ at' = "level" /\ 0 < query.k /\ scans' = ScansOf(vids')
    BY <1>0, <1>4 DEF Begin, Levels
  <2>2. (ToSet(scans) \in SUBSET LookUpsOf(Members(vids)))'
    BY <2>1, LevelBegins
  <2> QED
    BY <2>1, <2>2 DEF Levels
<1>5. ASSUME at = "level", scans # <<>>, ~ Common, scans' = Tail(scans),
             vids' = vids, hop' = hop, at' = at,
             NEW found \in Neighbors(keys, Head(scans))
      PROVE  Levels'
  <2>1. hop < query.k /\ ToSet(scans) \in SUBSET LookUpsOf(Members(vids))
    BY <1>5 DEF Levels
  <2>2. (ToSet(scans) \in SUBSET LookUpsOf(Members(vids)))'
    BY <1>5, <2>1, LevelShrinks
  <2> QED
    BY <1>2, <1>5, <2>1, <2>2 DEF Levels
<1>6. CASE KHopScan
  <2>1. ~ Common
    BY <1>6 DEF KHopScan, KHop, Common
  <2>2. PICK found \in Neighbors(keys, Head(scans)) : TRUE
    BY <1>6 DEF KHopScan
  <2>3. at = "level" /\ scans # <<>> /\ scans' = Tail(scans) /\ vids' = vids /\ hop' = hop /\ at' = at
    BY <1>6 DEF KHopScan
  <2> QED
    BY <1>5, <2>1, <2>2, <2>3
<1>7. CASE AdjScan
  <2>1. ~ Common
    BY <1>7 DEF AdjScan, Adj
  <2>2. PICK found \in Neighbors(keys, Head(scans)) : TRUE
    BY <1>7 DEF AdjScan
  <2>3. at = "level" /\ scans # <<>> /\ scans' = Tail(scans) /\ vids' = vids /\ hop' = hop /\ at' = at
    BY <1>7 DEF AdjScan
  <2> QED
    BY <1>5, <2>1, <2>2, <2>3
<1>8. CASE NextLevel
  <2>1. hop' = hop + 1 /\ at = "level" /\ ~ Common /\ vids' = next_vids
    BY <1>8 DEF NextLevel
  <2>2. hop < query.k
    BY <2>1 DEF Levels
  <2>3. CASE LastLevel \/ (KHop /\ Members(next_vids) = {})
    <3>1. at' = "answer" /\ (KHop \/ hop + 1 = query.k)
      BY <1>8, <2>3 DEF NextLevel, LastLevel
    <3> QED
      BY <1>0, <1>1, <1>2, <2>1, <2>2, <3>1 DEF Levels
  <2>4. CASE ~ (LastLevel \/ (KHop /\ Members(next_vids) = {}))
    <3>1. at' = "level" /\ scans' = ScansOf(vids') /\ hop + 1 # query.k
      BY <1>8, <2>1, <2>4 DEF NextLevel, LastLevel
    <3>2. (ToSet(scans) \in SUBSET LookUpsOf(Members(vids)))'
      BY <3>1, LevelBegins
    <3> QED
      BY <1>0, <1>2, <2>1, <2>2, <3>1, <3>2 DEF Levels
  <2> QED
    BY <2>3, <2>4
<1>9. CASE Answer
  BY <1>2, <1>9 DEF Answer, Levels
<1>10. CASE BeginCommon \/ CommonScan \/ NextVertex \/ CommonAnswer
  <2>1. Common /\ hop' = hop /\ at' # "called"
    BY <1>10 DEF BeginCommon, CommonScan, NextVertex, CommonAnswer
  <2> QED
    BY <1>1, <1>2, <2>1 DEF Levels
<1>11. CASE Done
  <2>1. at' = "done" /\ hop' = hop
    BY <1>11 DEF Done, vars
  <2> QED
    BY <1>2, <2>1 DEF Levels
<1> QED
  BY <1>3, <1>4, <1>6, <1>7, <1>8, <1>9, <1>10, <1>11 DEF Next

\* Every step leaves the look-ups in order.
LEMMA ScansStaySorted ==
    ASSUME Inv, Next
    PROVE  ScansSorted'
<1> Table /\ ScansSorted /\ CommonInv
  BY DEF Inv
<1> query' = query /\ keys' = keys /\ edges' = edges
  BY NothingIsWritten
<1>1. ASSUME scans' = scans PROVE ScansSorted'
  <2>1. LookUpsOf(Vertex)' = LookUpsOf(Vertex)
    BY QueryStays
  <2> QED
    BY <1>1, <2>1 DEF ScansSorted
<1>2. ASSUME scans' = ScansOf(vids') PROVE ScansSorted'
  BY <1>2, LevelBegins
<1>3. ASSUME scans # <<>>, scans' = Tail(scans) PROVE ScansSorted'
  <2>1. Sorts(Tail(scans), ToSet(scans) \ {Head(scans)}) /\ ToSet(Tail(scans)) = ToSet(scans) \ {Head(scans)}
    BY <1>3, ScansFind
  <2>2. ToSet(scans) \in SUBSET LookUpsOf(Vertex)
    BY DEF ScansSorted
  <2>3. LookUpsOf(Vertex)' = LookUpsOf(Vertex)
    BY QueryStays
  <2> QED
    BY <1>3, <2>1, <2>2, <2>3 DEF ScansSorted
<1>4. CASE Refuse \/ Answer \/ CommonAnswer \/ Done
  BY <1>1, <1>4 DEF Refuse, Answer, CommonAnswer, Done, vars
<1>5. CASE Begin
  BY <1>2, <1>5 DEF Begin
<1>6. CASE KHopScan \/ AdjScan
  BY <1>3, <1>6 DEF KHopScan, AdjScan
<1>7. CASE NextLevel
  <2>1. scans' = scans \/ scans' = ScansOf(vids')
    BY <1>7 DEF NextLevel
  <2> QED
    BY <1>1, <1>2, <2>1
<1>8. CASE BeginCommon
  BY <1>8, CommonBegins
<1>9. CASE CommonScan
  BY <1>9, CommonScans
<1>10. CASE NextVertex
  BY <1>10, CommonNextVertex
<1> QED
  BY <1>4, <1>5, <1>6, <1>7, <1>8, <1>9, <1>10 DEF Next

\* A query is refused before it has done anything.
LEMMA RefuseKeeps ==
    ASSUME Inv, Refuse
    PROVE  KHopInv' /\ AdjInv' /\ CommonInv'
<1>1. Table /\ Levels /\ CommonInv
  BY DEF Inv
<1>2. /\ query' = query /\ keys' = keys /\ edges' = edges /\ at = "called" /\ at' = "done"
      /\ hop' = 0 /\ count' = count
  BY <1>1 DEF Refuse, Levels
<1>3. KHop' = KHop /\ Adj' = Adj /\ Common' = Common
  BY <1>1, <1>2, QueryStays
<1>4. KHopInv' /\ AdjInv'
  BY <1>2 DEF KHopInv, AdjInv
<1>5. CommonInv'
  <2> SUFFICES ASSUME Common PROVE CommonInv'
    BY <1>3 DEF CommonInv
  <2>1. count' = 0 /\ Len(query'.vertex_id_list) <= 1
    BY <1>1, <1>2 DEF Refuse, CommonInv
  <2> QED
    BY <1>2, <2>1 DEF CommonInv
<1> QED
  BY <1>4, <1>5

\* A step that changes nothing keeps everything.
LEMMA StutterKeeps ==
    ASSUME Inv, UNCHANGED vars
    PROVE  Inv'
<1>1. Table /\ ScansSorted /\ Levels /\ KHopInv /\ AdjInv /\ CommonInv
  BY DEF Inv
<1>2. /\ edges' = edges /\ query' = query /\ keys' = keys /\ vids' = vids /\ next_vids' = next_vids
      /\ visited' = visited /\ neighbor_sets' = neighbor_sets /\ scans' = scans /\ hop' = hop
      /\ count' = count /\ at' = at
  BY DEF vars
<1>3. /\ KHop' = KHop /\ Adj' = Adj /\ Common' = Common /\ Distinct' = Distinct
      /\ Followed' = Followed /\ Starts' = Starts
      /\ LookUpsOf(Vertex)' = LookUpsOf(Vertex)
      /\ LookUpsOf(Members(vids))' = LookUpsOf(Members(vids))
  BY <1>1, <1>2, QueryStays
<1>4. Gone' = Gone /\ EndsOf(Gone)' = EndsOf(Gone)
  BY <1>2, <1>3 DEF Gone, LookUpOf, EndsOf
<1>5. Table' /\ ScansSorted' /\ Levels'
  BY <1>1, <1>2, <1>3 DEF Table, ScansSorted, Levels
<1>6. KHopInv'
  <2>1. /\ (NearStarts(hop))' = NearStarts(hop) /\ (RingOfStarts(hop))' = RingOfStarts(hop)
        /\ (NearStarts(hop - 1))' = NearStarts(hop - 1) /\ (NearStarts(query.k))' = NearStarts(query.k)
    BY <1>2, <1>3 DEF NearStarts, RingOfStarts
  <2> QED
    BY <1>1, <1>2, <1>3, <1>4, <2>1 DEF KHopInv
<1>7. AdjInv'
  BY <1>1, <1>2, <1>3, <1>4, AdjStays DEF AdjInv
<1>8. CommonInv'
  <2>1. JoinedKeys' = JoinedKeys
    BY <1>1, <1>2, JoinedStay
  <2> QED
    BY <1>1, <1>2, <1>3, <2>1 DEF CommonInv, LookUpOf
<1> QED
  BY <1>5, <1>6, <1>7, <1>8 DEF Inv

\* Every query keeps its own part of the invariant, and makes no step of another.
LEMMA QueriesKeep ==
    ASSUME Inv, Next
    PROVE  KHopInv' /\ AdjInv' /\ CommonInv'
<1>1. Table /\ ScansSorted /\ Levels /\ KHopInv /\ AdjInv /\ CommonInv
  BY DEF Inv
<1>2. query' = query /\ keys' = keys /\ edges' = edges
  BY NothingIsWritten
<1>3. KHop' = KHop /\ Adj' = Adj /\ Common' = Common
  BY <1>1, <1>2, QueryStays
<1>4. ASSUME Common PROVE KHopInv' /\ AdjInv'
  BY <1>3, <1>4 DEF KHopInv, AdjInv, KHop, Adj, Common
<1>5. ASSUME ~ Common PROVE CommonInv'
  BY <1>3, <1>5 DEF CommonInv
<1>6. CASE Refuse
  BY <1>6, RefuseKeeps
<1>7. CASE Begin
  <2>1. ~ Common
    BY <1>7 DEF Begin
  <2> QED
    BY <1>1, <1>5, <1>7, <2>1, KHopBegins, AdjBegins
<1>8. CASE KHopScan
  <2>1. KHop /\ ~ Common /\ ~ Adj
    BY <1>8 DEF KHopScan, KHop, Common, Adj
  <2>2. AdjInv'
    BY <1>3, <2>1 DEF AdjInv
  <2> QED
    BY <1>1, <1>5, <1>8, <2>1, <2>2, KHopScans
<1>9. CASE AdjScan
  <2>1. ~ KHop /\ ~ Common
    BY <1>9 DEF AdjScan, Adj
  <2>2. KHopInv'
    BY <1>3, <2>1 DEF KHopInv
  <2> QED
    BY <1>1, <1>5, <1>9, <2>1, <2>2, AdjScans
<1>10. CASE NextLevel
  <2>1. ~ Common
    BY <1>10 DEF NextLevel
  <2> QED
    BY <1>1, <1>5, <1>10, <2>1, KHopNextLevel, AdjNextLevel
<1>11. CASE Answer
  <2>1. ~ Common
    BY <1>11 DEF Answer
  <2> QED
    BY <1>1, <1>5, <1>11, <2>1, KHopAnswers, AdjAnswers
<1>12. CASE BeginCommon
  BY <1>1, <1>4, <1>12, CommonBegins DEF BeginCommon
<1>13. CASE CommonScan
  BY <1>1, <1>4, <1>13, CommonScans DEF CommonScan
<1>14. CASE NextVertex
  BY <1>1, <1>4, <1>14, CommonNextVertex DEF NextVertex
<1>15. CASE CommonAnswer
  BY <1>1, <1>4, <1>15, CommonAnswers DEF CommonAnswer
<1>16. CASE Done
  BY <1>16, StutterKeeps DEF Done, Inv
<1> QED
  BY <1>6, <1>7, <1>8, <1>9, <1>10, <1>11, <1>12, <1>13, <1>14, <1>15, <1>16 DEF Next

\* Inv holds of the initial states, every step keeps it, and it says what the
\* queries promise.
LEMMA Invariant == Spec => []Inv
<1>1. Init => Inv
  <2> SUFFICES ASSUME Init PROVE Inv
    OBVIOUS
  <2>1. Table /\ at = "called" /\ scans = <<>>
    BY DEF Init, Table
  <2>2. ScansSorted
    BY <2>1 DEF ScansSorted, Sorts, ToSet
  <2>3. Levels
    BY DEF Init, Levels
  <2>4. KHopInv /\ AdjInv /\ CommonInv
    BY DEF Init, KHopInv, AdjInv, CommonInv
  <2> QED
    BY <2>1, <2>2, <2>3, <2>4 DEF Inv
<1>2. Inv /\ [Next]_vars => Inv'
  <2> SUFFICES ASSUME Inv, [Next]_vars PROVE Inv'
    OBVIOUS
  <2>1. CASE UNCHANGED vars
    BY <2>1, StutterKeeps
  <2>2. CASE Next
    <3>1. Table'
      BY <2>2, NothingIsWritten, QueryStays DEF Inv
    <3> QED
      BY <2>2, <3>1, LevelsStay, ScansStaySorted, QueriesKeep DEF Inv
  <2> QED
    BY <2>1, <2>2
<1> QED
  BY <1>1, <1>2, PTL DEF Spec

\* Wherever search_near leaves the cursor, get_neighbors_by_start_vertex of both
\* readers, which steps over a smaller key and stops at the first that does not
\* match, returns exactly the keys with its prefix.
THEOREM ScansAreExact == Spec => []ScanIsExact
<1>1. Inv => ScanIsExact
  BY ScansExact DEF Inv
<1> QED
  BY <1>1, Invariant, PTL

\* While get_k_hop_neighbors_count goes through a level, the level is the
\* vertices at that distance from the starts, each once, and what it has
\* visited lies between the ball of that radius and the next one.
THEOREM FrontierIsAtDistance == Spec => []FrontierIsDistance
<1>1. Inv => FrontierIsDistance
  BY KHopFrontier DEF Inv
<1> QED
  BY <1>1, Invariant, PTL

\* get_k_hop_neighbors_count misses no neighbour and counts none twice, whatever
\* the graph, also when it ends early on an empty level: its answer less the
\* admitted starts is the number of other vertices within k admitted edges.
THEOREM KHopCountIsExact == Spec => []KHopCountsNeighbors
<1>1. Inv => KHopCountsNeighbors
  BY KHopCounts DEF Inv
<1> QED
  BY <1>1, Invariant, PTL

\* get_adj_count answers with the number of walks of k admitted edges from the
\* list, or with the number of their distinct ends.  A vertex that is listed twice
\* counts twice, and so does an edge whose relation is.
THEOREM AdjCountIsWalks == Spec => []AdjCountsWalks
<1>1. Inv => AdjCountsWalks
  BY AdjCounts DEF Inv
<1> QED
  BY <1>1, Invariant, PTL

\* get_common_neighbor_count answers with the number of vertices joined to
\* every vertex of the list, although it searches only the smallest set.
THEOREM CommonCountIsIntersection == Spec => []CommonIsIntersection
<1>1. Inv => CommonIsIntersection
  BY CommonCounts DEF Inv
<1> QED
  BY <1>1, Invariant, PTL

\* The values of a step that goes through a level.
LEMMA ScanTypes ==
    ASSUME TypeOK, Inv, KHopScan \/ AdjScan \/ CommonScan
    PROVE  TypeOK'
<1>1. Table /\ ScansSorted /\ scans # <<>>
  BY DEF Inv, KHopScan, AdjScan, CommonScan
<1>2. query' = query /\ hop' = hop /\ count' = count /\ at' = at /\ vids' = vids
  BY DEF KHopScan, AdjScan, CommonScan
<1> DEFINE p == Head(scans)
           ends(v) == {key \in Each(Found(p), p) : key[4] = v /\ Allowed(v)}
<1>3. p[1] \in Vertex /\ Neighbors(keys, p) = {Found(p)}
  BY <1>1, ScansFind
<1>4. IsFiniteSet(Found(p)) /\ \A key \in Found(p) : key[4] \in Vertex
  <2>1. Found(p) \in SUBSET Stored
    BY <1>1, TableIsSorted DEF Found
  <2>2. IsFiniteSet(Stored) /\ \A key \in Stored : key[4] \in Vertex
    BY <1>1, StoredIsFinite DEF IsKey
  <2> QED
    BY <2>1, <2>2, FS_Subset
<1>5. \A v : Cardinality(ends(v)) \in Nat
  <2> SUFFICES ASSUME NEW v PROVE Cardinality(ends(v)) \in Nat
    OBVIOUS
  <2>1. ends(v) \in SUBSET Each(Found(p), p) /\ Found(p) \in SUBSET ToSet(keys)
    BY DEF Found
  <2> HIDE DEF ends, p
  <2>2. IsFiniteSet(Each(Found(p), p))
    BY <1>1, <2>1, EachHas
  <2> QED
    BY <2>1, <2>2, FS_Subset, FS_CardinalityType
<1>6. CASE KHopScan
  <2>1. neighbor_sets' = neighbor_sets
    BY <1>6 DEF KHopScan
  <2>2. \E found \in {Found(p)} :
           LET new == {key[4] : key \in {k \in found : Allowed(k[4])}} \ visited
           IN  /\ visited' = visited \cup new
               /\ next_vids' = Once(Members(next_vids) \cup new)
    BY <1>3, <1>6 DEF KHopScan
  <2> DEFINE new == {key[4] : key \in {k \in Found(p) : Allowed(k[4])}} \ visited
  <2>3. visited' = visited \cup new /\ next_vids' = Once(Members(next_vids) \cup new)
    BY <2>2
  <2>4. new \subseteq Vertex
    BY <1>4
  <2> HIDE DEF new
  <2>5. visited' \in SUBSET Vertex /\ next_vids' \in [Vertex -> Nat]
    BY <2>3, <2>4, OnceMembers DEF TypeOK
  <2> QED
    BY <1>2, <2>1, <2>5 DEF TypeOK
<1>7. CASE AdjScan
  <2>1. neighbor_sets' = neighbor_sets
    BY <1>7 DEF AdjScan
  <2> DEFINE times == vids[p[1]]
             more == [v \in Vertex |-> times * Cardinality(ends(v))]
  <2>2. \E found \in {Found(p)} :
           LET endsof(v) == {key \in Each(found, p) : key[4] = v /\ Allowed(v)}
               m == [v \in Vertex |-> times * Cardinality(endsof(v))]
           IN  /\ visited' = visited \cup Members(m)
               /\ next_vids' = IF Distinct THEN Once(visited')
                               ELSE [v \in Vertex |-> next_vids[v] + m[v]]
    BY <1>3, <1>7 DEF AdjScan
  <2>3. /\ visited' = visited \cup Members(more)
        /\ next_vids' = IF Distinct THEN Once(visited')
                        ELSE [v \in Vertex |-> next_vids[v] + more[v]]
    BY <2>2
  <2>4. times \in Nat
    BY <1>3 DEF TypeOK
  <2>5. \A v \in Vertex : more[v] \in Nat
    <3> HIDE DEF ends, times
    <3> QED
      BY <1>5, <2>4
  <2>6. Members(more) \subseteq Vertex
    BY DEF Members
  <2> HIDE DEF more
  <2>7. visited' \in SUBSET Vertex
    BY <2>3, <2>6 DEF TypeOK
  <2>8. next_vids' \in [Vertex -> Nat]
    <3>1. CASE Distinct
      BY <2>3, <3>1, OnceMembers
    <3>2. CASE ~ Distinct
      BY <2>3, <2>5, <3>2 DEF TypeOK
    <3> QED
      BY <3>1, <3>2
  <2> QED
    BY <1>2, <2>1, <2>7, <2>8 DEF TypeOK
<1>8. CASE CommonScan
  <2>1. visited' = visited /\ next_vids' = next_vids
    BY <1>8 DEF CommonScan
  <2>2. neighbor_sets' = [neighbor_sets EXCEPT ![Len(neighbor_sets)] = @ \cup EndsOf(Found(p))]
    BY <1>3, <1>8 DEF CommonScan, EndsOf
  <2>3. EndsOf(Found(p)) \in SUBSET Vertex
    BY <1>4 DEF EndsOf
  <2>4. neighbor_sets \in Seq(SUBSET Vertex) /\ Len(neighbor_sets) > 0
    BY <1>8 DEF TypeOK, Inv, CommonInv, CommonScan
  <2>5. neighbor_sets' \in Seq(SUBSET Vertex) /\ Len(neighbor_sets') = Len(neighbor_sets)
    BY <2>2, <2>3, <2>4
  <2> QED
    BY <1>2, <2>1, <2>5 DEF TypeOK
<1> QED
  BY <1>6, <1>7, <1>8

\* The values of the steps between levels.
LEMMA LevelTypes ==
    ASSUME TypeOK, Inv, NextLevel \/ NextVertex
    PROVE  TypeOK'
<1>1. query' = query /\ count' = count /\ at' \in {"level", "answer"}
  BY DEF NextLevel, NextVertex, TypeOK
<1>2. Table /\ Levels /\ CommonInv
  BY DEF Inv
<1>3. CASE NextLevel
  <2>1. vids' = next_vids /\ next_vids' = None /\ visited' \in {visited, {}} /\ hop' = hop + 1 /\ neighbor_sets' = neighbor_sets
    BY <1>3 DEF NextLevel
  <2>2. hop \in Nat /\ hop < query.k /\ query.k \in Int
    BY <1>2, <1>3, QueryAssumption DEF NextLevel, Levels, Table
  <2> QED
    BY <1>1, <2>1, <2>2, OnceMembers DEF TypeOK
<1>4. CASE NextVertex
  <2>1. vids' = vids /\ next_vids' = next_vids /\ visited' = visited /\ hop' = hop
    BY <1>4 DEF NextVertex
  <2>2. \/ neighbor_sets' = neighbor_sets
        \/ Len(neighbor_sets) < Len(query.vertex_id_list) /\ neighbor_sets' = Append(neighbor_sets, {})
    BY <1>4 DEF NextVertex
  <2>3. neighbor_sets \in Seq(SUBSET Vertex) /\ Len(query.vertex_id_list) \in Nat
    BY <1>2, QueryAssumption DEF TypeOK, Table
  <2>4. neighbor_sets' \in Seq(SUBSET Vertex) /\ Len(neighbor_sets') <= Len(query.vertex_id_list)
    <3> DEFINE none == {}
    <3>1. none \in SUBSET Vertex
      OBVIOUS
    <3> HIDE DEF none
    <3>2. CASE Len(neighbor_sets) < Len(query.vertex_id_list) /\ neighbor_sets' = Append(neighbor_sets, none)
      <4>1. /\ Append(neighbor_sets, none) \in Seq(SUBSET Vertex)
            /\ Len(Append(neighbor_sets, none)) = Len(neighbor_sets) + 1
        BY <2>3, <3>1, AppendProperties
      <4>2. Len(neighbor_sets) \in Nat
        BY <2>3
      <4> QED
        BY <2>3, <3>2, <4>1, <4>2
    <3>3. CASE neighbor_sets' = neighbor_sets
      BY <2>3, <3>3 DEF TypeOK
    <3> QED
      BY <2>2, <3>2, <3>3 DEF none
  <2> QED
    BY <1>1, <2>1, <2>4 DEF TypeOK
<1> QED
  BY <1>3, <1>4

\* The values of the first and of the last step.
LEMMA CallTypes ==
    ASSUME TypeOK, Inv, Inv', Refuse \/ Begin \/ BeginCommon \/ Answer \/ CommonAnswer
    PROVE  TypeOK'
<1>1. query' = query /\ hop' = hop /\ at' \in {"level", "done"} /\ next_vids' = next_vids
  BY DEF Refuse, Begin, BeginCommon, Answer, CommonAnswer
<1>2. Table /\ Levels /\ CommonInv /\ AdjInv' /\ CommonInv'
  BY DEF Inv
<1>3. query.vertex_id_list \in Seq(Vertex) /\ IsFiniteSet(DOMAIN query.vertex_id_list)
  BY <1>2, ListIs
<1>4. CASE Refuse
  BY <1>4 DEF Refuse, TypeOK
<1>5. CASE Begin
  <2>1. vids' = Starts /\ visited' \in {Members(Starts), {}} /\ neighbor_sets' = neighbor_sets /\ count' = count
    BY <1>5 DEF Begin
  <2>2. Starts \in [Vertex -> Nat]
    <3> DEFINE at_(v) == {i \in DOMAIN query.vertex_id_list : query.vertex_id_list[i] = v}
    <3>1. \A v : Cardinality(at_(v)) \in Nat
      <4> SUFFICES ASSUME NEW v PROVE Cardinality(at_(v)) \in Nat
        OBVIOUS
      <4>1. at_(v) \in SUBSET DOMAIN query.vertex_id_list
        OBVIOUS
      <4> HIDE DEF at_
      <4> QED
        BY <1>3, <4>1, FS_Subset, FS_CardinalityType
    <3>2. KHop \/ Distinct \/ Starts = [v \in Vertex |-> Cardinality(at_(v))]
      BY DEF Starts
    <3>3. KHop => Starts = Once({v \in ToSet(query.vertex_id_list) : Allowed(v)})
      BY DEF Starts, KHop, Distinct
    <3>4. Distinct => Starts = Once(ToSet(query.vertex_id_list))
      BY DEF Starts, KHop, Distinct
    <3> HIDE DEF at_
    <3> QED
      BY <3>1, <3>2, <3>3, <3>4, OnceMembers
  <2>3. Members(Starts) \subseteq Vertex
    BY DEF Members
  <2> QED
    BY <1>1, <2>1, <2>2, <2>3 DEF TypeOK
<1>6. CASE BeginCommon
  <2>1. neighbor_sets' = <<{}>> /\ vids' = vids /\ visited' = visited /\ count' = count /\ Len(query.vertex_id_list) > 1
    BY <1>6 DEF BeginCommon
  <2>2. neighbor_sets' \in Seq(SUBSET Vertex) /\ Len(neighbor_sets') = 1
    BY <2>1
  <2> QED
    BY <1>1, <1>3, <2>1, <2>2 DEF TypeOK
<1>7. CASE Answer
  <2>1. /\ vids' = vids /\ visited' = visited /\ neighbor_sets' = neighbor_sets /\ at' = "done" /\ at = "answer" /\ ~ Common
        /\ count' = IF KHop THEN Cardinality(visited) ELSE Size(vids)
    BY <1>7 DEF Answer
  <2>2. KHop' = KHop /\ Common' = Common /\ Followed' = Followed /\ Starts' = Starts /\ Distinct' = Distinct
    BY <1>2, <1>7, QueryStays DEF Answer
  <2>3. count' \in Nat
    <3>1. CASE KHop
      BY <2>1, <3>1, VertexAssumption, FS_Subset, FS_CardinalityType DEF TypeOK
    <3>2. CASE ~ KHop
      <4>1. Adj' /\ ~ (hop' = 0)
        BY <1>1, <1>2, <2>1, <2>2, <3>2 DEF Adj, Levels
      <4>2. /\ 0 < query.k
            /\ \/ count' = Cardinality(Reach(Followed, Members(Starts), query.k))
               \/ count' = Cardinality(Paths(Followed, query.vertex_id_list, query.k))
        <5>1. (Members(Starts))' = Members(Starts)
          BY <2>2 DEF Members
        <5> QED
          BY <1>1, <1>2, <2>1, <2>2, <4>1, <5>1 DEF AdjInv, ReachStarts
      <4>3. query.k \in Nat
        BY <1>2, <4>2, QueryAssumption DEF Table
      <4>4. IsFiniteSet(Reach(Followed, Members(Starts), query.k))
        BY <1>2, <4>3, NearIsVertices, VertexAssumption, FS_Subset
      <4>5. IsFiniteSet(Followed)
        BY <1>2, FollowedAre
      <4>6. IsFiniteSet(Paths(Followed, query.vertex_id_list, query.k))
        BY <1>3, <4>3, <4>5, PathsAreFinite
      <4> QED
        BY <4>2, <4>4, <4>6, FS_CardinalityType
    <3> QED
      BY <3>1, <3>2
  <2> QED
    BY <1>1, <2>1, <2>3 DEF TypeOK
<1>8. CASE CommonAnswer
  <2>1. /\ vids' = vids /\ visited' = visited /\ neighbor_sets' = neighbor_sets /\ at = "answer" /\ Common
        /\ count' = Cardinality({v \in neighbor_sets[MinIdx] :
                       \A i \in DOMAIN neighbor_sets \ {MinIdx} : v \in neighbor_sets[i]})
    BY <1>8 DEF CommonAnswer
  <2>2. neighbor_sets \in Seq(SUBSET Vertex) /\ 0 < Len(neighbor_sets)
    BY <1>2, <2>1 DEF CommonInv
  <2>3. neighbor_sets[MinIdx] \in SUBSET Vertex
    BY <2>2, MinIdxExists
  <2> DEFINE some == {v \in neighbor_sets[MinIdx] :
                       \A i \in DOMAIN neighbor_sets \ {MinIdx} : v \in neighbor_sets[i]}
  <2>4. some \in SUBSET Vertex
    BY <2>3
  <2> HIDE DEF some
  <2>5. Cardinality(some) \in Nat
    BY <2>4, VertexAssumption, FS_Subset, FS_CardinalityType
  <2>6. count' \in Nat
    BY <2>1, <2>5 DEF some
  <2> QED
    BY <1>1, <2>1, <2>6 DEF TypeOK
<1> QED
  BY <1>4, <1>5, <1>6, <1>7, <1>8

\* Every value stays of its type: a level is a bag of vertices, what was visited
\* are vertices, and no query goes further than it was asked to.
THEOREM TraversalTyping == Spec => []TypeOK
<1>1. Init => TypeOK
  <2> SUFFICES ASSUME Init PROVE TypeOK
    OBVIOUS
  <2>1. query.vertex_id_list \in Seq(Vertex)
    BY QueryAssumption DEF Init
  <2> QED
    BY <2>1, OnceMembers DEF Init, TypeOK
<1>2. TypeOK /\ Inv /\ Inv' /\ [Next]_vars => TypeOK'
  <2> SUFFICES ASSUME TypeOK, Inv, Inv', [Next]_vars PROVE TypeOK'
    OBVIOUS
  <2>1. CASE UNCHANGED vars \/ Done
    BY <2>1 DEF vars, Done, TypeOK
  <2>2. CASE KHopScan \/ AdjScan \/ CommonScan
    BY <2>2, ScanTypes
  <2>3. CASE NextLevel \/ NextVertex
    BY <2>3, LevelTypes
  <2>4. CASE Refuse \/ Begin \/ BeginCommon \/ Answer \/ CommonAnswer
    BY <2>4, CallTypes
  <2> QED
    BY <2>1, <2>2, <2>3, <2>4 DEF Next
<1> QED
  BY <1>1, <1>2, Invariant, PTL DEF Spec

-----------------------------------------------------------------------------
(* Subgraph matching *)

CONSTANT Patterns
VARIABLES pattern, var_names, depth, next, current_mapping, total

\* get_subgraph_matching_count on any graph that may be stored.
Matching == INSTANCE SubgraphMatching

\* It reads the table in the same way.
LEMMA SameTable == \A graph : Matching!EdgeTable(graph) = EdgeTable(graph)
BY DEF Matching!EdgeTable, EdgeTable, Matching!InOrder, InOrder, Matching!Before, Before,
       Matching!OUTGOING, OUTGOING, Matching!INCOMING, INCOMING,
       Matching!IsStrictPrefix, IsStrictPrefix, Matching!IsPrefix, IsPrefix
LEMMA SameOrder == \A S : Matching!InOrder(S) = InOrder(S)
BY DEF Matching!InOrder, InOrder, Matching!Before, Before,
       Matching!IsStrictPrefix, IsStrictPrefix, Matching!IsPrefix, IsPrefix
LEMMA SameScan == \A ks, p : Matching!Neighbors(ks, p) = Neighbors(ks, p)
BY DEF Matching!Neighbors, Neighbors, Matching!ReadFrom, ReadFrom,
       Matching!SearchNear, SearchNear, Matching!Before, Before,
       Matching!IsStrictPrefix, IsStrictPrefix, Matching!IsPrefix, IsPrefix,
       Matching!Max, Max, Matching!Min, Min
LEMMA SameCounts == \A S : /\ Matching!IsFiniteSet(S) <=> IsFiniteSet(S)
                           /\ Matching!Cardinality(S) = Cardinality(S)
BY DEF Matching!IsFiniteSet, IsFiniteSet, Matching!Cardinality, Cardinality

\* What a search does not change.
Pattern ==
    /\ \E graph \in EdgeSets : keys = EdgeTable(graph)
    /\ pattern \in Patterns /\ Matching!WellFormed(pattern)
    /\ var_names \in Matching!Orders(pattern.nodes)

\* A look-up with a full prefix finds the one edge that is asked for, if it is stored.
LEMMA LookUpIsStored ==
    ASSUME Pattern, NEW u \in Nat, NEW d \in {OUTGOING, INCOMING}, NEW r \in Nat, NEW v
    PROVE  (\E found \in Matching!Neighbors(keys, <<u, d, r>>) : \E key \in found : key[4] = v)
             <=> <<u, d, r, v>> \in ToSet(keys)
<1> DEFINE p == <<u, d, r>>
<1>1. PICK graph \in EdgeSets : keys = EdgeTable(graph)
  BY DEF Pattern
<1>2. Sorts(keys, KeysOf(graph)) /\ ToSet(keys) = KeysOf(graph) /\ KeysOf(graph) \in SUBSET Tuples(4)
  BY <1>1, TableSorts, KeysAreFinite DEF IsKey
<1>3. p \in Tuples(3) /\ Len(p) = 3
  <2>1. u \in Int /\ d \in Int /\ r \in Int
    BY DEF OUTGOING, INCOMING
  <2>2. p \in Seq(Int) /\ Len(p) = 3
    BY <2>1
  <2> QED
    BY <2>2 DEF Tuples
<1>4. Matching!Neighbors(keys, p) = {{key \in ToSet(keys) : Matches(key, p)}}
  <2> HIDE DEF p
  <2>1. 3 \in 1 .. 3
    OBVIOUS
  <2> QED
    BY <1>2, <1>3, <2>1, NeighborsMatch, SameScan
<1>5. ASSUME NEW key \in ToSet(keys)
      PROVE  Matches(key, p) /\ key[4] = v <=> key = <<u, d, r, v>>
  <2>1. Matches(key, p) <=> key[1] = u /\ key[2] = d /\ key[3] = r
    BY <1>3 DEF Matches
  <2>2. key \in Seq(Int) /\ Len(key) = 4
    BY <1>2 DEF Tuples
  <2>3. key = <<key[1], key[2], key[3], key[4]>>
    BY <2>2
  <2> QED
    BY <2>1, <2>3
<1>6. (\E found \in Matching!Neighbors(keys, p) : \E key \in found : key[4] = v)
        <=> \E key \in ToSet(keys) : Matches(key, p) /\ key[4] = v
  <2> HIDE DEF p
  <2> QED
    BY <1>4
<1> QED
  BY <1>5, <1>6

\* The candidates of a variable come in ascending order, each once.
LEMMA CandidatesAscend ==
    ASSUME NEW x
    PROVE  LET c == Matching!candidates(x)
               S == Matching!CandidateSet(pattern.nodes, x)
           IN  /\ S \subseteq Vertex /\ Len(c) \in Nat
               /\ \A i \in 1 .. Len(c) : c[i][1] \in S
               /\ \A v \in S : \E i \in 1 .. Len(c) : c[i][1] = v
               /\ \A i, j \in 1 .. Len(c) : i < j => c[i][1] < c[j][1]
<1> DEFINE c == Matching!candidates(x)
           S == Matching!CandidateSet(pattern.nodes, x)
           T == {<<v>> : v \in S}
<1>1. S \in SUBSET Vertex /\ IsFiniteSet(S) /\ S \subseteq Int
  <2>1. S \in SUBSET Vertex
    BY DEF Matching!CandidateSet
  <2> HIDE DEF S
  <2>2. IsFiniteSet(S)
    BY <2>1, VertexAssumption, FS_Subset
  <2>3. S \subseteq Int
    BY <2>1, VertexAssumption
  <2> QED
    BY <2>1, <2>2, <2>3
<1>2. T \in SUBSET Tuples(1) /\ IsFiniteSet(T)
  <2> HIDE DEF S
  <2>1. ASSUME NEW v \in S PROVE <<v>> \in Tuples(1)
    <3>1. v \in Int
      BY <1>1
    <3>2. <<v>> \in Seq(Int) /\ Len(<<v>>) = 1
      BY <3>1
    <3> QED
      BY <3>2 DEF Tuples
  <2> DEFINE f == [v \in S |-> <<v>>]
  <2>2. IsFiniteSet({f[v] : v \in S})
    <3>1. f = [v \in S |-> f[v]]
      OBVIOUS
    <3> HIDE DEF f
    <3> QED
      BY <1>1, <3>1, ImageIsFinite
  <2>3. T = {f[v] : v \in S}
    OBVIOUS
  <2> QED
    BY <2>1, <2>2, <2>3
<1>3. Sorts(c, T)
  <2>1. c = InOrder(T)
    BY SameOrder DEF Matching!candidates
  <2>2. 1 \in Nat
    OBVIOUS
  <2> HIDE DEF c, T
  <2> QED
    BY <1>2, <2>1, <2>2, InOrderSorts
<1> HIDE DEF c, S
<1>4. /\ c \in Seq(T) /\ Len(c) \in Nat
      /\ \A i \in 1 .. Len(c) : c[i] \in T
      /\ \A t \in T : \E i \in 1 .. Len(c) : c[i] = t
      /\ \A i, j \in 1 .. Len(c) : i < j => Before(c[i], c[j])
  <2> HIDE DEF T
  <2>1. c \in Seq(T)
    BY <1>3 DEF Sorts
  <2> QED
    BY <1>3, <2>1 DEF Sorts
<1>5. \A t \in T : t[1] \in S
  OBVIOUS
<1>6. ASSUME NEW v \in S PROVE \E i \in 1 .. Len(c) : c[i][1] = v
  <2>1. <<v>> \in T
    OBVIOUS
  <2>2. PICK i \in 1 .. Len(c) : c[i] = <<v>>
    BY <1>4, <2>1
  <2> QED
    BY <2>2
<1>7. ASSUME NEW i \in 1 .. Len(c), NEW j \in 1 .. Len(c), i < j PROVE c[i][1] < c[j][1]
  <2>1. Before(c[i], c[j]) /\ c[i] \in Tuples(1) /\ c[j] \in Tuples(1)
    BY <1>2, <1>4, <1>7
  <2>2. Less(c[i], c[j], 1)
    BY <2>1, BeforeIsLess
  <2> QED
    BY <2>2 DEF Less
<1> QED
  BY <1>1, <1>4, <1>5, <1>6, <1>7 DEF c, S

\* Of the candidates of x all up to v have been tried when the k-th is next.
Tried(x, k, v) ==
    k <= Len(Matching!candidates(x)) => v < Matching!candidates(x)[k][1]

\* At first none has; after the k-th those up to it have.
LEMMA TriedSteps ==
    ASSUME NEW x, NEW v \in Matching!CandidateSet(pattern.nodes, x)
    PROVE  /\ ~ Tried(x, 1, v)
           /\ \A k \in 1 .. Len(Matching!candidates(x)) :
                 Tried(x, k + 1, v) <=> v <= Matching!candidates(x)[k][1]
<1> DEFINE c == Matching!candidates(x)
           S == Matching!CandidateSet(pattern.nodes, x)
           n == Len(c)
<1>1. /\ S \subseteq Vertex /\ n \in Nat
      /\ \A i \in 1 .. n : c[i][1] \in S
      /\ \A w \in S : \E i \in 1 .. n : c[i][1] = w
      /\ \A i, j \in 1 .. n : i < j => c[i][1] < c[j][1]
  BY CandidatesAscend
<1>2. v \in S
  OBVIOUS
<1> HIDE DEF S
<1>3. PICK i \in 1 .. n : c[i][1] = v
  BY <1>1, <1>2
<1>4. \A j \in 1 .. n : c[j][1] \in Int
  <2>1. S \subseteq Int
    BY <1>1, VertexAssumption
  <2> HIDE DEF c, n
  <2> QED
    BY <1>1, <2>1
<1>5. ~ Tried(x, 1, v)
  <2>1. 1 \in 1 .. n /\ (1 < i \/ i = 1)
    BY <1>1, <1>3
  <2>2. c[1][1] <= v
    BY <1>1, <1>3, <1>4, <2>1
  <2> QED
    BY <1>3, <1>4, <2>1, <2>2 DEF Tried
<1>6. ASSUME NEW k \in 1 .. n PROVE Tried(x, k + 1, v) <=> v <= c[k][1]
  <2>1. CASE i <= k
    <3>1. v <= c[k][1]
      BY <1>1, <1>3, <1>4, <2>1
    <3>2. ASSUME k + 1 <= n PROVE v < c[k + 1][1]
      <4>1. k + 1 \in 1 .. n /\ i < k + 1
        BY <1>1, <2>1, <3>2
      <4> QED
        BY <1>1, <1>3, <4>1
    <3> QED
      BY <3>1, <3>2 DEF Tried
  <2>2. CASE k < i
    <3>1. ~ (v <= c[k][1])
      BY <1>1, <1>3, <1>4, <2>2
    <3>2. k + 1 \in 1 .. n /\ (k + 1 = i \/ k + 1 < i)
      BY <1>1, <2>2
    <3>3. c[k + 1][1] <= v
      BY <1>1, <1>3, <1>4, <3>2
    <3>4. ~ (v < c[k + 1][1])
      BY <1>3, <1>4, <3>2, <3>3
    <3> QED
      BY <3>1, <3>2, <3>4 DEF Tried
  <2> QED
    BY <1>1, <2>1, <2>2
<1> QED
  BY <1>5, <1>6

\* var_names has each variable once, and IndexOf finds it.
LEMMA OrderIs ==
    ASSUME Pattern
    PROVE  /\ Len(var_names) \in Nat /\ DOMAIN var_names = 1 .. Len(var_names)
           /\ \A i \in 1 .. Len(var_names) :
                 var_names[i] \in Matching!Var /\ Matching!IndexOf(var_names[i]) = i
           /\ \A x \in Matching!Var :
                 /\ Matching!IndexOf(x) \in 1 .. Len(var_names)
                 /\ var_names[Matching!IndexOf(x)] = x
<1> DEFINE V == Matching!Var
           n == Cardinality(V)
<1>1. IsFiniteSet(V) /\ n \in Nat
  BY SameCounts, FS_CardinalityType DEF Matching!WellFormed, Pattern, Matching!Var
<1>2. /\ var_names \in [1 .. n -> V]
      /\ \A i, j \in 1 .. n : var_names[i] = var_names[j] => i = j
  BY SameCounts DEF Pattern, Matching!Orders, Matching!Var
<1> HIDE DEF V, n
<1>3. Len(var_names) = n /\ DOMAIN var_names = 1 .. n
  BY <1>1, <1>2
<1>4. var_names \in Surjection(1 .. n, V)
  <2>1. var_names \in Injection(1 .. n, V)
    BY <1>2 DEF Injection, IsInjective
  <2>2. Cardinality(1 .. n) = n
    BY <1>1, FS_Interval
  <2> QED
    BY <1>1, <2>1, <2>2, FS_Injection DEF n
<1>5. \A x \in V : \E i \in 1 .. n : var_names[i] = x
  BY <1>4 DEF Surjection
<1>6. ASSUME NEW i \in 1 .. n PROVE Matching!IndexOf(var_names[i]) = i
  BY <1>2, <1>3 DEF Matching!IndexOf
<1>7. ASSUME NEW x \in V PROVE Matching!IndexOf(x) \in 1 .. n /\ var_names[Matching!IndexOf(x)] = x
  BY <1>5, <1>6
<1> QED
  BY <1>1, <1>2, <1>3, <1>6, <1>7 DEF V

\* Two assignments agree in the first d variables; one is behind another if it is
\* less where they first differ, among the first d.
Agree(h, f, d) == \A i \in 1 .. d : h[var_names[i]] = f[var_names[i]]
Behind(h, f, d) == \E i \in 1 .. d : Agree(h, f, i - 1) /\ h[var_names[i]] < f[var_names[i]]

\* The search is past h when it has d variables, nx next and f assigned.
PastBy(h, d, nx, f) ==
    \/ Behind(h, f, d)
    \/ /\ d < Len(var_names) /\ Agree(h, f, d)
       /\ Tried(var_names[d + 1], nx[var_names[d + 1]], h[var_names[d + 1]])

\* One more variable.
LEMMA OneMore ==
    ASSUME NEW h, NEW f, NEW d \in Nat
    PROVE  /\ Agree(h, f, d + 1) <=> Agree(h, f, d) /\ h[var_names[d + 1]] = f[var_names[d + 1]]
           /\ Behind(h, f, d + 1)
                <=> (Behind(h, f, d) \/ (Agree(h, f, d) /\ h[var_names[d + 1]] < f[var_names[d + 1]]))
           /\ Agree(h, f, 0) /\ ~ Behind(h, f, 0)
<1>1. /\ \A i : i \in 1 .. d + 1 <=> i \in 1 .. d \/ i = d + 1
      /\ (d + 1) - 1 = d /\ d + 1 \in 1 .. d + 1 /\ 1 .. 0 = {}
  OBVIOUS
<1>2. Agree(h, f, d + 1) <=> Agree(h, f, d) /\ h[var_names[d + 1]] = f[var_names[d + 1]]
  BY <1>1 DEF Agree
<1>3. Behind(h, f, d + 1)
        <=> (Behind(h, f, d) \/ (Agree(h, f, d) /\ h[var_names[d + 1]] < f[var_names[d + 1]]))
  <2> HIDE DEF Agree
  <2>1. ASSUME NEW i \in 1 .. d + 1, Agree(h, f, i - 1), h[var_names[i]] < f[var_names[i]]
        PROVE  Behind(h, f, d) \/ (Agree(h, f, d) /\ h[var_names[d + 1]] < f[var_names[d + 1]])
    BY <1>1, <2>1 DEF Behind
  <2>2. Behind(h, f, d) => Behind(h, f, d + 1)
    BY <1>1 DEF Behind
  <2>3. Agree(h, f, d) /\ h[var_names[d + 1]] < f[var_names[d + 1]] => Behind(h, f, d + 1)
    <3>1. ASSUME Agree(h, f, d), h[var_names[d + 1]] < f[var_names[d + 1]] PROVE Behind(h, f, d + 1)
      <4>1. Agree(h, f, (d + 1) - 1)
        BY <1>1, <3>1
      <4> QED
        BY <1>1, <3>1, <4>1 DEF Behind
    <3> QED
      BY <3>1
  <2> QED
    BY <2>1, <2>2, <2>3 DEF Behind
<1> QED
  BY <1>1, <1>2, <1>3 DEF Agree, Behind

\* A variable further on decides nothing.
LEMMA LaterDecidesNothing ==
    ASSUME NEW h, NEW f, NEW g, NEW d \in Nat,
           \A i \in 1 .. d : g[var_names[i]] = f[var_names[i]]
    PROVE  (Agree(h, g, d) <=> Agree(h, f, d)) /\ (Behind(h, g, d) <=> Behind(h, f, d))
<1>1. \A e \in 0 .. d : Agree(h, g, e) <=> Agree(h, f, e)
  BY DEF Agree
<1>2. d \in 0 .. d /\ \A i \in 1 .. d : i - 1 \in 0 .. d
  OBVIOUS
<1>3. Agree(h, g, d) <=> Agree(h, f, d)
  BY <1>1, <1>2
<1>4. Behind(h, g, d) <=> Behind(h, f, d)
  <2> HIDE DEF Agree
  <2> QED
    BY <1>1, <1>2 DEF Behind
<1> QED
  BY <1>3, <1>4

\* That is what Passed says, now and after a step.
LEMMA PassedIs ==
    ASSUME Pattern, depth \in Nat, NEW h
    PROVE  Matching!Passed(h) <=> at = "done" \/ PastBy(h, depth, next, current_mapping)
<1>1. (\A x \in Matching!Assigned : h[x] = current_mapping[x]) <=> Agree(h, current_mapping, depth)
  BY DEF Matching!Assigned, Agree
<1>2. (\E i \in 1 .. depth :
          /\ \A j \in 1 .. i - 1 : h[var_names[j]] = current_mapping[var_names[j]]
          /\ h[var_names[i]] < current_mapping[var_names[i]])
        <=> Behind(h, current_mapping, depth)
  BY DEF Behind, Agree
<1>3. (Matching!HasCandidate => h[Matching!Variable] < Matching!Candidate)
        <=> Tried(var_names[depth + 1], next[var_names[depth + 1]], h[var_names[depth + 1]])
  BY DEF Matching!HasCandidate, Matching!Candidate, Matching!Variable, Tried
<1> QED
  BY <1>1, <1>2, <1>3 DEF Matching!Passed, PastBy
LEMMA PassedLater ==
    ASSUME pattern' = pattern, var_names' = var_names, depth' \in Nat, NEW h
    PROVE  Matching!Passed(h)' <=> at' = "done" \/ PastBy(h, depth', next', current_mapping')
<1>1. (\A x \in Matching!Assigned' : h[x] = current_mapping'[x]) <=> Agree(h, current_mapping', depth')
  BY DEF Matching!Assigned, Agree
<1>2. (\E i \in 1 .. depth' :
          /\ \A j \in 1 .. i - 1 : h[var_names[j]] = current_mapping'[var_names[j]]
          /\ h[var_names[i]] < current_mapping'[var_names[i]])
        <=> Behind(h, current_mapping', depth')
  BY DEF Behind, Agree
<1>3. \A x : Matching!candidates(x)' = Matching!candidates(x)
  BY DEF Matching!candidates, Matching!CandidateSet
<1>4. (Matching!HasCandidate' => h[Matching!Variable'] < Matching!Candidate')
        <=> Tried(var_names[depth' + 1], next'[var_names[depth' + 1]], h[var_names[depth' + 1]])
  BY <1>3 DEF Matching!HasCandidate, Matching!Candidate, Matching!Variable, Tried
<1> QED
  BY <1>1, <1>2, <1>4 DEF Matching!Passed, PastBy

\* An assignment that gives a variable a candidate.
Admits(h, x) == h[x] \in Matching!CandidateSet(pattern.nodes, x)

\* The variable after the first d gets its next candidate in g, and the one after it
\* begins anew in mx.
OneAssigned(d, nx, f, mx, g) ==
    LET x == var_names[d + 1]
    IN  /\ \A i \in 1 .. d : g[var_names[i]] = f[var_names[i]]
        /\ nx[x] \in 1 .. Len(Matching!candidates(x))
        /\ g[x] = Matching!candidates(x)[nx[x]][1]
        /\ d + 1 < Len(var_names) => mx[var_names[d + 2]] = 1

\* That passes by nothing that has candidates.
LEMMA AssignPasses ==
    ASSUME NEW h, NEW f, NEW g, NEW nx, NEW mx, NEW d \in Nat, d < Len(var_names), Len(var_names) \in Nat,
           OneAssigned(d, nx, f, mx, g),
           d + 1 < Len(var_names) => Admits(h, var_names[d + 2])
    PROVE  PastBy(h, d + 1, mx, g) <=> PastBy(h, d, nx, f)
<1> USE DEF OneAssigned
<1> DEFINE x == var_names[d + 1]
<1>1. /\ Behind(h, g, d + 1) <=> Behind(h, g, d) \/ (Agree(h, g, d) /\ h[x] < g[x])
      /\ Behind(h, g, d) <=> Behind(h, f, d)
      /\ Agree(h, g, d) <=> Agree(h, f, d)
  BY OneMore, LaterDecidesNothing
<1>2. Tried(x, nx[x], h[x]) <=> h[x] < g[x]
  BY DEF Tried
<1>3. d + 1 < Len(var_names) => ~ Tried(var_names[(d + 1) + 1], mx[var_names[(d + 1) + 1]], h[var_names[(d + 1) + 1]])
  <2>1. (d + 1) + 1 = d + 2
    OBVIOUS
  <2> QED
    BY <2>1, TriedSteps DEF Admits
<1> QED
  BY <1>1, <1>2, <1>3 DEF PastBy

\* To come back to a variable passes by what agrees up to it.
LEMMA ReturnPasses ==
    ASSUME NEW h, NEW f, NEW nx, NEW d \in Nat, d + 1 <= Len(var_names), Len(var_names) \in Nat,
           nx[var_names[d + 1]] - 1 \in 1 .. Len(Matching!candidates(var_names[d + 1])),
           nx[var_names[d + 1]] \in Nat,
           f[var_names[d + 1]] = Matching!candidates(var_names[d + 1])[nx[var_names[d + 1]] - 1][1],
           Admits(h, var_names[d + 1])
    PROVE  PastBy(h, d, nx, f) <=> Behind(h, f, d + 1) \/ Agree(h, f, d + 1)
<1> DEFINE x == var_names[d + 1]
           c == Matching!candidates(x)
           k == nx[x] - 1
<1>1. k + 1 = nx[x] /\ k \in 1 .. Len(c)
  OBVIOUS
<1>2. Tried(x, nx[x], h[x]) <=> h[x] <= f[x]
  <2>1. Tried(x, k + 1, h[x]) <=> h[x] <= c[k][1]
    BY <1>1, TriedSteps DEF Admits
  <2> QED
    BY <1>1, <2>1
<1>3. h[x] \in Int /\ f[x] \in Int
  <2>1. Matching!CandidateSet(pattern.nodes, x) \subseteq Int
    <3>1. Matching!CandidateSet(pattern.nodes, x) \subseteq Vertex /\ Vertex \subseteq Int
      BY VertexAssumption DEF Matching!CandidateSet
    <3> QED
      BY <3>1
  <2>2. h[x] \in Matching!CandidateSet(pattern.nodes, x)
    BY DEF Admits
  <2>3. f[x] = c[k][1]
    OBVIOUS
  <2>4. c[k][1] \in Matching!CandidateSet(pattern.nodes, x)
    BY <1>1, CandidatesAscend, SMTT(30)
  <2> QED
    BY <2>1, <2>2, <2>3, <2>4
<1>4. /\ Behind(h, f, d + 1) <=> Behind(h, f, d) \/ (Agree(h, f, d) /\ h[x] < f[x])
      /\ Agree(h, f, d + 1) <=> Agree(h, f, d) /\ h[x] = f[x]
  BY OneMore, SMTT(30)
<1>5. d < Len(var_names)
  OBVIOUS
<1> HIDE DEF x, c, k
<1> QED
  BY <1>2, <1>3, <1>4, <1>5 DEF PastBy, x

\* An edge of the pattern, under an assignment, is in the graph.
HasEdge(e, h) == \E r \in e.relations : <<h[e.source], e.direction, r, h[e.target]>> \in ToSet(keys)

\* The search assigns the variables in order, from their candidates; what is assigned
\* has the edges of the pattern, and no variable with an edge to itself.
Placed(d, nx, f) ==
    /\ d \in 0 .. Len(var_names)
    /\ nx \in [Matching!Var -> Nat \ {0}]
    /\ f \in [Matching!Var -> Nat]
    /\ \A i \in 1 .. d :
          /\ nx[var_names[i]] - 1 \in 1 .. Len(Matching!candidates(var_names[i]))
          /\ f[var_names[i]] = Matching!candidates(var_names[i])[nx[var_names[i]] - 1][1]
    /\ \A e \in pattern.edges :
          e.source = e.target => Matching!IndexOf(e.source) > d /\ f[e.source] = 0
    /\ \A e \in pattern.edges :
          Matching!IndexOf(e.source) <= d /\ Matching!IndexOf(e.target) <= d => HasEdge(e, f)
Search ==
    /\ Placed(depth, next, current_mapping)
    /\ total \in Nat /\ at \in {"search", "done"}

\* The homomorphisms counted so far: in a pattern with a loop, none.
Counted == {h \in Matching!Homomorphisms : Matching!Passed(h) /\ Matching!Findable}

\* The inductive invariant.
MatchingInv ==
    /\ Pattern /\ Search
    /\ IsFiniteSet(Counted) /\ total = Cardinality(Counted)

\* Found finds an edge of the pattern whose other end is assigned, and no loop.
LEMMA FoundIs ==
    ASSUME Pattern, Search, depth < Len(var_names), NEW e \in Matching!EdgesAtDepth,
           NEW vid \in Vertex, Matching!Found(e, vid),
           NEW g, g = [current_mapping EXCEPT ![Matching!Variable] = vid]
    PROVE  e.source # e.target /\ HasEdge(e, g)
<1> DEFINE x == var_names[depth + 1]
           m == current_mapping
           u == IF Matching!IndexOf(e.source) = depth + 1 THEN vid ELSE m[e.source]
           v == IF Matching!IndexOf(e.source) = depth + 1 THEN m[e.target] ELSE vid
<1>1. /\ Len(var_names) \in Nat
      /\ \A i \in 1 .. Len(var_names) :
            var_names[i] \in Matching!Var /\ Matching!IndexOf(var_names[i]) = i
      /\ \A y \in Matching!Var :
            Matching!IndexOf(y) \in 1 .. Len(var_names) /\ var_names[Matching!IndexOf(y)] = y
  BY OrderIs
<1>2. /\ e \in pattern.edges /\ e.source \in Matching!Var /\ e.target \in Matching!Var
      /\ e.relations \subseteq Nat /\ e.direction \in {OUTGOING, INCOMING}
  BY DEF Matching!EdgesAtDepth, Pattern, Matching!WellFormed, Matching!Var,
         Matching!OUTGOING, OUTGOING, Matching!INCOMING, INCOMING
<1>3. /\ depth \in Nat /\ m \in [Matching!Var -> Nat]
      /\ e.source = e.target => m[e.source] = 0
  BY <1>2 DEF Search, Placed
<1>4. /\ Matching!IndexOf(e.source) \in Nat /\ Matching!IndexOf(e.target) \in Nat
      /\ Matching!IndexOf(e.source) = depth + 1 \/ Matching!IndexOf(e.target) = depth + 1
  <2>1. Matching!IndexOf(e.source) \in Nat /\ Matching!IndexOf(e.target) \in Nat
    BY <1>1, <1>2
  <2>2. Matching!Max({Matching!IndexOf(e.source), Matching!IndexOf(e.target)}) = depth + 1
    BY DEF Matching!EdgesAtDepth
  <2> DEFINE S == {Matching!IndexOf(e.source), Matching!IndexOf(e.target)}
  <2>3. \E i \in S : \A j \in S : i >= j
    BY <2>1
  <2>4. Matching!Max(S) \in S
    <3> HIDE DEF S
    <3> QED
      BY <2>3 DEF Matching!Max
  <2> QED
    BY <2>1, <2>2, <2>4
<1>5. Matching!Variable = x /\ x \in Matching!Var /\ Matching!IndexOf(x) = depth + 1
  BY <1>1, <1>3 DEF Matching!Variable
<1>6. \A y \in Matching!Var : Matching!IndexOf(y) = depth + 1 <=> y = x
  BY <1>1, <1>3, <1>5
<1>7. u \in Nat /\ Vertex \subseteq Nat /\ 0 \notin Vertex
  BY <1>2, <1>3, VertexAssumption
<1>8. PICK r \in e.relations : <<u, e.direction, r, v>> \in ToSet(keys)
  <2>1. PICK r \in e.relations : \E found \in Matching!Neighbors(keys, <<u, e.direction, r>>) :
           \E key \in found : key[4] = v
    BY DEF Matching!Found
  <2>2. r \in Nat
    BY <1>2
  <2> HIDE DEF u, v
  <2>3. <<u, e.direction, r, v>> \in ToSet(keys)
    BY <1>2, <1>7, <2>1, <2>2, LookUpIsStored
  <2> QED
    BY <2>3
<1>9. v \in Vertex
  <2>1. \A key \in ToSet(keys) : key[4] \in Vertex
    BY TableSorts, KeysAreFinite DEF Pattern, IsKey
  <2>2. <<u, e.direction, r, v>>[4] = v
    OBVIOUS
  <2> HIDE DEF u, v
  <2> QED
    BY <1>8, <2>1, <2>2
<1>10. e.source # e.target
  BY <1>3, <1>4, <1>7, <1>9
<1>11. g[e.source] = u /\ g[e.target] = v
  BY <1>2, <1>3, <1>4, <1>5, <1>6, <1>10
<1> HIDE DEF u, v
<1> QED
  BY <1>8, <1>10, <1>11 DEF HasEdge

\* If each edge with its later end here is in the graph, Found finds it.
LEMMA FindsAll ==
    ASSUME Pattern, Search, depth < Len(var_names), NEW e \in Matching!EdgesAtDepth,
           NEW h \in Matching!Homomorphisms, Agree(h, current_mapping, depth),
           e.source # e.target
    PROVE  Matching!Found(e, h[Matching!Variable])
<1> DEFINE x == var_names[depth + 1]
           m == current_mapping
           vid == h[x]
           u == IF Matching!IndexOf(e.source) = depth + 1 THEN vid ELSE m[e.source]
           v == IF Matching!IndexOf(e.source) = depth + 1 THEN m[e.target] ELSE vid
<1>1. /\ Len(var_names) \in Nat
      /\ \A i \in 1 .. Len(var_names) :
            var_names[i] \in Matching!Var /\ Matching!IndexOf(var_names[i]) = i
      /\ \A y \in Matching!Var :
            Matching!IndexOf(y) \in 1 .. Len(var_names) /\ var_names[Matching!IndexOf(y)] = y
  BY OrderIs
<1>2. /\ e \in pattern.edges /\ e.source \in Matching!Var /\ e.target \in Matching!Var
      /\ e.relations \subseteq Nat /\ e.direction \in {OUTGOING, INCOMING}
  BY DEF Matching!EdgesAtDepth, Pattern, Matching!WellFormed, Matching!Var,
         Matching!OUTGOING, OUTGOING, Matching!INCOMING, INCOMING
<1>3. depth \in Nat
  BY DEF Search, Placed
<1> DEFINE a == Matching!IndexOf(e.source)
           b == Matching!IndexOf(e.target)
<1>4. /\ a \in 1 .. depth + 1 /\ b \in 1 .. depth + 1 /\ a # b
      /\ a = depth + 1 \/ b = depth + 1
  <2>1. a \in Nat /\ b \in Nat /\ a >= 1 /\ b >= 1 /\ var_names[a] = e.source /\ var_names[b] = e.target
    BY <1>1, <1>2
  <2>2. Matching!Max({a, b}) = depth + 1
    BY DEF Matching!EdgesAtDepth
  <2>3. a # b
    BY <2>1
  <2> HIDE DEF a, b
  <2> DEFINE S == {a, b}
  <2>4. \E i \in S : \A j \in S : i >= j
    BY <2>1
  <2>5. Matching!Max(S) \in S /\ \A j \in S : Matching!Max(S) >= j
    <3> HIDE DEF S
    <3> QED
      BY <2>4 DEF Matching!Max
  <2> QED
    BY <1>3, <2>1, <2>2, <2>3, <2>5
<1>5. /\ h \in [Matching!Var -> Vertex] /\ Vertex \subseteq Nat
      /\ \E r \in e.relations : <<h[e.source], e.direction, r, h[e.target]>> \in ToSet(keys)
  <2>1. \A r : Matching!ToSet(keys) = ToSet(keys)
    BY DEF Matching!ToSet, ToSet
  <2> QED
    BY <1>2, <2>1, VertexAssumption DEF Matching!Homomorphisms
<1>6. \A y \in Matching!Var : Matching!IndexOf(y) \in 1 .. depth => h[y] = m[y]
  BY <1>1 DEF Agree
<1>7. u = h[e.source] /\ v = h[e.target]
  <2>1. a = depth + 1 => e.source = x
    BY <1>1, <1>2
  <2>2. b = depth + 1 => e.target = x
    BY <1>1, <1>2
  <2> QED
    BY <1>2, <1>3, <1>4, <1>6, <2>1, <2>2
<1>8. PICK r \in e.relations : <<u, e.direction, r, v>> \in ToSet(keys)
  BY <1>5, <1>7
<1>9. \E found \in Matching!Neighbors(keys, <<u, e.direction, r>>) : \E key \in found : key[4] = v
  <2>1. u \in Nat /\ r \in Nat
    BY <1>2, <1>5, <1>7
  <2> HIDE DEF u, v
  <2> QED
    BY <1>2, <1>8, <2>1, LookUpIsStored
<1>10. Matching!Variable = x
  BY DEF Matching!Variable
<1> QED
  BY <1>9, <1>10 DEF Matching!Found

\* What a step that leaves table, pattern and order alone does to all this.
LEMMA SearchStays ==
    ASSUME Pattern, keys' = keys, pattern' = pattern, var_names' = var_names
    PROVE  /\ Pattern'
           /\ Matching!Homomorphisms' = Matching!Homomorphisms
           /\ Matching!Findable' = Matching!Findable
           /\ Placed(depth', next', current_mapping') <=> Placed(depth, next, current_mapping)'
<1>1. \A x : Matching!candidates(x)' = Matching!candidates(x)
  BY DEF Matching!candidates, Matching!CandidateSet
<1>2. \A x : Matching!IndexOf(x)' = Matching!IndexOf(x)
  BY DEF Matching!IndexOf
<1>3. Matching!Var' = Matching!Var
  BY DEF Matching!Var
<1>4. \A e : (\E r \in e.relations : <<current_mapping'[e.source], e.direction, r, current_mapping'[e.target]>> \in ToSet(keys))
               <=> HasEdge(e, current_mapping)'
  BY DEF HasEdge
<1>5. Placed(depth', next', current_mapping') <=> Placed(depth, next, current_mapping)'
  BY <1>1, <1>2, <1>3, <1>4 DEF Placed, HasEdge
<1>6. Pattern'
  BY DEF Pattern, Matching!WellFormed, Matching!Orders, Matching!CandidateSet
<1>7. Matching!Homomorphisms' = Matching!Homomorphisms
  BY <1>3 DEF Matching!Homomorphisms
<1>8. Matching!Findable' = Matching!Findable
  BY DEF Matching!Findable
<1> QED
  BY <1>5, <1>6, <1>7, <1>8

\* A homomorphism has a candidate everywhere.
LEMMA HomomorphismsAdmit ==
    ASSUME Pattern, NEW h \in Matching!Homomorphisms
    PROVE  h \in [Matching!Var -> Vertex] /\ \A x \in Matching!Var : Admits(h, x)
BY DEF Matching!Homomorphisms, Admits, Matching!CandidateSet

\* A candidate is assigned.
LEMMA AssignPlaces ==
    ASSUME Pattern, Search, Matching!Assign
    PROVE  Placed(depth', next', current_mapping')
<1> DEFINE x == var_names[depth + 1]
           c == Matching!candidates(x)
           vid == c[next[x]][1]
<1>1. /\ keys' = keys /\ pattern' = pattern /\ var_names' = var_names /\ depth < Len(var_names)
      /\ Matching!Variable = x /\ Matching!Candidate = vid
      /\ next[x] <= Len(c)
      /\ depth' = depth + 1
      /\ current_mapping' = [current_mapping EXCEPT ![x] = vid]
      /\ next' = [y \in Matching!Var |->
                     IF y = x THEN next[y] + 1
                     ELSE IF Matching!IndexOf(y) = depth + 2 THEN 1 ELSE next[y]]
      /\ \A e \in Matching!EdgesAtDepth : Matching!Found(e, vid)
  BY DEF Matching!Assign, Matching!Variable, Matching!Candidate, Matching!HasCandidate
<1>2. /\ Len(var_names) \in Nat
      /\ \A i \in 1 .. Len(var_names) :
            var_names[i] \in Matching!Var /\ Matching!IndexOf(var_names[i]) = i
      /\ \A y \in Matching!Var :
            Matching!IndexOf(y) \in 1 .. Len(var_names) /\ var_names[Matching!IndexOf(y)] = y
  BY OrderIs
<1>3. Placed(depth, next, current_mapping) /\ depth \in Nat
  BY DEF Search, Placed
<1>4. x \in Matching!Var /\ Matching!IndexOf(x) = depth + 1 /\ next[x] \in 1 .. Len(c)
  <2>1. x \in Matching!Var /\ Matching!IndexOf(x) = depth + 1
    BY <1>1, <1>2, <1>3
  <2>2. Len(c) \in Nat
    BY CandidatesAscend
  <2> QED
    BY <1>1, <1>3, <2>1, <2>2 DEF Placed
<1>5. vid \in Vertex /\ vid \in Nat
  <2>1. vid \in Matching!CandidateSet(pattern.nodes, x)
    BY <1>4, CandidatesAscend
  <2> HIDE DEF vid
  <2> QED
    BY <2>1, VertexAssumption DEF Matching!CandidateSet
<1> HIDE DEF x, c
<1>6. next' \in [Matching!Var -> Nat \ {0}] /\ current_mapping' \in [Matching!Var -> Nat]
  <2>1. /\ next \in [Matching!Var -> Nat \ {0}] /\ current_mapping \in [Matching!Var -> Nat]
    BY <1>3 DEF Placed
  <2>2. ASSUME NEW y \in Matching!Var PROVE next'[y] \in Nat \ {0}
    <3>1. next[y] \in Nat \ {0}
      BY <2>1
    <3>2. next'[y] \in {next[y] + 1, 1, next[y]}
      BY <1>1
    <3> QED
      BY <3>1, <3>2
  <2>3. next' = [y \in Matching!Var |-> next'[y]]
    BY <1>1
  <2> HIDE DEF vid
  <2>4. current_mapping' \in [Matching!Var -> Nat]
    BY <1>1, <1>5, <2>1
  <2> QED
    BY <2>2, <2>3, <2>4
<1>7. ASSUME NEW i \in 1 .. depth + 1
      PROVE  /\ next'[var_names[i]] - 1 \in 1 .. Len(Matching!candidates(var_names[i]))
             /\ current_mapping'[var_names[i]]
                   = Matching!candidates(var_names[i])[next'[var_names[i]] - 1][1]
  <2>1. CASE i = depth + 1
    <3>1. var_names[i] = x /\ next'[x] = next[x] + 1 /\ current_mapping'[x] = vid
      BY <1>1, <1>3, <1>4, <2>1 DEF Placed, x
    <3>2. next'[x] - 1 = next[x]
      BY <1>4, <3>1
    <3> QED
      BY <1>4, <3>1, <3>2 DEF c
  <2>2. CASE i \in 1 .. depth
    <3>1. var_names[i] \in Matching!Var /\ Matching!IndexOf(var_names[i]) = i /\ var_names[i] # x
      BY <1>1, <1>2, <1>3, <1>4, <2>2
    <3>2. next'[var_names[i]] = next[var_names[i]] /\ current_mapping'[var_names[i]] = current_mapping[var_names[i]]
      BY <1>1, <1>3, <2>2, <3>1 DEF Placed
    <3> QED
      BY <1>3, <2>2, <3>2 DEF Placed
  <2> QED
    BY <1>3, <2>1, <2>2
<1>8. ASSUME NEW e \in pattern.edges
      PROVE  /\ e.source \in Matching!Var /\ e.target \in Matching!Var
             /\ Matching!IndexOf(e.source) \in Nat /\ Matching!IndexOf(e.target) \in Nat
             /\ \/ Matching!IndexOf(e.source) > depth + 1 \/ Matching!IndexOf(e.target) > depth + 1
                \/ Matching!IndexOf(e.source) <= depth /\ Matching!IndexOf(e.target) <= depth
                \/ e \in Matching!EdgesAtDepth
  <2>1. e.source \in Matching!Var /\ e.target \in Matching!Var
    BY DEF Pattern, Matching!WellFormed, Matching!Var
  <2> DEFINE a == Matching!IndexOf(e.source)
             b == Matching!IndexOf(e.target)
  <2>2. a \in Nat /\ b \in Nat
    BY <1>2, <2>1
  <2>3. ASSUME a <= depth + 1, b <= depth + 1, a = depth + 1 \/ b = depth + 1
        PROVE  e \in Matching!EdgesAtDepth
    <3>1. Matching!Max({a, b}) = depth + 1
      <4> HIDE DEF a, b
      <4> DEFINE S == {a, b}
      <4>1. depth + 1 \in S /\ \A j \in S : j <= depth + 1 /\ j \in Nat
        BY <2>2, <2>3
      <4>2. \A i \in S : (\A j \in S : i >= j) => i = depth + 1
        BY <1>3, <4>1
      <4>3. Matching!Max(S) = depth + 1
        <5> HIDE DEF S
        <5> QED
          BY <1>3, <4>1, <4>2 DEF Matching!Max
      <4> QED
        BY <4>3
    <3> QED
      BY <3>1 DEF Matching!EdgesAtDepth
  <2> HIDE DEF a, b
  <2>4. \/ a > depth + 1 \/ b > depth + 1 \/ (a <= depth /\ b <= depth) \/ e \in Matching!EdgesAtDepth
    BY <1>3, <2>2, <2>3
  <2> QED
    BY <2>1, <2>2, <2>4 DEF a, b
<1>9. ASSUME NEW e \in Matching!EdgesAtDepth
      PROVE  e.source # e.target /\ HasEdge(e, current_mapping')
  <2>1. current_mapping' = [current_mapping EXCEPT ![Matching!Variable] = vid]
    BY <1>1
  <2> HIDE DEF vid
  <2> QED
    BY <1>1, <1>5, <2>1, FoundIs
<1>10. ASSUME NEW e \in pattern.edges, e.source = e.target
       PROVE  Matching!IndexOf(e.source) > depth + 1 /\ current_mapping'[e.source] = 0
  <2>1. Matching!IndexOf(e.source) > depth /\ current_mapping[e.source] = 0
    BY <1>3, <1>10 DEF Placed
  <2>2. Matching!IndexOf(e.source) > depth + 1
    BY <1>3, <1>8, <1>9, <1>10, <2>1
  <2>3. e.source # x /\ e.source \in Matching!Var
    BY <1>3, <1>4, <1>8, <2>2
  <2> QED
    BY <1>1, <1>3, <2>1, <2>2, <2>3 DEF Placed
<1>11. ASSUME NEW e \in pattern.edges,
              Matching!IndexOf(e.source) <= depth + 1, Matching!IndexOf(e.target) <= depth + 1
       PROVE  HasEdge(e, current_mapping')
  <2>1. CASE e \in Matching!EdgesAtDepth
    BY <1>9, <2>1
  <2>2. CASE Matching!IndexOf(e.source) <= depth /\ Matching!IndexOf(e.target) <= depth
    <3>1. e.source # x /\ e.target # x /\ e.source \in Matching!Var /\ e.target \in Matching!Var
      BY <1>3, <1>4, <1>8, <2>2
    <3>2. current_mapping'[e.source] = current_mapping[e.source] /\ current_mapping'[e.target] = current_mapping[e.target]
      BY <1>1, <1>3, <3>1 DEF Placed
    <3>3. HasEdge(e, current_mapping)
      BY <1>3, <2>2 DEF Placed
    <3> QED
      BY <3>2, <3>3 DEF HasEdge
  <2> QED
    BY <1>3, <1>8, <1>11, <2>1, <2>2
<1>12. depth' \in 0 .. Len(var_names)
  BY <1>1, <1>2, <1>3
<1> HIDE DEF vid
<1> QED
  BY <1>1, <1>6, <1>7, <1>10, <1>11, <1>12 DEF Placed

\* A candidate is rejected.
LEMMA RejectPlaces ==
    ASSUME Pattern, Search, Matching!Reject
    PROVE  Placed(depth', next', current_mapping')
<1> DEFINE x == var_names[depth + 1]
<1>1. /\ depth' = depth /\ current_mapping' = current_mapping /\ depth < Len(var_names)
      /\ next' = [next EXCEPT ![x] = @ + 1]
  BY DEF Matching!Reject, Matching!Variable
<1>2. Placed(depth, next, current_mapping) /\ depth \in Nat /\ next \in [Matching!Var -> Nat \ {0}]
  BY DEF Search, Placed
<1>3. Len(var_names) \in Nat /\ \A i \in 1 .. Len(var_names) :
            var_names[i] \in Matching!Var /\ Matching!IndexOf(var_names[i]) = i
  BY OrderIs
<1>4. x \in Matching!Var /\ Matching!IndexOf(x) = depth + 1
  BY <1>1, <1>2, <1>3
<1>5. \A i \in 1 .. depth : var_names[i] # x
  BY <1>1, <1>2, <1>3, <1>4
<1>6. \A i \in 1 .. depth : var_names[i] \in Matching!Var
  BY <1>1, <1>2, <1>3
<1> HIDE DEF x
<1>7. next' \in [Matching!Var -> Nat \ {0}] /\ \A i \in 1 .. depth : next'[var_names[i]] = next[var_names[i]]
  BY <1>1, <1>2, <1>4, <1>5, <1>6
<1> QED
  BY <1>1, <1>2, <1>7 DEF Placed

\* The search returns to the variable before.
LEMMA ReturnPlaces ==
    ASSUME Pattern, Search, Matching!Return, next' = next, current_mapping' = current_mapping
    PROVE  Placed(depth', next', current_mapping')
<1>1. Placed(depth, next, current_mapping) /\ depth \in Nat /\ Len(var_names) \in Nat
  BY OrderIs DEF Search, Placed
<1>2. depth' \in Nat /\ depth' <= depth
  BY <1>1 DEF Matching!Return
<1>3. \A e \in pattern.edges : Matching!IndexOf(e.source) \in Nat /\ Matching!IndexOf(e.target) \in Nat
  BY OrderIs DEF Pattern, Matching!WellFormed, Matching!Var
<1>4. depth' \in 0 .. Len(var_names)
  BY <1>1, <1>2 DEF Placed
<1>5. \A i \in 1 .. depth' : i \in 1 .. depth
  BY <1>1, <1>2
<1>6. \A a \in Nat : (a > depth => a > depth') /\ (a <= depth' => a <= depth)
  BY <1>1, <1>2
<1>7. \A e \in pattern.edges :
         e.source = e.target => Matching!IndexOf(e.source) > depth' /\ current_mapping[e.source] = 0
  BY <1>1, <1>3, <1>6 DEF Placed
<1>8. \A e \in pattern.edges :
         Matching!IndexOf(e.source) <= depth' /\ Matching!IndexOf(e.target) <= depth'
            => HasEdge(e, current_mapping)
  BY <1>1, <1>3, <1>6 DEF Placed
<1> QED
  BY <1>1, <1>4, <1>5, <1>7, <1>8 DEF Placed

\* What has been counted, now and after a step.
LEMMA CountedIs ==
    ASSUME Pattern, Search
    PROVE  Counted = {h \in Matching!Homomorphisms :
                        (at = "done" \/ PastBy(h, depth, next, current_mapping)) /\ Matching!Findable}
BY PassedIs DEF Counted, Search, Placed
LEMMA CountedLater ==
    ASSUME Pattern, keys' = keys, pattern' = pattern, var_names' = var_names, depth' \in Nat
    PROVE  Counted' = {h \in Matching!Homomorphisms :
                         (at' = "done" \/ PastBy(h, depth', next', current_mapping')) /\ Matching!Findable}
<1>1. \A h : Matching!Passed(h)' <=> at' = "done" \/ PastBy(h, depth', next', current_mapping')
  BY PassedLater
<1>2. Matching!Homomorphisms' = Matching!Homomorphisms /\ Matching!Findable' = Matching!Findable
  BY SearchStays
<1>3. Counted' = {h \in Matching!Homomorphisms' : Matching!Passed(h)' /\ Matching!Findable'}
  BY DEF Counted
<1> QED
  BY <1>1, <1>2, <1>3

\* A step that passes by what was passed counts what was counted.
LEMMA SamePassed ==
    ASSUME Pattern, Search, keys' = keys, pattern' = pattern, var_names' = var_names, depth' \in Nat,
           \A h \in Matching!Homomorphisms :
              (at' = "done" \/ PastBy(h, depth', next', current_mapping'))
                 <=> (at = "done" \/ PastBy(h, depth, next, current_mapping))
    PROVE  Counted' = Counted
BY CountedIs, CountedLater

\* To assign a candidate counts nothing ...
LEMMA AssignCounts ==
    ASSUME Pattern, Search, Matching!Assign
    PROVE  Counted' = Counted
<1> DEFINE x == var_names[depth + 1]
<1>1. /\ keys' = keys /\ pattern' = pattern /\ var_names' = var_names /\ depth < Len(var_names)
      /\ at = "search" /\ at' = "search" /\ depth' = depth + 1
      /\ next[x] <= Len(Matching!candidates(x))
      /\ current_mapping' = [current_mapping EXCEPT ![x] = Matching!candidates(x)[next[x]][1]]
      /\ next' = [y \in Matching!Var |->
                     IF y = x THEN next[y] + 1
                     ELSE IF Matching!IndexOf(y) = depth + 2 THEN 1 ELSE next[y]]
  BY DEF Matching!Assign, Matching!Variable, Matching!Candidate, Matching!HasCandidate
<1>2. /\ Len(var_names) \in Nat
      /\ \A i \in 1 .. Len(var_names) :
            var_names[i] \in Matching!Var /\ Matching!IndexOf(var_names[i]) = i
  BY OrderIs
<1>3. /\ depth \in Nat /\ next \in [Matching!Var -> Nat \ {0}] /\ current_mapping \in [Matching!Var -> Nat]
  BY DEF Search, Placed
<1>4. x \in Matching!Var /\ next[x] \in 1 .. Len(Matching!candidates(x))
  <2>1. x \in Matching!Var
    BY <1>1, <1>2, <1>3
  <2>2. Len(Matching!candidates(x)) \in Nat
    BY CandidatesAscend
  <2> QED
    BY <1>1, <1>3, <2>1, <2>2
<1>5. \A i \in 1 .. depth : current_mapping'[var_names[i]] = current_mapping[var_names[i]]
  <2>1. \A i \in 1 .. depth : var_names[i] \in Matching!Var /\ var_names[i] # x
    BY <1>1, <1>2, <1>3
  <2> HIDE DEF x
  <2> QED
    BY <1>1, <1>3, <2>1
<1>6. current_mapping'[x] = Matching!candidates(x)[next[x]][1]
  BY <1>1, <1>3, <1>4
<1>7. depth + 1 < Len(var_names) => next'[var_names[depth + 2]] = 1
  BY <1>1, <1>2, <1>3
<1>8. ASSUME NEW h \in Matching!Homomorphisms
      PROVE  PastBy(h, depth + 1, next', current_mapping') <=> PastBy(h, depth, next, current_mapping)
  <2>1. depth + 1 < Len(var_names) => Admits(h, var_names[depth + 2])
    BY <1>2, <1>3, HomomorphismsAdmit
  <2>2. OneAssigned(depth, next, current_mapping, next', current_mapping')
    BY <1>4, <1>5, <1>6, <1>7 DEF OneAssigned
  <2> HIDE DEF x
  <2> QED
    BY <1>1, <1>2, <1>3, <2>1, <2>2, AssignPasses
<1>9. depth' \in Nat
  BY <1>1, <1>3
<1> QED
  BY <1>1, <1>8, <1>9, SamePassed

\* ... nor does it to reject one: no homomorphism has it here.
LEMMA RejectCounts ==
    ASSUME Pattern, Search, Matching!Reject
    PROVE  Counted' = Counted
<1> DEFINE x == var_names[depth + 1]
           c == Matching!candidates(x)
           m == current_mapping
<1>1. /\ keys' = keys /\ pattern' = pattern /\ var_names' = var_names /\ depth < Len(var_names)
      /\ at = "search" /\ at' = "search" /\ depth' = depth /\ current_mapping' = m
      /\ Matching!Variable = x
      /\ next[x] <= Len(c)
      /\ next' = [next EXCEPT ![x] = @ + 1]
  BY DEF Matching!Reject, Matching!Variable, Matching!HasCandidate
<1>2. PICK e \in Matching!EdgesAtDepth : ~ Matching!Found(e, c[next[x]][1])
  BY DEF Matching!Reject, Matching!Variable, Matching!Candidate
<1>3. /\ depth \in Nat /\ next \in [Matching!Var -> Nat \ {0}]
      /\ Len(var_names) \in Nat /\ x \in Matching!Var
  BY <1>1, OrderIs DEF Search, Placed
<1>4. next[x] \in 1 .. Len(c) /\ next'[x] = next[x] + 1
  <2>1. Len(c) \in Nat
    BY CandidatesAscend
  <2> QED
    BY <1>1, <1>3, <2>1
<1>5. ASSUME NEW h \in Matching!Homomorphisms, Matching!Findable
      PROVE  PastBy(h, depth, next', m) <=> PastBy(h, depth, next, m)
  <2>1. Admits(h, x)
    BY <1>3, HomomorphismsAdmit
  <2>2. /\ Tried(x, next'[x], h[x]) <=> h[x] <= c[next[x]][1]
        /\ Tried(x, next[x], h[x]) <=> h[x] < c[next[x]][1]
    <3>1. Tried(x, next[x] + 1, h[x]) <=> h[x] <= c[next[x]][1]
      BY <1>4, <2>1, TriedSteps DEF Admits
    <3>2. Tried(x, next[x], h[x]) <=> h[x] < c[next[x]][1]
      BY <1>4 DEF Tried
    <3> QED
      BY <1>4, <3>1, <3>2
  <2>3. h[x] \in Int /\ c[next[x]][1] \in Int
    <3>1. Matching!CandidateSet(pattern.nodes, x) \subseteq Vertex /\ Vertex \subseteq Int
      BY VertexAssumption DEF Matching!CandidateSet
    <3>2. c[next[x]][1] \in Matching!CandidateSet(pattern.nodes, x)
      BY <1>4, CandidatesAscend
    <3> QED
      BY <2>1, <3>1, <3>2 DEF Admits
  <2>4. Agree(h, m, depth) => h[x] # c[next[x]][1]
    <3>1. e.source # e.target
      BY <1>5 DEF Matching!Findable, Matching!EdgesAtDepth
    <3>2. Agree(h, m, depth) => Matching!Found(e, h[x])
      BY <1>1, <3>1, FindsAll
    <3> QED
      BY <1>2, <3>2
  <2> HIDE DEF x, c
  <2>5. Agree(h, m, depth) => (Tried(x, next'[x], h[x]) <=> Tried(x, next[x], h[x]))
    BY <2>2, <2>3, <2>4
  <2> QED
    BY <2>5 DEF PastBy, x
<1>6. Counted' = {h \in Matching!Homomorphisms :
                    (at' = "done" \/ PastBy(h, depth', next', current_mapping')) /\ Matching!Findable}
  BY <1>1, <1>3, CountedLater
<1> QED
  BY <1>1, <1>5, <1>6, CountedIs

\* To return to the variable before from a search that is exhausted counts nothing.
LEMMA ExhaustedCounts ==
    ASSUME Pattern, Search, Matching!Exhausted
    PROVE  Counted' = Counted
<1> DEFINE m == current_mapping
<1>1. /\ keys' = keys /\ pattern' = pattern /\ var_names' = var_names /\ depth < Len(var_names)
      /\ at = "search" /\ next' = next /\ current_mapping' = m /\ Matching!Return
      /\ ~ (next[var_names[depth + 1]] <= Len(Matching!candidates(var_names[depth + 1])))
  BY DEF Matching!Exhausted, Matching!Variable, Matching!HasCandidate
<1>2. /\ Placed(depth, next, m) /\ depth \in Nat /\ Len(var_names) \in Nat
      /\ \A i \in 1 .. Len(var_names) : var_names[i] \in Matching!Var
  BY OrderIs DEF Search, Placed
<1>3. \A h : PastBy(h, depth, next, m) <=> Behind(h, m, depth) \/ Agree(h, m, depth)
  BY <1>1 DEF PastBy, Tried
<1>4. CASE depth = 0
  <2>1. depth' = depth /\ at' = "done"
    BY <1>1, <1>4 DEF Matching!Return
  <2>2. \A h : Agree(h, m, 0)
    BY OneMore
  <2> QED
    BY <1>1, <1>2, <1>3, <1>4, <2>1, <2>2, SamePassed
<1>5. CASE depth # 0
  <2>1. depth' = depth - 1 /\ at' = "search" /\ depth' \in Nat /\ depth' + 1 = depth /\ depth \in 1 .. depth
    BY <1>1, <1>2, <1>5 DEF Matching!Return
  <2>2. ASSUME NEW h \in Matching!Homomorphisms
        PROVE  PastBy(h, depth', next, m) <=> Behind(h, m, depth' + 1) \/ Agree(h, m, depth' + 1)
    <3> DEFINE d == depth'
               x == var_names[d + 1]
    <3>1. d \in Nat /\ d + 1 <= Len(var_names) /\ d + 1 = depth
      BY <1>2, <2>1 DEF Placed
    <3>2. /\ next[x] - 1 \in 1 .. Len(Matching!candidates(x)) /\ next[x] \in Nat
          /\ m[x] = Matching!candidates(x)[next[x] - 1][1]
      BY <1>2, <2>1 DEF Placed
    <3>3. Admits(h, x)
      BY <1>2, <3>1, HomomorphismsAdmit
    <3> HIDE DEF d, m
    <3>4. PastBy(h, d, next, m) <=> Behind(h, m, d + 1) \/ Agree(h, m, d + 1)
      BY <1>2, <3>1, <3>2, <3>3, ReturnPasses
    <3> QED
      BY <3>4 DEF d
  <2> QED
    BY <1>1, <1>3, <2>1, <2>2, SamePassed
<1> QED
  BY <1>4, <1>5

\* A full assignment is a homomorphism, and the pattern has no loop.
LEMMA FullIsHomomorphism ==
    ASSUME Pattern, Search, depth = Len(var_names)
    PROVE  current_mapping \in Matching!Homomorphisms /\ Matching!Findable
<1> DEFINE m == current_mapping
<1>1. /\ Len(var_names) \in Nat
      /\ \A y \in Matching!Var :
            Matching!IndexOf(y) \in 1 .. Len(var_names) /\ var_names[Matching!IndexOf(y)] = y
  BY OrderIs
<1>2. Placed(depth, next, m) /\ \A e \in pattern.edges : e.source \in Matching!Var /\ e.target \in Matching!Var
  BY DEF Search, Pattern, Matching!WellFormed, Matching!Var
<1>3. ASSUME NEW x \in Matching!Var PROVE m[x] \in Vertex /\ Label[m[x]] \in pattern.nodes[x]
  <2> DEFINE i == Matching!IndexOf(x)
  <2>1. i \in 1 .. depth /\ var_names[i] = x
    BY <1>1
  <2> HIDE DEF i
  <2>2. /\ next[x] - 1 \in 1 .. Len(Matching!candidates(x))
        /\ m[x] = Matching!candidates(x)[next[x] - 1][1]
    BY <1>2, <2>1 DEF Placed
  <2>3. m[x] \in Matching!CandidateSet(pattern.nodes, x)
    BY <2>2, CandidatesAscend
  <2> QED
    BY <2>3 DEF Matching!CandidateSet
<1>4. m \in [Matching!Var -> Vertex]
  BY <1>2, <1>3 DEF Placed
<1>5. \A e \in pattern.edges : HasEdge(e, m) /\ e.source # e.target
  <2> SUFFICES ASSUME NEW e \in pattern.edges PROVE HasEdge(e, m) /\ e.source # e.target
    OBVIOUS
  <2>1. Matching!IndexOf(e.source) \in 1 .. depth /\ Matching!IndexOf(e.target) \in 1 .. depth
    BY <1>1, <1>2
  <2> QED
    BY <1>1, <1>2, <2>1 DEF Placed
<1>6. Matching!ToSet(keys) = ToSet(keys)
  BY DEF Matching!ToSet, ToSet
<1> QED
  BY <1>3, <1>4, <1>5, <1>6 DEF Matching!Homomorphisms, Matching!Findable, HasEdge

\* A full assignment is counted when it is reached, and it was not counted before.
LEMMA MatchCounts ==
    ASSUME Pattern, Search, Matching!Match
    PROVE  Counted' = Counted \cup {current_mapping} /\ current_mapping \notin Counted
<1> DEFINE m == current_mapping
           n == Len(var_names)
<1>1. /\ keys' = keys /\ pattern' = pattern /\ var_names' = var_names /\ depth = n
      /\ at = "search" /\ next' = next /\ current_mapping' = m /\ Matching!Return
  BY DEF Matching!Match
<1>2. /\ Placed(depth, next, m) /\ depth \in Nat /\ n \in Nat
      /\ \A i \in 1 .. n : var_names[i] \in Matching!Var
      /\ \A y \in Matching!Var :
            Matching!IndexOf(y) \in 1 .. n /\ var_names[Matching!IndexOf(y)] = y
  BY OrderIs DEF Search, Placed
<1>3. m \in Matching!Homomorphisms /\ Matching!Findable
  BY <1>1, FullIsHomomorphism
<1>4. \A h : PastBy(h, depth, next, m) <=> Behind(h, m, n)
  BY <1>1, <1>2 DEF PastBy
<1>5. ASSUME NEW h \in Matching!Homomorphisms PROVE Agree(h, m, n) <=> h = m
  <2>1. h \in [Matching!Var -> Vertex] /\ m \in [Matching!Var -> Vertex]
    BY <1>3, HomomorphismsAdmit
  <2>2. ASSUME Agree(h, m, n) PROVE h = m
    <3>1. \A y \in Matching!Var : h[y] = m[y]
      <4> SUFFICES ASSUME NEW y \in Matching!Var PROVE h[y] = m[y]
        OBVIOUS
      <4> DEFINE i == Matching!IndexOf(y)
      <4>1. i \in 1 .. n /\ var_names[i] = y
        BY <1>2
      <4> HIDE DEF i, n, m
      <4> QED
        BY <2>2, <4>1 DEF Agree
    <3> HIDE DEF m
    <3> QED
      BY <2>1, <3>1
  <2> QED
    BY <2>2 DEF Agree
<1>6. ~ Behind(m, m, n)
  <2>1. \A i \in 1 .. n : m[var_names[i]] \in Int
    <3>1. m \in [Matching!Var -> Nat]
      BY <1>2 DEF Placed
    <3> QED
      BY <1>2, <3>1
  <2> QED
    BY <2>1 DEF Behind
<1>7. /\ depth' \in Nat
      /\ \A h \in Matching!Homomorphisms :
            (at' = "done" \/ PastBy(h, depth', next', current_mapping')) <=> Behind(h, m, n) \/ Agree(h, m, n)
  <2>1. CASE depth = 0
    <3>1. depth' = 0 /\ at' = "done" /\ n = 0
      BY <1>1, <2>1 DEF Matching!Return
    <3>2. \A h : Agree(h, m, 0)
      BY OneMore
    <3> QED
      BY <3>1, <3>2
  <2>2. CASE depth # 0
    <3> DEFINE d == depth'
               x == var_names[d + 1]
    <3>1. d = depth - 1 /\ at' = "search"
      BY <1>1, <2>2 DEF Matching!Return
    <3>2. d \in Nat /\ d + 1 = depth /\ d + 1 = n /\ d + 1 <= Len(var_names) /\ depth \in 1 .. depth
      BY <1>1, <1>2, <2>2, <3>1
    <3>3. /\ next[x] - 1 \in 1 .. Len(Matching!candidates(x)) /\ next[x] \in Nat
          /\ m[x] = Matching!candidates(x)[next[x] - 1][1]
      BY <1>1, <1>2, <3>2 DEF Placed
    <3>4. \A h \in Matching!Homomorphisms : Admits(h, x)
      BY <1>2, <3>2, HomomorphismsAdmit
    <3> HIDE DEF d, m
    <3>5. ASSUME NEW h \in Matching!Homomorphisms
          PROVE  PastBy(h, d, next, m) <=> Behind(h, m, d + 1) \/ Agree(h, m, d + 1)
      BY <1>2, <3>2, <3>3, <3>4, ReturnPasses
    <3> HIDE DEF x, n
    <3>6. next' = next /\ current_mapping' = m /\ at' # "done" /\ depth' = d
      BY <1>1, <3>1 DEF d
    <3> QED
      BY <3>2, <3>5, <3>6
  <2> QED
    BY <2>1, <2>2
<1>8. Counted' = {h \in Matching!Homomorphisms : Behind(h, m, n) \/ Agree(h, m, n)}
  <2>1. Counted' = {h \in Matching!Homomorphisms :
                      (at' = "done" \/ PastBy(h, depth', next', current_mapping')) /\ Matching!Findable}
    BY <1>1, <1>7, CountedLater
  <2> QED
    BY <1>3, <1>7, <2>1
<1>9. Counted = {h \in Matching!Homomorphisms : Behind(h, m, n)}
  <2>1. at # "done"
    BY <1>1
  <2> QED
    BY <1>3, <1>4, <2>1, CountedIs
<1> HIDE DEF m, n
<1> QED
  BY <1>3, <1>5, <1>6, <1>8, <1>9 DEF m

\* No homomorphism has been passed when the search begins.
LEMMA MatchingBegins ==
    ASSUME \A p \in Patterns : Matching!WellFormed(p), Matching!Init
    PROVE  MatchingInv
<1>1. Pattern
  BY SameTable DEF Matching!Init, Pattern
<1>2. /\ Len(var_names) \in Nat
      /\ \A i \in 1 .. Len(var_names) : var_names[i] \in Matching!Var
      /\ \A y \in Matching!Var : Matching!IndexOf(y) \in 1 .. Len(var_names)
  BY <1>1, OrderIs
<1>3. Search
  <2>1. /\ depth = 0 /\ next = [x \in Matching!Var |-> 1]
        /\ current_mapping = [x \in Matching!Var |-> 0] /\ total = 0 /\ at = "search"
    BY DEF Matching!Init
  <2>2. \A e \in pattern.edges : /\ e.source \in Matching!Var
                                 /\ Matching!IndexOf(e.source) > 0 /\ ~ (Matching!IndexOf(e.source) <= 0)
    BY <1>1, <1>2 DEF Pattern, Matching!WellFormed, Matching!Var
  <2>3. \A e \in pattern.edges : current_mapping[e.source] = 0
    BY <2>1, <2>2
  <2>4. next \in [Matching!Var -> Nat \ {0}] /\ current_mapping \in [Matching!Var -> Nat]
    BY <2>1
  <2>5. 1 .. depth = {} /\ depth \in 0 .. Len(var_names)
    BY <1>2, <2>1
  <2> QED
    BY <2>1, <2>2, <2>3, <2>4, <2>5 DEF Search, Placed
<1>4. Counted = {}
  <2>1. depth = 0 /\ at = "search" /\ next = [x \in Matching!Var |-> 1]
    BY DEF Matching!Init
  <2>2. ASSUME NEW h \in Matching!Homomorphisms PROVE ~ PastBy(h, 0, next, current_mapping)
    <3>1. ~ Behind(h, current_mapping, 0)
      BY OneMore
    <3>2. ASSUME 0 < Len(var_names) PROVE ~ Tried(var_names[0 + 1], next[var_names[0 + 1]], h[var_names[0 + 1]])
      <4>1. 0 + 1 = 1 /\ var_names[1] \in Matching!Var
        BY <1>2, <3>2
      <4>2. Admits(h, var_names[1]) /\ next[var_names[1]] = 1
        BY <1>1, <2>1, <4>1, HomomorphismsAdmit
      <4> QED
        BY <4>1, <4>2, TriedSteps DEF Admits
    <3> QED
      BY <3>1, <3>2 DEF PastBy
  <2> QED
    BY <1>1, <1>3, <2>1, <2>2, CountedIs
<1>5. total = 0
  BY DEF Matching!Init
<1> QED
  BY <1>1, <1>3, <1>4, <1>5, FS_EmptySet DEF MatchingInv

\* Every step counts the assignment it completes and passes by no other homomorphism.
LEMMA MatchingSteps ==
    ASSUME MatchingInv, [Matching!Next]_Matching!vars
    PROVE  MatchingInv'
<1>1. Pattern /\ Search /\ IsFiniteSet(Counted) /\ total = Cardinality(Counted)
  BY DEF MatchingInv
<1>2. total \in Nat
  BY <1>1 DEF Search
<1>3. CASE UNCHANGED Matching!vars \/ Matching!Done
  <2>1. /\ keys' = keys /\ pattern' = pattern /\ var_names' = var_names /\ depth' = depth
        /\ next' = next /\ current_mapping' = current_mapping /\ total' = total /\ at' = at
    BY <1>3 DEF Matching!vars, Matching!Done
  <2>2. Pattern' /\ Placed(depth, next, current_mapping)'
    BY <1>1, <2>1, SearchStays DEF Search
  <2>3. Counted' = Counted
    BY <1>1, <2>1, SamePassed DEF Search, Placed
  <2> QED
    BY <1>1, <2>1, <2>2, <2>3 DEF MatchingInv, Search
<1>4. ASSUME keys' = keys, pattern' = pattern, var_names' = var_names,
             Placed(depth', next', current_mapping'), at' \in {"search", "done"}, total' \in Nat,
             IsFiniteSet(Counted'), total' = Cardinality(Counted')
      PROVE  MatchingInv'
  <2>1. Pattern' /\ Placed(depth, next, current_mapping)'
    BY <1>1, <1>4, SearchStays
  <2>2. IsFiniteSet(Counted)' /\ Cardinality(Counted)' = Cardinality(Counted')
    BY <1>4
  <2> QED
    BY <1>4, <2>1, <2>2 DEF MatchingInv, Search
<1>5. CASE Matching!Assign
  <2>1. Placed(depth', next', current_mapping') /\ Counted' = Counted
    BY <1>1, <1>5, AssignPlaces, AssignCounts
  <2> QED
    BY <1>1, <1>2, <1>4, <1>5, <2>1 DEF Matching!Assign
<1>6. CASE Matching!Reject
  <2>1. Placed(depth', next', current_mapping') /\ Counted' = Counted
    BY <1>1, <1>6, RejectPlaces, RejectCounts
  <2> QED
    BY <1>1, <1>2, <1>4, <1>6, <2>1 DEF Matching!Reject
<1>7. CASE Matching!Exhausted
  <2>1. next' = next /\ current_mapping' = current_mapping /\ Matching!Return
    BY <1>7 DEF Matching!Exhausted
  <2>2. Placed(depth', next', current_mapping') /\ Counted' = Counted
    BY <1>1, <1>7, <2>1, ReturnPlaces, ExhaustedCounts
  <2>3. at' \in {"search", "done"}
    BY <1>7 DEF Matching!Exhausted, Matching!Return
  <2> QED
    BY <1>1, <1>2, <1>4, <1>7, <2>2, <2>3 DEF Matching!Exhausted
<1>8. CASE Matching!Match
  <2>1. next' = next /\ current_mapping' = current_mapping /\ Matching!Return /\ total' = total + 1
    BY <1>8 DEF Matching!Match
  <2>2. Placed(depth', next', current_mapping')
    BY <1>1, <2>1, ReturnPlaces
  <2>3. Counted' = Counted \cup {current_mapping} /\ current_mapping \notin Counted
    BY <1>1, <1>8, MatchCounts
  <2>4. IsFiniteSet(Counted') /\ Cardinality(Counted') = Cardinality(Counted) + 1
    BY <1>1, <2>3, FS_AddElement
  <2>5. at' \in {"search", "done"}
    BY <1>8 DEF Matching!Match, Matching!Return
  <2> QED
    BY <1>1, <1>2, <1>4, <1>8, <2>1, <2>2, <2>4, <2>5 DEF Matching!Match
<1> QED
  BY <1>3, <1>5, <1>6, <1>7, <1>8 DEF Matching!Next

\* get_subgraph_matching_count has at every moment counted the homomorphisms its
\* backtracking has gone past, each once, so in the end all of them, for any graph
\* and any pattern without an edge from a variable to itself, in whatever order the
\* sort leaves the variables.  A pattern with such an edge counts nothing.
THEOREM MatchesAreCounted ==
    ASSUME \A p \in Patterns : Matching!WellFormed(p)
    PROVE  Matching!Spec => [](IF Matching!Findable THEN Matching!MatchesCounted ELSE total = 0)
<1>1. Matching!Init => MatchingInv
  BY MatchingBegins
<1>2. MatchingInv /\ [Matching!Next]_Matching!vars => MatchingInv'
  BY MatchingSteps
<1>3. ASSUME MatchingInv, Matching!Findable PROVE Matching!MatchesCounted
  <2>1. Counted = {h \in Matching!Homomorphisms : Matching!Passed(h)}
    BY <1>3 DEF Counted
  <2> QED
    BY <1>3, <2>1, SameCounts DEF MatchingInv, Matching!MatchesCounted
<1>4. ASSUME MatchingInv, ~ Matching!Findable PROVE total = 0
  <2>1. Counted = {}
    BY <1>4 DEF Counted
  <2> QED
    BY <1>4, <2>1, FS_EmptySet DEF MatchingInv
<1>5. MatchingInv => IF Matching!Findable THEN Matching!MatchesCounted ELSE total = 0
  BY <1>3, <1>4
<1> QED
  BY <1>1, <1>2, <1>5, PTL DEF Matching!Spec
=============================================================================
