------------------------------ MODULE WccProofs ------------------------------
(***************************************************************************)
(* Theorems about the union-find of Wcc, for graphs of any size.           *)
(***************************************************************************)
EXTENDS Functions, Wcc, FiniteSetTheorems, WellFoundedInduction, TLAPS

-----------------------------------------------------------------------------
(* Numbers. *)

\* A set of numbers that is not empty has a smallest one.
LEMMA LeastRecno ==
    ASSUME NEW S \in SUBSET Nat, S # {}
    PROVE  \E m \in S : \A n \in S : m <= n
<1> DEFINE R == OpToRel(<, Nat)
<1>1. R = {ss \in Nat \X Nat : ss[1] < ss[2]}
  BY DEF OpToRel
<1>2. IsWellFoundedOn(R, Nat)
  BY NatLessThanWellFounded
<1> HIDE DEF R
<1>3. PICK m \in S : \A n \in S : <<n, m>> \notin R
  BY WFMin, <1>2
<1>4. ASSUME NEW n \in S PROVE m <= n
  <2>1. m \in Nat /\ n \in Nat
    OBVIOUS
  <2>2. n < m => <<n, m>> \in R
    BY <1>1, <2>1
  <2> QED
    BY <1>3, <2>1, <2>2
<1> QED
  BY <1>4

\* Min is that record number.
LEMMA MinExists ==
    ASSUME NEW S \in SUBSET Nat, S # {}
    PROVE  /\ Min(S) \in S
           /\ \A n \in S : Min(S) <= n
  BY LeastRecno DEF Min

-----------------------------------------------------------------------------
(* Forests. *)

\* Each vertex has a root, and a rank that is greater than that of its parent.
IsForest(par, root, rank) ==
    /\ root \in [Vertex -> Vertex] /\ rank \in [Vertex -> Nat]
    /\ \A x \in Vertex :
          /\ par[root[x]] < 0
          /\ par[x] < 0 => root[x] = x
          /\ ~ (par[x] < 0) =>
                par[x] \in Vertex /\ rank[par[x]] < rank[x] /\ root[x] = root[par[x]]
Forest(par) ==
    /\ par \in [Vertex -> Int]
    /\ \E root, rank : IsForest(par, root, rank)

\* A height for each vertex, smaller than that of its parent.
Rises(par, height) ==
    /\ height \in [Vertex -> Nat]
    /\ \A x \in Vertex : ~ (par[x] < 0) => height[x] < height[par[x]]

\* Of the vertices with a property one has the least rank.
LEMMA LeastRank ==
    ASSUME NEW rank \in [Vertex -> Nat], NEW S \in SUBSET Vertex, S # {}
    PROVE  \E x \in S : \A y \in S : rank[x] <= rank[y]
<1>1. {rank[x] : x \in S} \in SUBSET Nat /\ {rank[x] : x \in S} # {}
  OBVIOUS
<1>2. PICK m \in {rank[x] : x \in S} : \A n \in {rank[x] : x \in S} : m <= n
  BY <1>1, LeastRecno
<1> QED
  BY <1>2

\* The loop of find ends at the root.
LEMMA FindsRoot ==
    ASSUME NEW par, NEW root, NEW rank, IsForest(par, root, rank), NEW x \in Vertex
    PROVE  FindRoot(par, x) = root[x]
<1> USE DEF IsForest
<1> DEFINE Climbs(f) == f = [y \in Vertex |-> IF par[y] < 0 THEN y ELSE f[par[y]]]
<1>1. Climbs(root)
  OBVIOUS
<1>2. ASSUME NEW f, Climbs(f) PROVE f[x] = root[x]
  <2> DEFINE Bad == {y \in Vertex : f[y] # root[y]}
  <2>1. SUFFICES ASSUME Bad # {} PROVE FALSE
    OBVIOUS
  <2>2. PICK y \in Bad : \A z \in Bad : rank[y] <= rank[z]
    BY <2>1, LeastRank
  <2>3. f[y] = IF par[y] < 0 THEN y ELSE f[par[y]]
    BY <1>2
  <2>4. ~ (par[y] < 0)
    BY <2>3
  <2>5. par[y] \in Vertex /\ rank[par[y]] < rank[y]
    BY <2>4
  <2>6. par[y] \notin Bad
    BY <2>2, <2>5
  <2> QED
    BY <2>3, <2>4, <2>5, <2>6
<1>3. Climbs(CHOOSE f : Climbs(f))
  <2> HIDE DEF Climbs
  <2> QED
    BY <1>1
<1>4. (CHOOSE f : Climbs(f))[x] = root[x]
  <2> HIDE DEF Climbs
  <2> QED
    BY <1>2, <1>3
<1>5. FindRoot(par, x) = (CHOOSE f : Climbs(f))[x]
  BY Zenon DEF FindRoot
<1> QED
  BY <1>4, <1>5

\* What find returns is a root, and a root's own root.
LEMMA RootFound ==
    ASSUME NEW par, Forest(par), NEW x \in Vertex
    PROVE  /\ FindRoot(par, x) \in Vertex
           /\ par[FindRoot(par, x)] < 0
           /\ par[x] < 0 => FindRoot(par, x) = x
<1>1. PICK root, rank : IsForest(par, root, rank)
  BY DEF Forest
<1>2. FindRoot(par, x) = root[x]
  BY <1>1, FindsRoot
<1> QED
  BY <1>1, <1>2 DEF IsForest

\* A root is above all the vertices of its set.
LEMMA RootIsAbove ==
    ASSUME NEW par, NEW root, NEW rank, IsForest(par, root, rank),
           NEW x \in Vertex, ~ (par[x] < 0)
    PROVE  rank[root[x]] < rank[x]
<1> USE DEF IsForest
<1> DEFINE Bad == {y \in Vertex : ~ (par[y] < 0) /\ ~ (rank[root[y]] < rank[y])}
<1>1. SUFFICES ASSUME Bad # {} PROVE FALSE
  OBVIOUS
<1>2. PICK y \in Bad : \A z \in Bad : rank[y] <= rank[z]
  BY <1>1, LeastRank
<1>3. par[y] \in Vertex /\ rank[par[y]] < rank[y] /\ root[y] = root[par[y]]
  OBVIOUS
<1>4. rank[y] \in Nat /\ rank[par[y]] \in Nat /\ rank[root[y]] \in Nat
  BY <1>3
<1>5. CASE par[par[y]] < 0
  BY <1>3, <1>5
<1>6. CASE ~ (par[par[y]] < 0)
  <2>1. par[y] \notin Bad
    BY <1>2, <1>3, <1>4
  <2>2. rank[root[par[y]]] < rank[par[y]]
    BY <1>3, <1>6, <2>1
  <2> QED
    BY <1>3, <1>4, <2>2
<1> QED
  BY <1>5, <1>6

LEMMA RootIsHigher ==
    ASSUME NEW par, NEW root, NEW rank, IsForest(par, root, rank),
           NEW height, Rises(par, height), NEW x \in Vertex, ~ (par[x] < 0)
    PROVE  height[x] < height[root[x]]
<1> USE DEF IsForest, Rises
<1> DEFINE Bad == {y \in Vertex : ~ (par[y] < 0) /\ ~ (height[y] < height[root[y]])}
<1>1. SUFFICES ASSUME Bad # {} PROVE FALSE
  OBVIOUS
<1>2. PICK y \in Bad : \A z \in Bad : rank[y] <= rank[z]
  BY <1>1, LeastRank
<1>3. par[y] \in Vertex /\ rank[par[y]] < rank[y] /\ root[y] = root[par[y]]
  OBVIOUS
<1>4. /\ rank[y] \in Nat /\ rank[par[y]] \in Nat
      /\ height[y] \in Nat /\ height[par[y]] \in Nat /\ height[root[y]] \in Nat
      /\ height[y] < height[par[y]]
  BY <1>3
<1>5. CASE par[par[y]] < 0
  BY <1>3, <1>4, <1>5
<1>6. CASE ~ (par[par[y]] < 0)
  <2>1. par[y] \notin Bad
    BY <1>2, <1>3, <1>4
  <2>2. height[par[y]] < height[root[par[y]]]
    BY <1>3, <1>6, <2>1
  <2> QED
    BY <1>3, <1>4, <2>2
<1> QED
  BY <1>5, <1>6

\* A vertex that is met becomes a root like any other.
LEMMA ActivateKeeps ==
    ASSUME NEW par, Forest(par), NEW x \in Vertex, par[x] < 0
    PROVE  /\ Forest(activate(par, x))
           /\ \A y \in Vertex : FindRoot(activate(par, x), y) = FindRoot(par, y)
<1> DEFINE new == activate(par, x)
<1>1. PICK root, rank : IsForest(par, root, rank)
  BY DEF Forest
<1>2. new \in [Vertex -> Int] /\ new[x] = -1 /\ \A y \in Vertex : y # x => new[y] = par[y]
  BY DEF Forest, activate
<1> HIDE DEF new
<1>3. IsForest(new, root, rank)
  BY <1>1, <1>2 DEF IsForest
<1>4. \A y \in Vertex : FindRoot(new, y) = FindRoot(par, y)
  BY <1>1, <1>3, FindsRoot
<1> QED
  BY <1>2, <1>3, <1>4 DEF Forest, new

-----------------------------------------------------------------------------
(* Compression. *)

\* A set that has with a vertex its parent.
Upward(par, S) == \A w \in S : ~ (par[w] < 0) => par[w] \in S

\* The vertices that hang on others, and that every upward set has which has y.
Above(par, y) ==
    {z \in Vertex :
        /\ ~ (par[z] < 0)
        /\ \A S \in SUBSET Vertex : y \in S /\ Upward(par, S) => z \in S}

\* They are those on the way of find.
LEMMA AboveIsWay ==
    ASSUME NEW par, NEW root, NEW rank, IsForest(par, root, rank), NEW y \in Vertex
    PROVE  Above(par, y) = IF par[y] < 0 THEN {} ELSE {y} \cup Above(par, par[y])
<1> USE DEF IsForest
<1>1. CASE par[y] < 0
  <2>1. {y} \in SUBSET Vertex /\ Upward(par, {y})
    BY <1>1 DEF Upward
  <2>2. ASSUME NEW z \in Above(par, y) PROVE FALSE
    <3>1. z \in {y}
      BY <2>1 DEF Above
    <3> QED
      BY <1>1, <3>1 DEF Above
  <2> QED
    BY <1>1, <2>2
<1>2. CASE ~ (par[y] < 0)
  <2>1. ASSUME NEW z \in Above(par, y), z # y PROVE z \in Above(par, par[y])
    <3>1. ASSUME NEW S \in SUBSET Vertex, par[y] \in S, Upward(par, S) PROVE z \in S
      <4>1. S \cup {y} \in SUBSET Vertex /\ Upward(par, S \cup {y}) /\ y \in S \cup {y}
        BY <3>1 DEF Upward
      <4>2. z \in S \cup {y}
        BY <4>1 DEF Above
      <4> QED
        BY <2>1, <4>2
    <3> QED
      BY <3>1 DEF Above
  <2>2. y \in Above(par, y)
    BY <1>2 DEF Above
  <2>3. ASSUME NEW z \in Above(par, par[y]) PROVE z \in Above(par, y)
    BY <1>2 DEF Above, Upward
  <2> QED
    BY <1>2, <2>1, <2>2, <2>3
<1> QED
  BY <1>1, <1>2

\* find hangs vertices of x's set, none of them a root, on the root.
LEMMA CompressIs ==
    ASSUME NEW par, NEW root, NEW rank, IsForest(par, root, rank), NEW x \in Vertex
    PROVE  \E W \in SUBSET {z \in Vertex : ~ (par[z] < 0) /\ root[z] = root[x]} :
              Compress(par, x) = [y \in Vertex |-> IF y \in W THEN root[x] ELSE par[y]]
<1> DEFINE Passes(f) ==
             f = [y \in Vertex |-> IF par[y] < 0 THEN {} ELSE {y} \cup f[par[y]]]
           Below(y) == {z \in Vertex : ~ (par[z] < 0) /\ root[z] = root[y]}
<1>1. Passes([y \in Vertex |-> Above(par, y)])
  BY AboveIsWay DEF IsForest
<1>2. ASSUME NEW f, Passes(f) PROVE f[x] \subseteq Below(x)
  <2> USE DEF IsForest
  <2> DEFINE Bad == {y \in Vertex : ~ (f[y] \subseteq Below(y))}
  <2>1. SUFFICES ASSUME Bad # {} PROVE FALSE
    OBVIOUS
  <2>2. PICK y \in Bad : \A z \in Bad : rank[y] <= rank[z]
    <3> HIDE DEF Below
    <3> QED
      BY <2>1, LeastRank
  <2>3. f[y] = IF par[y] < 0 THEN {} ELSE {y} \cup f[par[y]]
    <3> DEFINE way == [v \in Vertex |-> IF par[v] < 0 THEN {} ELSE {v} \cup f[par[v]]]
    <3>1. f = way
      BY <1>2
    <3>2. way[y] = IF par[y] < 0 THEN {} ELSE {y} \cup f[par[y]]
      OBVIOUS
    <3> HIDE DEF way
    <3> QED
      BY <3>1, <3>2
  <2>4. ~ (par[y] < 0)
    BY <2>3
  <2>5. par[y] \in Vertex /\ rank[par[y]] < rank[y] /\ root[y] = root[par[y]]
    BY <2>4
  <2>6. par[y] \notin Bad
    <3> HIDE DEF Below
    <3> QED
      BY <2>2, <2>5
  <2>7. f[par[y]] \subseteq Below(par[y])
    BY <2>5, <2>6
  <2> QED
    BY <2>3, <2>4, <2>5, <2>7
<1>3. Passes(CHOOSE f : Passes(f))
  <2> HIDE DEF Passes
  <2> QED
    BY <1>1
<1> DEFINE W == (CHOOSE f : Passes(f))[x]
<1>4. W \in SUBSET Below(x)
  <2> HIDE DEF Passes, Below
  <2> QED
    BY <1>2, <1>3
<1>5. Compress(par, x) = [y \in Vertex |-> IF y \in W THEN FindRoot(par, x) ELSE par[y]]
  BY Zenon DEF Compress
<1>6. FindRoot(par, x) = root[x]
  BY FindsRoot
<1> HIDE DEF W
<1> QED
  BY <1>4, <1>5, <1>6

\* No root changes, and no set.
LEMMA Compressed ==
    ASSUME NEW par, Forest(par), NEW x \in Vertex
    PROVE  /\ Forest(Compress(par, x))
           /\ \A y \in Vertex :
                 /\ FindRoot(Compress(par, x), y) = FindRoot(par, y)
                 /\ IF par[y] < 0 THEN Compress(par, x)[y] = par[y]
                    ELSE Compress(par, x)[y] \in Vertex
           /\ \A height : Rises(par, height) => Rises(Compress(par, x), height)
<1> DEFINE new == Compress(par, x)
<1>1. PICK root, rank : IsForest(par, root, rank)
  BY DEF Forest
<1>2. PICK W \in SUBSET {z \in Vertex : ~ (par[z] < 0) /\ root[z] = root[x]} :
         new = [y \in Vertex |-> IF y \in W THEN root[x] ELSE par[y]]
  BY <1>1, CompressIs
<1>3. \A y \in W : ~ (par[y] < 0) /\ root[y] = root[x] /\ rank[root[x]] < rank[y]
  BY <1>1, <1>2, RootIsAbove
<1>4. Vertex \subseteq Nat \ {0} /\ root[x] \in Vertex /\ par[root[x]] < 0
  BY <1>1, VertexAssumption DEF IsForest
<1> HIDE DEF new
<1>5. new \in [Vertex -> Int] /\ \A y \in Vertex : new[y] = IF y \in W THEN root[x] ELSE par[y]
  <2>1. par \in [Vertex -> Int]
    BY DEF Forest
  <2>2. ASSUME NEW y \in Vertex PROVE (IF y \in W THEN root[x] ELSE par[y]) \in Int
    <3>1. par[y] \in Int
      BY <2>1
    <3>2. root[x] \in Nat \ {0}
      BY <1>4, Zenon
    <3> QED
      BY <3>1, <3>2
  <2> QED
    BY <1>2, <2>2
<1>6. root[x] \notin W
  BY <1>3, <1>4
<1>7. ASSUME NEW y \in Vertex
      PROVE  /\ new[root[y]] < 0
             /\ new[y] < 0 => root[y] = y
             /\ ~ (new[y] < 0) => new[y] \in Vertex /\ rank[new[y]] < rank[y]
                                    /\ root[y] = root[new[y]]
  <2>1. /\ root[y] \in Vertex /\ par[root[y]] < 0
        /\ par[y] < 0 => root[y] = y
        /\ ~ (par[y] < 0) => par[y] \in Vertex /\ rank[par[y]] < rank[y] /\ root[y] = root[par[y]]
    BY <1>1 DEF IsForest
  <2>2. root[root[x]] = root[x]
    BY <1>1, <1>4 DEF IsForest
  <2>3. new[root[y]] < 0
    BY <1>3, <1>5, <2>1
  <2>4. CASE y \in W
    BY <1>3, <1>4, <1>5, <2>2, <2>3, <2>4
  <2>5. CASE y \notin W
    BY <1>5, <2>1, <2>3, <2>5
  <2> QED
    BY <2>4, <2>5
<1>8. IsForest(new, root, rank)
  BY <1>1, <1>7 DEF IsForest
<1>9. \A y \in Vertex : FindRoot(new, y) = FindRoot(par, y)
  BY <1>1, <1>8, FindsRoot
<1>10. \A y \in Vertex : IF par[y] < 0 THEN new[y] = par[y] ELSE new[y] \in Vertex
  BY <1>1, <1>3, <1>4, <1>5 DEF IsForest
<1>11. ASSUME NEW height, Rises(par, height) PROVE Rises(new, height)
  <2>1. ASSUME NEW y \in Vertex, ~ (new[y] < 0) PROVE height[y] < height[new[y]]
    <3>1. CASE y \in W
      BY <1>1, <1>3, <1>5, <1>11, <3>1, RootIsHigher
    <3>2. CASE y \notin W
      BY <1>5, <1>11, <2>1, <3>2 DEF Rises
    <3> QED
      BY <3>1, <3>2
  <2> QED
    BY <1>11, <2>1 DEF Rises
<1> QED
  BY <1>5, <1>8, <1>9, <1>10, <1>11 DEF Forest, new

-----------------------------------------------------------------------------
(* Linking. *)

\* The set of the one root becomes part of that of the other.
Linked(par, new, big, small) ==
    /\ big # small
    /\ Forest(new)
    /\ new[big] = par[big] + par[small] /\ new[small] = big
    /\ \A y \in Vertex \ {big, small} : new[y] = par[y]
    /\ \A y \in Vertex :
          FindRoot(new, y) = IF FindRoot(par, y) = small THEN big ELSE FindRoot(par, y)

LEMMA HungOn ==
    ASSUME NEW par, Forest(par), NEW big \in Vertex, NEW small \in Vertex, big # small,
           par[big] < 0, par[small] < 0
    PROVE  Linked(par, [par EXCEPT ![big] = par[big] + par[small], ![small] = big], big, small)
<1> DEFINE new == [par EXCEPT ![big] = par[big] + par[small], ![small] = big]
<1>1. PICK root, rank : IsForest(par, root, rank)
  BY DEF Forest
<1>2. Vertex \subseteq Nat \ {0}
  BY VertexAssumption
<1>3. /\ new \in [Vertex -> Int]
      /\ new[big] = par[big] + par[small] /\ new[small] = big
      /\ \A y \in Vertex \ {big, small} : new[y] = par[y]
  BY <1>2 DEF Forest
<1>4. new[big] < 0 /\ ~ (new[small] < 0)
  BY <1>2, <1>3 DEF Forest
<1> HIDE DEF new
<1> DEFINE newRoot == [y \in Vertex |-> IF root[y] = small THEN big ELSE root[y]]
           newRank == [y \in Vertex |-> IF root[y] = small THEN rank[y] + rank[big] + 1
                                        ELSE rank[y]]
<1>5. newRoot \in [Vertex -> Vertex] /\ newRank \in [Vertex -> Nat]
  BY <1>1 DEF IsForest
<1>6. /\ \A y \in Vertex : newRoot[y] = IF root[y] = small THEN big ELSE root[y]
      /\ \A y \in Vertex : newRank[y] = IF root[y] = small THEN rank[y] + rank[big] + 1
                                        ELSE rank[y]
  OBVIOUS
<1> HIDE DEF newRoot, newRank
<1>7. root[big] = big /\ root[small] = small /\ rank \in [Vertex -> Nat]
  BY <1>1 DEF IsForest
<1>8. ASSUME NEW y \in Vertex
      PROVE  /\ new[newRoot[y]] < 0
             /\ new[y] < 0 => newRoot[y] = y
             /\ ~ (new[y] < 0) => new[y] \in Vertex /\ newRank[new[y]] < newRank[y]
                                    /\ newRoot[y] = newRoot[new[y]]
  <2>1. /\ root[y] \in Vertex /\ par[root[y]] < 0
        /\ par[y] < 0 => root[y] = y
        /\ ~ (par[y] < 0) => par[y] \in Vertex /\ rank[par[y]] < rank[y] /\ root[y] = root[par[y]]
    BY <1>1 DEF IsForest
  <2>2. new[newRoot[y]] < 0
    BY <1>3, <1>4, <1>6, <2>1
  <2>3. new[y] < 0 => newRoot[y] = y
    BY <1>3, <1>4, <1>6, <1>7, <2>1
  <2>4. CASE y = small
    <3>1. newRank[y] = rank[small] + rank[big] + 1 /\ newRank[big] = rank[big]
      BY <1>6, <1>7, <2>4
    <3> QED
      BY <1>3, <1>6, <1>7, <2>2, <2>3, <2>4, <3>1
  <2>5. CASE y # small /\ ~ (new[y] < 0)
    <3>1. y # big /\ new[y] = par[y] /\ ~ (par[y] < 0)
      BY <1>3, <1>4, <2>5
    <3>2. newRoot[y] = newRoot[new[y]]
      BY <1>6, <2>1, <3>1
    <3>3. newRank[new[y]] < newRank[y]
      BY <1>6, <1>7, <2>1, <3>1
    <3> QED
      BY <2>1, <2>2, <2>3, <3>1, <3>2, <3>3
  <2> QED
    BY <2>2, <2>3, <2>4, <2>5
<1>9. IsForest(new, newRoot, newRank)
  BY <1>5, <1>8 DEF IsForest
<1>10. \A y \in Vertex :
          FindRoot(new, y) = IF FindRoot(par, y) = small THEN big ELSE FindRoot(par, y)
  BY <1>1, <1>6, <1>9, FindsRoot
<1>11. Forest(new)
  BY <1>3, <1>9 DEF Forest
<1>12. Linked(par, new, big, small)
  BY <1>3, <1>10, <1>11 DEF Linked
<1> QED
  BY <1>12 DEF new

LEMMA LinkLinks ==
    ASSUME NEW par, Forest(par), NEW ra \in Vertex, NEW rb \in Vertex, ra # rb,
           par[ra] < 0, par[rb] < 0
    PROVE  \/ Linked(par, Link(par, ra, rb), ra, rb) /\ par[ra] <= par[rb]
           \/ Linked(par, Link(par, ra, rb), rb, ra) /\ par[rb] <= par[ra]
<1>1. par[ra] \in Int /\ par[rb] \in Int /\ par[ra] + par[rb] = par[rb] + par[ra]
  BY DEF Forest
<1>2. CASE par[ra] > par[rb]
  BY <1>1, <1>2, HungOn DEF Link
<1>3. CASE ~ (par[ra] > par[rb])
  BY <1>1, <1>3, HungOn DEF Link
<1> QED
  BY <1>2, <1>3

-----------------------------------------------------------------------------
(* The invariant. *)

\* Where the scan is, and which vertices it has met.
ScanOK ==
    /\ graph \in StoredGraphs /\ unscanned \in SUBSET Vertex /\ u \in Vertex \cup {0}
    /\ stage \in {"scan", "edges", "unite", "done"}
    /\ stage \in {"scan", "done"} => todo = {}
    /\ stage = "done" => unscanned = {}
    /\ stage \in {"edges", "unite"} =>
          u \in Active /\ u \notin unscanned /\ todo \subseteq OutEdges(u)
    /\ IF stage = "unite"
       THEN /\ edge \in OutEdges(u) \ todo /\ edge[3] \in Active /\ edge[3] # u
            /\ contains(params.relation_label_type_id_list, edge[2])
       ELSE edge = <<>>
    /\ Active \subseteq InducedNodes
    /\ InducedNodes \ unscanned \subseteq Active

\* The forest: its trees have the sizes in their roots, and are as many as are
\* counted.
SetsOK ==
    /\ Forest(parent)
    /\ \A x \in Active : FindRoot(parent, x) \in Active
    /\ components = Cardinality(RootSet)
    /\ RootsHoldSizes

\* A set of vertices that is closed under the edges united ...
Closed(S) == S \subseteq Active /\ \A e \in United : e[1] \in S <=> e[3] \in S

\* ... has all of a tree or nothing of it, and trees are closed.
ConnectedOK ==
    /\ \A e \in United : {e[1], e[3]} \subseteq Active
                         /\ FindRoot(parent, e[1]) = FindRoot(parent, e[3])
    /\ \A S : Closed(S) => \A x \in Active : x \in S <=> FindRoot(parent, x) \in S

Inv == ScanOK /\ SetsOK /\ ConnectedOK

\* Sets of vertices are finite, and their ids below the limits.
LEMMA VertexSets ==
    /\ IsFiniteSet(Vertex) /\ Vertex \subseteq Nat \ {0}
    /\ kInactive \in Int /\ kInactive < 0
    /\ \A x \in Vertex : x < INT32_MAX /\ kInactive # -1
    /\ Cardinality(Vertex) \in Nat /\ Cardinality(Vertex) < - kInactive
    /\ \A S \in SUBSET Vertex : IsFiniteSet(S) /\ Cardinality(S) \in 0 .. Cardinality(Vertex)
<1>1. IsFiniteSet(Vertex) /\ Vertex \subseteq 1 .. (INT32_MAX - 1) /\ INT32_MAX \in Nat
  <2>1. \A x \in Vertex : x \in Nat \ {0} /\ x < INT32_MAX
    BY VertexAssumption, LimitAssumption
  <2>2. INT32_MAX \in Nat
    BY LimitAssumption
  <2>3. \A x \in Vertex : x \in 1 .. (INT32_MAX - 1)
    BY <2>1, <2>2
  <2> QED
    BY <2>2, <2>3, VertexAssumption
<1>2. Cardinality(Vertex) \in Nat
  BY <1>1, FS_CardinalityType
<1>3. ASSUME NEW S \in SUBSET Vertex
      PROVE  IsFiniteSet(S) /\ Cardinality(S) \in 0 .. Cardinality(Vertex)
  <2>1. IsFiniteSet(S) /\ Cardinality(S) <= Cardinality(Vertex)
    BY <1>1, FS_Subset
  <2> QED
    BY <1>2, <2>1, FS_CardinalityType
<1>4. Cardinality(Vertex) < - kInactive
  <2>1. IsFiniteSet(1 .. INT32_MAX) /\ Cardinality(1 .. INT32_MAX) = INT32_MAX
    <3>1. IsFiniteSet(1 .. INT32_MAX)
      BY <1>1, FS_Interval
    <3>2. Cardinality(1 .. INT32_MAX) = IF 1 > INT32_MAX THEN 0 ELSE INT32_MAX - 1 + 1
      BY <1>1, FS_Interval
    <3> QED
      BY <1>1, <3>1, <3>2
  <2>2. Vertex \subseteq 1 .. INT32_MAX
    BY <1>1
  <2>3. Cardinality(Vertex) <= Cardinality(1 .. INT32_MAX)
    BY <2>1, <2>2, FS_Subset
  <2> QED
    BY <1>1, <1>2, <2>1, <2>3 DEF kInactive
<1>5. /\ kInactive \in Int /\ kInactive < 0
      /\ \A x \in Vertex : x < INT32_MAX /\ kInactive # -1
  BY <1>1 DEF kInactive
<1> QED
  BY <1>1, <1>2, <1>3, <1>4, <1>5

-----------------------------------------------------------------------------
(* Meeting a vertex. *)

\* A vertex that was not active becomes a tree of its own.
Met(x) ==
    /\ Forest(parent')
    /\ Active' = Active \cup {x}
    /\ \A y \in Vertex : FindRoot(parent', y) = FindRoot(parent, y)
    /\ \A y \in Active : parent'[y] = parent[y]
    /\ x \notin Active => parent'[x] = -1 /\ FindRoot(parent, x) = x
    /\ components' = IF x \in Active THEN components ELSE components + 1

LEMMA AddedMeets ==
    ASSUME Forest(parent), NEW x \in Vertex, Added(x)
    PROVE  Met(x)
<1>1. x \in Active <=> is_active(parent, x)
  BY DEF Active
<1>2. CASE x \in Active
  <2>1. parent' = parent /\ components' = components
    BY <1>1, <1>2 DEF Added
  <2>2. Active' = Active
    BY <2>1 DEF Active
  <2> QED
    BY <1>2, <2>1, <2>2 DEF Met
<1>3. CASE x \notin Active
  <2>1. parent' = activate(parent, x) /\ components' = components + 1
    BY <1>1, <1>3 DEF Added
  <2>2. parent[x] = kInactive /\ parent[x] < 0 /\ x < INT32_MAX /\ kInactive # -1
    BY <1>3, VertexSets DEF Active, is_active
  <2>3. /\ Forest(parent')
        /\ \A y \in Vertex : FindRoot(parent', y) = FindRoot(parent, y)
    BY <2>1, <2>2, ActivateKeeps
  <2>4. parent'[x] = -1 /\ \A y \in Vertex \ {x} : parent'[y] = parent[y]
    BY <2>1 DEF activate, Forest
  <2>5. Active' = Active \cup {x}
    BY <2>2, <2>4 DEF Active, is_active
  <2>6. FindRoot(parent, x) = x
    BY <2>2, RootFound
  <2> QED
    BY <1>3, <2>1, <2>3, <2>4, <2>5, <2>6 DEF Met, Active
<1> QED
  BY <1>2, <1>3

LEMMA MetKeepsSets ==
    ASSUME SetsOK, NEW x \in Vertex, Met(x)
    PROVE  /\ SetsOK'
           /\ RootSet' = IF x \in Active THEN RootSet ELSE RootSet \cup {x}
           /\ x \notin Active => SetOf(x)' = {x}
           /\ \A r \in RootSet : SetOf(r)' = SetOf(r)
<1>1. Forest(parent') /\ Forest(parent) /\ Active \subseteq Vertex
  BY DEF Met, SetsOK, Active
<1>2. \A y \in Active' : FindRoot(parent', y) \in Active'
  BY <1>1 DEF SetsOK, Met
<1>3. CASE x \in Active
  <2>1. Active' = Active /\ RootSet' = RootSet /\ components' = components
    BY <1>1, <1>3 DEF Met, RootSet
  <2>2. ASSUME NEW r \in RootSet PROVE SetOf(r)' = SetOf(r) /\ parent'[r] = parent[r]
    BY <1>1, <2>1 DEF Met, SetOf, RootSet
  <2> QED
    BY <1>1, <1>2, <1>3, <2>1, <2>2 DEF SetsOK, RootsHoldSizes
<1>4. CASE x \notin Active
  <2>1. Active' = Active \cup {x} /\ components' = components + 1 /\ parent'[x] = -1
    BY <1>4 DEF Met
  <2>2. RootSet' = RootSet \cup {x} /\ x \notin RootSet
    BY <1>1, <1>4, <2>1 DEF Met, RootSet
  <2>3. components' = Cardinality(RootSet')
    <3>1. IsFiniteSet(RootSet)
      BY <1>1, VertexSets DEF RootSet
    <3> QED
      BY <2>1, <2>2, <3>1, FS_AddElement DEF SetsOK
  <2>4. ASSUME NEW r \in RootSet PROVE SetOf(r)' = SetOf(r) /\ parent'[r] = parent[r]
    <3>1. FindRoot(parent', x) # r
      BY <1>4 DEF Met, RootSet
    <3> QED
      BY <1>1, <2>1, <3>1 DEF Met, SetOf, RootSet
  <2>5. SetOf(x)' = {x}
    BY <1>1, <1>4, <2>1 DEF Met, SetOf, SetsOK
  <2>6. Cardinality({x}) = 1
    BY FS_Singleton
  <2>7. RootsHoldSizes'
    BY <2>1, <2>2, <2>4, <2>5, <2>6 DEF SetsOK, RootsHoldSizes
  <2> QED
    BY <1>1, <1>2, <1>4, <2>2, <2>3, <2>4, <2>5, <2>7 DEF SetsOK
<1> QED
  BY <1>3, <1>4

LEMMA MetKeepsConnected ==
    ASSUME SetsOK, ConnectedOK, NEW x \in Vertex, Met(x), United' = United
    PROVE  ConnectedOK'
<1>1. Active \subseteq Vertex /\ Active' = Active \cup {x}
  BY DEF Met, Active
<1>2. ASSUME NEW e \in United'
      PROVE  {e[1], e[3]} \subseteq Active' /\ FindRoot(parent', e[1]) = FindRoot(parent', e[3])
  BY <1>1, <1>2 DEF ConnectedOK, Met
<1>3. ASSUME NEW S, Closed(S)', NEW y \in Active'
      PROVE  y \in S <=> FindRoot(parent', y) \in S
  <2>1. Closed(S \cap Active)
    BY <1>1, <1>3 DEF Closed, ConnectedOK
  <2>2. CASE y \in Active
    BY <1>1, <2>1, <2>2 DEF ConnectedOK, SetsOK, Met
  <2>3. CASE y \notin Active
    BY <1>1, <2>3 DEF Met
  <2> QED
    BY <2>2, <2>3
<1> QED
  BY <1>2, <1>3 DEF ConnectedOK

-----------------------------------------------------------------------------
(* Uniting two vertices. *)

\* Two trees become one, or the forest is only compressed.
Joined(big, small) ==
    /\ Forest(parent') /\ Active' = Active
    /\ big \in RootSet /\ small \in RootSet /\ big # small
    /\ parent'[big] = parent[big] + parent[small] /\ parent'[small] = big
    /\ parent[big] <= parent[small]
    /\ \A height : Rises(parent, height) =>
          \A y \in Vertex \ {big, small} : ~ (parent'[y] < 0) => height[y] < height[parent'[y]]
    /\ \A y \in Vertex \ {big, small} :
          IF parent[y] < 0 THEN parent'[y] = parent[y] ELSE parent'[y] \in Vertex
    /\ \A y \in Vertex :
          FindRoot(parent', y) = IF FindRoot(parent, y) = small THEN big ELSE FindRoot(parent, y)
    /\ components' = components - 1
Shortened ==
    /\ Forest(parent') /\ Active' = Active
    /\ \A y \in Vertex : IF parent[y] < 0 THEN parent'[y] = parent[y] ELSE parent'[y] \in Vertex
    /\ \A height : Rises(parent, height) => Rises(parent', height)
    /\ \A y \in Vertex : FindRoot(parent', y) = FindRoot(parent, y)
    /\ components' = components

\* Of two forests with the same roots and the same marks the same vertices are active.
LEMMA SameActive ==
    ASSUME NEW old, NEW new,
           \A y \in Vertex : (old[y] = kInactive <=> new[y] = kInactive)
    PROVE  \A y \in Vertex : is_active(old, y) <=> is_active(new, y)
  BY DEF is_active

\* Two roots hold the size of their two sets.
LEMMA TwoSets ==
    ASSUME SetsOK, NEW a \in RootSet, NEW b \in RootSet, a # b
    PROVE  /\ parent[a] + parent[b] = - Cardinality(SetOf(a) \cup SetOf(b))
           /\ parent[a] + parent[b] \in Int
           /\ parent[a] + parent[b] < 0 /\ parent[a] + parent[b] # kInactive
<1>1. SetOf(a) \in SUBSET Vertex /\ SetOf(b) \in SUBSET Vertex /\ SetOf(a) \cap SetOf(b) = {}
  BY DEF SetOf, Active
<1>2. /\ IsFiniteSet(SetOf(a)) /\ IsFiniteSet(SetOf(b))
      /\ Cardinality(SetOf(a)) \in Nat /\ Cardinality(SetOf(b)) \in Nat
  BY <1>1, VertexSets
<1>3. Cardinality(SetOf(a) \cup SetOf(b)) = Cardinality(SetOf(a)) + Cardinality(SetOf(b))
  <2>1. Cardinality(SetOf(a) \cap SetOf(b)) = 0
    BY <1>1, FS_EmptySet
  <2>2. Cardinality(SetOf(a) \cup SetOf(b))
          = Cardinality(SetOf(a)) + Cardinality(SetOf(b)) - Cardinality(SetOf(a) \cap SetOf(b))
    BY <1>2, FS_Union
  <2> QED
    BY <1>2, <2>1, <2>2
<1>4. parent[a] \in Int /\ parent[b] \in Int /\ parent[a] < 0 /\ parent[b] < 0
  BY DEF SetsOK, Forest, RootSet, Active
<1>5. - parent[a] = Cardinality(SetOf(a)) /\ - parent[b] = Cardinality(SetOf(b))
  BY DEF SetsOK, RootsHoldSizes
<1>6. /\ Cardinality(SetOf(a) \cup SetOf(b)) \in 0 .. Cardinality(Vertex)
      /\ Cardinality(Vertex) \in Nat /\ Cardinality(Vertex) < - kInactive /\ kInactive \in Int
  <2>1. SetOf(a) \cup SetOf(b) \in SUBSET Vertex
    BY <1>1
  <2> QED
    BY <2>1, VertexSets
<1>7. parent[a] + parent[b] = - Cardinality(SetOf(a) \cup SetOf(b))
  BY <1>2, <1>3, <1>4, <1>5
<1> QED
  BY <1>4, <1>6, <1>7

LEMMA UniteJoins ==
    ASSUME ScanOK, SetsOK, Unite
    PROVE  LET ru == FindRoot(parent, u)
               rv == FindRoot(parent, edge[3])
           IN  IF ru = rv THEN Shortened ELSE Joined(ru, rv) \/ Joined(rv, ru)
<1> DEFINE v == edge[3]
           ru == FindRoot(parent, u)
           rv == FindRoot(parent, v)
           a == Compress(parent, u)
           b == Compress(a, v)
<1>1. u \in Active /\ v \in Active /\ Active \subseteq Vertex /\ Forest(parent)
  BY DEF ScanOK, SetsOK, Unite, Active
<1>2. /\ Forest(b)
      /\ \A y \in Vertex :
            /\ FindRoot(b, y) = FindRoot(parent, y)
            /\ IF parent[y] < 0 THEN b[y] = parent[y] ELSE b[y] \in Vertex
      /\ \A height : Rises(parent, height) => Rises(b, height)
  <2>1. /\ Forest(a)
        /\ \A y \in Vertex :
              /\ FindRoot(a, y) = FindRoot(parent, y)
              /\ IF parent[y] < 0 THEN a[y] = parent[y] ELSE a[y] \in Vertex
        /\ \A height : Rises(parent, height) => Rises(a, height)
    BY <1>1, Compressed
  <2> HIDE DEF a, v
  <2>2. /\ Forest(b)
        /\ \A y \in Vertex :
              /\ FindRoot(b, y) = FindRoot(a, y)
              /\ IF a[y] < 0 THEN b[y] = a[y] ELSE b[y] \in Vertex
        /\ \A height : Rises(a, height) => Rises(b, height)
    BY <1>1, <2>1, Compressed
  <2>3. Vertex \subseteq Nat \ {0}
    BY VertexSets
  <2> HIDE DEF b
  <2> QED
    BY <2>1, <2>2, <2>3
<1>3. FindRoot(b, u) = ru /\ FindRoot(b, v) = rv
  BY <1>1, <1>2
<1>4. IF ru = rv THEN parent' = b /\ components' = components
      ELSE parent' = Link(b, ru, rv) /\ components' = components - 1
  BY <1>3 DEF Unite
<1> HIDE DEF a, b
<1>5. /\ ru \in Active /\ rv \in Active /\ parent[ru] < 0 /\ parent[rv] < 0
      /\ b[ru] = parent[ru] /\ b[rv] = parent[rv]
  <2>1. ru \in Active /\ rv \in Active /\ parent[ru] < 0 /\ parent[rv] < 0
    BY <1>1, RootFound DEF SetsOK
  <2> QED
    BY <1>1, <1>2, <2>1
<1>6. Vertex \subseteq Nat \ {0} /\ kInactive \in Int /\ kInactive < 0
  BY VertexSets
<1>7. ASSUME ru = rv PROVE Shortened
  <2>1. parent' = b /\ components' = components
    BY <1>4, <1>7
  <2>2. \A y \in Vertex : (parent[y] = kInactive <=> b[y] = kInactive)
    BY <1>2, <1>6
  <2>3. Active' = Active
    BY <2>1, <2>2, SameActive DEF Active
  <2> QED
    BY <1>2, <2>1, <2>3 DEF Shortened
<1>8. ASSUME NEW big \in {ru, rv}, NEW small \in {ru, rv}, Linked(b, parent', big, small),
             b[big] <= b[small], components' = components - 1
      PROVE  Joined(big, small)
  <2>1. big \in RootSet /\ small \in RootSet /\ big # small
    BY <1>5, <1>8 DEF RootSet, Linked
  <2>2. parent'[big] = parent[big] + parent[small] /\ parent'[small] = big
    BY <1>5, <1>8 DEF Linked
  <2>3. \A y \in Vertex \ {big, small} :
           IF parent[y] < 0 THEN parent'[y] = parent[y] ELSE parent'[y] \in Vertex
    BY <1>2, <1>8 DEF Linked
  <2>4. \A y \in Vertex :
           FindRoot(parent', y) = IF FindRoot(parent, y) = small THEN big ELSE FindRoot(parent, y)
    BY <1>2, <1>8 DEF Linked
  <2>5. parent'[big] # kInactive /\ parent'[small] # kInactive
    <3>1. big \in Nat \ {0}
      BY <1>6, <2>1 DEF RootSet, Active
    <3>2. parent[big] + parent[small] # kInactive
      BY <2>1, TwoSets
    <3> QED
      BY <1>6, <2>2, <3>1, <3>2
  <2>6. \A y \in Vertex : (parent[y] = kInactive <=> parent'[y] = kInactive)
    BY <1>6, <2>1, <2>3, <2>5 DEF RootSet, Active, is_active
  <2>7. Active' = Active
    BY <2>6, SameActive DEF Active
  <2>8. parent[big] <= parent[small]
    BY <1>5, <1>8
  <2>9. ASSUME NEW height, Rises(parent, height)
        PROVE  \A y \in Vertex \ {big, small} : ~ (parent'[y] < 0) => height[y] < height[parent'[y]]
    BY <1>2, <1>8, <2>9 DEF Rises, Linked
  <2> QED
    BY <1>8, <2>1, <2>2, <2>3, <2>4, <2>7, <2>8, <2>9 DEF Joined, Linked
<1>9. ASSUME ru # rv PROVE Joined(ru, rv) \/ Joined(rv, ru)
  <2>1. parent' = Link(b, ru, rv) /\ components' = components - 1
    BY <1>4, <1>9
  <2>2. ru \in Vertex /\ rv \in Vertex /\ b[ru] < 0 /\ b[rv] < 0
    BY <1>1, <1>5
  <2> HIDE DEF ru, rv
  <2>3. \/ Linked(b, Link(b, ru, rv), ru, rv) /\ b[ru] <= b[rv]
        \/ Linked(b, Link(b, ru, rv), rv, ru) /\ b[rv] <= b[ru]
    BY <1>2, <1>9, <2>2, LinkLinks
  <2> QED
    BY <1>8, <2>1, <2>3
<1> QED
  BY <1>7, <1>9

LEMMA ShortenedKeepsSets ==
    ASSUME SetsOK, Shortened
    PROVE  SetsOK' /\ RootSet' = RootSet /\ \A r \in RootSet : SetOf(r)' = SetOf(r)
<1>1. Active' = Active /\ Active \subseteq Vertex /\ Vertex \subseteq Nat \ {0}
  BY VertexSets DEF Shortened, Active
<1>2. RootSet' = RootSet
  <2>1. ASSUME NEW y \in Vertex PROVE parent'[y] < 0 <=> parent[y] < 0
    <3>1. ASSUME ~ (parent[y] < 0) PROVE parent'[y] \in Nat \ {0}
      BY <1>1, <3>1 DEF Shortened
    <3> QED
      BY <3>1 DEF Shortened
  <2> QED
    BY <1>1, <2>1 DEF RootSet
<1>3. ASSUME NEW r \in RootSet PROVE SetOf(r)' = SetOf(r) /\ parent'[r] = parent[r]
  BY <1>1 DEF Shortened, SetOf, RootSet
<1>4. RootsHoldSizes'
  BY <1>2, <1>3 DEF SetsOK, RootsHoldSizes
<1>5. \A x \in Active' : FindRoot(parent', x) \in Active'
  BY <1>1 DEF SetsOK, Shortened
<1> QED
  BY <1>2, <1>3, <1>4, <1>5 DEF SetsOK, Shortened

LEMMA JoinedKeepsSets ==
    ASSUME SetsOK, NEW a, NEW b, Joined(a, b)
    PROVE  /\ SetsOK'
           /\ RootSet' = RootSet \ {b} /\ {a, b} \subseteq RootSet /\ a # b
           /\ SetOf(a)' = SetOf(a) \cup SetOf(b)
           /\ \A r \in RootSet \ {a, b} : SetOf(r)' = SetOf(r)
<1>1. Active' = Active /\ Active \subseteq Vertex /\ Vertex \subseteq Nat \ {0}
  BY VertexSets DEF Joined, Active
<1>2. a \in RootSet /\ b \in RootSet /\ a # b /\ a \in Vertex /\ b \in Vertex
  BY <1>1 DEF Joined, RootSet
<1>3. parent'[a] = parent[a] + parent[b] /\ parent'[a] < 0
  BY <1>2, TwoSets DEF Joined
<1>4. RootSet' = RootSet \ {b}
  <2>1. ASSUME NEW y \in Vertex \ {a, b} PROVE parent'[y] < 0 <=> parent[y] < 0
    <3>1. ASSUME ~ (parent[y] < 0) PROVE parent'[y] \in Nat \ {0}
      BY <1>1, <3>1 DEF Joined
    <3> QED
      BY <3>1 DEF Joined
  <2>2. parent'[b] \in Nat \ {0}
    BY <1>1, <1>2 DEF Joined
  <2>3. ~ (parent'[b] < 0)
    BY <2>2
  <2>4. ASSUME NEW y \in Active PROVE parent'[y] < 0 <=> parent[y] < 0 /\ y # b
    <3>1. CASE y = a
      BY <1>2, <1>3, <3>1 DEF RootSet
    <3>2. CASE y = b
      BY <2>3, <3>2
    <3>3. CASE y \notin {a, b}
      BY <1>1, <2>1, <3>3
    <3> QED
      BY <3>1, <3>2, <3>3
  <2> QED
    BY <1>1, <2>4 DEF RootSet
<1>5. ASSUME NEW r \in RootSet PROVE FindRoot(parent, r) = r
  BY <1>1, RootFound DEF RootSet, SetsOK
<1>6. SetOf(a)' = SetOf(a) \cup SetOf(b)
  BY <1>1, <1>2 DEF Joined, SetOf
<1>7. ASSUME NEW r \in RootSet \ {a, b} PROVE SetOf(r)' = SetOf(r) /\ parent'[r] = parent[r]
  BY <1>1 DEF Joined, SetOf, RootSet
<1>8. - parent'[a] = Cardinality(SetOf(a) \cup SetOf(b))
  <2>1. IsFiniteSet(SetOf(a) \cup SetOf(b)) /\ Cardinality(SetOf(a) \cup SetOf(b)) \in Nat
    <3>1. SetOf(a) \cup SetOf(b) \in SUBSET Vertex
      BY <1>1 DEF SetOf
    <3> QED
      BY <3>1, VertexSets
  <2> QED
    BY <1>2, <1>3, <2>1, TwoSets
<1>9. RootsHoldSizes'
  BY <1>2, <1>4, <1>6, <1>7, <1>8 DEF SetsOK, RootsHoldSizes
<1>10. components' = Cardinality(RootSet')
  <2>1. IsFiniteSet(RootSet)
    BY <1>1, VertexSets DEF RootSet
  <2> QED
    BY <1>2, <1>4, <2>1, FS_RemoveElement DEF SetsOK, Joined
<1>11. \A x \in Active' : FindRoot(parent', x) \in Active'
  BY <1>1, <1>2 DEF SetsOK, Joined, RootSet
<1> QED
  BY <1>2, <1>4, <1>6, <1>7, <1>9, <1>10, <1>11 DEF SetsOK, Joined

\* The edge that is united belongs to the forest afterwards.
LEMMA UniteKeepsConnected ==
    ASSUME SetsOK, ConnectedOK, NEW v, u \in Active, v \in Active,
           edge[1] = u, edge[3] = v, United' = United \cup {edge},
           LET ru == FindRoot(parent, u)
               rv == FindRoot(parent, v)
           IN  IF ru = rv THEN Shortened ELSE Joined(ru, rv) \/ Joined(rv, ru)
    PROVE  ConnectedOK'
<1> DEFINE ru == FindRoot(parent, u)
           rv == FindRoot(parent, v)
<1>1. Active \subseteq Vertex /\ ru \in Active /\ rv \in Active
  BY DEF Active, SetsOK
<1>2. CASE ru = rv
  <2>1. Active' = Active /\ \A y \in Vertex : FindRoot(parent', y) = FindRoot(parent, y)
    BY <1>2 DEF Shortened
  <2>2. ASSUME NEW e \in United'
        PROVE  {e[1], e[3]} \subseteq Active' /\ FindRoot(parent', e[1]) = FindRoot(parent', e[3])
    BY <1>1, <1>2, <2>1, <2>2 DEF ConnectedOK
  <2>3. ASSUME NEW S, Closed(S)' PROVE Closed(S)
    BY <2>1, <2>3 DEF Closed
  <2> QED
    BY <1>1, <2>1, <2>2, <2>3 DEF ConnectedOK
<1>3. ASSUME NEW a \in {ru, rv}, NEW b \in {ru, rv}, Joined(a, b)
      PROVE  ConnectedOK'
  <2>1. /\ Active' = Active /\ a # b
        /\ \A y \in Vertex :
              FindRoot(parent', y) = IF FindRoot(parent, y) = b THEN a ELSE FindRoot(parent, y)
    BY <1>3 DEF Joined
  <2>2. ASSUME NEW e \in United'
        PROVE  {e[1], e[3]} \subseteq Active' /\ FindRoot(parent', e[1]) = FindRoot(parent', e[3])
    <3>1. CASE e = edge
      BY <1>1, <1>3, <2>1, <3>1
    <3>2. CASE e \in United
      BY <1>1, <2>1, <3>2 DEF ConnectedOK
    <3> QED
      BY <2>2, <3>1, <3>2
  <2>3. ASSUME NEW S, Closed(S)', NEW x \in Active'
        PROVE  x \in S <=> FindRoot(parent', x) \in S
    <3>1. Closed(S) /\ (u \in S <=> v \in S)
      BY <2>1, <2>3 DEF Closed
    <3>2. \A y \in Active : y \in S <=> FindRoot(parent, y) \in S
      BY <3>1 DEF ConnectedOK
    <3>3. ru \in S <=> rv \in S
      BY <3>1, <3>2
    <3>4. a \in S <=> b \in S
      BY <3>3
    <3> HIDE DEF ru, rv
    <3> QED
      BY <1>1, <2>1, <3>2, <3>4
  <2> QED
    BY <2>2, <2>3 DEF ConnectedOK
<1>4. CASE ru # rv
  <2>1. Joined(ru, rv) \/ Joined(rv, ru)
    BY <1>4
  <2> QED
    BY <1>3, <2>1
<1> QED
  BY <1>2, <1>4

-----------------------------------------------------------------------------
(* The scan. *)

\* Its edges are triples whose ends are vertices.
LEMMA EdgesAreTriples ==
    ASSUME graph \in StoredGraphs, NEW e \in graph.edges
    PROVE  e # <<>> /\ e = <<e[1], e[2], e[3]>> /\ e[1] \in Vertex /\ e[3] \in Vertex
<1>1. e = <<e[1], e[2], e[3]>> /\ {e[1], e[3]} \subseteq Vertex
  BY DEF StoredGraphs
<1>2. <<e[1], e[2], e[3]>> # <<>>
  OBVIOUS
<1> QED
  BY <1>1, <1>2

\* Of the vertices still to be scanned the least is the next.
LEMMA LeastUnscanned ==
    ASSUME unscanned \in SUBSET Vertex, unscanned # {}
    PROVE  Min(unscanned) \in unscanned
<1>1. unscanned \in SUBSET Nat
  BY VertexSets
<1> QED
  BY <1>1, MinExists

\* A filter of one relation that admits an edge has it among the edges read.
LEMMA InducedIsRead ==
    ASSUME NEW e \in InducedEdges
    PROVE  e \in OutEdges(e[1])
<1>1. CASE params.relation_label_type_id_list = {}
  <2>1. Cardinality(params.relation_label_type_id_list) # 1
    BY <1>1, FS_EmptySet
  <2> QED
    BY <2>1 DEF InducedEdges, OutEdges
<1>2. CASE e[2] \in params.relation_label_type_id_list
  BY <1>2 DEF InducedEdges, OutEdges
<1> QED
  BY <1>1, <1>2 DEF InducedEdges, contains

LEMMA ScanVertexKeeps ==
    ASSUME Inv, ScanVertex
    PROVE  Inv'
<1>1. PICK x \in unscanned :
         /\ x \in Vertex /\ Admitted(x) /\ stage = "scan"
         /\ u' = x /\ unscanned' = unscanned \ {x} /\ Added(x)
         /\ todo' = OutEdges(x) /\ stage' = "edges"
         /\ UNCHANGED <<graph, params, edge>>
  BY LeastUnscanned DEF Inv, ScanOK, ScanVertex
<1>2. Met(x)
  BY <1>1, AddedMeets DEF Inv, SetsOK
<1>3. Active' = Active \cup {x}
  BY <1>2 DEF Met
<1>4. InducedNodes' = InducedNodes /\ InducedEdges' = InducedEdges /\ OutEdges(x)' = OutEdges(x)
  BY <1>1 DEF InducedNodes, InducedEdges, Admitted, OutEdges
<1>5. todo = {} /\ edge = <<>> /\ graph \in StoredGraphs
  BY <1>1 DEF Inv, ScanOK
<1>6. United' = United
  <2>1. ASSUME NEW e \in InducedEdges
        PROVE  (e[1] \notin unscanned' /\ e \notin todo') <=> e[1] \notin unscanned
    <3>1. e[1] = x => e \in todo'
      BY <1>1, InducedIsRead
    <3>2. e[1] # x => e \notin todo'
      BY <1>1 DEF OutEdges
    <3> QED
      BY <1>1, <3>1, <3>2
  <2> QED
    BY <1>1, <1>4, <1>5, <2>1 DEF United
<1>7. ScanOK'
  BY <1>1, <1>3, <1>4, <1>5 DEF Inv, ScanOK, InducedNodes
<1> QED
  BY <1>1, <1>2, <1>6, <1>7, MetKeepsSets, MetKeepsConnected DEF Inv

\* A step that leaves the forest alone passes over loops at most.
LEMMA ForestAlone ==
    ASSUME SetsOK, ConnectedOK, UNCHANGED <<parent, components>>, United \subseteq United',
           \A e \in United' \ United : e[1] \in Active /\ e[1] = e[3]
    PROVE  SetsOK' /\ ConnectedOK'
<1>1. Active' = Active
  BY DEF Active
<1>2. SetsOK'
  BY DEF SetsOK, RootsHoldSizes, RootSet, SetOf, Active
<1>3. ASSUME NEW e \in United'
      PROVE  {e[1], e[3]} \subseteq Active' /\ FindRoot(parent', e[1]) = FindRoot(parent', e[3])
  BY <1>1, <1>3 DEF ConnectedOK
<1>4. ASSUME NEW S, Closed(S)' PROVE Closed(S)
  BY <1>1, <1>4 DEF Closed
<1>5. ConnectedOK'
  BY <1>1, <1>3, <1>4 DEF ConnectedOK
<1> QED
  BY <1>2, <1>5

\* What the scan does not change.
LEMMA SameQuery ==
    ASSUME UNCHANGED <<graph, params>>
    PROVE  /\ InducedNodes' = InducedNodes /\ InducedEdges' = InducedEdges
           /\ u' = u => OutEdges(u)' = OutEdges(u)
  BY DEF InducedNodes, InducedEdges, Admitted, OutEdges

LEMMA QuietStepsKeep ==
    ASSUME Inv, SkipVertex \/ EndVertex \/ EndOfScan \/ UNCHANGED wccVars
    PROVE  Inv'
<1>1. UNCHANGED <<graph, params, parent, components, u, todo, edge>>
  BY DEF SkipVertex, EndVertex, EndOfScan, wccVars
<1>2. /\ InducedNodes' = InducedNodes /\ InducedEdges' = InducedEdges /\ Active' = Active
      /\ OutEdges(u)' = OutEdges(u)
  BY <1>1, SameQuery DEF Active
<1>3. ASSUME SkipVertex
      PROVE  /\ unscanned' \subseteq unscanned /\ stage' = stage /\ stage = "scan"
             /\ \A x \in unscanned \ unscanned' : x \notin InducedNodes
  <2>1. Min(unscanned) \in unscanned
    BY <1>3, LeastUnscanned DEF SkipVertex, Inv, ScanOK
  <2> QED
    BY <1>3, <2>1 DEF SkipVertex, InducedNodes
<1>4. ASSUME ~ SkipVertex
      PROVE  unscanned' = unscanned
  BY <1>4 DEF EndVertex, EndOfScan, wccVars
<1>5. \A x \in unscanned \ unscanned' : x \notin InducedNodes
  BY <1>3, <1>4
<1>6. unscanned' \subseteq unscanned
  BY <1>3, <1>4
<1>7. United' = United
  BY <1>1, <1>2, <1>5, <1>6 DEF United, InducedEdges
<1>8. SetsOK' /\ ConnectedOK'
  BY <1>1, <1>7, ForestAlone DEF Inv
<1>9. ScanOK'
  <2>1. CASE SkipVertex
    BY <1>1, <1>2, <1>3, <2>1 DEF Inv, ScanOK
  <2>2. CASE EndVertex
    BY <1>1, <1>2, <2>2 DEF EndVertex, Inv, ScanOK
  <2>3. CASE EndOfScan
    BY <1>1, <1>2, <2>3 DEF EndOfScan, Inv, ScanOK
  <2>4. CASE UNCHANGED wccVars
    BY <1>1, <1>2, <2>4 DEF wccVars, Inv, ScanOK
  <2> QED
    BY <2>1, <2>2, <2>3, <2>4
<1> QED
  BY <1>8, <1>9 DEF Inv

LEMMA SkipEdgeKeeps ==
    ASSUME Inv, NEW e \in todo, SkipEdge(e)
    PROVE  Inv'
<1>1. /\ stage = "edges" /\ stage' = "edges" /\ ~ Accepted(e) /\ todo' = todo \ {e}
      /\ UNCHANGED <<graph, params, parent, components, unscanned, u, edge>>
  BY DEF SkipEdge
<1>2. /\ InducedNodes' = InducedNodes /\ InducedEdges' = InducedEdges /\ Active' = Active
      /\ OutEdges(u)' = OutEdges(u)
  BY <1>1, SameQuery DEF Active
<1>3. e \in graph.edges /\ e[1] = u /\ u \in Active /\ graph \in StoredGraphs
  BY <1>1 DEF Inv, ScanOK, OutEdges
<1>4. e \in InducedEdges => e[1] = e[3]
  BY <1>1, <1>3 DEF Accepted, InducedEdges, InducedNodes
<1>5. United \subseteq United' /\ United' \subseteq United \cup {e}
  BY <1>1, <1>2 DEF United
<1>6. \A f \in United' \ United : f[1] \in Active /\ f[1] = f[3]
  BY <1>2, <1>3, <1>4, <1>5 DEF United
<1>7. SetsOK' /\ ConnectedOK'
  BY <1>1, <1>5, <1>6, ForestAlone DEF Inv
<1>8. ScanOK'
  BY <1>1, <1>2 DEF Inv, ScanOK
<1> QED
  BY <1>7, <1>8 DEF Inv

LEMMA TakeEdgeKeeps ==
    ASSUME Inv, NEW e \in todo, TakeEdge(e)
    PROVE  Inv'
<1>1. /\ stage = "edges" /\ stage' = "unite" /\ Accepted(e) /\ Added(e[3])
      /\ edge' = e /\ todo' = todo \ {e} /\ UNCHANGED <<graph, params, unscanned, u>>
  BY DEF TakeEdge
<1>2. /\ InducedNodes' = InducedNodes /\ InducedEdges' = InducedEdges
      /\ OutEdges(u)' = OutEdges(u)
  BY <1>1, SameQuery
<1>3. e \in OutEdges(u) /\ e \in graph.edges /\ graph \in StoredGraphs /\ edge = <<>>
  BY <1>1 DEF Inv, ScanOK, OutEdges
<1>4. e # <<>> /\ e[3] \in Vertex
  BY <1>3, EdgesAreTriples
<1>5. Met(e[3])
  BY <1>1, <1>4, AddedMeets DEF Inv, SetsOK
<1>6. \A f \in InducedEdges : f # <<>>
  BY <1>3, EdgesAreTriples DEF InducedEdges
<1>7. United' = United
  BY <1>1, <1>2, <1>3, <1>6 DEF United
<1>8. e[3] \in InducedNodes /\ contains(params.relation_label_type_id_list, e[2]) /\ e[3] # u
  BY <1>1, <1>4 DEF Accepted, InducedNodes
<1>9. ScanOK'
  BY <1>1, <1>2, <1>3, <1>5, <1>8 DEF Inv, ScanOK, Met
<1> QED
  BY <1>4, <1>5, <1>7, <1>9, MetKeepsSets, MetKeepsConnected DEF Inv

LEMMA UniteKeeps ==
    ASSUME Inv, Unite
    PROVE  Inv'
<1>1. /\ stage = "unite" /\ stage' = "edges" /\ edge' = <<>>
      /\ UNCHANGED <<graph, params, unscanned, u, todo>>
  BY DEF Unite
<1>2. /\ InducedNodes' = InducedNodes /\ InducedEdges' = InducedEdges
      /\ OutEdges(u)' = OutEdges(u)
  BY <1>1, SameQuery
<1>3. /\ edge \in graph.edges /\ edge[1] = u /\ u \in Active /\ edge[3] \in Active
      /\ edge \notin todo /\ u \notin unscanned /\ graph \in StoredGraphs
      /\ contains(params.relation_label_type_id_list, edge[2])
      /\ Active \subseteq InducedNodes
  BY <1>1 DEF Inv, ScanOK, OutEdges
<1>4. edge \in InducedEdges
  BY <1>3 DEF InducedEdges
<1>5. \A f \in InducedEdges : f # <<>>
  BY <1>3, EdgesAreTriples DEF InducedEdges
<1>6. United' = United \cup {edge}
  BY <1>1, <1>2, <1>3, <1>4, <1>5 DEF United
<1>7. LET ru == FindRoot(parent, u)
          rv == FindRoot(parent, edge[3])
      IN  IF ru = rv THEN Shortened ELSE Joined(ru, rv) \/ Joined(rv, ru)
  BY UniteJoins DEF Inv
<1>8. SetsOK' /\ Active' = Active
  <2>1. CASE Shortened
    BY <2>1, ShortenedKeepsSets DEF Inv, Shortened
  <2>2. ASSUME NEW a, NEW b, Joined(a, b) PROVE SetsOK' /\ Active' = Active
    BY <2>2, JoinedKeepsSets DEF Inv, Joined
  <2> QED
    BY <1>7, <2>1, <2>2
<1>9. ConnectedOK'
  BY <1>3, <1>6, <1>7, UniteKeepsConnected DEF Inv
<1>10. ScanOK'
  BY <1>1, <1>2, <1>8 DEF Inv, ScanOK
<1> QED
  BY <1>8, <1>9, <1>10 DEF Inv

-----------------------------------------------------------------------------
(* The whole query. *)

LEMMA InitInv == WccInit => Inv
<1> SUFFICES ASSUME WccInit PROVE Inv
  OBVIOUS
<1>1. Active = {} /\ RootSet = {}
  BY DEF WccInit, Active, RootSet, is_active
<1>2. Forest(parent)
  <2>1. kInactive \in Int /\ kInactive < 0
    BY VertexSets
  <2>2. \A x \in Vertex : parent[x] < 0
    BY <2>1 DEF WccInit
  <2>3. IsForest(parent, [x \in Vertex |-> x], [x \in Vertex |-> 0])
    BY <2>2 DEF IsForest
  <2> QED
    BY <2>1, <2>3 DEF WccInit, Forest
<1>3. SetsOK
  BY <1>1, <1>2, FS_EmptySet DEF WccInit, SetsOK, RootsHoldSizes
<1>4. ScanOK
  BY <1>1 DEF WccInit, ScanOK, InducedNodes
<1>5. United = {}
  BY DEF WccInit, United, InducedEdges, InducedNodes
<1> QED
  BY <1>1, <1>3, <1>4, <1>5 DEF Inv, ConnectedOK

LEMMA StepKeepsInv == Inv /\ [WccNext]_wccVars => Inv'
<1> SUFFICES ASSUME Inv, [WccNext]_wccVars PROVE Inv'
  OBVIOUS
<1>1. CASE SkipVertex \/ EndVertex \/ EndOfScan \/ WccDone \/ UNCHANGED wccVars
  BY <1>1, QuietStepsKeep DEF WccDone
<1>2. CASE ScanVertex
  BY <1>2, ScanVertexKeeps
<1>3. CASE \E e \in todo : SkipEdge(e) \/ TakeEdge(e)
  BY <1>3, SkipEdgeKeeps, TakeEdgeKeeps
<1>4. CASE Unite
  BY <1>4, UniteKeeps
<1> QED
  BY <1>1, <1>2, <1>3, <1>4 DEF WccNext

LEMMA SpecInv == WccSpec => []Inv
  BY InitInv, StepKeepsInv, PTL DEF WccSpec

\* The type invariant, for any graph and query: every parent is a vertex, the
\* mark of inactivity or the size of a set, and these are never mixed up.
THEOREM WccTyping == WccSpec => []WccTypeOK
<1>1. Inv => WccTypeOK
  <2> SUFFICES ASSUME Inv PROVE WccTypeOK
    OBVIOUS
  <2>1. Forest(parent) /\ parent \in [Vertex -> Int]
    BY DEF Inv, SetsOK, Forest
  <2>2. ASSUME NEW x \in Vertex
        PROVE  parent[x] \in {kInactive} \cup (- Cardinality(Vertex) .. -1) \cup Vertex
    <3>1. CASE x \notin Active
      BY <3>1, VertexSets DEF Active, is_active
    <3>2. CASE ~ (parent[x] < 0)
      <4>1. PICK root, rank : IsForest(parent, root, rank)
        BY <2>1 DEF Forest
      <4> QED
        BY <3>2, <4>1 DEF IsForest
    <3>3. CASE x \in Active /\ parent[x] < 0
      <4>1. - parent[x] = Cardinality(SetOf(x)) /\ SetOf(x) \in SUBSET Vertex
        BY <3>3 DEF Inv, SetsOK, RootsHoldSizes, RootSet, SetOf, Active
      <4>2. Cardinality(SetOf(x)) \in 0 .. Cardinality(Vertex) /\ Cardinality(Vertex) \in Nat
        BY <4>1, VertexSets
      <4>3. parent[x] \in Int
        BY <2>1
      <4> QED
        BY <3>3, <4>1, <4>2, <4>3
    <3> QED
      BY <3>1, <3>2, <3>3
  <2>3. components \in 0 .. Cardinality(Vertex)
    <3>1. RootSet \in SUBSET Vertex
      BY DEF RootSet, Active
    <3> QED
      BY <3>1, VertexSets DEF Inv, SetsOK
  <2>4. /\ unscanned \in SUBSET Vertex /\ u \in Vertex \cup {0}
        /\ todo \in SUBSET graph.edges
        /\ stage \in {"scan", "edges", "unite", "done"}
        /\ stage = "unite" => edge \in graph.edges
    BY DEF Inv, ScanOK, OutEdges
  <2> QED
    BY <2>1, <2>2, <2>3, <2>4 DEF WccTypeOK
<1> QED
  BY <1>1, SpecInv, PTL

\* Whatever is united in whichever order: the root of a set has its size.
THEOREM RootsHoldSizesTheorem == WccSpec => []RootsHoldSizes
<1>1. Inv => RootsHoldSizes
  BY DEF Inv, SetsOK
<1> QED
  BY <1>1, SpecInv, PTL

\* The tree of a vertex is its component in the edges united.
LEMMA TreeIsComponent ==
    ASSUME Inv, NEW x \in Active
    PROVE  SetOf(FindRoot(parent, x)) = Component(x, Active, United)
<1> DEFINE S == SetOf(FindRoot(parent, x))
<1>1. S \subseteq Active /\ x \in S
  BY DEF SetOf
<1>2. \A e \in United : e[1] \in S <=> e[3] \in S
  BY DEF Inv, ConnectedOK, SetOf
<1>3. ASSUME NEW y \in Component(x, Active, United) PROVE y \in S
  <2> HIDE DEF S
  <2> QED
    BY <1>1, <1>2 DEF Component
<1>4. ASSUME NEW y \in S, NEW T \in SUBSET Active, \A e \in United : e[1] \in T <=> e[3] \in T,
             x \in T
      PROVE  y \in T
  <2>1. Closed(T)
    BY <1>4 DEF Closed
  <2>2. \A z \in Active : z \in T <=> FindRoot(parent, z) \in T
    BY <2>1 DEF Inv, ConnectedOK
  <2>3. y \in Active /\ FindRoot(parent, y) = FindRoot(parent, x)
    BY DEF SetOf
  <2> QED
    BY <1>4, <2>2, <2>3
<1>5. ASSUME NEW y \in S PROVE y \in Component(x, Active, United)
  <2> HIDE DEF S
  <2> QED
    BY <1>1, <1>4 DEF Component
<1>6. \A y : y \in S <=> y \in Component(x, Active, United)
  BY <1>3, <1>5
<1> QED
  BY <1>6

\* At every moment of the scan, the sets of the union-find are the components of
\* the graph of the edges united so far.
THEOREM SetsAreConnectedTheorem == WccSpec => []SetsAreConnected
<1>1. Inv => SetsAreConnected
  BY TreeIsComponent DEF SetsAreConnected
<1> QED
  BY <1>1, SpecInv, PTL

\* There are as many trees as roots.
LEMMA AsManyTrees ==
    ASSUME SetsOK
    PROVE  Cardinality({SetOf(r) : r \in RootSet}) = components
<1> DEFINE Trees == {SetOf(r) : r \in RootSet}
           tree == [r \in RootSet |-> SetOf(r)]
<1>1. ASSUME NEW r \in RootSet PROVE r \in SetOf(r)
  <2>1. r \in Active /\ r \in Vertex /\ parent[r] < 0
    BY DEF RootSet, Active
  <2> QED
    BY <2>1, RootFound DEF SetOf, SetsOK
<1>2. ASSUME NEW r \in RootSet, NEW s \in RootSet, SetOf(r) = SetOf(s) PROVE r = s
  BY <1>1, <1>2, RootFound DEF SetOf, SetsOK, RootSet, Active
<1>3. tree \in Bijection(RootSet, Trees)
  BY <1>2 DEF Bijection, Injection, Surjection, IsInjective
<1>4. IsFiniteSet(RootSet)
  BY VertexSets DEF RootSet, Active
<1>5. ExistsBijection(RootSet, Trees)
  <2> HIDE DEF Trees, tree
  <2> QED
    BY <1>3 DEF ExistsBijection
<1>6. Cardinality(Trees) = Cardinality(RootSet)
  <2> HIDE DEF Trees
  <2> QED
    BY <1>4, <1>5, FS_Bijection
<1> QED
  BY <1>6 DEF SetsOK

\* For any graph and any filters, the number that is returned is that of the
\* weakly connected components of the induced subgraph.
THEOREM CountIsWccTheorem == WccSpec => []CountIsWcc
<1>1. Inv => CountIsWcc
  <2> SUFFICES ASSUME Inv, stage = "done"
               PROVE  components =
                        Cardinality({Component(x, InducedNodes, InducedEdges) : x \in InducedNodes})
    BY DEF CountIsWcc
  <2>1. Active = InducedNodes
    BY DEF Inv, ScanOK
  <2>2. graph \in StoredGraphs /\ todo = {} /\ unscanned = {} /\ edge = <<>>
    BY DEF Inv, ScanOK
  <2>3. United = InducedEdges
    <3>1. \A e \in InducedEdges : e # <<>>
      BY <2>2, EdgesAreTriples DEF InducedEdges
    <3> QED
      BY <2>2, <3>1 DEF United
  <2>4. \A x \in Active : Component(x, InducedNodes, InducedEdges) = SetOf(FindRoot(parent, x))
    BY <2>1, <2>3, TreeIsComponent
  <2>5. \A x \in Active : FindRoot(parent, x) \in RootSet
    BY RootFound DEF Inv, SetsOK, RootSet, Active
  <2>6. \A r \in RootSet : r \in Active /\ FindRoot(parent, r) = r
    BY RootFound DEF Inv, SetsOK, RootSet, Active
  <2>7. {Component(x, InducedNodes, InducedEdges) : x \in InducedNodes} = {SetOf(r) : r \in RootSet}
    BY <2>1, <2>4, <2>5, <2>6
  <2> QED
    BY <2>7, AsManyTrees DEF Inv
<1> QED
  BY <1>1, SpecInv, PTL

-----------------------------------------------------------------------------
(* The forest implements a partition. *)

\* What a step does to the forest.
LEMMA StepOfForest ==
    ASSUME Inv, [WccNext]_wccVars
    PROVE  \/ UNCHANGED <<parent, components>>
           \/ \E x \in Vertex : Met(x)
           \/ Shortened
           \/ \E a, b : Joined(a, b)
<1>1. CASE SkipVertex \/ EndVertex \/ EndOfScan \/ WccDone \/ UNCHANGED wccVars
  BY <1>1 DEF SkipVertex, EndVertex, EndOfScan, WccDone, wccVars
<1>2. CASE ScanVertex
  <2>1. Min(unscanned) \in Vertex /\ Added(Min(unscanned))
    BY <1>2, LeastUnscanned DEF ScanVertex, Inv, ScanOK
  <2> QED
    BY <2>1, AddedMeets DEF Inv, SetsOK
<1>3. ASSUME NEW e \in todo, TakeEdge(e) PROVE \E x \in Vertex : Met(x)
  <2>1. e[3] \in Vertex
    BY <1>3, EdgesAreTriples DEF TakeEdge, Inv, ScanOK, OutEdges
  <2> QED
    BY <1>3, <2>1, AddedMeets DEF TakeEdge, Inv, SetsOK
<1>4. ASSUME NEW e \in todo, SkipEdge(e) PROVE UNCHANGED <<parent, components>>
  BY <1>4 DEF SkipEdge
<1>5. CASE Unite
  BY <1>5, UniteJoins DEF Inv
<1> QED
  BY <1>1, <1>2, <1>3, <1>4, <1>5 DEF WccNext

LEMMA StepPartitions ==
    ASSUME Inv, [WccNext]_wccVars
    PROVE  [P!Next]_(P!vars)
<1> DEFINE Trees == {SetOf(r) : r \in RootSet}
<1>1. ASSUME RootSet' = RootSet, \A r \in RootSet : SetOf(r)' = SetOf(r), components' = components
      PROVE  UNCHANGED P!vars
  BY <1>1 DEF P!vars
<1>2. CASE UNCHANGED <<parent, components>>
  BY <1>1, <1>2 DEF RootSet, SetOf, Active
<1>3. CASE Shortened
  BY <1>1, <1>3, ShortenedKeepsSets DEF Inv, Shortened
<1>4. ASSUME NEW x \in Vertex, Met(x) PROVE [P!Next]_(P!vars)
  <2>1. CASE x \in Active
    BY <1>1, <1>4, <2>1, MetKeepsSets DEF Inv, Met
  <2>2. CASE x \notin Active
    <3>1. x \notin UNION Trees
      BY <2>2 DEF SetOf
    <3>2. Trees' = Trees \cup {{x}}
      BY <1>4, <2>2, MetKeepsSets DEF Inv
    <3>3. components' = components + 1
      BY <1>4, <2>2 DEF Met
    <3>4. P!Add(x)
      BY <3>1, <3>2, <3>3 DEF P!Add
    <3> QED
      BY <3>4 DEF P!Next
  <2> QED
    BY <2>1, <2>2
<1>5. ASSUME NEW a, NEW b, Joined(a, b) PROVE P!Next
  <2>1. /\ RootSet' = RootSet \ {b} /\ {a, b} \subseteq RootSet /\ a # b
        /\ SetOf(a)' = SetOf(a) \cup SetOf(b)
        /\ \A r \in RootSet \ {a, b} : SetOf(r)' = SetOf(r)
    BY <1>5, JoinedKeepsSets DEF Inv
  <2>2. \A r \in RootSet : r \in SetOf(r)
    BY RootFound DEF Inv, SetsOK, SetOf, RootSet, Active
  <2>3. \A r, s \in RootSet : r # s => SetOf(r) # SetOf(s)
    BY <2>2 DEF SetOf
  <2>4. Trees' = (Trees \ {SetOf(a), SetOf(b)}) \cup {SetOf(a) \cup SetOf(b)}
    BY <2>1, <2>3
  <2>5. SetOf(a) # SetOf(b) /\ SetOf(a) \in Trees /\ SetOf(b) \in Trees
    BY <2>1, <2>3
  <2>6. components' = components - 1
    BY <1>5 DEF Joined
  <2>7. P!Join(SetOf(a), SetOf(b))
    BY <2>4, <2>5, <2>6 DEF P!Join
  <2> QED
    BY <2>5, <2>7 DEF P!Next
<1> QED
  BY <1>2, <1>3, <1>4, <1>5, StepOfForest

\* The scan with its forest, its compressions and its order of edges implements
\* the abstract count of classes.
THEOREM ImplementsPartitionTheorem == WccSpec => ImplementsPartition
<1>1. WccInit => P!Init
  BY DEF WccInit, P!Init, RootSet, Active, is_active
<1>2. Inv /\ [WccNext]_wccVars => [P!Next]_(P!vars)
  BY StepPartitions
<1> QED
  BY <1>1, <1>2, SpecInv, PTL DEF WccSpec, ImplementsPartition, P!Spec

-----------------------------------------------------------------------------
(* The height of the trees. *)

\* The powers of two are the numbers of subsets: one more element doubles them.
LEMMA OneMoreElement ==
    ASSUME NEW S, IsFiniteSet(S), NEW x, x \notin S
    PROVE  Cardinality(SUBSET (S \cup {x})) = Cardinality(SUBSET S) + Cardinality(SUBSET S)
<1> DEFINE A == SUBSET S
           B == {T \cup {x} : T \in SUBSET S}
           f == [T \in A |-> T \cup {x}]
<1>1. SUBSET (S \cup {x}) = A \cup B
  <2>1. ASSUME NEW T \in SUBSET (S \cup {x}), x \in T PROVE T \in B
    <3>1. T \ {x} \in A /\ T = (T \ {x}) \cup {x}
      BY <2>1
    <3> QED
      BY <3>1
  <2>2. ASSUME NEW T \in SUBSET (S \cup {x}), x \notin T PROVE T \in A
    BY <2>2
  <2>3. ASSUME NEW T \in A \cup B PROVE T \in SUBSET (S \cup {x})
    OBVIOUS
  <2> QED
    BY <2>1, <2>2, <2>3
<1>2. A \cap B = {}
  OBVIOUS
<1>3. f \in Bijection(A, B)
  <2>1. ASSUME NEW T \in A, NEW U \in A, T \cup {x} = U \cup {x} PROVE T = U
    BY <2>1
  <2>2. f \in [A -> B] /\ \A T \in A : f[T] = T \cup {x}
    OBVIOUS
  <2>3. \A t \in B : \E s \in A : f[s] = t
    BY <2>2
  <2> HIDE DEF f, A, B
  <2> QED
    BY <2>1, <2>2, <2>3 DEF Bijection, Injection, Surjection, IsInjective
<1> HIDE DEF B, f
<1>4. IsFiniteSet(A)
  BY FS_SUBSET
<1> HIDE DEF A
<1>5. ExistsBijection(A, B)
  BY <1>3 DEF ExistsBijection
<1>6. IsFiniteSet(B) /\ Cardinality(B) = Cardinality(A)
  BY <1>4, <1>5, FS_Bijection
<1>7. Cardinality(A \cap B) = 0
  BY <1>2, FS_EmptySet
<1>8. Cardinality(A \cup B) = Cardinality(A) + Cardinality(B) - Cardinality(A \cap B)
  BY <1>4, <1>6, FS_Union
<1>9. Cardinality(A) \in Nat
  BY <1>4, FS_CardinalityType
<1>10. Cardinality(SUBSET (S \cup {x})) = Cardinality(A) + Cardinality(A)
  <2>1. Cardinality(SUBSET (S \cup {x})) = Cardinality(A \cup B)
    BY <1>1, Zenon
  <2> QED
    BY <1>6, <1>7, <1>8, <1>9, <2>1
<1> QED
  BY <1>10 DEF A

LEMMA PowerIsSubsets ==
    ASSUME NEW n \in Nat
    PROVE  2 ^ n = Cardinality(SUBSET (1 .. n)) /\ IsFiniteSet(SUBSET (1 .. n)) /\ 2 ^ n \in Nat
<1>1. IsFiniteSet(1 .. n) /\ Cardinality(1 .. n) = n
  BY FS_Interval
<1>2. IsFiniteSet(SUBSET (1 .. n)) /\ Cardinality(SUBSET (1 .. n)) = 2 ^ Cardinality(1 .. n)
  BY <1>1, FS_SUBSET
<1> QED
  BY <1>1, <1>2, FS_CardinalityType

LEMMA PowerDoubles ==
    ASSUME NEW n \in Nat
    PROVE  2 ^ (n + 1) = 2 ^ n + 2 ^ n
<1>1. n + 1 \in Nat /\ 1 .. (n + 1) = (1 .. n) \cup {n + 1} /\ n + 1 \notin 1 .. n
  OBVIOUS
<1>2. IsFiniteSet(1 .. n)
  BY FS_Interval
<1>3. Cardinality(SUBSET ((1 .. n) \cup {n + 1}))
        = Cardinality(SUBSET (1 .. n)) + Cardinality(SUBSET (1 .. n))
  BY <1>1, <1>2, OneMoreElement
<1>4. 2 ^ (n + 1) = Cardinality(SUBSET (1 .. (n + 1)))
  BY <1>1, PowerIsSubsets
<1> QED
  BY <1>1, <1>3, <1>4, PowerIsSubsets

LEMMA PowerGrows ==
    ASSUME NEW m \in Nat, NEW n \in Nat, m <= n
    PROVE  2 ^ m <= 2 ^ n
<1>1. SUBSET (1 .. m) \subseteq SUBSET (1 .. n)
  OBVIOUS
<1>2. Cardinality(SUBSET (1 .. m)) <= Cardinality(SUBSET (1 .. n))
  BY <1>1, FS_Subset, PowerIsSubsets
<1> QED
  BY <1>2, PowerIsSubsets

LEMMA PowerOfZero == 2 ^ 0 = 1
<1>1. SUBSET (1 .. 0) = {{}}
  OBVIOUS
<1>2. Cardinality({{}}) = 1
  BY FS_Singleton
<1> QED
  BY <1>1, <1>2, PowerIsSubsets

\* The trees have heights that their sizes allow.
LowBy(height) ==
    /\ Rises(parent, height)
    /\ \A r \in RootSet : 2 ^ height[r] <= - parent[r]
    /\ \A x \in Vertex \ Active : height[x] = 0
LowOK == \E height : LowBy(height)

LEMMA MetKeepsLow ==
    ASSUME Inv, NEW x \in Vertex, Met(x), NEW height, LowBy(height)
    PROVE  LowBy(height)'
<1>1. Active \subseteq Vertex /\ Active' = Active \cup {x}
  BY DEF Met, Active
<1>2. ASSUME NEW y \in Vertex \ Active' PROVE parent'[y] = kInactive /\ kInactive < 0
  BY <1>2, VertexSets DEF Active, is_active
<1>3. Rises(parent', height)
  BY <1>1, <1>2 DEF LowBy, Rises, Met
<1>4. ASSUME NEW r \in RootSet' PROVE 2 ^ height[r] <= - parent'[r]
  <2>1. CASE r \in Active
    BY <1>1, <1>4, <2>1 DEF LowBy, Met, RootSet
  <2>2. CASE r \notin Active
    <3>1. r = x /\ parent'[r] = -1 /\ height[r] = 0
      BY <1>1, <1>4, <2>2 DEF LowBy, Met, RootSet
    <3> QED
      BY <3>1, PowerOfZero
  <2> QED
    BY <2>1, <2>2
<1> QED
  BY <1>1, <1>3, <1>4 DEF LowBy

\* Linking makes the larger tree one higher than the smaller, if it was not so.
LEMMA JoinedKeepsLow ==
    ASSUME Inv, NEW a, NEW b, Joined(a, b), NEW height, LowBy(height)
    PROVE  LowOK'
<1>1. /\ a \in RootSet /\ b \in RootSet /\ a # b /\ a \in Vertex /\ b \in Vertex
      /\ parent[a] \in Int /\ parent[b] \in Int /\ parent[a] < 0 /\ parent[b] < 0
      /\ parent[a] <= parent[b] /\ parent'[a] = parent[a] + parent[b] /\ parent'[b] = a
  BY DEF Joined, RootSet, Active, Inv, SetsOK, Forest
<1>2. height \in [Vertex -> Nat] /\ Active' = Active
  BY DEF LowBy, Rises, Joined
<1> DEFINE top == IF height[a] > height[b] THEN height[a] ELSE height[b] + 1
           new == [height EXCEPT ![a] = top]
<1>3. top \in Nat /\ height[a] <= top /\ height[b] < top
  BY <1>1, <1>2
<1>4. 2 ^ top <= - parent'[a]
  <2>1. /\ 2 ^ height[a] <= - parent[a] /\ 2 ^ height[b] <= - parent[b]
        /\ height[a] \in Nat /\ height[b] \in Nat
    BY <1>1, <1>2 DEF LowBy
  <2>2. 2 ^ height[a] \in Nat /\ 2 ^ height[b] \in Nat
    BY <2>1, PowerIsSubsets
  <2>3. CASE height[a] > height[b]
    BY <1>1, <2>1, <2>2, <2>3
  <2>4. CASE ~ (height[a] > height[b])
    <3>1. 2 ^ top = 2 ^ height[b] + 2 ^ height[b]
      BY <2>1, <2>4, PowerDoubles
    <3> HIDE DEF top
    <3> QED
      BY <1>1, <2>1, <2>2, <3>1
  <2> QED
    BY <2>3, <2>4
<1> HIDE DEF top
<1>5. new \in [Vertex -> Nat] /\ new[a] = top /\ \A y \in Vertex \ {a} : new[y] = height[y]
  BY <1>1, <1>2, <1>3
<1> HIDE DEF new
<1>6. ASSUME NEW y \in Vertex, ~ (parent'[y] < 0) PROVE new[y] < new[parent'[y]]
  <2>1. y # a
    BY <1>1, <1>6
  <2>2. CASE y = b
    BY <1>1, <1>3, <1>5, <2>2
  <2>3. CASE y # b
    <3>1. parent'[y] \in Vertex /\ height[y] < height[parent'[y]]
      BY <1>6, <2>1, <2>3 DEF Joined, LowBy
    <3> QED
      BY <1>1, <1>2, <1>3, <1>5, <2>1, <3>1
  <2> QED
    BY <2>2, <2>3
<1>7. RootSet' = RootSet \ {b}
  BY JoinedKeepsSets DEF Inv
<1>8. ASSUME NEW r \in RootSet' PROVE 2 ^ new[r] <= - parent'[r]
  <2>1. CASE r = a
    BY <1>4, <1>5, <2>1
  <2>2. CASE r # a
    <3>1. r \in RootSet /\ r # b /\ r \in Vertex /\ parent[r] < 0
      BY <1>7, <1>8 DEF RootSet, Active
    <3>2. parent'[r] = parent[r] /\ new[r] = height[r]
      BY <1>5, <2>2, <3>1 DEF Joined
    <3> QED
      BY <3>1, <3>2 DEF LowBy
  <2> QED
    BY <2>1, <2>2
<1>9. \A x \in Vertex \ Active' : new[x] = 0
  BY <1>1, <1>2, <1>5 DEF LowBy, RootSet
<1>10. Rises(parent', new)
  BY <1>5, <1>6 DEF Rises
<1>11. LowBy(new)'
  BY <1>8, <1>9, <1>10 DEF LowBy
<1> QED
  BY <1>11 DEF LowOK

LEMMA StepKeepsLow ==
    ASSUME Inv, LowOK, [WccNext]_wccVars
    PROVE  LowOK'
<1>1. PICK height : LowBy(height)
  BY DEF LowOK
<1>2. CASE UNCHANGED <<parent, components>>
  BY <1>1, <1>2 DEF LowOK, LowBy, RootSet, Active
<1>3. ASSUME NEW x \in Vertex, Met(x) PROVE LowOK'
  BY <1>1, <1>3, MetKeepsLow DEF LowOK
<1>4. CASE Shortened
  <2>1. RootSet' = RootSet /\ Active' = Active
    BY <1>4, ShortenedKeepsSets DEF Inv, Shortened
  <2>2. \A r \in RootSet : parent'[r] = parent[r]
    BY <1>4 DEF Shortened, RootSet, Active
  <2>3. LowBy(height)'
    BY <1>1, <1>4, <2>1, <2>2 DEF LowBy, Shortened
  <2> QED
    BY <2>3 DEF LowOK
<1>5. ASSUME NEW a, NEW b, Joined(a, b) PROVE LowOK'
  BY <1>1, <1>5, JoinedKeepsLow
<1> QED
  BY <1>2, <1>3, <1>4, <1>5, StepOfForest

\* The way up takes at most as many steps as the root is high.
LEMMA StepsUp ==
    ASSUME NEW par, NEW root, NEW rank, IsForest(par, root, rank),
           NEW height, Rises(par, height), NEW up,
           up = [y \in Vertex |-> IF par[y] < 0 THEN 0 ELSE 1 + up[par[y]]],
           NEW x \in Vertex
    PROVE  up[x] \in Nat /\ up[x] + height[x] <= height[root[x]]
<1> USE DEF IsForest, Rises
<1>1. \A y \in Vertex : up[y] = IF par[y] < 0 THEN 0 ELSE 1 + up[par[y]]
  <2> DEFINE steps == [y \in Vertex |-> IF par[y] < 0 THEN 0 ELSE 1 + up[par[y]]]
  <2>1. up = steps
    OBVIOUS
  <2>2. \A y \in Vertex : steps[y] = IF par[y] < 0 THEN 0 ELSE 1 + up[par[y]]
    OBVIOUS
  <2> HIDE DEF steps
  <2> QED
    BY <2>1, <2>2
<1> DEFINE Bad == {y \in Vertex : ~ (up[y] \in Nat /\ up[y] + height[y] <= height[root[y]])}
<1>2. SUFFICES ASSUME Bad # {} PROVE FALSE
  OBVIOUS
<1>3. PICK y \in Bad : \A z \in Bad : rank[y] <= rank[z]
  BY <1>2, LeastRank
<1>4. CASE par[y] < 0
  <2>1. up[y] = 0 /\ root[y] = y /\ height[y] \in Nat
    BY <1>1, <1>4
  <2> QED
    BY <2>1
<1>5. CASE ~ (par[y] < 0)
  <2>1. /\ par[y] \in Vertex /\ rank[par[y]] < rank[y] /\ root[y] = root[par[y]]
        /\ up[y] = 1 + up[par[y]] /\ height[y] < height[par[y]]
        /\ rank[y] \in Nat /\ rank[par[y]] \in Nat
        /\ height[y] \in Nat /\ height[par[y]] \in Nat /\ height[root[y]] \in Nat
    BY <1>1, <1>5
  <2>2. par[y] \notin Bad
    BY <1>3, <2>1
  <2>3. up[par[y]] \in Nat /\ up[par[y]] + height[par[y]] <= height[root[par[y]]]
    BY <2>1, <2>2
  <2>4. up[y] \in Nat /\ up[y] + height[y] <= height[root[y]]
    BY <2>1, <2>3
  <2> QED
    BY <2>4
<1> QED
  BY <1>4, <1>5

\* The recursion that counts them has a solution: their number.
LEMMA NumberAbove ==
    ASSUME NEW par, NEW root, NEW rank, IsForest(par, root, rank), NEW y \in Vertex
    PROVE  Cardinality(Above(par, y))
             = IF par[y] < 0 THEN 0 ELSE 1 + Cardinality(Above(par, par[y]))
<1>1. Above(par, y) = IF par[y] < 0 THEN {} ELSE {y} \cup Above(par, par[y])
  BY AboveIsWay
<1>2. CASE par[y] < 0
  <2>1. Above(par, y) = {}
    BY <1>1, <1>2
  <2> QED
    BY <1>2, <2>1, FS_EmptySet
<1>3. CASE ~ (par[y] < 0)
  <2> DEFINE p == par[y]
             S == {z \in Vertex : rank[z] <= rank[p]}
  <2>1. p \in Vertex /\ rank[p] < rank[y] /\ rank[p] \in Nat /\ rank[y] \in Nat
    BY <1>3 DEF IsForest
  <2>2. p \in S /\ S \in SUBSET Vertex /\ y \notin S
    BY <2>1
  <2>3. Upward(par, S)
    <3>1. ASSUME NEW z \in S, ~ (par[z] < 0) PROVE par[z] \in S
      <4>1. par[z] \in Vertex /\ rank[par[z]] < rank[z] /\ rank[z] <= rank[p]
            /\ rank[par[z]] \in Nat /\ rank[z] \in Nat
        BY <3>1 DEF IsForest
      <4> QED
        BY <2>1, <4>1
    <3> QED
      BY <3>1 DEF Upward
  <2> HIDE DEF S
  <2>4. y \notin Above(par, p)
    BY <2>2, <2>3 DEF Above
  <2>5. Above(par, y) = Above(par, p) \cup {y}
    BY <1>1, <1>3
  <2>6. IsFiniteSet(Above(par, p)) /\ Cardinality(Above(par, p)) \in Nat
    <3>1. Above(par, p) \in SUBSET Vertex
      BY DEF Above
    <3> QED
      BY <3>1, VertexSets
  <2> HIDE DEF p
  <2>7. Cardinality(Above(par, p) \cup {y}) = Cardinality(Above(par, p)) + 1
    BY <2>4, <2>6, FS_AddElement
  <2>8. Cardinality(Above(par, y)) = 1 + Cardinality(Above(par, p))
    BY <2>5, <2>6, <2>7
  <2> QED
    BY <1>3, <2>8 DEF p
<1> QED
  BY <1>2, <1>3

\* The time of find is bounded: whatever is united and compressed in whichever
\* order, a tree with a path of length h has at least 2^h vertices.
THEOREM TreesAreLowTheorem == WccSpec => []TreesAreLow
<1>1. WccInit => LowOK
  <2> SUFFICES ASSUME WccInit PROVE LowOK
    OBVIOUS
  <2>1. \A x \in Vertex : parent[x] < 0 /\ x \notin Active
    BY VertexSets DEF WccInit, Active, is_active
  <2>2. RootSet = {}
    BY <2>1 DEF RootSet, Active
  <2>3. LowBy([x \in Vertex |-> 0])
    BY <2>1, <2>2 DEF LowBy, Rises
  <2> QED
    BY <2>3 DEF LowOK
<1>2. Inv /\ LowOK => TreesAreLow
  <2> SUFFICES ASSUME Inv, LowOK PROVE TreesAreLow
    OBVIOUS
  <2>1. PICK height : LowBy(height)
    BY DEF LowOK
  <2>2. PICK root, rank : IsForest(parent, root, rank)
    BY DEF Inv, SetsOK, Forest
  <2> DEFINE Counts(f) ==
               f = [x \in Vertex |-> IF parent[x] < 0 THEN 0 ELSE 1 + f[parent[x]]]
  <2>3. Counts([x \in Vertex |-> Cardinality(Above(parent, x))])
    BY <2>2, NumberAbove DEF IsForest
  <2>4. Counts(CHOOSE f : Counts(f))
    <3> HIDE DEF Counts
    <3> QED
      BY <2>3
  <2>5. ASSUME NEW f, Counts(f), NEW x \in Active
        PROVE  2 ^ f[x] <= Cardinality(SetOf(FindRoot(parent, x)))
    <3> DEFINE r == FindRoot(parent, x)
    <3>1. x \in Vertex /\ r \in Active /\ r \in Vertex /\ r = root[x] /\ parent[r] < 0
      BY <2>2, FindsRoot DEF Inv, SetsOK, Active, IsForest
    <3>2. f[x] \in Nat /\ f[x] + height[x] <= height[r]
      BY <2>1, <2>2, <2>5, <3>1, StepsUp DEF LowBy
    <3>3. r \in RootSet /\ height[x] \in Nat /\ height[r] \in Nat
      BY <2>1, <3>1 DEF RootSet, LowBy, Rises
    <3>4. 2 ^ height[r] <= - parent[r] /\ - parent[r] = Cardinality(SetOf(r))
      BY <2>1, <3>3 DEF LowBy, Inv, SetsOK, RootsHoldSizes
    <3>5. parent[r] \in Int
      BY <3>1 DEF Inv, SetsOK, Forest
    <3> HIDE DEF r
    <3>6. f[x] <= height[r]
      BY <3>2, <3>3
    <3>7. 2 ^ f[x] <= 2 ^ height[r] /\ 2 ^ f[x] \in Nat /\ 2 ^ height[r] \in Nat
      BY <3>2, <3>3, <3>6, PowerGrows, PowerIsSubsets
    <3>8. 2 ^ f[x] <= Cardinality(SetOf(r))
      BY <3>4, <3>5, <3>7
    <3> QED
      BY <3>8 DEF r
  <2>6. \A x \in Active :
           2 ^ ((CHOOSE f : Counts(f))[x]) <= Cardinality(SetOf(FindRoot(parent, x)))
    <3> HIDE DEF Counts
    <3> QED
      BY <2>4, <2>5
  <2> QED
    BY <2>6, Zenon DEF TreesAreLow
<1> QED
  BY <1>1, <1>2, StepKeepsLow, SpecInv, PTL DEF WccSpec
=============================================================================
