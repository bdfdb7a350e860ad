----------------------------- MODULE ServerProofs -----------------------------
(***************************************************************************)
(* What the store holds, what survives a crash and what is served, for any *)
(* file, any batch size, any number of edge writers, crashes and failing   *)
(* calls: first what holds whichever calls fail, then what needs that some *)
(* do not.                                                                 *)
(***************************************************************************)
EXTENDS Server, FiniteSetTheorems, WellFoundedInduction, TLAPS
LOCAL INSTANCE FiniteSetsExt

-----------------------------------------------------------------------------
(* Record numbers, tables and names, for tables of any size. *)

\* A set of numbers that is not empty has a smallest one.
LEMMA LeastRecno ==
    ASSUME NEW S \in SUBSET Nat, S # {}
    PROVE  \E m \in S : \A n \in S : m <= n
<1> DEFINE R == OpToRel(<, Nat)
<1>1. R = {ss \in Nat \X Nat : ss[1] < ss[2]}
  BY DEF OpToRel
<1>2. IsWellFoundedOn(R, Nat)
  BY NatLessThanWellFounded
<1> HIDE DEF R
<1>3. PICK m \in S : \A n \in S : <<n, m>> \notin R
  BY WFMin, <1>2
<1>4. ASSUME NEW n \in S PROVE m <= n
  <2>1. m \in Nat /\ n \in Nat
    OBVIOUS
  <2>2. n < m => <<n, m>> \in R
    BY <1>1, <2>1
  <2> QED
    BY <1>3, <2>1, <2>2
<1> QED
  BY <1>4

\* Min is that record number.
LEMMA MinExists ==
    ASSUME NEW S \in SUBSET Nat, S # {}
    PROVE  /\ Min(S) \in S
           /\ \A n \in S : Min(S) <= n
  BY LeastRecno DEF Min

\* The smallest record number is the only one that is no larger than the others.
LEMMA MinIs ==
    ASSUME NEW S \in SUBSET Nat, NEW m \in S, \A n \in S : m <= n
    PROVE  Min(S) = m
<1>1. /\ Min(S) \in S
      /\ \A n \in S : Min(S) <= n
  BY MinExists
<1>2. Min(S) \in Nat /\ m \in Nat /\ m <= Min(S) /\ Min(S) <= m
  BY <1>1
<1> QED
  BY <1>2

\* A set of record numbers with a bound has a largest one.
LEMMA MaxExists ==
    ASSUME NEW S \in SUBSET Nat, S # {}, NEW bound \in Nat, \A n \in S : n <= bound
    PROVE  /\ Max(S) \in S
           /\ \A n \in S : n <= Max(S)
<1> DEFINE Bounds == {b \in Nat : \A n \in S : n <= b}
<1>1. Bounds \in SUBSET Nat /\ bound \in Bounds
  OBVIOUS
<1>2. PICK m \in Bounds : \A b \in Bounds : m <= b
  BY <1>1, MinExists
<1>3. m \in S
  <2> SUFFICES ASSUME m \notin S PROVE FALSE
    OBVIOUS
  <2>1. PICK n \in S : n \in Nat
    OBVIOUS
  <2>2. m - 1 \in Nat /\ \A k \in S : k <= m - 1
    BY <2>1
  <2> QED
    BY <1>2, <2>2
<1>4. \A n \in S : m >= n
  OBVIOUS
<1> QED
  BY <1>3, <1>4 DEF Max

\* A function of 1 .. n has finitely many values: no number of its arguments is
\* the smallest one with more.
LEMMA FiniteRange ==
    ASSUME NEW n \in Nat, NEW f
    PROVE  IsFiniteSet({f[i] : i \in 1 .. n})
<1> DEFINE Values(k) == {f[i] : i \in 1 .. k}
           Bad == {k \in Nat : ~ IsFiniteSet(Values(k))}
<1>1. SUFFICES ASSUME Bad # {} PROVE FALSE
  OBVIOUS
<1>2. Bad \in SUBSET Nat
  OBVIOUS
<1>3. PICK k \in Bad : \A i \in Bad : k <= i
  BY <1>1, <1>2, LeastRecno
<1>4. CASE k = 0
  <2>1. Values(0) = {}
    OBVIOUS
  <2> QED
    BY <1>4, <2>1, FS_EmptySet
<1>5. CASE k # 0
  <2>1. k - 1 \in Nat /\ ~ (k <= k - 1)
    BY <1>5
  <2>2. IsFiniteSet(Values(k - 1))
    BY <1>3, <2>1
  <2>3. Values(k) = Values(k - 1) \cup {f[k]}
    BY <1>5
  <2> HIDE DEF Values
  <2>4. IsFiniteSet(Values(k - 1) \cup {f[k]})
    BY <2>2, FS_AddElement
  <2> QED
    BY <2>3, <2>4
<1> QED
  BY <1>4, <1>5

\* The id of a name that a table has is one of its ids, the smallest.
LEMMA IdOfNameFound ==
    ASSUME NEW table, DOMAIN table \subseteq Nat, NEW name, IdsOfName(table, name) # {}
    PROVE  /\ IdOfName(table, name) \in IdsOfName(table, name)
           /\ \A id \in IdsOfName(table, name) : IdOfName(table, name) <= id
<1>1. IdsOfName(table, name) \in SUBSET Nat
  BY DEF IdsOfName
<1> QED
  BY <1>1, MinExists DEF IdOfName

\* later has the rows of table and, under larger numbers, others.
Extends(later, table) ==
    /\ DOMAIN table \subseteq DOMAIN later /\ DOMAIN later \subseteq Nat
    /\ \A id \in DOMAIN table : later[id] = table[id]
    /\ \A new \in DOMAIN later \ DOMAIN table, old \in DOMAIN table : old < new

\* Rows appended later do not change the id of a name.
LEMMA LaterRowsKeepIds ==
    ASSUME NEW table, NEW later, Extends(later, table),
           NEW name, IdsOfName(table, name) # {}
    PROVE  IdOfName(later, name) = IdOfName(table, name)
<1> USE DEF Extends
<1> DEFINE m == IdOfName(table, name)
<1>1. m \in IdsOfName(table, name) /\ \A id \in IdsOfName(table, name) : m <= id
  BY IdOfNameFound
<1>2. IdsOfName(later, name) \in SUBSET Nat /\ m \in IdsOfName(later, name)
  BY <1>1 DEF IdsOfName
<1>3. ASSUME NEW id \in IdsOfName(later, name) PROVE m <= id
  <2>1. CASE id \in DOMAIN table
    BY <1>1, <1>3, <2>1 DEF IdsOfName
  <2>2. CASE id \notin DOMAIN table
    <3>1. m \in DOMAIN table /\ id \in DOMAIN later \ DOMAIN table
      BY <1>1, <1>3, <2>2 DEF IdsOfName
    <3>2. m \in Nat /\ id \in Nat /\ m < id
      BY <3>1
    <3> QED
      BY <3>2
  <2> QED
    BY <2>1, <2>2
<1> QED
  BY <1>2, <1>3, MinIs DEF IdOfName

\* What one entry does to a table.
LEMMA EntryPutIn ==
    ASSUME NEW table, NEW k, NEW entry
    PROVE  /\ DOMAIN WithEntry(table, k, entry) = DOMAIN table \cup {k}
           /\ WithEntry(table, k, entry)[k] = entry
           /\ \A x \in DOMAIN table : x # k => WithEntry(table, k, entry)[x] = table[x]
  BY DEF WithEntry

\* A row appended under a number larger than all others.
LEMMA AppendExtends ==
    ASSUME NEW table, DOMAIN table \subseteq Nat, NEW name,
           NEW id \in Nat, \A old \in DOMAIN table : old < id
    PROVE  Extends(WithEntry(table, id, name), table)
<1> DEFINE later == WithEntry(table, id, name)
<1>1. DOMAIN later = DOMAIN table \cup {id} 
  BY EntryPutIn
<1>2. \A old \in DOMAIN table : old # id
  OBVIOUS
<1>3. \A old \in DOMAIN table : later[old] = table[old]
  BY <1>2 DEF WithEntry
<1> HIDE DEF later
<1>4. DOMAIN table \subseteq DOMAIN later /\ DOMAIN later \subseteq Nat
  BY <1>1
<1>5. \A new \in DOMAIN later \ DOMAIN table, old \in DOMAIN table : old < new
  BY <1>1
<1> QED
  BY <1>3, <1>4, <1>5 DEF Extends, later

\* They are numbered from 1 and have a last one.
TableOK(table) == LastRecno(table) \in Nat /\ DOMAIN table \subseteq 1 .. LastRecno(table)

\* A table whose record numbers have a bound is a table.
LEMMA BoundedTable ==
    ASSUME NEW table, NEW k \in Nat, DOMAIN table \subseteq 1 .. k
    PROVE  TableOK(table) /\ LastRecno(table) <= k
<1>1. CASE DOMAIN table = {}
  BY <1>1 DEF TableOK, LastRecno
<1>2. CASE DOMAIN table # {}
  <2> DEFINE S == DOMAIN table
  <2>1. S \in SUBSET Nat /\ S # {} /\ \A n \in S : n <= k
    BY <1>2
  <2> HIDE DEF S
  <2>2. Max(S) \in S /\ \A n \in S : n <= Max(S)
    BY <2>1, MaxExists
  <2>3. LastRecno(table) \in S /\ \A n \in S : n <= LastRecno(table)
    BY <1>2, <2>2 DEF LastRecno, S
  <2> QED
    BY <2>3 DEF TableOK, S
<1> QED
  BY <1>1, <1>2

\* The row that an append adds to such a table.
LEMMA AppendedTable ==
    ASSUME NEW table, TableOK(table), NEW entry
    PROVE  LET later == WithEntry(table, LastRecno(table) + 1, entry)
           IN  TableOK(later) /\ Extends(later, table)
<1> DEFINE later == WithEntry(table, LastRecno(table) + 1, entry)
<1> DEFINE last == LastRecno(table)
<1>1. DOMAIN later = DOMAIN table \cup {last + 1}
  BY EntryPutIn
<1>2. last \in Nat /\ DOMAIN table \subseteq 1 .. last
  BY DEF TableOK
<1> HIDE DEF last
<1>3. DOMAIN later \subseteq 1 .. (last + 1) /\ last + 1 \in Nat
  BY <1>1, <1>2
<1>4. TableOK(later)
  BY <1>3, BoundedTable
<1>5. DOMAIN table \subseteq Nat /\ \A old \in DOMAIN table : old < last + 1
  BY <1>2
<1>6. Extends(later, table)
  BY <1>3, <1>5, AppendExtends DEF last
<1> QED
  BY <1>4, <1>6

\* Extends is a preorder: a table extends itself ...
LEMMA ExtendsReflexive ==
    ASSUME NEW table, DOMAIN table \subseteq Nat
    PROVE  Extends(table, table)
  BY DEF Extends

\* ... and what extends an extension extends the first.
LEMMA ExtendsTransitive ==
    ASSUME NEW a, NEW b, NEW c, Extends(b, a), Extends(c, b)
    PROVE  Extends(c, a)
<1> USE DEF Extends
<1>1. \A id \in DOMAIN a : c[id] = a[id]
  OBVIOUS
<1>2. ASSUME NEW new \in DOMAIN c \ DOMAIN a, NEW old \in DOMAIN a PROVE old < new
  OBVIOUS
<1> QED
  BY <1>1, <1>2

\* Rows of a name or of a key stay its rows.
LEMMA IdsStayInLater ==
    ASSUME NEW later, NEW table, Extends(later, table), NEW x
    PROVE  /\ IdsOfName(table, x) \subseteq IdsOfName(later, x)
           /\ IdsOfPk(table, x) \subseteq IdsOfPk(later, x)
  BY DEF Extends, IdsOfName, IdsOfPk

\* The mirror image of a key is a key of the other direction, and its own is the key.
LEMMA MirrorOfKey ==
    ASSUME NEW key, IsKey(key)
    PROVE  IsKey(Mirror(key)) /\ Mirror(Mirror(key)) = key
           /\ Mirror(key).direction = (IF key.direction = "OUTGOING" THEN "INCOMING" ELSE "OUTGOING")
  BY DEF IsKey, Mirror, EdgeKey

\* An id of a table that is the first of its name.
FirstIn(table, id) == id \in DOMAIN table /\ IsFirst(table, id)

\* It stays the first one: rows appended later have larger ids.
LEMMA FirstStays ==
    ASSUME NEW later, NEW table, Extends(later, table), NEW id, FirstIn(table, id)
    PROVE  FirstIn(later, id)
<1>1. id \in DOMAIN later /\ later[id] = table[id]
  BY DEF Extends, FirstIn
<1>2. ASSUME NEW other \in IdsOfName(later, later[id]) PROVE id <= other
  <2>1. CASE other \in DOMAIN table
    BY <1>1, <2>1 DEF Extends, FirstIn, IsFirst, IdsOfName
  <2>2. CASE other \notin DOMAIN table
    <3>1. other \in DOMAIN later \ DOMAIN table /\ id \in DOMAIN table /\ DOMAIN later \subseteq Nat
      BY <2>2 DEF IdsOfName, Extends, FirstIn
    <3>2. id < other /\ id \in Nat /\ other \in Nat
      BY <1>1, <3>1 DEF Extends
    <3> QED
      BY <3>2
  <2> QED
    BY <2>1, <2>2
<1> QED
  BY <1>1, <1>2 DEF FirstIn, IsFirst

-----------------------------------------------------------------------------
(* The invariant that holds whichever calls fail. *)

\* Where main and the first-step worker are: main is at one batch at a time,
\* and so is the worker.
StagesOK ==
    /\ next \in 1 .. NumBatches + 1
    /\ firstStep \in [Batch -> Pipeline!FirstPC]
    /\ \A b \in Batch : b > next => firstStep[b] = "unread"
    /\ next \in Batch => firstStep[next] \in {"unread", "filled", "permitted", "counted"}
    /\ \A b, c \in Batch :
          firstStep[b] \in Pipeline!FirstRunning /\ firstStep[c] \in Pipeline!FirstRunning
             => b = c

\* How far the file is read.
LinesOK ==
    /\ line \in 0 .. Len(Rows)
    /\ \A b \in Batch : firstStep[b] # "unread" => LastLine(b) <= line
    /\ next \in Batch =>
          IF firstStep[next] = "unread"
          THEN FirstLine(next) - 1 <= line /\ line < LastLine(next)
          ELSE line = LastLine(next)

\* A store: four tables, whose vertices have labels and whose edges are in pairs.
IsStore(s) ==
    /\ s = [label_type |-> s.label_type, relation_type |-> s.relation_type,
            vertex |-> s.vertex, edge |-> s.edge]
    /\ TableOK(s.label_type) /\ TableOK(s.relation_type) /\ TableOK(s.vertex)
    /\ \A id \in DOMAIN s.vertex : s.vertex[id].label_type_id \in DOMAIN s.label_type
    /\ KeysOK(s)

\* later has all the rows of s, and only greater ids besides.
Grows(later, s) ==
    /\ Extends(later.label_type, s.label_type)
    /\ Extends(later.relation_type, s.relation_type)
    /\ Extends(later.vertex, s.vertex)

\* What is saved or being saved is what the store once was.
StoresOK ==
    /\ IsStore(db) /\ IsStore(durable) /\ Grows(db, durable)
    /\ snapshot # NoSnapshot =>
          IsStore(snapshot) /\ Grows(db, snapshot) /\ Grows(snapshot, durable)

\* Vertex record numbers are handed out in order.
VerticesOK == append_recno \in Nat /\ DOMAIN db.vertex \subseteq 1 .. append_recno

\* main's caches know the names of every row read, by ids of theirs.
CacheOK(table, cache) == \A n \in DOMAIN cache : cache[n] \in IdsOfName(table, n)
CachesOK ==
    /\ CacheOK(db.label_type, label_type_cache)
    /\ CacheOK(db.relation_type, relation_type_cache)
    /\ \A i \in 1 .. line :
          /\ {Rows[i].start_label_type, Rows[i].end_label_type} \subseteq DOMAIN label_type_cache
          /\ Rows[i].relation_type \in DOMAIN relation_type_cache

\* A batch that has resolved its keys has an id for each of them.
ResolvedOK ==
    /\ DOMAIN pk_to_ids = Batch
    /\ \A b \in Batch : firstStep[b] = "write" => DOMAIN pk_to_ids[b] \subseteq Pks[b]
    /\ \A b \in Batch : firstStep[b] = "release" => Pks[b] \subseteq DOMAIN pk_to_ids[b]

\* The edges of a batch are its rows' edges, both directions of each in turn.
MirroredPair(out, in) ==
    /\ out = EdgeKey(out.start_vertex_id, "OUTGOING", out.relation_type_id, out.end_vertex_id)
    /\ in = Mirror(out)
EdgesOK ==
    /\ DOMAIN edges = Batch
    /\ \A b \in Batch :
          \/ edges[b] = <<>>
          \/ /\ DOMAIN edges[b] = 1 .. 2 * Len(RowsOf(b))
             /\ Len(edges[b]) = 2 * Len(RowsOf(b))
             /\ \A i \in 1 .. Len(RowsOf(b)) :
                   MirroredPair(edges[b][2 * i - 1].key, edges[b][2 * i].key)

Inv == /\ StagesOK /\ LinesOK /\ StoresOK /\ VerticesOK /\ CachesOK /\ ResolvedOK /\ EdgesOK

-----------------------------------------------------------------------------
(* One vertex per key: needs that no look-up fails. *)

FoundOK ==
    \A b \in Batch : firstStep[b] = "write" =>
       \A pk \in Pks[b] : IdsOfPk(db.vertex, pk) # {} => pk \in DOMAIN pk_to_ids[b]

UniqueInv ==
    /\ FoundOK
    /\ OnePerPk(db) /\ OnePerPk(durable) /\ (snapshot # NoSnapshot => OnePerPk(snapshot))

-----------------------------------------------------------------------------
(* Which steps there are. *)

\* What main's caches, the first step and the edge writers work on.
Data == <<line, db, label_type_cache, relation_type_cache, append_recno, pk_to_ids, edges>>

\* The checkpoint in memory and the one on disk.
Saved == <<snapshot, durable>>

\* A step of import_data that carries no data.
PipelineStep ==
    \/ Pipeline!AcquireFirstStep \/ Pipeline!CountFirstStep \/ Pipeline!EnqueueFirstStep
    \/ UNCHANGED <<next, firstStep>>
    \/ \E b \in Batch :
          \/ Pipeline!FirstStart(b)
          \/ Pipeline!FirstAcquire(b) \/ Pipeline!FirstAdd(b) \/ Pipeline!FirstEnqueue(b)
          \/ Pipeline!FirstDone(b)

\* A checkpoint is begun, ended or given up.
CheckpointStep ==
    \/ snapshot = NoSnapshot /\ snapshot' = db /\ durable' = durable
    \/ snapshot # NoSnapshot /\ snapshot' = NoSnapshot /\ durable' \in {durable, snapshot}

\* Every step of the process is a step on the data, a step of a checkpoint, the
\* end of the process or one that does neither.
LEMMA StepCases ==
    ASSUME [Next]_vars
    PROVE  \/ UNCHANGED Saved /\
              \/ ReadRow
              \/ \E b \in Batch :
                    \/ FirstResolve(b) \/ FirstResolveFails(b)
                    \/ FirstWrite(b) \/ FirstWriteFails(b) \/ FirstCommitFails(b)
                    \/ FirstRelease(b) \/ CommitEdges(b)
              \/ PipelineStep /\ UNCHANGED Data
           \/ CheckpointStep /\ UNCHANGED <<next, firstStep>> /\ UNCHANGED Data
           \/ ProcessEnds
<1> USE DEF Saved, Data, PipelineStep
<1>1. CASE Import
  <2>1. UNCHANGED Saved
    BY <1>1 DEF Import, serverVars
  <2>2. CASE Main
    BY <2>1, <2>2 DEF Main, storeVars, Pipeline!EndOfFile, Pipeline!InputError, Pipeline!Unwind,
         Pipeline!WaitTasks, Pipeline!ReturnFromImport
  <2>3. CASE Progress
    BY <2>1, <2>3 DEF Progress, storeVars, Pipeline!ProgressExit
  <2>4. ASSUME NEW b \in Batch, First(b) PROVE PipelineStep /\ UNCHANGED Data
    BY <2>4 DEF First, storeVars
  <2>5. ASSUME NEW b \in Batch, Real(b) PROVE PipelineStep /\ UNCHANGED Data
    BY <2>5 DEF Real, storeVars, Pipeline!RealStart, Pipeline!RealDone, Pipeline!RealRelease
  <2>6. ASSUME NEW b \in Batch, BeginTransaction(b) \/ InsertEdge(b) \/ InsertConflicts(b) \/ InsertFails(b)
        PROVE  PipelineStep /\ UNCHANGED Data
    BY <2>6 DEF BeginTransaction, InsertEdge, InsertConflicts, InsertFails, pipelineVars
  <2>7. ASSUME NEW b \in Batch, CommitEdgesFails(b) PROVE PipelineStep /\ UNCHANGED Data
    BY <2>7 DEF CommitEdgesFails, Pipeline!RealWrite
  <2> QED
    BY <1>1, <2>1, <2>2, <2>3, <2>4, <2>5, <2>6, <2>7
       DEF Import, ImportNext, FirstStepTask, RealWriteTask, Failure
<1>2. CASE ImportReturns \/ Joined \/ StartServer \/ CheckpointerExits \/ RestartImport \/ RestartServe
           \/ Serving \/ GivenUp \/ RunAgain \/ UNCHANGED vars
  BY <1>2 DEF ImportReturns, Joined, StartServer, CheckpointerExits, RestartImport, RestartServe,
       Serving, GivenUp, RunAgain, vars, importerVars, pipelineVars, storeVars, serverVars
<1>3. CASE CheckpointBegins \/ CheckpointEnds \/ CheckpointFails
  BY <1>3 DEF CheckpointStep, CheckpointBegins, CheckpointEnds, CheckpointFails, importerVars,
       pipelineVars, storeVars
<1>4. CASE ImportFails \/ Crash
  BY <1>4 DEF ImportFails, Crash
<1> QED
  BY <1>1, <1>2, <1>3, <1>4 DEF Next

-----------------------------------------------------------------------------
(* The rows of a batch. *)

\* The file is a sequence of its rows.
LEMMA RowsType == Rows \in Seq({Rows[i] : i \in DOMAIN Rows}) /\ Len(Rows) \in Nat
                  /\ DOMAIN Rows = 1 .. Len(Rows)
  BY RowsAssumption

\* A batch has at least one row, it begins where the one before it ends, and
\* only the last one may end before it is full.
LEMMA BatchLines ==
    ASSUME NEW b \in Batch
    PROVE  /\ FirstLine(b) \in 1 .. Len(Rows) /\ LastLine(b) \in 1 .. Len(Rows)
           /\ FirstLine(b) <= LastLine(b)
           /\ FirstLine(1) = 1
           /\ b + 1 \in Batch => FirstLine(b + 1) = LastLine(b) + 1
<1> DEFINE L == Len(Rows)
           D == BatchSize
           N == NumBatches
<1>1. L \in Nat /\ D \in Nat \ {0}
  BY RowsType, BatchSizeAssumption
<1>2. N = (L + D - 1) \div D
  BY DEF NumBatches
<1>3. b \in 1 .. N
  BY DEF Batch, Pipeline!Batch
<1> HIDE DEF L, D, N
<1>4. L + D - 1 \in Nat
  BY <1>1
<1>5. N \in Nat /\ N * D <= L + D - 1
  BY <1>1, <1>2, <1>4
<1>6. ASSUME NEW c \in 1 .. N PROVE (c - 1) * D < L /\ (c - 1) * D \in Nat
  <2>1. c * D <= N * D
    BY <1>1, <1>5, <1>6
  <2>2. (c - 1) * D = c * D - D /\ c * D \in Nat /\ c * D >= D /\ N * D \in Nat
    BY <1>1, <1>5, <1>6
  <2> QED
    BY <1>1, <1>5, <2>1, <2>2
<1>7. (b - 1) * D < L /\ (b - 1) * D \in Nat /\ b * D = (b - 1) * D + D /\ b * D \in Nat
  BY <1>1, <1>3, <1>5, <1>6
<1>8. FirstLine(b) = (b - 1) * D + 1 /\ LastLine(b) = IF b * D < L THEN b * D ELSE L
  BY DEF FirstLine, LastLine, L, D
<1>9. FirstLine(1) = 1
  BY <1>1 DEF FirstLine, D
<1>10. ASSUME b + 1 \in 1 .. N PROVE FirstLine(b + 1) = LastLine(b) + 1
  <2>1. (b + 1 - 1) * D < L /\ b + 1 - 1 = b
    BY <1>3, <1>5, <1>6, <1>10
  <2>2. FirstLine(b + 1) = (b + 1 - 1) * D + 1
    BY <1>1, <1>3, <1>5 DEF FirstLine, D
  <2>3. b * D < L
    BY <2>1
  <2>4. LastLine(b) = b * D
    BY <1>8, <2>3
  <2>5. FirstLine(b + 1) = b * D + 1
    BY <2>1, <2>2
  <2> QED
    BY <2>4, <2>5
<1> QED
  BY <1>1, <1>7, <1>8, <1>9, <1>10 DEF Batch, Pipeline!Batch, L, D, N

\* The rows of a batch are rows of the file that main has read.
LEMMA BatchRows ==
    ASSUME NEW b \in Batch
    PROVE  /\ Len(RowsOf(b)) \in Nat /\ DOMAIN RowsOf(b) = 1 .. Len(RowsOf(b))
           /\ Len(RowsOf(b)) = LastLine(b) - FirstLine(b) + 1
           /\ \A i \in 1 .. Len(RowsOf(b)) :
                 /\ FirstLine(b) + i - 1 \in 1 .. LastLine(b)
                 /\ RowsOf(b)[i] = Rows[FirstLine(b) + i - 1]
                 /\ RowsOf(b)[i] \in FileRows
<1>1. /\ FirstLine(b) \in 1 .. Len(Rows) /\ LastLine(b) \in 1 .. Len(Rows)
      /\ FirstLine(b) <= LastLine(b)
  BY BatchLines
<1>2. RowsOf(b) = SubSeq(Rows, FirstLine(b), LastLine(b))
  BY DEF RowsOf
<1> DEFINE f == FirstLine(b)
           l == LastLine(b)
           S == {Rows[i] : i \in DOMAIN Rows}
<1> HIDE DEF f, l, S
<1>3. SubSeq(Rows, f, l) = [i \in 1 .. (l - f + 1) |-> Rows[i + f - 1]]
  BY <1>1, RowsType DEF f, l
<1>4. \A i \in 1 .. (l - f + 1) : f + i - 1 \in 1 .. l /\ f + i - 1 \in 1 .. Len(Rows) /\ i + f - 1 = f + i - 1
  BY <1>1, RowsType DEF f, l
<1>5. \A i \in 1 .. (l - f + 1) : RowsOf(b)[i] = Rows[f + i - 1]
  BY <1>2, <1>3, <1>4 DEF f, l
<1>6. RowsOf(b) \in Seq(S) /\ Len(RowsOf(b)) = l - f + 1
  BY <1>1, <1>2, RowsType DEF f, l, S
<1> QED
  BY <1>4, <1>5, <1>6 DEF FileRows, f, l

-----------------------------------------------------------------------------
(* The stages and the lines. *)

\* The file makes a natural number of batches.
LEMMA NumBatchesNat == NumBatches \in Nat
<1> DEFINE n == Len(Rows) + BatchSize - 1
<1>1. n \in Nat /\ BatchSize \in Nat \ {0}
  BY RowsType, BatchSizeAssumption
<1>2. NumBatches = n \div BatchSize
  BY DEF NumBatches
<1> HIDE DEF n
<1> QED
  BY <1>1, <1>2

\* A process begins to import with the first row of the first batch.
AtTheBeginning == next = 1 /\ firstStep = [b \in Batch |-> "unread"] /\ line = 0

\* ... which is in the first two parts of the invariant.
LEMMA BeginsOK == AtTheBeginning => StagesOK /\ LinesOK
<1> SUFFICES ASSUME AtTheBeginning PROVE StagesOK /\ LinesOK
  OBVIOUS
<1> USE DEF AtTheBeginning
<1>1. StagesOK
  BY NumBatchesNat DEF StagesOK, Batch, Pipeline!Batch, Pipeline!FirstPC, Pipeline!FirstRunning
<1>2. next \in Batch => FirstLine(next) - 1 <= line /\ line < LastLine(next)
  BY BatchLines, RowsType
<1>3. next \in Batch => firstStep[next] = "unread"
  OBVIOUS
<1> QED
  BY <1>1, <1>2, <1>3, RowsType DEF LinesOK

\* The two stages that a step on the data moves a batch to.
LEMMA StepKeepsStages ==
    ASSUME StagesOK, [Next]_vars
    PROVE  StagesOK'
<1> USE NumBatchesNat DEF StagesOK, Batch, Pipeline!Batch, Pipeline!FirstPC, Pipeline!FirstRunning,
        Pipeline!At, Pipeline!Moved, Pipeline!handover, Pipeline!reporting
<1>1. CASE ReadRow
  BY <1>1 DEF ReadRow, Pipeline!FillBatch, pipelineVars
<1>2. ASSUME NEW b \in Batch, FirstResolve(b) \/ FirstResolveFails(b) PROVE StagesOK'
  BY <1>2 DEF FirstResolve, FirstResolveFails, Pipeline!FirstResolve
<1>3. ASSUME NEW b \in Batch, FirstWrite(b) \/ FirstCommitFails(b) PROVE StagesOK'
  BY <1>3 DEF FirstWrite, FirstCommitFails, Pipeline!FirstWrite
<1>4. ASSUME NEW b \in Batch, FirstWriteFails(b) PROVE StagesOK'
  BY <1>4 DEF FirstWriteFails, pipelineVars
<1>5. ASSUME NEW b \in Batch, FirstRelease(b) PROVE StagesOK'
  BY <1>5 DEF FirstRelease, Pipeline!FirstRelease
<1>6. ASSUME NEW b \in Batch, CommitEdges(b) PROVE StagesOK'
  BY <1>6 DEF CommitEdges, Pipeline!RealWrite
<1>7. CASE PipelineStep
  <2>1. CASE Pipeline!AcquireFirstStep
    BY <2>1 DEF Pipeline!AcquireFirstStep
  <2>2. CASE Pipeline!CountFirstStep
    BY <2>2 DEF Pipeline!CountFirstStep
  <2>3. CASE Pipeline!EnqueueFirstStep
    BY <2>3 DEF Pipeline!EnqueueFirstStep
  <2>4. CASE UNCHANGED <<next, firstStep>>
    BY <2>4
  <2>5. ASSUME NEW b \in Batch, Pipeline!FirstStart(b) PROVE StagesOK'
    BY <2>5 DEF Pipeline!FirstStart
  <2>6. ASSUME NEW b \in Batch, Pipeline!FirstAcquire(b) PROVE StagesOK'
    BY <2>6 DEF Pipeline!FirstAcquire
  <2>7. ASSUME NEW b \in Batch, Pipeline!FirstAdd(b) PROVE StagesOK'
    BY <2>7 DEF Pipeline!FirstAdd
  <2>8. ASSUME NEW b \in Batch, Pipeline!FirstEnqueue(b) PROVE StagesOK'
    BY <2>8 DEF Pipeline!FirstEnqueue
  <2>9. ASSUME NEW b \in Batch, Pipeline!FirstDone(b) PROVE StagesOK'
    BY <2>9 DEF Pipeline!FirstDone
  <2> QED
    BY <1>7, <2>1, <2>2, <2>3, <2>4, <2>5, <2>6, <2>7, <2>8, <2>9 DEF PipelineStep
<1>8. CASE UNCHANGED <<next, firstStep>>
  BY <1>8
<1>9. CASE ProcessEnds
  BY <1>9 DEF ProcessEnds, Pipeline!EnterAgain
<1> QED
  BY <1>1, <1>2, <1>3, <1>4, <1>5, <1>6, <1>7, <1>8, <1>9, StepCases

\* The steps after a batch is read leave the lines alone.
LEMMA LaterStagesKeepLines ==
    ASSUME StagesOK, LinesOK, UNCHANGED <<next, line>>,
           firstStep' \in [Batch -> Pipeline!FirstPC],
           \A b \in Batch : firstStep'[b] = "unread" <=> firstStep[b] = "unread"
    PROVE  LinesOK'
  BY DEF LinesOK, FirstLine, LastLine

\* The line follows the batch main is filling.
LEMMA StepKeepsLines ==
    ASSUME StagesOK, LinesOK, [Next]_vars
    PROVE  LinesOK'
<1>0. StagesOK'
  BY StepKeepsStages
<1> USE DEF Pipeline!At, Pipeline!Moved, Pipeline!handover, Pipeline!reporting
<1>a. ASSUME UNCHANGED <<next, line>>,
             \A b \in Batch : firstStep'[b] = "unread" <=> firstStep[b] = "unread"
      PROVE  LinesOK'
  BY <1>0, <1>a, LaterStagesKeepLines DEF StagesOK
<1>1. CASE ReadRow
  <2>1. next \in Batch /\ firstStep[next] = "unread" /\ line' = line + 1 /\ next' = next
    BY <1>1 DEF ReadRow, Pipeline!FillBatch, pipelineVars
  <2>2. line \in Nat /\ line < LastLine(next) /\ FirstLine(next) - 1 <= line
        /\ LastLine(next) \in 1 .. Len(Rows) /\ FirstLine(next) \in Nat /\ Len(Rows) \in Nat
    BY <2>1, BatchLines, RowsType DEF LinesOK
  <2>3. CASE line + 1 = LastLine(next)
    <3>1. firstStep' = [firstStep EXCEPT ![next] = "filled"]
      BY <1>1, <2>3 DEF ReadRow, Pipeline!FillBatch
    <3>2. firstStep'[next] = "filled" /\ \A b \in Batch \ {next} : firstStep'[b] = firstStep[b]
      BY <2>1, <3>1 DEF StagesOK
    <3>3. \A b \in Batch : firstStep'[b] # "unread" => LastLine(b) <= line'
      BY <2>1, <2>2, <2>3, <3>2, BatchLines DEF LinesOK
    <3>4. line' \in 0 .. Len(Rows) /\ line' = LastLine(next)
      BY <2>1, <2>2, <2>3
    <3> QED
      BY <2>1, <3>2, <3>3, <3>4 DEF LinesOK, FirstLine, LastLine
  <2>4. CASE line + 1 # LastLine(next)
    <3>1. firstStep' = firstStep
      BY <1>1, <2>4 DEF ReadRow, pipelineVars
    <3>2. \A b \in Batch : firstStep'[b] # "unread" => LastLine(b) <= line'
      BY <2>1, <2>2, <3>1, BatchLines DEF LinesOK
    <3>3. /\ line' \in 0 .. Len(Rows)
          /\ FirstLine(next) - 1 <= line' /\ line' < LastLine(next)
      BY <2>1, <2>2, <2>4
    <3> QED
      BY <2>1, <3>1, <3>2, <3>3 DEF LinesOK, FirstLine, LastLine
  <2> QED
    BY <2>3, <2>4
<1>2. ASSUME NEW b \in Batch, FirstResolve(b) \/ FirstResolveFails(b) PROVE LinesOK'
  BY <1>2, <1>a DEF FirstResolve, FirstResolveFails, Pipeline!FirstResolve, StagesOK
<1>3. ASSUME NEW b \in Batch, FirstWrite(b) \/ FirstCommitFails(b) PROVE LinesOK'
  BY <1>3, <1>a DEF FirstWrite, FirstCommitFails, Pipeline!FirstWrite, StagesOK
<1>4. ASSUME NEW b \in Batch, FirstWriteFails(b) PROVE LinesOK'
  BY <1>4, <1>a DEF FirstWriteFails, pipelineVars
<1>5. ASSUME NEW b \in Batch, FirstRelease(b) PROVE LinesOK'
  BY <1>5, <1>a DEF FirstRelease, Pipeline!FirstRelease, StagesOK
<1>6. ASSUME NEW b \in Batch, CommitEdges(b) PROVE LinesOK'
  BY <1>6, <1>a DEF CommitEdges, Pipeline!RealWrite
<1>7. CASE PipelineStep /\ line' = line
  <2>1. CASE Pipeline!AcquireFirstStep
    BY <1>7, <2>1, <1>a DEF Pipeline!AcquireFirstStep, StagesOK
  <2>2. CASE Pipeline!CountFirstStep
    BY <1>7, <2>2, <1>a DEF Pipeline!CountFirstStep, StagesOK
  <2>3. CASE Pipeline!EnqueueFirstStep
    <3>1. /\ next \in Batch /\ firstStep[next] = "counted" /\ next' = next + 1
          /\ firstStep' = [firstStep EXCEPT ![next] = "queued"]
      BY <2>3 DEF Pipeline!EnqueueFirstStep, Batch
    <3>2. line = LastLine(next)
      BY <3>1 DEF LinesOK
    <3>3. \A b \in Batch : firstStep'[b] # "unread" => LastLine(b) <= line
      BY <3>1 DEF LinesOK, StagesOK
    <3>4. ASSUME next + 1 \in Batch
          PROVE  /\ firstStep'[next + 1] = "unread"
                 /\ FirstLine(next + 1) - 1 <= line /\ line < LastLine(next + 1)
      <4>1. next \in Int /\ next + 1 > next /\ next + 1 # next
        BY NumBatchesNat DEF StagesOK
      <4>2. firstStep'[next + 1] = "unread"
        BY <3>1, <3>4, <4>1 DEF StagesOK
      <4>3. /\ FirstLine(next + 1) = LastLine(next) + 1 /\ LastLine(next) \in Nat
            /\ FirstLine(next + 1) <= LastLine(next + 1) /\ LastLine(next + 1) \in Nat
        BY <3>1, <3>4, BatchLines, RowsType
      <4> QED
        BY <3>2, <4>2, <4>3
    <3> QED
      BY <1>7, <3>1, <3>3, <3>4 DEF LinesOK, FirstLine, LastLine
  <2>4. CASE UNCHANGED <<next, firstStep>>
    BY <1>7, <2>4, <1>a
  <2>5. ASSUME NEW b \in Batch, Pipeline!FirstStart(b) PROVE LinesOK'
    BY <1>7, <2>5, <1>a DEF Pipeline!FirstStart, StagesOK
  <2>6. ASSUME NEW b \in Batch, Pipeline!FirstAcquire(b) PROVE LinesOK'
    BY <1>7, <2>6, <1>a DEF Pipeline!FirstAcquire, StagesOK
  <2>7. ASSUME NEW b \in Batch, Pipeline!FirstAdd(b) PROVE LinesOK'
    BY <1>7, <2>7, <1>a DEF Pipeline!FirstAdd, StagesOK
  <2>8. ASSUME NEW b \in Batch, Pipeline!FirstEnqueue(b) PROVE LinesOK'
    BY <1>7, <2>8, <1>a DEF Pipeline!FirstEnqueue, StagesOK
  <2>9. ASSUME NEW b \in Batch, Pipeline!FirstDone(b) PROVE LinesOK'
    BY <1>7, <2>9, <1>a DEF Pipeline!FirstDone, StagesOK
  <2> QED
    BY <1>7, <2>1, <2>2, <2>3, <2>4, <2>5, <2>6, <2>7, <2>8, <2>9 DEF PipelineStep
<1>8. CASE UNCHANGED <<next, firstStep>> /\ line' = line
  BY <1>8, <1>a
<1>9. CASE ProcessEnds
  <2>1. AtTheBeginning'
    BY <1>9 DEF ProcessEnds, Pipeline!EnterAgain, Batch, AtTheBeginning, Pipeline!Batch
  <2>2. AtTheBeginning' => (StagesOK /\ LinesOK)'
    BY BeginsOK, PTL
  <2> QED
    BY <2>1, <2>2
<1> QED
  BY <1>1, <1>2, <1>3, <1>4, <1>5, <1>6, <1>7, <1>8, <1>9, StepCases DEF Data

\* Writing a name keeps the table a table and the cache a cache of it, and puts
\* the name in both.
LEMMA NameWrittenKeeps ==
    ASSUME NEW table, NEW cache, TableOK(table), CacheOK(table, cache), NEW name
    PROVE  LET w == NameWritten(table, cache, name)
           IN  /\ TableOK(w.table) /\ Extends(w.table, table)
               /\ CacheOK(w.table, w.cache)
               /\ DOMAIN w.cache = DOMAIN cache \cup {name}
<1> DEFINE w == NameWritten(table, cache, name)
           new == WithName(table, name)
           id == IdOfName(new, name)
<1>1. CASE name \in DOMAIN cache
  <2>1. w.table = table /\ w.cache = cache
    BY <1>1 DEF NameWritten
  <2>2. Extends(table, table)
    BY ExtendsReflexive DEF TableOK
  <2> QED
    BY <1>1, <2>1, <2>2
<1>2. CASE name \notin DOMAIN cache
  <2>1. w.table = new /\ w.cache = WithEntry(cache, name, id)
    BY <1>2 DEF NameWritten
  <2>2. TableOK(new) /\ Extends(new, table)
    BY AppendedTable DEF WithName
  <2>3. IdsOfName(new, name) # {}
    BY DEF WithName, WithEntry, IdsOfName
  <2>4. id \in IdsOfName(new, name)
    BY <2>2, <2>3, IdOfNameFound DEF Extends
  <2>5. ASSUME NEW n \in DOMAIN cache PROVE cache[n] \in IdsOfName(new, n)
    BY <2>2, <2>5, IdsStayInLater DEF CacheOK
  <2> HIDE DEF new, id
  <2>6. \A n \in DOMAIN WithEntry(cache, name, id) : WithEntry(cache, name, id)[n] \in IdsOfName(new, n)
    BY <1>2, <2>4, <2>5 DEF WithEntry
  <2>7. DOMAIN WithEntry(cache, name, id) = DOMAIN cache \cup {name}
    BY DEF WithEntry
  <2> QED
    BY <2>1, <2>2, <2>6, <2>7 DEF CacheOK
<1> QED
  BY <1>1, <1>2

\* A cache of a table is one of every later table: no id changes its name.
LEMMA CacheOfLater ==
    ASSUME NEW table, NEW later, Extends(later, table), NEW cache, CacheOK(table, cache)
    PROVE  CacheOK(later, cache)
  BY IdsStayInLater DEF CacheOK

\* A store to which rows are added is a store.
LEMMA StoreGrows ==
    ASSUME NEW s, NEW t, IsStore(s),
           t = [label_type |-> t.label_type, relation_type |-> t.relation_type,
                vertex |-> t.vertex, edge |-> t.edge],
           TableOK(t.label_type), TableOK(t.relation_type), TableOK(t.vertex),
           Grows(t, s),
           \A id \in DOMAIN t.vertex \ DOMAIN s.vertex :
              t.vertex[id].label_type_id \in DOMAIN t.label_type,
           KeysOK(t)
    PROVE  IsStore(t)
  BY DEF IsStore, Grows, Extends

\* A store whose record-number tables are the same has not lost or moved a row.
LEMMA SameTablesGrow ==
    ASSUME NEW s, NEW t, IsStore(s), t.label_type = s.label_type,
           t.relation_type = s.relation_type, t.vertex = s.vertex
    PROVE  Grows(t, s)
  BY ExtendsReflexive DEF IsStore, Grows, TableOK

\* Reading a row.
LEMMA ReadRowKeeps ==
    ASSUME Inv, ReadRow
    PROVE  IsStore(db)' /\ Grows(db', db) /\ VerticesOK' /\ CachesOK'
<1> DEFINE row == Rows[line + 1]
           relation == NameWritten(db.relation_type, relation_type_cache, row.relation_type)
           start == NameWritten(db.label_type, label_type_cache, row.start_label_type)
           end == NameWritten(start.table, start.cache, row.end_label_type)
<1>1. /\ db' = [db EXCEPT !.relation_type = relation.table, !.label_type = end.table]
      /\ relation_type_cache' = relation.cache /\ label_type_cache' = end.cache
      /\ line' = line + 1 /\ append_recno' = append_recno
  BY DEF ReadRow
<1>2. IsStore(db) /\ CacheOK(db.label_type, label_type_cache)
      /\ CacheOK(db.relation_type, relation_type_cache)
  BY DEF Inv, StoresOK, CachesOK
<1>3. TableOK(db.label_type) /\ TableOK(db.relation_type) /\ TableOK(db.vertex)
  BY <1>2 DEF IsStore
<1>4. /\ TableOK(relation.table) /\ Extends(relation.table, db.relation_type)
      /\ CacheOK(relation.table, relation.cache)
      /\ DOMAIN relation.cache = DOMAIN relation_type_cache \cup {row.relation_type}
  BY <1>2, <1>3, NameWrittenKeeps
<1>5. /\ TableOK(start.table) /\ Extends(start.table, db.label_type)
      /\ CacheOK(start.table, start.cache)
      /\ DOMAIN start.cache = DOMAIN label_type_cache \cup {row.start_label_type}
  BY <1>2, <1>3, NameWrittenKeeps
<1>6. /\ TableOK(end.table) /\ Extends(end.table, start.table)
      /\ CacheOK(end.table, end.cache)
      /\ DOMAIN end.cache = DOMAIN start.cache \cup {row.end_label_type}
  BY <1>5, NameWrittenKeeps
<1> HIDE DEF relation, start, end
<1>7. Extends(end.table, db.label_type)
  BY <1>5, <1>6, ExtendsTransitive
<1>8. /\ db' = [label_type |-> end.table, relation_type |-> relation.table,
                vertex |-> db.vertex, edge |-> db.edge]
  BY <1>1, <1>2 DEF IsStore
<1>9. Extends(db.vertex, db.vertex)
  BY <1>3, ExtendsReflexive DEF TableOK
<1>10. Grows(db', db)
  BY <1>4, <1>7, <1>8, <1>9 DEF Grows
<1>11. KeysOK(db)'
  BY <1>2, <1>8 DEF IsStore, KeysOK, BothDirections
<1>12. IsStore(db')
  <2>1. db' = [label_type |-> db'.label_type, relation_type |-> db'.relation_type,
               vertex |-> db'.vertex, edge |-> db'.edge]
    BY <1>8
  <2>2. TableOK(db'.label_type) /\ TableOK(db'.relation_type) /\ TableOK(db'.vertex)
    BY <1>3, <1>4, <1>6, <1>8
  <2>3. DOMAIN db'.vertex \ DOMAIN db.vertex = {}
    BY <1>8
  <2>4. KeysOK(db')
    BY <1>11 DEF KeysOK, BothDirections
  <2> QED
    BY <1>2, <1>10, <2>1, <2>2, <2>3, <2>4, StoreGrows
<1>13. VerticesOK'
  BY <1>1, <1>8 DEF Inv, VerticesOK
<1>14. line \in Nat /\ \A i \in 1 .. line + 1 : i \in 1 .. line \/ i = line + 1
  BY DEF Inv, LinesOK
<1>15. CachesOK'
  BY <1>1, <1>4, <1>5, <1>6, <1>8, <1>14 DEF Inv, CachesOK, CacheOK
<1> QED
  BY <1>10, <1>12, <1>13, <1>15 DEF IsStore, KeysOK, BothDirections
-----------------------------------------------------------------------------
(* The vertices that the first step appends. *)

\* The keys of a batch are finitely many, and each is mentioned first at a place
\* of its own.
LEMMA FirstMentions ==
    ASSUME NEW b \in Batch
    PROVE  /\ IsFiniteSet(Pks[b])
           /\ \A pk \in Pks[b] :
                 /\ FirstMention[b][pk] \in DOMAIN Mentions[b]
                 /\ FirstMention[b][pk] \in Nat
                 /\ Mentions[b][FirstMention[b][pk]].pk = pk
           /\ DOMAIN Mentions[b] = 1 .. 2 * Len(RowsOf(b))
<1> DEFINE M == Mentions[b]
           n == 2 * Len(RowsOf(b))
<1>1. n \in Nat
  BY BatchRows
<1>2. DOMAIN M = 1 .. n
  BY DEF Mentions
<1>3. Pks[b] = {M[i].pk : i \in 1 .. n}
  BY <1>2 DEF Pks
<1>4. \A pk \in Pks[b] : FirstMention[b][pk] = Min({i \in 1 .. n : M[i].pk = pk})
  BY <1>2 DEF FirstMention
<1> HIDE DEF M, n
<1>5. IsFiniteSet(Pks[b])
  <2> DEFINE f == [i \in 1 .. n |-> M[i].pk]
  <2>1. {f[i] : i \in 1 .. n} = Pks[b]
    BY <1>3
  <2> HIDE DEF f
  <2>2. IsFiniteSet({f[i] : i \in 1 .. n})
    BY <1>1, FiniteRange
  <2> QED
    BY <2>1, <2>2
<1>6. ASSUME NEW pk \in Pks[b]
      PROVE  FirstMention[b][pk] \in 1 .. n /\ M[FirstMention[b][pk]].pk = pk
  <2> DEFINE S == {i \in 1 .. n : M[i].pk = pk}
  <2>1. S \in SUBSET Nat /\ S # {}
    BY <1>3
  <2>2. Min(S) \in S
    BY <2>1, MinExists
  <2> QED
    BY <1>4, <2>2
<1> QED
  BY <1>1, <1>2, <1>5, <1>6 DEF M, n

\* An unresolved key is appended under a number of its own, after all that were
\* handed out before.
LEMMA AppendedIds ==
    ASSUME NEW b \in Batch, append_recno \in Nat
    PROVE  /\ Cardinality(Unresolved(b)) \in Nat
           /\ \A pk \in Unresolved(b) :
                 AppendedId(b, pk) \in append_recno + 1 .. append_recno + Cardinality(Unresolved(b))
           /\ \A pk, q \in Unresolved(b) : AppendedId(b, pk) = AppendedId(b, q) => pk = q
<1> DEFINE U == Unresolved(b)
           UpTo(pk) == {q \in U : FirstMention[b][q] <= FirstMention[b][pk]}
<1>1. IsFiniteSet(U) /\ U \subseteq Pks[b]
  <2>1. U \in SUBSET Pks[b]
    BY DEF Unresolved
  <2> HIDE DEF U
  <2> QED
    BY <2>1, FirstMentions, FS_Subset
<1>2. \A pk \in U : /\ FirstMention[b][pk] \in Nat
                    /\ Mentions[b][FirstMention[b][pk]].pk = pk
  BY <1>1, FirstMentions
<1>3. Cardinality(U) \in Nat
  BY <1>1, FS_CardinalityType
<1>4. \A pk \in U : AppendedId(b, pk) = append_recno + Cardinality(UpTo(pk))
  BY DEF AppendedId
<1> HIDE DEF U
<1>5. ASSUME NEW pk \in U
      PROVE  /\ IsFiniteSet(UpTo(pk)) /\ pk \in UpTo(pk)
             /\ Cardinality(UpTo(pk)) \in 1 .. Cardinality(U)
  <2>1. UpTo(pk) \in SUBSET U /\ pk \in UpTo(pk)
    BY <1>2
  <2> HIDE DEF UpTo
  <2>2. IsFiniteSet(UpTo(pk)) /\ Cardinality(UpTo(pk)) <= Cardinality(U)
    BY <1>1, <2>1, FS_Subset
  <2>3. Cardinality(UpTo(pk)) \in Nat /\ Cardinality(UpTo(pk)) # 0
    BY <2>1, <2>2, FS_CardinalityType, FS_EmptySet
  <2> QED
    BY <1>3, <2>1, <2>2, <2>3
<1>6. ASSUME NEW pk \in U, NEW q \in U, FirstMention[b][pk] < FirstMention[b][q]
      PROVE  Cardinality(UpTo(pk)) # Cardinality(UpTo(q))
  <2>1. UpTo(pk) \in SUBSET UpTo(q)
    BY <1>2, <1>6
  <2>2. q \in UpTo(q) /\ q \notin UpTo(pk)
    BY <1>2, <1>6
  <2>3. IsFiniteSet(UpTo(q))
    BY <1>5
  <2> HIDE DEF UpTo
  <2> QED
    BY <2>1, <2>2, <2>3, FS_Subset
<1>7. ASSUME NEW pk \in U, NEW q \in U, AppendedId(b, pk) = AppendedId(b, q) PROVE pk = q
  <2>1. Cardinality(UpTo(pk)) = Cardinality(UpTo(q))
    <3>1. Cardinality(UpTo(pk)) \in Nat /\ Cardinality(UpTo(q)) \in Nat
      BY <1>5
    <3>2. append_recno + Cardinality(UpTo(pk)) = append_recno + Cardinality(UpTo(q))
      BY <1>4, <1>7
    <3> HIDE DEF UpTo
    <3> QED
      BY <3>1, <3>2
  <2>2. ~ (FirstMention[b][pk] < FirstMention[b][q]) /\ ~ (FirstMention[b][q] < FirstMention[b][pk])
    BY <1>6, <2>1
  <2>3. FirstMention[b][pk] = FirstMention[b][q]
    BY <1>2, <2>2
  <2> QED
    BY <1>2, <2>3
<1>8. ASSUME NEW pk \in U
      PROVE  AppendedId(b, pk) \in append_recno + 1 .. append_recno + Cardinality(U)
  <2>1. Cardinality(UpTo(pk)) \in 1 .. Cardinality(U)
    BY <1>5
  <2>2. AppendedId(b, pk) = append_recno + Cardinality(UpTo(pk))
    BY <1>4
  <2> HIDE DEF UpTo
  <2> QED
    BY <1>3, <2>1, <2>2
<1> QED
  BY <1>3, <1>7, <1>8 DEF U

\* What the first step does when it succeeds: the unresolved keys get rows, and
\* the other tables stay as they are.
LEMMA VerticesAppended ==
    ASSUME NEW b \in Batch, append_recno \in Nat, IsStore(db), DOMAIN pk_to_ids = Batch,
           FirstWrite(b)
    PROVE  /\ db' = [label_type |-> db.label_type, relation_type |-> db.relation_type,
                     vertex |-> db'.vertex, edge |-> db.edge]
           /\ DOMAIN db'.vertex = DOMAIN db.vertex \cup {AppendedId(b, pk) : pk \in Unresolved(b)}
           /\ \A pk \in Unresolved(b) :
                 db'.vertex[AppendedId(b, pk)] = [label_type_id |-> LabelIdOf(b, pk), vertex_pk |-> pk]
           /\ \A id \in DOMAIN db.vertex \ {AppendedId(b, pk) : pk \in Unresolved(b)} :
                 db'.vertex[id] = db.vertex[id]
           /\ DOMAIN pk_to_ids' = Batch
           /\ \A c \in Batch \ {b} : pk_to_ids'[c] = pk_to_ids[c]
           /\ DOMAIN pk_to_ids'[b] = DOMAIN pk_to_ids[b] \cup Unresolved(b)
           /\ \A pk \in Unresolved(b) : pk_to_ids'[b][pk] = AppendedId(b, pk)
           /\ \A pk \in DOMAIN pk_to_ids[b] \ Unresolved(b) : pk_to_ids'[b][pk] = pk_to_ids[b][pk]
<1> DEFINE U == Unresolved(b)
           Id(pk) == AppendedId(b, pk)
           new == [pk \in U |-> Id(pk)]
           ids == {Id(pk) : pk \in U}
           key(id) == CHOOSE pk \in U : Id(pk) = id
           rows == [id \in ids |-> [label_type_id |-> LabelIdOf(b, key(id)), vertex_pk |-> key(id)]]
<1>1. \A pk \in U : key(Id(pk)) = pk
  <2> SUFFICES ASSUME NEW pk \in U PROVE key(Id(pk)) = pk
    OBVIOUS
  <2>1. key(Id(pk)) \in U /\ Id(key(Id(pk))) = Id(pk)
    OBVIOUS
  <2> QED
    BY <2>1, AppendedIds
<1>2. /\ db' = [db EXCEPT !.vertex = WithEntries(@, rows)]
      /\ pk_to_ids' = [pk_to_ids EXCEPT ![b] = WithEntries(@, new)]
  <2>1. {new[pk] : pk \in U} = ids
    OBVIOUS
  <2>2. \A id : (CHOOSE pk \in U : new[pk] = id) = key(id)
    OBVIOUS
  <2>3. [id \in {new[pk] : pk \in U} |->
            [label_type_id |-> LabelIdOf(b, CHOOSE pk \in U : new[pk] = id),
             vertex_pk |-> CHOOSE pk \in U : new[pk] = id]] = rows
    BY <2>1, <2>2
  <2> QED
    BY <2>3 DEF FirstWrite
<1> HIDE DEF Id, key
<1>3. db' = [label_type |-> db.label_type, relation_type |-> db.relation_type,
             vertex |-> WithEntries(db.vertex, rows), edge |-> db.edge]
  BY <1>2 DEF IsStore
<1>4. \A pk \in U : WithEntries(db.vertex, rows)[Id(pk)] = [label_type_id |-> LabelIdOf(b, pk), vertex_pk |-> pk]
  BY <1>1 DEF WithEntries
<1>5. /\ DOMAIN WithEntries(db.vertex, rows) = DOMAIN db.vertex \cup ids
      /\ \A id \in DOMAIN db.vertex \ ids : WithEntries(db.vertex, rows)[id] = db.vertex[id]
  BY DEF WithEntries
<1>6. pk_to_ids'[b] = WithEntries(pk_to_ids[b], new) /\ DOMAIN pk_to_ids' = Batch
      /\ \A c \in Batch \ {b} : pk_to_ids'[c] = pk_to_ids[c]
  BY <1>2
<1>7. DOMAIN pk_to_ids'[b] = DOMAIN pk_to_ids[b] \cup U
      /\ (\A pk \in U : pk_to_ids'[b][pk] = Id(pk))
      /\ \A pk \in DOMAIN pk_to_ids[b] \ U : pk_to_ids'[b][pk] = pk_to_ids[b][pk]
  BY <1>6 DEF WithEntries
<1> QED
  BY <1>3, <1>4, <1>5, <1>6, <1>7 DEF Id

\* The labels of the keys of a batch are cached from the time it is read.
LEMMA LabelsCached ==
    ASSUME Inv, NEW b \in Batch, firstStep[b] # "unread", NEW pk \in Pks[b]
    PROVE  /\ Mentions[b][FirstMention[b][pk]].label \in DOMAIN label_type_cache
           /\ LabelIdOf(b, pk) \in DOMAIN db.label_type
<1> DEFINE i == FirstMention[b][pk]
           k == (i + 1) \div 2
           n == Len(RowsOf(b))
<1>1. i \in 1 .. 2 * n /\ n \in Nat
  BY FirstMentions, BatchRows
<1> HIDE DEF i, n
<1>2. k \in 1 .. n
  BY <1>1
<1>3. /\ Mentions[b][i].label \in {RowsOf(b)[k].start_label_type, RowsOf(b)[k].end_label_type}
  <2>1. Mentions[b][i] = LET row == RowsOf(b)[k]
                         IN  IF i % 2 = 1 THEN [pk |-> row.start_pk, label |-> row.start_label_type]
                                          ELSE [pk |-> row.end_pk, label |-> row.end_label_type]
    BY <1>1 DEF Mentions, n
  <2> HIDE DEF k
  <2> QED
    BY <2>1
<1> HIDE DEF k
<1>4. PICK j \in 1 .. LastLine(b) : RowsOf(b)[k] = Rows[j]
  BY <1>2, BatchRows DEF n
<1>5. LastLine(b) <= line /\ LastLine(b) \in Nat /\ line \in Nat
  BY BatchLines DEF Inv, LinesOK
<1>6. j \in 1 .. line
  BY <1>5
<1>7. Mentions[b][i].label \in DOMAIN label_type_cache
  BY <1>3, <1>4, <1>6 DEF Inv, CachesOK
<1>8. label_type_cache[Mentions[b][i].label] \in DOMAIN db.label_type
  BY <1>7 DEF Inv, CachesOK, CacheOK, IdsOfName
<1> QED
  BY <1>7, <1>8 DEF LabelIdOf, i

\* write_vertices leaves a store whose vertices are in record-number order.
LEMMA FirstWriteKeeps ==
    ASSUME Inv, NEW b \in Batch, FirstWrite(b)
    PROVE  IsStore(db') /\ Grows(db', db) /\ VerticesOK'
<1> DEFINE n == Cardinality(Unresolved(b))
           ids == {AppendedId(b, pk) : pk \in Unresolved(b)}
<1>1. /\ IsStore(db) /\ append_recno \in Nat /\ DOMAIN pk_to_ids = Batch
      /\ DOMAIN db.vertex \subseteq 1 .. append_recno
  BY DEF Inv, StoresOK, VerticesOK, ResolvedOK
<1>2. /\ db' = [label_type |-> db.label_type, relation_type |-> db.relation_type,
                vertex |-> db'.vertex, edge |-> db.edge]
      /\ DOMAIN db'.vertex = DOMAIN db.vertex \cup ids
      /\ \A pk \in Unresolved(b) :
            db'.vertex[AppendedId(b, pk)] = [label_type_id |-> LabelIdOf(b, pk), vertex_pk |-> pk]
      /\ \A id \in DOMAIN db.vertex \ ids : db'.vertex[id] = db.vertex[id]
  BY <1>1, VerticesAppended
<1>3. /\ n \in Nat
      /\ ids \subseteq append_recno + 1 .. append_recno + n
  BY <1>1, AppendedIds
<1>4. append_recno' = append_recno + n
  BY DEF FirstWrite
<1> HIDE DEF n
<1>5. ASSUME NEW id \in ids PROVE db'.vertex[id].label_type_id \in DOMAIN db.label_type
  <2>1. firstStep[b] # "unread"
    BY DEF FirstWrite, Pipeline!FirstWrite, Pipeline!At
  <2>2. PICK pk \in Unresolved(b) : id = AppendedId(b, pk)
    OBVIOUS
  <2>3. LabelIdOf(b, pk) \in DOMAIN db.label_type
    BY <2>1, LabelsCached DEF Unresolved
  <2>4. db'.vertex[id] = [label_type_id |-> LabelIdOf(b, pk), vertex_pk |-> pk]
    BY <1>2, <2>2
  <2> QED
    BY <2>3, <2>4
<1> HIDE DEF ids
<1>6. ASSUME NEW new \in ids, NEW old \in DOMAIN db.vertex PROVE old < new
  BY <1>1, <1>3
<1>7. DOMAIN db'.vertex \subseteq 1 .. append_recno + n
  BY <1>1, <1>2, <1>3
<1>8. VerticesOK'
  BY <1>1, <1>3, <1>4, <1>7 DEF VerticesOK
<1>9. Extends(db'.vertex, db.vertex)
  <2>1. \A id \in DOMAIN db.vertex : id \notin ids
    BY <1>1, <1>6
  <2> QED
    BY <1>1, <1>2, <1>3, <1>6, <1>7, <2>1 DEF Extends
<1>10. /\ db'.label_type = db.label_type /\ db'.relation_type = db.relation_type
       /\ db'.edge = db.edge
  BY <1>2
<1>11. TableOK(db'.vertex) /\ TableOK(db.label_type) /\ TableOK(db.relation_type)
  <2>1. append_recno + n \in Nat
    BY <1>1, <1>3
  <2>2. TableOK(db'.vertex)
    BY <1>7, <2>1, BoundedTable
  <2> QED
    BY <1>1, <2>2 DEF IsStore
<1>12. Grows(db', db)
  BY <1>9, <1>10, <1>11, ExtendsReflexive DEF Grows, TableOK
<1>13. KeysOK(db')
  BY <1>1, <1>10 DEF IsStore, KeysOK, BothDirections
<1>14. \A id \in DOMAIN db'.vertex \ DOMAIN db.vertex :
          db'.vertex[id].label_type_id \in DOMAIN db'.label_type
  BY <1>2, <1>5, <1>10
<1>15. db' = [label_type |-> db'.label_type, relation_type |-> db'.relation_type,
              vertex |-> db'.vertex, edge |-> db'.edge]
  BY <1>2
<1>16. IsStore(db')
  BY <1>1, <1>10, <1>11, <1>12, <1>13, <1>14, <1>15, StoreGrows
<1> QED
  BY <1>8, <1>12, <1>16

-----------------------------------------------------------------------------
(* The edges. *)

\* What an edge list of the shape EdgesOK asks for holds: keys, and with each
\* of them its mirror image.
LEMMA KeysOfPairs ==
    ASSUME NEW list, NEW n \in Nat,
           \A i \in 1 .. n : MirroredPair(list[2 * i - 1].key, list[2 * i].key),
           NEW j \in 1 .. 2 * n
    PROVE  /\ IsKey(list[j].key)
           /\ \E k \in 1 .. 2 * n : list[k].key = Mirror(list[j].key)
           /\ (list[j].key.direction = "OUTGOING") <=> (j % 2 = 1)
<1> DEFINE i == (j + 1) \div 2
           out == list[2 * i - 1].key
           in == list[2 * i].key
<1>1. i \in 1 .. n /\ (j % 2 = 1 => j = 2 * i - 1) /\ (j % 2 # 1 => j = 2 * i)
  OBVIOUS
<1>2. MirroredPair(out, in)
  BY <1>1
<1>3. 2 * i - 1 \in 1 .. 2 * n /\ 2 * i \in 1 .. 2 * n
  BY <1>1
<1> HIDE DEF i
<1>4. out.direction = "OUTGOING" /\ out = EdgeKey(out.start_vertex_id, "OUTGOING", out.relation_type_id, out.end_vertex_id) /\ in = Mirror(out)
  BY <1>2 DEF MirroredPair, EdgeKey
<1> HIDE DEF out, in
<1>5. IsKey(out)
  BY <1>4 DEF IsKey
<1>6. IsKey(in) /\ Mirror(in) = out /\ in.direction = "INCOMING"
  BY <1>4, <1>5, MirrorOfKey
<1>7. CASE j % 2 = 1
  BY <1>1, <1>3, <1>4, <1>5, <1>7 DEF out, in
<1>8. CASE j % 2 # 1
  BY <1>1, <1>3, <1>4, <1>6, <1>8 DEF out, in
<1> QED
  BY <1>7, <1>8

\* The edges built for a batch are in mirrored pairs.
LEMMA EdgesOfPairs ==
    ASSUME NEW b \in Batch
    PROVE  LET list == EdgesOf(b)
               n == Len(RowsOf(b))
           IN  /\ DOMAIN list = 1 .. 2 * n /\ Len(list) = 2 * n
               /\ \A i \in 1 .. n :
                    LET row == RowsOf(b)[i]
                        start == pk_to_ids[b][row.start_pk]
                        end == pk_to_ids[b][row.end_pk]
                        relation == relation_type_cache[row.relation_type]
                    IN  /\ list[2 * i - 1] = [key |-> EdgeKey(start, "OUTGOING", relation, end),
                                              end_label_type_id |-> label_type_cache[row.end_label_type]]
                        /\ list[2 * i] = [key |-> EdgeKey(end, "INCOMING", relation, start),
                                          end_label_type_id |-> label_type_cache[row.start_label_type]]
                        /\ MirroredPair(list[2 * i - 1].key, list[2 * i].key)
<1> DEFINE list == EdgesOf(b)
           n == Len(RowsOf(b))
<1>1. n \in Nat
  BY BatchRows
<1>2. DOMAIN list = 1 .. 2 * n /\ Len(list) = 2 * n
  BY <1>1 DEF EdgesOf
<1>3. ASSUME NEW i \in 1 .. n
      PROVE  LET row == RowsOf(b)[i]
                 start == pk_to_ids[b][row.start_pk]
                 end == pk_to_ids[b][row.end_pk]
                 relation == relation_type_cache[row.relation_type]
             IN  /\ list[2 * i - 1] = [key |-> EdgeKey(start, "OUTGOING", relation, end),
                                       end_label_type_id |-> label_type_cache[row.end_label_type]]
                 /\ list[2 * i] = [key |-> EdgeKey(end, "INCOMING", relation, start),
                                   end_label_type_id |-> label_type_cache[row.start_label_type]]
  <2>1. /\ 2 * i - 1 \in 1 .. 2 * n /\ (2 * i - 1 + 1) \div 2 = i /\ (2 * i - 1) % 2 = 1
        /\ 2 * i \in 1 .. 2 * n /\ (2 * i + 1) \div 2 = i /\ (2 * i) % 2 = 0
    BY <1>1
  <2> QED
    BY <2>1 DEF EdgesOf
<1>4. ASSUME NEW i \in 1 .. n
      PROVE  MirroredPair(list[2 * i - 1].key, list[2 * i].key)
  <2> DEFINE start == pk_to_ids[b][RowsOf(b)[i].start_pk]
             end == pk_to_ids[b][RowsOf(b)[i].end_pk]
             relation == relation_type_cache[RowsOf(b)[i].relation_type]
  <2>1. /\ list[2 * i - 1] = [key |-> EdgeKey(start, "OUTGOING", relation, end),
                              end_label_type_id |-> label_type_cache[RowsOf(b)[i].end_label_type]]
        /\ list[2 * i] = [key |-> EdgeKey(end, "INCOMING", relation, start),
                          end_label_type_id |-> label_type_cache[RowsOf(b)[i].start_label_type]]
    BY <1>3
  <2> HIDE DEF list, start, end, relation
  <2> QED
    BY <2>1 DEF MirroredPair, Mirror, EdgeKey
<1> QED
  BY <1>2, <1>3, <1>4

\* What the last of several inserts of a key leaves in the edge table.
LEMMA CommitEdgesKeeps ==
    ASSUME Inv, NEW b \in Batch, CommitEdges(b)
    PROVE  IsStore(db') /\ Grows(db', db) /\ VerticesOK'
<1> DEFINE W == Written(b)
           last(key) == Max({i \in DOMAIN edges[b] : edges[b][i].key = key})
           new == [key \in W |-> edges[b][last(key)].end_label_type_id]
<1>1. db' = [db EXCEPT !.edge = WithEntries(@, new)] /\ append_recno' = append_recno
  BY DEF CommitEdges
<1>2. IsStore(db)
  BY DEF Inv, StoresOK
<1>3. db' = [label_type |-> db.label_type, relation_type |-> db.relation_type,
             vertex |-> db.vertex, edge |-> WithEntries(db.edge, new)]
  BY <1>1, <1>2 DEF IsStore
<1>4. DOMAIN new = W
  OBVIOUS
<1>5. \A key \in W : IsKey(key) /\ Mirror(key) \in W
  <2> DEFINE n == Len(RowsOf(b))
  <2>1. txn[b].written = Len(edges[b])
    BY DEF CommitEdges
  <2>2. CASE edges[b] = <<>>
    BY <2>1, <2>2 DEF Written
  <2>3. CASE edges[b] # <<>>
    <3>1. /\ Len(edges[b]) = 2 * n
          /\ \A i \in 1 .. n : MirroredPair(edges[b][2 * i - 1].key, edges[b][2 * i].key)
      BY <2>3 DEF Inv, EdgesOK
    <3>2. n \in Nat
      BY BatchRows
    <3>3. W = {edges[b][j].key : j \in 1 .. 2 * n}
      BY <2>1, <3>1 DEF Written
    <3> HIDE DEF n, W
    <3>4. \A j \in 1 .. 2 * n : /\ IsKey(edges[b][j].key)
                                /\ \E k \in 1 .. 2 * n : edges[b][k].key = Mirror(edges[b][j].key)
      BY <3>1, <3>2, KeysOfPairs
    <3> QED
      BY <3>3, <3>4
  <2> QED
    BY <2>2, <2>3
<1> HIDE DEF W, new
<1>6. DOMAIN db'.edge = DOMAIN db.edge \cup W
  BY <1>3, <1>4 DEF WithEntries
<1>7. KeysOK(db')
  BY <1>2, <1>5, <1>6 DEF IsStore, KeysOK, BothDirections
<1>8. Grows(db', db)
  BY <1>2, <1>3, SameTablesGrow
<1>9. IsStore(db')
  BY <1>2, <1>3, <1>7 DEF IsStore
<1>10. VerticesOK'
  BY <1>1, <1>3 DEF Inv, VerticesOK
<1> QED
  BY <1>8, <1>9, <1>10

-----------------------------------------------------------------------------
(* The inductive invariant. *)

\* Only a step on the data can change the tables, and it only adds to them.
LEMMA StepGrows ==
    ASSUME Inv, [Next]_vars
    PROVE  ProcessEnds \/ (IsStore(db') /\ Grows(db', db) /\ VerticesOK')
<1> DEFINE Good == IsStore(db') /\ Grows(db', db) /\ VerticesOK'
<1>1. ASSUME db' = db, append_recno' \in Nat, append_recno <= append_recno'
      PROVE  Good
  BY <1>1, SameTablesGrow DEF Inv, StoresOK, VerticesOK
<1>2. append_recno \in Nat
  BY DEF Inv, VerticesOK
<1>3. ASSUME NEW b \in Batch
      PROVE  Cardinality(Unresolved(b)) \in Nat
  BY <1>2, AppendedIds
<1>4. ReadRow => Good
  BY ReadRowKeeps
<1>5. ASSUME NEW b \in Batch, FirstWrite(b) \/ CommitEdges(b)
      PROVE  Good
  BY <1>5, FirstWriteKeeps, CommitEdgesKeeps
<1>6. ASSUME NEW b \in Batch, FirstResolve(b) \/ FirstResolveFails(b) \/ FirstRelease(b)
      PROVE  Good
  BY <1>1, <1>2, <1>6 DEF FirstResolve, FirstResolveFails, FirstRelease
<1>7. ASSUME NEW b \in Batch, FirstWriteFails(b) \/ FirstCommitFails(b)
      PROVE  Good
  BY <1>1, <1>2, <1>3, <1>7 DEF FirstWriteFails, FirstCommitFails
<1>8. UNCHANGED Data => Good
  BY <1>1, <1>2 DEF Data
<1> HIDE DEF Good
<1>9. ProcessEnds \/ Good
  BY <1>4, <1>5, <1>6, <1>7, <1>8, StepCases
<1> QED
  BY <1>9 DEF Good

\* What has grown from a store that had grown has grown from the first.
LEMMA GrowsTransitive ==
    ASSUME NEW r, NEW s, NEW t, Grows(s, r), Grows(t, s)
    PROVE  Grows(t, r)
  BY ExtendsTransitive DEF Grows

\* The store and both checkpoints stay stores, each grown from the older.
LEMMA StepKeepsStores ==
    ASSUME Inv, [Next]_vars
    PROVE  StoresOK' /\ VerticesOK'
<1>1. /\ IsStore(db) /\ IsStore(durable) /\ Grows(db, durable)
      /\ snapshot # NoSnapshot =>
            IsStore(snapshot) /\ Grows(db, snapshot) /\ Grows(snapshot, durable)
  BY DEF Inv, StoresOK
<1>2. CASE ProcessEnds
  <2>1. db' = durable /\ durable' = durable /\ snapshot' = NoSnapshot
        /\ append_recno' = LastRecno(durable.vertex)
    BY <1>2 DEF ProcessEnds
  <2>2. Grows(durable, durable)
    BY <1>1, SameTablesGrow
  <2>3. StoresOK'
    BY <1>1, <2>1, <2>2 DEF StoresOK, IsStore, Grows, KeysOK, BothDirections, NoSnapshot
  <2>4. VerticesOK'
    BY <1>1, <2>1 DEF VerticesOK, IsStore, TableOK
  <2> QED
    BY <2>3, <2>4
<1>3. CASE ~ ProcessEnds
  <2>1. IsStore(db') /\ Grows(db', db) /\ VerticesOK'
    BY <1>3, StepGrows
  <2>2. CASE UNCHANGED Saved
    <3>1. durable' = durable /\ snapshot' = snapshot
      BY <2>2 DEF Saved
    <3>2. Grows(db', durable) /\ (snapshot # NoSnapshot => Grows(db', snapshot))
      BY <1>1, <2>1, GrowsTransitive
    <3> QED
      BY <1>1, <2>1, <3>1, <3>2 DEF StoresOK
  <2>3. CASE CheckpointStep /\ UNCHANGED Data
    <3>1. db' = db
      BY <2>3 DEF Data
    <3>2. Grows(db, db) /\ Grows(durable, durable)
      BY <1>1, SameTablesGrow
    <3>3. CASE snapshot = NoSnapshot /\ snapshot' = db /\ durable' = durable
      BY <1>1, <2>1, <3>1, <3>2, <3>3 DEF StoresOK
    <3>4. CASE snapshot # NoSnapshot /\ snapshot' = NoSnapshot /\ durable' \in {durable, snapshot}
      <4>1. NoSnapshot' = NoSnapshot
        BY DEF NoSnapshot
      <4> QED
        BY <1>1, <2>1, <3>1, <3>2, <3>4, <4>1 DEF StoresOK
    <3> QED
      BY <2>3, <3>3, <3>4 DEF CheckpointStep
  <2> QED
    BY <1>3, <2>1, <2>2, <2>3, StepCases
<1> QED
  BY <1>2, <1>3

\* The caches follow the tables, which only ReadRow and a new process disturb.
LEMMA StepKeepsCaches ==
    ASSUME Inv, [Next]_vars
    PROVE  CachesOK'
<1>1. CASE ReadRow
  BY <1>1, ReadRowKeeps
<1>2. CASE ProcessEnds
  BY <1>2 DEF ProcessEnds, CachesOK, CacheOK, EmptyTable
<1>3. CASE ~ ProcessEnds /\ UNCHANGED <<line, label_type_cache, relation_type_cache>>
  <2>1. Grows(db', db)
    BY <1>3, StepGrows
  <2>2. CacheOK(db'.label_type, label_type_cache) /\ CacheOK(db'.relation_type, relation_type_cache)
    BY <2>1, CacheOfLater DEF Inv, CachesOK, Grows
  <2>3. /\ CacheOK(db.label_type, label_type_cache)'
        /\ CacheOK(db.relation_type, relation_type_cache)'
    BY <1>3, <2>2 DEF CacheOK
  <2> QED
    BY <1>3, <2>3 DEF Inv, CachesOK
<1>4. ASSUME NEW b \in Batch,
             \/ FirstResolve(b) \/ FirstResolveFails(b)
             \/ FirstWrite(b) \/ FirstWriteFails(b) \/ FirstCommitFails(b)
             \/ FirstRelease(b) \/ CommitEdges(b)
      PROVE  UNCHANGED <<line, label_type_cache, relation_type_cache>>
  BY <1>4 DEF FirstResolve, FirstResolveFails, FirstWrite, FirstWriteFails, FirstCommitFails,
       FirstRelease, CommitEdges
<1>5. CASE UNCHANGED Data
  BY <1>3, <1>5, <1>2 DEF Data
<1> QED
  BY <1>1, <1>2, <1>3, <1>4, <1>5, StepCases

\* A batch comes to the stages "write" and "release" of the first step only by
\* resolving its keys and by writing them.
LEMMA OtherStepsResolveNothing ==
    ASSUME StagesOK, [Next]_vars
    PROVE  \/ \E b \in Batch : FirstResolve(b) \/ FirstResolveFails(b) \/ FirstWrite(b) \/ FirstCommitFails(b)
           \/ ProcessEnds
           \/ /\ pk_to_ids' = pk_to_ids
              /\ \A c \in Batch : firstStep'[c] \in {"write", "release"} => firstStep'[c] = firstStep[c]
<1> USE DEF StagesOK, Pipeline!At, Pipeline!Moved, Pipeline!handover, Pipeline!reporting
<1> DEFINE Same == /\ pk_to_ids' = pk_to_ids
                   /\ \A c \in Batch : firstStep'[c] \in {"write", "release"} => firstStep'[c] = firstStep[c]
<1>1. ReadRow => Same
  BY DEF ReadRow, Pipeline!FillBatch, pipelineVars
<1>2. ASSUME NEW b \in Batch, FirstWriteFails(b) \/ FirstRelease(b) \/ CommitEdges(b) PROVE Same
  BY <1>2 DEF FirstWriteFails, FirstRelease, CommitEdges, Pipeline!FirstRelease, Pipeline!RealWrite,
       pipelineVars
<1>3. ASSUME PipelineStep, UNCHANGED Data PROVE Same
  <2>1. CASE Pipeline!AcquireFirstStep \/ Pipeline!CountFirstStep \/ Pipeline!EnqueueFirstStep
    BY <1>3, <2>1 DEF Data, Pipeline!AcquireFirstStep, Pipeline!CountFirstStep, Pipeline!EnqueueFirstStep
  <2>2. CASE UNCHANGED <<next, firstStep>>
    BY <1>3, <2>2 DEF Data
  <2>3. ASSUME NEW b \in Batch,
               \/ Pipeline!FirstStart(b)
               \/ Pipeline!FirstAcquire(b) \/ Pipeline!FirstAdd(b) \/ Pipeline!FirstEnqueue(b)
               \/ Pipeline!FirstDone(b)
        PROVE  Same
    BY <1>3, <2>3 DEF Data, Pipeline!FirstStart, Pipeline!FirstAcquire, Pipeline!FirstAdd,
         Pipeline!FirstEnqueue, Pipeline!FirstDone
  <2> QED
    BY <1>3, <2>1, <2>2, <2>3 DEF PipelineStep
<1>4. UNCHANGED <<next, firstStep>> /\ UNCHANGED Data => Same
  BY DEF Data
<1> HIDE DEF Same
<1>5. \/ \E b \in Batch : FirstResolve(b) \/ FirstResolveFails(b) \/ FirstWrite(b) \/ FirstCommitFails(b)
      \/ ProcessEnds
      \/ Same
  BY <1>1, <1>2, <1>3, <1>4, StepCases
<1> QED
  BY <1>5 DEF Same

\* A batch past write_vertices has an id for each of its keys.
LEMMA StepKeepsResolved ==
    ASSUME Inv, [Next]_vars
    PROVE  ResolvedOK'
<1>1. /\ firstStep \in [Batch -> Pipeline!FirstPC] /\ DOMAIN pk_to_ids = Batch
      /\ IsStore(db) /\ append_recno \in Nat /\ StagesOK
  BY DEF Inv, StagesOK, ResolvedOK, StoresOK, VerticesOK
<1>2. ASSUME NEW b \in Batch, FirstResolve(b) \/ FirstResolveFails(b) PROVE ResolvedOK'
  <2>1. firstStep' = [firstStep EXCEPT ![b] = "write"]
    BY <1>2 DEF FirstResolve, FirstResolveFails, Pipeline!FirstResolve, Pipeline!Moved
  <2>2. /\ DOMAIN pk_to_ids' = Batch /\ DOMAIN pk_to_ids'[b] \subseteq Pks[b]
        /\ \A c \in Batch \ {b} : pk_to_ids'[c] = pk_to_ids[c]
    <3>1. DOMAIN VertexIds(db.vertex, Pks[b]) \subseteq Pks[b]
      BY DEF VertexIds
    <3>2. CASE FirstResolve(b)
      BY <1>1, <3>1, <3>2 DEF FirstResolve
    <3>3. CASE FirstResolveFails(b)
      <4> DEFINE ids == VertexIds(db.vertex, Pks[b])
      <4>1. PICK found \in SUBSET DOMAIN ids :
               pk_to_ids' = [pk_to_ids EXCEPT ![b] = [pk \in found |-> ids[pk]]]
        BY <3>3 DEF FirstResolveFails
      <4> QED
        BY <1>1, <3>1, <4>1
    <3> QED
      BY <1>2, <3>2, <3>3
  <2> QED
    BY <1>1, <2>1, <2>2 DEF Inv, ResolvedOK
<1>3. ASSUME NEW b \in Batch, FirstWrite(b) \/ FirstCommitFails(b) PROVE ResolvedOK'
  <2>1. firstStep' = [firstStep EXCEPT ![b] = "release"]
    BY <1>3 DEF FirstWrite, FirstCommitFails, Pipeline!FirstWrite, Pipeline!Moved
  <2>2. /\ DOMAIN pk_to_ids' = Batch /\ Pks[b] \subseteq DOMAIN pk_to_ids'[b]
        /\ \A c \in Batch \ {b} : pk_to_ids'[c] = pk_to_ids[c]
    <3>1. CASE FirstWrite(b)
      BY <1>1, <3>1, VerticesAppended DEF Unresolved
    <3>2. CASE FirstCommitFails(b)
      BY <1>1, <3>2 DEF FirstCommitFails, WithEntries, Unresolved
    <3> QED
      BY <1>3, <3>1, <3>2
  <2> QED
    BY <1>1, <2>1, <2>2 DEF Inv, ResolvedOK
<1>4. CASE ProcessEnds
  BY <1>4 DEF ProcessEnds, Pipeline!EnterAgain, Batch, ResolvedOK
<1>5. ASSUME pk_to_ids' = pk_to_ids,
             \A c \in Batch : firstStep'[c] \in {"write", "release"} => firstStep'[c] = firstStep[c]
      PROVE  ResolvedOK'
  BY <1>1, <1>5 DEF Inv, ResolvedOK
<1> QED
  BY <1>1, <1>2, <1>3, <1>4, <1>5, OtherStepsResolveNothing

\* The edges of a batch are in pairs, since FirstRelease builds them so.
LEMMA StepKeepsEdges ==
    ASSUME Inv, [Next]_vars
    PROVE  EdgesOK'
<1>1. ASSUME NEW b \in Batch, FirstRelease(b) PROVE EdgesOK'
  <2>1. edges' = [edges EXCEPT ![b] = EdgesOf(b)]
    BY <1>1 DEF FirstRelease
  <2>2. edges'[b] = EdgesOf(b) /\ DOMAIN edges' = Batch /\ \A c \in Batch \ {b} : edges'[c] = edges[c]
    BY <2>1 DEF Inv, EdgesOK
  <2>3. /\ DOMAIN edges'[b] = 1 .. 2 * Len(RowsOf(b))
        /\ Len(edges'[b]) = 2 * Len(RowsOf(b))
        /\ \A i \in 1 .. Len(RowsOf(b)) :
              MirroredPair(edges'[b][2 * i - 1].key, edges'[b][2 * i].key)
    BY <2>2, EdgesOfPairs
  <2> QED
    BY <2>2, <2>3 DEF Inv, EdgesOK
<1>2. CASE ProcessEnds
  BY <1>2 DEF ProcessEnds, EdgesOK
<1>3. ASSUME edges' = edges PROVE EdgesOK'
  BY <1>3 DEF Inv, EdgesOK
<1>4. ReadRow => edges' = edges
  BY DEF ReadRow
<1>5. ASSUME NEW b \in Batch,
             \/ FirstResolve(b) \/ FirstResolveFails(b)
             \/ FirstWrite(b) \/ FirstWriteFails(b) \/ FirstCommitFails(b)
             \/ CommitEdges(b)
      PROVE  edges' = edges
  BY <1>5 DEF FirstResolve, FirstResolveFails, FirstWrite, FirstWriteFails, FirstCommitFails,
       CommitEdges
<1>6. UNCHANGED Data => edges' = edges
  BY DEF Data
<1> QED
  BY <1>1, <1>2, <1>3, <1>4, <1>5, <1>6, StepCases

\* An import into an empty directory begins in the invariant ...
LEMMA InitInv == Init => Inv
<1> SUFFICES ASSUME Init PROVE Inv
  OBVIOUS
<1> USE DEF Init, ImportInit
<1>1. AtTheBeginning
  BY DEF AtTheBeginning, Pipeline!Init, Batch
<1>2. DOMAIN EmptyTable = {} /\ TableOK(EmptyTable)
  BY DEF EmptyTable, TableOK, LastRecno
<1>3. IsStore(EmptyStore)
  BY <1>2 DEF EmptyStore, IsStore, KeysOK, BothDirections
<1>4. StoresOK
  BY <1>3, SameTablesGrow DEF StoresOK
<1>5. VerticesOK /\ CachesOK
  BY <1>2 DEF VerticesOK, CachesOK, CacheOK, EmptyStore
<1>6. ResolvedOK /\ EdgesOK
  BY <1>1 DEF ResolvedOK, EdgesOK, AtTheBeginning
<1> QED
  BY <1>1, <1>4, <1>5, <1>6, BeginsOK DEF Inv

\* ... and no step, failing or not, leaves it.
THEOREM Invariance == Spec => []Inv
<1>1. Inv /\ [Next]_vars => Inv'
  <2> SUFFICES ASSUME Inv, [Next]_vars PROVE Inv'
    OBVIOUS
  <2>1. StagesOK' /\ LinesOK'
    BY StepKeepsStages, StepKeepsLines DEF Inv
  <2> QED
    BY <2>1, StepKeepsStores, StepKeepsCaches, StepKeepsResolved, StepKeepsEdges DEF Inv
<1> QED
  BY <1>1, InitInv, PTL DEF Spec

\* The two keys of a row are committed together or not at all, in the store and
\* in what a restart finds, whichever calls fail.
THEOREM EdgesAreMirroredTheorem == Spec => []EdgesAreMirrored
<1>1. Inv => EdgesAreMirrored
  BY DEF Inv, StoresOK, IsStore, KeysOK, EdgesAreMirrored
<1> QED
  BY <1>1, Invariance, PTL

\* What a checkpoint has saved under an id stays under it in every later
\* checkpoint, and a name keeps the id the readers find, across crashes and
\* imports of the same file again.
THEOREM SavedIdsAreStableTheorem == Spec => SavedIdsAreStable
<1> DEFINE Stable ==
       /\ \A id \in DOMAIN durable.vertex :
             id \in DOMAIN durable'.vertex /\ durable'.vertex[id] = durable.vertex[id]
       /\ \A id \in DOMAIN durable.label_type :
             LET name == durable.label_type[id]
             IN  IdOfName(durable'.label_type, name) = IdOfName(durable.label_type, name)
<1>1. ASSUME Inv, [Next]_vars PROVE [Stable]_durable
  <2> SUFFICES ASSUME durable' # durable PROVE Stable
    OBVIOUS
  <2>1. Grows(durable', durable)
    <3>1. CASE ProcessEnds
      BY <3>1 DEF ProcessEnds
    <3>2. CASE UNCHANGED Saved
      BY <3>2 DEF Saved
    <3>3. CASE CheckpointStep
      BY <1>1, <3>3 DEF CheckpointStep, Inv, StoresOK
    <3> QED
      BY <1>1, <3>1, <3>2, <3>3, StepCases
  <2>2. ASSUME NEW id \in DOMAIN durable.label_type
        PROVE  IdOfName(durable'.label_type, durable.label_type[id])
                  = IdOfName(durable.label_type, durable.label_type[id])
    <3>1. IdsOfName(durable.label_type, durable.label_type[id]) # {}
      BY DEF IdsOfName
    <3> QED
      BY <2>1, <3>1, LaterRowsKeepIds DEF Grows
  <2> QED
    BY <2>1, <2>2 DEF Grows, Extends
<1> QED
  BY <1>1, Invariance, PTL DEF Spec, SavedIdsAreStable

-----------------------------------------------------------------------------
(* One vertex per key. *)

\* Vertices are added by write_vertices alone.
LEMMA VerticesStay ==
    ASSUME Inv, [Next]_vars, ~ ProcessEnds, \A b \in Batch : ~ FirstWrite(b)
    PROVE  db'.vertex = db.vertex
<1>1. IsStore(db)
  BY DEF Inv, StoresOK
<1>2. ReadRow => db'.vertex = db.vertex
  BY <1>1 DEF ReadRow, IsStore
<1>3. ASSUME NEW b \in Batch, CommitEdges(b) PROVE db'.vertex = db.vertex
  BY <1>1, <1>3 DEF CommitEdges, IsStore
<1>4. ASSUME NEW b \in Batch,
             FirstResolve(b) \/ FirstResolveFails(b) \/ FirstWriteFails(b) \/ FirstCommitFails(b) \/ FirstRelease(b)
      PROVE  db'.vertex = db.vertex
  BY <1>4 DEF FirstResolve, FirstResolveFails, FirstWriteFails, FirstCommitFails, FirstRelease
<1>5. UNCHANGED Data => db'.vertex = db.vertex
  BY DEF Data
<1> QED
  BY <1>2, <1>3, <1>4, <1>5, StepCases

\* What holds of the store and of the checkpoints before a step holds of them
\* after it, if it holds of the store after it.
LEMMA StepKeepsOnePerPk ==
    ASSUME Inv, UniqueInv, [Next]_vars, ~ ProcessEnds => OnePerPk(db')
    PROVE  OnePerPk(db') /\ OnePerPk(durable') /\ (snapshot' # NoSnapshot => OnePerPk(snapshot'))
<1>1. OnePerPk(db) /\ OnePerPk(durable) /\ (snapshot # NoSnapshot => OnePerPk(snapshot))
  BY DEF UniqueInv
<1>2. CASE ProcessEnds
  BY <1>1, <1>2 DEF ProcessEnds
<1>3. CASE ~ ProcessEnds /\ UNCHANGED Saved
  BY <1>1, <1>3 DEF Saved
<1>4. CASE ~ ProcessEnds /\ CheckpointStep
  BY <1>1, <1>4 DEF CheckpointStep
<1> QED
  BY <1>2, <1>3, <1>4, StepCases

\* write_vertices appends only keys that have no vertex, because the worker has
\* looked them up and no other batch is between its look-up and its append.
LEMMA StepKeepsUnique ==
    ASSUME "lookup" \notin Faults, Inv, UniqueInv, [Next]_vars
    PROVE  UniqueInv'
<1>1. /\ firstStep \in [Batch -> Pipeline!FirstPC] /\ DOMAIN pk_to_ids = Batch
      /\ IsStore(db) /\ append_recno \in Nat /\ StagesOK
      /\ DOMAIN db.vertex \subseteq 1 .. append_recno
      /\ FoundOK /\ OnePerPk(db)
  BY DEF Inv, StagesOK, ResolvedOK, StoresOK, VerticesOK, UniqueInv
<1>2. ASSUME NEW b \in Batch, FirstWrite(b) PROVE FoundOK' /\ OnePerPk(db')
  <2>1. firstStep[b] = "write" /\ firstStep' = [firstStep EXCEPT ![b] = "release"]
    BY <1>2 DEF FirstWrite, Pipeline!FirstWrite, Pipeline!At, Pipeline!Moved
  <2>2. \A c \in Batch : firstStep'[c] # "write"
    BY <1>1, <2>1 DEF StagesOK, Pipeline!FirstRunning
  <2> DEFINE ids == {AppendedId(b, pk) : pk \in Unresolved(b)}
  <2>3. /\ DOMAIN db'.vertex = DOMAIN db.vertex \cup ids
        /\ \A pk \in Unresolved(b) : db'.vertex[AppendedId(b, pk)].vertex_pk = pk
        /\ \A id \in DOMAIN db.vertex \ ids : db'.vertex[id] = db.vertex[id]
    <3>1. /\ DOMAIN db'.vertex = DOMAIN db.vertex \cup ids
          /\ \A pk \in Unresolved(b) :
                db'.vertex[AppendedId(b, pk)] = [label_type_id |-> LabelIdOf(b, pk), vertex_pk |-> pk]
          /\ \A id \in DOMAIN db.vertex \ ids : db'.vertex[id] = db.vertex[id]
      BY <1>1, <1>2, VerticesAppended
    <3>2. ASSUME NEW pk \in Unresolved(b) PROVE db'.vertex[AppendedId(b, pk)].vertex_pk = pk
      <4>1. db'.vertex[AppendedId(b, pk)] = [label_type_id |-> LabelIdOf(b, pk), vertex_pk |-> pk]
        BY <3>1
      <4> QED
        BY <4>1
    <3> QED
      BY <3>1, <3>2
  <2>4. \A pk \in Unresolved(b) : IdsOfPk(db.vertex, pk) = {}
    BY <1>1, <2>1 DEF FoundOK, Unresolved
  <2>5. \A id \in ids : id \notin DOMAIN db.vertex
    BY <1>1, AppendedIds
  <2>6. ASSUME NEW i \in DOMAIN db'.vertex, NEW j \in DOMAIN db'.vertex,
               db'.vertex[i].vertex_pk = db'.vertex[j].vertex_pk
        PROVE  i = j
    <3>1. CASE i \notin ids /\ j \notin ids
      BY <1>1, <2>3, <2>6, <3>1 DEF OnePerPk
    <3>2. CASE i \in ids /\ j \in ids
      BY <2>3, <2>6, <3>2
    <3>3. ASSUME NEW k \in ids, NEW l \in DOMAIN db'.vertex \ ids PROVE db'.vertex[k].vertex_pk # db'.vertex[l].vertex_pk
      <4>1. PICK pk \in Unresolved(b) : k = AppendedId(b, pk)
        OBVIOUS
      <4>2. db'.vertex[k].vertex_pk = pk /\ l \in DOMAIN db.vertex /\ db'.vertex[l] = db.vertex[l]
        BY <2>3, <4>1
      <4> QED
        BY <2>4, <4>2 DEF IdsOfPk
    <3> HIDE DEF ids
    <3> QED
      BY <2>6, <3>1, <3>2, <3>3
  <2> QED
    BY <2>2, <2>6 DEF FoundOK, OnePerPk
<1>3. ASSUME ~ ProcessEnds, \A b \in Batch : ~ FirstWrite(b)
      PROVE  FoundOK' /\ OnePerPk(db')
  <2>1. db'.vertex = db.vertex
    BY <1>3, VerticesStay
  <2>2. ASSUME NEW b \in Batch, FirstResolve(b) PROVE FoundOK'
    <3>1. firstStep' = [firstStep EXCEPT ![b] = "write"]
          /\ pk_to_ids' = [pk_to_ids EXCEPT ![b] = VertexIds(db.vertex, Pks[b])]
      BY <2>2 DEF FirstResolve, Pipeline!FirstResolve, Pipeline!Moved
    <3>2. \A pk \in Pks[b] : IdsOfPk(db.vertex, pk) # {} => pk \in DOMAIN pk_to_ids'[b]
      BY <1>1, <3>1 DEF VertexIds
    <3> QED
      BY <1>1, <2>1, <3>1, <3>2 DEF FoundOK
  <2>3. ASSUME NEW b \in Batch, FirstCommitFails(b) PROVE FoundOK'
    <3>1. firstStep' = [firstStep EXCEPT ![b] = "release"]
          /\ \A c \in Batch \ {b} : pk_to_ids'[c] = pk_to_ids[c]
      BY <1>1, <2>3 DEF FirstCommitFails, Pipeline!FirstWrite, Pipeline!Moved
    <3> QED
      BY <1>1, <2>1, <3>1 DEF FoundOK
  <2>4. ASSUME NEW b \in Batch, FirstResolveFails(b) PROVE FALSE
    BY <2>4 DEF FirstResolveFails, Fault
  <2>5. ASSUME pk_to_ids' = pk_to_ids,
               \A c \in Batch : firstStep'[c] \in {"write", "release"} => firstStep'[c] = firstStep[c]
        PROVE  FoundOK'
    BY <1>1, <2>1, <2>5 DEF FoundOK
  <2>6. OnePerPk(db')
    BY <1>1, <2>1 DEF OnePerPk
  <2> QED
    BY <1>1, <1>3, <2>2, <2>3, <2>4, <2>5, <2>6, OtherStepsResolveNothing
<1>4. ProcessEnds => FoundOK'
  BY DEF ProcessEnds, Pipeline!EnterAgain, Batch, FoundOK
<1>5. ~ ProcessEnds => OnePerPk(db')
  BY <1>2, <1>3
<1>6. FoundOK'
  BY <1>2, <1>3, <1>4
<1>7. OnePerPk(db') /\ OnePerPk(durable') /\ (snapshot' # NoSnapshot => OnePerPk(snapshot'))
  BY <1>5, StepKeepsOnePerPk
<1>8. NoSnapshot' = NoSnapshot
  BY DEF NoSnapshot
<1> QED
  BY <1>6, <1>7, <1>8 DEF UniqueInv, OnePerPk

\* A primary key has one vertex, in the store and in what a crash leaves,
\* however often write_vertices is retried and the file is imported, as long as
\* get_vertex_ids fails for no key.
THEOREM OneVertexPerPkTheorem ==
    ASSUME "lookup" \notin Faults
    PROVE  Spec => []OneVertexPerPk
<1>1. Init => UniqueInv
  <2> SUFFICES ASSUME Init PROVE UniqueInv
    OBVIOUS
  <2>1. firstStep = [b \in Batch |-> "unread"] /\ db = EmptyStore /\ durable = EmptyStore
        /\ snapshot = NoSnapshot
    BY DEF Init, ImportInit, Pipeline!Init, Batch
  <2> QED
    BY <2>1 DEF UniqueInv, FoundOK, OnePerPk, EmptyStore, EmptyTable
<1>2. Inv /\ UniqueInv /\ [Next]_vars => UniqueInv'
  BY StepKeepsUnique
<1>3. UniqueInv => OneVertexPerPk
  BY DEF UniqueInv, OnePerPk, OneVertexPerPk
<1> QED
  BY <1>1, <1>2, <1>3, Invariance, PTL DEF Spec


-----------------------------------------------------------------------------
(* The edges are the rows' edges: needs that no commit fails. *)

IdsOK ==
    \A b \in Batch : \A pk \in DOMAIN pk_to_ids[b] :
       pk_to_ids[b][pk] \in IdsOfPk(db.vertex, pk)

\* Two edges of a batch, as they will be stored, are those of a row.
IsPairOf(s, out, in, row) ==
    /\ out.key.start_vertex_id \in IdsOfPk(s.vertex, row.start_pk)
    /\ out.key.end_vertex_id \in IdsOfPk(s.vertex, row.end_pk)
    /\ out.key.relation_type_id \in IdsOfName(s.relation_type, row.relation_type)
    /\ out.end_label_type_id \in IdsOfName(s.label_type, row.end_label_type)
    /\ in.end_label_type_id \in IdsOfName(s.label_type, row.start_label_type)

PairsOK ==
    \A b \in Batch : edges[b] # <<>> =>
       \A i \in 1 .. Len(RowsOf(b)) :
          IsPairOf(db, edges[b][2 * i - 1], edges[b][2 * i], RowsOf(b)[i])

\* An edge of the store is that of a row.
EdgeIsRow(s, key, row) ==
    /\ key.start_vertex_id \in IdsOfPk(s.vertex, row.start_pk)
    /\ key.end_vertex_id \in IdsOfPk(s.vertex, row.end_pk)
    /\ key.relation_type_id \in IdsOfName(s.relation_type, row.relation_type)
    /\ s.edge[key] \in IdsOfName(s.label_type, row.end_label_type)
    /\ s.edge[Mirror(key)] \in IdsOfName(s.label_type, row.start_label_type)

EdgesAreRows(s) ==
    \A key \in DOMAIN s.edge : key.direction = "OUTGOING" =>
       \E row \in FileRows : EdgeIsRow(s, key, row)

SoundInv ==
    /\ IdsOK /\ PairsOK
    /\ EdgesAreRows(db) /\ EdgesAreRows(durable)
    /\ (snapshot # NoSnapshot => EdgesAreRows(snapshot))

\* Rows added to a store leave its edges the edges of the same rows.
LEMMA PairsOfLater ==
    ASSUME NEW s, NEW t, Grows(t, s), NEW out, NEW in, NEW row, IsPairOf(s, out, in, row)
    PROVE  IsPairOf(t, out, in, row)
  BY IdsStayInLater DEF Grows, IsPairOf

\* ... in the edge table too.
LEMMA EdgesOfLater ==
    ASSUME NEW s, NEW t, Grows(t, s), t.edge = s.edge, EdgesAreRows(s)
    PROVE  EdgesAreRows(t)
<1> SUFFICES ASSUME NEW key \in DOMAIN s.edge, key.direction = "OUTGOING"
             PROVE  \E row \in FileRows : EdgeIsRow(t, key, row)
  BY DEF EdgesAreRows
<1>1. PICK row \in FileRows : EdgeIsRow(s, key, row)
  BY DEF EdgesAreRows
<1>2. EdgeIsRow(t, key, row)
  BY <1>1, IdsStayInLater DEF Grows, EdgeIsRow
<1> QED
  BY <1>2

\* Both ends of a row are keys of its batch.
LEMMA EndsAreKeys ==
    ASSUME NEW b \in Batch, NEW i \in 1 .. Len(RowsOf(b))
    PROVE  RowsOf(b)[i].start_pk \in Pks[b] /\ RowsOf(b)[i].end_pk \in Pks[b]
<1> DEFINE n == Len(RowsOf(b))
<1>1. n \in Nat
  BY BatchRows
<1>2. /\ 2 * i - 1 \in 1 .. 2 * n /\ (2 * i - 1 + 1) \div 2 = i /\ (2 * i - 1) % 2 = 1
      /\ 2 * i \in 1 .. 2 * n /\ (2 * i + 1) \div 2 = i /\ (2 * i) % 2 = 0
  BY <1>1
<1>3. /\ Mentions[b][2 * i - 1] = [pk |-> RowsOf(b)[i].start_pk, label |-> RowsOf(b)[i].start_label_type]
      /\ Mentions[b][2 * i] = [pk |-> RowsOf(b)[i].end_pk, label |-> RowsOf(b)[i].end_label_type]
  BY <1>2 DEF Mentions
<1>4. Mentions[b][2 * i - 1].pk = RowsOf(b)[i].start_pk /\ Mentions[b][2 * i].pk = RowsOf(b)[i].end_pk
  BY <1>3
<1>5. 2 * i - 1 \in DOMAIN Mentions[b] /\ 2 * i \in DOMAIN Mentions[b]
  BY <1>2, FirstMentions
<1> QED
  BY <1>4, <1>5 DEF Pks

\* The edges that the first step builds are those of its rows.
LEMMA PairsBuilt ==
    ASSUME Inv, SoundInv, NEW b \in Batch, FirstRelease(b), NEW i \in 1 .. Len(RowsOf(b))
    PROVE  IsPairOf(db, EdgesOf(b)[2 * i - 1], EdgesOf(b)[2 * i], RowsOf(b)[i])
<1> DEFINE row == RowsOf(b)[i]
           start == pk_to_ids[b][row.start_pk]
           end == pk_to_ids[b][row.end_pk]
           relation == relation_type_cache[row.relation_type]
<1>1. firstStep[b] = "release"
  BY DEF FirstRelease, Pipeline!FirstRelease, Pipeline!At
<1>2. start \in IdsOfPk(db.vertex, row.start_pk) /\ end \in IdsOfPk(db.vertex, row.end_pk)
  BY <1>1, EndsAreKeys DEF Inv, ResolvedOK, SoundInv, IdsOK
<1>3. PICK j \in 1 .. LastLine(b) : row = Rows[j]
  BY BatchRows
<1>4. LastLine(b) <= line /\ LastLine(b) \in Nat /\ line \in Nat
  BY <1>1, BatchLines DEF Inv, LinesOK
<1>5. j \in 1 .. line
  BY <1>4
<1>6. /\ row.start_label_type \in DOMAIN label_type_cache
      /\ row.end_label_type \in DOMAIN label_type_cache
      /\ row.relation_type \in DOMAIN relation_type_cache
  BY <1>3, <1>5 DEF Inv, CachesOK
<1>7. /\ label_type_cache[row.start_label_type] \in IdsOfName(db.label_type, row.start_label_type)
      /\ label_type_cache[row.end_label_type] \in IdsOfName(db.label_type, row.end_label_type)
      /\ relation \in IdsOfName(db.relation_type, row.relation_type)
  BY <1>6 DEF Inv, CachesOK, CacheOK
<1>8. /\ EdgesOf(b)[2 * i - 1] = [key |-> EdgeKey(start, "OUTGOING", relation, end),
                                  end_label_type_id |-> label_type_cache[row.end_label_type]]
      /\ EdgesOf(b)[2 * i] = [key |-> EdgeKey(end, "INCOMING", relation, start),
                              end_label_type_id |-> label_type_cache[row.start_label_type]]
  BY EdgesOfPairs
<1> HIDE DEF row, start, end, relation
<1> QED
  BY <1>2, <1>7, <1>8 DEF IsPairOf, EdgeKey, row

\* Where a key is in a list of edges.
Places(list, key) == {i \in DOMAIN list : list[i].key = key}

\* In a list of mirrored pairs the last place of an outgoing key is just before
\* the last place of its mirror image: they are one pair.
LEMMA LastPair ==
    ASSUME NEW list, NEW n \in Nat, DOMAIN list = 1 .. 2 * n,
           \A i \in 1 .. n : MirroredPair(list[2 * i - 1].key, list[2 * i].key),
           NEW j \in 1 .. 2 * n, list[j].key.direction = "OUTGOING"
    PROVE  \E i \in 1 .. n :
              /\ list[2 * i - 1].key = list[j].key
              /\ Max(Places(list, list[j].key)) = 2 * i - 1
              /\ Max(Places(list, Mirror(list[j].key))) = 2 * i
<1> DEFINE key == list[j].key
           P == Places(list, key)
           Q == Places(list, Mirror(key))
           last == Max(P)
           i == (last + 1) \div 2
<1>1. \A k \in 1 .. 2 * n : IsKey(list[k].key) /\ (list[k].key.direction = "OUTGOING" <=> k % 2 = 1)
  BY KeysOfPairs
<1>2. last \in P /\ \A k \in P : k <= last
  <2>1. P \in SUBSET Nat /\ j \in P /\ 2 * n \in Nat
    BY DEF Places
  <2>2. \A k \in P : k <= 2 * n
    BY DEF Places
  <2> HIDE DEF P
  <2> QED
    BY <2>1, <2>2, MaxExists
<1>3. last \in 1 .. 2 * n /\ list[last].key = key
  BY <1>2 DEF Places
<1> HIDE DEF last
<1>4. last % 2 = 1
  BY <1>1, <1>3
<1>5. i \in 1 .. n /\ last = 2 * i - 1
  BY <1>3, <1>4
<1> HIDE DEF i
<1>6. list[2 * i].key = Mirror(key)
  BY <1>3, <1>5 DEF MirroredPair
<1>7. 2 * i \in Q /\ 2 * i \in 1 .. 2 * n
  BY <1>5, <1>6 DEF Places
<1>8. ASSUME NEW k \in Q PROVE k <= 2 * i
  <2>1. k \in 1 .. 2 * n /\ list[k].key = Mirror(key)
    BY DEF Places
  <2>2. IsKey(key) /\ Mirror(key).direction = "INCOMING" /\ Mirror(Mirror(key)) = key
    BY <1>1, MirrorOfKey
  <2>3. k % 2 # 1
    BY <1>1, <2>1, <2>2
  <2> DEFINE h == k \div 2
  <2>4. h \in 1 .. n /\ k = 2 * h
    BY <2>1, <2>3
  <2> HIDE DEF h
  <2>5. MirroredPair(list[2 * h - 1].key, list[2 * h].key)
    BY <2>4
  <2>6. 2 * h - 1 \in 1 .. 2 * n
    BY <2>4
  <2>7. IsKey(list[2 * h - 1].key)
    BY <1>1, <2>6
  <2>8. list[2 * h - 1].key = key
    <3>1. Mirror(list[2 * h - 1].key) = Mirror(key)
      BY <2>1, <2>4, <2>5 DEF MirroredPair
    <3> QED
      BY <2>2, <2>7, <3>1, MirrorOfKey
  <2>9. 2 * h - 1 <= last
    BY <1>2, <2>6, <2>8 DEF Places
  <2> QED
    BY <1>5, <2>4, <2>9
<1>9. Max(Q) = 2 * i
  <2>1. Q \in SUBSET Nat /\ 2 * i \in Nat
    BY <1>7 DEF Places
  <2>2. Q \in SUBSET Nat /\ Q # {} /\ 2 * i \in Q /\ \A k \in Q : k <= 2 * i
    BY <1>7, <1>8, <2>1
  <2> HIDE DEF Q
  <2>3. Max(Q) \in Q /\ \A k \in Q : k <= Max(Q)
    BY <2>1, <2>2, MaxExists
  <2>4. Max(Q) \in Nat /\ Max(Q) <= 2 * i /\ 2 * i <= Max(Q)
    BY <2>2, <2>3
  <2>5. Max(Q) = 2 * i
    BY <2>1, <2>4
  <2> QED
    BY <2>5
<1>10. list[2 * i - 1].key = key /\ Max(P) = 2 * i - 1
  BY <1>3, <1>5 DEF last
<1> QED
  BY <1>5, <1>9, <1>10

\* The edges that write_edges commits are those of the batch's rows, and those
\* that were there stay those of rows.
LEMMA CommittedEdges ==
    ASSUME Inv, SoundInv, NEW b \in Batch, CommitEdges(b)
    PROVE  /\ EdgesAreRows(db')
           /\ DOMAIN db'.edge = DOMAIN db.edge \cup Written(b)
           /\ \A key \in Written(b) : key.direction = "OUTGOING" =>
                 \E i \in 1 .. Len(RowsOf(b)) : EdgeIsRow(db', key, RowsOf(b)[i])
<1> DEFINE W == Written(b)
           list == edges[b]
           last(key) == Max(Places(list, key))
           new == [key \in W |-> edges[b][last(key)].end_label_type_id]
           n == Len(RowsOf(b))
<1>1. db' = [db EXCEPT !.edge = WithEntries(@, new)]
  BY DEF CommitEdges, Places
<1>2. IsStore(db) /\ EdgesAreRows(db)
  BY DEF Inv, StoresOK, SoundInv
<1>3. db' = [label_type |-> db.label_type, relation_type |-> db.relation_type,
             vertex |-> db.vertex, edge |-> WithEntries(db.edge, new)]
  BY <1>1, <1>2 DEF IsStore
<1>4. db'.label_type = db.label_type /\ db'.relation_type = db.relation_type /\ db'.vertex = db.vertex
      /\ db'.edge = WithEntries(db.edge, new)
  BY <1>3
<1>5. /\ DOMAIN db'.edge = DOMAIN db.edge \cup W
      /\ \A key \in W : db'.edge[key] = edges[b][last(key)].end_label_type_id
      /\ \A key \in DOMAIN db.edge \ W : db'.edge[key] = db.edge[key]
  BY <1>4 DEF WithEntries
<1>6. n \in Nat
  BY BatchRows
<1>7. W # {} => /\ DOMAIN edges[b] = 1 .. 2 * n
                /\ \A i \in 1 .. n : MirroredPair(edges[b][2 * i - 1].key, edges[b][2 * i].key)
                /\ W = {edges[b][j].key : j \in 1 .. 2 * n}
                /\ edges[b] # <<>>
  <2>1. txn[b].written = Len(edges[b])
    BY DEF CommitEdges
  <2>2. CASE edges[b] = <<>>
    BY <2>1, <2>2 DEF Written
  <2>3. CASE edges[b] # <<>>
    BY <2>1, <2>3 DEF Inv, EdgesOK, Written
  <2> QED
    BY <2>2, <2>3
<1> HIDE DEF new, n
<1>8. ASSUME NEW key \in W, key.direction = "OUTGOING"
      PROVE  \E i \in 1 .. n : EdgeIsRow(db', key, RowsOf(b)[i])
  <2>1. PICK j \in 1 .. 2 * n : key = list[j].key
    BY <1>7
  <2>2. PICK i \in 1 .. n : /\ list[2 * i - 1].key = key
                            /\ last(key) = 2 * i - 1 /\ last(Mirror(key)) = 2 * i
    <3>1. /\ DOMAIN list = 1 .. 2 * n /\ list[j].key.direction = "OUTGOING"
          /\ \A i \in 1 .. n : MirroredPair(list[2 * i - 1].key, list[2 * i].key)
      BY <1>7, <1>8, <2>1
    <3>2. \E i \in 1 .. n : /\ list[2 * i - 1].key = list[j].key
                            /\ last(list[j].key) = 2 * i - 1 /\ last(Mirror(list[j].key)) = 2 * i
      <4> HIDE DEF list
      <4> QED
        BY <1>6, <3>1, LastPair
    <3> HIDE DEF last
    <3> QED
      BY <2>1, <3>2
  <2>3. Mirror(key) \in W
    <3>1. 2 * i \in 1 .. 2 * n
      BY <1>6
    <3>2. list[2 * i].key = Mirror(key)
      BY <1>7, <2>2 DEF MirroredPair
    <3> QED
      BY <1>7, <3>1, <3>2
  <2>4. db'.edge[key] = list[2 * i - 1].end_label_type_id
        /\ db'.edge[Mirror(key)] = list[2 * i].end_label_type_id
    BY <1>5, <2>2, <2>3
  <2>5. IsPairOf(db, list[2 * i - 1], list[2 * i], RowsOf(b)[i])
    BY <1>7 DEF SoundInv, PairsOK, n
  <2>6. EdgeIsRow(db', key, RowsOf(b)[i])
    <3> HIDE DEF W, last
    <3> QED
      BY <1>4, <2>2, <2>4, <2>5 DEF IsPairOf, EdgeIsRow
  <2> QED
    BY <2>6
<1>9. ASSUME NEW key \in DOMAIN db.edge \ W, key.direction = "OUTGOING"
      PROVE  \E row \in FileRows : EdgeIsRow(db', key, row)
  <2>1. IsKey(key) /\ Mirror(key) \in DOMAIN db.edge
    BY <1>2 DEF IsStore, KeysOK, BothDirections
  <2>2. Mirror(key) \notin W
    <3> SUFFICES ASSUME Mirror(key) \in W PROVE FALSE
      OBVIOUS
    <3>1. PICK j \in 1 .. 2 * n : Mirror(key) = edges[b][j].key
      BY <1>7
    <3>2. \E k \in 1 .. 2 * n : edges[b][k].key = Mirror(edges[b][j].key)
      BY <1>6, <1>7, KeysOfPairs
    <3>3. \E k \in 1 .. 2 * n : edges[b][k].key = key
      BY <2>1, <3>1, <3>2, MirrorOfKey
    <3> QED
      BY <1>7, <3>3
  <2>3. db'.edge[key] = db.edge[key] /\ db'.edge[Mirror(key)] = db.edge[Mirror(key)]
    BY <1>5, <2>1, <2>2
  <2>4. PICK row \in FileRows : EdgeIsRow(db, key, row)
    BY <1>2, <1>9 DEF EdgesAreRows
  <2>5. EdgeIsRow(db', key, row)
    <3> HIDE DEF W, last
    <3> QED
      BY <1>4, <2>3, <2>4 DEF EdgeIsRow
  <2> QED
    BY <2>5
<1>10. \A i \in 1 .. n : RowsOf(b)[i] \in FileRows
  BY BatchRows DEF n
<1> QED
  BY <1>5, <1>8, <1>9, <1>10 DEF EdgesAreRows, n

\* The edge tables change when edges are committed, and only then.
LEMMA EdgesStay ==
    ASSUME Inv, [Next]_vars, ~ ProcessEnds, \A b \in Batch : ~ CommitEdges(b)
    PROVE  db'.edge = db.edge
<1>1. IsStore(db) /\ append_recno \in Nat /\ DOMAIN pk_to_ids = Batch
  BY DEF Inv, StoresOK, VerticesOK, ResolvedOK
<1>2. ReadRow => db'.edge = db.edge
  BY <1>1 DEF ReadRow, IsStore
<1>3. ASSUME NEW b \in Batch, FirstWrite(b) PROVE db'.edge = db.edge
  BY <1>1, <1>3 DEF FirstWrite, IsStore
<1>4. ASSUME NEW b \in Batch,
             FirstResolve(b) \/ FirstResolveFails(b) \/ FirstWriteFails(b) \/ FirstCommitFails(b) \/ FirstRelease(b)
      PROVE  db'.edge = db.edge
  BY <1>4 DEF FirstResolve, FirstResolveFails, FirstWriteFails, FirstCommitFails, FirstRelease
<1>5. UNCHANGED Data => db'.edge = db.edge
  BY DEF Data
<1> QED
  BY <1>2, <1>3, <1>4, <1>5, StepCases

\* Every step keeps the stored edges the rows' edges, in the store and in both
\* checkpoints.
LEMMA StepKeepsEdgesRows ==
    ASSUME Inv, SoundInv, [Next]_vars
    PROVE  EdgesAreRows(db') /\ EdgesAreRows(durable')
           /\ (snapshot' # NoSnapshot => EdgesAreRows(snapshot'))
<1>1. /\ EdgesAreRows(db) /\ EdgesAreRows(durable)
      /\ snapshot # NoSnapshot => EdgesAreRows(snapshot)
  BY DEF SoundInv
<1>2. CASE ProcessEnds
  BY <1>1, <1>2 DEF ProcessEnds
<1>3. CASE ~ ProcessEnds
  <2>1. EdgesAreRows(db')
    <3>1. ASSUME NEW b \in Batch, CommitEdges(b) PROVE EdgesAreRows(db')
      BY <3>1, CommittedEdges
    <3>2. CASE \A b \in Batch : ~ CommitEdges(b)
      BY <1>1, <1>3, <3>2, EdgesStay, StepGrows, EdgesOfLater
    <3> QED
      BY <3>1, <3>2
  <2>2. CASE UNCHANGED Saved
    BY <1>1, <2>1, <2>2 DEF Saved
  <2>3. CASE CheckpointStep
    BY <1>1, <2>1, <2>3 DEF CheckpointStep
  <2> QED
    BY <1>3, <2>2, <2>3, StepCases
<1> QED
  BY <1>2, <1>3

\* The ids a batch has got for its keys are ids of vertices with those keys.
LEMMA StepKeepsIds ==
    ASSUME "commit" \notin Faults, Inv, SoundInv, [Next]_vars
    PROVE  IdsOK'
<1>1. /\ DOMAIN pk_to_ids = Batch /\ IsStore(db) /\ append_recno \in Nat /\ StagesOK
      /\ DOMAIN db.vertex \subseteq 1 .. append_recno /\ IdsOK
  BY DEF Inv, ResolvedOK, StoresOK, VerticesOK, SoundInv
<1>2. CASE ProcessEnds
  BY <1>2 DEF ProcessEnds, IdsOK, EmptyTable
<1>3. CASE ~ ProcessEnds
  <2>1. Extends(db'.vertex, db.vertex)
    BY <1>3, StepGrows DEF Grows
  <2>2. \A b \in Batch : \A pk \in DOMAIN pk_to_ids[b] : pk_to_ids[b][pk] \in IdsOfPk(db'.vertex, pk)
    BY <1>1, <2>1, IdsStayInLater DEF IdsOK
  <2>3. ASSUME NEW b \in Batch, NEW pk \in DOMAIN VertexIds(db.vertex, Pks[b])
        PROVE  VertexIds(db.vertex, Pks[b])[pk] \in IdsOfPk(db'.vertex, pk)
    <3>1. IdsOfPk(db.vertex, pk) # {} /\ VertexIds(db.vertex, Pks[b])[pk] = Min(IdsOfPk(db.vertex, pk))
      BY DEF VertexIds
    <3>2. IdsOfPk(db.vertex, pk) \in SUBSET Nat
      BY <1>1 DEF IdsOfPk
    <3>3. Min(IdsOfPk(db.vertex, pk)) \in IdsOfPk(db.vertex, pk)
      BY <3>1, <3>2, MinExists
    <3> QED
      BY <2>1, <3>1, <3>3, IdsStayInLater
  <2>4. ASSUME NEW b \in Batch, FirstResolve(b) PROVE IdsOK'
    BY <1>1, <2>2, <2>3, <2>4 DEF FirstResolve, IdsOK
  <2>5. ASSUME NEW b \in Batch, FirstResolveFails(b) PROVE IdsOK'
    <3> DEFINE ids == VertexIds(db.vertex, Pks[b])
    <3>1. PICK found \in SUBSET DOMAIN ids :
             pk_to_ids' = [pk_to_ids EXCEPT ![b] = [pk \in found |-> ids[pk]]]
      BY <2>5 DEF FirstResolveFails
    <3> HIDE DEF ids
    <3>2. \A pk \in found : pk_to_ids'[b][pk] \in IdsOfPk(db'.vertex, pk)
      BY <1>1, <2>3, <3>1 DEF ids
    <3>3. DOMAIN pk_to_ids'[b] = found /\ \A c \in Batch \ {b} : pk_to_ids'[c] = pk_to_ids[c]
      BY <1>1, <3>1
    <3> QED
      BY <2>2, <3>2, <3>3 DEF IdsOK
  <2>6. ASSUME NEW b \in Batch, FirstWrite(b) PROVE IdsOK'
    <3> DEFINE U == Unresolved(b)
    <3>1. /\ \A pk \in U :
                /\ AppendedId(b, pk) \in DOMAIN db'.vertex
                /\ db'.vertex[AppendedId(b, pk)] = [label_type_id |-> LabelIdOf(b, pk), vertex_pk |-> pk]
          /\ \A c \in Batch \ {b} : pk_to_ids'[c] = pk_to_ids[c]
          /\ DOMAIN pk_to_ids'[b] = DOMAIN pk_to_ids[b] \cup U
          /\ \A pk \in U : pk_to_ids'[b][pk] = AppendedId(b, pk)
          /\ \A pk \in DOMAIN pk_to_ids[b] \ U : pk_to_ids'[b][pk] = pk_to_ids[b][pk]
      BY <1>1, <2>6, VerticesAppended
    <3> HIDE DEF U
    <3>2. ASSUME NEW pk \in U PROVE pk_to_ids'[b][pk] \in IdsOfPk(db'.vertex, pk)
      <4>1. db'.vertex[AppendedId(b, pk)] = [label_type_id |-> LabelIdOf(b, pk), vertex_pk |-> pk]
        BY <3>1
      <4>2. db'.vertex[AppendedId(b, pk)].vertex_pk = pk
        BY <4>1
      <4> QED
        BY <3>1, <4>2 DEF IdsOfPk
    <3> QED
      BY <2>2, <3>1, <3>2 DEF IdsOK
  <2>7. ASSUME NEW b \in Batch, FirstCommitFails(b) PROVE FALSE
    BY <2>7 DEF FirstCommitFails, Fault
  <2>8. pk_to_ids' = pk_to_ids => IdsOK'
    BY <2>2 DEF IdsOK
  <2> QED
    BY <1>1, <1>3, <2>4, <2>5, <2>6, <2>7, <2>8, OtherStepsResolveNothing
<1> QED
  BY <1>2, <1>3

\* The edges handed to the writers are those of the batch's rows, in a store that
\* has grown since they were built.
LEMMA StepKeepsPairs ==
    ASSUME Inv, SoundInv, [Next]_vars
    PROVE  PairsOK'
<1>1. DOMAIN edges = Batch /\ PairsOK
  BY DEF Inv, EdgesOK, SoundInv
<1>2. CASE ProcessEnds
  BY <1>2 DEF ProcessEnds, PairsOK
<1>3. CASE ~ ProcessEnds
  <2>1. Grows(db', db)
    BY <1>3, StepGrows
  <2>2. ASSUME NEW b \in Batch, edges[b] # <<>>, NEW i \in 1 .. Len(RowsOf(b))
        PROVE  IsPairOf(db', edges[b][2 * i - 1], edges[b][2 * i], RowsOf(b)[i])
    BY <1>1, <2>1, <2>2, PairsOfLater DEF PairsOK
  <2>3. ASSUME NEW b \in Batch, FirstRelease(b) PROVE PairsOK'
    <3>1. edges' = [edges EXCEPT ![b] = EdgesOf(b)] /\ db' = db
      BY <2>3 DEF FirstRelease
    <3>2. edges'[b] = EdgesOf(b) /\ \A c \in Batch \ {b} : edges'[c] = edges[c]
      BY <1>1, <3>1
    <3>3. \A i \in 1 .. Len(RowsOf(b)) :
             IsPairOf(db', EdgesOf(b)[2 * i - 1], EdgesOf(b)[2 * i], RowsOf(b)[i])
      BY <2>3, <3>1, PairsBuilt
    <3>4. \A c \in Batch : edges'[c] # <<>> => \A i \in 1 .. Len(RowsOf(c)) :
             IsPairOf(db', edges'[c][2 * i - 1], edges'[c][2 * i], RowsOf(c)[i])
      BY <2>2, <3>2, <3>3
    <3> QED
      BY <3>4 DEF PairsOK, IsPairOf
  <2>4. ASSUME edges' = edges PROVE PairsOK'
    <3>1. \A c \in Batch : edges'[c] # <<>> => \A i \in 1 .. Len(RowsOf(c)) :
             IsPairOf(db', edges'[c][2 * i - 1], edges'[c][2 * i], RowsOf(c)[i])
      BY <2>2, <2>4
    <3> QED
      BY <3>1 DEF PairsOK, IsPairOf
  <2>5. ReadRow => edges' = edges
    BY DEF ReadRow
  <2>6. ASSUME NEW b \in Batch,
               \/ FirstResolve(b) \/ FirstResolveFails(b)
               \/ FirstWrite(b) \/ FirstWriteFails(b) \/ FirstCommitFails(b)
               \/ CommitEdges(b)
        PROVE  edges' = edges
    BY <2>6 DEF FirstResolve, FirstResolveFails, FirstWrite, FirstWriteFails, FirstCommitFails,
         CommitEdges
  <2>7. UNCHANGED Data => edges' = edges
    BY DEF Data
  <2> QED
    BY <1>3, <2>3, <2>4, <2>5, <2>6, <2>7, StepCases
<1> QED
  BY <1>2, <1>3

\* The stored edges are the rows' edges for ever, when every commit succeeds.
THEOREM SoundInvariance ==
    ASSUME "commit" \notin Faults
    PROVE  Spec => []SoundInv
<1>1. Init => SoundInv
  <2> SUFFICES ASSUME Init PROVE SoundInv
    OBVIOUS
  <2>1. db = EmptyStore /\ durable = EmptyStore /\ snapshot = NoSnapshot
        /\ pk_to_ids = [b \in Batch |-> EmptyTable] /\ edges = [b \in Batch |-> <<>>]
    BY DEF Init, ImportInit
  <2>2. DOMAIN EmptyTable = {} /\ DOMAIN EmptyStore.edge = {}
    BY DEF EmptyTable, EmptyStore
  <2> QED
    BY <2>1, <2>2 DEF SoundInv, IdsOK, PairsOK, EdgesAreRows
<1>2. Inv /\ SoundInv /\ [Next]_vars => SoundInv'
  <2> SUFFICES ASSUME Inv, SoundInv, [Next]_vars PROVE SoundInv'
    OBVIOUS
  <2>1. IdsOK' /\ PairsOK'
    BY StepKeepsIds, StepKeepsPairs
  <2>2. NoSnapshot' = NoSnapshot
    BY DEF NoSnapshot
  <2>3. EdgesAreRows(db') /\ EdgesAreRows(durable')
        /\ (snapshot' # NoSnapshot => EdgesAreRows(snapshot'))
    BY StepKeepsEdgesRows
  <2> QED
    BY <2>1, <2>2, <2>3 DEF SoundInv, EdgesAreRows, EdgeIsRow
<1> QED
  BY <1>1, <1>2, Invariance, PTL DEF Spec

\* In a store whose edges are rows' edges every reference is to a row.
LEMMA RowsResolve ==
    ASSUME NEW s, IsStore(s), EdgesAreRows(s)
    PROVE  ReferencesResolve(s)
<1>1. ASSUME NEW key \in DOMAIN s.edge, key.direction = "OUTGOING"
      PROVE  /\ {key.start_vertex_id, key.end_vertex_id} \subseteq DOMAIN s.vertex
             /\ key.relation_type_id \in DOMAIN s.relation_type
             /\ s.edge[key] \in DOMAIN s.label_type
             /\ s.edge[Mirror(key)] \in DOMAIN s.label_type
  BY <1>1 DEF EdgesAreRows, EdgeIsRow, IdsOfPk, IdsOfName
<1>2. ASSUME NEW key \in DOMAIN s.edge
      PROVE  /\ {key.start_vertex_id, key.end_vertex_id} \subseteq DOMAIN s.vertex
             /\ key.relation_type_id \in DOMAIN s.relation_type
             /\ s.edge[key] \in DOMAIN s.label_type
  <2>1. IsKey(key) /\ Mirror(key) \in DOMAIN s.edge
    BY DEF IsStore, KeysOK, BothDirections
  <2>2. CASE key.direction = "OUTGOING"
    BY <1>1, <2>2
  <2>3. CASE key.direction # "OUTGOING"
    <3>1. Mirror(key).direction = "OUTGOING" /\ Mirror(Mirror(key)) = key
      BY <2>1, <2>3, MirrorOfKey
    <3>2. /\ Mirror(key).start_vertex_id = key.end_vertex_id
          /\ Mirror(key).end_vertex_id = key.start_vertex_id
          /\ Mirror(key).relation_type_id = key.relation_type_id
      BY DEF Mirror, EdgeKey
    <3> QED
      BY <1>1, <2>1, <3>1, <3>2
  <2> QED
    BY <2>2, <2>3
<1> QED
  BY <1>2 DEF IsStore, ReferencesResolve

\* ... and the graph it holds is made of rows of the file.
LEMMA RowsOnly ==
    ASSUME NEW s, EdgesAreRows(s)
    PROVE  GraphOf(s) \subseteq FileRows
<1> SUFFICES ASSUME NEW key \in DOMAIN s.edge, key.direction = "OUTGOING"
             PROVE  RowOfEdge(s, key) \in FileRows
  BY DEF GraphOf
<1>1. PICK row \in FileRows : EdgeIsRow(s, key, row)
  BY DEF EdgesAreRows
<1>2. row = [start_pk |-> row.start_pk, start_label_type |-> row.start_label_type,
             relation_type |-> row.relation_type, end_pk |-> row.end_pk,
             end_label_type |-> row.end_label_type]
  BY RowsAssumption, RowsType DEF FileRows
<1>3. RowOfEdge(s, key) = row
  BY <1>1, <1>2 DEF EdgeIsRow, RowOfEdge, IdsOfPk, IdsOfName
<1> QED
  BY <1>3

\* No reader and no restart meets an edge or a vertex that refers to a row that
\* is not there, as long as commit_transaction fails for no batch.
THEOREM NoDanglingReferenceTheorem ==
    ASSUME "commit" \notin Faults
    PROVE  Spec => []NoDanglingReference
<1>1. Inv /\ SoundInv => NoDanglingReference
  BY RowsResolve DEF Inv, StoresOK, SoundInv, NoDanglingReference
<1> QED
  BY <1>1, Invariance, SoundInvariance, PTL

\* No edge in the store or in a checkpoint is one that no row of the file asks
\* for, as long as commit_transaction fails for no batch.
THEOREM OnlyRowsOfTheFileTheorem ==
    ASSUME "commit" \notin Faults
    PROVE  Spec => []OnlyRowsOfTheFile
<1>1. SoundInv => OnlyRowsOfTheFile
  BY RowsOnly DEF SoundInv, OnlyRowsOfTheFile
<1> QED
  BY <1>1, SoundInvariance, PTL

-----------------------------------------------------------------------------
(* The graph of a store grows by whole batches: needs that a file gives an  *)
(* edge one pair of labels.                                                 *)

\* Two rows with the same ends and the same relation are the same row.
OneLabelPerEdge ==
    \A row, other \in FileRows :
       /\ row.start_pk = other.start_pk
       /\ row.end_pk = other.end_pk
       /\ row.relation_type = other.relation_type
       => row = other

\* The row of an edge is the one that RowOfEdge reads back.
LEMMA RowReadBack ==
    ASSUME NEW s, NEW key, NEW row \in FileRows, EdgeIsRow(s, key, row)
    PROVE  RowOfEdge(s, key) = row
<1>1. row = [start_pk |-> row.start_pk, start_label_type |-> row.start_label_type,
             relation_type |-> row.relation_type, end_pk |-> row.end_pk,
             end_label_type |-> row.end_label_type]
  BY RowsAssumption, RowsType DEF FileRows
<1> QED
  BY <1>1 DEF EdgeIsRow, RowOfEdge, IdsOfPk, IdsOfName

\* An edge keeps its row as long as the store only grows: a label that is
\* written again is that of an equal row.
LEMMA SameEdgeSameRow ==
    ASSUME OneLabelPerEdge, NEW s, NEW t, Grows(t, s), NEW key, key.direction = "OUTGOING",
           key \in DOMAIN s.edge, EdgesAreRows(s), key \in DOMAIN t.edge, EdgesAreRows(t)
    PROVE  RowOfEdge(t, key) = RowOfEdge(s, key)
<1>1. PICK row \in FileRows : EdgeIsRow(s, key, row)
  BY DEF EdgesAreRows
<1>2. PICK later \in FileRows : EdgeIsRow(t, key, later)
  BY DEF EdgesAreRows
<1>3. /\ key.start_vertex_id \in IdsOfPk(t.vertex, row.start_pk)
      /\ key.end_vertex_id \in IdsOfPk(t.vertex, row.end_pk)
      /\ key.relation_type_id \in IdsOfName(t.relation_type, row.relation_type)
  BY <1>1, IdsStayInLater DEF EdgeIsRow, Grows
<1>4. later.start_pk = row.start_pk /\ later.end_pk = row.end_pk
      /\ later.relation_type = row.relation_type
  BY <1>2, <1>3 DEF EdgeIsRow, IdsOfPk, IdsOfName
<1>5. later = row
  BY <1>4 DEF OneLabelPerEdge
<1> QED
  BY <1>1, <1>2, <1>5, RowReadBack

\* So a store that has grown, edges included, shows a graph that has grown ...
LEMMA GraphGrows ==
    ASSUME OneLabelPerEdge, NEW s, NEW t, Grows(t, s), DOMAIN s.edge \subseteq DOMAIN t.edge,
           EdgesAreRows(s), EdgesAreRows(t)
    PROVE  GraphOf(s) \subseteq GraphOf(t)
<1> SUFFICES ASSUME NEW key \in DOMAIN s.edge, key.direction = "OUTGOING"
             PROVE  RowOfEdge(s, key) \in GraphOf(t)
  BY DEF GraphOf
<1>1. RowOfEdge(t, key) = RowOfEdge(s, key)
  BY SameEdgeSameRow
<1> QED
  BY <1>1 DEF GraphOf

\* ... and, if it has the same edges, the same graph.
LEMMA GraphStays ==
    ASSUME OneLabelPerEdge, NEW s, NEW t, Grows(t, s), t.edge = s.edge, EdgesAreRows(s)
    PROVE  GraphOf(t) = GraphOf(s)
<1>1. EdgesAreRows(t)
  BY EdgesOfLater
<1>2. GraphOf(s) \subseteq GraphOf(t)
  BY <1>1, GraphGrows
<1>3. ASSUME NEW key \in DOMAIN t.edge, key.direction = "OUTGOING"
      PROVE  RowOfEdge(t, key) \in GraphOf(s)
  <2>1. RowOfEdge(t, key) = RowOfEdge(s, key)
    BY <1>1, <1>3, SameEdgeSameRow
  <2> QED
    BY <1>3, <2>1 DEF GraphOf
<1>4. GraphOf(t) \subseteq GraphOf(s)
  BY <1>3 DEF GraphOf
<1> QED
  BY <1>2, <1>4

\* The rows of a batch, and of several.
ChunkOf(b) == {RowsOf(b)[i] : i \in DOMAIN RowsOf(b)}
ChunksOf(B) == UNION {ChunkOf(b) : b \in B}
WholeBatches(G) == \E B \in SUBSET Batch : G = ChunksOf(B)

\* One more batch makes whole batches of whole batches.
LEMMA OneMoreBatch ==
    ASSUME NEW G, WholeBatches(G), NEW b \in Batch
    PROVE  WholeBatches(G \cup ChunkOf(b))
<1>1. PICK B \in SUBSET Batch : G = ChunksOf(B)
  BY DEF WholeBatches
<1>2. G \cup ChunkOf(b) = ChunksOf(B \cup {b})
  BY <1>1 DEF ChunksOf
<1> QED
  BY <1>2 DEF WholeBatches

\* A graph of whole batches that has every batch is the whole file.
LEMMA AllBatches ==
    ASSUME NEW G, WholeBatches(G), \A b \in Batch : ChunkOf(b) \subseteq G
    PROVE  G = ChunksOf(Batch)
  BY DEF WholeBatches, ChunksOf

\* Committing the edges of a batch adds the batch's rows to the graph.
LEMMA CommitAddsBatch ==
    ASSUME OneLabelPerEdge, Inv, SoundInv, NEW b \in Batch, CommitEdges(b), edges[b] # <<>>,
           Grows(db', db)
    PROVE  GraphOf(db') = GraphOf(db) \cup ChunkOf(b)
<1> DEFINE n == Len(RowsOf(b))
<1>1. /\ EdgesAreRows(db) /\ EdgesAreRows(db')
      /\ DOMAIN db'.edge = DOMAIN db.edge \cup Written(b)
      /\ \A key \in Written(b) : key.direction = "OUTGOING" =>
            \E i \in 1 .. n : EdgeIsRow(db', key, RowsOf(b)[i])
  BY CommittedEdges DEF SoundInv
<1>2. n \in Nat /\ DOMAIN RowsOf(b) = 1 .. n /\ \A i \in 1 .. n : RowsOf(b)[i] \in FileRows
  BY BatchRows
<1>3. GraphOf(db) \subseteq GraphOf(db')
  BY <1>1, GraphGrows
<1>4. ASSUME NEW key \in DOMAIN db'.edge, key.direction = "OUTGOING"
      PROVE  RowOfEdge(db', key) \in GraphOf(db) \cup ChunkOf(b)
  <2>1. CASE key \in Written(b)
    <3>1. PICK i \in 1 .. n : EdgeIsRow(db', key, RowsOf(b)[i])
      BY <1>1, <1>4, <2>1
    <3>2. RowOfEdge(db', key) = RowsOf(b)[i]
      BY <1>2, <3>1, RowReadBack
    <3> QED
      BY <1>2, <3>2 DEF ChunkOf
  <2>2. CASE key \in DOMAIN db.edge
    <3>1. RowOfEdge(db', key) = RowOfEdge(db, key)
      BY <1>1, <1>4, <2>2, SameEdgeSameRow
    <3> QED
      BY <1>4, <2>2, <3>1 DEF GraphOf
  <2> QED
    BY <1>1, <2>1, <2>2
<1>5. ASSUME NEW i \in 1 .. n PROVE RowsOf(b)[i] \in GraphOf(db')
  <2> DEFINE row == RowsOf(b)[i]
             key == edges[b][2 * i - 1].key
  <2>1. MirroredPair(edges[b][2 * i - 1].key, edges[b][2 * i].key)
        /\ Written(b) = {edges[b][j].key : j \in 1 .. 2 * n}
    BY DEF Inv, EdgesOK, Written, CommitEdges
  <2>2. 2 * i - 1 \in 1 .. 2 * n
    BY <1>2
  <2>3. key \in Written(b) /\ key.direction = "OUTGOING"
    BY <2>1, <2>2 DEF MirroredPair, EdgeKey
  <2>4. PICK k \in 1 .. n : EdgeIsRow(db', key, RowsOf(b)[k])
    BY <1>1, <2>3
  <2>5. IsPairOf(db, edges[b][2 * i - 1], edges[b][2 * i], row)
    BY DEF SoundInv, PairsOK
  <2>6. IsPairOf(db', edges[b][2 * i - 1], edges[b][2 * i], row)
    BY <2>5, PairsOfLater
  <2>7. RowsOf(b)[k] = row
    <3>1. /\ RowsOf(b)[k].start_pk = row.start_pk /\ RowsOf(b)[k].end_pk = row.end_pk
          /\ RowsOf(b)[k].relation_type = row.relation_type
      BY <2>4, <2>6 DEF IsPairOf, EdgeIsRow, IdsOfPk, IdsOfName
    <3> QED
      BY <1>2, <3>1 DEF OneLabelPerEdge
  <2>8. RowOfEdge(db', key) = row
    BY <1>2, <2>4, <2>7, RowReadBack
  <2>9. key \in DOMAIN db'.edge
    BY <1>1, <2>3
  <2> HIDE DEF key
  <2> QED
    BY <2>3, <2>8, <2>9 DEF GraphOf
<1> HIDE DEF n
<1>6. GraphOf(db') \subseteq GraphOf(db) \cup ChunkOf(b)
  BY <1>4 DEF GraphOf
<1>7. ChunkOf(b) \subseteq GraphOf(db')
  BY <1>2, <1>5 DEF ChunkOf
<1> QED
  BY <1>3, <1>6, <1>7

-----------------------------------------------------------------------------
(* The threads of the import keep the invariant of ImportPipeline.          *)

Threads == INSTANCE ImportPipelineProofs

\* What ImportPipeline assumes of its constants.
LEMMA ThreadsAssumptions ==
    NumBatches \in Nat /\ Concurrency \in Nat \ {0} /\ FileTypes \subseteq {"CSV", "Excel"}
  BY NumBatchesNat, WritersAssumption

\* Cardinality is the same operator under both names.
LEMMA SameCardinality ==
    ASSUME NEW S PROVE Threads!Cardinality(S) = Pipeline!Cardinality(S)
  BY DEF Threads!Cardinality, Pipeline!Cardinality

\* A step of ImportPipeline, as Importer names it, is one as its proofs name it.
LEMMA ThreadsStep ==
    ASSUME \/ Pipeline!MainStep \/ Pipeline!ProgressExit
           \/ \E b \in Batch : Pipeline!FirstStepTask(b) \/ Pipeline!RealWriteTask(b)
    PROVE  Threads!Next
<1> USE DEF Threads!At, Pipeline!At, Threads!Moved, Pipeline!Moved,
        Threads!handover, Pipeline!handover, Threads!reporting, Pipeline!reporting,
        Threads!Batch, Pipeline!Batch, Batch
<1>1. CASE Pipeline!MainStep
  <2> USE DEF Threads!MainStep, Threads!Next
  <2>1. Pipeline!FillBatch => Threads!FillBatch
    BY DEF Threads!FillBatch, Pipeline!FillBatch
  <2>2. Pipeline!AcquireFirstStep => Threads!AcquireFirstStep
    BY DEF Threads!AcquireFirstStep, Pipeline!AcquireFirstStep
  <2>3. Pipeline!CountFirstStep => Threads!CountFirstStep
    BY DEF Threads!CountFirstStep, Pipeline!CountFirstStep
  <2>4. Pipeline!EnqueueFirstStep => Threads!EnqueueFirstStep
    BY DEF Threads!EnqueueFirstStep, Pipeline!EnqueueFirstStep
  <2>5. Pipeline!EndOfFile => Threads!EndOfFile
    BY DEF Threads!EndOfFile, Pipeline!EndOfFile
  <2>6. Pipeline!InputError => Threads!InputError
    BY DEF Threads!InputError, Pipeline!InputError
  <2>7. Pipeline!Unwind => Threads!Unwind
    BY DEF Threads!Unwind, Pipeline!Unwind, Threads!FirstIdle, Pipeline!FirstIdle,
           Threads!RealIdle, Pipeline!RealIdle, Threads!FirstRunning, Pipeline!FirstRunning,
           Threads!RealRunning, Pipeline!RealRunning
  <2>8. Pipeline!WaitTasks => Threads!WaitTasks
    BY DEF Threads!WaitTasks, Pipeline!WaitTasks
  <2>9. Pipeline!ReturnFromImport => Threads!ReturnFromImport
    BY DEF Threads!ReturnFromImport, Pipeline!ReturnFromImport, Threads!FirstIdle,
           Pipeline!FirstIdle, Threads!RealIdle, Pipeline!RealIdle, Threads!FirstRunning,
           Pipeline!FirstRunning, Threads!RealRunning, Pipeline!RealRunning
  <2> QED
    BY <1>1, <2>1, <2>2, <2>3, <2>4, <2>5, <2>6, <2>7, <2>8, <2>9 DEF Pipeline!MainStep
<1>2. ASSUME NEW b \in Batch, Pipeline!FirstStepTask(b) PROVE Threads!FirstStepTask(b)
  <2> USE DEF Threads!FirstStepTask
  <2>1. Pipeline!FirstStart(b) => Threads!FirstStart(b)
    BY DEF Threads!FirstStart, Pipeline!FirstStart, Threads!FirstRunning, Pipeline!FirstRunning
  <2>2. Pipeline!FirstResolve(b) => Threads!FirstResolve(b)
    BY DEF Threads!FirstResolve, Pipeline!FirstResolve
  <2>3. Pipeline!FirstWrite(b) => Threads!FirstWrite(b)
    BY DEF Threads!FirstWrite, Pipeline!FirstWrite
  <2>4. Pipeline!FirstRelease(b) => Threads!FirstRelease(b)
    BY DEF Threads!FirstRelease, Pipeline!FirstRelease
  <2>5. Pipeline!FirstAcquire(b) => Threads!FirstAcquire(b)
    BY DEF Threads!FirstAcquire, Pipeline!FirstAcquire
  <2>6. Pipeline!FirstAdd(b) => Threads!FirstAdd(b)
    BY DEF Threads!FirstAdd, Pipeline!FirstAdd
  <2>7. Pipeline!FirstEnqueue(b) => Threads!FirstEnqueue(b)
    BY DEF Threads!FirstEnqueue, Pipeline!FirstEnqueue
  <2>8. Pipeline!FirstDone(b) => Threads!FirstDone(b)
    BY DEF Threads!FirstDone, Pipeline!FirstDone
  <2> QED
    BY <1>2, <2>1, <2>2, <2>3, <2>4, <2>5, <2>6, <2>7, <2>8 DEF Pipeline!FirstStepTask
<1>3. ASSUME NEW b \in Batch, Pipeline!RealWriteTask(b) PROVE Threads!RealWriteTask(b)
  <2> USE DEF Threads!RealWriteTask
  <2>1. Pipeline!RealStart(b) => Threads!RealStart(b)
    BY SameCardinality
       DEF Threads!RealStart, Pipeline!RealStart, Threads!RealRunning, Pipeline!RealRunning
  <2>2. Pipeline!RealWrite(b) => Threads!RealWrite(b)
    BY DEF Threads!RealWrite, Pipeline!RealWrite
  <2>3. Pipeline!RealDone(b) => Threads!RealDone(b)
    BY DEF Threads!RealDone, Pipeline!RealDone
  <2>4. Pipeline!RealRelease(b) => Threads!RealRelease(b)
    BY DEF Threads!RealRelease, Pipeline!RealRelease
  <2> QED
    BY <1>3, <2>1, <2>2, <2>3, <2>4 DEF Pipeline!RealWriteTask
<1>4. Pipeline!ProgressExit => Threads!ProgressExit
  BY DEF Threads!ProgressExit, Pipeline!ProgressExit
<1> QED
  BY <1>1, <1>2, <1>3, <1>4 DEF Threads!Next

\* Every step of the process is a step of the threads, leaves them alone or
\* starts them again.
LEMMA StepOfThreads ==
    ASSUME [Next]_vars
    PROVE  Threads!Next \/ UNCHANGED pipelineVars \/ ProcessEnds
<1>1. CASE Import
  <2>1. CASE ReadRow
    BY <2>1, ThreadsStep DEF ReadRow, Pipeline!MainStep
  <2>2. CASE Main
    BY <2>2, ThreadsStep DEF Main, Pipeline!MainStep
  <2>3. CASE Progress
    BY <2>3, ThreadsStep DEF Progress
  <2>4. ASSUME NEW b \in Batch, FirstStepTask(b) PROVE Threads!Next
    <3>1. Pipeline!FirstStepTask(b)
      BY <2>4 DEF FirstStepTask, First, FirstResolve, FirstWrite, FirstRelease,
                  Pipeline!FirstStepTask
    <3> QED
      BY <3>1, ThreadsStep
  <2>5. ASSUME NEW b \in Batch, RealWriteTask(b) PROVE Threads!Next \/ UNCHANGED pipelineVars
    <3>1. Pipeline!RealWriteTask(b) \/ UNCHANGED pipelineVars
      BY <2>5 DEF RealWriteTask, Real, BeginTransaction, InsertEdge, InsertConflicts, CommitEdges,
                  Pipeline!RealWriteTask
    <3> QED
      BY <3>1, ThreadsStep
  <2>6. ASSUME NEW b \in Batch, Failure(b) PROVE Threads!Next \/ UNCHANGED pipelineVars
    <3>1. Pipeline!FirstStepTask(b) \/ Pipeline!RealWriteTask(b) \/ UNCHANGED pipelineVars
      BY <2>6 DEF Failure, FirstResolveFails, FirstWriteFails, FirstCommitFails, InsertFails,
                  CommitEdgesFails, Pipeline!FirstStepTask, Pipeline!RealWriteTask
    <3> QED
      BY <3>1, ThreadsStep
  <2> QED
    BY <1>1, <2>1, <2>2, <2>3, <2>4, <2>5, <2>6 DEF Import, ImportNext
<1>2. CASE ~ Import
  <2>1. CASE ImportFails \/ Crash
    BY <2>1 DEF ImportFails, Crash
  <2>2. CASE ~ (ImportFails \/ Crash)
    BY <1>2, <2>2 DEF Next, ImportReturns, Joined, StartServer, CheckpointBegins, CheckpointEnds,
         CheckpointFails, CheckpointerExits, RestartImport, RestartServe, Serving, GivenUp, RunAgain,
         vars, importerVars
  <2> QED
    BY <2>1, <2>2
<1> QED
  BY <1>1, <1>2

\* The threads start in their invariant ...
LEMMA ThreadsStart == Threads!Init => Threads!PipelineInv
  BY ThreadsAssumptions, Threads!PipelineStarts

\* ... and keep it, across crashes too.
LEMMA ThreadsKeepInv ==
    ASSUME Threads!PipelineInv, [Next]_vars
    PROVE  Threads!PipelineInv'
<1>1. ASSUME Threads!Next \/ UNCHANGED pipelineVars PROVE Threads!PipelineInv'
  <2>1. [Threads!Next]_(Threads!pipelineVars)
    BY <1>1 DEF pipelineVars, Threads!pipelineVars
  <2> QED
    BY <2>1, ThreadsAssumptions, Threads!PipelineStays
<1>2. ASSUME ProcessEnds PROVE Threads!PipelineInv'
  <2>1. Threads!Init'
    BY <1>2 DEF ProcessEnds, Pipeline!EnterAgain, Threads!Init, Pipeline!Batch, Threads!Batch,
         Pipeline!ProgressOf, Threads!ProgressOf
  <2>2. Threads!Init' => Threads!PipelineInv'
    BY ThreadsStart, PTL
  <2> QED
    BY <2>1, <2>2
<1> QED
  BY <1>1, <1>2, StepOfThreads

-----------------------------------------------------------------------------
(* The invariant of loading. *)

\* A batch past the first step has its edges.
BuiltOK ==
    \A b \in Batch :
       firstStep[b] \in {"acquire", "add", "enqueue", "done", "finished"} => edges[b] # <<>>

\* A batch past write_edges has its rows in the store.
WrittenOK ==
    \A b \in Batch :
       realWrite[b] \in {"done", "release", "finished"} => ChunkOf(b) \subseteq GraphOf(db)

\* The store and the checkpoints hold whole batches, the older ones fewer.
GraphsOK ==
    /\ WholeBatches(GraphOf(db)) /\ WholeBatches(GraphOf(durable))
    /\ GraphOf(durable) \subseteq GraphOf(db)
    /\ snapshot # NoSnapshot =>
          /\ WholeBatches(GraphOf(snapshot))
          /\ GraphOf(durable) \subseteq GraphOf(snapshot)
          /\ GraphOf(snapshot) \subseteq GraphOf(db)

\* What main() knows where it is: once import_data has returned it makes its
\* own checkpoint only when the checkpoint thread has none under way, and that
\* one has all of the file.
PhasesOK ==
    /\ phase \in {"join", "last checkpoint", "start"} => main = "returned"
    /\ snapshot # NoSnapshot => phase \in {"import", "join", "last checkpoint"}
    /\ phase \in {"import", "join"} /\ checkpointer = "exited" => snapshot = NoSnapshot
    /\ phase = "last checkpoint" /\ snapshot # NoSnapshot => GraphOf(snapshot) = ChunksOf(Batch)
    /\ phase = "start" => GraphOf(durable) = ChunksOf(Batch)

LoadInv == Threads!PipelineInv /\ BuiltOK /\ WrittenOK /\ GraphsOK /\ PhasesOK

\* What the threads' invariant says of the batches.
LEMMA ThreadsFacts ==
    ASSUME Threads!PipelineInv
    PROVE  /\ realWrite \in [Batch -> Pipeline!RealPC]
           /\ \A b \in Batch : realWrite[b] # "absent" => firstStep[b] \in {"done", "finished"}
           /\ main = "returned" => \A b \in Batch : realWrite[b] \in {"release", "finished"}
<1> USE DEF Batch, Pipeline!Batch, Threads!Batch
<1>1. realWrite \in [Batch -> Pipeline!RealPC]
  BY DEF Threads!PipelineInv, Threads!FieldsOK, Threads!RealPC, Pipeline!RealPC
<1>2. \A b \in Batch : realWrite[b] # "absent" => firstStep[b] \in {"done", "finished"}
  BY DEF Threads!PipelineInv, Threads!Shape, Threads!HandedOver
<1>3. main = "returned" => \A b \in Batch : realWrite[b] \in {"release", "finished"}
  BY DEF Threads!PipelineInv, Threads!CompletionIsTotal
<1> QED
  BY <1>1, <1>2, <1>3

\* The edges of a batch are some.
LEMMA SomeEdges ==
    ASSUME NEW b \in Batch
    PROVE  EdgesOf(b) # <<>>
<1> DEFINE n == Len(RowsOf(b))
<1>1. n \in Nat /\ n >= 1
  BY BatchRows, BatchLines
<1>2. 1 \in DOMAIN EdgesOf(b)
  BY <1>1 DEF EdgesOf
<1> QED
  BY <1>2

\* The first step builds the edges before it hands the batch over.
LEMMA StepKeepsBuilt ==
    ASSUME Inv, BuiltOK, [Next]_vars
    PROVE  BuiltOK'
<1> USE DEF Pipeline!At, Pipeline!Moved
<1>1. DOMAIN edges = Batch /\ firstStep \in [Batch -> Pipeline!FirstPC]
  BY DEF Inv, EdgesOK, StagesOK
<1>2. ASSUME edges' = edges,
             \A b \in Batch : firstStep'[b] \in {"acquire", "add", "enqueue", "done", "finished"}
                => firstStep[b] \in {"acquire", "add", "enqueue", "done", "finished"}
      PROVE  BuiltOK'
  BY <1>2 DEF BuiltOK
<1>3. CASE ReadRow
  BY <1>1, <1>2, <1>3 DEF ReadRow, Pipeline!FillBatch, pipelineVars
<1>4. ASSUME NEW b \in Batch,
             FirstResolve(b) \/ FirstResolveFails(b) \/ FirstWrite(b) \/ FirstCommitFails(b)
      PROVE  BuiltOK'
  BY <1>1, <1>2, <1>4 DEF FirstResolve, FirstResolveFails, FirstWrite, FirstCommitFails,
       Pipeline!FirstResolve, Pipeline!FirstWrite
<1>5. ASSUME NEW b \in Batch, FirstWriteFails(b) \/ CommitEdges(b) PROVE BuiltOK'
  BY <1>1, <1>2, <1>5 DEF FirstWriteFails, CommitEdges, Pipeline!RealWrite, pipelineVars
<1>6. ASSUME NEW b \in Batch, FirstRelease(b) PROVE BuiltOK'
  BY <1>1, <1>6, SomeEdges DEF FirstRelease, Pipeline!FirstRelease, BuiltOK
<1>7. CASE PipelineStep /\ UNCHANGED Data
  <2>1. edges' = edges
    BY <1>7 DEF Data
  <2>2. CASE \/ Pipeline!AcquireFirstStep \/ Pipeline!CountFirstStep \/ Pipeline!EnqueueFirstStep
             \/ UNCHANGED <<next, firstStep>>
    BY <1>1, <1>2, <2>1, <2>2 DEF Pipeline!AcquireFirstStep, Pipeline!CountFirstStep,
         Pipeline!EnqueueFirstStep
  <2>3. ASSUME NEW b \in Batch, Pipeline!FirstStart(b) \/ Pipeline!FirstAcquire(b) PROVE BuiltOK'
    BY <1>1, <1>2, <2>1, <2>3 DEF Pipeline!FirstStart, Pipeline!FirstAcquire
  <2>4. ASSUME NEW b \in Batch,
               Pipeline!FirstAdd(b) \/ Pipeline!FirstEnqueue(b) \/ Pipeline!FirstDone(b)
        PROVE  BuiltOK'
    BY <1>1, <1>2, <2>1, <2>4 DEF Pipeline!FirstAdd, Pipeline!FirstEnqueue, Pipeline!FirstDone
  <2> QED
    BY <1>7, <2>2, <2>3, <2>4 DEF PipelineStep
<1>8. CASE UNCHANGED <<next, firstStep>> /\ UNCHANGED Data
  BY <1>2, <1>8 DEF Data
<1>9. CASE ProcessEnds
  BY <1>9 DEF ProcessEnds, Pipeline!EnterAgain, BuiltOK, Batch
<1> QED
  BY <1>3, <1>4, <1>5, <1>6, <1>7, <1>8, <1>9, StepCases

\* A batch gets past write_edges by a commit, when no commit fails.
LEMMA WrittenByCommit ==
    ASSUME "commit" \notin Faults, Threads!PipelineInv, [Next]_vars, NEW b \in Batch,
           realWrite'[b] \in {"done", "release", "finished"}
    PROVE  realWrite[b] \in {"done", "release", "finished"} \/ CommitEdges(b)
<1> USE DEF Pipeline!At, Pipeline!Moved, Pipeline!handover, Pipeline!reporting
<1>1. realWrite \in [Batch -> Pipeline!RealPC]
  BY ThreadsFacts
<1>2. CASE Import
  <2>1. CASE ReadRow \/ Main \/ Progress
    <3>1. realWrite' = realWrite
      BY <2>1 DEF ReadRow, Main, Progress, pipelineVars, Pipeline!FillBatch,
           Pipeline!AcquireFirstStep, Pipeline!CountFirstStep, Pipeline!EnqueueFirstStep,
           Pipeline!EndOfFile, Pipeline!InputError, Pipeline!Unwind, Pipeline!WaitTasks,
           Pipeline!ReturnFromImport, Pipeline!ProgressExit
    <3> QED
      BY <3>1
  <2>2. ASSUME NEW c \in Batch, FirstStepTask(c) PROVE realWrite[b] \in {"done", "release", "finished"}
    BY <1>1, <2>2 DEF FirstStepTask, First, FirstResolve, FirstWrite, FirstRelease,
         Pipeline!FirstStart, Pipeline!FirstResolve, Pipeline!FirstWrite, Pipeline!FirstRelease,
         Pipeline!FirstAcquire, Pipeline!FirstAdd, Pipeline!FirstEnqueue, Pipeline!FirstDone
  <2>3. ASSUME NEW c \in Batch, Real(c) PROVE realWrite[b] \in {"done", "release", "finished"}
    BY <1>1, <2>3 DEF Real, Pipeline!RealStart, Pipeline!RealDone, Pipeline!RealRelease
  <2>4. ASSUME NEW c \in Batch, BeginTransaction(c) \/ InsertEdge(c) \/ InsertConflicts(c)
        PROVE  realWrite' = realWrite
    BY <2>4 DEF BeginTransaction, InsertEdge, InsertConflicts, pipelineVars
  <2>5. ASSUME NEW c \in Batch, CommitEdges(c), c # b PROVE realWrite[b] = realWrite'[b]
    BY <1>1, <2>5 DEF CommitEdges, Pipeline!RealWrite
  <2>6. ASSUME NEW c \in Batch, Failure(c) PROVE realWrite' = realWrite
    BY <2>6 DEF Failure, FirstResolveFails, FirstWriteFails, FirstCommitFails, InsertFails,
         CommitEdgesFails, Fault, Pipeline!FirstResolve, pipelineVars
  <2> QED
    BY <1>2, <2>1, <2>2, <2>3, <2>4, <2>5, <2>6 DEF Import, ImportNext, RealWriteTask
<1>3. CASE ~ Import
  <2>1. CASE ProcessEnds
    BY <2>1 DEF ProcessEnds, Pipeline!EnterAgain, Batch
  <2>2. CASE ~ ProcessEnds
    <3>1. realWrite' = realWrite
      BY <1>3, <2>2 DEF Next, ImportReturns, ImportFails, Joined, StartServer, CheckpointBegins,
           CheckpointEnds, CheckpointFails, CheckpointerExits, Crash, RestartImport, RestartServe,
           Serving, GivenUp, RunAgain, vars, importerVars, pipelineVars
    <3> QED
      BY <3>1
  <2> QED
    BY <2>1, <2>2
<1> QED
  BY <1>2, <1>3

\* The graph of the store changes when a batch is committed, by that batch, and
\* when the process ends.
LEMMA StepOfGraph ==
    ASSUME OneLabelPerEdge, Inv, SoundInv, LoadInv, [Next]_vars, ~ ProcessEnds
    PROVE  \/ GraphOf(db') = GraphOf(db) /\ \A b \in Batch : ~ CommitEdges(b)
           \/ \E b \in Batch : CommitEdges(b) /\ GraphOf(db') = GraphOf(db) \cup ChunkOf(b)
<1>1. Grows(db', db)
  BY StepGrows
<1>2. CASE \A b \in Batch : ~ CommitEdges(b)
  <2>1. db'.edge = db.edge
    BY <1>2, EdgesStay
  <2>2. EdgesAreRows(db)
    BY DEF SoundInv
  <2>3. GraphOf(db') = GraphOf(db)
    BY <1>1, <2>1, <2>2, GraphStays
  <2> QED
    BY <1>2, <2>3
<1>3. ASSUME NEW b \in Batch, CommitEdges(b)
      PROVE  GraphOf(db') = GraphOf(db) \cup ChunkOf(b)
  <2>1. realWrite[b] = "write"
    BY <1>3 DEF CommitEdges, Pipeline!RealWrite, Pipeline!At
  <2>2. edges[b] # <<>>
    BY <2>1, ThreadsFacts DEF LoadInv, BuiltOK
  <2> QED
    BY <1>1, <1>3, <2>2, CommitAddsBatch
<1> QED
  BY <1>2, <1>3

\* What is written stays in the store until the process ends.
LEMMA StepKeepsWritten ==
    ASSUME "commit" \notin Faults, OneLabelPerEdge, Inv, SoundInv, LoadInv, [Next]_vars
    PROVE  \A b \in Batch :
              realWrite'[b] \in {"done", "release", "finished"} => ChunkOf(b) \subseteq GraphOf(db')
<1> SUFFICES ASSUME NEW b \in Batch, realWrite'[b] \in {"done", "release", "finished"}
             PROVE  ChunkOf(b) \subseteq GraphOf(db')
  OBVIOUS
<1>1. ~ ProcessEnds
  BY DEF ProcessEnds, Pipeline!EnterAgain, Batch
<1>2. realWrite[b] \in {"done", "release", "finished"} \/ CommitEdges(b)
  BY WrittenByCommit DEF LoadInv
<1>3. CASE realWrite[b] \in {"done", "release", "finished"}
  <2>1. ChunkOf(b) \subseteq GraphOf(db)
    BY <1>3 DEF LoadInv, WrittenOK
  <2> QED
    BY <1>1, <2>1, StepOfGraph
<1>4. CASE CommitEdges(b)
  <2>1. realWrite[b] = "write" /\ Grows(db', db)
    BY <1>1, <1>4, StepGrows DEF CommitEdges, Pipeline!RealWrite, Pipeline!At
  <2>2. edges[b] # <<>>
    BY <2>1, ThreadsFacts DEF LoadInv, BuiltOK
  <2> QED
    BY <1>4, <2>1, <2>2, CommitAddsBatch
<1> QED
  BY <1>2, <1>3, <1>4

\* A step only adds to what the store shows, and adds a whole batch.
LEMMA StepAddsBatches ==
    ASSUME OneLabelPerEdge, Inv, SoundInv, LoadInv, [Next]_vars, ~ ProcessEnds
    PROVE  GraphOf(db) \subseteq GraphOf(db') /\ WholeBatches(GraphOf(db'))
<1>1. WholeBatches(GraphOf(db))
  BY DEF LoadInv, GraphsOK
<1>2. CASE GraphOf(db') = GraphOf(db)
  BY <1>1, <1>2
<1>3. ASSUME NEW b \in Batch, GraphOf(db') = GraphOf(db) \cup ChunkOf(b)
      PROVE  GraphOf(db) \subseteq GraphOf(db') /\ WholeBatches(GraphOf(db'))
  BY <1>1, <1>3, OneMoreBatch
<1> QED
  BY <1>2, <1>3, StepOfGraph

\* What is saved is what the store once showed, before and after a step.
LEMMA StepKeepsGraphs ==
    ASSUME OneLabelPerEdge, Inv, SoundInv, LoadInv, [Next]_vars
    PROVE  /\ WholeBatches(GraphOf(db')) /\ WholeBatches(GraphOf(durable'))
           /\ GraphOf(durable') \subseteq GraphOf(db')
           /\ snapshot' # NoSnapshot =>
                 /\ WholeBatches(GraphOf(snapshot'))
                 /\ GraphOf(durable') \subseteq GraphOf(snapshot')
                 /\ GraphOf(snapshot') \subseteq GraphOf(db')
<1>1. GraphsOK
  BY DEF LoadInv
<1>2. CASE ProcessEnds
  BY <1>1, <1>2 DEF GraphsOK, ProcessEnds
<1>3. CASE ~ ProcessEnds /\ UNCHANGED Saved
  <2>1. snapshot' = snapshot /\ durable' = durable
    BY <1>3 DEF Saved
  <2>2. GraphOf(db) \subseteq GraphOf(db') /\ WholeBatches(GraphOf(db'))
    BY <1>3, StepAddsBatches
  <2> QED
    BY <1>1, <2>1, <2>2 DEF GraphsOK
<1>4. CASE ~ ProcessEnds /\ CheckpointStep /\ UNCHANGED Data
  <2>1. db' = db
    BY <1>4 DEF Data
  <2> QED
    BY <1>1, <1>4, <2>1 DEF GraphsOK, CheckpointStep
<1> QED
  BY <1>2, <1>3, <1>4, StepCases

\* When import_data has returned the store shows the whole file.
LEMMA ReturnedIsAll ==
    ASSUME LoadInv, main = "returned"
    PROVE  GraphOf(db) = ChunksOf(Batch)
<1>1. \A b \in Batch : ChunkOf(b) \subseteq GraphOf(db)
  BY ThreadsFacts DEF LoadInv, WrittenOK
<1> QED
  BY <1>1, AllBatches DEF LoadInv, GraphsOK

\* main() goes from phase to phase as the invariant says.
LEMMA StepKeepsPhases ==
    ASSUME "checkpoint" \notin Faults, LoadInv, [Next]_vars
    PROVE  /\ phase' \in {"join", "last checkpoint", "start"} => main' = "returned"
           /\ snapshot' # NoSnapshot => phase' \in {"import", "join", "last checkpoint"}
           /\ phase' \in {"import", "join"} /\ checkpointer' = "exited" => snapshot' = NoSnapshot
           /\ phase' = "last checkpoint" /\ snapshot' # NoSnapshot
                 => GraphOf(snapshot') = ChunksOf(Batch)
           /\ phase' = "start" => GraphOf(durable') = ChunksOf(Batch)
<1> USE DEF PhasesOK
<1>1. PhasesOK
  BY DEF LoadInv
<1>2. CASE Import
  BY <1>1, <1>2 DEF Import, serverVars
<1>3. CASE ImportReturns \/ Joined \/ StartServer \/ CheckpointerExits \/ RestartImport \/ RestartServe
           \/ Serving \/ GivenUp \/ RunAgain \/ UNCHANGED vars
  BY <1>1, <1>3 DEF ImportReturns, Joined, StartServer, CheckpointerExits, RestartImport,
       RestartServe, Serving, GivenUp, RunAgain, vars, importerVars, pipelineVars, serverVars
<1>4. CASE ImportFails \/ Crash
  BY <1>1, <1>4 DEF ImportFails, Crash, ProcessEnds
<1>5. CASE CheckpointBegins
  <2>1. phase = "last checkpoint" => GraphOf(db) = ChunksOf(Batch)
    BY <1>1, ReturnedIsAll
  <2> QED
    BY <1>1, <1>5, <2>1 DEF CheckpointBegins, importerVars, pipelineVars
<1>6. CASE CheckpointEnds
  BY <1>1, <1>6 DEF CheckpointEnds, AfterCheckpoint, importerVars, pipelineVars
<1>7. CASE CheckpointFails
  BY <1>7 DEF CheckpointFails, Fault
<1> QED
  BY <1>2, <1>3, <1>4, <1>5, <1>6, <1>7 DEF Next

\* Loading begins with nothing loaded ...
LEMMA LoadStarts ==
    ASSUME Init
    PROVE  LoadInv
<1>1. Threads!Init
  BY DEF Init, ImportInit, Pipeline!Init, Threads!Init, Pipeline!Batch, Threads!Batch,
     Pipeline!ProgressOf, Threads!ProgressOf
<1>2. /\ firstStep = [b \in Batch |-> "unread"] /\ realWrite = [b \in Batch |-> "absent"]
      /\ phase = "import" /\ snapshot = NoSnapshot /\ db = EmptyStore /\ durable = EmptyStore
  BY DEF Init, ImportInit, Pipeline!Init, Batch
<1>3. GraphOf(EmptyStore) = {}
  BY DEF GraphOf, EmptyStore, EmptyTable
<1>4. WholeBatches({})
  <2>1. {} = ChunksOf({}) /\ {} \in SUBSET Batch
    BY DEF ChunksOf
  <2> QED
    BY <2>1 DEF WholeBatches
<1> QED
  BY <1>1, <1>2, <1>3, <1>4, ThreadsStart DEF LoadInv, BuiltOK, WrittenOK, GraphsOK, PhasesOK

\* ... and every step keeps its invariant.
LEMMA LoadStays ==
    ASSUME "commit" \notin Faults, "checkpoint" \notin Faults, OneLabelPerEdge,
           Inv, SoundInv, LoadInv, [Next]_vars
    PROVE  LoadInv'
<1>1. Threads!PipelineInv' /\ BuiltOK'
  BY ThreadsKeepInv, StepKeepsBuilt DEF LoadInv
<1>2. NoSnapshot' = NoSnapshot
  BY DEF NoSnapshot
<1>3. WrittenOK'
  BY StepKeepsWritten DEF WrittenOK, ChunkOf
<1>4. GraphsOK'
  BY <1>2, StepKeepsGraphs DEF GraphsOK, WholeBatches, ChunksOf, ChunkOf
<1>5. PhasesOK'
  BY <1>2, StepKeepsPhases DEF PhasesOK, ChunksOf, ChunkOf
<1> QED
  BY <1>1, <1>3, <1>4, <1>5 DEF LoadInv

-----------------------------------------------------------------------------
(* Importing implements BulkLoad. *)

\* The phase of BulkLoad.
LoadPhase == CASE phase \in {"down", "failed"} -> "down"
               [] phase = "serve" -> "serving"
               [] OTHER -> "loading"

\* What BulkLoad calls chunks are the rows of the batches.
LEMMA LoadChunks ==
    /\ DOMAIN [b \in Batch |-> {RowsOf(b)[i] : i \in DOMAIN RowsOf(b)}] = Batch
    /\ \A b \in Batch : [c \in Batch |-> {RowsOf(c)[i] : i \in DOMAIN RowsOf(c)}][b] = ChunkOf(b)
    /\ Load!AllRows = ChunksOf(Batch)
  BY DEF ChunkOf, ChunksOf, Load!AllRows

\* A batch added while loading is BulkLoad's LoadBatch.
LEMMA LoadsBatch ==
    ASSUME NEW b \in Batch, LoadPhase = "loading", UNCHANGED <<durable, phase>>,
           GraphOf(db') = GraphOf(db) \cup ChunkOf(b)
    PROVE  Load!Next
<1>1. Load!LoadBatch(b)
  BY DEF Load!LoadBatch, LoadPhase, ChunkOf
<1> QED
  BY <1>1 DEF Load!Next
\* A step of import_data adds a batch to the graph or leaves it as it is.
LEMMA GraphOfImport ==
    ASSUME OneLabelPerEdge, Inv, SoundInv, LoadInv, Import
    PROVE  GraphOf(db') = GraphOf(db) \/ \E b \in Batch : GraphOf(db') = GraphOf(db) \cup ChunkOf(b)
<1>1. [Next]_vars
  BY DEF Next
<1>2. CASE ~ ProcessEnds
  BY <1>1, <1>2, StepOfGraph
<1>3. CASE ProcessEnds
  <2>1. line' = 0 /\ firstStep' = [b \in Batch |-> "unread"] /\ realWrite' = [b \in Batch |-> "absent"]
    BY <1>3 DEF ProcessEnds, Pipeline!EnterAgain, Batch
  <2>2. line \in Nat /\ firstStep \in [Batch -> Pipeline!FirstPC] /\ realWrite \in [Batch -> Pipeline!RealPC]
    BY RowsType, ThreadsFacts DEF Inv, LinesOK, StagesOK, LoadInv
  <2>3. ReadRow => db' = db
    BY <2>1, <2>2 DEF ReadRow
  <2>4. ASSUME NEW b \in Batch, FirstWrite(b) PROVE db' = db
    BY <2>1, <2>2, <2>4 DEF FirstWrite, Pipeline!FirstWrite, Pipeline!Moved
  <2>5. ASSUME NEW b \in Batch, CommitEdges(b) PROVE db' = db
    BY <2>1, <2>2, <2>5 DEF CommitEdges, Pipeline!RealWrite, Pipeline!Moved
  <2>6. Main \/ Progress => db' = db
    BY DEF Main, Progress, storeVars
  <2>7. ASSUME NEW b \in Batch, First(b) \/ FirstResolve(b) \/ FirstRelease(b) \/ Failure(b)
        PROVE  db' = db
    BY <2>7 DEF First, storeVars, FirstResolve, FirstRelease, Failure, FirstResolveFails,
         FirstWriteFails, FirstCommitFails, InsertFails, CommitEdgesFails
  <2>8. ASSUME NEW b \in Batch,
               Real(b) \/ BeginTransaction(b) \/ InsertEdge(b) \/ InsertConflicts(b)
        PROVE  db' = db
    BY <2>8 DEF Real, storeVars, BeginTransaction, InsertEdge, InsertConflicts
  <2>9. db' = db
    BY <2>3, <2>4, <2>5, <2>6, <2>7, <2>8 DEF Import, ImportNext, FirstStepTask, RealWriteTask
  <2> QED
    BY <2>9
<1> QED
  BY <1>2, <1>3

\* A checkpoint that ends saves what the store showed when it began.
LEMMA SavesMoment ==
    ASSUME LoadInv, CheckpointEnds
    PROVE  Load!Next
<1>1. /\ snapshot # NoSnapshot /\ durable' = snapshot /\ db' = db
      /\ phase \in {"import", "join", "last checkpoint"}
      /\ phase' \in {phase, "start"}
  BY DEF CheckpointEnds, AfterCheckpoint, LoadInv, PhasesOK, importerVars, storeVars
<1>2. PICK B \in SUBSET Batch : GraphOf(snapshot) = ChunksOf(B)
  BY <1>1 DEF LoadInv, GraphsOK, WholeBatches
<1>3. GraphOf(durable) \subseteq ChunksOf(B) /\ ChunksOf(B) \subseteq GraphOf(db)
  BY <1>1, <1>2 DEF LoadInv, GraphsOK
<1>4. GraphOf(durable') = ChunksOf(B) /\ GraphOf(db') = GraphOf(db)
  BY <1>1, <1>2
<1>5. LoadPhase = "loading" /\ LoadPhase' = "loading"
  BY <1>1 DEF LoadPhase
<1>6. Load!Checkpoint
  <2> DEFINE chunks == [b \in Batch |-> {RowsOf(b)[i] : i \in DOMAIN RowsOf(b)}]
  <2>1. B \in SUBSET DOMAIN chunks /\ \A b \in B : chunks[b] = ChunkOf(b)
    BY DEF ChunkOf
  <2> HIDE DEF chunks
  <2>2. UNION {chunks[b] : b \in B} = ChunksOf(B)
    BY <2>1 DEF ChunksOf
  <2>3. \E C \in SUBSET DOMAIN chunks :
           LET moment == UNION {chunks[b] : b \in C}
           IN  /\ GraphOf(durable) \subseteq moment /\ moment \subseteq GraphOf(db)
               /\ GraphOf(durable') = moment
    BY <1>3, <1>4, <2>1, <2>2
  <2> QED
    BY <1>4, <1>5, <2>3 DEF Load!Checkpoint, LoadPhase, chunks
<1> QED
  BY <1>6 DEF Load!Next

\* Every step of the process is one of BulkLoad's, or changes nothing of what
\* BulkLoad sees.
LEMMA StepLoads ==
    ASSUME "checkpoint" \notin Faults, OneLabelPerEdge, Inv, SoundInv, LoadInv, [Next]_vars
    PROVE  [Load!Next]_(Load!vars)
<1>1. ASSUME GraphOf(db') = GraphOf(db), durable' = durable, LoadPhase' = LoadPhase
      PROVE  UNCHANGED Load!vars
  BY <1>1 DEF Load!vars, LoadPhase
<1>2. CASE Import
  <2>1. phase = "import" /\ phase' = phase /\ durable' = durable
    BY <1>2 DEF Import, serverVars
  <2>2. LoadPhase = "loading" /\ LoadPhase' = LoadPhase
    BY <2>1 DEF LoadPhase
  <2>3. CASE GraphOf(db') = GraphOf(db)
    BY <1>1, <2>1, <2>2, <2>3
  <2>4. ASSUME NEW b \in Batch, GraphOf(db') = GraphOf(db) \cup ChunkOf(b)
        PROVE  Load!Next
    BY <2>1, <2>2, <2>4, LoadsBatch
  <2> QED
    BY <1>2, <2>3, <2>4, GraphOfImport
<1>3. CASE ImportReturns \/ Joined \/ CheckpointBegins \/ CheckpointerExits \/ Serving \/ GivenUp
           \/ RunAgain \/ UNCHANGED vars
  <2>1. db' = db /\ durable' = durable
    BY <1>3 DEF ImportReturns, Joined, CheckpointBegins, CheckpointerExits, Serving, GivenUp,
         RunAgain, vars, importerVars, storeVars, serverVars
  <2>2. LoadPhase' = LoadPhase
    BY <1>3 DEF ImportReturns, Joined, CheckpointBegins, CheckpointerExits, Serving, GivenUp,
         RunAgain, vars, serverVars, LoadPhase
  <2> QED
    BY <1>1, <2>1, <2>2
<1>4. CASE CheckpointEnds
  BY <1>4, SavesMoment
<1>5. CASE CheckpointFails
  BY <1>5 DEF CheckpointFails, Fault
<1>6. CASE StartServer
  <2>1. phase = "start" /\ phase' = "serve" /\ db' = db /\ durable' = durable
    BY <1>6 DEF StartServer, importerVars, storeVars
  <2>2. GraphOf(db) = ChunksOf(Batch) /\ GraphOf(durable) = ChunksOf(Batch)
    BY <2>1, ReturnedIsAll DEF LoadInv, PhasesOK
  <2>3. Load!Serve
    BY <2>1, <2>2, LoadChunks DEF Load!Serve
  <2> QED
    BY <2>3 DEF Load!Next
<1>7. CASE ImportFails \/ Crash
  <2>1. phase' \in {"down", "failed"} /\ db' = durable /\ durable' = durable
    BY <1>7 DEF ImportFails, Crash, ProcessEnds
  <2>2. Load!Stop
    BY <2>1 DEF Load!Stop
  <2> QED
    BY <2>2 DEF Load!Next
<1>8. CASE RestartImport \/ RestartServe
  <2>1. phase = "down" /\ phase' \in {"import", "serve"} /\ db' = db /\ durable' = durable
    BY <1>8 DEF RestartImport, RestartServe, importerVars, storeVars
  <2>2. Load!Start
    BY <2>1 DEF Load!Start
  <2> QED
    BY <2>2 DEF Load!Next
<1> QED
  BY <1>2, <1>3, <1>4, <1>5, <1>6, <1>7, <1>8 DEF Next

\* Importing implements BulkLoad, for any file that gives an edge one pair of
\* labels, as long as every commit and every checkpoint succeeds: readers see
\* whole batches, a crash falls back to whole batches, and main() serves after
\* an import only what is all written and all saved.
THEOREM ImplementsBulkLoadTheorem ==
    ASSUME "commit" \notin Faults, "checkpoint" \notin Faults, OneLabelPerEdge
    PROVE  Spec => ImplementsBulkLoad
<1>1. Init => Load!Init
  <2> SUFFICES ASSUME Init PROVE Load!Init
    OBVIOUS
  <2>1. db = EmptyStore /\ durable = EmptyStore /\ phase = "import"
    BY DEF Init, ImportInit
  <2>2. GraphOf(EmptyStore) = {}
    BY DEF GraphOf, EmptyStore, EmptyTable
  <2> QED
    BY <2>1, <2>2 DEF Load!Init
<1>2. Init => LoadInv
  BY LoadStarts
<1>3. Inv /\ SoundInv /\ LoadInv /\ [Next]_vars => LoadInv'
  BY LoadStays
<1>4. Inv /\ SoundInv /\ LoadInv /\ [Next]_vars => [Load!Next]_(Load!vars)
  BY StepLoads
<1> QED
  BY <1>1, <1>2, <1>3, <1>4, Invariance, SoundInvariance, PTL
     DEF Spec, ImplementsBulkLoad, Load!Spec

-----------------------------------------------------------------------------
(* What the readers are served: needs that no look-up and no commit fails,  *)
(* though not for the ids of names, which are always the first ones.        *)

CacheIsFirst(table, cache) == \A n \in DOMAIN cache : FirstIn(table, cache[n])

EdgeIsFirst(s, relation, label) ==
    FirstIn(s.relation_type, relation) /\ FirstIn(s.label_type, label)

\* All the ids of names that a store refers to are first ids.
UsesFirsts(s) ==
    /\ \A id \in DOMAIN s.vertex : FirstIn(s.label_type, s.vertex[id].label_type_id)
    /\ \A key \in DOMAIN s.edge : EdgeIsFirst(s, key.relation_type_id, s.edge[key])

\* ... and so are those that main and the batches carry.
CachesAreFirst ==
    /\ CacheIsFirst(db.label_type, label_type_cache)
    /\ CacheIsFirst(db.relation_type, relation_type_cache)
BuiltAreFirst ==
    \A b \in Batch : \A i \in DOMAIN edges[b] :
       EdgeIsFirst(db, edges[b][i].key.relation_type_id, edges[b][i].end_label_type_id)

FirstInv ==
    /\ CachesAreFirst /\ BuiltAreFirst
    /\ UsesFirsts(db) /\ UsesFirsts(durable) /\ (snapshot # NoSnapshot => UsesFirsts(snapshot))

\* write_label_type and write_relation_type put the first id in the cache, also
\* when they have appended a name that the table had.
LEMMA NameWrittenIsFirst ==
    ASSUME NEW table, NEW cache, TableOK(table), CacheIsFirst(table, cache), NEW name
    PROVE  LET w == NameWritten(table, cache, name)
           IN  CacheIsFirst(w.table, w.cache)
<1> DEFINE w == NameWritten(table, cache, name)
           new == WithName(table, name)
           id == IdOfName(new, name)
<1>1. CASE name \in DOMAIN cache
  BY <1>1 DEF NameWritten
<1>2. CASE name \notin DOMAIN cache
  <2>1. w.table = new /\ w.cache = WithEntry(cache, name, id)
    BY <1>2 DEF NameWritten
  <2>2. TableOK(new) /\ Extends(new, table)
    BY AppendedTable DEF WithName
  <2>3. IdsOfName(new, name) # {}
    BY DEF WithName, WithEntry, IdsOfName
  <2>4. id \in IdsOfName(new, name) /\ \A other \in IdsOfName(new, name) : id <= other
    BY <2>2, <2>3, IdOfNameFound DEF Extends
  <2>5. FirstIn(new, id)
    <3> HIDE DEF new, id
    <3>1. id \in DOMAIN new /\ new[id] = name
      BY <2>4 DEF IdsOfName
    <3> QED
      BY <2>4, <3>1 DEF FirstIn, IsFirst
  <2>6. \A n \in DOMAIN cache : FirstIn(new, cache[n])
    BY <2>2, FirstStays DEF CacheIsFirst
  <2> HIDE DEF new, id
  <2>7. \A n \in DOMAIN WithEntry(cache, name, id) : FirstIn(new, WithEntry(cache, name, id)[n])
    BY <1>2, <2>5, <2>6 DEF WithEntry
  <2>8. CacheIsFirst(new, WithEntry(cache, name, id))
    BY <2>7 DEF CacheIsFirst
  <2> QED
    BY <2>1, <2>8
<1> QED
  BY <1>1, <1>2

\* Rows added later leave the first ids first.
LEMMA EdgeStaysFirst ==
    ASSUME NEW s, NEW t, Grows(t, s), NEW relation, NEW label, EdgeIsFirst(s, relation, label)
    PROVE  EdgeIsFirst(t, relation, label)
  BY FirstStays DEF Grows, EdgeIsFirst

LEMMA CacheStaysFirst ==
    ASSUME NEW table, NEW later, Extends(later, table), NEW cache, CacheIsFirst(table, cache)
    PROVE  CacheIsFirst(later, cache)
  BY FirstStays DEF CacheIsFirst

\* Reading a row.
LEMMA ReadRowCachesFirst ==
    ASSUME Inv, CachesAreFirst, ReadRow
    PROVE  CachesAreFirst'
<1> DEFINE row == Rows[line + 1]
           relation == NameWritten(db.relation_type, relation_type_cache, row.relation_type)
           start == NameWritten(db.label_type, label_type_cache, row.start_label_type)
           end == NameWritten(start.table, start.cache, row.end_label_type)
<1>1. /\ db' = [db EXCEPT !.relation_type = relation.table, !.label_type = end.table]
      /\ relation_type_cache' = relation.cache /\ label_type_cache' = end.cache
  BY DEF ReadRow
<1>2. /\ TableOK(db.label_type) /\ TableOK(db.relation_type) /\ IsStore(db)
      /\ CacheOK(db.label_type, label_type_cache)
  BY DEF Inv, StoresOK, IsStore, CachesOK
<1>3. CacheIsFirst(relation.table, relation.cache)
  BY <1>2, NameWrittenIsFirst DEF CachesAreFirst
<1>4. CacheIsFirst(start.table, start.cache) /\ TableOK(start.table)
  BY <1>2, NameWrittenIsFirst, NameWrittenKeeps DEF CachesAreFirst
<1>5. CacheIsFirst(end.table, end.cache)
  BY <1>4, NameWrittenIsFirst
<1> HIDE DEF relation, start, end
<1>6. db'.label_type = end.table /\ db'.relation_type = relation.table
  BY <1>1, <1>2 DEF IsStore
<1> QED
  BY <1>1, <1>3, <1>5, <1>6 DEF CachesAreFirst, CacheIsFirst, FirstIn, IsFirst

\* The caches follow the tables.
LEMMA StepKeepsCachesFirst ==
    ASSUME Inv, CachesAreFirst, [Next]_vars
    PROVE  CachesAreFirst'
<1>1. CASE ReadRow
  BY <1>1, ReadRowCachesFirst
<1>2. CASE ProcessEnds
  BY <1>2 DEF ProcessEnds, CachesAreFirst, CacheIsFirst, EmptyTable
<1>3. CASE ~ ProcessEnds /\ UNCHANGED <<label_type_cache, relation_type_cache>>
  <2>1. Grows(db', db)
    BY <1>3, StepGrows
  <2>2. /\ CacheIsFirst(db'.label_type, label_type_cache)
        /\ CacheIsFirst(db'.relation_type, relation_type_cache)
    BY <2>1, CacheStaysFirst DEF CachesAreFirst, Grows
  <2> QED
    BY <1>3, <2>2 DEF CachesAreFirst, CacheIsFirst, FirstIn, IsFirst
<1>4. ASSUME NEW b \in Batch,
             \/ FirstResolve(b) \/ FirstResolveFails(b)
             \/ FirstWrite(b) \/ FirstWriteFails(b) \/ FirstCommitFails(b)
             \/ FirstRelease(b) \/ CommitEdges(b)
      PROVE  UNCHANGED <<label_type_cache, relation_type_cache>>
  BY <1>4 DEF FirstResolve, FirstResolveFails, FirstWrite, FirstWriteFails, FirstCommitFails,
       FirstRelease, CommitEdges
<1>5. CASE UNCHANGED Data
  BY <1>3, <1>5, <1>2 DEF Data
<1> QED
  BY <1>1, <1>2, <1>3, <1>4, <1>5, StepCases

\* The edges that the first step builds carry ids of main's caches.
LEMMA BuiltFirst ==
    ASSUME Inv, CachesAreFirst, NEW b \in Batch, FirstRelease(b), NEW i \in DOMAIN EdgesOf(b)
    PROVE  EdgeIsFirst(db, EdgesOf(b)[i].key.relation_type_id, EdgesOf(b)[i].end_label_type_id)
<1> DEFINE k == (i + 1) \div 2
           row == RowsOf(b)[k]
           n == Len(RowsOf(b))
<1>1. n \in Nat /\ i \in 1 .. 2 * n
  BY BatchRows DEF EdgesOf
<1> HIDE DEF n
<1>2. k \in 1 .. n
  BY <1>1
<1>3. /\ EdgesOf(b)[i].key.relation_type_id = relation_type_cache[row.relation_type]
      /\ EdgesOf(b)[i].end_label_type_id \in
            {label_type_cache[row.start_label_type], label_type_cache[row.end_label_type]}
  <2>1. EdgesOf(b)[i] =
           LET start == pk_to_ids[b][row.start_pk]
               end == pk_to_ids[b][row.end_pk]
               relation == relation_type_cache[row.relation_type]
           IN  IF i % 2 = 1
               THEN [key |-> EdgeKey(start, "OUTGOING", relation, end),
                     end_label_type_id |-> label_type_cache[row.end_label_type]]
               ELSE [key |-> EdgeKey(end, "INCOMING", relation, start),
                     end_label_type_id |-> label_type_cache[row.start_label_type]]
    BY <1>1 DEF EdgesOf, n
  <2> HIDE DEF row
  <2> QED
    BY <2>1 DEF EdgeKey
<1> HIDE DEF k
<1>4. PICK j \in 1 .. LastLine(b) : row = Rows[j]
  BY <1>2, BatchRows DEF n
<1>5. firstStep[b] # "unread"
  BY DEF FirstRelease, Pipeline!FirstRelease, Pipeline!At
<1>6. LastLine(b) <= line /\ LastLine(b) \in Nat /\ line \in Nat
  BY <1>5, BatchLines DEF Inv, LinesOK
<1>7. j \in 1 .. line
  BY <1>6
<1>8. /\ {row.start_label_type, row.end_label_type} \subseteq DOMAIN label_type_cache
      /\ row.relation_type \in DOMAIN relation_type_cache
  BY <1>4, <1>7 DEF Inv, CachesOK
<1> HIDE DEF row
<1> QED
  BY <1>3, <1>8 DEF CachesAreFirst, CacheIsFirst, EdgeIsFirst

\* What the batches carry stays first in a store that grows.
LEMMA StepKeepsBuiltFirst ==
    ASSUME Inv, CachesAreFirst, BuiltAreFirst, [Next]_vars
    PROVE  BuiltAreFirst'
<1>1. DOMAIN edges = Batch
  BY DEF Inv, EdgesOK
<1>2. CASE ProcessEnds
  BY <1>2 DEF ProcessEnds, BuiltAreFirst
<1>3. CASE ~ ProcessEnds
  <2>1. Grows(db', db)
    BY <1>3, StepGrows
  <2>2. \A b \in Batch : \A i \in DOMAIN edges[b] :
           EdgeIsFirst(db', edges[b][i].key.relation_type_id, edges[b][i].end_label_type_id)
    BY <2>1, EdgeStaysFirst DEF BuiltAreFirst
  <2>3. ASSUME NEW b \in Batch, FirstRelease(b) PROVE BuiltAreFirst'
    <3>1. edges' = [edges EXCEPT ![b] = EdgesOf(b)] /\ db' = db
      BY <2>3 DEF FirstRelease
    <3>2. edges'[b] = EdgesOf(b) /\ \A c \in Batch \ {b} : edges'[c] = edges[c]
      BY <1>1, <3>1
    <3>3. \A i \in DOMAIN edges'[b] :
             EdgeIsFirst(db', edges'[b][i].key.relation_type_id, edges'[b][i].end_label_type_id)
      BY <2>3, <3>1, <3>2, BuiltFirst
    <3>4. \A c \in Batch : \A i \in DOMAIN edges'[c] :
             EdgeIsFirst(db', edges'[c][i].key.relation_type_id, edges'[c][i].end_label_type_id)
      BY <2>2, <3>2, <3>3
    <3> QED
      BY <3>4 DEF BuiltAreFirst, EdgeIsFirst, FirstIn, IsFirst
  <2>4. ASSUME edges' = edges PROVE BuiltAreFirst'
    <3>1. \A c \in Batch : \A i \in DOMAIN edges'[c] :
             EdgeIsFirst(db', edges'[c][i].key.relation_type_id, edges'[c][i].end_label_type_id)
      BY <2>2, <2>4
    <3> QED
      BY <3>1 DEF BuiltAreFirst, EdgeIsFirst, FirstIn, IsFirst
  <2>5. ReadRow => edges' = edges
    BY DEF ReadRow
  <2>6. ASSUME NEW b \in Batch,
               \/ FirstResolve(b) \/ FirstResolveFails(b)
               \/ FirstWrite(b) \/ FirstWriteFails(b) \/ FirstCommitFails(b)
               \/ CommitEdges(b)
        PROVE  edges' = edges
    BY <2>6 DEF FirstResolve, FirstResolveFails, FirstWrite, FirstWriteFails, FirstCommitFails,
         CommitEdges
  <2>7. UNCHANGED Data => edges' = edges
    BY DEF Data
  <2> QED
    BY <1>3, <2>3, <2>4, <2>5, <2>6, <2>7, StepCases
<1> QED
  BY <1>2, <1>3

\* The vertices: write_vertices takes their labels from main's cache.
LEMMA VerticesUseFirsts ==
    ASSUME Inv, CachesAreFirst, UsesFirsts(db), [Next]_vars, ~ ProcessEnds
    PROVE  \A id \in DOMAIN db'.vertex : FirstIn(db'.label_type, db'.vertex[id].label_type_id)
<1>1. Grows(db', db)
  BY StepGrows
<1>2. \A id \in DOMAIN db.vertex : FirstIn(db'.label_type, db.vertex[id].label_type_id)
  BY <1>1, FirstStays DEF Grows, UsesFirsts
<1>3. ASSUME NEW b \in Batch, FirstWrite(b), NEW id \in DOMAIN db'.vertex
      PROVE  FirstIn(db'.label_type, db'.vertex[id].label_type_id)
  <2> DEFINE ids == {AppendedId(b, pk) : pk \in Unresolved(b)}
  <2>1. /\ IsStore(db) /\ append_recno \in Nat /\ DOMAIN pk_to_ids = Batch
    BY DEF Inv, StoresOK, VerticesOK, ResolvedOK
  <2>2. /\ db' = [label_type |-> db.label_type, relation_type |-> db.relation_type,
                  vertex |-> db'.vertex, edge |-> db.edge]
        /\ DOMAIN db'.vertex = DOMAIN db.vertex \cup ids
        /\ \A pk \in Unresolved(b) :
              db'.vertex[AppendedId(b, pk)] = [label_type_id |-> LabelIdOf(b, pk), vertex_pk |-> pk]
        /\ \A k \in DOMAIN db.vertex \ ids : db'.vertex[k] = db.vertex[k]
    BY <1>3, <2>1, VerticesAppended
  <2>3. db'.label_type = db.label_type
    BY <2>2
  <2>4. CASE id \in ids
    <3>1. PICK pk \in Unresolved(b) : id = AppendedId(b, pk)
      BY <2>4
    <3>2. firstStep[b] # "unread"
      BY <1>3 DEF FirstWrite, Pipeline!FirstWrite, Pipeline!At
    <3>3. Mentions[b][FirstMention[b][pk]].label \in DOMAIN label_type_cache
      BY <3>2, LabelsCached DEF Unresolved
    <3>4. FirstIn(db.label_type, LabelIdOf(b, pk))
      BY <3>3 DEF CachesAreFirst, CacheIsFirst, LabelIdOf
    <3>5. db'.vertex[id] = [label_type_id |-> LabelIdOf(b, pk), vertex_pk |-> pk]
      BY <2>2, <3>1
    <3>6. db'.vertex[id].label_type_id = LabelIdOf(b, pk)
      BY <3>5
    <3> QED
      BY <2>3, <3>4, <3>6
  <2>5. CASE id \notin ids
    BY <1>2, <1>3, <2>2, <2>5
  <2> QED
    BY <2>4, <2>5
<1>4. CASE \A b \in Batch : ~ FirstWrite(b)
  BY <1>2, <1>4, VerticesStay
<1> QED
  BY <1>3, <1>4

\* The edges: write_edges writes what the first step has built.
LEMMA EdgesUseFirsts ==
    ASSUME Inv, BuiltAreFirst, UsesFirsts(db), [Next]_vars, ~ ProcessEnds
    PROVE  \A key \in DOMAIN db'.edge : EdgeIsFirst(db', key.relation_type_id, db'.edge[key])
<1>1. Grows(db', db)
  BY StepGrows
<1>2. \A key \in DOMAIN db.edge : EdgeIsFirst(db', key.relation_type_id, db.edge[key])
  BY <1>1, EdgeStaysFirst DEF UsesFirsts
<1>3. ASSUME NEW b \in Batch, CommitEdges(b), NEW key \in DOMAIN db'.edge
      PROVE  EdgeIsFirst(db', key.relation_type_id, db'.edge[key])
  <2> DEFINE W == Written(b)
             last(x) == Max(Places(edges[b], x))
             new == [x \in W |-> edges[b][last(x)].end_label_type_id]
  <2>1. db' = [db EXCEPT !.edge = WithEntries(@, new)]
    BY <1>3 DEF CommitEdges, Places
  <2>2. IsStore(db)
    BY DEF Inv, StoresOK
  <2>3. db' = [label_type |-> db.label_type, relation_type |-> db.relation_type,
               vertex |-> db.vertex, edge |-> WithEntries(db.edge, new)]
    BY <2>1, <2>2 DEF IsStore
  <2>4. db'.edge = WithEntries(db.edge, new)
    BY <2>3
  <2>5. /\ DOMAIN db'.edge = DOMAIN db.edge \cup W
        /\ \A x \in W : db'.edge[x] = edges[b][last(x)].end_label_type_id
        /\ \A x \in DOMAIN db.edge \ W : db'.edge[x] = db.edge[x]
    BY <2>4 DEF WithEntries
  <2>6. CASE key \in W
    <3> DEFINE P == Places(edges[b], key)
    <3>1. PICK m \in Nat : DOMAIN edges[b] = 1 .. m /\ Len(edges[b]) = m
      <4>1. CASE edges[b] = <<>>
        BY <4>1
      <4>2. CASE edges[b] # <<>>
        <5>1. Len(RowsOf(b)) \in Nat
          BY BatchRows
        <5>2. 2 * Len(RowsOf(b)) \in Nat
          BY <5>1
        <5> QED
          BY <4>2, <5>2 DEF Inv, EdgesOK
      <4> QED
        BY <4>1, <4>2
    <3>2. txn[b].written = m
      BY <1>3, <3>1 DEF CommitEdges
    <3>3. PICK j \in 1 .. m : edges[b][j].key = key
      BY <2>6, <3>2 DEF Written
    <3>4. P \in SUBSET Nat /\ j \in P /\ \A i \in P : i <= m
      BY <3>1, <3>3 DEF Places
    <3> HIDE DEF P
    <3>5. Max(P) \in P
      BY <3>4, MaxExists
    <3>6. Max(P) \in DOMAIN edges[b] /\ edges[b][Max(P)].key = key
      BY <3>5 DEF P, Places
    <3>7. EdgeIsFirst(db, key.relation_type_id, edges[b][Max(P)].end_label_type_id)
      BY <3>6 DEF BuiltAreFirst
    <3>8. db'.edge[key] = edges[b][Max(P)].end_label_type_id
      BY <2>5, <2>6 DEF P
    <3> QED
      BY <1>1, <3>7, <3>8, EdgeStaysFirst
  <2>7. CASE key \notin W
    BY <1>2, <1>3, <2>5, <2>7
  <2> QED
    BY <2>6, <2>7
<1>4. CASE \A b \in Batch : ~ CommitEdges(b)
  BY <1>2, <1>4, EdgesStay
<1> QED
  BY <1>3, <1>4

\* All the ids stay first ones, in the store and in both checkpoints.
LEMMA StepKeepsFirst ==
    ASSUME Inv, FirstInv, [Next]_vars
    PROVE  FirstInv'
<1>1. CachesAreFirst' /\ BuiltAreFirst'
  BY StepKeepsCachesFirst, StepKeepsBuiltFirst DEF FirstInv
<1>2. /\ UsesFirsts(db) /\ UsesFirsts(durable) /\ (snapshot # NoSnapshot => UsesFirsts(snapshot))
  BY DEF FirstInv
<1>3. UsesFirsts(db') /\ UsesFirsts(durable') /\ (snapshot' # NoSnapshot => UsesFirsts(snapshot'))
  <2>1. CASE ProcessEnds
    BY <1>2, <2>1 DEF ProcessEnds
  <2>2. CASE ~ ProcessEnds
    <3>1. UsesFirsts(db')
      BY <1>2, <2>2, VerticesUseFirsts, EdgesUseFirsts DEF FirstInv, UsesFirsts
    <3>2. CASE UNCHANGED Saved
      BY <1>2, <3>1, <3>2 DEF Saved
    <3>3. CASE CheckpointStep
      BY <1>2, <3>1, <3>3 DEF CheckpointStep
    <3> QED
      BY <2>2, <3>2, <3>3, StepCases
  <2> QED
    BY <2>1, <2>2
<1>4. NoSnapshot' = NoSnapshot
  BY DEF NoSnapshot
<1> QED
  BY <1>1, <1>3, <1>4 DEF FirstInv, UsesFirsts, EdgeIsFirst, FirstIn, IsFirst

\* Whatever fails: the vertices and edges of the store and of its checkpoints
\* refer to a label and to a relation by the first id of its name, which is the
\* one that the readers translate the name to.
THEOREM FirstIdsTheorem == Spec => [](IdsAreFirst(db) /\ IdsAreFirst(durable))
<1>1. Init => FirstInv
  <2> SUFFICES ASSUME Init PROVE FirstInv
    OBVIOUS
  <2>1. db = EmptyStore /\ durable = EmptyStore /\ snapshot = NoSnapshot
        /\ label_type_cache = EmptyTable /\ relation_type_cache = EmptyTable
        /\ edges = [b \in Batch |-> <<>>]
    BY DEF Init, ImportInit
  <2>2. DOMAIN EmptyTable = {} /\ DOMAIN EmptyStore.edge = {} /\ DOMAIN EmptyStore.vertex = {}
    BY DEF EmptyTable, EmptyStore
  <2> QED
    BY <2>1, <2>2 DEF FirstInv, CachesAreFirst, CacheIsFirst, BuiltAreFirst, UsesFirsts
<1>2. Inv /\ FirstInv /\ [Next]_vars => FirstInv'
  BY StepKeepsFirst
<1>3. FirstInv => IdsAreFirst(db) /\ IdsAreFirst(durable)
  BY DEF FirstInv, UsesFirsts, EdgeIsFirst, FirstIn, IdsAreFirst
<1> QED
  BY <1>1, <1>2, <1>3, Invariance, PTL DEF Spec

\* What Service takes for granted of the store that is served, and of the one
\* that a restart would serve: an import leaves it so, as long as get_vertex_ids
\* fails for no key and commit_transaction for no batch.
THEOREM ServableTheorem ==
    ASSUME "lookup" \notin Faults, "commit" \notin Faults
    PROVE  Spec => [](Servable(db) /\ Servable(durable))
<1>1. ASSUME NEW s, IsStore(s), ReferencesResolve(s), OnePerPk(s), IdsAreFirst(s)
      PROVE  Servable(s)
  BY <1>1 DEF IsStore, TableOK, Servable
<1>2. Inv /\ NoDanglingReference /\ OneVertexPerPk /\ IdsAreFirst(db) /\ IdsAreFirst(durable)
         => Servable(db) /\ Servable(durable)
  BY <1>1 DEF Inv, StoresOK, NoDanglingReference, OneVertexPerPk, OnePerPk
<1> QED
  BY <1>2, Invariance, NoDanglingReferenceTheorem, OneVertexPerPkTheorem, FirstIdsTheorem, PTL
=============================================================================
