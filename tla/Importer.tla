------------------------------ MODULE Importer ------------------------------
(***************************************************************************)
(* Importer::import_data with the rows it carries and the database it      *)
(* writes: the threads of ImportPipeline, each of whose steps does here    *)
(* what it does to the store.                                              *)
(*                                                                         *)
(* db holds the committed rows of all tables.  The vertex table is written *)
(* by the first-step worker alone and its transactions are never open      *)
(* while another thread looks, so a transaction on it is one step; the     *)
(* edge writers run concurrently, so their transactions are modelled       *)
(* insert by insert with WiredTiger's rule that an insert fails when       *)
(* another open transaction has written the key, or when one committed it  *)
(* after this transaction took its snapshot.                               *)
(***************************************************************************)
EXTENDS GraphStore, Sequences
LOCAL INSTANCE FiniteSetsExt

CONSTANTS
    Rows,          \* the data rows of the input file, in order
    BatchSize,     \* --batch_size
    Concurrency,   \* --concurrency
    FileTypes,     \* the types of the input file
    Faults,        \* the WiredTiger calls that may fail in this instance
    MaxFaults      \* how many such failures are explored

\* Every row has a value in the five columns that import_data asks for.
ASSUME RowsAssumption ==
    /\ Rows \in Seq({Rows[i] : i \in DOMAIN Rows})
    /\ \A i \in DOMAIN Rows :
          Rows[i] = [start_pk |-> Rows[i].start_pk,
                     start_label_type |-> Rows[i].start_label_type,
                     relation_type |-> Rows[i].relation_type,
                     end_pk |-> Rows[i].end_pk,
                     end_label_type |-> Rows[i].end_label_type]
ASSUME BatchSizeAssumption == BatchSize \in Nat \ {0}
\* Each of import_data's pools has a thread, and the file is of a known type.
ASSUME WritersAssumption ==
    /\ Concurrency \in Nat \ {0}
    /\ FileTypes \subseteq {"CSV", "Excel"}
ASSUME FaultsAssumption ==
    /\ Faults \subseteq {"lookup", "append", "insert", "commit", "checkpoint"}
    /\ MaxFaults \in Nat

NumBatches == (Len(Rows) + BatchSize - 1) \div BatchSize

VARIABLES
    main, next, firstStep, realWrite, control_write_first_step,
    control_real_write_edge, async_task_wg, writed_completed, progress,
    line,                  \* data rows read so far
    db,                    \* the committed rows of every table
    label_type_cache,      \* main's writer: name |-> id
    relation_type_cache,   \* main's writer: name |-> id
    append_recno,          \* the last vertex record number handed out
    pk_to_ids,             \* per batch: primary key |-> vertex id
    edges,                 \* per batch: the edges handed to the edge writers
    txn,                   \* per batch: the open write_edges transaction
    faults                 \* failures so far

Pipeline == INSTANCE ImportPipeline

Batch == Pipeline!Batch
pipelineVars == <<main, next, firstStep, realWrite, control_write_first_step,
                  control_real_write_edge, async_task_wg, writed_completed, progress>>
storeVars == <<line, db, label_type_cache, relation_type_cache, append_recno, pk_to_ids, edges,
               txn, faults>>
importerVars == <<pipelineVars, storeVars>>

\* The rows of a batch.
FirstLine(b) == (b - 1) * BatchSize + 1
LastLine(b) == IF b * BatchSize < Len(Rows) THEN b * BatchSize ELSE Len(Rows)
RowsOf(b) == SubSeq(Rows, FirstLine(b), LastLine(b))

\* No write_edges transaction is open.
NoTxn == [open |-> FALSE, written |-> 0, missed |-> {}]

ImportInit ==
    /\ Pipeline!Init
    /\ line = 0
    /\ db = EmptyStore
    /\ label_type_cache = EmptyTable
    /\ relation_type_cache = EmptyTable
    /\ append_recno = 0
    /\ pk_to_ids = [b \in Batch |-> EmptyTable]
    /\ edges = [b \in Batch |-> <<>>]
    /\ txn = [b \in Batch |-> NoTxn]
    /\ faults = 0

-----------------------------------------------------------------------------
(* main: reading a row writes its relation and label names. *)

\* One pass of write_label_type or write_relation_type over <<table, cache>>:
\* a name that is not in the cache is appended, whether the table has it or
\* not, and the cache takes the smallest id the index has for the name.
WithName(table, name) == WithEntry(table, LastRecno(table) + 1, name)
NameWritten(table, cache, name) ==
    IF name \in DOMAIN cache
    THEN [table |-> table, cache |-> cache]
    ELSE [table |-> WithName(table, name),
          cache |-> WithEntry(cache, name, IdOfName(WithName(table, name), name))]

\* A row is read and joins the batch; the row that fills the batch, or ends
\* the file, makes main leave the reading loop for run_write_task.
ReadRow ==
    /\ main = "read" /\ next \in Batch
    /\ firstStep[next] = "unread"
    /\ LET row == Rows[line + 1]
           relation == NameWritten(db.relation_type, relation_type_cache, row.relation_type)
           start == NameWritten(db.label_type, label_type_cache, row.start_label_type)
           end == NameWritten(start.table, start.cache, row.end_label_type)
       IN  /\ db' = [db EXCEPT !.relation_type = relation.table, !.label_type = end.table]
           /\ relation_type_cache' = relation.cache
           /\ label_type_cache' = end.cache
    /\ line' = line + 1
    /\ IF line + 1 = LastLine(next) THEN Pipeline!FillBatch ELSE UNCHANGED pipelineVars
    /\ UNCHANGED <<append_recno, pk_to_ids, edges, txn, faults>>

\* The other steps of main do not touch the store.
Main ==
    /\ \/ Pipeline!AcquireFirstStep \/ Pipeline!CountFirstStep \/ Pipeline!EnqueueFirstStep
       \/ Pipeline!EndOfFile \/ Pipeline!InputError \/ Pipeline!Unwind
       \/ Pipeline!WaitTasks \/ Pipeline!ReturnFromImport
    /\ UNCHANGED storeVars

-----------------------------------------------------------------------------
(* The first step: import_edges_first_step up to the hand-over. *)

\* The primary keys of a batch in reading order, with the label of their column.
Mentions ==
    [b \in Batch |-> [i \in 1 .. 2 * Len(RowsOf(b)) |->
        LET row == RowsOf(b)[(i + 1) \div 2]
        IN  IF i % 2 = 1
            THEN [pk |-> row.start_pk, label |-> row.start_label_type]
            ELSE [pk |-> row.end_pk, label |-> row.end_label_type]]]
Pks == [b \in Batch |-> {Mentions[b][i].pk : i \in DOMAIN Mentions[b]}]

\* A key that a batch mentions more than once is kept with its first label.
FirstMention ==
    [b \in Batch |-> [pk \in Pks[b] |->
        Min({i \in DOMAIN Mentions[b] : Mentions[b][i].pk = pk})]]
LabelIdOf(b, pk) == label_type_cache[Mentions[b][FirstMention[b][pk]].label]

Unresolved(b) == Pks[b] \ DOMAIN pk_to_ids[b]

\* The record number write_vertices appends an unresolved key under.
AppendedId(b, pk) ==
    append_recno
      + Cardinality({q \in Unresolved(b) : FirstMention[b][q] <= FirstMention[b][pk]})

\* Mutant: no key is found, which is what get_vertex_ids of
\* OneTrxReaderWiredTiger answers.
FirstResolveFindsNone(b) ==
    /\ Pipeline!FirstResolve(b)
    /\ pk_to_ids' = [pk_to_ids EXCEPT ![b] = EmptyTable]
    /\ UNCHANGED <<line, db, label_type_cache, relation_type_cache, append_recno, edges, txn,
                   faults>>

\* get_vertex_ids over the distinct keys of the batch, in a snapshot.
FirstResolve(b) ==
    /\ Pipeline!FirstResolve(b)
    /\ pk_to_ids' = [pk_to_ids EXCEPT ![b] = VertexIds(db.vertex, Pks[b])]
    /\ UNCHANGED <<line, db, label_type_cache, relation_type_cache, append_recno, edges, txn,
                   faults>>

Fault(call) == call \in Faults /\ faults < MaxFaults /\ faults' = faults + 1

\* A call of get_vertex_ids fails: each key it concerns is answered as if it
\* had no vertex.
FirstResolveFails(b) ==
    /\ Pipeline!FirstResolve(b)
    /\ Fault("lookup")
    /\ LET ids == VertexIds(db.vertex, Pks[b])
       IN  \E found \in SUBSET DOMAIN ids :
              pk_to_ids' = [pk_to_ids EXCEPT ![b] = [pk \in found |-> ids[pk]]]
    /\ UNCHANGED <<line, db, label_type_cache, relation_type_cache, append_recno, edges, txn>>

\* write_vertices succeeds: the unresolved keys are appended in one transaction.
FirstWrite(b) ==
    /\ Pipeline!FirstWrite(b)
    /\ LET new == [pk \in Unresolved(b) |-> AppendedId(b, pk)]
           row(id) == CHOOSE pk \in Unresolved(b) : new[pk] = id
       IN  /\ db' = [db EXCEPT !.vertex =
                       WithEntries(@, [id \in {new[pk] : pk \in Unresolved(b)} |->
                           [label_type_id |-> LabelIdOf(b, row(id)), vertex_pk |-> row(id)]])]
           /\ pk_to_ids' = [pk_to_ids EXCEPT ![b] = WithEntries(@, new)]
    /\ append_recno' = append_recno + Cardinality(Unresolved(b))
    /\ UNCHANGED <<line, label_type_cache, relation_type_cache, edges, txn, faults>>

\* Mutant: the exception is swallowed after the rollback.
FirstWriteNotRetried(b) ==
    /\ Pipeline!FirstWrite(b)
    /\ Fault("append")
    /\ pk_to_ids' = [pk_to_ids EXCEPT
                       ![b] = WithEntries(@, [pk \in Unresolved(b) |-> AppendedId(b, pk)])]
    /\ append_recno' = append_recno + Cardinality(Unresolved(b))
    /\ UNCHANGED <<line, db, label_type_cache, relation_type_cache, edges, txn>>

\* A row of write_vertices cannot be inserted: the transaction is rolled back,
\* the record numbers it used stay used, and import_edges_first_step retries.
FirstWriteFails(b) ==
    /\ firstStep[b] = "write" /\ Unresolved(b) # {}
    /\ Fault("append")
    /\ append_recno' \in append_recno .. append_recno + Cardinality(Unresolved(b))
    /\ UNCHANGED <<pipelineVars, line, db, label_type_cache, relation_type_cache, pk_to_ids,
                   edges, txn>>

\* commit_transaction fails: write_vertices does not look at its code and
\* returns the ids of rows that were rolled back.
FirstCommitFails(b) ==
    /\ Pipeline!FirstWrite(b)
    /\ Fault("commit")
    /\ pk_to_ids' = [pk_to_ids EXCEPT
                       ![b] = WithEntries(@, [pk \in Unresolved(b) |-> AppendedId(b, pk)])]
    /\ append_recno' = append_recno + Cardinality(Unresolved(b))
    /\ UNCHANGED <<line, db, label_type_cache, relation_type_cache, edges, txn>>

\* Mutant: the incoming edge keeps the ends of the outgoing one.
EdgesOfNotTurned(b) ==
    [i \in 1 .. 2 * Len(RowsOf(b)) |->
        LET row == RowsOf(b)[(i + 1) \div 2]
        IN  [key |-> EdgeKey(pk_to_ids[b][row.start_pk],
                             IF i % 2 = 1 THEN "OUTGOING" ELSE "INCOMING",
                             relation_type_cache[row.relation_type],
                             pk_to_ids[b][row.end_pk]),
             end_label_type_id |-> label_type_cache[row.end_label_type]]]

\* Mutant: each edge carries the label of its own start.
EdgesOfOwnLabel(b) ==
    [i \in 1 .. 2 * Len(RowsOf(b)) |->
        LET row == RowsOf(b)[(i + 1) \div 2]
            start == pk_to_ids[b][row.start_pk]
            end == pk_to_ids[b][row.end_pk]
            relation == relation_type_cache[row.relation_type]
        IN  IF i % 2 = 1
            THEN [key |-> EdgeKey(start, "OUTGOING", relation, end),
                  end_label_type_id |-> label_type_cache[row.start_label_type]]
            ELSE [key |-> EdgeKey(end, "INCOMING", relation, start),
                  end_label_type_id |-> label_type_cache[row.end_label_type]]]

\* The edges of a batch: for every row the outgoing one, then the incoming one.
EdgesOf(b) ==
    [i \in 1 .. 2 * Len(RowsOf(b)) |->
        LET row == RowsOf(b)[(i + 1) \div 2]
            start == pk_to_ids[b][row.start_pk]
            end == pk_to_ids[b][row.end_pk]
            relation == relation_type_cache[row.relation_type]
        IN  IF i % 2 = 1
            THEN [key |-> EdgeKey(start, "OUTGOING", relation, end),
                  end_label_type_id |-> label_type_cache[row.end_label_type]]
            ELSE [key |-> EdgeKey(end, "INCOMING", relation, start),
                  end_label_type_id |-> label_type_cache[row.start_label_type]]]

\* The first step lets the next batch in, then builds the edges.
FirstRelease(b) ==
    /\ Pipeline!FirstRelease(b)
    /\ edges' = [edges EXCEPT ![b] = EdgesOf(b)]
    /\ UNCHANGED <<line, db, label_type_cache, relation_type_cache, append_recno, pk_to_ids, txn,
                   faults>>

\* The other steps of the first-step task.
First(b) ==
    /\ \/ Pipeline!FirstStart(b) \/ Pipeline!FirstAcquire(b)
       \/ Pipeline!FirstAdd(b) \/ Pipeline!FirstEnqueue(b) \/ Pipeline!FirstDone(b)
    /\ UNCHANGED storeVars

-----------------------------------------------------------------------------
(* The edge writers: write_edges, retried until it succeeds. *)

\* The keys a batch's open transaction has inserted.
Written(b) == {edges[b][i].key : i \in 1 .. txn[b].written}

\* WiredTiger refuses an insert of a key that another transaction holds, or
\* that was committed after this transaction's snapshot.
Conflict(b, key) ==
    \/ key \in txn[b].missed
    \/ \E c \in Batch \ {b} : txn[c].open /\ key \in Written(c)

BeginTransaction(b) ==
    /\ realWrite[b] = "write" /\ ~ txn[b].open
    /\ txn' = [txn EXCEPT ![b] = [NoTxn EXCEPT !.open = TRUE]]
    /\ UNCHANGED <<pipelineVars, line, db, label_type_cache, relation_type_cache, append_recno,
                   pk_to_ids, edges, faults>>

NextKey(b) == edges[b][txn[b].written + 1].key

InsertEdge(b) ==
    /\ txn[b].open /\ txn[b].written < Len(edges[b])
    /\ ~ Conflict(b, NextKey(b))
    /\ txn' = [txn EXCEPT ![b].written = @ + 1]
    /\ UNCHANGED <<pipelineVars, line, db, label_type_cache, relation_type_cache, append_recno,
                   pk_to_ids, edges, faults>>

\* Mutant: the batch is tried again without a rollback, in the old snapshot.
InsertConflictsNoRollback(b) ==
    /\ txn[b].open /\ txn[b].written < Len(edges[b])
    /\ Conflict(b, NextKey(b))
    /\ UNCHANGED importerVars

\* The insert is refused: roll back, and try the whole batch again.
InsertConflicts(b) ==
    /\ txn[b].open /\ txn[b].written < Len(edges[b])
    /\ Conflict(b, NextKey(b))
    /\ txn' = [txn EXCEPT ![b] = NoTxn]
    /\ UNCHANGED <<pipelineVars, line, db, label_type_cache, relation_type_cache, append_recno,
                   pk_to_ids, edges, faults>>

\* The insert fails for another reason, with the same consequence.
InsertFails(b) ==
    /\ txn[b].open /\ txn[b].written < Len(edges[b])
    /\ Fault("insert")
    /\ txn' = [txn EXCEPT ![b] = NoTxn]
    /\ UNCHANGED <<pipelineVars, line, db, label_type_cache, relation_type_cache, append_recno,
                   pk_to_ids, edges>>

\* Every edge is inserted and the transaction commits; a key that another open
\* transaction's snapshot does not have is missed by it from now on.
CommitEdges(b) ==
    /\ Pipeline!RealWrite(b)
    /\ txn[b].open /\ txn[b].written = Len(edges[b])
    /\ LET last(key) == Max({i \in DOMAIN edges[b] : edges[b][i].key = key})
       IN  db' = [db EXCEPT !.edge =
                    WithEntries(@, [key \in Written(b) |-> edges[b][last(key)].end_label_type_id])]
    /\ txn' = [c \in Batch |->
                 IF c = b THEN NoTxn
                 ELSE IF txn[c].open THEN [txn[c] EXCEPT !.missed = @ \cup Written(b)]
                 ELSE txn[c]]
    /\ UNCHANGED <<line, label_type_cache, relation_type_cache, append_recno, pk_to_ids, edges,
                   faults>>

\* commit_transaction fails and write_edges does not look at its code.
CommitEdgesFails(b) ==
    /\ Pipeline!RealWrite(b)
    /\ txn[b].open /\ txn[b].written = Len(edges[b])
    /\ Fault("commit")
    /\ txn' = [txn EXCEPT ![b] = NoTxn]
    /\ UNCHANGED <<line, db, label_type_cache, relation_type_cache, append_recno, pk_to_ids, edges>>

\* The other steps of the edge-writing task.
Real(b) ==
    /\ Pipeline!RealStart(b) \/ Pipeline!RealDone(b) \/ Pipeline!RealRelease(b)
    /\ UNCHANGED storeVars

Progress == Pipeline!ProgressExit /\ UNCHANGED storeVars

FirstStepTask(b) == First(b) \/ FirstResolve(b) \/ FirstWrite(b) \/ FirstRelease(b)
RealWriteTask(b) ==
    \/ Real(b) \/ BeginTransaction(b) \/ InsertEdge(b) \/ InsertConflicts(b) \/ CommitEdges(b)
Failure(b) ==
    \/ FirstResolveFails(b) \/ FirstWriteFails(b) \/ FirstCommitFails(b)
    \/ InsertFails(b) \/ CommitEdgesFails(b)

ImportNext ==
    \/ ReadRow \/ Main \/ Progress
    \/ \E b \in Batch : FirstStepTask(b) \/ RealWriteTask(b) \/ Failure(b)
=============================================================================
