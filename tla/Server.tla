------------------------------- MODULE Server -------------------------------
(***************************************************************************)
(* The process of src/src/main.cpp around the import: the thread that      *)
(* makes a checkpoint every minute, the last checkpoint, serving, and what *)
(* a restart finds.  The connection is opened without a log, so a crash    *)
(* leaves exactly the last completed checkpoint.                           *)
(***************************************************************************)
EXTENDS Importer

CONSTANTS
    MaxCrashes    \* bound: how many times the process is killed and started again

ASSUME CrashesAssumption == MaxCrashes \in Nat

VARIABLES
    phase,              \* where main() is
    import_completed,   \* the flag the checkpoint thread polls
    checkpointer,       \* the detached checkpoint thread
    snapshot,           \* the checkpoint being written, if one is
    durable,            \* the store in the last completed checkpoint
    crashes

serverVars == <<phase, import_completed, checkpointer, snapshot, durable, crashes>>
vars == <<importerVars, serverVars>>

NoSnapshot == [none |-> TRUE]

Init ==
    /\ ImportInit
    /\ phase = "import"
    /\ import_completed = FALSE
    /\ checkpointer = "looping"
    /\ snapshot = NoSnapshot
    /\ durable = EmptyStore
    /\ crashes = 0

-----------------------------------------------------------------------------
(* import_data, called by main(). *)

Import == phase = "import" /\ ImportNext /\ UNCHANGED serverVars

\* import_data returns: import_completed.store(true), then wg.wait().
ImportReturns ==
    /\ phase = "import" /\ main = "returned"
    /\ phase' = "join"
    /\ import_completed' = TRUE
    /\ UNCHANGED <<importerVars, checkpointer, snapshot, durable, crashes>>

\* The process is gone, and with it all of its memory: what the next process
\* will find is the last completed checkpoint.
ProcessEnds ==
    /\ Pipeline!EnterAgain
    /\ line' = 0
    /\ db' = durable
    /\ label_type_cache' = EmptyTable
    /\ relation_type_cache' = EmptyTable
    /\ append_recno' = LastRecno(durable.vertex)
    /\ pk_to_ids' = [b \in Batch |-> EmptyTable]
    /\ edges' = [b \in Batch |-> <<>>]
    /\ txn' = [b \in Batch |-> NoTxn]
    /\ import_completed' = FALSE
    /\ checkpointer' = "looping"
    /\ snapshot' = NoSnapshot
    /\ UNCHANGED <<durable, faults>>

\* import_data throws: main() logs it and returns 1, with no last checkpoint.
ImportFails ==
    /\ phase = "import" /\ main = "failed"
    /\ phase' = "failed"
    /\ ProcessEnds
    /\ UNCHANGED crashes

\* Mutant: no checkpoint is made after the import.
JoinedNoCheckpoint ==
    /\ phase = "join" /\ checkpointer = "exited"
    /\ phase' = "start"
    /\ UNCHANGED <<importerVars, import_completed, checkpointer, snapshot, durable, crashes>>

Joined ==
    /\ phase = "join" /\ checkpointer = "exited"
    /\ phase' = "last checkpoint"
    /\ UNCHANGED <<importerVars, import_completed, checkpointer, snapshot, durable, crashes>>

-----------------------------------------------------------------------------
(* create_checkpoint, on either thread: the snapshot is taken when the call *)
(* begins and is durable when it ends.  main calls it after the checkpoint  *)
(* thread is gone, so one is made at a time.                                *)

CheckpointBegins ==
    /\ snapshot = NoSnapshot
    /\ \/ checkpointer = "looping" /\ phase \in {"import", "join"}
       \/ phase = "last checkpoint"
    /\ snapshot' = db
    /\ UNCHANGED <<importerVars, phase, import_completed, checkpointer, durable, crashes>>

\* main goes on once its own checkpoint is made; the checkpoint thread is then
\* at the test of its loop.
AfterCheckpoint ==
    /\ phase' = IF phase = "last checkpoint" THEN "start" ELSE phase
    /\ checkpointer' = IF import_completed THEN "exited" ELSE checkpointer

CheckpointEnds ==
    /\ snapshot # NoSnapshot
    /\ durable' = snapshot
    /\ snapshot' = NoSnapshot
    /\ AfterCheckpoint
    /\ UNCHANGED <<importerVars, import_completed, crashes>>

\* A failure is only logged.
CheckpointFails ==
    /\ snapshot # NoSnapshot
    /\ Fault("checkpoint")
    /\ snapshot' = NoSnapshot
    /\ AfterCheckpoint
    /\ UNCHANGED <<pipelineVars, line, db, label_type_cache, relation_type_cache, append_recno,
                   pk_to_ids, edges, txn, import_completed, durable, crashes>>

\* The checkpoint thread sees the flag after a second without a checkpoint.
CheckpointerExits ==
    /\ checkpointer = "looping" /\ snapshot = NoSnapshot
    /\ import_completed
    /\ checkpointer' = "exited"
    /\ UNCHANGED <<importerVars, phase, import_completed, snapshot, durable, crashes>>

-----------------------------------------------------------------------------
(* The end of the process, and the next one. *)

\* Killed at any moment.
Crash ==
    /\ phase \notin {"down", "failed"}
    /\ crashes < MaxCrashes
    /\ crashes' = crashes + 1
    /\ phase' = "down"
    /\ ProcessEnds

\* A new process on the same directory, with --need_import on the same file.
RestartImport ==
    /\ phase = "down"
    /\ phase' = "import"
    /\ UNCHANGED <<importerVars, import_completed, checkpointer, snapshot, durable, crashes>>

\* A new process on the same directory, without --need_import: there is no
\* checkpoint thread.
RestartServe ==
    /\ phase = "down"
    /\ phase' = "serve"
    /\ checkpointer' = "exited"
    /\ UNCHANGED <<importerVars, import_completed, snapshot, durable, crashes>>

\* app().run() after an import.
StartServer ==
    /\ phase = "start"
    /\ phase' = "serve"
    /\ UNCHANGED <<importerVars, import_completed, checkpointer, snapshot, durable, crashes>>

\* The server runs until it is stopped.
Serving == phase = "serve" /\ UNCHANGED vars

\* A failed import may be given up, or run again (counted with the crashes).
GivenUp == phase = "failed" /\ UNCHANGED vars
RunAgain ==
    /\ phase = "failed"
    /\ crashes < MaxCrashes
    /\ crashes' = crashes + 1
    /\ phase' = "down"
    /\ UNCHANGED <<importerVars, import_completed, checkpointer, snapshot, durable>>

Next ==
    \/ Import \/ ImportReturns \/ ImportFails \/ Joined \/ StartServer
    \/ CheckpointBegins \/ CheckpointEnds \/ CheckpointFails \/ CheckpointerExits
    \/ Crash \/ RestartImport \/ RestartServe \/ Serving \/ GivenUp \/ RunAgain

Spec == Init /\ [][Next]_vars

\* A step of one of the importer's threads.
ByImport(Step) == phase = "import" /\ Step /\ UNCHANGED serverVars

\* The threads are scheduled and a killed process is started again.  A
\* checkpoint that was begun ends, and the polling loop ends once the flag is
\* set; nothing is assumed of crashes, faults or reading errors.
Fairness ==
    /\ WF_vars(ByImport(ReadRow \/ Main)) /\ WF_vars(ByImport(Progress))
    /\ \A b \in Batch : WF_vars(ByImport(FirstStepTask(b))) /\ WF_vars(ByImport(RealWriteTask(b)))
    /\ WF_vars(ImportReturns) /\ WF_vars(ImportFails) /\ WF_vars(Joined) /\ WF_vars(StartServer)
    /\ WF_vars(CheckpointEnds) /\ WF_vars(CheckpointerExits)
    /\ WF_vars(phase = "last checkpoint" /\ CheckpointBegins)
    /\ WF_vars(RestartImport \/ RestartServe)

FairSpec == Spec /\ Fairness

-----------------------------------------------------------------------------
(* Properties *)

FileRows == {Rows[i] : i \in 1 .. Len(Rows)}

StoreOK(s) ==
    /\ \A id \in DOMAIN s.label_type \cup DOMAIN s.relation_type \cup DOMAIN s.vertex :
          id \in Nat \ {0}
    /\ \A id \in DOMAIN s.vertex : DOMAIN s.vertex[id] = {"label_type_id", "vertex_pk"}
    /\ \A key \in DOMAIN s.edge : key.direction \in {"OUTGOING", "INCOMING"}

TypeOK ==
    /\ Pipeline!TypeOK
    /\ line \in 0 .. Len(Rows)
    /\ StoreOK(db) /\ StoreOK(durable)
    /\ snapshot # NoSnapshot => StoreOK(snapshot)
    /\ append_recno \in Nat
    /\ \A b \in Batch : txn[b].written \in 0 .. 2 * BatchSize
    /\ phase \in {"import", "join", "last checkpoint", "start", "serve", "failed", "down"}
    /\ checkpointer \in {"looping", "exited"}
    /\ faults \in 0 .. MaxFaults
    /\ crashes \in 0 .. MaxCrashes

\* A primary key has one vertex, in the store and in what a crash leaves, even
\* when write_vertices is retried and when the file is imported again: the
\* look-up of 78 is never stale when the appends of 99 are made.
OneVertexPerPk ==
    \A s \in {db, durable} : \A i, j \in DOMAIN s.vertex :
        s.vertex[i].vertex_pk = s.vertex[j].vertex_pk => i = j

\* No reader and no restart meets an edge whose vertex, relation or label is
\* missing: batches commit their vertices before their edges, and a checkpoint
\* is of one moment.
NoDanglingReference == ReferencesResolve(db) /\ ReferencesResolve(durable)

\* An edge that can be walked one way can be walked the other way: the two keys
\* of a row are committed together or not at all.
EdgesAreMirrored == BothDirections(db) /\ BothDirections(durable)

\* The store holds no edge that is not a row of the file, whichever ids were
\* handed out, rolled back or handed out again after a crash.
OnlyRowsOfTheFile == GraphOf(db) \cup GraphOf(durable) \subseteq FileRows

\* Ids are for ever: what a checkpoint has saved under an id is never saved
\* differently later, and a name keeps the smallest id it ever had, which is
\* the one the readers report, although a new import appends names again.
SavedIdsAreStable ==
    [][/\ \A id \in DOMAIN durable.vertex :
             id \in DOMAIN durable'.vertex /\ durable'.vertex[id] = durable.vertex[id]
       /\ \A id \in DOMAIN durable.label_type :
             LET name == durable.label_type[id]
             IN  IdOfName(durable'.label_type, name) = IdOfName(durable.label_type, name)]_durable

\* Importing implements BulkLoad: the graph grows by whole batches, a crash
\* falls back to a whole number of batches, and main() serves a loaded file
\* only when all of it has been written and saved.
Load == INSTANCE BulkLoad WITH
    Chunks <- [b \in Batch |-> {RowsOf(b)[i] : i \in DOMAIN RowsOf(b)}],
    graph <- GraphOf(db),
    saved <- GraphOf(durable),
    phase <- CASE phase \in {"down", "failed"} -> "down"
               [] phase = "serve" -> "serving"
               [] OTHER -> "loading"
ImplementsBulkLoad == Load!Spec

\* Two batches have two keys in common and insert them in opposite orders.
OppositeOrders(b, c) ==
    \E i, j \in DOMAIN edges[b], k, l \in DOMAIN edges[c] :
       /\ i < j /\ l < k
       /\ edges[b][i].key # edges[b][j].key
       /\ edges[b][i].key = edges[c][k].key /\ edges[b][j].key = edges[c][l].key

\* One of two such batches is refused a key and rolled back.
OppositeConflict ==
    \E b, c \in Batch : ByImport(InsertConflicts(b)) /\ OppositeOrders(b, c)

\* An import ends, in serving or in a reported failure, whichever WiredTiger call
\* fails (within the bound) and although edge writers roll one another back, unless
\* that goes on for ever: each of two writers inserts the key the other needs next
\* and is refused the other's.  Nothing in the code ends that, but it takes two
\* batches with opposite orders (of two writers; more could form a longer ring).
LoadEnds == <>[](phase \in {"serve", "failed"}) \/ []<><<OppositeConflict>>_vars

\* docs/test/01_test_checklist.md 15 asks that the data be readable after a
\* restart once an import has completed: a server that has imported its file
\* holds every row of it in its last checkpoint.
ImportedIsDurable ==
    phase = "serve" /\ main = "returned" => GraphOf(durable) = FileRows
=============================================================================
