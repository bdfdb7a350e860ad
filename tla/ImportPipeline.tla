--------------------------- MODULE ImportPipeline ---------------------------
(***************************************************************************)
(* The threads of Importer::import_data (src/src/importer/importer.cpp),   *)
(* without the rows they carry.                                            *)
(*                                                                         *)
(*   main     reads the file, cuts it into batches and hands each batch to *)
(*            the first-step pool (lambda run_write_task);                 *)
(*   first    the single worker of write_first_step_thread_pool: it        *)
(*            resolves the vertices of a batch and hands the batch's edges *)
(*            to the second pool (import_edges_first_step);                *)
(*   real     the Concurrency workers of real_write_edge_thread_pool: each *)
(*            writes the edges of one batch (the lambda enqueued there);   *)
(*   progress the detached thread that draws the progress bar of a CSV     *)
(*            import.                                                      *)
(*                                                                         *)
(* They share two counting semaphores, one WaitGroup and the atomic flag   *)
(* writed_completed.  Every semaphore, WaitGroup and queue operation is a  *)
(* step of its own, since each takes its own lock.  Batches are numbered   *)
(* in the order main reads them; the queues of the two pools are FIFO and  *)
(* each is filled by one thread, so the oldest queued batch is the one     *)
(* with the smallest number.                                               *)
(***************************************************************************)
EXTENDS Integers, FiniteSets

CONSTANTS
    NumBatches,    \* how many batches the file makes (full ones and the tail)
    Concurrency,   \* write_edge_thread_pool_concurrency_num
    FileTypes      \* the types of the files that may be given

\* ThreadPool's constructor throws when it is given no thread.
ASSUME NumBatchesAssumption == NumBatches \in Nat
ASSUME ConcurrencyAssumption == Concurrency \in Nat \ {0}
ASSUME FileTypesAssumption == FileTypes \subseteq {"CSV", "Excel"}

Batch == 1 .. NumBatches

VARIABLES
    main,                       \* where import_data is
    next,                       \* the batch main is filling
    firstStep,                  \* where the first-step task of each batch is
    realWrite,                  \* where the edge-writing task of each batch is
    control_write_first_step,   \* permits left in the first semaphore
    control_real_write_edge,    \* permits left in the second semaphore
    async_task_wg,              \* counter_ of the WaitGroup
    writed_completed,           \* the flag the progress thread polls
    progress                    \* the progress thread

handover == <<control_write_first_step, control_real_write_edge, async_task_wg>>
reporting == <<writed_completed, progress>>
pipelineVars == <<main, next, firstStep, realWrite, control_write_first_step,
                  control_real_write_edge, async_task_wg, writed_completed, progress>>

MainPC == {"read", "wait", "report", "returned", "unwind", "failed"}

\* "unread" .. "counted" are main's steps for the batch, the rest the worker's.
FirstPC == {"unread", "filled", "permitted", "counted", "queued", "resolve", "write",
            "release", "acquire", "add", "enqueue", "done", "finished"}
RealPC == {"absent", "queued", "write", "done", "release", "finished"}

\* The worker of a pool is inside a task while the task is at one of these.
FirstRunning == {"resolve", "write", "release", "acquire", "add", "enqueue", "done"}
RealRunning == {"write", "done", "release"}

\* Moving one batch along one of the two functions.
At(stage, b, pc) == stage[b] = pc
Moved(stage, b, pc) == [stage EXCEPT ![b] = pc]

\* Only a CSV import draws a progress bar.
ProgressOf(fileType) == IF fileType = "CSV" THEN "running" ELSE "none"

Init ==
    /\ main = "read"
    /\ next = 1
    /\ firstStep = [b \in Batch |-> "unread"]
    /\ realWrite = [b \in Batch |-> "absent"]
    /\ control_write_first_step = 1
    /\ control_real_write_edge = Concurrency
    /\ async_task_wg = 0
    /\ writed_completed = FALSE
    /\ progress \in {ProgressOf(f) : f \in FileTypes}

\* import_data entered by a new process, whatever the state of the old one.
\* Used by the modules that model restarts; Next has no such step.
EnterAgain ==
    /\ main' = "read"
    /\ next' = 1
    /\ firstStep' = [b \in Batch |-> "unread"]
    /\ realWrite' = [b \in Batch |-> "absent"]
    /\ control_write_first_step' = 1
    /\ control_real_write_edge' = Concurrency
    /\ async_task_wg' = 0
    /\ writed_completed' = FALSE
    /\ progress' \in {ProgressOf(f) : f \in FileTypes}

-----------------------------------------------------------------------------
(* main *)

\* The reading loop collects batch_size rows, or the tail of the file.
FillBatch ==
    /\ main = "read" /\ next \in Batch
    /\ At(firstStep, next, "unread")
    /\ firstStep' = Moved(firstStep, next, "filled")
    /\ UNCHANGED <<main, next, realWrite, handover, reporting>>

\* run_write_task: control_write_first_step->acquire() ...
AcquireFirstStep ==
    /\ main = "read" /\ next \in Batch
    /\ At(firstStep, next, "filled")
    /\ control_write_first_step > 0
    /\ control_write_first_step' = control_write_first_step - 1
    /\ firstStep' = Moved(firstStep, next, "permitted")
    /\ UNCHANGED <<main, next, realWrite, control_real_write_edge, async_task_wg, reporting>>

\* ... then async_task_wg->add() ...
CountFirstStep ==
    /\ main = "read" /\ next \in Batch
    /\ At(firstStep, next, "permitted")
    /\ async_task_wg' = async_task_wg + 1
    /\ firstStep' = Moved(firstStep, next, "counted")
    /\ UNCHANGED <<main, next, realWrite, control_write_first_step, control_real_write_edge,
                   reporting>>

\* ... then the task goes to the single worker, and a new batch is begun.
EnqueueFirstStep ==
    /\ main = "read" /\ next \in Batch
    /\ At(firstStep, next, "counted")
    /\ firstStep' = Moved(firstStep, next, "queued")
    /\ next' = next + 1
    /\ UNCHANGED <<main, realWrite, handover, reporting>>

\* The file is read to its end.
EndOfFile ==
    /\ main = "read" /\ next \notin Batch
    /\ main' = "wait"
    /\ UNCHANGED <<next, firstStep, realWrite, handover, reporting>>

\* The reader throws (a malformed line, a missing column, an unsupported file
\* type): the frame is unwound.
InputError ==
    /\ main = "read"
    /\ next \in Batch => At(firstStep, next, "unread")
    /\ main' = "unwind"
    /\ UNCHANGED <<next, firstStep, realWrite, handover, reporting>>

FirstIdle == \A b \in Batch : firstStep[b] \notin FirstRunning \cup {"queued"}
RealIdle == \A b \in Batch : realWrite[b] \notin RealRunning \cup {"queued"}

\* The pools' destructors join the workers, which first empty their queues;
\* then main.cpp returns 1.  Nothing stops the progress thread.
Unwind ==
    /\ main = "unwind"
    /\ FirstIdle /\ RealIdle
    /\ main' = "failed"
    /\ UNCHANGED <<next, firstStep, realWrite, handover, reporting>>

\* Mutant: the wait ends while one task is still counted.
WaitTasksOneLeft ==
    /\ main = "wait"
    /\ async_task_wg <= 1
    /\ main' = "report"
    /\ writed_completed' = TRUE
    /\ UNCHANGED <<next, firstStep, realWrite, handover, progress>>

\* async_task_wg->wait(), then writed_completed.store(true).
WaitTasks ==
    /\ main = "wait"
    /\ async_task_wg <= 0
    /\ main' = "report"
    /\ writed_completed' = TRUE
    /\ UNCHANGED <<next, firstStep, realWrite, handover, progress>>

\* wait_output_thread.wait(); the pools are destroyed as the frame is left.
ReturnFromImport ==
    /\ main = "report"
    /\ progress # "running"
    /\ FirstIdle /\ RealIdle
    /\ main' = "returned"
    /\ UNCHANGED <<next, firstStep, realWrite, handover, reporting>>

-----------------------------------------------------------------------------
(* The first-step worker. *)

\* Mutant: the first-step pool has more than one thread.
FirstStartConcurrent(b) ==
    /\ At(firstStep, b, "queued")
    /\ \A c \in Batch : At(firstStep, c, "queued") => b <= c
    /\ firstStep' = Moved(firstStep, b, "resolve")
    /\ UNCHANGED <<main, next, realWrite, handover, reporting>>

\* The worker takes the oldest task, and only when it is in no other.
FirstStart(b) ==
    /\ At(firstStep, b, "queued")
    /\ \A c \in Batch : firstStep[c] \notin FirstRunning
    /\ \A c \in Batch : At(firstStep, c, "queued") => b <= c
    /\ firstStep' = Moved(firstStep, b, "resolve")
    /\ UNCHANGED <<main, next, realWrite, handover, reporting>>

\* reader->get_vertex_ids(pks).
FirstResolve(b) ==
    /\ At(firstStep, b, "resolve")
    /\ firstStep' = Moved(firstStep, b, "write")
    /\ UNCHANGED <<main, next, realWrite, handover, reporting>>

\* writer->write_vertices(unresolve_pks) returns; a failed attempt stutters.
FirstWrite(b) ==
    /\ At(firstStep, b, "write")
    /\ firstStep' = Moved(firstStep, b, "release")
    /\ UNCHANGED <<main, next, realWrite, handover, reporting>>

\* Mutant: the first semaphore is not released.
FirstReleaseForgotten(b) ==
    /\ At(firstStep, b, "release")
    /\ firstStep' = Moved(firstStep, b, "acquire")
    /\ UNCHANGED <<main, next, realWrite, handover, reporting>>

FirstRelease(b) ==
    /\ At(firstStep, b, "release")
    /\ control_write_first_step' = control_write_first_step + 1
    /\ firstStep' = Moved(firstStep, b, "acquire")
    /\ UNCHANGED <<main, next, realWrite, control_real_write_edge, async_task_wg, reporting>>

\* Mutant: the edges are handed over without waiting for a writer.
FirstAcquireSkipped(b) ==
    /\ At(firstStep, b, "acquire")
    /\ firstStep' = Moved(firstStep, b, "add")
    /\ UNCHANGED <<main, next, realWrite, handover, reporting>>

\* The edges are built, then the worker blocks until a writer is free.
FirstAcquire(b) ==
    /\ At(firstStep, b, "acquire")
    /\ control_real_write_edge > 0
    /\ control_real_write_edge' = control_real_write_edge - 1
    /\ firstStep' = Moved(firstStep, b, "add")
    /\ UNCHANGED <<main, next, realWrite, control_write_first_step, async_task_wg, reporting>>

\* Mutant: the edge-writing task is not counted.
FirstAddForgotten(b) ==
    /\ At(firstStep, b, "add")
    /\ firstStep' = Moved(firstStep, b, "enqueue")
    /\ UNCHANGED <<main, next, realWrite, handover, reporting>>

FirstAdd(b) ==
    /\ At(firstStep, b, "add")
    /\ async_task_wg' = async_task_wg + 1
    /\ firstStep' = Moved(firstStep, b, "enqueue")
    /\ UNCHANGED <<main, next, realWrite, control_write_first_step, control_real_write_edge,
                   reporting>>

FirstEnqueue(b) ==
    /\ At(firstStep, b, "enqueue")
    /\ firstStep' = Moved(firstStep, b, "done")
    /\ realWrite' = Moved(realWrite, b, "queued")
    /\ UNCHANGED <<main, next, handover, reporting>>

\* DEFER(async_task_wg->done()) of the task main enqueued.
FirstDone(b) ==
    /\ At(firstStep, b, "done")
    /\ async_task_wg' = async_task_wg - 1
    /\ firstStep' = Moved(firstStep, b, "finished")
    /\ UNCHANGED <<main, next, realWrite, control_write_first_step, control_real_write_edge,
                   reporting>>

-----------------------------------------------------------------------------
(* The edge writers. *)

\* One of the Concurrency workers takes the oldest task.
RealStart(b) ==
    /\ At(realWrite, b, "queued")
    /\ Cardinality({c \in Batch : realWrite[c] \in RealRunning}) < Concurrency
    /\ \A c \in Batch : At(realWrite, c, "queued") => b <= c
    /\ realWrite' = Moved(realWrite, b, "write")
    /\ UNCHANGED <<main, next, firstStep, handover, reporting>>

\* writer->write_edges(edges) returns; a failed attempt stutters.
RealWrite(b) ==
    /\ At(realWrite, b, "write")
    /\ realWrite' = Moved(realWrite, b, "done")
    /\ UNCHANGED <<main, next, firstStep, handover, reporting>>

\* Mutant: the edge-writing task does not call done().
RealDoneForgotten(b) ==
    /\ At(realWrite, b, "done")
    /\ realWrite' = Moved(realWrite, b, "release")
    /\ UNCHANGED <<main, next, firstStep, handover, reporting>>

\* DEFER(async_task_wg->done(); control_real_write_edges->release()).
RealDone(b) ==
    /\ At(realWrite, b, "done")
    /\ async_task_wg' = async_task_wg - 1
    /\ realWrite' = Moved(realWrite, b, "release")
    /\ UNCHANGED <<main, next, firstStep, control_write_first_step, control_real_write_edge,
                   reporting>>

\* Mutant: the writer's permit is not given back.
RealReleaseForgotten(b) ==
    /\ At(realWrite, b, "release")
    /\ realWrite' = Moved(realWrite, b, "finished")
    /\ UNCHANGED <<main, next, firstStep, handover, reporting>>

RealRelease(b) ==
    /\ At(realWrite, b, "release")
    /\ control_real_write_edge' = control_real_write_edge + 1
    /\ realWrite' = Moved(realWrite, b, "finished")
    /\ UNCHANGED <<main, next, firstStep, control_write_first_step, async_task_wg, reporting>>

-----------------------------------------------------------------------------
\* The progress thread leaves its loop once it sees the flag.
ProgressExit ==
    /\ progress = "running"
    /\ writed_completed
    /\ progress' = "exited"
    /\ UNCHANGED <<main, next, firstStep, realWrite, handover, writed_completed>>

\* import_data is over, normally or not.
Over == main \in {"returned", "failed"} /\ UNCHANGED pipelineVars

MainStep ==
    \/ FillBatch \/ AcquireFirstStep \/ CountFirstStep \/ EnqueueFirstStep
    \/ EndOfFile \/ InputError \/ Unwind \/ WaitTasks \/ ReturnFromImport
FirstStepTask(b) ==
    \/ FirstStart(b) \/ FirstResolve(b) \/ FirstWrite(b) \/ FirstRelease(b)
    \/ FirstAcquire(b) \/ FirstAdd(b) \/ FirstEnqueue(b) \/ FirstDone(b)
RealWriteTask(b) == RealStart(b) \/ RealWrite(b) \/ RealDone(b) \/ RealRelease(b)

Next ==
    \/ MainStep
    \/ \E b \in Batch : FirstStepTask(b) \/ RealWriteTask(b)
    \/ ProgressExit
    \/ Over

\* Every thread is scheduled by the operating system; main goes on with the
\* file, or fails, but does not stop.
Fairness ==
    /\ WF_pipelineVars(MainStep)
    /\ \A b \in Batch : WF_pipelineVars(FirstStepTask(b)) /\ WF_pipelineVars(RealWriteTask(b))
    /\ WF_pipelineVars(ProgressExit)

Spec == Init /\ [][Next]_pipelineVars
FairSpec == Spec /\ Fairness

-----------------------------------------------------------------------------
(* Properties *)

TypeOK ==
    /\ main \in MainPC
    /\ next \in 1 .. NumBatches + 1
    /\ firstStep \in [Batch -> FirstPC]
    /\ realWrite \in [Batch -> RealPC]
    /\ control_write_first_step \in Nat
    /\ control_real_write_edge \in Nat
    /\ async_task_wg \in Nat
    /\ writed_completed \in BOOLEAN
    /\ progress \in {"none", "running", "exited"}

\* The tasks that were counted with add() and whose done() has not run.
FirstOutstanding ==
    {b \in Batch : firstStep[b] \in {"counted", "queued"} \cup FirstRunning}
RealOutstanding ==
    {b \in Batch : \/ realWrite[b] \in {"queued", "write", "done"}
                   \/ firstStep[b] = "enqueue"}

\* The WaitGroup counts exactly the tasks that are still to call done(): a
\* batch is never uncounted while it passes from the first pool to the second
\* (importer.cpp 155 runs before the DEFER of 262).
WgCounts == async_task_wg = Cardinality(FirstOutstanding) + Cardinality(RealOutstanding)

\* Who holds a permit of each semaphore.
FirstPermits == {b \in Batch : firstStep[b] \in {"permitted", "counted", "queued", "resolve",
                                                "write", "release"}}
RealPermits == {b \in Batch : \/ firstStep[b] \in {"add", "enqueue"}
                              \/ realWrite[b] \in {"queued", "write", "done", "release"}}

\* No permit is lost or made: those that are gone are held by a batch, and a
\* batch holds at most one of each semaphore (acquire at 259 and 154, release
\* at 118 and 157).
PermitsAccounted ==
    /\ control_write_first_step = 1 - Cardinality(FirstPermits)
    /\ control_real_write_edge = Concurrency - Cardinality(RealPermits)
    /\ control_write_first_step >= 0
    /\ control_real_write_edge >= 0

\* When import_data passes async_task_wg->wait() (475) every batch of the file
\* has been resolved and its edges have been written; and when it returns, the
\* detached progress thread, which works on its locals, has come to its end, as
\* the comment of 479 asks.  (A reader that throws leaves that thread running:
\* only the return is spoken of.)
CompletionIsTotal ==
    /\ main \in {"report", "returned"} =>
          \A b \in Batch : /\ firstStep[b] = "finished"
                          /\ realWrite[b] \in {"release", "finished"}
    /\ main = "returned" => progress # "running"

\* The batches that are read and not yet written: the one main fills, or holds
\* full while acquire (259) blocks it, and those that a task is on or waiting for.
\* The rows of no other batch are needed any more; they are freed with the task.
InFlight ==
    {b \in Batch : \/ main = "read" /\ b = next
                   \/ firstStep[b] \in {"queued"} \cup FirstRunning
                   \/ realWrite[b] \in {"queued"} \cup RealRunning}

\* However far the file goes on, the semaphores hold the reader back: one batch
\* per writer, one being resolved, one waiting for that and one at main.
InFlightBounded == Cardinality(InFlight) <= Concurrency + 3

\* The vertices of a batch are looked up and appended only after every earlier
\* batch has left the first step: that is what lets get_vertex_ids (78) find
\* the vertices that earlier batches appended, and append none twice.
ResolvedInOrder ==
    \A b, c \in Batch :
        b < c /\ firstStep[c] \in {"resolve", "write"} => firstStep[b] = "finished"

\* import_data ends, whatever the order of the threads: neither semaphore nor
\* the WaitGroup can block it for ever.
ImportEnds == <>(main \in {"returned", "failed"})

\* A batch that main has counted is written in the end, even when the reading
\* of a later row throws.
CountedIsWritten ==
    \A b \in Batch : firstStep[b] = "counted" ~> realWrite[b] = "finished"
=============================================================================
