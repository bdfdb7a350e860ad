------------------------ MODULE ImportPipelineProofs ------------------------
(***************************************************************************)
(* What ImportPipeline guarantees for any number of batches and writers.   *)
(***************************************************************************)
EXTENDS ImportPipeline, FiniteSetTheorems, TLAPS

(* The type invariant without the sign of the counters, which is a matter of   *)
(* how many tasks hold them.                                                   *)
FieldsOK ==
    /\ main \in MainPC
    /\ next \in 1 .. NumBatches + 1
    /\ firstStep \in [Batch -> FirstPC]
    /\ realWrite \in [Batch -> RealPC]
    /\ control_write_first_step \in Int
    /\ control_real_write_edge \in Int
    /\ async_task_wg \in Int
    /\ writed_completed \in BOOLEAN
    /\ progress \in {"none", "running", "exited"}

\* The first values of the fields are of the right kind ...
LEMMA FieldsAtFirst == Init => FieldsOK
<1> SUFFICES ASSUME Init PROVE FieldsOK
  OBVIOUS
<1>1. main \in MainPC /\ progress \in {"none", "running", "exited"}
  BY DEF Init, MainPC, ProgressOf
<1>2. next \in 1 .. NumBatches + 1
  BY NumBatchesAssumption DEF Init
<1>3. firstStep \in [Batch -> FirstPC] /\ realWrite \in [Batch -> RealPC]
  BY DEF Init, FirstPC, RealPC
<1>4. control_write_first_step \in Int /\ control_real_write_edge \in Int
  BY ConcurrencyAssumption DEF Init
<1>5. async_task_wg \in Int
  BY DEF Init
<1>6. writed_completed \in BOOLEAN
  BY DEF Init
<1> QED
  BY <1>1, <1>2, <1>3, <1>4, <1>5, <1>6 DEF FieldsOK

\* ... and every step writes values of the right kind.
LEMMA FieldsStay ==
    ASSUME FieldsOK, [Next]_pipelineVars
    PROVE  FieldsOK'
<1> USE NumBatchesAssumption, ConcurrencyAssumption
    DEF FieldsOK, MainPC, FirstPC, RealPC, Moved, handover, reporting
<1>1. CASE MainStep
  <2>1. CASE FillBatch BY <2>1 DEF FillBatch
  <2>2. CASE AcquireFirstStep BY <2>2 DEF AcquireFirstStep
  <2>3. CASE CountFirstStep BY <2>3 DEF CountFirstStep
  <2>4. CASE EnqueueFirstStep BY <2>4 DEF EnqueueFirstStep, Batch
  <2>5. CASE EndOfFile BY <2>5 DEF EndOfFile
  <2>6. CASE InputError BY <2>6 DEF InputError
  <2>7. CASE Unwind BY <2>7 DEF Unwind
  <2>8. CASE WaitTasks BY <2>8 DEF WaitTasks
  <2>9. CASE ReturnFromImport BY <2>9 DEF ReturnFromImport
  <2> QED BY <1>1, <2>1, <2>2, <2>3, <2>4, <2>5, <2>6, <2>7, <2>8, <2>9 DEF MainStep
<1>2. ASSUME NEW b \in Batch, FirstStepTask(b) PROVE FieldsOK'
  <2>1. CASE FirstStart(b) BY <2>1 DEF FirstStart
  <2>2. CASE FirstResolve(b) BY <2>2 DEF FirstResolve
  <2>3. CASE FirstWrite(b) BY <2>3 DEF FirstWrite
  <2>4. CASE FirstRelease(b) BY <2>4 DEF FirstRelease
  <2>5. CASE FirstAcquire(b) BY <2>5 DEF FirstAcquire
  <2>6. CASE FirstAdd(b) BY <2>6 DEF FirstAdd
  <2>7. CASE FirstEnqueue(b) BY <2>7 DEF FirstEnqueue
  <2>8. CASE FirstDone(b) BY <2>8 DEF FirstDone
  <2> QED BY <1>2, <2>1, <2>2, <2>3, <2>4, <2>5, <2>6, <2>7, <2>8 DEF FirstStepTask
<1>3. ASSUME NEW b \in Batch, RealWriteTask(b) PROVE FieldsOK'
  <2>1. CASE RealStart(b) BY <2>1 DEF RealStart
  <2>2. CASE RealWrite(b) BY <2>2 DEF RealWrite
  <2>3. CASE RealDone(b) BY <2>3 DEF RealDone
  <2>4. CASE RealRelease(b) BY <2>4 DEF RealRelease
  <2> QED BY <1>3, <2>1, <2>2, <2>3, <2>4 DEF RealWriteTask
<1>4. CASE ProgressExit BY <1>4 DEF ProgressExit
<1>5. CASE UNCHANGED pipelineVars BY <1>5 DEF pipelineVars
<1> QED BY <1>1, <1>2, <1>3, <1>4, <1>5 DEF Next, Over

\* Every field of the state of import_data always has a value of the right kind.
LEMMA FieldTyping == Spec => []FieldsOK
BY FieldsAtFirst, FieldsStay, PTL DEF Spec

-----------------------------------------------------------------------------
(* The inductive invariant.  Two facts about the order of the batches are      *)
(* added to the counting invariants: what main has handed over, and that the   *)
(* single worker takes the batches one by one, oldest first.                   *)

HandedOver ==
    /\ \A b \in Batch :
          /\ b < next => firstStep[b] \in {"queued", "finished"} \cup FirstRunning
          /\ b = next => firstStep[b] \in {"unread", "filled", "permitted", "counted"}
          /\ b > next => firstStep[b] = "unread"
          /\ realWrite[b] = "absent" <=> firstStep[b] \notin {"done", "finished"}
    /\ main \in {"wait", "report", "returned"} => next = NumBatches + 1

OneByOne ==
    \A b, c \in Batch :
        b < c /\ firstStep[c] \in FirstRunning => firstStep[b] = "finished"

Shape == HandedOver /\ OneByOne

\* At first no batch is handed over.
LEMMA ShapeAtFirst == Init => Shape
<1> SUFFICES ASSUME Init PROVE Shape
  OBVIOUS
<1>1. HandedOver
  BY NumBatchesAssumption DEF Init, HandedOver, Batch
<1>2. OneByOne
  BY DEF Init, OneByOne, FirstRunning
<1> QED BY <1>1, <1>2 DEF Shape

\* Both order facts are kept by every step: main hands over batch by batch and
\* a pool of one thread starts the oldest task only when it is in no other.
LEMMA ShapeStays ==
    ASSUME FieldsOK, Shape, [Next]_pipelineVars
    PROVE  Shape'
<1> USE NumBatchesAssumption
    DEF FieldsOK, Shape, HandedOver, OneByOne, Batch, FirstPC, RealPC, FirstRunning, RealRunning,
        At, Moved, handover, reporting
<1>1. CASE MainStep
  <2>1. CASE FillBatch BY <2>1 DEF FillBatch
  <2>2. CASE AcquireFirstStep BY <2>2 DEF AcquireFirstStep
  <2>3. CASE CountFirstStep BY <2>3 DEF CountFirstStep
  <2>4. CASE EnqueueFirstStep BY <2>4 DEF EnqueueFirstStep
  <2>5. CASE EndOfFile BY <2>5 DEF EndOfFile
  <2>6. CASE InputError BY <2>6 DEF InputError
  <2>7. CASE Unwind BY <2>7 DEF Unwind
  <2>8. CASE WaitTasks BY <2>8 DEF WaitTasks
  <2>9. CASE ReturnFromImport BY <2>9 DEF ReturnFromImport
  <2> QED BY <1>1, <2>1, <2>2, <2>3, <2>4, <2>5, <2>6, <2>7, <2>8, <2>9 DEF MainStep
<1>2. ASSUME NEW b \in Batch, FirstStepTask(b) PROVE Shape'
  <2>1. CASE FirstStart(b) BY <2>1 DEF FirstStart
  <2>2. CASE FirstResolve(b) BY <2>2 DEF FirstResolve
  <2>3. CASE FirstWrite(b) BY <2>3 DEF FirstWrite
  <2>4. CASE FirstRelease(b) BY <2>4 DEF FirstRelease
  <2>5. CASE FirstAcquire(b) BY <2>5 DEF FirstAcquire
  <2>6. CASE FirstAdd(b) BY <2>6 DEF FirstAdd
  <2>7. CASE FirstEnqueue(b) BY <2>7 DEF FirstEnqueue
  <2>8. CASE FirstDone(b) BY <2>8 DEF FirstDone
  <2> QED BY <1>2, <2>1, <2>2, <2>3, <2>4, <2>5, <2>6, <2>7, <2>8 DEF FirstStepTask
<1>3. ASSUME NEW b \in Batch, RealWriteTask(b) PROVE Shape'
  <2>1. CASE RealStart(b) BY <2>1 DEF RealStart
  <2>2. CASE RealWrite(b) BY <2>2 DEF RealWrite
  <2>3. CASE RealDone(b) BY <2>3 DEF RealDone
  <2>4. CASE RealRelease(b) BY <2>4 DEF RealRelease
  <2> QED BY <1>3, <2>1, <2>2, <2>3, <2>4 DEF RealWriteTask
<1>4. CASE ProgressExit BY <1>4 DEF ProgressExit
<1>5. CASE UNCHANGED pipelineVars BY <1>5 DEF pipelineVars
<1> QED BY <1>1, <1>2, <1>3, <1>4, <1>5 DEF Next, Over

\* The batches go through the first step in the order of the file, one by one.
THEOREM PipelineShape == Spec => []Shape
BY ShapeAtFirst, ShapeStays, FieldTyping, PTL DEF Spec

-----------------------------------------------------------------------------
(* Counting batches. *)

\* A set of batches is finite and has a natural number of elements.
LEMMA BatchSets ==
    ASSUME NEW S \in SUBSET Batch
    PROVE  IsFiniteSet(S) /\ Cardinality(S) \in Nat
<1>1. IsFiniteSet(1 .. NumBatches)
  BY NumBatchesAssumption, FS_Interval
<1> QED
  BY <1>1, FS_Subset, FS_CardinalityType DEF Batch

\* A batch that joins a set of batches makes it larger by one.
LEMMA BatchJoins ==
    ASSUME NEW S \in SUBSET Batch, NEW b \in Batch, b \notin S
    PROVE  Cardinality(S \cup {b}) = Cardinality(S) + 1
<1>1. IsFiniteSet(S)
  BY BatchSets
<1> QED
  BY <1>1, FS_AddElement

\* A batch that leaves a set of batches makes it smaller by one.
LEMMA BatchLeaves ==
    ASSUME NEW S \in SUBSET Batch, NEW b \in S
    PROVE  Cardinality(S \ {b}) = Cardinality(S) - 1
<1>1. IsFiniteSet(S)
  BY BatchSets
<1> QED
  BY <1>1, FS_RemoveElement

\* No counted task is left once the count is zero.
LEMMA NothingOutstanding ==
    ASSUME NEW S \in SUBSET Batch, Cardinality(S) = 0
    PROVE  S = {}
<1>1. IsFiniteSet(S)
  BY BatchSets
<1> QED
  BY <1>1, FS_EmptySet

-----------------------------------------------------------------------------
\* The four sets whose sizes the WaitGroup and the semaphores hold.
Accounts == <<FirstOutstanding, RealOutstanding, FirstPermits, RealPermits>>

\* They are sets of batches.
LEMMA AccountsAreBatchSets ==
    /\ FirstOutstanding \in SUBSET Batch /\ RealOutstanding \in SUBSET Batch
    /\ FirstPermits \in SUBSET Batch /\ RealPermits \in SUBSET Batch
BY DEF FirstOutstanding, RealOutstanding, FirstPermits, RealPermits

\* The balance between the shared counters and the tasks that hold them.
Balance ==
    /\ async_task_wg = Cardinality(FirstOutstanding) + Cardinality(RealOutstanding)
    /\ control_write_first_step = 1 - Cardinality(FirstPermits)
    /\ control_real_write_edge = Concurrency - Cardinality(RealPermits)
    /\ control_write_first_step >= 0
    /\ control_real_write_edge >= 0

\* At first no permit is held and no task is counted.
LEMMA BalanceAtFirst == Init => Balance
<1> SUFFICES ASSUME Init PROVE Balance
  OBVIOUS
<1>1. FirstOutstanding = {} /\ RealOutstanding = {} /\ FirstPermits = {} /\ RealPermits = {}
  BY DEF Init, FirstOutstanding, RealOutstanding, FirstPermits, RealPermits, FirstRunning
<1>2. Cardinality({}) = 0
  BY FS_EmptySet
<1> QED
  BY <1>1, <1>2, ConcurrencyAssumption DEF Init, Balance

\* Every step that moves a counter moves the set it counts by the same batch,
\* and no other set.
LEMMA BalanceStays ==
    ASSUME FieldsOK, Shape, Balance, [Next]_pipelineVars
    PROVE  Balance'
<1> USE ConcurrencyAssumption
    DEF FieldsOK, FirstPC, RealPC, FirstRunning, RealRunning, At, Moved, handover, reporting
<1>a. ASSUME UNCHANGED Accounts, UNCHANGED handover PROVE Balance'
  BY <1>a DEF Accounts, Balance
<1>1. CASE MainStep
  <2>1. CASE FillBatch
    <3>1. UNCHANGED Accounts
      BY <2>1 DEF FillBatch, Accounts, FirstOutstanding, RealOutstanding, FirstPermits, RealPermits
    <3> QED BY <1>a, <2>1, <3>1 DEF FillBatch
  <2>2. CASE AcquireFirstStep
    <3>1. FirstPermits' = FirstPermits \cup {next} /\ next \notin FirstPermits
      BY <2>2 DEF AcquireFirstStep, FirstPermits, Shape, HandedOver
    <3>2. UNCHANGED <<FirstOutstanding, RealOutstanding, RealPermits>>
      BY <2>2 DEF AcquireFirstStep, FirstOutstanding, RealOutstanding, RealPermits, Shape, HandedOver
    <3>3. Cardinality(FirstPermits') = Cardinality(FirstPermits) + 1
      BY <2>2, <3>1, BatchJoins, AccountsAreBatchSets DEF AcquireFirstStep
    <3> QED BY <2>2, <3>2, <3>3, AccountsAreBatchSets, BatchSets DEF AcquireFirstStep, Balance
  <2>3. CASE CountFirstStep
    <3>1. FirstOutstanding' = FirstOutstanding \cup {next} /\ next \notin FirstOutstanding
      BY <2>3 DEF CountFirstStep, FirstOutstanding, Shape, HandedOver
    <3>2. UNCHANGED <<RealOutstanding, FirstPermits, RealPermits>>
      BY <2>3 DEF CountFirstStep, RealOutstanding, FirstPermits, RealPermits, Shape, HandedOver
    <3>3. Cardinality(FirstOutstanding') = Cardinality(FirstOutstanding) + 1
      BY <2>3, <3>1, BatchJoins, AccountsAreBatchSets DEF CountFirstStep
    <3> QED BY <2>3, <3>2, <3>3, AccountsAreBatchSets, BatchSets DEF CountFirstStep, Balance
  <2>4. CASE EnqueueFirstStep
    <3>1. UNCHANGED Accounts
      BY <2>4 DEF EnqueueFirstStep, Accounts, FirstOutstanding, RealOutstanding, FirstPermits, RealPermits
    <3> QED BY <1>a, <2>4, <3>1 DEF EnqueueFirstStep
  <2>5. CASE EndOfFile
    <3>1. UNCHANGED Accounts
      BY <2>5 DEF EndOfFile, Accounts, FirstOutstanding, RealOutstanding, FirstPermits, RealPermits
    <3> QED BY <1>a, <2>5, <3>1 DEF EndOfFile
  <2>6. CASE InputError
    <3>1. UNCHANGED Accounts
      BY <2>6 DEF InputError, Accounts, FirstOutstanding, RealOutstanding, FirstPermits, RealPermits
    <3> QED BY <1>a, <2>6, <3>1 DEF InputError
  <2>7. CASE Unwind
    <3>1. UNCHANGED Accounts
      BY <2>7 DEF Unwind, Accounts, FirstOutstanding, RealOutstanding, FirstPermits, RealPermits
    <3> QED BY <1>a, <2>7, <3>1 DEF Unwind
  <2>8. CASE WaitTasks
    <3>1. UNCHANGED Accounts
      BY <2>8 DEF WaitTasks, Accounts, FirstOutstanding, RealOutstanding, FirstPermits, RealPermits
    <3> QED BY <1>a, <2>8, <3>1 DEF WaitTasks
  <2>9. CASE ReturnFromImport
    <3>1. UNCHANGED Accounts
      BY <2>9 DEF ReturnFromImport, Accounts, FirstOutstanding, RealOutstanding, FirstPermits, RealPermits
    <3> QED BY <1>a, <2>9, <3>1 DEF ReturnFromImport
  <2> QED BY <1>1, <2>1, <2>2, <2>3, <2>4, <2>5, <2>6, <2>7, <2>8, <2>9 DEF MainStep
<1>2. ASSUME NEW b \in Batch, FirstStepTask(b) PROVE Balance'
  <2>1. CASE FirstStart(b)
    <3>1. UNCHANGED Accounts
      BY <2>1 DEF FirstStart, Accounts, FirstOutstanding, RealOutstanding, FirstPermits, RealPermits
    <3> QED BY <1>a, <2>1, <3>1 DEF FirstStart
  <2>2. CASE FirstResolve(b)
    <3>1. UNCHANGED Accounts
      BY <2>2 DEF FirstResolve, Accounts, FirstOutstanding, RealOutstanding, FirstPermits, RealPermits
    <3> QED BY <1>a, <2>2, <3>1 DEF FirstResolve
  <2>3. CASE FirstWrite(b)
    <3>1. UNCHANGED Accounts
      BY <2>3 DEF FirstWrite, Accounts, FirstOutstanding, RealOutstanding, FirstPermits, RealPermits
    <3> QED BY <1>a, <2>3, <3>1 DEF FirstWrite
  <2>4. CASE FirstRelease(b)
    <3>1. FirstPermits' = FirstPermits \ {b} /\ b \in FirstPermits
      BY <2>4 DEF FirstRelease, FirstPermits, Shape, HandedOver
    <3>2. UNCHANGED <<FirstOutstanding, RealOutstanding, RealPermits>>
      BY <2>4 DEF FirstRelease, FirstOutstanding, RealOutstanding, RealPermits, Shape, HandedOver
    <3>3. Cardinality(FirstPermits') = Cardinality(FirstPermits) - 1
      BY <2>4, <3>1, BatchLeaves, AccountsAreBatchSets DEF FirstRelease
    <3> QED BY <2>4, <3>2, <3>3, AccountsAreBatchSets, BatchSets DEF FirstRelease, Balance
  <2>5. CASE FirstAcquire(b)
    <3>1. RealPermits' = RealPermits \cup {b} /\ b \notin RealPermits
      BY <2>5 DEF FirstAcquire, RealPermits, Shape, HandedOver
    <3>2. UNCHANGED <<FirstOutstanding, RealOutstanding, FirstPermits>>
      BY <2>5 DEF FirstAcquire, FirstOutstanding, RealOutstanding, FirstPermits, Shape, HandedOver
    <3>3. Cardinality(RealPermits') = Cardinality(RealPermits) + 1
      BY <2>5, <3>1, BatchJoins, AccountsAreBatchSets DEF FirstAcquire
    <3> QED BY <2>5, <3>2, <3>3, AccountsAreBatchSets, BatchSets DEF FirstAcquire, Balance
  <2>6. CASE FirstAdd(b)
    <3>1. RealOutstanding' = RealOutstanding \cup {b} /\ b \notin RealOutstanding
      BY <2>6 DEF FirstAdd, RealOutstanding, Shape, HandedOver
    <3>2. UNCHANGED <<FirstOutstanding, FirstPermits, RealPermits>>
      BY <2>6 DEF FirstAdd, FirstOutstanding, FirstPermits, RealPermits, Shape, HandedOver
    <3>3. Cardinality(RealOutstanding') = Cardinality(RealOutstanding) + 1
      BY <2>6, <3>1, BatchJoins, AccountsAreBatchSets DEF FirstAdd
    <3> QED BY <2>6, <3>2, <3>3, AccountsAreBatchSets, BatchSets DEF FirstAdd, Balance
  <2>7. CASE FirstEnqueue(b)
    <3>1. UNCHANGED Accounts
      BY <2>7 DEF FirstEnqueue, Accounts, FirstOutstanding, RealOutstanding, FirstPermits, RealPermits
    <3> QED BY <1>a, <2>7, <3>1 DEF FirstEnqueue
  <2>8. CASE FirstDone(b)
    <3>1. FirstOutstanding' = FirstOutstanding \ {b} /\ b \in FirstOutstanding
      BY <2>8 DEF FirstDone, FirstOutstanding, Shape, HandedOver
    <3>2. UNCHANGED <<RealOutstanding, FirstPermits, RealPermits>>
      BY <2>8 DEF FirstDone, RealOutstanding, FirstPermits, RealPermits, Shape, HandedOver
    <3>3. Cardinality(FirstOutstanding') = Cardinality(FirstOutstanding) - 1
      BY <2>8, <3>1, BatchLeaves, AccountsAreBatchSets DEF FirstDone
    <3> QED BY <2>8, <3>2, <3>3, AccountsAreBatchSets, BatchSets DEF FirstDone, Balance
  <2> QED BY <1>2, <2>1, <2>2, <2>3, <2>4, <2>5, <2>6, <2>7, <2>8 DEF FirstStepTask
<1>3. ASSUME NEW b \in Batch, RealWriteTask(b) PROVE Balance'
  <2>1. CASE RealStart(b)
    <3>1. UNCHANGED Accounts
      BY <2>1 DEF RealStart, Accounts, FirstOutstanding, RealOutstanding, FirstPermits, RealPermits
    <3> QED BY <1>a, <2>1, <3>1 DEF RealStart
  <2>2. CASE RealWrite(b)
    <3>1. UNCHANGED Accounts
      BY <2>2 DEF RealWrite, Accounts, FirstOutstanding, RealOutstanding, FirstPermits, RealPermits
    <3> QED BY <1>a, <2>2, <3>1 DEF RealWrite
  <2>3. CASE RealDone(b)
    <3>1. RealOutstanding' = RealOutstanding \ {b} /\ b \in RealOutstanding
      BY <2>3 DEF RealDone, RealOutstanding, Shape, HandedOver
    <3>2. UNCHANGED <<FirstOutstanding, FirstPermits, RealPermits>>
      BY <2>3 DEF RealDone, FirstOutstanding, FirstPermits, RealPermits, Shape, HandedOver
    <3>3. Cardinality(RealOutstanding') = Cardinality(RealOutstanding) - 1
      BY <2>3, <3>1, BatchLeaves, AccountsAreBatchSets DEF RealDone
    <3> QED BY <2>3, <3>2, <3>3, AccountsAreBatchSets, BatchSets DEF RealDone, Balance
  <2>4. CASE RealRelease(b)
    <3>1. RealPermits' = RealPermits \ {b} /\ b \in RealPermits
      BY <2>4 DEF RealRelease, RealPermits, Shape, HandedOver
    <3>2. UNCHANGED <<FirstOutstanding, RealOutstanding, FirstPermits>>
      BY <2>4 DEF RealRelease, FirstOutstanding, RealOutstanding, FirstPermits, Shape, HandedOver
    <3>3. Cardinality(RealPermits') = Cardinality(RealPermits) - 1
      BY <2>4, <3>1, BatchLeaves, AccountsAreBatchSets DEF RealRelease
    <3> QED BY <2>4, <3>2, <3>3, AccountsAreBatchSets, BatchSets DEF RealRelease, Balance
  <2> QED BY <1>3, <2>1, <2>2, <2>3, <2>4 DEF RealWriteTask
<1>4. CASE ProgressExit
  <2>1. UNCHANGED Accounts
    BY <1>4 DEF ProgressExit, Accounts, FirstOutstanding, RealOutstanding, FirstPermits, RealPermits
  <2> QED BY <1>a, <1>4, <2>1 DEF ProgressExit
<1>5. CASE UNCHANGED pipelineVars
  <2>1. UNCHANGED Accounts
    BY <1>5 DEF pipelineVars, Accounts, FirstOutstanding, RealOutstanding, FirstPermits, RealPermits
  <2> QED BY <1>a, <1>5, <2>1 DEF pipelineVars
<1> QED BY <1>1, <1>2, <1>3, <1>4, <1>5 DEF Next, Over

\* The shared counters always balance.
LEMMA PipelineBalance == Spec => []Balance
BY BalanceAtFirst, BalanceStays, FieldTyping, PipelineShape, PTL DEF Spec

-----------------------------------------------------------------------------
(* What the invariant gives. *)

\* The type invariant: in particular neither a semaphore nor the WaitGroup ever
\* goes below zero, so no done() or release() comes before its add() or
\* acquire(), and the two comparisons counter_ <= 0 are comparisons with zero.
THEOREM PipelineTyping == Spec => []TypeOK
<1>1. ASSUME FieldsOK, Balance PROVE TypeOK
  <2>1. Cardinality(FirstOutstanding) \in Nat /\ Cardinality(RealOutstanding) \in Nat
    BY AccountsAreBatchSets, BatchSets
  <2>2. async_task_wg \in Nat
    BY <1>1, <2>1 DEF Balance
  <2>3. control_write_first_step \in Nat /\ control_real_write_edge \in Nat
    BY <1>1 DEF FieldsOK, Balance
  <2> QED BY <1>1, <2>2, <2>3 DEF FieldsOK, TypeOK
<1> QED BY <1>1, FieldTyping, PipelineBalance, PTL

\* The WaitGroup of import_data counts exactly the tasks that still have to
\* call done(), for any number of batches and edge writers.
THEOREM WaitGroupCounts == Spec => []WgCounts
<1>1. Balance => WgCounts
  BY DEF Balance, WgCounts
<1> QED BY <1>1, PipelineBalance, PTL

\* No permit of either semaphore is lost or made, so the first step is never
\* handed two batches and never more than Concurrency batches of edges are
\* with the writers.
THEOREM SemaphoresBalance == Spec => []PermitsAccounted
<1>1. Balance => PermitsAccounted
  BY DEF Balance, PermitsAccounted
<1> QED BY <1>1, PipelineBalance, PTL

\* get_vertex_ids of a batch runs after every earlier batch has appended its
\* vertices.
THEOREM ResolvingIsOrdered == Spec => []ResolvedInOrder
<1>1. Shape => ResolvedInOrder
  BY DEF Shape, OneByOne, ResolvedInOrder, FirstRunning
<1> QED BY <1>1, PipelineShape, PTL

\* At first main is reading.
LEMMA NothingCompleteAtFirst == Init => CompletionIsTotal
BY DEF Init, CompletionIsTotal

\* The wait ends with a counter of zero: no counted task is left, and main has
\* handed over every batch.
LEMMA CompletionStays ==
    ASSUME FieldsOK, Shape, Balance, CompletionIsTotal, [Next]_pipelineVars
    PROVE  CompletionIsTotal'
<1> USE DEF At, Moved, handover, reporting
<1>1. CASE WaitTasks
  <2>1. Cardinality(FirstOutstanding) = 0 /\ Cardinality(RealOutstanding) = 0
    BY <1>1, AccountsAreBatchSets, BatchSets DEF WaitTasks, Balance
  <2>2. FirstOutstanding = {} /\ RealOutstanding = {}
    BY <2>1, AccountsAreBatchSets, NothingOutstanding
  <2>3. \A b \in Batch : b < next
    BY <1>1, NumBatchesAssumption DEF WaitTasks, Shape, HandedOver, Batch
  <2>4. \A b \in Batch : firstStep[b] = "finished"
    BY <2>2, <2>3 DEF FirstOutstanding, Shape, HandedOver
  <2>5. \A b \in Batch : realWrite[b] \in {"release", "finished"}
    BY <2>2, <2>4 DEF RealOutstanding, Shape, HandedOver, FieldsOK, RealPC
  <2> QED BY <1>1, <2>4, <2>5 DEF WaitTasks, CompletionIsTotal
<1>2. CASE MainStep /\ ~ WaitTasks
  <2>1. CASE main = "read"
    BY <1>2, <2>1 DEF MainStep, FillBatch, AcquireFirstStep, CountFirstStep, EnqueueFirstStep,
                      EndOfFile, InputError, Unwind, ReturnFromImport, CompletionIsTotal
  <2>2. CASE main # "read"
    BY <1>2, <2>2 DEF MainStep, FillBatch, AcquireFirstStep, CountFirstStep, EnqueueFirstStep,
                      EndOfFile, InputError, Unwind, ReturnFromImport, CompletionIsTotal
  <2> QED BY <2>1, <2>2
<1>3. ASSUME NEW b \in Batch, FirstStepTask(b) PROVE CompletionIsTotal'
  BY <1>3 DEF FirstStepTask, FirstStart, FirstResolve, FirstWrite, FirstRelease, FirstAcquire,
              FirstAdd, FirstEnqueue, FirstDone, CompletionIsTotal
<1>4. ASSUME NEW b \in Batch, RealWriteTask(b) PROVE CompletionIsTotal'
  <2>1. CASE RealStart(b) BY <2>1 DEF RealStart, CompletionIsTotal
  <2>2. CASE RealWrite(b) BY <2>2 DEF RealWrite, CompletionIsTotal
  <2>3. CASE RealDone(b) BY <2>3 DEF RealDone, CompletionIsTotal, FieldsOK
  <2>4. CASE RealRelease(b) BY <2>4 DEF RealRelease, CompletionIsTotal, FieldsOK
  <2> QED BY <1>4, <2>1, <2>2, <2>3, <2>4 DEF RealWriteTask
<1>5. CASE ProgressExit BY <1>5 DEF ProgressExit, CompletionIsTotal
<1>6. CASE UNCHANGED pipelineVars BY <1>6 DEF pipelineVars, CompletionIsTotal
<1> QED BY <1>1, <1>2, <1>3, <1>4, <1>5, <1>6 DEF Next, Over

\* Once import_data has passed async_task_wg->wait(), every batch of the file
\* is resolved and written: the counter is zero, so no counted task is left,
\* and main has handed over every batch.
THEOREM CompletionTheorem == Spec => []CompletionIsTotal
BY NothingCompleteAtFirst, CompletionStays, FieldTyping, PipelineShape, PipelineBalance, PTL DEF Spec

\* All of it as one inductive invariant, for the modules whose processes run
\* import_data among other things.
PipelineInv == FieldsOK /\ Shape /\ Balance /\ CompletionIsTotal

\* import_data is entered in a state of the invariant ...
LEMMA PipelineStarts == Init => PipelineInv
BY FieldsAtFirst, ShapeAtFirst, BalanceAtFirst, NothingCompleteAtFirst DEF PipelineInv

\* ... and none of its steps leaves it.
LEMMA PipelineStays ==
    ASSUME PipelineInv, [Next]_pipelineVars
    PROVE  PipelineInv'
BY FieldsStay, ShapeStays, BalanceStays, CompletionStays DEF PipelineInv

\* However many batches the file has, at most Concurrency + 3 are read and not yet
\* written: those that hold a permit of either semaphore, the one the single worker
\* is at, and the one main fills or holds while it is blocked.
THEOREM ReadAheadIsBounded == Spec => []InFlightBounded
<1>1. ASSUME FieldsOK, Shape, Balance PROVE InFlightBounded
  <2> DEFINE Worker == {b \in Batch : firstStep[b] \in FirstRunning}
  <2>1. Worker \in SUBSET Batch /\ InFlight \in SUBSET Batch
    BY DEF InFlight
  <2> DEFINE AtMain == Batch \cap {next}
             Permits == FirstPermits \cup RealPermits
             Holders == Permits \cup Worker
  <2>2. InFlight \subseteq Holders \cup AtMain
    BY DEF InFlight, FirstPermits, RealPermits, RealRunning
  <2>3. Cardinality(Worker) <= 1
    <3>1. CASE Worker = {}
      BY <3>1, FS_EmptySet
    <3>2. CASE Worker # {}
      <4>1. PICK b \in Worker : TRUE
        BY <3>2
      <4>2. \A c \in Worker : c = b
        BY <1>1 DEF Shape, OneByOne, FirstRunning, Batch
      <4>3. Worker = {b}
        BY <4>2
      <4>4. Cardinality({b}) = 1
        BY FS_Singleton
      <4> HIDE DEF Worker
      <4> QED BY <4>3, <4>4
    <3> QED BY <3>1, <3>2
  <2>4. Cardinality(FirstPermits) <= 1 /\ Cardinality(RealPermits) <= Concurrency
    BY <1>1, AccountsAreBatchSets, BatchSets, ConcurrencyAssumption DEF Balance
  <2>5. Cardinality(FirstPermits \cup RealPermits) <= Concurrency + 1
    <3>1. Cardinality(FirstPermits \cup RealPermits)
            = Cardinality(FirstPermits) + Cardinality(RealPermits)
              - Cardinality(FirstPermits \cap RealPermits)
      BY AccountsAreBatchSets, BatchSets, FS_Union
    <3>2. Cardinality(FirstPermits \cap RealPermits) \in Nat
      BY AccountsAreBatchSets, BatchSets
    <3> QED
      BY <2>4, <3>1, <3>2, AccountsAreBatchSets, BatchSets, ConcurrencyAssumption
  <2>6. Permits \in SUBSET Batch /\ Holders \in SUBSET Batch /\ AtMain \in SUBSET Batch
    BY <2>1, AccountsAreBatchSets
  <2>7. Cardinality(Permits) <= Concurrency + 1
    BY <2>5
  <2>8. Cardinality(AtMain) <= 1
    <3>1. AtMain \in SUBSET {next} /\ IsFiniteSet({next}) /\ Cardinality({next}) = 1
      BY FS_Singleton
    <3> HIDE DEF AtMain
    <3> QED
      BY <3>1, FS_Subset
  <2> HIDE DEF Worker, AtMain, Permits
  <2>9. Cardinality(Holders) <= Concurrency + 2
    <3>1. Cardinality(Holders)
            = Cardinality(Permits) + Cardinality(Worker) - Cardinality(Permits \cap Worker)
      BY <2>1, <2>6, BatchSets, FS_Union
    <3>2. /\ Cardinality(Permits \cap Worker) \in Nat
          /\ Cardinality(Permits) \in Nat /\ Cardinality(Worker) \in Nat
      BY <2>1, <2>6, BatchSets
    <3> QED
      BY <2>3, <2>7, <3>1, <3>2, ConcurrencyAssumption
  <2> HIDE DEF Holders
  <2>10. Cardinality(Holders \cup AtMain) <= Concurrency + 3
    <3>1. Cardinality(Holders \cup AtMain)
            = Cardinality(Holders) + Cardinality(AtMain) - Cardinality(Holders \cap AtMain)
      BY <2>6, BatchSets, FS_Union
    <3>2. /\ Cardinality(Holders \cap AtMain) \in Nat
          /\ Cardinality(Holders) \in Nat /\ Cardinality(AtMain) \in Nat
      BY <2>6, BatchSets
    <3> QED
      BY <2>8, <2>9, <3>1, <3>2, ConcurrencyAssumption
  <2>11. Cardinality(InFlight) <= Cardinality(Holders \cup AtMain)
    <3>1. Holders \cup AtMain \in SUBSET Batch
      BY <2>6
    <3> QED BY <2>2, <3>1, BatchSets, FS_Subset
  <2>12. Cardinality(InFlight) \in Nat /\ Cardinality(Holders \cup AtMain) \in Nat
    <3>1. Holders \cup AtMain \in SUBSET Batch
      BY <2>6
    <3> QED BY <2>1, <3>1, BatchSets
  <2> QED
    BY <2>10, <2>11, <2>12, ConcurrencyAssumption DEF InFlightBounded
<1> QED BY <1>1, FieldTyping, PipelineShape, PipelineBalance, PTL
=============================================================================
