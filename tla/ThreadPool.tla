----------------------------- MODULE ThreadPool -----------------------------
(***************************************************************************)
(* ThreadPool (src/src/utils/thread_pool.hpp) at the level of its mutex    *)
(* and its condition variable.  A critical section of tasks_mutex_ is one  *)
(* step; what happens outside it is another: enqueue() notifies after it   *)
(* has released the mutex, and a worker that is notified takes the mutex   *)
(* again later and evaluates the predicate of wait() again.                *)
(***************************************************************************)
EXTENDS Integers, FiniteSets, Sequences

CONSTANTS
    Worker,      \* the threads of the pool
    Producer,    \* the threads that call enqueue()
    Quota        \* bound: how many tasks each producer enqueues

\* The constructor throws when numThreads is zero.
ASSUME WorkerAssumption == Worker # {} /\ IsFiniteSet(Worker) /\ IsFiniteSet(Producer)
ASSUME QuotaAssumption == Quota \in Nat

\* A task is named after the producer and the turn that enqueued it.
Task == Producer \X (1 .. Quota)

VARIABLES
    tasks_,      \* the queue
    stop_,
    worker,      \* where each worker is
    task,        \* the task each worker has popped, or NoTask
    producer,    \* where each producer is
    turn,        \* how many tasks each producer has pushed
    finished,    \* the tasks that have run
    owner        \* the thread that destroys the pool

vars == <<tasks_, stop_, worker, task, producer, turn, finished, owner>>

NoTask == <<>>

Init ==
    /\ tasks_ = <<>>
    /\ stop_ = FALSE
    /\ worker = [w \in Worker |-> "loop"]
    /\ task = [w \in Worker |-> NoTask]
    /\ producer = [p \in Producer |-> "push"]
    /\ turn = [p \in Producer |-> 0]
    /\ finished = {}
    /\ owner = "using"

-----------------------------------------------------------------------------
(* enqueue *)

\* The owner of the pool sees to it that nobody enqueues once it destroys it.
Push(p) ==
    /\ owner = "using"
    /\ producer[p] = "push" /\ turn[p] < Quota
    /\ turn' = [turn EXCEPT ![p] = @ + 1]
    /\ tasks_' = Append(tasks_, <<p, turn[p] + 1>>)
    /\ producer' = [producer EXCEPT ![p] = "notify"]
    /\ UNCHANGED <<stop_, worker, task, finished, owner>>

Waiting == {w \in Worker : worker[w] = "waiting"}

\* Mutant: enqueue() notifies only when it made the queue non-empty.
NotifyOneIfFirst(p) ==
    /\ producer[p] = "notify"
    /\ producer' = [producer EXCEPT ![p] = "push"]
    /\ IF Waiting = {} \/ Len(tasks_) # 1
       THEN UNCHANGED worker
       ELSE \E w \in Waiting : worker' = [worker EXCEPT ![w] = "loop"]
    /\ UNCHANGED <<tasks_, stop_, task, turn, finished, owner>>

\* Mutant: enqueue() does not notify.
NotifyNobody(p) ==
    /\ producer[p] = "notify"
    /\ producer' = [producer EXCEPT ![p] = "push"]
    /\ UNCHANGED <<tasks_, stop_, worker, task, turn, finished, owner>>

\* notify_one() wakes any one waiting worker, and nobody if none waits.
NotifyOne(p) ==
    /\ producer[p] = "notify"
    /\ producer' = [producer EXCEPT ![p] = "push"]
    /\ IF Waiting = {}
       THEN UNCHANGED worker
       ELSE \E w \in Waiting : worker' = [worker EXCEPT ![w] = "loop"]
    /\ UNCHANGED <<tasks_, stop_, task, turn, finished, owner>>

-----------------------------------------------------------------------------
(* worker *)

\* Holding the mutex, at the top of the loop or woken inside wait().
Sleep(w) ==
    /\ worker[w] = "loop"
    /\ ~ stop_ /\ tasks_ = <<>>
    /\ worker' = [worker EXCEPT ![w] = "waiting"]
    /\ UNCHANGED <<tasks_, stop_, task, producer, turn, finished, owner>>

\* Mutant: a worker ends as soon as it is told to.
LeaveAtOnce(w) ==
    /\ worker[w] = "loop"
    /\ stop_
    /\ worker' = [worker EXCEPT ![w] = "exited"]
    /\ UNCHANGED <<tasks_, stop_, task, producer, turn, finished, owner>>

Leave(w) ==
    /\ worker[w] = "loop"
    /\ stop_ /\ tasks_ = <<>>
    /\ worker' = [worker EXCEPT ![w] = "exited"]
    /\ UNCHANGED <<tasks_, stop_, task, producer, turn, finished, owner>>

\* Mutant: the task is taken and left in the queue.
TakeWithoutPop(w) ==
    /\ worker[w] = "loop"
    /\ tasks_ # <<>>
    /\ task' = [task EXCEPT ![w] = Head(tasks_)]
    /\ worker' = [worker EXCEPT ![w] = "running"]
    /\ UNCHANGED <<tasks_, stop_, producer, turn, finished, owner>>

Take(w) ==
    /\ worker[w] = "loop"
    /\ tasks_ # <<>>
    /\ task' = [task EXCEPT ![w] = Head(tasks_)]
    /\ tasks_' = Tail(tasks_)
    /\ worker' = [worker EXCEPT ![w] = "running"]
    /\ UNCHANGED <<stop_, producer, turn, finished, owner>>

\* The task returns; an exception that leaves it ends the process instead.
Run(w) ==
    /\ worker[w] = "running"
    /\ finished' = finished \cup {task[w]}
    /\ task' = [task EXCEPT ![w] = NoTask]
    /\ worker' = [worker EXCEPT ![w] = "loop"]
    /\ UNCHANGED <<tasks_, stop_, producer, turn, owner>>

\* A condition variable may wake a thread that nobody notified.
SpuriousWakeup(w) ==
    /\ worker[w] = "waiting"
    /\ worker' = [worker EXCEPT ![w] = "loop"]
    /\ UNCHANGED <<tasks_, stop_, task, producer, turn, finished, owner>>

-----------------------------------------------------------------------------
(* The destructor, which its owner calls when no call of enqueue is left. *)

\* Mutant: the destructor does not wake the workers.
StopUnnoticed ==
    /\ owner = "using"
    /\ \A p \in Producer : producer[p] = "push"
    /\ stop_' = TRUE
    /\ owner' = "joining"
    /\ UNCHANGED <<tasks_, worker, task, producer, turn, finished>>

Stop ==
    /\ owner = "using"
    /\ \A p \in Producer : producer[p] = "push"
    /\ stop_' = TRUE
    /\ worker' = [w \in Worker |-> IF worker[w] = "waiting" THEN "loop" ELSE worker[w]]
    /\ owner' = "joining"
    /\ UNCHANGED <<tasks_, task, producer, turn, finished>>

Joined ==
    /\ owner = "joining"
    /\ \A w \in Worker : worker[w] = "exited"
    /\ owner' = "returned"
    /\ UNCHANGED <<tasks_, stop_, worker, task, producer, turn, finished>>

Destroyed == owner = "returned" /\ UNCHANGED vars

WorkerStep(w) == Sleep(w) \/ Leave(w) \/ Take(w) \/ Run(w)
ProducerStep(p) == Push(p) \/ NotifyOne(p)

Next ==
    \/ \E w \in Worker : WorkerStep(w) \/ SpuriousWakeup(w)
    \/ \E p \in Producer : ProducerStep(p)
    \/ Stop \/ Joined \/ Destroyed

Spec == Init /\ [][Next]_vars

\* The operating system schedules every thread, and tasks return.  Nothing is
\* assumed of spurious wakeups, nor that the pool is ever destroyed.
Fairness ==
    /\ \A w \in Worker : WF_vars(WorkerStep(w))
    /\ \A p \in Producer : WF_vars(ProducerStep(p))
    /\ WF_vars(Joined)

FairSpec == Spec /\ Fairness

-----------------------------------------------------------------------------
(* Properties *)

TypeOK ==
    /\ tasks_ \in Seq(Task)
    /\ stop_ \in BOOLEAN
    /\ worker \in [Worker -> {"loop", "waiting", "running", "exited"}]
    /\ task \in [Worker -> Task \cup {NoTask}]
    /\ \A w \in Worker : worker[w] = "running" <=> task[w] # NoTask
    /\ producer \in [Producer -> {"push", "notify"}]
    /\ turn \in [Producer -> 0 .. Quota]
    /\ finished \in SUBSET Task
    /\ owner \in {"using", "joining", "returned"}

Awake == {w \in Worker : worker[w] = "loop"}
Notifying == {p \in Producer : producer[p] = "notify"}

\* No wakeup is lost although enqueue() notifies after it has released the
\* mutex: while a worker sleeps, every queued task has an awake worker coming
\* for it or a producer about to notify.
NoLostWakeup ==
    Waiting # {} => Len(tasks_) <= Cardinality(Awake) + Cardinality(Notifying)

\* The comment of thread_pool.hpp 72: a worker ends only when it was told to
\* and no task is left, so none is still to be begun when the first worker ends.
NobodyLeavesWork ==
    (\E w \in Worker : worker[w] = "exited") => stop_ /\ tasks_ = <<>>

\* The pool implements TaskPool: each task is begun in order and run once, and
\* the destructor returns after all have run (comment of thread_pool.hpp 38).
Pool == INSTANCE TaskPool WITH
    submitted <- {t \in Task : t[2] <= turn[t[1]]},
    pending <- tasks_,
    running <- {task[w] : w \in Worker} \ {NoTask},
    finished <- finished,
    destroyed <- owner = "returned"
ImplementsTaskPool == Pool!Spec

\* Every task that was enqueued is run, whether or not the destructor comes to
\* wake the workers.
EveryTaskRuns ==
    \A t \in Task : (turn[t[1]] = t[2]) ~> (t \in finished)

\* A destructor that has begun returns: no worker sleeps through notify_all.
DestructorReturns == owner = "joining" ~> owner = "returned"
=============================================================================
