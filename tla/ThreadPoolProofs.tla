-------------------------- MODULE ThreadPoolProofs --------------------------
(***************************************************************************)
(* What ThreadPool guarantees for any finite sets of workers and           *)
(* producers, and that it implements TaskPool.                             *)
(***************************************************************************)
EXTENDS ThreadPool, FiniteSetTheorems, TLAPS

\* A worker that has no task does not hold one by accident.
LEMMA NoTaskIsNoTask == NoTask \notin Task
  BY DEF NoTask, Task

\* The task that a push makes is a task.
LEMMA PushedTask ==
    ASSUME TypeOK, NEW p \in Producer, turn[p] < Quota
    PROVE  /\ <<p, turn[p] + 1>> \in Task
           /\ [turn EXCEPT ![p] = @ + 1] \in [Producer -> 0 .. Quota]
  BY QuotaAssumption DEF TypeOK, Task

\* Every step writes values of the right kind into each field of the pool, and
\* a worker holds a task exactly while it runs it.
THEOREM PoolTyping == Spec => []TypeOK
<1>1. Init => TypeOK
  <2> SUFFICES ASSUME Init PROVE TypeOK
    OBVIOUS
  <2>1. tasks_ \in Seq(Task)
    BY DEF Init
  <2>2. turn \in [Producer -> 0 .. Quota]
    BY QuotaAssumption DEF Init
  <2>3. \A w \in Worker : worker[w] = "loop" /\ task[w] = NoTask
    BY DEF Init
  <2> QED BY <2>1, <2>2, <2>3 DEF Init, TypeOK
<1>2. TypeOK /\ [Next]_vars => TypeOK'
  <2> SUFFICES ASSUME TypeOK, [Next]_vars PROVE TypeOK'
    OBVIOUS
  <2> USE DEF TypeOK
  <2>1. ASSUME NEW w \in Worker, WorkerStep(w) \/ SpuriousWakeup(w) PROVE TypeOK'
    <3>1. CASE Sleep(w) BY <3>1 DEF Sleep
    <3>2. CASE Leave(w) BY <3>2 DEF Leave
    <3>3. CASE Take(w)
      <4>1. Head(tasks_) \in Task /\ Tail(tasks_) \in Seq(Task)
        BY <3>3 DEF Take
      <4> QED BY <3>3, <4>1, NoTaskIsNoTask DEF Take
    <3>4. CASE Run(w)
      <4>1. task[w] \in Task
        BY <3>4 DEF Run
      <4> QED BY <3>4, <4>1 DEF Run
    <3>5. CASE SpuriousWakeup(w) BY <3>5 DEF SpuriousWakeup
    <3> QED BY <2>1, <3>1, <3>2, <3>3, <3>4, <3>5 DEF WorkerStep
  <2>2. ASSUME NEW p \in Producer, ProducerStep(p) PROVE TypeOK'
    <3>1. CASE Push(p)
      <4>1. tasks_' \in Seq(Task) /\ turn' \in [Producer -> 0 .. Quota]
        BY <3>1, PushedTask DEF Push
      <4> QED BY <3>1, <4>1 DEF Push
    <3>2. CASE NotifyOne(p)
      <4>1. worker' = worker \/ \E w \in Waiting : worker' = [worker EXCEPT ![w] = "loop"]
        BY <3>2 DEF NotifyOne
      <4> QED BY <3>2, <4>1 DEF NotifyOne, Waiting
    <3> QED BY <2>2, <3>1, <3>2 DEF ProducerStep
  <2>3. CASE Stop BY <2>3 DEF Stop
  <2>4. CASE Joined BY <2>4 DEF Joined
  <2>5. CASE UNCHANGED vars BY <2>5 DEF vars
  <2> QED BY <2>1, <2>2, <2>3, <2>4, <2>5 DEF Next, Destroyed
<1> QED BY <1>1, <1>2, PTL DEF Spec

-----------------------------------------------------------------------------
(* No wakeup is lost. *)

\* The workers that are awake and the producers about to notify can be counted.
LEMMA CountedSets ==
    /\ IsFiniteSet(Awake) /\ Cardinality(Awake) \in Nat
    /\ IsFiniteSet(Notifying) /\ Cardinality(Notifying) \in Nat
<1>1. Awake \subseteq Worker /\ Notifying \subseteq Producer
  BY DEF Awake, Notifying
<1> QED BY <1>1, WorkerAssumption, FS_Subset, FS_CardinalityType

\* Each task in the queue is matched by an awake worker or a coming
\* notification: a push brings its notification, a notification spends itself
\* on a sleeper and thereby wakes it, and a worker that takes a task takes one
\* awake worker and one task away.
THEOREM WakeupsSuffice == Spec => []NoLostWakeup
<1>1. Init => NoLostWakeup
  BY DEF Init, NoLostWakeup, Waiting
<1>2. TypeOK /\ NoLostWakeup /\ [Next]_vars => NoLostWakeup'
  <2> SUFFICES ASSUME TypeOK, NoLostWakeup, [Next]_vars, Waiting' # {}
               PROVE  Len(tasks_') <= Cardinality(Awake') + Cardinality(Notifying')
    BY DEF NoLostWakeup
  <2>t. /\ tasks_ \in Seq(Task) /\ Len(tasks_) \in Nat
        /\ worker \in [Worker -> {"loop", "waiting", "running", "exited"}]
        /\ producer \in [Producer -> {"push", "notify"}]
    BY DEF TypeOK
  <2>a. Waiting # {} => Len(tasks_) <= Cardinality(Awake) + Cardinality(Notifying)
    BY DEF NoLostWakeup
  <2>c. ASSUME NEW w \in Worker, w \notin Awake, Awake' = Awake \cup {w}
        PROVE  Cardinality(Awake') = Cardinality(Awake) + 1
    BY <2>c, CountedSets, FS_AddElement
  <2>d. /\ Cardinality(Awake) \in Nat /\ Cardinality(Notifying) \in Nat
        /\ Cardinality(Awake)' \in Nat /\ Cardinality(Notifying)' \in Nat
    <3>1. Awake' \subseteq Worker /\ Notifying' \subseteq Producer
      BY DEF Awake, Notifying
    <3> QED BY <3>1, CountedSets, WorkerAssumption, FS_Subset, FS_CardinalityType
  <2>1. ASSUME NEW w \in Worker, WorkerStep(w) \/ SpuriousWakeup(w)
        PROVE  Len(tasks_') <= Cardinality(Awake') + Cardinality(Notifying')
    <3>1. CASE Sleep(w)
      <4>1. Len(tasks_') = 0
        BY <3>1 DEF Sleep
      <4> QED BY <4>1, <2>d
    <3>2. CASE Leave(w)
      <4>1. Len(tasks_') = 0
        BY <3>2 DEF Leave
      <4> QED BY <4>1, <2>d
    <3>3. CASE Take(w)
      <4>1. Len(tasks_') = Len(tasks_) - 1
        BY <3>3, <2>t DEF Take
      <4>2. w \in Awake /\ Awake' = Awake \ {w} /\ Notifying' = Notifying /\ Waiting' = Waiting
        BY <3>3, <2>t DEF Take, Awake, Notifying, Waiting
      <4>3. Cardinality(Awake') = Cardinality(Awake) - 1
        BY <4>2, CountedSets, FS_RemoveElement
      <4> QED BY <4>1, <4>2, <4>3, <2>a, <2>d, <2>t
    <3>4. CASE Run(w)
      <4>1. w \notin Awake /\ Awake' = Awake \cup {w} /\ Notifying' = Notifying /\ Waiting' = Waiting
        BY <3>4, <2>t DEF Run, Awake, Notifying, Waiting
      <4>2. tasks_' = tasks_
        BY <3>4 DEF Run
      <4>3. Cardinality(Awake') = Cardinality(Awake) + 1
        BY <4>1, <2>c
      <4> QED BY <4>1, <4>2, <4>3, <2>a, <2>d, <2>t
    <3>5. CASE SpuriousWakeup(w)
      <4>1. /\ w \notin Awake /\ Awake' = Awake \cup {w} /\ Notifying' = Notifying
            /\ Waiting # {} /\ tasks_' = tasks_
        BY <3>5, <2>t DEF SpuriousWakeup, Awake, Notifying, Waiting
      <4>2. Cardinality(Awake') = Cardinality(Awake) + 1
        BY <4>1, <2>c
      <4> QED BY <4>1, <4>2, <2>a, <2>d, <2>t
    <3> QED BY <2>1, <3>1, <3>2, <3>3, <3>4, <3>5 DEF WorkerStep
  <2>2. ASSUME NEW p \in Producer, ProducerStep(p)
        PROVE  Len(tasks_') <= Cardinality(Awake') + Cardinality(Notifying')
    <3>1. CASE Push(p)
      <4>1. Len(tasks_') = Len(tasks_) + 1
        BY <3>1, <2>t, PushedTask DEF Push
      <4>2. /\ p \notin Notifying /\ Notifying' = Notifying \cup {p}
            /\ Awake' = Awake /\ Waiting' = Waiting
        BY <3>1, <2>t DEF Push, Awake, Notifying, Waiting
      <4>3. Cardinality(Notifying') = Cardinality(Notifying) + 1
        BY <4>2, CountedSets, FS_AddElement
      <4> QED BY <4>1, <4>2, <4>3, <2>a, <2>d, <2>t
    <3>2. CASE NotifyOne(p)
      <4>1. /\ p \in Notifying /\ Notifying' = Notifying \ {p} /\ tasks_' = tasks_
        BY <3>2, <2>t DEF NotifyOne, Notifying
      <4>2. Cardinality(Notifying') = Cardinality(Notifying) - 1
        BY <4>1, CountedSets, FS_RemoveElement
      <4>3. Waiting # {}
        BY <3>2 DEF NotifyOne, Waiting
      <4>4. PICK w \in Waiting : worker' = [worker EXCEPT ![w] = "loop"]
        BY <3>2, <4>3 DEF NotifyOne
      <4>5. w \in Worker /\ w \notin Awake /\ Awake' = Awake \cup {w}
        BY <4>4, <2>t DEF Awake, Waiting
      <4>6. Cardinality(Awake') = Cardinality(Awake) + 1
        BY <4>5, <2>c
      <4> QED BY <4>1, <4>2, <4>3, <4>6, <2>a, <2>d, <2>t
    <3> QED BY <2>2, <3>1, <3>2 DEF ProducerStep
  <2>3. CASE Stop
    BY <2>3, <2>t DEF Stop, Waiting
  <2>4. CASE Joined
    BY <2>4, <2>a, <2>d DEF Joined, Awake, Notifying, Waiting
  <2>5. CASE UNCHANGED vars
    BY <2>5, <2>a, <2>d DEF vars, Awake, Notifying, Waiting
  <2> QED BY <2>1, <2>2, <2>3, <2>4, <2>5 DEF Next, Destroyed
<1> QED BY <1>1, <1>2, PoolTyping, PTL DEF Spec

-----------------------------------------------------------------------------
(* ThreadPool implements TaskPool.  Two more invariants say why a step of the  *)
(* pool is one of TaskPool's: a task is in one place only, and nothing is left *)
(* or added once the destructor has begun.                                     *)

Pushed(t) == t[2] <= turn[t[1]]

OnePlace ==
    /\ \A i \in 1 .. Len(tasks_) : Pushed(tasks_[i])
    /\ \A w \in Worker : task[w] # NoTask => Pushed(task[w])
    /\ \A i, j \in 1 .. Len(tasks_) : tasks_[i] = tasks_[j] => i = j
    /\ \A w \in Worker, i \in 1 .. Len(tasks_) : task[w] # tasks_[i]
    /\ \A v, w \in Worker : task[v] = task[w] /\ task[w] # NoTask => v = w

Ending ==
    /\ stop_ <=> owner # "using"
    /\ stop_ => \A p \in Producer : producer[p] = "push"
    /\ NobodyLeavesWork
    /\ owner = "returned" => \A w \in Worker : worker[w] = "exited"

\* A task is in the queue once or with one worker: push numbers it anew, and a
\* worker takes it out of the queue under the mutex.
THEOREM TasksAreNotDoubled == Spec => []OnePlace
<1>1. Init => OnePlace
  BY DEF Init, OnePlace
<1>2. TypeOK /\ OnePlace /\ [Next]_vars => OnePlace'
  <2> SUFFICES ASSUME TypeOK, OnePlace, [Next]_vars PROVE OnePlace'
    OBVIOUS
  <2> USE DEF OnePlace, Pushed
  <2>t. /\ tasks_ \in Seq(Task) /\ Len(tasks_) \in Nat
        /\ worker \in [Worker -> {"loop", "waiting", "running", "exited"}]
        /\ task \in [Worker -> Task \cup {NoTask}]
        /\ \A w \in Worker : worker[w] = "running" <=> task[w] # NoTask
        /\ turn \in [Producer -> 0 .. Quota]
    BY DEF TypeOK
  <2>1. ASSUME NEW w \in Worker, WorkerStep(w) \/ SpuriousWakeup(w) PROVE OnePlace'
    <3>1. CASE Sleep(w) BY <3>1 DEF Sleep
    <3>2. CASE Leave(w) BY <3>2 DEF Leave
    <3>3. CASE Take(w)
      <4>1. /\ Len(tasks_) >= 1 /\ Len(tasks_') = Len(tasks_) - 1
            /\ \A i \in 1 .. Len(tasks_') : tasks_'[i] = tasks_[i + 1]
        BY <3>3, <2>t DEF Take
      <4>2. task' = [task EXCEPT ![w] = tasks_[1]] /\ turn' = turn
        BY <3>3, <2>t DEF Take
      <4>3. \A i \in 1 .. Len(tasks_') : i + 1 \in 1 .. Len(tasks_) /\ i + 1 # 1
        BY <4>1, <2>t
      <4>4. 1 \in 1 .. Len(tasks_)
        BY <4>1, <2>t
      <4>5. \A v \in Worker : task'[v] = IF v = w THEN tasks_[1] ELSE task[v]
        BY <4>2, <2>t
      <4>6. \A i \in 1 .. Len(tasks_') : Pushed(tasks_[i])'
        BY <4>1, <4>2, <4>3
      <4>7. \A v \in Worker : task'[v] # NoTask => task'[v][2] <= turn'[task'[v][1]]
        BY <4>2, <4>4, <4>5
      <4>8. ASSUME NEW i \in 1 .. Len(tasks_'), NEW j \in 1 .. Len(tasks_'),
                   tasks_'[i] = tasks_'[j]
            PROVE  i = j
        <5>1. tasks_[i + 1] = tasks_[j + 1]
          BY <4>1, <4>8
        <5>2. i + 1 = j + 1
          BY <4>3, <5>1
        <5> QED BY <5>2
      <4>9. \A v \in Worker, i \in 1 .. Len(tasks_') : task'[v] # tasks_'[i]
        BY <4>1, <4>3, <4>4, <4>5
      <4>10. \A u, v \in Worker : task'[u] = task'[v] /\ task'[v] # NoTask => u = v
        BY <4>4, <4>5
      <4> QED BY <4>6, <4>7, <4>8, <4>9, <4>10
    <3>4. CASE Run(w)
      <4>1. \A v \in Worker : task'[v] = IF v = w THEN NoTask ELSE task[v]
        BY <3>4, <2>t DEF Run
      <4>2. \A i \in 1 .. Len(tasks_) : tasks_[i] \in Task
        BY <2>t
      <4> QED BY <3>4, <4>1, <4>2, NoTaskIsNoTask DEF Run
    <3>5. CASE SpuriousWakeup(w) BY <3>5 DEF SpuriousWakeup
    <3> QED BY <2>1, <3>1, <3>2, <3>3, <3>4, <3>5 DEF WorkerStep
  <2>2. ASSUME NEW p \in Producer, ProducerStep(p) PROVE OnePlace'
    <3>1. CASE Push(p)
      <4> DEFINE new == <<p, turn[p] + 1>>
      <4>1. new \in Task /\ new[1] = p /\ new[2] = turn[p] + 1
        BY <3>1, PushedTask DEF Push
      <4>2. /\ Len(tasks_') = Len(tasks_) + 1
            /\ \A i \in 1 .. Len(tasks_) : tasks_'[i] = tasks_[i]
            /\ tasks_'[Len(tasks_) + 1] = new
        BY <3>1, <4>1, <2>t DEF Push
      <4>3. task' = task
        BY <3>1 DEF Push
      <4>4. \A t \in Task : t[1] \in Producer /\ t[2] \in 1 .. Quota
        BY DEF Task
      <4>5. \A q \in Producer : turn'[q] = IF q = p THEN turn[p] + 1 ELSE turn[q]
        BY <3>1, <2>t DEF Push
      <4>6. \A t \in Task : t[2] <= turn[t[1]] => t[2] <= turn'[t[1]] /\ t # new
        BY <4>1, <4>4, <4>5, <2>t, QuotaAssumption
      <4>7. \A i \in 1 .. Len(tasks_) : tasks_[i] \in Task
        BY <2>t
      <4>8. new[2] <= turn'[new[1]]
        BY <4>1, <4>5, <2>t, QuotaAssumption
      <4>9. \A i \in 1 .. Len(tasks_') : i \in 1 .. Len(tasks_) \/ i = Len(tasks_) + 1
        BY <4>2, <2>t
      <4> HIDE DEF new
      <4>10. \A i \in 1 .. Len(tasks_') : tasks_'[i][2] <= turn'[tasks_'[i][1]]
        BY <4>2, <4>6, <4>7, <4>8, <4>9
      <4>11. \A w \in Worker : task'[w] # NoTask => task'[w][2] <= turn'[task'[w][1]]
        BY <4>3, <4>6, <2>t
      <4>12. \A i, j \in 1 .. Len(tasks_') : tasks_'[i] = tasks_'[j] => i = j
        BY <4>2, <4>6, <4>7, <4>9
      <4>13. \A w \in Worker, i \in 1 .. Len(tasks_') : task'[w] # tasks_'[i]
        BY <4>1, <4>2, <4>3, <4>6, <4>9, <2>t, NoTaskIsNoTask
      <4> QED BY <4>3, <4>10, <4>11, <4>12, <4>13
    <3>2. CASE NotifyOne(p) BY <3>2 DEF NotifyOne
    <3> QED BY <2>2, <3>1, <3>2 DEF ProducerStep
  <2>3. CASE Stop BY <2>3 DEF Stop
  <2>4. CASE Joined BY <2>4 DEF Joined
  <2>5. CASE UNCHANGED vars BY <2>5 DEF vars
  <2> QED BY <2>1, <2>2, <2>3, <2>4, <2>5 DEF Next, Destroyed
<1> QED BY <1>1, <1>2, PoolTyping, PTL DEF Spec

\* Once the destructor has set stop_ no producer pushes, and no worker ends
\* while a task is queued.
THEOREM PoolEndsEmpty == Spec => []Ending
<1>1. Init => Ending
  BY DEF Init, Ending, NobodyLeavesWork
<1>2. TypeOK /\ Ending /\ [Next]_vars => Ending'
  <2> SUFFICES ASSUME TypeOK, Ending, [Next]_vars PROVE Ending'
    OBVIOUS
  <2> USE DEF TypeOK, Ending, NobodyLeavesWork
  <2>1. ASSUME NEW w \in Worker, WorkerStep(w) \/ SpuriousWakeup(w) PROVE Ending'
    <3>1. CASE Sleep(w) BY <3>1 DEF Sleep
    <3>2. CASE Leave(w) BY <3>2 DEF Leave
    <3>3. CASE Take(w) BY <3>3 DEF Take
    <3>4. CASE Run(w) BY <3>4 DEF Run
    <3>5. CASE SpuriousWakeup(w) BY <3>5 DEF SpuriousWakeup
    <3> QED BY <2>1, <3>1, <3>2, <3>3, <3>4, <3>5 DEF WorkerStep
  <2>2. ASSUME NEW p \in Producer, ProducerStep(p) PROVE Ending'
    <3>1. CASE Push(p)
      <4>1. ~ stop_ /\ \A w \in Worker : worker[w] # "exited"
        BY <3>1 DEF Push
      <4> QED BY <3>1, <4>1 DEF Push
    <3>2. CASE NotifyOne(p)
      <4>1. ~ stop_ /\ \A w \in Worker : worker[w] # "exited"
        BY <3>2 DEF NotifyOne
      <4>2. worker' = worker \/ \E w \in Waiting : worker' = [worker EXCEPT ![w] = "loop"]
        BY <3>2 DEF NotifyOne
      <4>3. \A w \in Worker : worker'[w] # "exited"
        BY <4>1, <4>2 DEF Waiting
      <4> QED BY <3>2, <4>1, <4>3 DEF NotifyOne
    <3> QED BY <2>2, <3>1, <3>2 DEF ProducerStep
  <2>3. CASE Stop BY <2>3 DEF Stop
  <2>4. CASE Joined BY <2>4 DEF Joined
  <2>5. CASE UNCHANGED vars BY <2>5 DEF vars
  <2> QED BY <2>1, <2>2, <2>3, <2>4, <2>5 DEF Next, Destroyed
<1> QED BY <1>1, <1>2, PoolTyping, PTL DEF Spec

\* The comment of thread_pool.hpp 72, for every pool.
THEOREM NoWorkIsLeft == Spec => []NobodyLeavesWork
<1>1. Ending => NobodyLeavesWork
  BY DEF Ending
<1> QED BY <1>1, PoolEndsEmpty, PTL

Submitted == {t \in Task : Pushed(t)}
Running == {task[w] : w \in Worker} \ {NoTask}

\* Each task is begun in order and run once, and the destructor returns after
\* the last one: every step of ThreadPool is a step of TaskPool or changes
\* nothing that TaskPool sees.
THEOREM PoolImplementsTaskPool == Spec => ImplementsTaskPool
<1>1. Init => Pool!Init
  <2> SUFFICES ASSUME Init PROVE Pool!Init
    OBVIOUS
  <2>1. {t \in Task : t[2] <= turn[t[1]]} = {}
    BY QuotaAssumption DEF Init, Task
  <2>2. {task[w] : w \in Worker} \ {NoTask} = {}
    BY DEF Init
  <2> QED BY <2>1, <2>2 DEF Init, Pool!Init
<1>2. TypeOK /\ OnePlace /\ Ending /\ [Next]_vars => [Pool!Next]_Pool!vars
  <2> SUFFICES ASSUME TypeOK, OnePlace, Ending, [Next]_vars
               PROVE  [Pool!Next]_Pool!vars
    OBVIOUS
  <2>t. /\ tasks_ \in Seq(Task) /\ Len(tasks_) \in Nat
        /\ task \in [Worker -> Task \cup {NoTask}]
        /\ \A w \in Worker : worker[w] = "running" <=> task[w] # NoTask
        /\ turn \in [Producer -> 0 .. Quota]
        /\ owner \in {"using", "joining", "returned"}
    BY DEF TypeOK
  <2>s. ASSUME UNCHANGED <<turn, tasks_, task, finished>>, owner' = "returned" <=> owner = "returned"
        PROVE  UNCHANGED Pool!vars
    BY <2>s DEF Pool!vars
  <2>1. ASSUME NEW w \in Worker, WorkerStep(w) \/ SpuriousWakeup(w)
        PROVE  [Pool!Next]_Pool!vars
    <3>1. CASE Sleep(w) BY <3>1, <2>s DEF Sleep
    <3>2. CASE Leave(w) BY <3>2, <2>s DEF Leave
    <3>3. CASE Take(w)
      <4>1. task[w] = NoTask /\ Head(tasks_) \in Task
        BY <3>3, <2>t DEF Take
      <4>2. Running' = Running \cup {Head(tasks_)}
        BY <3>3, <4>1, <2>t, NoTaskIsNoTask DEF Take, Running
      <4>3. Pool!Start
        BY <3>3, <4>2 DEF Take, Pool!Start, Running
      <4> QED BY <4>3 DEF Pool!Next
    <3>4. CASE Run(w)
      <4>1. task[w] \in Task /\ task[w] # NoTask
        BY <3>4, <2>t DEF Run
      <4>2. \A v \in Worker : task'[v] = IF v = w THEN NoTask ELSE task[v]
        BY <3>4, <2>t DEF Run
      <4>3. \A v \in Worker : task[v] = task[w] => v = w
        BY <4>1 DEF OnePlace
      <4>4. Running' = Running \ {task[w]}
        BY <4>1, <4>2, <4>3 DEF Running
      <4>5. task[w] \in Running
        BY <4>1 DEF Running
      <4>6. Pool!Finish(task[w])
        BY <3>4, <4>4, <4>5 DEF Run, Pool!Finish, Running
      <4>7. \E t \in Task : Pool!Finish(t)
        BY <4>1, <4>6 DEF Pool!Finish
      <4> QED BY <4>7 DEF Pool!Next
    <3>5. CASE SpuriousWakeup(w) BY <3>5, <2>s DEF SpuriousWakeup
    <3> QED BY <2>1, <3>1, <3>2, <3>3, <3>4, <3>5 DEF WorkerStep
  <2>2. ASSUME NEW p \in Producer, ProducerStep(p) PROVE [Pool!Next]_Pool!vars
    <3>1. CASE Push(p)
      <4> DEFINE new == <<p, turn[p] + 1>>
      <4>1. new \in Task /\ new[1] = p /\ new[2] = turn[p] + 1
        BY <3>1, PushedTask DEF Push
      <4>2. \A q \in Producer : turn'[q] = IF q = p THEN turn[p] + 1 ELSE turn[q]
        BY <3>1, <2>t DEF Push
      <4>3. \A t \in Task : t[2] <= turn'[t[1]] <=> t[2] <= turn[t[1]] \/ t = new
        BY <4>2, <2>t, QuotaAssumption DEF Task
      <4>4. Submitted' = Submitted \cup {new} /\ new \notin Submitted
        BY <4>1, <4>3, <2>t, QuotaAssumption DEF Submitted, Pushed
      <4>5. owner # "returned"
        BY <3>1 DEF Push
      <4>6. Pool!Submit(new)
        BY <3>1, <4>4, <4>5 DEF Push, Pool!Submit, Submitted, Pushed
      <4>7. \E t \in Task : Pool!Submit(t)
        BY <4>1, <4>6 DEF Pool!Submit
      <4> QED BY <4>7 DEF Pool!Next
    <3>2. CASE NotifyOne(p) BY <3>2, <2>s DEF NotifyOne
    <3> QED BY <2>2, <3>1, <3>2 DEF ProducerStep
  <2>3. CASE Stop BY <2>3, <2>s DEF Stop
  <2>4. CASE Joined
    <3>1. PICK w \in Worker : worker[w] = "exited"
      BY <2>4, WorkerAssumption DEF Joined
    <3>2. tasks_ = <<>>
      BY <3>1 DEF Ending, NobodyLeavesWork
    <3>3. Running = {}
      BY <2>4, <2>t DEF Joined, Running
    <3>4. Pool!Destroy
      BY <2>4, <3>2, <3>3 DEF Joined, Pool!Destroy, Running
    <3> QED BY <3>4 DEF Pool!Next
  <2>5. CASE UNCHANGED vars BY <2>5, <2>s DEF vars
  <2> QED BY <2>1, <2>2, <2>3, <2>4, <2>5 DEF Next, Destroyed
<1> QED
  BY <1>1, <1>2, PoolTyping, TasksAreNotDoubled, PoolEndsEmpty, PTL
  DEF Spec, ImplementsTaskPool, Pool!Spec
=============================================================================
