------------------------- MODULE ParallelCountProofs --------------------------
(***************************************************************************)
(* The levels of ParallelCount and what it returns, for any graph and      *)
(* query, any number of levels and workers, any number of hash tables and  *)
(* any capacities.                                                         *)
(*                                                                         *)
(* Inv is about the levels alone, and gives WaitIsSound.  What follows it  *)
(* says first what the operators compute: the edge table sorts its keys,   *)
(* a task finds the ends of the edges at its vertices, Ball grows step by  *)
(* step.  Then Whole says of every vertex where it is, in a table, waiting *)
(* to be expanded or found and on its way to a table, and at which level   *)
(* it came into its table; it gives CountIsBall.                           *)
(***************************************************************************)
EXTENDS ParallelCount, FiniteSetTheorems, SequenceTheorems, WellFoundedInduction, TLAPS

-----------------------------------------------------------------------------
(* The levels *)

\* The workers that are in a task of a level, or at its end.
Busy(l) == {a \in Worker : LevelOf(a) = l /\ at[a] # "idle"}

\* A sequence, of whatever is in it.
IsSequence(q) == \E S : q \in Seq(S)

\* Where the actors are.  main hands over its list before it waits for any
\* level, and waits for no level below the last.
PlacesOK ==
    /\ DOMAIN at = Actor
    /\ \A a \in Worker : at[a] \in {"idle", "expand", "complete", "insert", "start", "done"}
    /\ at[Main] \in {"complete", "insert", "start", "wait", "flush", "returned"}
    /\ wait_level \in Nat
    /\ at[Main] \in {"complete", "insert", "start"} => wait_level = 0
    /\ at[Main] \in {"wait", "flush"} => wait_level <= query.k
    /\ query.k \in 0 .. MaxLevel

\* The WaitGroup of a level counts the tasks that are queued or under way.
CountsOK ==
    /\ DOMAIN queue = Level /\ DOMAIN task_wg = Level /\ DOMAIN pending = Level
    /\ \A l \in Level : /\ IsSequence(queue[l])
                        /\ task_wg[l] = Len(queue[l]) + Cardinality(Busy(l))

\* Nothing is below the last level, and nothing waits for what would be there.
DepthOK ==
    /\ \A l \in Level : l > query.k => queue[l] = <<>>
    /\ \A l \in Level : l >= query.k => pending[l] = <<>>
    /\ \A a \in Worker : at[a] # "idle" => LevelOf(a) <= query.k
    /\ \A a \in Actor : at[a] = "start" => LevelOf(a) < query.k

\* The levels that main has gone past are at rest; so are the tasks of the
\* one it is flushing.
PastOK ==
    /\ \A l \in Level : l < wait_level => queue[l] = <<>> /\ Busy(l) = {} /\ pending[l] = <<>>
    /\ at[Main] = "flush" => queue[wait_level] = <<>> /\ Busy(wait_level) = {}

Inv == PlacesOK /\ CountsOK /\ DepthOK /\ PastOK

-----------------------------------------------------------------------------
(* Counting workers and tasks *)

\* Sets of workers are finite.
LEMMA WorkerSets ==
    ASSUME NEW S \in SUBSET Worker
    PROVE  /\ IsFiniteSet(S) /\ Cardinality(S) \in Nat
           /\ Cardinality(S) = 0 <=> S = {}
<1>1. IsFiniteSet(1 .. MaxLevel) /\ IsFiniteSet(1 .. MaxParallel)
  BY SizeAssumption, FS_Interval
<1>2. IsFiniteSet(Worker)
  BY <1>1, FS_Product DEF Worker
<1> QED
  BY <1>2, FS_Subset, FS_CardinalityType, FS_EmptySet

\* One worker more.
LEMMA WorkerJoins ==
    ASSUME NEW S \in SUBSET Worker, NEW a \in Worker, a \notin S
    PROVE  Cardinality(S \cup {a}) = Cardinality(S) + 1
  BY WorkerSets, FS_AddElement

\* One worker less.
LEMMA WorkerLeaves ==
    ASSUME NEW S \in SUBSET Worker, NEW a \in S
    PROVE  Cardinality(S \ {a}) = Cardinality(S) - 1
  BY WorkerSets, FS_RemoveElement

\* A level is that of an actor's number, and main is no worker.
LEMMA Actors ==
    /\ Main \in Actor /\ LevelOf(Main) = 0 /\ Main \notin Worker
    /\ \A a \in Worker : a \in Actor /\ LevelOf(a) \in 1 .. MaxLevel /\ LevelOf(a) \in Level
  BY SizeAssumption DEF Actor, Main, Worker, LevelOf, Level

\* Queueing a task.
LEMMA QueueAppend ==
    ASSUME NEW q, IsSequence(q), NEW x
    PROVE  IsSequence(Append(q, x)) /\ Len(Append(q, x)) = Len(q) + 1 /\ Len(q) \in Nat
<1>1. PICK S : q \in Seq(S)
  BY DEF IsSequence
<1>2. q \in Seq(S \cup {x})
  BY <1>1
<1>3. Append(q, x) \in Seq(S \cup {x}) /\ Len(Append(q, x)) = Len(q) + 1 /\ Len(q) \in Nat
  BY <1>2
<1> QED
  BY <1>3 DEF IsSequence

\* Taking the first.
LEMMA QueueTail ==
    ASSUME NEW q, IsSequence(q), q # <<>>
    PROVE  IsSequence(Tail(q)) /\ Len(Tail(q)) = Len(q) - 1 /\ Len(q) \in Nat \ {0}
<1>1. PICK S : q \in Seq(S)
  BY DEF IsSequence
<1>2. Tail(q) \in Seq(S) /\ Len(Tail(q)) = Len(q) - 1 /\ Len(q) \in Nat \ {0}
  BY <1>1
<1> QED
  BY <1>2 DEF IsSequence

\* None are left.
LEMMA QueueEmpty ==
    ASSUME NEW q, IsSequence(q)
    PROVE  Len(q) \in Nat /\ (Len(q) = 0 <=> q = <<>>)
<1>1. PICK S : q \in Seq(S)
  BY DEF IsSequence
<1> QED
  BY <1>1

-----------------------------------------------------------------------------
(* The steps, and the levels *)

\* A step that starts and ends no task and leaves what is pending.
LEMMA QuietSteps ==
    ASSUME Inv, PlacesOK', UNCHANGED <<query, queue, task_wg, pending, wait_level>>,
           \A a \in Worker : at'[a] = "idle" <=> at[a] = "idle",
           \A a \in Actor : at'[a] = "start" => at[a] = "start",
           at'[Main] = "flush" => at[Main] = "flush"
    PROVE  Inv'
<1>1. \A l : Busy(l)' = Busy(l)
  BY DEF Busy
<1>2. CountsOK'
  BY <1>1 DEF Inv, CountsOK
<1>3. DepthOK'
  BY DEF Inv, DepthOK
<1>4. PastOK'
  BY <1>1 DEF Inv, PastOK
<1> QED
  BY <1>2, <1>3, <1>4 DEF Inv

\* The steps of an actor inside a task, or of main with its list, that start
\* nothing.
LEMMA InsideKeeps ==
    ASSUME Inv, NEW a \in Actor, a = Main \/ a \in Worker,
           \/ LockTable(a) \/ Known(a) \/ UnlockTable(a)
           \/ a \in Worker /\ (Expand(a) \/ Release(a))
           \/ Completed(a)
    PROVE  Inv'
<1>1. /\ DOMAIN at = Actor /\ Actor = {Main} \cup Worker /\ Main \notin Worker
      /\ PlacesOK
  BY Actors DEF Inv, PlacesOK, Actor
<1>2. UNCHANGED <<query, queue, task_wg, pending, wait_level>>
  BY DEF LockTable, Known, UnlockTable, Expand, Release, Completed
<1>3. \/ at' = at
      \/ /\ at' = [at EXCEPT ![a] = "insert"] /\ at[a] = "complete"
      \/ /\ at' = [at EXCEPT ![a] = "complete"] /\ at[a] = "insert"
      \/ /\ a \in Worker
         /\ at' = [at EXCEPT ![a] = "complete"] \/ at' = [at EXCEPT ![a] = "done"]
            \/ at' = [at EXCEPT ![a] = "expand"]
         /\ at[a] \in {"expand", "complete"}
      \/ /\ a = Main
         /\ at' = [at EXCEPT ![a] = "wait"] /\ at[a] = "complete"
  <2>1. CASE LockTable(a) \/ Known(a) \/ UnlockTable(a)
    BY <2>1 DEF LockTable, Known, UnlockTable
  <2>2. CASE a \in Worker /\ (Expand(a) \/ Release(a))
    BY <2>2 DEF Expand, Release
  <2>3. CASE Completed(a)
    <3>1. CASE a = Main
      BY <2>3, <3>1 DEF Completed
    <3>2. CASE a # Main /\ a \in Worker
      BY <2>3, <3>2 DEF Completed
    <3> QED
      BY <3>1, <3>2
  <2> QED
    BY <2>1, <2>2, <2>3
<1>4. /\ \A b \in Worker : at'[b] = "idle" <=> at[b] = "idle"
      /\ \A b \in Actor : at'[b] = "start" => at[b] = "start"
      /\ at'[Main] = "flush" => at[Main] = "flush"
  BY <1>1, <1>3 DEF PlacesOK
<1>5. query.k \in Nat
  BY <1>1, SizeAssumption DEF PlacesOK
<1>6. PlacesOK'
  BY <1>1, <1>2, <1>3, <1>5 DEF PlacesOK
<1> QED
  BY <1>2, <1>4, <1>6, QuietSteps

\* A worker takes a task: of a level main has not gone past, since there was
\* one in the queue.
LEMMA TakeKeeps ==
    ASSUME Inv, NEW a \in Worker, Take(a)
    PROVE  Inv'
<1> DEFINE m == LevelOf(a)
<1>1. /\ m \in Level /\ m \in Nat /\ a \in Actor /\ a # Main /\ wait_level \in Nat /\ at[a] = "idle"
      /\ queue[m] # <<>> /\ query.k \in Nat
  BY Actors, SizeAssumption DEF Inv, PlacesOK, Take, Level
<1>2. /\ at' = [at EXCEPT ![a] = "expand"] /\ queue' = [queue EXCEPT ![m] = Tail(@)]
      /\ UNCHANGED <<query, task_wg, pending, wait_level>>
  BY DEF Take
<1>3. \A l \in Level : l < wait_level => l # m
  BY <1>1 DEF Inv, PastOK
<1>4. at[Main] = "flush" => wait_level # m
  BY <1>1 DEF Inv, PastOK
<1>5. \A l : l # m => Busy(l)' = Busy(l)
  BY <1>1, <1>2 DEF Busy, Inv, PlacesOK
<1>6. Busy(m)' = Busy(m) \cup {a} /\ a \notin Busy(m) /\ Busy(m) \in SUBSET Worker
  BY <1>1, <1>2 DEF Busy, Inv, PlacesOK
<1>7. at'[Main] = at[Main] /\ \A b \in Actor : at'[b] = "start" => at[b] = "start"
  BY <1>1, <1>2 DEF Inv, PlacesOK
<1>8. m <= query.k
  BY <1>1 DEF Inv, DepthOK
<1> HIDE DEF m
<1>9. PlacesOK'
  BY <1>1, <1>2, <1>7 DEF Inv, PlacesOK
<1>10. CountsOK'
  <2>1. /\ DOMAIN queue' = Level /\ DOMAIN task_wg' = Level /\ DOMAIN pending' = Level
        /\ \A l \in Level : l # m => queue'[l] = queue[l]
        /\ queue'[m] = Tail(queue[m])
    BY <1>1, <1>2 DEF Inv, CountsOK
  <2>2. /\ IsSequence(queue'[m]) /\ Len(queue'[m]) = Len(queue[m]) - 1 /\ Len(queue[m]) \in Nat
        /\ task_wg[m] = Len(queue[m]) + Cardinality(Busy(m))
    BY <1>1, <2>1, QueueTail DEF Inv, CountsOK
  <2>3. Cardinality(Busy(m)') = Cardinality(Busy(m)) + 1 /\ Cardinality(Busy(m)) \in Nat
    BY <1>6, WorkerJoins, WorkerSets
  <2>4. task_wg'[m] = Len(queue'[m]) + Cardinality(Busy(m)')
    BY <1>2, <2>2, <2>3
  <2> QED
    BY <1>2, <1>5, <2>1, <2>2, <2>4 DEF Inv, CountsOK
<1>11. DepthOK'
  BY <1>1, <1>2, <1>7, <1>8 DEF Inv, DepthOK, CountsOK, m, PlacesOK
<1>12. PastOK'
  BY <1>2, <1>3, <1>4, <1>5, <1>7 DEF Inv, PastOK, CountsOK
<1> QED
  BY <1>9, <1>10, <1>11, <1>12 DEF Inv

\* A task ends, and is not counted any more.
LEMMA DoneKeeps ==
    ASSUME Inv, NEW a \in Worker, Done(a)
    PROVE  Inv'
<1> DEFINE m == LevelOf(a)
<1>1. /\ m \in Level /\ a \in Actor /\ a # Main /\ at[a] = "done"
  BY Actors DEF Done
<1>2. /\ at' = [at EXCEPT ![a] = "idle"] /\ task_wg' = [task_wg EXCEPT ![m] = @ - 1]
      /\ UNCHANGED <<query, queue, pending, wait_level>>
  BY DEF Done
<1>3. \A l : l # m => Busy(l)' = Busy(l)
  BY <1>1, <1>2 DEF Busy, Inv, PlacesOK
<1>4. Busy(m)' = Busy(m) \ {a} /\ a \in Busy(m) /\ Busy(m) \in SUBSET Worker
  BY <1>1, <1>2 DEF Busy, Inv, PlacesOK
<1>5. at'[Main] = at[Main] /\ \A b \in Actor : at'[b] \in {"idle", at[b]}
  BY <1>1, <1>2 DEF Inv, PlacesOK
<1> HIDE DEF m
<1>6. PlacesOK'
  BY <1>1, <1>2, <1>5 DEF Inv, PlacesOK
<1>7. CountsOK'
  <2>1. DOMAIN task_wg' = Level /\ \A l \in Level : l # m => task_wg'[l] = task_wg[l]
    BY <1>2 DEF Inv, CountsOK
  <2>2. task_wg'[m] = task_wg[m] - 1 /\ task_wg[m] = Len(queue[m]) + Cardinality(Busy(m))
        /\ Len(queue[m]) \in Nat
    BY <1>1, <1>2, QueueEmpty DEF Inv, CountsOK
  <2>3. Cardinality(Busy(m)') = Cardinality(Busy(m)) - 1 /\ Cardinality(Busy(m)) \in Nat
    BY <1>4, WorkerLeaves, WorkerSets
  <2>4. task_wg'[m] = Len(queue'[m]) + Cardinality(Busy(m)')
    BY <1>2, <2>2, <2>3
  <2> QED
    BY <1>2, <1>3, <2>1, <2>4 DEF Inv, CountsOK
<1>8. DepthOK'
  BY <1>2, <1>5, Actors DEF Inv, DepthOK
<1>9. \A l : Busy(l)' \subseteq Busy(l)
  BY <1>3, <1>4
<1>10. PastOK'
  BY <1>2, <1>5, <1>9 DEF Inv, PastOK
<1> QED
  BY <1>6, <1>7, <1>8, <1>10 DEF Inv

\* An actor of a level has not been gone past by main.
LEMMA ActorsLevel ==
    ASSUME Inv, NEW a \in Actor,
           (a = Main /\ at[a] \in {"complete", "insert", "start"}) \/ (a \in Worker /\ at[a] # "idle")
    PROVE  /\ LevelOf(a) \in Level /\ LevelOf(a) \in Nat /\ LevelOf(a) <= query.k
           /\ wait_level <= LevelOf(a)
           /\ at[Main] = "flush" => wait_level # LevelOf(a)
<1>1. wait_level \in Nat /\ query.k \in 0 .. MaxLevel
  BY DEF Inv, PlacesOK
<1>2. CASE a = Main
  BY <1>1, <1>2, Actors, SizeAssumption DEF Inv, PlacesOK, Level
<1>3. CASE a \in Worker
  <2>1. LevelOf(a) \in Level /\ LevelOf(a) \in Nat /\ a # Main
    BY <1>3, Actors, SizeAssumption DEF Level
  <2>2. a \in Busy(LevelOf(a)) /\ LevelOf(a) <= query.k
    BY <1>3, <2>1, Actors DEF Busy, Inv, DepthOK
  <2> QED
    BY <1>1, <2>1, <2>2 DEF Inv, PastOK
<1> QED
  BY <1>2, <1>3 DEF Actor

\* A new vertex waits at a level above the last that main has not gone past.
LEMMA NewKeeps ==
    ASSUME Inv, NEW a \in Actor, New(a)
    PROVE  Inv'
<1> DEFINE m == LevelOf(a)
<1>1. /\ DOMAIN at = Actor /\ Actor = {Main} \cup Worker /\ Main \notin Worker
      /\ at[a] = "insert" /\ query.k \in Nat /\ query.k <= MaxLevel
  BY Actors, SizeAssumption DEF Inv, PlacesOK, Actor, New
<1>2. m \in Level /\ m \in Nat /\ m <= query.k /\ wait_level <= m /\ wait_level \in Nat
  BY <1>1, ActorsLevel DEF Inv, PlacesOK
<1>3. UNCHANGED <<query, queue, task_wg, wait_level>>
  BY DEF New
<1>4. \/ UNCHANGED <<at, pending>>
      \/ /\ m # query.k
         /\ pending' = [pending EXCEPT ![m] = Append(@, NextVid(a))]
         /\ at' = at \/ at' = [at EXCEPT ![a] = "start"]
  BY DEF New, IsLast
<1>5. \A b \in Actor : at'[b] = at[b] \/ (b = a /\ at'[b] = "start" /\ m < query.k)
  BY <1>1, <1>2, <1>4
<1>6. \A l \in Level : pending'[l] = pending[l] \/ (l = m /\ m < query.k)
  <2>1. CASE UNCHANGED pending
    BY <2>1
  <2>2. CASE m # query.k /\ \E q : pending' = [pending EXCEPT ![m] = q]
    <3>1. m < query.k
      BY <1>1, <1>2, <2>2
    <3>2. \A l \in Level : l # m => pending'[l] = pending[l]
      BY <2>2 DEF Inv, CountsOK
    <3> QED
      BY <3>1, <3>2
  <2> QED
    BY <1>4, <2>1, <2>2
<1> HIDE DEF m
<1>7. PlacesOK'
  <2>1. \A b \in Worker : at'[b] \in {"idle", "expand", "complete", "insert", "start", "done"}
    BY <1>1, <1>5 DEF Inv, PlacesOK
  <2>2. /\ at'[Main] \in {"complete", "insert", "start", "wait", "flush", "returned"}
        /\ at'[Main] \in {"complete", "insert", "start"} => wait_level = 0
        /\ at'[Main] \in {"wait", "flush"} => wait_level <= query.k
    BY <1>1, <1>5 DEF Inv, PlacesOK
  <2>3. DOMAIN at' = Actor
    BY <1>1, <1>4
  <2> QED
    BY <1>3, <2>1, <2>2, <2>3 DEF Inv, PlacesOK
<1>8. \A l : Busy(l)' = Busy(l)
  BY <1>1, <1>5 DEF Busy
<1>9. CountsOK'
  <2>1. DOMAIN pending' = Level
    BY <1>4 DEF Inv, CountsOK
  <2>2. \A l \in Level : task_wg[l] = Len(queue[l]) + Cardinality(Busy(l)')
    BY <1>8 DEF Inv, CountsOK
  <2> QED
    BY <1>3, <2>1, <2>2 DEF Inv, CountsOK
<1>10. DepthOK'
  <2>1. \A l \in Level : l >= query.k => pending'[l] = <<>>
    BY <1>1, <1>2, <1>6 DEF Inv, DepthOK
  <2>2. \A b \in Worker : at'[b] # "idle" => LevelOf(b) <= query.k
    BY <1>1, <1>5 DEF Inv, DepthOK
  <2>3. \A b \in Actor : at'[b] = "start" => LevelOf(b) < query.k
    BY <1>5 DEF Inv, DepthOK, m
  <2> QED
    BY <1>3, <2>1, <2>2, <2>3 DEF Inv, DepthOK
<1>11. PastOK'
  <2>1. \A l \in Level : l < wait_level => pending'[l] = <<>>
    BY <1>2, <1>6 DEF Inv, PastOK
  <2>2. at'[Main] = "flush" => at[Main] = "flush"
    BY <1>1, <1>5
  <2> QED
    BY <1>3, <1>8, <2>1, <2>2 DEF Inv, PastOK
<1> QED
  BY <1>7, <1>9, <1>10, <1>11 DEF Inv

\* Starting a task of the next level: one more in its queue, one more counted.
LEMMA NextStarts ==
    ASSUME Inv, NEW m \in Level, m < query.k, StartNext(m), UNCHANGED query,
           \A l : Busy(l)' = Busy(l)
    PROVE  /\ CountsOK' /\ m + 1 \in Level /\ m \in Nat
           /\ \A l \in Level : /\ l # m + 1 => queue'[l] = queue[l]
                               /\ l # m => pending'[l] = pending[l]
           /\ pending'[m] = <<>>
<1>1. /\ m \in Nat /\ query.k \in Nat /\ query.k <= MaxLevel /\ MaxLevel \in Nat
      /\ m + 1 \in Level
  BY SizeAssumption DEF Inv, PlacesOK, Level
<1>2. /\ task_wg' = [task_wg EXCEPT ![m + 1] = @ + 1]
      /\ queue' = [queue EXCEPT ![m + 1] = Append(@, pending[m])]
      /\ pending' = [pending EXCEPT ![m] = <<>>]
  BY DEF StartNext
<1>3. /\ DOMAIN queue = Level /\ DOMAIN task_wg = Level /\ DOMAIN pending = Level
      /\ DOMAIN queue' = Level /\ DOMAIN task_wg' = Level /\ DOMAIN pending' = Level
  BY <1>2 DEF Inv, CountsOK
<1>4. /\ \A l \in Level : /\ l # m + 1 => queue'[l] = queue[l] /\ task_wg'[l] = task_wg[l]
                          /\ l # m => pending'[l] = pending[l]
      /\ pending'[m] = <<>> /\ task_wg'[m + 1] = task_wg[m + 1] + 1
      /\ queue'[m + 1] = Append(queue[m + 1], pending[m])
  BY <1>1, <1>2, <1>3
<1>5. /\ IsSequence(queue'[m + 1]) /\ Len(queue'[m + 1]) = Len(queue[m + 1]) + 1
      /\ Len(queue[m + 1]) \in Nat
  BY <1>1, <1>4, QueueAppend DEF Inv, CountsOK
<1>6. Cardinality(Busy(m + 1)) \in Nat
  BY WorkerSets DEF Busy
<1>7. task_wg'[m + 1] = Len(queue'[m + 1]) + Cardinality(Busy(m + 1)')
  BY <1>1, <1>4, <1>5, <1>6 DEF Inv, CountsOK
<1>8. CountsOK'
  BY <1>3, <1>4, <1>5, <1>7 DEF Inv, CountsOK
<1> QED
  BY <1>1, <1>4, <1>8

\* A full array is handed to the next level, which main has not gone past since
\* it has not gone past the actor's.
LEMMA StartKeeps ==
    ASSUME Inv, NEW a \in Actor, Start(a)
    PROVE  Inv'
<1> DEFINE m == LevelOf(a)
<1>1. /\ DOMAIN at = Actor /\ Actor = {Main} \cup Worker /\ Main \notin Worker
      /\ at[a] = "start" /\ query.k \in Nat
  BY Actors, SizeAssumption DEF Inv, PlacesOK, Actor, Start
<1>2. /\ m \in Level /\ m \in Nat /\ m < query.k /\ wait_level <= m /\ wait_level \in Nat
      /\ at[Main] = "flush" => wait_level # m
  BY <1>1, ActorsLevel DEF Inv, PlacesOK, DepthOK
<1>3. at' = [at EXCEPT ![a] = "insert"] /\ UNCHANGED <<query, wait_level>> /\ StartNext(m)
  BY DEF Start
<1>4. \A b \in Actor : at'[b] = at[b] \/ (b = a /\ at'[b] = "insert")
  BY <1>1, <1>3
<1>5. \A l : Busy(l)' = Busy(l)
  BY <1>1, <1>4 DEF Busy
<1> HIDE DEF m
<1>6. /\ CountsOK' /\ m + 1 \in Level
      /\ \A l \in Level : /\ l # m + 1 => queue'[l] = queue[l]
                          /\ l # m => pending'[l] = pending[l]
      /\ pending'[m] = <<>>
  BY <1>2, <1>3, <1>5, NextStarts
<1>7. PlacesOK'
  <2>1. \A b \in Worker : at'[b] \in {"idle", "expand", "complete", "insert", "start", "done"}
    BY <1>1, <1>4 DEF Inv, PlacesOK
  <2>2. /\ at'[Main] \in {"complete", "insert", "start", "wait", "flush", "returned"}
        /\ at'[Main] \in {"complete", "insert", "start"} => wait_level = 0
        /\ at'[Main] \in {"wait", "flush"} => wait_level <= query.k
    BY <1>1, <1>4 DEF Inv, PlacesOK
  <2> QED
    BY <1>1, <1>3, <2>1, <2>2 DEF Inv, PlacesOK
<1>8. DepthOK'
  <2>1. \A l \in Level : l > query.k => queue'[l] = <<>>
    BY <1>1, <1>2, <1>6 DEF Inv, DepthOK, Level
  <2>2. \A l \in Level : l >= query.k => pending'[l] = <<>>
    BY <1>1, <1>2, <1>6 DEF Inv, DepthOK
  <2>3. \A b \in Worker : at'[b] # "idle" => LevelOf(b) <= query.k
    BY <1>1, <1>4 DEF Inv, DepthOK
  <2>4. \A b \in Actor : at'[b] = "start" => LevelOf(b) < query.k
    BY <1>4 DEF Inv, DepthOK
  <2> QED
    BY <1>3, <2>1, <2>2, <2>3, <2>4 DEF Inv, DepthOK
<1>9. PastOK'
  <2>1. \A l \in Level : l < wait_level => queue'[l] = queue[l] /\ pending'[l] = pending[l]
    BY <1>2, <1>6 DEF Level
  <2>2. at'[Main] = "flush" => at[Main] = "flush" /\ queue'[wait_level] = queue[wait_level]
    BY <1>1, <1>2, <1>4, <1>6, SizeAssumption DEF Level, Inv, PlacesOK
  <2> QED
    BY <1>3, <1>5, <2>1, <2>2 DEF Inv, PastOK
<1> QED
  BY <1>6, <1>7, <1>8, <1>9 DEF Inv

\* The WaitGroup of the level is at zero, so nothing of it is queued or under way.
LEMMA WaitKeeps ==
    ASSUME Inv, Wait
    PROVE  Inv'
<1>1. /\ DOMAIN at = Actor /\ Actor = {Main} \cup Worker /\ Main \notin Worker
      /\ at[Main] = "wait" /\ query.k \in 0 .. MaxLevel /\ wait_level \in Nat
      /\ wait_level <= query.k /\ task_wg[wait_level] = 0 /\ wait_level \in Level
  BY Actors, SizeAssumption DEF Inv, PlacesOK, Actor, Wait, Level
<1>2. /\ at' = [at EXCEPT ![Main] = "flush"]
      /\ UNCHANGED <<query, queue, task_wg, pending, wait_level>>
  BY DEF Wait
<1>3. \A b \in Actor : at'[b] = IF b = Main THEN "flush" ELSE at[b]
  BY <1>1, <1>2
<1>4. \A l : Busy(l)' = Busy(l)
  BY <1>1, <1>3 DEF Busy
<1>5. queue[wait_level] = <<>> /\ Busy(wait_level) = {}
  <2>1. Busy(wait_level) \in SUBSET Worker
    BY DEF Busy
  <2>2. /\ Cardinality(Busy(wait_level)) \in Nat
        /\ Cardinality(Busy(wait_level)) = 0 <=> Busy(wait_level) = {}
    BY <2>1, WorkerSets
  <2>3. /\ Len(queue[wait_level]) \in Nat
        /\ Len(queue[wait_level]) = 0 <=> queue[wait_level] = <<>>
        /\ 0 = Len(queue[wait_level]) + Cardinality(Busy(wait_level))
    BY <1>1, QueueEmpty DEF Inv, CountsOK
  <2> QED
    BY <2>2, <2>3
<1>6. PlacesOK'
  <2>1. \A b \in Worker : at'[b] \in {"idle", "expand", "complete", "insert", "start", "done"}
    BY <1>1, <1>3 DEF Inv, PlacesOK
  <2>2. at'[Main] = "flush"
    BY <1>1, <1>3
  <2> QED
    BY <1>1, <1>2, <2>1, <2>2 DEF Inv, PlacesOK
<1>7. CountsOK'
  BY <1>2, <1>4 DEF Inv, CountsOK
<1>8. DepthOK'
  BY <1>1, <1>2, <1>3 DEF Inv, DepthOK
<1>9. PastOK'
  BY <1>2, <1>4, <1>5 DEF Inv, PastOK
<1> QED
  BY <1>6, <1>7, <1>8, <1>9 DEF Inv

\* main goes past a level: what was left pending is a task of the next.
LEMMA FlushKeeps ==
    ASSUME Inv, Flush
    PROVE  Inv'
<1> DEFINE m == wait_level
<1>1. /\ DOMAIN at = Actor /\ Actor = {Main} \cup Worker /\ Main \notin Worker
      /\ at[Main] = "flush" /\ query.k \in Nat /\ query.k <= MaxLevel /\ m \in Nat
      /\ m <= query.k /\ m \in Level /\ MaxLevel \in Nat
  BY Actors, SizeAssumption DEF Inv, PlacesOK, Actor, Flush, Level
<1>2. /\ at' = [at EXCEPT ![Main] = IF m = query.k THEN "returned" ELSE "wait"]
      /\ UNCHANGED query /\ wait_level' = m + 1
  BY DEF Flush, IsLast
<1>3. \A b \in Actor :
         at'[b] = IF b = Main THEN IF m = query.k THEN "returned" ELSE "wait" ELSE at[b]
  BY <1>1, <1>2
<1>4. \A l : Busy(l)' = Busy(l)
  BY <1>1, <1>3 DEF Busy
<1>5. /\ CountsOK' /\ pending'[m] = <<>>
      /\ \A l \in Level : /\ l # m + 1 \/ m = query.k => queue'[l] = queue[l]
                          /\ l # m => pending'[l] = pending[l]
  <2>1. CASE ~ IsLast(m) /\ pending[m] # <<>>
    <3>1. StartNext(m) /\ m < query.k
      BY <1>1, <2>1 DEF Flush, IsLast
    <3> HIDE DEF m
    <3>2. /\ CountsOK' /\ pending'[m] = <<>>
          /\ \A l \in Level : /\ l # m + 1 => queue'[l] = queue[l]
                              /\ l # m => pending'[l] = pending[l]
      BY <1>1, <1>2, <1>4, <3>1, NextStarts
    <3>3. m # query.k
      BY <1>1, <3>1
    <3> QED
      BY <3>2, <3>3
  <2>2. CASE IsLast(m) \/ pending[m] = <<>>
    <3>1. UNCHANGED <<queue, task_wg, pending>>
      BY <2>2 DEF Flush
    <3>2. pending[m] = <<>>
      BY <1>1, <2>2 DEF Inv, DepthOK, IsLast
    <3>3. CountsOK'
      BY <1>4, <3>1 DEF Inv, CountsOK
    <3> QED
      BY <3>1, <3>2, <3>3
  <2> QED
    BY <2>1, <2>2
<1>6. queue[m] = <<>> /\ Busy(m) = {}
  BY <1>1 DEF Inv, PastOK
<1> HIDE DEF m
<1>7. PlacesOK'
  <2>1. \A b \in Worker : at'[b] \in {"idle", "expand", "complete", "insert", "start", "done"}
    BY <1>1, <1>3 DEF Inv, PlacesOK
  <2>2. /\ at'[Main] \in {"wait", "returned"}
        /\ at'[Main] = "wait" => m + 1 <= query.k
    BY <1>1, <1>3
  <2> QED
    BY <1>1, <1>2, <2>1, <2>2 DEF Inv, PlacesOK
<1>8. DepthOK'
  <2>1. \A l \in Level : l > query.k => queue'[l] = <<>>
    BY <1>1, <1>5 DEF Inv, DepthOK, Level
  <2>2. \A l \in Level : l >= query.k => pending'[l] = <<>>
    BY <1>5 DEF Inv, DepthOK
  <2>3. \A b \in Worker : at'[b] # "idle" => LevelOf(b) <= query.k
    BY <1>1, <1>3 DEF Inv, DepthOK
  <2>4. \A b \in Actor : at'[b] = "start" => LevelOf(b) < query.k
    BY <1>3 DEF Inv, DepthOK
  <2> QED
    BY <1>2, <2>1, <2>2, <2>3, <2>4 DEF Inv, DepthOK
<1>9. PastOK'
  <2>1. ASSUME NEW l \in Level, l < m + 1
        PROVE  queue'[l] = <<>> /\ Busy(l)' = {} /\ pending'[l] = <<>>
    <3>1. CASE l = m
      BY <1>1, <1>4, <1>5, <1>6, <3>1
    <3>2. CASE l # m
      <4>1. l < wait_level /\ l # m + 1
        BY <1>1, <2>1, <3>2 DEF m, Level
      <4> QED
        BY <1>4, <1>5, <3>2, <4>1 DEF Inv, PastOK
    <3> QED
      BY <3>1, <3>2
  <2>2. at'[Main] # "flush"
    BY <1>1, <1>3
  <2> QED
    BY <1>2, <2>1, <2>2 DEF PastOK
<1> QED
  BY <1>5, <1>7, <1>8, <1>9 DEF Inv

-----------------------------------------------------------------------------
(* Levels that main is past are at rest *)

\* main has its list and has waited for nothing; nothing is queued.
LEMMA Starts ==
    ASSUME Init
    PROVE  Inv
<1>1. query.k \in 0 .. MaxLevel
  BY QueryAssumption DEF Init
<1>2. /\ at = [a \in Actor |-> IF a = Main THEN "complete" ELSE "idle"]
      /\ wait_level = 0
  BY DEF Init
<1>3. /\ queue = [l \in Level |-> <<>>] /\ task_wg = [l \in Level |-> 0]
      /\ pending = [l \in Level |-> <<>>]
  BY DEF Init
<1>4. at[Main] = "complete" /\ \A a \in Worker : at[a] = "idle"
  BY <1>2, Actors
<1>5. PlacesOK
  BY <1>1, <1>2, <1>4 DEF PlacesOK
<1>6. \A l : Busy(l) = {}
  BY <1>4 DEF Busy
<1>7. CountsOK
  <2>1. IsSequence(<<>>) /\ Len(<<>>) = 0
    <3>1. <<>> \in Seq({})
      OBVIOUS
    <3> QED
      BY <3>1 DEF IsSequence
  <2>2. \A l : Cardinality(Busy(l)) = 0
    <3>1. Cardinality({}) = 0
      BY FS_EmptySet
    <3> QED
      BY <1>6, <3>1
  <2>3. DOMAIN queue = Level /\ DOMAIN task_wg = Level /\ DOMAIN pending = Level
    BY <1>3
  <2>4. \A l \in Level : IsSequence(queue[l]) /\ Len(queue[l]) = 0 /\ task_wg[l] = 0
    BY <1>3, <2>1
  <2>5. \A l \in Level : task_wg[l] = Len(queue[l]) + Cardinality(Busy(l))
    BY <2>2, <2>4
  <2> QED
    BY <2>3, <2>4, <2>5 DEF CountsOK
<1>8. DepthOK
  BY <1>2, <1>3, <1>4 DEF DepthOK
<1>9. PastOK
  BY <1>3, <1>4, <1>6 DEF PastOK
<1> QED
  BY <1>5, <1>7, <1>8, <1>9 DEF Inv

\* Every step of main, of a worker, and none at all.
LEMMA Stays ==
    ASSUME Inv, [Next]_vars
    PROVE  Inv'
<1>1. ASSUME NEW a \in Actor, HandOver(a)
      PROVE  Inv'
  <2>1. a = Main \/ a \in Worker
    BY DEF Actor
  <2>2. CASE New(a)
    BY <2>1, <2>2, NewKeeps
  <2>3. CASE Start(a)
    BY <2>1, <2>3, StartKeeps
  <2>4. CASE LockTable(a) \/ Known(a) \/ UnlockTable(a) \/ Completed(a)
    BY <2>1, <2>4, InsideKeeps
  <2> QED
    BY <1>1, <2>2, <2>3, <2>4 DEF HandOver
<1>2. CASE MainStep
  BY <1>1, <1>2, Actors, WaitKeeps, FlushKeeps DEF MainStep
<1>3. ASSUME NEW a \in Worker, WorkerStep(a)
      PROVE  Inv'
  BY <1>1, <1>3, Actors, TakeKeeps, InsideKeeps, DoneKeeps DEF WorkerStep
<1>4. CASE UNCHANGED vars
  <2>1. UNCHANGED <<query, at, queue, task_wg, pending, wait_level>>
    BY <1>4 DEF vars
  <2>2. \A l : Busy(l)' = Busy(l)
    BY <2>1 DEF Busy
  <2>3. PlacesOK' /\ DepthOK'
    BY <2>1 DEF Inv, PlacesOK, DepthOK
  <2>4. CountsOK' /\ PastOK'
    BY <2>1, <2>2 DEF Inv, CountsOK, PastOK
  <2> QED
    BY <2>3, <2>4 DEF Inv
<1> QED
  BY <1>2, <1>3, <1>4 DEF Next, Over

\* The comment of 656-658: when main has gone past a level nothing of it is
\* queued, under way or waiting to be started, and nothing ever will be.
THEOREM WaitIsSoundTheorem == Spec => []WaitIsSound
<1>1. Inv => WaitIsSound
  <2> SUFFICES ASSUME Inv, NEW l \in Level, l < wait_level
               PROVE  /\ queue[l] = <<>> /\ task_wg[l] = 0 /\ pending[l] = <<>>
                      /\ \A a \in Worker : LevelOf(a) = l => at[a] = "idle"
    BY DEF WaitIsSound
  <2>1. queue[l] = <<>> /\ Busy(l) = {} /\ pending[l] = <<>>
    BY DEF Inv, PastOK
  <2>2. Len(queue[l]) = 0 /\ Cardinality(Busy(l)) = 0
    BY <2>1, FS_EmptySet
  <2>3. task_wg[l] = 0
    BY <2>2 DEF Inv, CountsOK
  <2> QED
    BY <2>1, <2>3 DEF Busy
<1> QED
  BY <1>1, Starts, Stays, PTL DEF Spec

-----------------------------------------------------------------------------
(* Least elements *)

\* A set of numbers that is not empty has a least one.
LEMMA LeastNumber ==
    ASSUME NEW S \in SUBSET Nat, S # {}
    PROVE  \E m \in S : \A n \in S : m <= n
<1> DEFINE R == OpToRel(<, Nat)
<1>1. R = {ss \in Nat \X Nat : ss[1] < ss[2]}
  BY DEF OpToRel
<1>2. IsWellFoundedOn(R, Nat)
  BY NatLessThanWellFounded
<1> HIDE DEF R
<1>3. PICK m \in S : \A n \in S : <<n, m>> \notin R
  BY WFMin, <1>2
<1>4. ASSUME NEW n \in S PROVE m <= n
  <2>1. m \in Nat /\ n \in Nat
    OBVIOUS
  <2>2. n < m => <<n, m>> \in R
    BY <2>1, <1>1
  <2> QED
    BY <1>3, <2>1, <2>2
<1> QED
  BY <1>4

\* A collection of subsets of a finite set has one that contains no other.
LEMMA LeastSubset ==
    ASSUME NEW S, IsFiniteSet(S), NEW B \in SUBSET SUBSET S, B # {}
    PROVE  \E T \in B : \A U \in B : U \subseteq T => U = T
<1>1. B \subseteq FiniteSubsetsOf(S)
  BY FS_Subset DEF FiniteSubsetsOf
<1>2. PICK T \in B : \A U \in B : <<U, T>> \notin StrictSubsetOrdering(S)
  BY <1>1, WFMin, FS_StrictSubsetOrderingWellFounded
<1>3. ASSUME NEW U \in B, U \subseteq T PROVE U = T
  <2>1. U \in SUBSET S /\ T \in SUBSET S
    OBVIOUS
  <2> QED
    BY <1>2, <1>3, <2>1 DEF StrictSubsetOrdering
<1> QED
  BY <1>3

\* What is done element by element with a finite set: pick says which element
\* of a set comes first, and step what is made of it and the result for the others.
IsRecursion(S, V, base, pick, step) ==
    /\ base \in V
    /\ \A T \in SUBSET S : T # {} => pick[T] \in T
    /\ \A x \in S, v \in V : step[<<x, v>>] \in V
\* What is defined element by element: an element is picked, and the rest goes on.
Solves(f, S, V, base, pick, step) ==
    /\ f \in [SUBSET S -> V]
    /\ f[{}] = base
    /\ \A T \in SUBSET S : T # {} => f[T] = step[<<pick[T], f[T \ {pick[T]}]>>]

\* Whatever is defined element by element exists for every finite set.
LEMMA ElementByElement ==
    ASSUME NEW S, IsFiniteSet(S), NEW V, NEW base, NEW pick, NEW step,
           IsRecursion(S, V, base, pick, step)
    PROVE  \E f : Solves(f, S, V, base, pick, step)
<1>0. /\ base \in V
      /\ \A T \in SUBSET S : T # {} => pick[T] \in T
      /\ \A x \in S, v \in V : step[<<x, v>>] \in V
  BY DEF IsRecursion
<1> DEFINE Sol(T) == {g \in [SUBSET T -> V] :
                        /\ g[{}] = base
                        /\ \A U \in SUBSET T :
                              U # {} => g[U] = step[<<pick[U], g[U \ {pick[U]}]>>]}
<1>1. ASSUME NEW T \in SUBSET S, NEW T2 \in SUBSET S, NEW g \in Sol(T), NEW h \in Sol(T2)
      PROVE  \A U \in SUBSET T : U \in SUBSET T2 => g[U] = h[U]
  <2> DEFINE Bad == {U \in SUBSET S : U \subseteq T /\ U \subseteq T2 /\ g[U] # h[U]}
  <2> SUFFICES ASSUME Bad # {} PROVE FALSE
    OBVIOUS
  <2>1. Bad \in SUBSET SUBSET S
    OBVIOUS
  <2> HIDE DEF Bad
  <2>2. PICK U \in Bad : \A W \in Bad : W \subseteq U => W = U
    BY <2>1, LeastSubset
  <2> USE DEF Bad
  <2>3. U # {}
    OBVIOUS
  <2>4. U \in SUBSET S /\ U \in SUBSET T /\ U \in SUBSET T2 /\ pick[U] \in U
    BY <1>0, <2>3
  <2> DEFINE W == U \ {pick[U]}
  <2>5. W \subseteq U /\ W # U /\ W \in SUBSET S /\ W \in SUBSET T /\ W \in SUBSET T2
    BY <2>4
  <2>6. g[W] = h[W]
    BY <2>2, <2>5
  <2>7. g[U] = step[<<pick[U], g[W]>>] /\ h[U] = step[<<pick[U], h[W]>>]
    BY <2>3, <2>4
  <2> QED
    BY <2>6, <2>7
<1> DEFINE sol(T) == CHOOSE g : g \in Sol(T)
<1>2. ASSUME NEW T \in SUBSET S, T # {}, \A U \in SUBSET T : U # T => Sol(U) # {}
      PROVE  Sol(T) # {}
  <2> DEFINE T0 == T \ {pick[T]}
             h == [U \in SUBSET T |-> IF U = T THEN step[<<pick[T], sol(T0)[T0]>>]
                                      ELSE sol(U)[U]]
  <2>1. pick[T] \in T /\ T0 \in SUBSET T /\ T0 # T
    BY <1>0, <1>2
  <2>2. \A U \in SUBSET T : U # T => sol(U) \in Sol(U)
    BY <1>2
  <2> HIDE DEF sol
  <2>3. \A U \in SUBSET T : U # T => sol(U)[U] \in V
    <3> SUFFICES ASSUME NEW U \in SUBSET T, U # T PROVE sol(U)[U] \in V
      OBVIOUS
    <3>1. sol(U) \in [SUBSET U -> V] /\ U \in SUBSET U
      BY <2>2
    <3> QED
      BY <3>1
  <2>4. h \in [SUBSET T -> V]
    <3>1. step[<<pick[T], sol(T0)[T0]>>] \in V
      BY <1>0, <2>1, <2>3
    <3> QED
      BY <2>3, <3>1
  <2>5. h[{}] = base
    <3>1. sol({}) \in Sol({}) /\ {} \in SUBSET T
      BY <1>2, <2>2
    <3> QED
      BY <1>2, <3>1
  <2>6. ASSUME NEW U \in SUBSET T, U # {} PROVE h[U] = step[<<pick[U], h[U \ {pick[U]}]>>]
    <3> DEFINE W == U \ {pick[U]}
    <3>1. pick[U] \in U /\ W \in SUBSET T /\ W # T
      BY <1>0, <2>6
    <3>2. h[W] = sol(W)[W]
      BY <3>1
    <3>3. CASE U = T
      BY <3>2, <3>3
    <3>4. CASE U # T
      <4>1. sol(U) \in Sol(U) /\ sol(W) \in Sol(W) /\ W \in SUBSET U /\ W \in SUBSET W
        BY <2>2, <3>1, <3>4
      <4>2. sol(U)[U] = step[<<pick[U], sol(U)[W]>>]
        BY <4>1, <2>6
      <4>3. U \in SUBSET S /\ W \in SUBSET S
        OBVIOUS
      <4>4. sol(U)[W] = sol(W)[W]
        <5> HIDE DEF Sol, W
        <5> QED
          BY <1>1, <4>1, <4>3
      <4> QED
        BY <3>2, <3>4, <4>2, <4>4
    <3> QED
      BY <3>3, <3>4
  <2> HIDE DEF h
  <2>7. h \in Sol(T)
    BY <2>4, <2>5, <2>6
  <2> QED
    BY <2>7
<1>3. Sol({}) # {}
  <2>1. [U \in SUBSET {} |-> base] \in Sol({})
    BY <1>0
  <2> QED
    BY <2>1
<1>4. Sol(S) # {}
  <2> DEFINE Bad == {T \in SUBSET S : Sol(T) = {}}
  <2> SUFFICES ASSUME Bad # {} PROVE FALSE
    OBVIOUS
  <2>1. Bad \in SUBSET SUBSET S
    OBVIOUS
  <2> HIDE DEF Bad
  <2>2. PICK T \in Bad : \A U \in Bad : U \subseteq T => U = T
    BY <2>1, LeastSubset
  <2> HIDE DEF Sol
  <2> USE DEF Bad
  <2>3. T \in SUBSET S /\ T # {} /\ \A U \in SUBSET T : U # T => Sol(U) # {}
    BY <2>2, <1>3
  <2>4. Sol(T) # {}
    BY <2>3, <1>2
  <2> QED
    BY <2>4
<1> QED
  BY <1>4 DEF Solves

-----------------------------------------------------------------------------
(* The order of keys *)

\* Tuples of n numbers: keys, or prefixes of the same number of fields.
Tuples(n) == {t \in Seq(Int) : Len(t) = n}

\* What a tuple is as a sequence.
LEMMA Fields ==
    ASSUME NEW n \in Nat, NEW t \in Tuples(n)
    PROVE  t \in Seq(Int) /\ Len(t) = n /\ DOMAIN t = 1 .. n /\ \A i \in 1 .. n : t[i] \in Int
BY DEF Tuples

\* Of two tuples of one length one is before the other if it is less where they
\* first differ.
Less(a, b, n) == \E i \in 1 .. n : a[i] < b[i] /\ \A j \in 1 .. i - 1 : a[j] = b[j]

\* For tuples of one length the order of the table compares the fields in turn ...
LEMMA BeforeIsLess ==
    ASSUME NEW n \in Nat, NEW a \in Tuples(n), NEW b \in Tuples(n)
    PROVE  Before(a, b) <=> Less(a, b, n)
<1>1. /\ a \in Seq(Int) /\ b \in Seq(Int) /\ Len(a) = n /\ Len(b) = n
  BY DEF Tuples
<1>2. ~ IsStrictPrefix(a, b)
  <2>1. SubSeq(a, 1, Len(a)) = a /\ SubSeq(b, 1, Len(b)) = b
    BY <1>1, SubSeqFull
  <2> QED
    BY <1>1, <2>1 DEF IsStrictPrefix, IsPrefix
<1> QED
  BY <1>1, <1>2 DEF Before, Less

\* ... which compares any two ...
LEMMA LessIsTotal ==
    ASSUME NEW n \in Nat, NEW a \in Tuples(n), NEW b \in Tuples(n), a # b
    PROVE  Less(a, b, n) \/ Less(b, a, n)
<1>1. /\ a \in Seq(Int) /\ b \in Seq(Int) /\ Len(a) = n /\ Len(b) = n
      /\ \A i \in 1 .. n : a[i] \in Int /\ b[i] \in Int
  BY DEF Tuples
<1> DEFINE D == {i \in 1 .. n : a[i] # b[i]}
<1>2. D \in SUBSET Nat /\ D # {}
  <2> SUFFICES ASSUME D = {} PROVE FALSE
    OBVIOUS
  <2>1. Len(a) = Len(b) /\ \A i \in 1 .. Len(a) : a[i] = b[i]
    BY <1>1
  <2> QED
    BY <1>1, <2>1, SeqEqual, Zenon
<1> HIDE DEF D
<1>3. PICK i \in D : \A j \in D : i <= j
  BY <1>2, LeastNumber
<1> USE DEF D
<1>4. i \in 1 .. n /\ a[i] # b[i]
  OBVIOUS
<1>5. \A j \in 1 .. i - 1 : a[j] = b[j]
  <2> SUFFICES ASSUME NEW j \in 1 .. i - 1, a[j] # b[j] PROVE FALSE
    OBVIOUS
  <2>1. j \in D /\ ~ (i <= j)
    BY <1>4
  <2> QED
    BY <1>3, <2>1
<1>6. a[i] < b[i] \/ b[i] < a[i]
  BY <1>1, <1>4
<1> QED
  BY <1>4, <1>5, <1>6 DEF Less

\* ... and is an order.
LEMMA LessIsStrict ==
    ASSUME NEW n \in Nat, NEW a \in Tuples(n), NEW b \in Tuples(n), NEW c \in Tuples(n)
    PROVE  /\ ~ Less(a, a, n)
           /\ Less(a, b, n) /\ Less(b, c, n) => Less(a, c, n)
<1>1. \A i \in 1 .. n : a[i] \in Int /\ b[i] \in Int /\ c[i] \in Int
  BY DEF Tuples
<1>2. ~ Less(a, a, n)
  BY <1>1 DEF Less
<1>3. ASSUME Less(a, b, n), Less(b, c, n) PROVE Less(a, c, n)
  <2>1. PICK i \in 1 .. n : a[i] < b[i] /\ \A j \in 1 .. i - 1 : a[j] = b[j]
    BY <1>3 DEF Less
  <2>2. PICK k \in 1 .. n : b[k] < c[k] /\ \A j \in 1 .. k - 1 : b[j] = c[j]
    BY <1>3 DEF Less
  <2> DEFINE m == IF i <= k THEN i ELSE k
  <2>3. m \in 1 .. n
    OBVIOUS
  <2>4. a[m] < c[m]
    <3>1. CASE i < k
      <4>1. b[i] = c[i]
        BY <2>2, <3>1
      <4> QED
        BY <1>1, <2>1, <3>1, <4>1
    <3>2. CASE i = k
      BY <1>1, <2>1, <2>2, <3>2
    <3>3. CASE k < i
      <4>1. a[k] = b[k]
        BY <2>1, <3>3
      <4> QED
        BY <1>1, <2>2, <3>3, <4>1
    <3> QED
      BY <3>1, <3>2, <3>3
  <2>5. \A j \in 1 .. m - 1 : a[j] = c[j]
    BY <2>1, <2>2
  <2> QED
    BY <2>3, <2>4, <2>5 DEF Less
<1> QED
  BY <1>2, <1>3

\* A finite set of tuples that is not empty has a first.
LEMMA FirstExists ==
    ASSUME NEW n \in Nat, NEW S \in SUBSET Tuples(n), IsFiniteSet(S), S # {}
    PROVE  \E x \in S : \A y \in S \ {x} : Before(x, y)
<1> DEFINE HasFirst(T) == \E x \in T : \A y \in T \ {x} : Less(x, y, n)
           Bad == {T \in SUBSET S : T # {} /\ ~ HasFirst(T)}
<1>1. ASSUME Bad # {} PROVE FALSE
  <2>1. Bad \in SUBSET SUBSET S
    OBVIOUS
  <2> HIDE DEF Bad
  <2>2. PICK T \in Bad : \A U \in Bad : U \subseteq T => U = T
    BY <1>1, <2>1, LeastSubset
  <2>3. T \in SUBSET S /\ T # {} /\ ~ HasFirst(T)
    BY DEF Bad
  <2>4. PICK x \in T : TRUE
    BY <2>3
  <2> DEFINE U == T \ {x}
  <2>5. U \notin Bad /\ U \in SUBSET S
    BY <2>2, <2>3, <2>4
  <2>6. U # {}
    BY <2>3, <2>4
  <2>7. PICK y \in U : \A z \in U \ {y} : Less(y, z, n)
    BY <2>5, <2>6 DEF Bad
  <2>8. x \in Tuples(n) /\ y \in Tuples(n) /\ x # y /\ T = U \cup {x}
    BY <2>3, <2>4
  <2>9. CASE Less(x, y, n)
    <3>1. ASSUME NEW z \in T \ {x} PROVE Less(x, z, n)
      <4>1. z \in Tuples(n) /\ (z = y \/ Less(y, z, n))
        BY <2>3, <2>7
      <4> QED
        BY <2>8, <2>9, <4>1, LessIsStrict
    <3> QED
      BY <2>3, <3>1
  <2>10. CASE Less(y, x, n)
    <3>1. \A z \in T \ {y} : Less(y, z, n)
      BY <2>7, <2>8, <2>10
    <3> QED
      BY <2>3, <2>8, <3>1
  <2> QED
    BY <2>8, <2>9, <2>10, LessIsTotal
<1>2. HasFirst(S)
  BY <1>1
<1>3. PICK x \in S : \A y \in S \ {x} : Less(x, y, n)
  BY <1>2
<1>4. \A y \in S \ {x} : Before(x, y)
  BY <1>3, BeforeIsLess
<1> QED
  BY <1>4

\* A sequence has the elements of a set in their order.
Sorts(s, S) ==
    /\ s \in Seq(S)
    /\ \A x \in S : \E i \in 1 .. Len(s) : s[i] = x
    /\ \A i, j \in 1 .. Len(s) : i < j => Before(s[i], s[j])

\* InOrder puts the elements of a finite set in their order, each once.
LEMMA InOrderSorts ==
    ASSUME NEW n \in Nat, NEW S \in SUBSET Tuples(n), IsFiniteSet(S)
    PROVE  Sorts(InOrder(S), S)
<1> DEFINE first(T) == CHOOSE x \in T : \A y \in T \ {x} : Before(x, y)
           Sort(g) == g = [T \in SUBSET S |->
                             IF T = {} THEN <<>> ELSE <<first(T)>> \o g[T \ {first(T)}]]
           sort == CHOOSE g : Sort(g)
<1>1. InOrder(S) = sort[S]
  BY DEF InOrder
<1>2. ASSUME NEW T \in SUBSET S, T # {}
      PROVE  first(T) \in T /\ \A y \in T \ {first(T)} : Before(first(T), y)
  <2>1. IsFiniteSet(T) /\ T \in SUBSET Tuples(n)
    BY FS_Subset
  <2> QED
    BY <1>2, <2>1, FirstExists
<1> HIDE DEF first
<1>3. \E f : Sort(f)
  <2> DEFINE pick == [T \in SUBSET S |-> first(T)]
             step == [p \in S \X Seq(S) |-> <<p[1]>> \o p[2]]
  <2>1. \A T \in SUBSET S : T # {} => pick[T] \in T
    BY <1>2
  <2>2. \A x \in S, v \in Seq(S) : step[<<x, v>>] = <<x>> \o v /\ step[<<x, v>>] \in Seq(S)
    <3> SUFFICES ASSUME NEW x \in S, NEW v \in Seq(S)
                 PROVE  step[<<x, v>>] = <<x>> \o v /\ step[<<x, v>>] \in Seq(S)
      OBVIOUS
    <3>1. <<x, v>> \in S \X Seq(S) /\ <<x>> \in Seq(S)
      OBVIOUS
    <3>2. <<x>> \o v \in Seq(S)
      BY <3>1, ConcatProperties
    <3> QED
      BY <3>1, <3>2
  <2>3. <<>> \in Seq(S)
    OBVIOUS
  <2> HIDE DEF step
  <2>4. IsRecursion(S, Seq(S), <<>>, pick, step)
    BY <2>1, <2>2, <2>3 DEF IsRecursion
  <2>5. PICK f : Solves(f, S, Seq(S), <<>>, pick, step)
    BY <2>4, ElementByElement
  <2>6. /\ f \in [SUBSET S -> Seq(S)] /\ f[{}] = <<>>
        /\ \A T \in SUBSET S : T # {} => f[T] = step[<<pick[T], f[T \ {pick[T]}]>>]
    BY <2>5 DEF Solves
  <2>7. ASSUME NEW T \in SUBSET S, T # {}
        PROVE  f[T] = <<first(T)>> \o f[T \ {first(T)}]
    <3>1. first(T) \in S /\ T \ {first(T)} \in SUBSET S /\ pick[T] = first(T)
      BY <1>2, <2>7
    <3>2. f[T \ {first(T)}] \in Seq(S)
      BY <2>6, <3>1
    <3> QED
      BY <2>2, <2>6, <2>7, <3>1, <3>2
  <2>8. Sort(f)
    BY <2>6, <2>7
  <2> QED
    BY <2>8
<1>4. Sort(sort)
  <2> HIDE DEF Sort
  <2> QED
    BY <1>3
<1> HIDE DEF sort
<1>5. /\ sort[{}] = <<>>
      /\ \A T \in SUBSET S : T # {} => sort[T] = <<first(T)>> \o sort[T \ {first(T)}]
  BY <1>4
<1> HIDE DEF Sort
<1> DEFINE Bad == {T \in SUBSET S : ~ Sorts(sort[T], T)}
<1>6. ASSUME Bad # {} PROVE FALSE
  <2>1. Bad \in SUBSET SUBSET S
    OBVIOUS
  <2> HIDE DEF Bad
  <2>2. PICK T \in Bad : \A U \in Bad : U \subseteq T => U = T
    BY <1>6, <2>1, LeastSubset
  <2>3. T \in SUBSET S /\ ~ Sorts(sort[T], T)
    BY DEF Bad
  <2>4. CASE T = {}
    <3>1. sort[T] = <<>>
      BY <1>5, <2>4
    <3>2. Sorts(<<>>, {})
      BY DEF Sorts
    <3> QED
      BY <2>3, <2>4, <3>1, <3>2
  <2>5. CASE T # {}
    <3> DEFINE x == first(T)
               U == T \ {x}
               s == sort[U]
               t == <<x>> \o s
    <3>1. x \in T /\ \A y \in U : Before(x, y)
      BY <1>2, <2>3, <2>5
    <3>2. U \in SUBSET S /\ U \subseteq T /\ U # T
      BY <2>3, <3>1
    <3>3. Sorts(s, U)
      BY <2>2, <3>2 DEF Bad
    <3>4. sort[T] = t
      BY <1>5, <2>3, <2>5
    <3> HIDE DEF x, U, s
    <3>5. s \in Seq(U) /\ s \in Seq(T) /\ <<x>> \in Seq(T) /\ Len(s) \in Nat
      BY <3>1, <3>2, <3>3, SeqMonotonic DEF Sorts
    <3>6. /\ t \in Seq(T) /\ Len(t) = 1 + Len(s)
          /\ \A i \in 1 .. Len(t) : t[i] = IF i = 1 THEN x ELSE s[i - 1]
      <4>1. Len(<<x>>) = 1 /\ <<x>>[1] = x
        OBVIOUS
      <4> QED
        BY <3>5, <4>1, ConcatProperties
    <3> HIDE DEF t
    <3>7. ASSUME NEW y \in T PROVE \E i \in 1 .. Len(t) : t[i] = y
      <4>1. CASE y = x
        BY <3>5, <3>6, <4>1
      <4>2. CASE y # x
        <5>1. y \in U
          BY <4>2 DEF U
        <5>2. PICK i \in 1 .. Len(s) : s[i] = y
          BY <3>3, <5>1 DEF Sorts
        <5>3. i + 1 \in 1 .. Len(t) /\ i + 1 # 1 /\ (i + 1) - 1 = i
          BY <3>5, <3>6, <5>2
        <5> QED
          BY <3>6, <5>2, <5>3
      <4> QED
        BY <4>1, <4>2
    <3>8. ASSUME NEW i \in 1 .. Len(t), NEW j \in 1 .. Len(t), i < j
          PROVE  Before(t[i], t[j])
      <4>1. j - 1 \in 1 .. Len(s) /\ t[j] = s[j - 1]
        BY <3>5, <3>6, <3>8
      <4>2. CASE i = 1
        <5>1. s[j - 1] \in U
          BY <3>5, <4>1
        <5> QED
          BY <3>1, <3>6, <4>1, <4>2, <5>1
      <4>3. CASE i # 1
        <5>1. i - 1 \in 1 .. Len(s) /\ t[i] = s[i - 1] /\ i - 1 < j - 1
          BY <3>5, <3>6, <3>8, <4>3
        <5> QED
          BY <3>3, <4>1, <5>1 DEF Sorts
      <4> QED
        BY <4>2, <4>3
    <3>9. Sorts(t, T)
      BY <3>6, <3>7, <3>8 DEF Sorts
    <3> QED
      BY <2>3, <3>4, <3>9
  <2> QED
    BY <2>4, <2>5
<1> QED
  BY <1>1, <1>6

-----------------------------------------------------------------------------
(* The edge table *)

\* The keys of a graph's edges, in both directions.
KeysOf(graph) ==
    UNION {{<<e[1], OUTGOING, e[2], e[3]>>, <<e[3], INCOMING, e[2], e[1]>>} : e \in graph}
IsKey(key) ==
    /\ key \in Tuples(4) /\ key[1] \in Vertex /\ key[2] \in {OUTGOING, INCOMING}
    /\ key[3] \in Nat \ {0} /\ key[4] \in Vertex

\* A finite set has a finite image.
LEMMA ImageIsFinite ==
    ASSUME NEW S, IsFiniteSet(S), NEW f, f = [x \in S |-> f[x]]
    PROVE  IsFiniteSet({f[x] : x \in S})
<1> DEFINE T == {f[x] : x \in S}
<1>1. f \in [S -> T]
  OBVIOUS
<1>2. f \in Surjection(S, T)
  BY <1>1 DEF Surjection
<1> HIDE DEF T
<1>3. IsFiniteSet(T)
  BY <1>2, FS_Surjection
<1> QED
  BY <1>3 DEF T

\* A graph that may be stored has finitely many keys, of vertices and relations.
LEMMA KeysAreFinite ==
    ASSUME NEW graph \in EdgeSets
    PROVE  IsFiniteSet(KeysOf(graph)) /\ \A key \in KeysOf(graph) : IsKey(key)
<1>1. graph \subseteq Vertex \X (Nat \ {0}) \X Vertex /\ IsFiniteSet(graph)
  BY EdgeAssumption
<1>3. IsFiniteSet(KeysOf(graph))
  <2> DEFINE pair(e) == {<<e[1], OUTGOING, e[2], e[3]>>, <<e[3], INCOMING, e[2], e[1]>>}
             f == [e \in graph |-> pair(e)]
             Pairs == {f[e] : e \in graph}
  <2>1. \A e \in graph : IsFiniteSet(pair(e))
    <3> SUFFICES ASSUME NEW e \in graph PROVE IsFiniteSet(pair(e))
      OBVIOUS
    <3>1. IsFiniteSet({<<e[1], OUTGOING, e[2], e[3]>>}) /\ IsFiniteSet({<<e[3], INCOMING, e[2], e[1]>>})
      BY FS_Singleton
    <3>2. pair(e) = {<<e[1], OUTGOING, e[2], e[3]>>} \cup {<<e[3], INCOMING, e[2], e[1]>>}
      OBVIOUS
    <3> HIDE DEF pair
    <3> QED
      BY <3>1, <3>2, FS_Union
  <2>2. KeysOf(graph) = UNION Pairs
    BY DEF KeysOf
  <2> HIDE DEF pair
  <2>3. IsFiniteSet(Pairs)
    <3>1. f = [e \in graph |-> f[e]]
      OBVIOUS
    <3> HIDE DEF f
    <3> QED
      BY <1>1, <3>1, ImageIsFinite
  <2>4. \A s \in Pairs : IsFiniteSet(s)
    BY <2>1
  <2> HIDE DEF Pairs
  <2> QED
    BY <2>2, <2>3, <2>4, FS_UNION
<1>4. ASSUME NEW key \in KeysOf(graph) PROVE IsKey(key)
  <2>1. PICK e \in graph : \/ key = <<e[1], OUTGOING, e[2], e[3]>>
                           \/ key = <<e[3], INCOMING, e[2], e[1]>>
    BY DEF KeysOf
  <2>2. e[1] \in Vertex /\ e[2] \in Nat \ {0} /\ e[3] \in Vertex
    BY <1>1
  <2>3. \A v \in Vertex : v \in Int
    BY VertexAssumption
  <2>5. /\ key = <<key[1], key[2], key[3], key[4]>>
        /\ key[1] \in Vertex /\ key[2] \in {OUTGOING, INCOMING} /\ key[3] \in Nat \ {0} /\ key[4] \in Vertex
    BY <2>1, <2>2
  <2>6. key[1] \in Int /\ key[2] \in Int /\ key[3] \in Int /\ key[4] \in Int
    BY <2>3, <2>5 DEF OUTGOING, INCOMING
  <2>7. <<key[1], key[2], key[3], key[4]>> \in Seq(Int) /\ Len(<<key[1], key[2], key[3], key[4]>>) = 4
    BY <2>6
  <2> QED
    BY <2>5, <2>7, Zenon DEF Tuples, IsKey
<1> QED
  BY <1>3, <1>4

\* The edge table of a graph is a sequence of keys.
LEMMA TableOfKeys ==
    ASSUME NEW graph \in EdgeSets
    PROVE  EdgeTable(graph) \in Seq({key \in Tuples(4) : IsKey(key)})
<1>1. KeysOf(graph) \in SUBSET Tuples(4) /\ IsFiniteSet(KeysOf(graph))
  BY KeysAreFinite DEF IsKey
<1>2. EdgeTable(graph) = InOrder(KeysOf(graph))
  BY DEF EdgeTable, KeysOf
<1>3. Sorts(EdgeTable(graph), KeysOf(graph))
  <2>1. 4 \in Nat
    OBVIOUS
  <2> QED
    BY <1>1, <1>2, <2>1, InOrderSorts
<1>4. KeysOf(graph) \subseteq {key \in Tuples(4) : IsKey(key)}
  BY <1>1, KeysAreFinite
<1> QED
  BY <1>3, <1>4, SeqMonotonic DEF Sorts

-----------------------------------------------------------------------------
(* Sequences, and what is made step by step *)

\* The elements of a longer sequence.
LEMMA Elements ==
    ASSUME NEW S, NEW s \in Seq(S)
    PROVE  /\ ToSet(s) \subseteq S /\ Len(s) \in Nat /\ (ToSet(s) = {} <=> s = <<>>)
           /\ \A x \in S : Append(s, x) \in Seq(S) /\ ToSet(Append(s, x)) = ToSet(s) \cup {x}
           /\ \A t \in Seq(S) : s \o t \in Seq(S) /\ ToSet(s \o t) = ToSet(s) \cup ToSet(t)
<1>1. Len(s) \in Nat /\ DOMAIN s = 1 .. Len(s) /\ \A i \in 1 .. Len(s) : s[i] \in S
  OBVIOUS
<1>2. ToSet(s) \subseteq S /\ (ToSet(s) = {} <=> s = <<>>)
  <2>1. ToSet(s) \subseteq S
    BY <1>1 DEF ToSet
  <2>2. s = <<>> => ToSet(s) = {}
    BY DEF ToSet
  <2>3. s # <<>> => 1 \in 1 .. Len(s)
    BY <1>1
  <2> QED
    BY <1>1, <2>1, <2>2, <2>3 DEF ToSet
<1>3. ASSUME NEW x \in S
      PROVE  Append(s, x) \in Seq(S) /\ ToSet(Append(s, x)) = ToSet(s) \cup {x}
  <2> DEFINE t == Append(s, x)
  <2>1. /\ t \in Seq(S) /\ Len(t) = Len(s) + 1 /\ DOMAIN t = 1 .. Len(s) + 1
        /\ \A i \in 1 .. Len(s) : t[i] = s[i]
        /\ t[Len(s) + 1] = x
    BY <1>1
  <2> HIDE DEF t
  <2>2. ToSet(t) \subseteq ToSet(s) \cup {x}
    <3> SUFFICES ASSUME NEW i \in 1 .. Len(s) + 1 PROVE t[i] \in ToSet(s) \cup {x}
      BY <2>1 DEF ToSet
    <3>1. i \in 1 .. Len(s) \/ i = Len(s) + 1
      BY <1>1
    <3> QED
      BY <1>1, <2>1, <3>1 DEF ToSet
  <2>3. ToSet(s) \subseteq ToSet(t)
    <3> SUFFICES ASSUME NEW i \in 1 .. Len(s) PROVE s[i] \in ToSet(t)
      BY <1>1 DEF ToSet
    <3>1. i \in 1 .. Len(s) + 1
      BY <1>1
    <3> QED
      BY <2>1, <3>1 DEF ToSet
  <2>4. x \in ToSet(t)
    <3>1. Len(s) + 1 \in 1 .. Len(s) + 1
      BY <1>1
    <3> QED
      BY <2>1, <3>1 DEF ToSet
  <2> QED
    BY <2>1, <2>2, <2>3, <2>4 DEF t
<1>4. ASSUME NEW t \in Seq(S)
      PROVE  s \o t \in Seq(S) /\ ToSet(s \o t) = ToSet(s) \cup ToSet(t)
  <2> DEFINE u == s \o t
  <2>1. /\ u \in Seq(S) /\ Len(u) = Len(s) + Len(t) /\ DOMAIN u = 1 .. Len(s) + Len(t)
        /\ \A i \in 1 .. Len(u) : u[i] = IF i <= Len(s) THEN s[i] ELSE t[i - Len(s)]
        /\ Len(t) \in Nat /\ DOMAIN t = 1 .. Len(t)
    BY <1>1, ConcatProperties
  <2> HIDE DEF u
  <2>2. ToSet(u) \subseteq ToSet(s) \cup ToSet(t)
    <3> SUFFICES ASSUME NEW i \in 1 .. Len(u) PROVE u[i] \in ToSet(s) \cup ToSet(t)
      BY <2>1 DEF ToSet
    <3>1. CASE i <= Len(s)
      <4>1. i \in 1 .. Len(s) /\ u[i] = s[i]
        BY <1>1, <2>1, <3>1
      <4> QED
        BY <1>1, <4>1 DEF ToSet
    <3>2. CASE ~ (i <= Len(s))
      <4>1. i - Len(s) \in 1 .. Len(t) /\ u[i] = t[i - Len(s)]
        BY <1>1, <2>1, <3>2
      <4> QED
        BY <2>1, <4>1 DEF ToSet
    <3> QED
      BY <3>1, <3>2
  <2>3. ToSet(s) \subseteq ToSet(u)
    <3> SUFFICES ASSUME NEW i \in 1 .. Len(s) PROVE s[i] \in ToSet(u)
      BY <1>1 DEF ToSet
    <3>1. i \in 1 .. Len(u) /\ i <= Len(s)
      BY <1>1, <2>1
    <3> QED
      BY <2>1, <3>1 DEF ToSet
  <2>4. ToSet(t) \subseteq ToSet(u)
    <3> SUFFICES ASSUME NEW i \in 1 .. Len(t) PROVE t[i] \in ToSet(u)
      BY <2>1 DEF ToSet
    <3>1. i + Len(s) \in 1 .. Len(u) /\ ~ (i + Len(s) <= Len(s)) /\ (i + Len(s)) - Len(s) = i
      BY <1>1, <2>1
    <3> QED
      BY <2>1, <3>1 DEF ToSet
  <2> QED
    BY <2>1, <2>2, <2>3, <2>4 DEF u
<1> QED
  BY <1>1, <1>2, <1>3, <1>4

\* What holds at first, and after each step if it held before, holds at last.
LEMMA StepsHold ==
    ASSUME NEW n \in Nat, NEW Good, 0 \in Good, \A i \in 1 .. n : i - 1 \in Good => i \in Good
    PROVE  \A i \in 0 .. n : i \in Good
<1> DEFINE Bad == {i \in 0 .. n : i \notin Good}
<1> SUFFICES ASSUME Bad # {} PROVE FALSE
  OBVIOUS
<1>1. Bad \in SUBSET Nat
  OBVIOUS
<1> HIDE DEF Bad
<1>2. PICK i \in Bad : \A j \in Bad : i <= j
  BY <1>1, LeastNumber
<1>3. i \in 0 .. n /\ i \notin Good
  BY DEF Bad
<1>4. i \in 1 .. n /\ i - 1 \in 0 .. n /\ ~ (i <= i - 1)
  BY <1>3
<1>5. i - 1 \in Good
  BY <1>2, <1>4 DEF Bad
<1> QED
  BY <1>3, <1>4, <1>5

\* A value for each step.
Run(V, base, step, n) ==
    {g \in [0 .. n -> V] : g[0] = base /\ \A i \in 1 .. n : g[i] = step[<<i, g[i - 1]>>]}

\* Whatever is made step by step exists.
LEMMA StepByStep ==
    ASSUME NEW n \in Nat, NEW V, NEW base \in V, NEW step,
           \A i \in 1 .. n, v \in V : step[<<i, v>>] \in V
    PROVE  \E g : g \in Run(V, base, step, n)
<1> DEFINE Good == {m \in 0 .. n : Run(V, base, step, m) # {}}
<1>1. 0 \in Good
  <2>1. [i \in 0 .. 0 |-> base] \in Run(V, base, step, 0)
    BY DEF Run
  <2> QED
    BY <2>1
<1>2. ASSUME NEW m \in 1 .. n, m - 1 \in Good PROVE m \in Good
  <2>1. PICK g : g \in Run(V, base, step, m - 1)
    BY <1>2
  <2>2. /\ g \in [0 .. m - 1 -> V] /\ g[0] = base
        /\ \A i \in 1 .. m - 1 : g[i] = step[<<i, g[i - 1]>>]
    BY <2>1 DEF Run
  <2> DEFINE h == [i \in 0 .. m |-> IF i = m THEN step[<<m, g[m - 1]>>] ELSE g[i]]
  <2>3. h \in [0 .. m -> V] /\ h[0] = base
    BY <2>2
  <2>4. ASSUME NEW i \in 1 .. m PROVE h[i] = step[<<i, h[i - 1]>>]
    <3>1. i - 1 \in 0 .. m /\ i - 1 # m /\ i \in 0 .. m /\ (i # m => i \in 1 .. m - 1)
      OBVIOUS
    <3> QED
      BY <2>2, <3>1
  <2> HIDE DEF h
  <2>5. h \in Run(V, base, step, m)
    BY <2>3, <2>4 DEF Run
  <2> QED
    BY <2>5
<1> HIDE DEF Good
<1>3. n \in Good
  BY <1>1, <1>2, StepsHold
<1> QED
  BY <1>3 DEF Good

-----------------------------------------------------------------------------
(* What a task finds at a vertex *)

Keys == {key \in Tuples(4) : IsKey(key)}

\* A row that a scan keeps.
Wanted(key, v, direction, relation) ==
    /\ key[1] = v /\ key[2] = direction
    /\ relation = 0 \/ key[3] = relation
    /\ Allowed(key[4])

\* A scan finds the ends of the rows it keeps.
LEMMA ScanFinds ==
    ASSUME keys \in Seq(Keys), NEW v, NEW direction, NEW relation
    PROVE  /\ Scan(v, direction, relation) \in Seq(Vertex)
           /\ ToSet(Scan(v, direction, relation))
                = {key[4] : key \in {k \in ToSet(keys) : Wanted(k, v, direction, relation)}}
<1> DEFINE W(key) == Wanted(key, v, direction, relation)
           n == Len(keys)
           Is(g) == g = [i \in 0 .. n |->
                           IF i = 0 THEN <<>>
                           ELSE IF W(keys[i]) THEN Append(g[i - 1], keys[i][4]) ELSE g[i - 1]]
           ends == CHOOSE g : Is(g)
           step == [p \in (1 .. n) \X Seq(Vertex) |->
                      IF W(keys[p[1]]) THEN Append(p[2], keys[p[1]][4]) ELSE p[2]]
<1>1. Scan(v, direction, relation) = ends[n]
  BY DEF Scan, Wanted
<1>2. /\ n \in Nat /\ DOMAIN keys = 1 .. n
      /\ \A i \in 1 .. n : keys[i] \in Keys /\ keys[i][4] \in Vertex
  BY DEF Keys, IsKey
<1> HIDE DEF W, n
<1>3. ASSUME NEW i \in 1 .. n, NEW s \in Seq(Vertex)
      PROVE  /\ step[<<i, s>>] = IF W(keys[i]) THEN Append(s, keys[i][4]) ELSE s
             /\ step[<<i, s>>] \in Seq(Vertex)
  <2>1. <<i, s>> \in (1 .. n) \X Seq(Vertex) /\ Append(s, keys[i][4]) \in Seq(Vertex)
    BY <1>2
  <2> QED
    BY <2>1
<1> HIDE DEF step
<1>4. \E g : Is(g)
  <2>1. <<>> \in Seq(Vertex)
    OBVIOUS
  <2>2. PICK g : g \in Run(Seq(Vertex), <<>>, step, n)
    BY <1>2, <1>3, <2>1, StepByStep
  <2>3. /\ g \in [0 .. n -> Seq(Vertex)] /\ g[0] = <<>>
        /\ \A i \in 1 .. n : g[i] = step[<<i, g[i - 1]>>]
    BY <2>2 DEF Run
  <2>4. ASSUME NEW i \in 1 .. n
        PROVE  g[i] = IF W(keys[i]) THEN Append(g[i - 1], keys[i][4]) ELSE g[i - 1]
    <3>1. i - 1 \in 0 .. n
      BY <1>2
    <3>2. g[i - 1] \in Seq(Vertex)
      BY <2>3, <3>1
    <3> QED
      BY <1>3, <2>3, <3>2
  <2>5. \A i \in 0 .. n : i = 0 \/ i \in 1 .. n
    BY <1>2
  <2> QED
    BY <2>3, <2>4, <2>5
<1>5. Is(ends)
  <2> HIDE DEF Is
  <2> QED
    BY <1>4
<1> HIDE DEF ends
<1>6. /\ ends[0] = <<>>
      /\ \A i \in 1 .. n : ends[i] = IF W(keys[i]) THEN Append(ends[i - 1], keys[i][4])
                                     ELSE ends[i - 1]
  <2>1. 0 \in 0 .. n /\ \A i \in 1 .. n : i \in 0 .. n /\ i # 0
    BY <1>2
  <2>2. \A i \in 0 .. n : ends[i] = IF i = 0 THEN <<>>
                                    ELSE IF W(keys[i]) THEN Append(ends[i - 1], keys[i][4])
                                    ELSE ends[i - 1]
    BY <1>5
  <2> QED
    BY <2>1, <2>2
<1> HIDE DEF Is
<1> DEFINE EndsTo(m) == {keys[j][4] : j \in {x \in 1 .. m : W(keys[x])}}
           Good == {i \in 0 .. n : ends[i] \in Seq(Vertex) /\ ToSet(ends[i]) = EndsTo(i)}
<1>7. 0 \in Good
  <2>1. <<>> \in Seq(Vertex) /\ EndsTo(0) = {} /\ 0 \in 0 .. n
    BY <1>2
  <2>2. ToSet(<<>>) = {}
    BY DEF ToSet
  <2> QED
    BY <1>6, <2>1, <2>2
<1>8. ASSUME NEW i \in 1 .. n, i - 1 \in Good PROVE i \in Good
  <2>1. ends[i - 1] \in Seq(Vertex) /\ ToSet(ends[i - 1]) = EndsTo(i - 1) /\ i \in 0 .. n
    BY <1>2, <1>8
  <2>2. 1 .. i = (1 .. i - 1) \cup {i}
    BY <1>2
  <2>3. EndsTo(i) = IF W(keys[i]) THEN EndsTo(i - 1) \cup {keys[i][4]} ELSE EndsTo(i - 1)
    BY <2>2
  <2>4. /\ Append(ends[i - 1], keys[i][4]) \in Seq(Vertex)
        /\ ToSet(Append(ends[i - 1], keys[i][4])) = ToSet(ends[i - 1]) \cup {keys[i][4]}
    BY <1>2, <2>1, Elements
  <2> HIDE DEF EndsTo
  <2> QED
    BY <1>6, <2>1, <2>3, <2>4
<1> HIDE DEF Good, EndsTo
<1>9. n \in Good
  <2>1. \A i \in 0 .. n : i \in Good
    BY <1>2, <1>7, <1>8, StepsHold
  <2> QED
    BY <1>2, <2>1
<1>10. ends[n] \in Seq(Vertex) /\ ToSet(ends[n]) = EndsTo(n)
  BY <1>9 DEF Good
<1>11. EndsTo(n) = {key[4] : key \in {k \in ToSet(keys) : Wanted(k, v, direction, relation)}}
  BY <1>2 DEF W, ToSet, EndsTo
<1> QED
  BY <1>1, <1>10, <1>11

\* Pieces that are put together one by one.
Concats(g, piece, n) == g[0] = <<>> /\ \A i \in 1 .. n : g[i] = g[i - 1] \o piece[i]

\* There is such a sequence ...
LEMMA ConcatExists ==
    ASSUME NEW n \in Nat, NEW piece, \A i \in 1 .. n : piece[i] \in Seq(Vertex)
    PROVE  \E g \in [0 .. n -> Seq(Vertex)] : Concats(g, piece, n)
<1> DEFINE step == [p \in (1 .. n) \X Seq(Vertex) |-> p[2] \o piece[p[1]]]
<1>1. ASSUME NEW i \in 1 .. n, NEW s \in Seq(Vertex)
      PROVE  step[<<i, s>>] = s \o piece[i] /\ step[<<i, s>>] \in Seq(Vertex)
  <2>1. <<i, s>> \in (1 .. n) \X Seq(Vertex) /\ s \o piece[i] \in Seq(Vertex)
    BY Elements
  <2> QED
    BY <2>1
<1> HIDE DEF step
<1>2. <<>> \in Seq(Vertex)
  OBVIOUS
<1>3. PICK g : g \in Run(Seq(Vertex), <<>>, step, n)
  BY <1>1, <1>2, StepByStep
<1>4. /\ g \in [0 .. n -> Seq(Vertex)] /\ g[0] = <<>>
      /\ \A i \in 1 .. n : g[i] = step[<<i, g[i - 1]>>]
  BY <1>3 DEF Run
<1>5. ASSUME NEW i \in 1 .. n PROVE g[i] = g[i - 1] \o piece[i]
  <2>1. i - 1 \in 0 .. n
    OBVIOUS
  <2>2. g[i - 1] \in Seq(Vertex)
    BY <1>4, <2>1
  <2> QED
    BY <1>1, <1>4, <2>2
<1> QED
  BY <1>4, <1>5 DEF Concats

\* ... and it has the elements of the pieces.
LEMMA ConcatHas ==
    ASSUME NEW n \in Nat, NEW piece, \A i \in 1 .. n : piece[i] \in Seq(Vertex),
           NEW g, Concats(g, piece, n)
    PROVE  g[n] \in Seq(Vertex) /\ ToSet(g[n]) = UNION {ToSet(piece[i]) : i \in 1 .. n}
<1> DEFINE All(m) == UNION {ToSet(piece[i]) : i \in 1 .. m}
           Good == {i \in 0 .. n : g[i] \in Seq(Vertex) /\ ToSet(g[i]) = All(i)}
<1>1. 0 \in Good
  <2>1. <<>> \in Seq(Vertex) /\ All(0) = {} /\ 0 \in 0 .. n
    OBVIOUS
  <2>2. ToSet(<<>>) = {}
    BY DEF ToSet
  <2> QED
    BY <2>1, <2>2 DEF Concats
<1>2. ASSUME NEW i \in 1 .. n, i - 1 \in Good PROVE i \in Good
  <2>1. g[i - 1] \in Seq(Vertex) /\ ToSet(g[i - 1]) = All(i - 1) /\ i \in 0 .. n
    BY <1>2
  <2>2. 1 .. i = (1 .. i - 1) \cup {i}
    OBVIOUS
  <2>3. All(i) = All(i - 1) \cup ToSet(piece[i])
    BY <2>2
  <2>4. /\ g[i - 1] \o piece[i] \in Seq(Vertex)
        /\ ToSet(g[i - 1] \o piece[i]) = ToSet(g[i - 1]) \cup ToSet(piece[i])
    BY <2>1, Elements
  <2>5. g[i] = g[i - 1] \o piece[i]
    BY DEF Concats
  <2> HIDE DEF All
  <2> QED
    BY <2>1, <2>3, <2>4, <2>5
<1> HIDE DEF Good, All
<1>3. n \in Good
  <2>1. \A i \in 0 .. n : i \in Good
    BY <1>1, <1>2, StepsHold
  <2> QED
    BY <2>1
<1> QED
  BY <1>3 DEF Good, All

\* The relations of a query, 0 for any.
Relations == IF query.r_labels = <<>> THEN <<0>> ELSE query.r_labels

\* A row that some scan of a direction keeps.
LEMMA ReadsFind ==
    ASSUME keys \in Seq(Keys), query \in Queries, NEW v, NEW direction
    PROVE  /\ Reads(v, direction) \in Seq(Vertex)
           /\ ToSet(Reads(v, direction))
                = {key[4] : key \in {k \in ToSet(keys) :
                      \E i \in 1 .. Len(Relations) : Wanted(k, v, direction, Relations[i])}}
<1> DEFINE n == Len(Relations)
           piece == [i \in 1 .. n |-> Scan(v, direction, Relations[i])]
           Is(g) == g = [i \in 0 .. n |->
                           IF i = 0 THEN <<>> ELSE g[i - 1] \o Scan(v, direction, Relations[i])]
           reads == CHOOSE g : Is(g)
<1>1. Reads(v, direction) = reads[n]
  BY DEF Reads, Relations
<1>2. n \in Nat
  <2>1. query.r_labels \in Seq(Nat \ {0}) /\ Len(<<0>>) = 1
    BY QueryAssumption
  <2> QED
    BY <2>1 DEF Relations
<1> HIDE DEF n
<1>3. \A i \in 1 .. n : piece[i] = Scan(v, direction, Relations[i]) /\ piece[i] \in Seq(Vertex)
  BY ScanFinds
<1> HIDE DEF piece
<1>4. \E g : Is(g)
  <2>1. PICK g \in [0 .. n -> Seq(Vertex)] : Concats(g, piece, n)
    BY <1>2, <1>3, ConcatExists
  <2>2. \A i \in 0 .. n : i = 0 \/ i \in 1 .. n
    BY <1>2
  <2>3. \A i \in 0 .. n : g[i] = IF i = 0 THEN <<>> ELSE g[i - 1] \o Scan(v, direction, Relations[i])
    BY <1>3, <2>1, <2>2 DEF Concats
  <2> QED
    BY <2>1, <2>3
<1>5. Is(reads)
  <2> HIDE DEF Is
  <2> QED
    BY <1>4
<1> HIDE DEF reads
<1>6. Concats(reads, piece, n)
  <2>1. 0 \in 0 .. n /\ \A i \in 1 .. n : i \in 0 .. n /\ i # 0
    BY <1>2
  <2>2. \A i \in 0 .. n : reads[i] = IF i = 0 THEN <<>>
                                     ELSE reads[i - 1] \o Scan(v, direction, Relations[i])
    BY <1>5
  <2> QED
    BY <1>3, <2>1, <2>2 DEF Concats
<1> HIDE DEF Is
<1>7. reads[n] \in Seq(Vertex) /\ ToSet(reads[n]) = UNION {ToSet(piece[i]) : i \in 1 .. n}
  BY <1>2, <1>3, <1>6, ConcatHas
<1>8. \A i \in 1 .. n :
         ToSet(piece[i]) = {key[4] : key \in {k \in ToSet(keys) : Wanted(k, v, direction, Relations[i])}}
  BY <1>3, ScanFinds
<1>9. UNION {ToSet(piece[i]) : i \in 1 .. n}
        = {key[4] : key \in {k \in ToSet(keys) :
              \E i \in 1 .. n : Wanted(k, v, direction, Relations[i])}}
  <2> DEFINE W(k, i) == Wanted(k, v, direction, Relations[i])
             Kept == {k \in ToSet(keys) : \E i \in 1 .. n : W(k, i)}
             EndsOf(i) == {key[4] : key \in {k \in ToSet(keys) : W(k, i)}}
  <2>1. \A i \in 1 .. n : ToSet(piece[i]) = EndsOf(i)
    BY <1>8
  <2> HIDE DEF W
  <2>2. UNION {EndsOf(i) : i \in 1 .. n} = {key[4] : key \in Kept}
    OBVIOUS
  <2>3. {ToSet(piece[i]) : i \in 1 .. n} = {EndsOf(i) : i \in 1 .. n}
    BY <2>1
  <2> QED
    BY <2>2, <2>3 DEF W
<1> QED
  BY <1>1, <1>7, <1>9 DEF n

\* A row of an edge at v that the query follows.
LEMMA ScansFind ==
    ASSUME keys \in Seq(Keys), query \in Queries, NEW v
    PROVE  /\ Scans(v) \in Seq(Vertex)
           /\ ToSet(Scans(v)) = {key[4] : key \in {k \in ToSet(keys) : k[1] = v /\ Followed(k)}}
<1> DEFINE n == Len(Directions)
           piece == [i \in 1 .. n |-> Reads(v, Directions[i])]
           Is(g) == g = [i \in 0 .. n |->
                           IF i = 0 THEN <<>> ELSE g[i - 1] \o Reads(v, Directions[i])]
           scans == CHOOSE g : Is(g)
<1>1. Scans(v) = scans[n]
  BY DEF Scans
<1>2. n \in Nat /\ DOMAIN Directions = 1 .. n
  <2>1. /\ Directions = <<INCOMING>> \/ Directions = <<OUTGOING>> \/ Directions = <<INCOMING, OUTGOING>>
    BY DEF Directions
  <2> QED
    BY <2>1
<1> HIDE DEF n
<1>3. \A i \in 1 .. n : piece[i] = Reads(v, Directions[i]) /\ piece[i] \in Seq(Vertex)
  BY ReadsFind
<1> HIDE DEF piece
<1>4. \E g : Is(g)
  <2>1. PICK g \in [0 .. n -> Seq(Vertex)] : Concats(g, piece, n)
    BY <1>2, <1>3, ConcatExists
  <2>2. \A i \in 0 .. n : i = 0 \/ i \in 1 .. n
    BY <1>2
  <2>3. \A i \in 0 .. n : g[i] = IF i = 0 THEN <<>> ELSE g[i - 1] \o Reads(v, Directions[i])
    BY <1>3, <2>1, <2>2 DEF Concats
  <2> QED
    BY <2>1, <2>3
<1>5. Is(scans)
  <2> HIDE DEF Is
  <2> QED
    BY <1>4
<1> HIDE DEF scans
<1>6. Concats(scans, piece, n)
  <2>1. 0 \in 0 .. n /\ \A i \in 1 .. n : i \in 0 .. n /\ i # 0
    BY <1>2
  <2>2. \A i \in 0 .. n : scans[i] = IF i = 0 THEN <<>> ELSE scans[i - 1] \o Reads(v, Directions[i])
    BY <1>5
  <2> QED
    BY <1>3, <2>1, <2>2 DEF Concats
<1> HIDE DEF Is
<1>7. scans[n] \in Seq(Vertex) /\ ToSet(scans[n]) = UNION {ToSet(piece[i]) : i \in 1 .. n}
  BY <1>2, <1>3, <1>6, ConcatHas
<1> DEFINE W(k, i) == \E j \in 1 .. Len(Relations) : Wanted(k, v, Directions[i], Relations[j])
           Kept == {k \in ToSet(keys) : \E i \in 1 .. n : W(k, i)}
           EndsOf(i) == {key[4] : key \in {k \in ToSet(keys) : W(k, i)}}
<1>8. \A i \in 1 .. n : ToSet(piece[i]) = EndsOf(i)
  BY <1>3, ReadsFind
<1>9. ASSUME NEW k \in ToSet(keys)
      PROVE  (\E i \in 1 .. n : W(k, i)) <=> k[1] = v /\ Followed(k)
  <2>1. (\E i \in 1 .. n : k[2] = Directions[i]) <=> k[2] \in ToSet(Directions)
    BY <1>2 DEF ToSet
  <2>2. (\E j \in 1 .. Len(Relations) : Relations[j] = 0 \/ k[3] = Relations[j])
           <=> query.r_labels = <<>> \/ k[3] \in ToSet(query.r_labels)
    <3>1. CASE query.r_labels = <<>>
      <4>1. Relations = <<0>>
        BY <3>1 DEF Relations
      <4>2. 1 \in 1 .. Len(Relations) /\ Relations[1] = 0
        BY <4>1
      <4> QED
        BY <3>1, <4>2
    <3>2. CASE query.r_labels # <<>>
      <4>1. Relations = query.r_labels /\ query.r_labels \in Seq(Nat \ {0})
        BY <3>2, QueryAssumption DEF Relations
      <4>2. \A j \in 1 .. Len(Relations) : Relations[j] # 0
        BY <4>1
      <4>3. DOMAIN query.r_labels = 1 .. Len(Relations)
        BY <4>1
      <4> QED
        BY <3>2, <4>1, <4>2, <4>3 DEF ToSet
    <3> QED
      BY <3>1, <3>2
  <2> QED
    BY <2>1, <2>2 DEF Wanted, Followed
<1> HIDE DEF W
<1>10. UNION {EndsOf(i) : i \in 1 .. n} = {key[4] : key \in Kept}
  OBVIOUS
<1>11. {ToSet(piece[i]) : i \in 1 .. n} = {EndsOf(i) : i \in 1 .. n}
  BY <1>8
<1>12. Kept = {k \in ToSet(keys) : k[1] = v /\ Followed(k)}
  BY <1>9
<1> QED
  BY <1>1, <1>7, <1>10, <1>11, <1>12

\* Leaving out later occurrences of v leaves its ends.
LEMMA EndsFind ==
    ASSUME keys \in Seq(Keys), query \in Queries, NEW v
    PROVE  /\ Ends(v) \in Seq(Vertex)
           /\ ToSet(Ends(v)) = {key[4] : key \in {k \in ToSet(keys) : k[1] = v /\ Followed(k)}}
<1> DEFINE scans == Scans(v)
           n == Len(scans)
           Again(i) == scans[i] = v /\ \E j \in 1 .. i - 1 : scans[j] = v
           Is(g) == g = [i \in 0 .. n |->
                           IF i = 0 THEN <<>>
                           ELSE IF Again(i) THEN g[i - 1] ELSE Append(g[i - 1], scans[i])]
           ends == CHOOSE g : Is(g)
           step == [p \in (1 .. n) \X Seq(Vertex) |->
                      IF Again(p[1]) THEN p[2] ELSE Append(p[2], scans[p[1]])]
<1>1. Ends(v) = ends[n]
  BY DEF Ends
<1>2. /\ scans \in Seq(Vertex)
      /\ ToSet(scans) = {key[4] : key \in {k \in ToSet(keys) : k[1] = v /\ Followed(k)}}
  BY ScansFind
<1> HIDE DEF scans
<1>3. n \in Nat /\ DOMAIN scans = 1 .. n /\ \A i \in 1 .. n : scans[i] \in Vertex
  BY <1>2
<1> HIDE DEF n, Again
<1>4. ASSUME NEW i \in 1 .. n, NEW s \in Seq(Vertex)
      PROVE  /\ step[<<i, s>>] = IF Again(i) THEN s ELSE Append(s, scans[i])
             /\ step[<<i, s>>] \in Seq(Vertex)
  <2>1. <<i, s>> \in (1 .. n) \X Seq(Vertex) /\ Append(s, scans[i]) \in Seq(Vertex)
    BY <1>3
  <2> QED
    BY <2>1
<1> HIDE DEF step
<1>5. \E g : Is(g)
  <2>1. <<>> \in Seq(Vertex)
    OBVIOUS
  <2>2. PICK g : g \in Run(Seq(Vertex), <<>>, step, n)
    BY <1>3, <1>4, <2>1, StepByStep
  <2>3. /\ g \in [0 .. n -> Seq(Vertex)] /\ g[0] = <<>>
        /\ \A i \in 1 .. n : g[i] = step[<<i, g[i - 1]>>]
    BY <2>2 DEF Run
  <2>4. ASSUME NEW i \in 1 .. n
        PROVE  g[i] = IF Again(i) THEN g[i - 1] ELSE Append(g[i - 1], scans[i])
    <3>1. i - 1 \in 0 .. n
      BY <1>3
    <3>2. g[i - 1] \in Seq(Vertex)
      BY <2>3, <3>1
    <3> QED
      BY <1>4, <2>3, <3>2
  <2>5. \A i \in 0 .. n : i = 0 \/ i \in 1 .. n
    BY <1>3
  <2> QED
    BY <2>3, <2>4, <2>5
<1>6. Is(ends)
  <2> HIDE DEF Is
  <2> QED
    BY <1>5
<1> HIDE DEF ends
<1>7. /\ ends[0] = <<>>
      /\ \A i \in 1 .. n : ends[i] = IF Again(i) THEN ends[i - 1] ELSE Append(ends[i - 1], scans[i])
  <2>1. 0 \in 0 .. n /\ \A i \in 1 .. n : i \in 0 .. n /\ i # 0
    BY <1>3
  <2>2. \A i \in 0 .. n : ends[i] = IF i = 0 THEN <<>>
                                    ELSE IF Again(i) THEN ends[i - 1]
                                    ELSE Append(ends[i - 1], scans[i])
    BY <1>6
  <2> QED
    BY <2>1, <2>2
<1> HIDE DEF Is
<1> DEFINE EndsTo(m) == {scans[j] : j \in 1 .. m}
           Good == {i \in 0 .. n : ends[i] \in Seq(Vertex) /\ ToSet(ends[i]) = EndsTo(i)}
<1>8. 0 \in Good
  <2>1. <<>> \in Seq(Vertex) /\ EndsTo(0) = {} /\ 0 \in 0 .. n
    BY <1>3
  <2>2. ToSet(<<>>) = {}
    BY DEF ToSet
  <2> QED
    BY <1>7, <2>1, <2>2
<1>9. ASSUME NEW i \in 1 .. n, i - 1 \in Good PROVE i \in Good
  <2>1. ends[i - 1] \in Seq(Vertex) /\ ToSet(ends[i - 1]) = EndsTo(i - 1) /\ i \in 0 .. n
    BY <1>3, <1>9
  <2>2. 1 .. i = (1 .. i - 1) \cup {i}
    BY <1>3
  <2>3. EndsTo(i) = EndsTo(i - 1) \cup {scans[i]}
    BY <2>2
  <2>4. Again(i) => scans[i] \in EndsTo(i - 1)
    BY DEF Again
  <2>5. /\ Append(ends[i - 1], scans[i]) \in Seq(Vertex)
        /\ ToSet(Append(ends[i - 1], scans[i])) = ToSet(ends[i - 1]) \cup {scans[i]}
    BY <1>3, <2>1, Elements
  <2> HIDE DEF EndsTo
  <2> QED
    BY <1>7, <2>1, <2>3, <2>4, <2>5
<1> HIDE DEF Good, EndsTo
<1>10. n \in Good
  <2>1. \A i \in 0 .. n : i \in Good
    BY <1>3, <1>8, <1>9, StepsHold
  <2> QED
    BY <1>3, <2>1
<1>11. ends[n] \in Seq(Vertex) /\ ToSet(ends[n]) = EndsTo(n)
  BY <1>10 DEF Good
<1>12. EndsTo(n) = ToSet(scans)
  BY <1>3 DEF ToSet, EndsTo
<1> QED
  BY <1>1, <1>2, <1>11, <1>12

\* The table of a vertex.
LEMMA HomeIsTable ==
    ASSUME NEW v \in Vertex
    PROVE  v % HashTables \in Table
  BY VertexAssumption, SizeAssumption DEF Table

\* What a task has found goes to the tables of the vertices.
LEMMA HashedHas ==
    ASSUME NEW found \in [Table -> Seq(Vertex)], NEW list \in Seq(Vertex)
    PROVE  /\ Hashed(found, list) \in [Table -> Seq(Vertex)]
           /\ \A h \in Table :
                 ToSet(Hashed(found, list)[h])
                   = ToSet(found[h]) \cup {v \in ToSet(list) : v % HashTables = h}
<1> DEFINE V == [Table -> Seq(Vertex)]
           n == Len(list)
           Put(f, v) == [f EXCEPT ![v % HashTables] = Append(@, v)]
           Is(g) == g = [i \in 0 .. n |-> IF i = 0 THEN found ELSE Put(g[i - 1], list[i])]
           hashed == CHOOSE g : Is(g)
           step == [p \in (1 .. n) \X V |-> Put(p[2], list[p[1]])]
<1>1. Hashed(found, list) = hashed[n]
  BY DEF Hashed
<1>2. n \in Nat /\ DOMAIN list = 1 .. n /\ \A i \in 1 .. n : list[i] \in Vertex
  OBVIOUS
<1>3. ASSUME NEW f \in V, NEW v \in Vertex
      PROVE  /\ Put(f, v) \in V
             /\ \A h \in Table : Put(f, v)[h] = IF h = v % HashTables THEN Append(f[h], v) ELSE f[h]
  <2>1. v % HashTables \in Table
    BY HomeIsTable
  <2>2. Append(f[v % HashTables], v) \in Seq(Vertex)
    BY <2>1
  <2> QED
    BY <2>1, <2>2
<1> HIDE DEF n, Put
<1>4. ASSUME NEW i \in 1 .. n, NEW f \in V
      PROVE  step[<<i, f>>] = Put(f, list[i]) /\ step[<<i, f>>] \in V
  <2>1. <<i, f>> \in (1 .. n) \X V
    OBVIOUS
  <2>2. Put(f, list[i]) \in V
    BY <1>2, <1>3
  <2> QED
    BY <2>1, <2>2
<1> HIDE DEF step
<1>5. \E g : Is(g) /\ g \in [0 .. n -> V]
  <2>1. found \in V
    OBVIOUS
  <2> HIDE DEF V
  <2>2. PICK g : g \in Run(V, found, step, n)
    BY <1>2, <1>4, <2>1, StepByStep
  <2>3. /\ g \in [0 .. n -> V] /\ g[0] = found
        /\ \A i \in 1 .. n : g[i] = step[<<i, g[i - 1]>>]
    BY <2>2 DEF Run
  <2>4. ASSUME NEW i \in 1 .. n PROVE g[i] = Put(g[i - 1], list[i])
    <3>1. i - 1 \in 0 .. n
      BY <1>2
    <3>2. g[i - 1] \in V
      BY <2>3, <3>1
    <3> QED
      BY <1>4, <2>3, <3>2
  <2>5. \A i \in 0 .. n : i = 0 \/ i \in 1 .. n
    BY <1>2
  <2> QED
    BY <2>3, <2>4, <2>5
<1>6. Is(hashed)
  <2> HIDE DEF Is
  <2> QED
    BY <1>5
<1> HIDE DEF hashed
<1>7. hashed[0] = found /\ \A i \in 1 .. n : hashed[i] = Put(hashed[i - 1], list[i])
  <2>1. 0 \in 0 .. n /\ \A i \in 1 .. n : i \in 0 .. n /\ i # 0
    BY <1>2
  <2>2. \A i \in 0 .. n : hashed[i] = IF i = 0 THEN found ELSE Put(hashed[i - 1], list[i])
    BY <1>6
  <2> QED
    BY <2>1, <2>2
<1> HIDE DEF Is
<1> DEFINE Of(m, h) == {list[j] : j \in {x \in 1 .. m : list[x] % HashTables = h}}
           Has(f, m) == \A h \in Table : ToSet(f[h]) = ToSet(found[h]) \cup Of(m, h)
           Good == {i \in 0 .. n : hashed[i] \in V /\ Has(hashed[i], i)}
<1>8. 0 \in Good
  <2>1. 0 \in 0 .. n /\ \A h \in Table : Of(0, h) = {}
    BY <1>2
  <2> HIDE DEF Of
  <2> QED
    BY <1>7, <2>1
<1>9. ASSUME NEW i \in 1 .. n, i - 1 \in Good PROVE i \in Good
  <2>1. hashed[i - 1] \in V /\ Has(hashed[i - 1], i - 1) /\ i \in 0 .. n /\ list[i] \in Vertex
    <3> HIDE DEF V, Has, Of
    <3> QED
      BY <1>2, <1>9
  <2> DEFINE f == hashed[i - 1]
  <2>2. 1 .. i = (1 .. i - 1) \cup {i}
    BY <1>2
  <2>3. \A h \in Table : Of(i, h) = IF h = list[i] % HashTables THEN Of(i - 1, h) \cup {list[i]}
                                    ELSE Of(i - 1, h)
    BY <2>2
  <2>4. /\ hashed[i] \in V
        /\ \A h \in Table : hashed[i][h] = IF h = list[i] % HashTables THEN Append(f[h], list[i]) ELSE f[h]
    <3>1. f \in V /\ hashed[i] = Put(f, list[i])
      BY <1>7, <2>1
    <3> HIDE DEF V, f, Has, Of, Good
    <3>2. /\ Put(f, list[i]) \in V
          /\ \A h \in Table : Put(f, list[i])[h] = IF h = list[i] % HashTables THEN Append(f[h], list[i])
                                                   ELSE f[h]
      BY <1>3, <2>1, <3>1
    <3> QED
      BY <3>1, <3>2
  <2>5. \A h \in Table : ToSet(Append(f[h], list[i])) = ToSet(f[h]) \cup {list[i]}
    <3> SUFFICES ASSUME NEW h \in Table PROVE ToSet(Append(f[h], list[i])) = ToSet(f[h]) \cup {list[i]}
      OBVIOUS
    <3>1. f[h] \in Seq(Vertex)
      BY <2>1
    <3> QED
      BY <2>1, <3>1, Elements
  <2> HIDE DEF Of, f, V
  <2>6. Has(hashed[i], i)
    <3> SUFFICES ASSUME NEW h \in Table PROVE ToSet(hashed[i][h]) = ToSet(found[h]) \cup Of(i, h)
      OBVIOUS
    <3>1. ToSet(f[h]) = ToSet(found[h]) \cup Of(i - 1, h)
      BY <2>1 DEF f
    <3> QED
      BY <2>3, <2>4, <2>5, <3>1
  <2> QED
    BY <2>1, <2>4, <2>6
<1> HIDE DEF Good, Of
<1>10. n \in Good
  <2>1. \A i \in 0 .. n : i \in Good
    BY <1>2, <1>8, <1>9, StepsHold
  <2> QED
    BY <1>2, <2>1
<1>11. hashed[n] \in V /\ Has(hashed[n], n)
  BY <1>10 DEF Good
<1>12. \A h \in Table : Of(n, h) = {v \in ToSet(list) : v % HashTables = h}
  BY <1>2 DEF ToSet, Of
<1> QED
  BY <1>1, <1>11, <1>12

-----------------------------------------------------------------------------
(* The vertices within some steps *)

\* What is joined to vertices are vertices.
LEMMA NextAreVertices ==
    ASSUME keys \in Seq(Keys), NEW S \in SUBSET Vertex
    PROVE  S \subseteq NextTo(S) /\ NextTo(S) \in SUBSET Vertex
<1>1. \A key \in ToSet(keys) : key[4] \in Vertex
  <2>1. ToSet(keys) \subseteq Keys
    BY Elements
  <2> QED
    BY <2>1 DEF Keys, IsKey
<1> QED
  BY <1>1 DEF NextTo

\* The recursion that gives the ball.
IsBalls(g, n) == g = [i \in 0 .. n |-> IF i = 0 THEN Roots ELSE NextTo(g[i - 1])]

\* It has a solution ...
LEMMA BallsExist ==
    ASSUME keys \in Seq(Keys), query \in Queries, NEW n \in Nat
    PROVE  /\ \E g \in [0 .. n -> SUBSET Vertex] : IsBalls(g, n)
           /\ \E g : IsBalls(g, n) /\ Ball(n) = g[n]
<1> DEFINE V == SUBSET Vertex
           step == [p \in (1 .. n) \X V |-> NextTo(p[2])]
<1>1. Roots \in V
  <2>1. query.vertex_id_list \in Seq(Vertex)
    BY QueryAssumption
  <2> QED
    BY <2>1, Elements DEF Roots
<1>2. ASSUME NEW i \in 1 .. n, NEW S \in V
      PROVE  step[<<i, S>>] = NextTo(S) /\ step[<<i, S>>] \in V
  <2>1. <<i, S>> \in (1 .. n) \X V
    OBVIOUS
  <2>2. NextTo(S) \in V
    BY NextAreVertices
  <2> QED
    BY <2>1, <2>2
<1> HIDE DEF step
<1>3. \E g \in [0 .. n -> V] : IsBalls(g, n)
  <2> HIDE DEF V
  <2>1. PICK g : g \in Run(V, Roots, step, n)
    BY <1>1, <1>2, StepByStep
  <2>2. /\ g \in [0 .. n -> V] /\ g[0] = Roots
        /\ \A i \in 1 .. n : g[i] = step[<<i, g[i - 1]>>]
    BY <2>1 DEF Run
  <2>3. ASSUME NEW i \in 1 .. n PROVE g[i] = NextTo(g[i - 1])
    <3>1. i - 1 \in 0 .. n
      OBVIOUS
    <3>2. g[i - 1] \in V
      BY <2>2, <3>1
    <3> QED
      BY <1>2, <2>2, <3>2
  <2>4. \A i \in 0 .. n : i = 0 \/ i \in 1 .. n
    OBVIOUS
  <2> QED
    BY <2>2, <2>3, <2>4 DEF IsBalls
<1>4. \E g : IsBalls(g, n) /\ Ball(n) = g[n]
  <2> DEFINE ball == CHOOSE g : g = [i \in 0 .. n |-> IF i = 0 THEN Roots ELSE NextTo(g[i - 1])]
  <2>1. Ball(n) = ball[n]
    BY DEF Ball
  <2>2. \E g : g = [i \in 0 .. n |-> IF i = 0 THEN Roots ELSE NextTo(g[i - 1])]
    BY <1>3 DEF IsBalls
  <2>3. ball = [i \in 0 .. n |-> IF i = 0 THEN Roots ELSE NextTo(ball[i - 1])]
    BY <2>2
  <2> HIDE DEF ball
  <2> QED
    BY <2>1, <2>3 DEF IsBalls
<1> QED
  BY <1>3, <1>4

\* ... and one only.
LEMMA BallsAgree ==
    ASSUME NEW n \in Nat, NEW m \in Nat, n <= m, NEW g, NEW f, IsBalls(g, n), IsBalls(f, m)
    PROVE  g[n] = f[n]
<1> DEFINE Good == {i \in 0 .. n : g[i] = f[i]}
<1>1. /\ \A i \in 0 .. n : g[i] = IF i = 0 THEN Roots ELSE NextTo(g[i - 1])
      /\ \A i \in 0 .. n : f[i] = IF i = 0 THEN Roots ELSE NextTo(f[i - 1])
  <2>1. \A i \in 0 .. n : i \in 0 .. m
    OBVIOUS
  <2> QED
    BY <2>1 DEF IsBalls
<1>2. 0 \in Good
  BY <1>1
<1>3. ASSUME NEW i \in 1 .. n, i - 1 \in Good PROVE i \in Good
  <2>1. g[i - 1] = f[i - 1] /\ i \in 0 .. n /\ i # 0
    BY <1>3
  <2>2. g[i] = NextTo(g[i - 1]) /\ f[i] = NextTo(f[i - 1])
    BY <1>1, <2>1
  <2> QED
    BY <2>1, <2>2
<1> HIDE DEF Good
<1>4. n \in Good
  <2>1. \A i \in 0 .. n : i \in Good
    BY <1>2, <1>3, StepsHold
  <2> QED
    BY <2>1
<1> QED
  BY <1>4 DEF Good

\* A ball is the one with a step less and what is joined to that.
LEMMA BallSteps ==
    ASSUME keys \in Seq(Keys), query \in Queries
    PROVE  /\ Ball(0) = Roots
           /\ \A n \in Nat : Ball(n) \in SUBSET Vertex /\ Ball(n + 1) = NextTo(Ball(n))
<1>1. Ball(0) = Roots
  <2>1. PICK g : IsBalls(g, 0) /\ Ball(0) = g[0]
    BY BallsExist
  <2>2. 0 \in 0 .. 0
    OBVIOUS
  <2> QED
    BY <2>1, <2>2 DEF IsBalls
<1>2. ASSUME NEW n \in Nat PROVE Ball(n) \in SUBSET Vertex /\ Ball(n + 1) = NextTo(Ball(n))
  <2>1. PICK g : IsBalls(g, n) /\ Ball(n) = g[n]
    BY BallsExist
  <2>2. PICK f : IsBalls(f, n + 1) /\ Ball(n + 1) = f[n + 1]
    <3>1. n + 1 \in Nat
      OBVIOUS
    <3> QED
      BY <3>1, BallsExist
  <2>3. PICK e \in [0 .. n -> SUBSET Vertex] : IsBalls(e, n)
    BY BallsExist
  <2>4. n <= n + 1 /\ n + 1 \in Nat /\ n <= n
    OBVIOUS
  <2>5. g[n] = f[n]
    BY <2>1, <2>2, <2>4, BallsAgree
  <2>6. g[n] = e[n]
    BY <2>1, <2>3, <2>4, BallsAgree
  <2>7. n + 1 \in 0 .. n + 1 /\ n + 1 # 0 /\ (n + 1) - 1 = n /\ n \in 0 .. n
    OBVIOUS
  <2>8. f[n + 1] = NextTo(f[n])
    BY <2>2, <2>7 DEF IsBalls
  <2>9. e[n] \in SUBSET Vertex
    BY <2>3, <2>7
  <2> QED
    BY <2>1, <2>2, <2>5, <2>6, <2>8, <2>9
<1> QED
  BY <1>1, <1>2

\* Balls grow.
LEMMA BallsGrow ==
    ASSUME keys \in Seq(Keys), query \in Queries, NEW n \in Nat, NEW m \in 0 .. n
    PROVE  Ball(m) \subseteq Ball(n)
<1> DEFINE Good == {i \in 0 .. n : i >= m => Ball(m) \subseteq Ball(i)}
<1>1. 0 \in Good
  OBVIOUS
<1>2. ASSUME NEW i \in 1 .. n, i - 1 \in Good PROVE i \in Good
  <2>1. i - 1 \in Nat /\ (i - 1) + 1 = i /\ i \in 0 .. n
    OBVIOUS
  <2>2. Ball(i) = NextTo(Ball(i - 1)) /\ Ball(i - 1) \in SUBSET Vertex
    BY <2>1, BallSteps
  <2>3. Ball(i - 1) \subseteq Ball(i)
    BY <2>2, NextAreVertices
  <2>4. i >= m => i = m \/ i - 1 >= m
    OBVIOUS
  <2>5. i - 1 >= m => Ball(m) \subseteq Ball(i - 1)
    BY <1>2
  <2> QED
    BY <2>1, <2>3, <2>4, <2>5
<1> HIDE DEF Good
<1>3. n \in Good
  <2>1. \A i \in 0 .. n : i \in Good
    BY <1>1, <1>2, StepsHold
  <2> QED
    BY <2>1
<1> QED
  BY <1>3 DEF Good

-----------------------------------------------------------------------------
(* Types and locks *)

\* Who is inside the handing over holds one table, and nobody else holds any.
LocksOK ==
    /\ \A h \in Table : hash_table_mu[h] # Nobody => at[hash_table_mu[h]] \in {"insert", "start"}
    /\ \A a \in Actor : at[a] \in {"insert", "start"} => \E h \in Table : hash_table_mu[h] = a
    /\ \A h, g \in Table : hash_table_mu[h] = hash_table_mu[g] /\ h # g => hash_table_mu[h] = Nobody

Base == Inv /\ TypeOK /\ LocksOK

Place == {"idle", "expand", "complete", "insert", "start", "done", "wait", "flush", "returned"}
Task == [vids : Seq(Vertex), found : [Table -> Seq(Vertex)], pending_num : Nat, midway : BOOLEAN]

\* An actor is a pair, so nobody is none.
LEMMA NobodyIsNone == Nobody \notin Actor
<1>1. \A i, j : <<i, j>> # <<>>
  OBVIOUS
<1>2. \A a \in Worker : a = <<a[1], a[2]>>
  BY DEF Worker
<1> QED
  BY <1>1, <1>2 DEF Actor, Main, Nobody

\* The edge table of the invariant, and who acts.
LEMMA TypesSay ==
    ASSUME TypeOK
    PROVE  /\ keys \in Seq(Keys) /\ query \in Queries /\ query.k \in 0 .. MaxLevel
           /\ Main \in Actor /\ \A a \in Actor : LevelOf(a) \in Level /\ LevelOf(a) \in Nat
<1>1. PICK edges \in EdgeSets : keys = EdgeTable(edges)
  BY DEF TypeOK
<1>2. keys \in Seq(Keys)
  BY <1>1, TableOfKeys DEF Keys
<1>3. query \in Queries /\ query.k \in 0 .. MaxLevel
  BY QueryAssumption DEF TypeOK
<1>4. \A a \in Actor : a = Main \/ a \in Worker
  BY DEF Actor
<1> QED
  BY <1>2, <1>3, <1>4, Actors, SizeAssumption DEF Level

\* The table an actor holds.
LEMMA HeldIsHeld ==
    ASSUME LocksOK, NEW a \in Actor, at[a] \in {"insert", "start"}
    PROVE  Held(a) \in Table /\ hash_table_mu[Held(a)] = a
  BY DEF LocksOK, Held

\* The least of a set of tables.
LEMMA LeastTable ==
    ASSUME NEW S \in SUBSET Table, S # {}
    PROVE  Min(S) \in S
<1>1. S \in SUBSET Nat
  BY SizeAssumption DEF Table
<1>2. \E x \in S : \A y \in S : x <= y
  BY <1>1, LeastNumber
<1> QED
  BY <1>2 DEF Min

\* The first of a sequence and the others.
LEMMA HeadAndTail ==
    ASSUME NEW S, NEW q \in Seq(S), q # <<>>
    PROVE  ToSet(q) = {Head(q)} \cup ToSet(Tail(q))
<1> DEFINE r == Tail(q)
<1>1. /\ Len(q) \in Nat \ {0} /\ DOMAIN q = 1 .. Len(q) /\ Head(q) = q[1]
      /\ DOMAIN r = 1 .. Len(q) - 1 /\ \A i \in 1 .. Len(q) - 1 : r[i] = q[i + 1]
  OBVIOUS
<1> HIDE DEF r
<1>2. ASSUME NEW i \in 1 .. Len(q) PROVE q[i] \in {q[1]} \cup ToSet(r)
  <2>1. i = 1 \/ (i - 1 \in 1 .. Len(q) - 1 /\ (i - 1) + 1 = i)
    BY <1>1
  <2> QED
    BY <1>1, <2>1 DEF ToSet
<1>3. ASSUME NEW i \in 1 .. Len(q) - 1 PROVE r[i] \in ToSet(q)
  <2>1. i + 1 \in 1 .. Len(q)
    BY <1>1
  <2> QED
    BY <1>1, <2>1 DEF ToSet
<1>4. q[1] \in ToSet(q)
  <2>1. 1 \in 1 .. Len(q)
    BY <1>1
  <2> QED
    BY <1>1, <2>1 DEF ToSet
<1>5. ToSet(q) \subseteq {q[1]} \cup ToSet(r)
  BY <1>1, <1>2 DEF ToSet
<1>6. ToSet(r) \subseteq ToSet(q)
  BY <1>1, <1>3 DEF ToSet
<1> QED
  BY <1>1, <1>4, <1>5, <1>6 DEF r

\* Nobody enters or leaves the handing over.
LEMMA LocksStay ==
    ASSUME TypeOK, LocksOK, UNCHANGED hash_table_mu,
           \A b \in Actor : at'[b] \in {"insert", "start"} <=> at[b] \in {"insert", "start"}
    PROVE  LocksOK'
<1>1. \A h \in Table : hash_table_mu[h] # Nobody => hash_table_mu[h] \in Actor
  BY DEF TypeOK
<1> QED
  BY <1>1 DEF LocksOK

\* A worker takes the oldest task.
LEMMA TakeTyped ==
    ASSUME Base, NEW a \in Worker, Take(a)
    PROVE  TypeOK' /\ LocksOK'
<1>1. /\ TypeOK /\ LocksOK /\ a \in Actor /\ LevelOf(a) \in Level /\ at[a] = "idle"
      /\ queue[LevelOf(a)] \in Seq(Seq(Vertex)) /\ queue[LevelOf(a)] # <<>>
  BY Actors DEF Base, TypeOK, Take
<1>2. Head(queue[LevelOf(a)]) \in Seq(Vertex) /\ Tail(queue[LevelOf(a)]) \in Seq(Seq(Vertex))
  <2> DEFINE S == Seq(Vertex)
  <2> HIDE DEF S
  <2>1. \A q \in Seq(S) : q # <<>> => Head(q) \in S /\ Tail(q) \in Seq(S)
    OBVIOUS
  <2> QED
    BY <1>1, <2>1 DEF S
<1>3. task' = [task EXCEPT ![a] = [@ EXCEPT !.vids = Head(queue[LevelOf(a)]), !.pending_num = 0]]
  BY DEF Take
<1>4. task' \in [Actor -> Task]
  <2>1. task \in [Actor -> Task] /\ 0 \in Nat
    BY <1>1 DEF TypeOK, Task
  <2> QED
    BY <1>2, <1>3, <2>1 DEF Task
<1>5. queue' \in [Level -> Seq(Seq(Vertex))]
  BY <1>1, <1>2 DEF TypeOK, Take
<1>6. at' \in [Actor -> Place]
  BY <1>1 DEF TypeOK, Take, Place
<1>7. TypeOK'
  BY <1>1, <1>4, <1>5, <1>6 DEF TypeOK, Take, Task, Place
<1>8. LocksOK'
  BY <1>1, LocksStay DEF TypeOK, Take
<1> QED
  BY <1>7, <1>8

\* The neighbours are put into the arrays of their tables.
LEMMA ExpandTyped ==
    ASSUME Base, NEW a \in Worker, Expand(a)
    PROVE  /\ TypeOK' /\ LocksOK'
           /\ \A b \in Actor : b # a => task'[b] = task[b]
           /\ task'[a].vids = Tail(task[a].vids)
           /\ task'[a].found = Hashed(task[a].found, Ends(Head(task[a].vids)))
           /\ \A b \in Actor : at'[b] = at[b] \/ (b = a /\ at'[b] = "complete" /\ task'[b].midway)
<1> DEFINE ends == Ends(Head(task[a].vids))
           num == task[a].pending_num + Len(ends)
           full == num > Cap(LevelOf(a))
<1>1. /\ TypeOK /\ LocksOK /\ a \in Actor /\ LevelOf(a) \in Level /\ at[a] = "expand"
      /\ task \in [Actor -> Task] /\ task[a] \in Task /\ task[a].vids # <<>>
  BY Actors DEF Base, TypeOK, Task, Expand
<1>2. ends \in Seq(Vertex)
  BY <1>1, TypesSay, EndsFind
<1>3. /\ task' = [task EXCEPT ![a] = [vids |-> Tail(@.vids), found |-> Hashed(@.found, ends),
                                      pending_num |-> IF full THEN 0 ELSE num, midway |-> full]]
      /\ at' = IF full THEN [at EXCEPT ![a] = "complete"] ELSE at
      /\ midway_levels' = midway_levels \cup (IF full THEN {LevelOf(a)} ELSE {})
      /\ UNCHANGED <<keys, query, vid_hash_table, hash_table_mu, mu, pending, semaphore, task_wg,
                     queue, vertext_counter, wait_level, count, early>>
  BY DEF Expand
<1> HIDE DEF ends
<1>4. num \in Nat /\ full \in BOOLEAN
  BY <1>1, <1>2 DEF Task
<1> HIDE DEF full, num
<1> DEFINE new == [vids |-> Tail(task[a].vids), found |-> Hashed(task[a].found, ends),
                   pending_num |-> IF full THEN 0 ELSE num, midway |-> full]
<1>5. new \in Task
  <2>1. Hashed(task[a].found, ends) \in [Table -> Seq(Vertex)]
    BY <1>1, <1>2, HashedHas DEF Task
  <2>2. Tail(task[a].vids) \in Seq(Vertex)
    BY <1>1 DEF Task
  <2> QED
    BY <1>4, <2>1, <2>2 DEF Task
<1>6. task' = [task EXCEPT ![a] = new]
  BY <1>3
<1>7. /\ new.vids = Tail(task[a].vids) /\ new.found = Hashed(task[a].found, ends)
      /\ new.midway = full
  OBVIOUS
<1> HIDE DEF new
<1>8. task' \in [Actor -> Task] /\ task'[a] = new /\ \A b \in Actor : b # a => task'[b] = task[b]
  BY <1>1, <1>5, <1>6
<1>9. at' \in [Actor -> Place] /\ midway_levels' \subseteq Level
  BY <1>1, <1>3 DEF TypeOK, Place
<1>10. TypeOK'
  BY <1>1, <1>3, <1>8, <1>9 DEF TypeOK, Task, Place
<1>11. LocksOK'
  BY <1>1, <1>3, LocksStay DEF TypeOK
<1>12. \A b \in Actor : at'[b] = at[b] \/ (b = a /\ at'[b] = "complete" /\ task'[b].midway)
  BY <1>1, <1>3, <1>4, <1>7, <1>8 DEF TypeOK
<1> QED
  BY <1>7, <1>8, <1>10, <1>11, <1>12 DEF ends

\* A task gives its permit back, and at its end tells the WaitGroup.
LEMMA ReleaseTyped ==
    ASSUME Base, NEW a \in Worker, Release(a)
    PROVE  /\ TypeOK' /\ LocksOK'
           /\ \A b \in Actor : task'[b].vids = task[b].vids /\ task'[b].found = task[b].found
           /\ ~ task'[a].midway /\ \A b \in Actor : b # a => task'[b] = task[b]
<1>1. /\ TypeOK /\ LocksOK /\ a \in Actor /\ LevelOf(a) \in Level /\ at[a] = "expand"
      /\ task \in [Actor -> Task]
  BY Actors DEF Base, TypeOK, Task, Release
<1>2. /\ semaphore' = [semaphore EXCEPT ![LevelOf(a)] = @ + 1]
      /\ at' = [at EXCEPT ![a] = "complete"]
      /\ task' = [task EXCEPT ![a] = [@ EXCEPT !.midway = FALSE]]
      /\ UNCHANGED <<keys, query, vid_hash_table, hash_table_mu, mu, pending, task_wg, queue,
                     vertext_counter, wait_level, count, early, midway_levels>>
  BY DEF Release
<1>3. task' \in [Actor -> Task] /\ \A b \in Actor : b # a => task'[b] = task[b]
  BY <1>1, <1>2 DEF Task
<1>4. task'[a].vids = task[a].vids /\ task'[a].found = task[a].found /\ ~ task'[a].midway
  BY <1>1, <1>2 DEF Task
<1>5. semaphore' \in [Level -> Nat] /\ at' \in [Actor -> Place]
  BY <1>1, <1>2 DEF TypeOK, Place
<1>6. TypeOK'
  BY <1>1, <1>2, <1>3, <1>5 DEF TypeOK, Task, Place
<1>7. LocksOK'
  BY <1>1, <1>2, LocksStay DEF TypeOK
<1> QED
  BY <1>3, <1>4, <1>6, <1>7

\* A task is over.
LEMMA DoneTyped ==
    ASSUME Base, Inv', NEW a \in Worker, Done(a)
    PROVE  TypeOK' /\ LocksOK'
<1>1. /\ TypeOK /\ LocksOK /\ a \in Actor /\ LevelOf(a) \in Level /\ at[a] = "done"
  BY Actors DEF Base, Done
<1>2. task_wg' \in [Level -> Nat]
  <2>1. \A l \in Level : task_wg'[l] \in Nat
    <3> SUFFICES ASSUME NEW l \in Level PROVE task_wg'[l] \in Nat
      OBVIOUS
    <3>1. task_wg'[l] = Len(queue'[l]) + Cardinality(Busy(l)') /\ IsSequence(queue'[l])
      BY DEF Inv, CountsOK
    <3>2. Len(queue'[l]) \in Nat
      BY <3>1, QueueEmpty
    <3>3. Busy(l)' \in SUBSET Worker
      BY DEF Busy
    <3>4. Cardinality(Busy(l)') \in Nat
      BY <3>3, WorkerSets
    <3> QED
      BY <3>1, <3>2, <3>4
  <2>2. task_wg' = [task_wg EXCEPT ![LevelOf(a)] = @ - 1]
    BY DEF Done
  <2> QED
    BY <1>1, <2>1, <2>2 DEF TypeOK
<1>3. at' \in [Actor -> Place]
  BY <1>1 DEF Done, TypeOK, Place
<1>4. TypeOK'
  BY <1>1, <1>2, <1>3 DEF TypeOK, Done, Place
<1>5. LocksOK'
  BY <1>1, LocksStay DEF TypeOK, Done
<1> QED
  BY <1>4, <1>5

\* main waits for a level.
LEMMA WaitTyped ==
    ASSUME Base, Wait
    PROVE  TypeOK' /\ LocksOK'
<1>1. TypeOK /\ LocksOK /\ at[Main] = "wait" /\ Main \in Actor
  BY Actors DEF Base, Wait
<1>2. at' \in [Actor -> Place]
  BY <1>1 DEF Wait, TypeOK, Place
<1>3. TypeOK'
  BY <1>1, <1>2 DEF TypeOK, Wait, Place
<1>4. LocksOK'
  BY <1>1, LocksStay DEF TypeOK, Wait
<1> QED
  BY <1>3, <1>4

\* A table is locked by an actor that holds none.
LEMMA LockTyped ==
    ASSUME Base, NEW a \in Actor, LockTable(a)
    PROVE  /\ TypeOK' /\ LocksOK'
           /\ Min(Filled(a)) \in Filled(a) /\ Filled(a) \subseteq Table
<1> DEFINE t == Min(Filled(a))
<1>1. TypeOK /\ LocksOK /\ at[a] = "complete"
  BY DEF Base, LockTable
<1>2. Filled(a) \in SUBSET Table /\ Filled(a) # {}
  BY DEF LockTable, Filled
<1>3. t \in Filled(a) /\ t \in Table
  BY <1>2, LeastTable
<1>4. /\ hash_table_mu' = [hash_table_mu EXCEPT ![t] = a] /\ hash_table_mu[t] = Nobody
      /\ at' = [at EXCEPT ![a] = "insert"]
      /\ UNCHANGED <<keys, query, vid_hash_table, mu, pending, semaphore, task_wg, queue,
                     vertext_counter, task, wait_level, count, early, midway_levels>>
  BY DEF LockTable
<1> HIDE DEF t
<1>5. /\ hash_table_mu' \in [Table -> Actor \cup {Nobody}]
      /\ \A h \in Table : hash_table_mu'[h] = IF h = t THEN a ELSE hash_table_mu[h]
  BY <1>1, <1>3, <1>4 DEF TypeOK
<1>6. at' \in [Actor -> Place] /\ \A b \in Actor : at'[b] = IF b = a THEN "insert" ELSE at[b]
  BY <1>1, <1>4 DEF TypeOK, Place
<1>7. TypeOK'
  BY <1>1, <1>4, <1>5, <1>6 DEF TypeOK, Place
<1>8. \A h \in Table : hash_table_mu[h] # a
  BY <1>1, NobodyIsNone DEF LocksOK
<1>9. LocksOK'
  <2>1. \A h \in Table : hash_table_mu[h] \in Actor \/ hash_table_mu[h] = Nobody
    BY <1>1 DEF TypeOK
  <2>2. \A h \in Table : hash_table_mu'[h] # Nobody => at'[hash_table_mu'[h]] \in {"insert", "start"}
    BY <1>1, <1>5, <1>6, <2>1 DEF LocksOK
  <2>3. \A b \in Actor : at'[b] \in {"insert", "start"} => \E h \in Table : hash_table_mu'[h] = b
    <3> SUFFICES ASSUME NEW b \in Actor, at'[b] \in {"insert", "start"}
                 PROVE  \E h \in Table : hash_table_mu'[h] = b
      OBVIOUS
    <3>1. CASE b = a
      BY <1>3, <1>5, <3>1
    <3>2. CASE b # a
      <4>1. PICK h \in Table : hash_table_mu[h] = b
        BY <1>1, <1>6, <3>2 DEF LocksOK
      <4>2. h # t
        BY <1>4, <4>1, NobodyIsNone
      <4> QED
        BY <1>5, <4>1, <4>2
    <3> QED
      BY <3>1, <3>2
  <2>4. \A h, g \in Table : hash_table_mu'[h] = hash_table_mu'[g] /\ h # g => hash_table_mu'[h] = Nobody
    BY <1>1, <1>5, <1>8 DEF LocksOK
  <2> QED
    BY <2>2, <2>3, <2>4 DEF LocksOK
<1> QED
  BY <1>2, <1>3, <1>7, <1>9 DEF t

\* The table is unlocked.
LEMMA UnlockTyped ==
    ASSUME Base, NEW a \in Actor, UnlockTable(a)
    PROVE  /\ TypeOK' /\ LocksOK'
           /\ Held(a) \in Table /\ hash_table_mu[Held(a)] = a
           /\ \A h \in Table : hash_table_mu'[h] = IF h = Held(a) THEN Nobody ELSE hash_table_mu[h]
<1> DEFINE t == Held(a)
<1>1. TypeOK /\ LocksOK /\ at[a] = "insert"
  BY DEF Base, UnlockTable
<1>2. t \in Table /\ hash_table_mu[t] = a
  BY <1>1, HeldIsHeld
<1>3. /\ hash_table_mu' = [hash_table_mu EXCEPT ![t] = Nobody]
      /\ at' = [at EXCEPT ![a] = "complete"]
      /\ UNCHANGED <<keys, query, vid_hash_table, mu, pending, semaphore, task_wg, queue,
                     vertext_counter, task, wait_level, count, early, midway_levels>>
  BY DEF UnlockTable
<1> HIDE DEF t
<1>4. /\ hash_table_mu' \in [Table -> Actor \cup {Nobody}]
      /\ \A h \in Table : hash_table_mu'[h] = IF h = t THEN Nobody ELSE hash_table_mu[h]
  BY <1>1, <1>2, <1>3 DEF TypeOK
<1>5. at' \in [Actor -> Place] /\ \A b \in Actor : at'[b] = IF b = a THEN "complete" ELSE at[b]
  BY <1>1, <1>3 DEF TypeOK, Place
<1>6. TypeOK'
  BY <1>1, <1>3, <1>4, <1>5 DEF TypeOK, Place
<1>7. \A h \in Table : h # t => hash_table_mu[h] # a
  BY <1>1, <1>2, NobodyIsNone DEF LocksOK
<1>8. LocksOK'
  <2>1. \A h \in Table : hash_table_mu[h] \in Actor \/ hash_table_mu[h] = Nobody
    BY <1>1 DEF TypeOK
  <2>2. \A h \in Table : hash_table_mu'[h] # Nobody => at'[hash_table_mu'[h]] \in {"insert", "start"}
    BY <1>1, <1>4, <1>5, <1>7, <2>1 DEF LocksOK
  <2>3. \A b \in Actor : at'[b] \in {"insert", "start"} => \E h \in Table : hash_table_mu'[h] = b
    <3> SUFFICES ASSUME NEW b \in Actor, at'[b] \in {"insert", "start"}
                 PROVE  \E h \in Table : hash_table_mu'[h] = b
      OBVIOUS
    <3>1. b # a /\ at[b] \in {"insert", "start"}
      BY <1>5
    <3>2. PICK h \in Table : hash_table_mu[h] = b
      BY <1>1, <3>1 DEF LocksOK
    <3>3. h # t
      BY <1>2, <3>1, <3>2
    <3> QED
      BY <1>4, <3>2, <3>3
  <2>4. \A h, g \in Table : hash_table_mu'[h] = hash_table_mu'[g] /\ h # g => hash_table_mu'[h] = Nobody
    BY <1>1, <1>4 DEF LocksOK
  <2> QED
    BY <2>2, <2>3, <2>4 DEF LocksOK
<1> QED
  BY <1>2, <1>4, <1>6, <1>8 DEF t

\* The first of what was found for the table that is held is dealt with.
LEMMA PopTyped ==
    ASSUME TypeOK, NEW a \in Actor, Held(a) \in Table, task[a].found[Held(a)] # <<>>,
           task' = Popped(a)
    PROVE  /\ task' \in [Actor -> Task]
           /\ \A b \in Actor : b # a => task'[b] = task[b]
           /\ task'[a].vids = task[a].vids /\ task'[a].midway = task[a].midway
           /\ \A h \in Table : task'[a].found[h] = IF h = Held(a) THEN Tail(task[a].found[h])
                                                   ELSE task[a].found[h]
           /\ NextVid(a) \in Vertex
           /\ ToSet(task[a].found[Held(a)]) = {NextVid(a)} \cup ToSet(Tail(task[a].found[Held(a)]))
<1> DEFINE t == Held(a)
           found == task[a].found
           new == [found EXCEPT ![t] = Tail(@)]
<1>1. task \in [Actor -> Task] /\ task[a] \in Task /\ found \in [Table -> Seq(Vertex)]
  BY DEF TypeOK, Task
<1>2. task' = [task EXCEPT ![a] = [@ EXCEPT !.found = new]]
  BY DEF Popped
<1>3. found[t] \in Seq(Vertex) /\ found[t] # <<>>
  BY <1>1
<1>4. Tail(found[t]) \in Seq(Vertex) /\ Head(found[t]) \in Vertex
  BY <1>3
<1>5. ToSet(found[t]) = {Head(found[t])} \cup ToSet(Tail(found[t]))
  BY <1>3, HeadAndTail
<1> HIDE DEF t
<1>6. new \in [Table -> Seq(Vertex)] /\ \A h \in Table : new[h] = IF h = t THEN Tail(found[h]) ELSE found[h]
  BY <1>1, <1>4 DEF t
<1> HIDE DEF new
<1>7. /\ task' \in [Actor -> Task] /\ task'[a].found = new
      /\ \A b \in Actor : b # a => task'[b] = task[b]
      /\ task'[a].vids = task[a].vids /\ task'[a].midway = task[a].midway
  <2> DEFINE next == [task[a] EXCEPT !.found = new]
  <2>1. next \in Task /\ next.found = new /\ next.vids = task[a].vids /\ next.midway = task[a].midway
    BY <1>1, <1>6 DEF Task
  <2>2. task' = [task EXCEPT ![a] = next]
    BY <1>2
  <2> HIDE DEF next
  <2> QED
    BY <1>1, <2>1, <2>2
<1> QED
  BY <1>4, <1>5, <1>6, <1>7 DEF t, NextVid

\* A vertex that is in the table already.
LEMMA KnownTyped ==
    ASSUME Base, NEW a \in Actor, Known(a)
    PROVE  TypeOK' /\ LocksOK' /\ Held(a) \in Table /\ hash_table_mu[Held(a)] = a
<1>1. TypeOK /\ LocksOK /\ at[a] = "insert"
  BY DEF Base, Known
<1>2. Held(a) \in Table /\ hash_table_mu[Held(a)] = a
  BY <1>1, HeldIsHeld
<1>3. task' \in [Actor -> Task]
  BY <1>1, <1>2, PopTyped DEF Known
<1>4. TypeOK'
  BY <1>1, <1>3 DEF TypeOK, Known, Task
<1>5. LocksOK'
  BY <1>1, LocksStay DEF Known
<1> QED
  BY <1>2, <1>4, <1>5

\* A new vertex is counted, and waits if there is a next level.
LEMMA NewTyped ==
    ASSUME Base, NEW a \in Actor, New(a)
    PROVE  /\ TypeOK' /\ LocksOK' /\ Held(a) \in Table /\ hash_table_mu[Held(a)] = a
           /\ \A h \in Table : vid_hash_table'[h] = IF h = Held(a)
                                                    THEN vid_hash_table[h] \cup {NextVid(a)}
                                                    ELSE vid_hash_table[h]
           /\ \A l \in Level : vertext_counter'[l] = IF l = LevelOf(a) THEN vertext_counter[l] + 1
                                                     ELSE vertext_counter[l]
           /\ \/ IsLast(LevelOf(a)) /\ UNCHANGED <<at, pending, early>>
              \/ /\ ~ IsLast(LevelOf(a))
                 /\ \A l \in Level : pending'[l] = IF l = LevelOf(a) THEN Append(pending[l], NextVid(a))
                                                   ELSE pending[l]
                 /\ \/ UNCHANGED <<at, early>>
                    \/ /\ \A b \in Actor : at'[b] = IF b = a THEN "start" ELSE at[b]
                       /\ early' = [early EXCEPT ![LevelOf(a) + 1] = @ + 1]
<1> DEFINE m == LevelOf(a)
           t == Held(a)
           v == NextVid(a)
<1>1. TypeOK /\ LocksOK /\ at[a] = "insert" /\ m \in Level
  BY TypesSay DEF Base, New
<1>2. t \in Table /\ hash_table_mu[t] = a
  BY <1>1, HeldIsHeld
<1>3. task' \in [Actor -> Task] /\ v \in Vertex
  BY <1>1, <1>2, PopTyped DEF New
<1>4. /\ vid_hash_table' = [vid_hash_table EXCEPT ![t] = @ \cup {v}]
      /\ vertext_counter' = [vertext_counter EXCEPT ![m] = @ + 1]
      /\ UNCHANGED <<keys, query, hash_table_mu, semaphore, task_wg, queue, wait_level, count,
                     midway_levels>>
      /\ \/ IsLast(m) /\ UNCHANGED <<at, mu, pending, early>>
         \/ /\ ~ IsLast(m)
            /\ pending' = [pending EXCEPT ![m] = Append(@, v)]
            /\ \/ UNCHANGED <<at, mu, early>>
               \/ /\ mu' = [mu EXCEPT ![m] = a]
                  /\ at' = [at EXCEPT ![a] = "start"]
                  /\ early' = [early EXCEPT ![m + 1] = @ + 1]
  BY DEF New
<1> HIDE DEF m, t, v
<1>5. /\ vid_hash_table' \in [Table -> SUBSET Vertex]
      /\ \A h \in Table : vid_hash_table'[h] = IF h = t THEN vid_hash_table[h] \cup {v}
                                               ELSE vid_hash_table[h]
  BY <1>1, <1>2, <1>3, <1>4 DEF TypeOK
<1>6. /\ vertext_counter' \in [Level -> Nat]
      /\ \A l \in Level : vertext_counter'[l] = IF l = m THEN vertext_counter[l] + 1
                                                ELSE vertext_counter[l]
  BY <1>1, <1>4 DEF TypeOK
<1>7. /\ \/ IsLast(m) /\ UNCHANGED <<at, pending, early>>
         \/ /\ ~ IsLast(m)
            /\ \A l \in Level : pending'[l] = IF l = m THEN Append(pending[l], v) ELSE pending[l]
            /\ \/ UNCHANGED <<at, early>>
               \/ /\ \A b \in Actor : at'[b] = IF b = a THEN "start" ELSE at[b]
                  /\ early' = [early EXCEPT ![m + 1] = @ + 1]
      /\ pending' \in [Level -> Seq(Vertex)] /\ at' \in [Actor -> Place]
      /\ mu' \in [Level -> Actor \cup {Nobody}] /\ early' \in [Level -> Nat]
  <2>1. Append(pending[m], v) \in Seq(Vertex) /\ pending[m] \in Seq(Vertex)
    <3>1. pending[m] \in Seq(Vertex)
      BY <1>1 DEF TypeOK
    <3> QED
      BY <1>3, <3>1
  <2>2. CASE IsLast(m) /\ UNCHANGED <<at, mu, pending, early>>
    BY <1>1, <2>2 DEF TypeOK, Place
  <2>3. CASE /\ ~ IsLast(m) /\ pending' = [pending EXCEPT ![m] = Append(@, v)]
             /\ UNCHANGED <<at, mu, early>>
    BY <1>1, <2>1, <2>3 DEF TypeOK, Place
  <2>4. CASE /\ ~ IsLast(m) /\ pending' = [pending EXCEPT ![m] = Append(@, v)]
             /\ mu' = [mu EXCEPT ![m] = a]
             /\ at' = [at EXCEPT ![a] = "start"]
             /\ early' = [early EXCEPT ![m + 1] = @ + 1]
    <3>1. early' \in [Level -> Nat]
      <4>1. early \in [Level -> Nat]
        BY <1>1 DEF TypeOK
      <4>2. /\ early' = [l \in Level |-> early'[l]]
            /\ \A l \in Level : early'[l] = IF l = m + 1 THEN early[l] + 1 ELSE early[l]
        BY <2>4, <4>1
      <4>3. \A l \in Level : early'[l] \in Nat
        BY <4>1, <4>2
      <4> QED
        BY <4>2, <4>3
    <3>2. at' \in [Actor -> Place] /\ \A b \in Actor : at'[b] = IF b = a THEN "start" ELSE at[b]
      BY <1>1, <2>4 DEF TypeOK, Place
    <3>3. mu' \in [Level -> Actor \cup {Nobody}]
      BY <1>1, <2>4 DEF TypeOK
    <3>4. /\ pending' \in [Level -> Seq(Vertex)]
          /\ \A l \in Level : pending'[l] = IF l = m THEN Append(pending[l], v) ELSE pending[l]
      BY <1>1, <2>1, <2>4 DEF TypeOK
    <3> QED
      BY <2>4, <3>1, <3>2, <3>3, <3>4
  <2> QED
    BY <1>4, <2>2, <2>3, <2>4
<1>8. TypeOK'
  BY <1>1, <1>3, <1>4, <1>5, <1>6, <1>7 DEF TypeOK, Task, Place
<1>9. LocksOK'
  BY <1>1, <1>4, <1>7, LocksStay
<1> QED
  BY <1>2, <1>5, <1>6, <1>7, <1>8, <1>9 DEF m, t, v

\* What is pending becomes a task.
LEMMA NextTyped ==
    ASSUME TypeOK, NEW m \in Level, m + 1 \in Level, StartNext(m)
    PROVE  /\ semaphore' \in [Level -> Nat] /\ task_wg' \in [Level -> Nat]
           /\ queue' \in [Level -> Seq(Seq(Vertex))] /\ pending' \in [Level -> Seq(Vertex)]
           /\ \A l \in Level : /\ pending'[l] = IF l = m THEN <<>> ELSE pending[l]
                               /\ queue'[l] = IF l = m + 1 THEN Append(queue[l], pending[m]) ELSE queue[l]
<1>1. /\ semaphore' = [semaphore EXCEPT ![m + 1] = @ - 1] /\ semaphore[m + 1] > 0
      /\ task_wg' = [task_wg EXCEPT ![m + 1] = @ + 1]
      /\ queue' = [queue EXCEPT ![m + 1] = Append(@, pending[m])]
      /\ pending' = [pending EXCEPT ![m] = <<>>]
  BY DEF StartNext
<1>2. /\ semaphore \in [Level -> Nat] /\ task_wg \in [Level -> Nat]
      /\ queue \in [Level -> Seq(Seq(Vertex))] /\ pending \in [Level -> Seq(Vertex)]
  BY DEF TypeOK
<1>3. semaphore' \in [Level -> Nat] /\ task_wg' \in [Level -> Nat]
  BY <1>1, <1>2, SMTT(30)
<1>4. /\ pending' \in [Level -> Seq(Vertex)]
      /\ \A l \in Level : pending'[l] = IF l = m THEN <<>> ELSE pending[l]
  <2>1. <<>> \in Seq(Vertex)
    OBVIOUS
  <2> QED
    BY <1>1, <1>2, <2>1
<1>5. Append(queue[m + 1], pending[m]) \in Seq(Seq(Vertex))
  <2> DEFINE S == Seq(Vertex)
  <2>1. queue[m + 1] \in Seq(S) /\ pending[m] \in S
    BY <1>2
  <2> HIDE DEF S
  <2>2. Append(queue[m + 1], pending[m]) \in Seq(S)
    BY <2>1
  <2> QED
    BY <2>2 DEF S
<1>6. /\ queue' \in [Level -> Seq(Seq(Vertex))]
      /\ \A l \in Level : queue'[l] = IF l = m + 1 THEN Append(queue[l], pending[m]) ELSE queue[l]
  BY <1>1, <1>2, <1>5
<1> QED
  BY <1>3, <1>4, <1>6

\* A full array is handed to the next level.
LEMMA StartTyped ==
    ASSUME Base, NEW a \in Actor, Start(a)
    PROVE  /\ TypeOK' /\ LocksOK' /\ StartNext(LevelOf(a)) /\ LevelOf(a) + 1 \in Level
           /\ LevelOf(a) \in Level /\ LevelOf(a) < query.k
           /\ \A b \in Actor : at'[b] = IF b = a THEN "insert" ELSE at[b]
<1>1. TypeOK /\ LocksOK /\ at[a] = "start" /\ LevelOf(a) \in Level /\ LevelOf(a) \in Nat
  BY TypesSay DEF Base, Start
<1>2. LevelOf(a) < query.k
  BY <1>1 DEF Base, Inv, DepthOK
<1>3. LevelOf(a) + 1 \in Level
  <2>1. query.k \in 0 .. MaxLevel /\ MaxLevel \in Nat
    BY <1>1, TypesSay, SizeAssumption
  <2> QED
    BY <1>1, <1>2, <2>1 DEF Level
<1>4. StartNext(LevelOf(a))
  BY DEF Start
<1>5. /\ semaphore' \in [Level -> Nat] /\ task_wg' \in [Level -> Nat]
      /\ queue' \in [Level -> Seq(Seq(Vertex))] /\ pending' \in [Level -> Seq(Vertex)]
  BY <1>1, <1>3, <1>4, NextTyped
<1>6. /\ mu' = [mu EXCEPT ![LevelOf(a)] = Nobody] /\ at' = [at EXCEPT ![a] = "insert"]
      /\ UNCHANGED <<keys, query, vid_hash_table, hash_table_mu, vertext_counter, task, wait_level,
                     count, early, midway_levels>>
  BY DEF Start
<1>7. mu' \in [Level -> Actor \cup {Nobody}] /\ at' \in [Actor -> Place]
  BY <1>1, <1>6 DEF TypeOK, Place
<1>8. \A b \in Actor : at'[b] = IF b = a THEN "insert" ELSE at[b]
  BY <1>1, <1>6 DEF TypeOK
<1>9. TypeOK'
  BY <1>1, <1>5, <1>6, <1>7 DEF TypeOK, Place
<1>10. LocksOK'
  BY <1>1, <1>6, <1>8, LocksStay
<1> QED
  BY <1>1, <1>2, <1>3, <1>4, <1>8, <1>9, <1>10

\* Everything has been handed over.
LEMMA CompletedTyped ==
    ASSUME Base, NEW a \in Actor, Completed(a)
    PROVE  /\ TypeOK' /\ LocksOK'
           /\ \A b \in Actor : at'[b] = IF b # a THEN at[b] ELSE IF a = Main THEN "wait"
                                        ELSE IF task[a].midway THEN "expand" ELSE "done"
<1>1. TypeOK /\ LocksOK /\ at[a] = "complete"
  BY DEF Base, Completed
<1>2. /\ at' \in [Actor -> Place]
      /\ \A b \in Actor : at'[b] = IF b # a THEN at[b] ELSE IF a = Main THEN "wait"
                                   ELSE IF task[a].midway THEN "expand" ELSE "done"
  BY <1>1 DEF Completed, TypeOK, Place
<1>3. TypeOK'
  BY <1>1, <1>2 DEF TypeOK, Completed, Place
<1>4. LocksOK'
  BY <1>1, <1>2, LocksStay DEF Completed
<1> QED
  BY <1>2, <1>3, <1>4

\* main goes past a level.
LEMMA FlushTyped ==
    ASSUME Base, Flush
    PROVE  /\ TypeOK' /\ LocksOK'
           /\ wait_level \in Level /\ wait_level \in Nat /\ wait_level <= query.k
           /\ \/ StartNext(wait_level) /\ wait_level + 1 \in Level
              \/ UNCHANGED <<queue, pending>>
           /\ \A b \in Actor : at'[b] = IF b # Main THEN at[b]
                                        ELSE IF wait_level = query.k THEN "returned" ELSE "wait"
<1>1. /\ TypeOK /\ LocksOK /\ at[Main] = "flush" /\ query.k \in 0 .. MaxLevel /\ MaxLevel \in Nat
      /\ Main \in Actor
  BY TypesSay, SizeAssumption DEF Base, Flush
<1>2. wait_level \in Level /\ wait_level \in Nat /\ wait_level <= query.k
  BY <1>1 DEF Base, Inv, PlacesOK, Level
<1>3. /\ count' = count + vertext_counter[wait_level] /\ wait_level' = wait_level + 1
      /\ at' = [at EXCEPT ![Main] = IF wait_level = query.k THEN "returned" ELSE "wait"]
      /\ UNCHANGED <<keys, query, vid_hash_table, hash_table_mu, mu, vertext_counter, task, early,
                     midway_levels>>
  BY DEF Flush, IsLast
<1>4. \/ StartNext(wait_level) /\ wait_level + 1 \in Level
      \/ UNCHANGED <<semaphore, task_wg, queue, pending>>
  <2>1. wait_level # query.k => wait_level + 1 \in Level
    BY <1>1, <1>2 DEF Level
  <2> QED
    BY <2>1 DEF Flush, IsLast
<1>5. /\ semaphore' \in [Level -> Nat] /\ task_wg' \in [Level -> Nat]
      /\ queue' \in [Level -> Seq(Seq(Vertex))] /\ pending' \in [Level -> Seq(Vertex)]
  BY <1>1, <1>2, <1>4, NextTyped DEF TypeOK
<1>6. count' \in Nat /\ wait_level' \in Nat
  BY <1>1, <1>2, <1>3, SMTT(30) DEF TypeOK
<1>7. /\ at' \in [Actor -> Place]
      /\ \A b \in Actor : at'[b] = IF b # Main THEN at[b]
                                   ELSE IF wait_level = query.k THEN "returned" ELSE "wait"
  BY <1>1, <1>3 DEF TypeOK, Place
<1>8. TypeOK'
  BY <1>1, <1>3, <1>5, <1>6, <1>7 DEF TypeOK, Place
<1>9. LocksOK'
  BY <1>1, <1>3, <1>7, LocksStay
<1> QED
  BY <1>2, <1>4, <1>7, <1>8, <1>9

\* At first nothing is locked, and main has its list.
LEMMA BaseStarts ==
    ASSUME Init
    PROVE  Base
<1>1. Inv
  BY Starts
<1>2. query.vertex_id_list \in Seq(Vertex) /\ query.parallel_num \in Nat
  BY QueryAssumption DEF Init
<1>3. LocksOK
  <2>1. hash_table_mu = [h \in Table |-> Nobody]
    BY DEF Init
  <2>2. \A a \in Actor : at[a] \notin {"insert", "start"}
    BY DEF Init
  <2> QED
    BY <2>1, <2>2 DEF LocksOK
<1>4. task \in [Actor -> Task]
  <2>1. <<>> \in Seq(Vertex)
    OBVIOUS
  <2>2. NothingFound \in [Table -> Seq(Vertex)]
    BY <2>1 DEF NothingFound
  <2>3. [NothingFound EXCEPT ![0] = query.vertex_id_list] \in [Table -> Seq(Vertex)]
    BY <1>2, <2>2
  <2>4. task = [a \in Actor |->
                  [vids |-> <<>>, pending_num |-> 0, midway |-> FALSE,
                   found |-> IF a = Main THEN [NothingFound EXCEPT ![0] = query.vertex_id_list]
                             ELSE NothingFound]]
    BY DEF Init
  <2> QED
    BY <2>1, <2>2, <2>3, <2>4 DEF Task
<1>5. queue \in [Level -> Seq(Seq(Vertex))] /\ pending \in [Level -> Seq(Vertex)]
  <2>1. \A S : <<>> \in Seq(S)
    OBVIOUS
  <2>2. queue = [l \in Level |-> <<>>] /\ pending = [l \in Level |-> <<>>]
    BY DEF Init
  <2>3. <<>> \in Seq(Seq(Vertex)) /\ <<>> \in Seq(Vertex)
    BY <2>1
  <2> QED
    BY <2>2, <2>3
<1>6. TypeOK
  <2>1. /\ semaphore \in [Level -> Nat] /\ task_wg \in [Level -> Nat]
        /\ vertext_counter \in [Level -> Nat] /\ early \in [Level -> Nat]
    BY <1>2 DEF Init
  <2>2. /\ vid_hash_table \in [Table -> SUBSET Vertex]
        /\ hash_table_mu \in [Table -> Actor \cup {Nobody}] /\ mu \in [Level -> Actor \cup {Nobody}]
    BY DEF Init
  <2>3. at \in [Actor -> Place]
    BY DEF Init, Place
  <2>4. wait_level \in Nat /\ count \in Nat /\ midway_levels \subseteq Level
    BY DEF Init
  <2>5. keys \in {EdgeTable(edges) : edges \in EdgeSets} /\ query \in Queries
    BY DEF Init
  <2> QED
    BY <1>4, <1>5, <2>1, <2>2, <2>3, <2>4, <2>5 DEF TypeOK, Place, Task
<1> QED
  BY <1>1, <1>3, <1>6 DEF Base

\* Types and locks are kept.
LEMMA BaseStays ==
    ASSUME Base, [Next]_vars
    PROVE  Base'
<1>1. Inv'
  BY Stays DEF Base
<1> SUFFICES TypeOK' /\ LocksOK'
  BY <1>1 DEF Base
<1>2. ASSUME NEW a \in Actor, HandOver(a)
      PROVE  TypeOK' /\ LocksOK'
  BY <1>2, LockTyped, UnlockTyped, KnownTyped, NewTyped, StartTyped, CompletedTyped DEF HandOver
<1>3. CASE MainStep
  BY <1>2, <1>3, Actors, WaitTyped, FlushTyped DEF MainStep
<1>4. ASSUME NEW a \in Worker, WorkerStep(a)
      PROVE  TypeOK' /\ LocksOK'
  BY <1>1, <1>2, <1>4, Actors, TakeTyped, ExpandTyped, ReleaseTyped, DoneTyped DEF WorkerStep
<1>5. CASE UNCHANGED vars
  BY <1>5 DEF vars, Base, TypeOK, LocksOK
<1> QED
  BY <1>3, <1>4, <1>5 DEF Next, Over

-----------------------------------------------------------------------------
(* What is known of the vertices *)

\* A vertex waits to be expanded at a level: it is pending for it, in a task
\* of its queue or in one that is under way.
IsWaiting(v, l) ==
    \/ v \in ToSet(pending[l - 1])
    \/ \E vids \in ToSet(queue[l]) : v \in ToSet(vids)
    \/ \E a \in Worker : LevelOf(a) = l /\ v \in ToSet(task[a].vids)

\* A vertex has been found at a level, and is on its way to a table.
IsFound(v, l, h) == \E a \in Actor : LevelOf(a) = l /\ v \in ToSet(task[a].found[h])

\* The tables' entries; first is the level at which an entry was made.
Entries == {p \in Table \X Vertex : p[2] \in vid_hash_table[p[1]]}

\* A table has the vertices that belong to it, and table 0 the roots as well.
HomesOK ==
    /\ \A h \in Table : \A v \in vid_hash_table[h] : v % HashTables = h \/ (h = 0 /\ v \in Roots)
    /\ \A l \in Level, h \in Table, v \in Vertex :
          IsFound(v, l, h) => IF l = 0 THEN h = 0 /\ v \in Roots ELSE v % HashTables = h

\* What is found at a level is within as many steps.
ReachOK(first) ==
    /\ \A h \in Table : \A v \in vid_hash_table[h] : v \in Ball(first[<<h, v>>])
    /\ \A l \in 1 .. MaxLevel, v \in Vertex : IsWaiting(v, l) => v \in Ball(l - 1)
    /\ \A l \in Level, h \in Table, v \in Vertex : IsFound(v, l, h) => v \in Ball(l)

\* Above the last level an entry waits to be expanded, or what it is joined to
\* is in the tables or on its way there.
IsExpanded(v, l) ==
    \A w \in ToSet(Ends(v)) :
       w \in vid_hash_table[w % HashTables] \/ IsFound(w, l, w % HashTables)
ExpandedOK(first) ==
    \A h \in Table : \A v \in vid_hash_table[h] :
       first[<<h, v>>] < query.k =>
          IsWaiting(v, first[<<h, v>>] + 1) \/ IsExpanded(v, first[<<h, v>>] + 1)

Data(first) == HomesOK /\ ReachOK(first) /\ ExpandedOK(first)

\* The roots are entries of level 0, or main has them in hand.
RootsOK(first) ==
    /\ \A v \in Roots : IsFound(v, 0, 0) \/ (v \in vid_hash_table[0] /\ first[<<0, v>>] = 0)
    /\ (\E v \in Vertex : IsFound(v, 0, 0)) =>
          /\ \A v \in vid_hash_table[0] : first[<<0, v>>] = 0
          /\ hash_table_mu[0] = Main \/ \A l \in Level : queue[l] = <<>> /\ Busy(l) = {}
    /\ \A h \in Table : hash_table_mu[h] = Main => h = 0

\* An entry is counted at its level, and main has added up those it is past.
CountedOK(first) ==
    /\ \A p \in Entries : first[p] <= query.k
    /\ \A l \in Level : vertext_counter[l] = Cardinality({p \in Entries : first[p] = l})
    /\ count = Cardinality({p \in Entries : first[p] < wait_level})
    /\ at[Main] = "returned" => wait_level = query.k + 1

\* Between two tasks a worker has nothing in hand, nor has main after its list.
RestOK ==
    /\ \A a \in Worker :
          /\ at[a] \in {"idle", "done"} => task[a].vids = <<>> /\ Filled(a) = {}
          /\ at[a] \in {"complete", "insert", "start"} /\ ~ task[a].midway => task[a].vids = <<>>
    /\ at[Main] \in {"wait", "flush", "returned"} => Filled(Main) = {}

\* Unless a level is started early the levels come one after the other, and
\* have everything within their steps.
NoEarly == \A l \in Level : early[l] = 0
LevelsOK(first) ==
    /\ \A a \in Actor : at[a] = "start" => early[LevelOf(a) + 1] > 0
    /\ NoEarly =>
          /\ \A p \in Entries : first[p] <= wait_level
          /\ \A l \in Level : l > wait_level => queue[l] = <<>> /\ Busy(l) = {}
          /\ \A n \in Nat : n < wait_level =>
                \A v \in Ball(n) : \E h \in Table : v \in vid_hash_table[h] /\ first[<<h, v>>] <= n

Firsts == [Table \X Vertex -> Level]
All(first) == /\ Data(first) /\ RootsOK(first) /\ CountedOK(first) /\ LevelsOK(first)
Whole == Base /\ RestOK /\ \E first \in Firsts : All(first)

-----------------------------------------------------------------------------
(* What is left as it was *)

\* The graph and the query never change, nor what they determine.
LEMMA SameQuery ==
    ASSUME UNCHANGED <<keys, query>>
    PROVE  /\ Roots' = Roots /\ \A n : Ball(n)' = Ball(n)
           /\ \A v : Ends(v)' = Ends(v)
<1>1. Directions' = Directions /\ \A v : Allowed(v)' = Allowed(v)
  BY DEF Directions, Allowed
<1>2. \A v, d, r : Scan(v, d, r)' = Scan(v, d, r)
  BY SMTT(40) DEF Scan, Allowed
<1>3. \A v, d : Reads(v, d)' = Reads(v, d)
  BY <1>2, ZenonT(60) DEF Reads
<1>4. \A v : Scans(v)' = Scans(v)
  BY <1>1, <1>3, ZenonT(60) DEF Scans
<1>5. \A v : Ends(v)' = Ends(v)
  <2> SUFFICES ASSUME NEW v PROVE Ends(v)' = Ends(v)
    OBVIOUS
  <2>1. Scans(v)' = Scans(v)
    BY <1>4
  <2> QED
    BY ONLY <2>1 DEF Ends
<1>6. Roots' = Roots
  BY DEF Roots
<1>7. \A key : Followed(key)' = Followed(key)
  BY <1>1 DEF Followed
<1>8. \A S : NextTo(S)' = NextTo(S)
  BY <1>7 DEF NextTo
<1>9. \A n : Ball(n)' = Ball(n)
  BY <1>6, <1>8 DEF Ball
<1> QED
  BY <1>5, <1>6, <1>9

\* A level of an entry above the last, and the one below it.
LEMMA FirstLevels ==
    ASSUME TypeOK, NEW first \in Firsts, NEW h \in Table, NEW v \in vid_hash_table[h]
    PROVE  /\ v \in Vertex /\ first[<<h, v>>] \in Level /\ first[<<h, v>>] \in Nat
           /\ <<h, v>> \in Entries
           /\ first[<<h, v>>] < query.k =>
                 first[<<h, v>>] + 1 \in Level /\ first[<<h, v>>] + 1 \in 1 .. MaxLevel
<1>1. v \in Vertex /\ <<h, v>> \in Table \X Vertex /\ <<h, v>>[1] = h /\ <<h, v>>[2] = v
  BY DEF TypeOK
<1>2. first[<<h, v>>] \in Level
  BY <1>1 DEF Firsts
<1>3. query.k \in 0 .. MaxLevel /\ MaxLevel \in Nat
  BY TypesSay, SizeAssumption
<1> QED
  BY <1>1, <1>2, <1>3 DEF Level, Entries

\* Neither the tables nor what waits or is on its way.
LEMMA DataStays ==
    ASSUME TypeOK, NEW first \in Firsts, Data(first), UNCHANGED <<keys, query, vid_hash_table>>,
           \A v \in Vertex, l \in 1 .. MaxLevel : IsWaiting(v, l)' <=> IsWaiting(v, l),
           \A v, l : \A h \in Table : IsFound(v, l, h)' <=> IsFound(v, l, h)
    PROVE  Data(first)'
<1>1. Roots' = Roots /\ (\A n : Ball(n)' = Ball(n)) /\ \A v : Ends(v)' = Ends(v)
  BY SameQuery
<1>2. HomesOK'
  BY <1>1 DEF Data, HomesOK
<1>3. ReachOK(first)'
  BY <1>1 DEF Data, ReachOK
<1>4. ExpandedOK(first)'
  <2> SUFFICES ASSUME NEW h \in Table, NEW v \in vid_hash_table[h], first[<<h, v>>] < query.k
               PROVE  IsWaiting(v, first[<<h, v>>] + 1)' \/ IsExpanded(v, first[<<h, v>>] + 1)'
    BY DEF ExpandedOK
  <2>1. first[<<h, v>>] + 1 \in 1 .. MaxLevel /\ v \in Vertex
    BY FirstLevels
  <2>2. CASE IsWaiting(v, first[<<h, v>>] + 1)
    BY <2>1, <2>2
  <2>3. CASE IsExpanded(v, first[<<h, v>>] + 1)
    <3>1. ToSet(Ends(v)) \subseteq Vertex
      BY TypesSay, EndsFind, Elements
    <3>2. \A w \in ToSet(Ends(v)) : w % HashTables \in Table
      BY <3>1, HomeIsTable
    <3> QED
      BY <1>1, <2>3, <3>2 DEF IsExpanded
  <2> QED
    BY <2>2, <2>3 DEF Data, ExpandedOK
<1> QED
  BY <1>2, <1>3, <1>4 DEF Data

\* What a step that puts nothing into the tables has to leave.
LEMMA CountedStays ==
    ASSUME NEW first, CountedOK(first),
           UNCHANGED <<query, vid_hash_table, vertext_counter, count, wait_level>>,
           at'[Main] = "returned" => at[Main] = "returned"
    PROVE  CountedOK(first)'
<1>1. Entries' = Entries
  BY DEF Entries
<1> QED
  BY <1>1 DEF CountedOK

\* No level is started early, and those at rest stay at rest.
LEMMA LevelsStay ==
    ASSUME NEW first, LevelsOK(first),
           UNCHANGED <<keys, query, vid_hash_table, early, wait_level>>,
           \A b \in Actor : at'[b] = "start" => at[b] = "start",
           \A l \in Level : l > wait_level /\ queue[l] = <<>> /\ Busy(l) = {} =>
                               queue'[l] = <<>> /\ Busy(l)' = {}
    PROVE  LevelsOK(first)'
<1>1. Entries' = Entries /\ NoEarly' = NoEarly
  BY DEF Entries, NoEarly
<1>2. \A n : Ball(n)' = Ball(n)
  BY SameQuery
<1> QED
  BY <1>1, <1>2 DEF LevelsOK

\* main has the roots in hand, or they are in table 0.
LEMMA RootsStay ==
    ASSUME NEW first, RootsOK(first),
           UNCHANGED <<keys, query, vid_hash_table>>,
           \A v : IsFound(v, 0, 0)' <=> IsFound(v, 0, 0),
           \A h \in Table : hash_table_mu'[h] = Main <=> hash_table_mu[h] = Main,
           (\E v \in Vertex : IsFound(v, 0, 0)) /\ hash_table_mu[0] # Main =>
               ((\A l \in Level : queue[l] = <<>> /\ Busy(l) = {}) =>
                   \A l \in Level : queue'[l] = <<>> /\ Busy(l)' = {})
    PROVE  RootsOK(first)'
<1>1. Roots' = Roots
  BY SameQuery
<1>2. 0 \in Table
  BY SizeAssumption DEF Table
<1> QED
  BY <1>1, <1>2 DEF RootsOK

\* One actor moves, and has nothing in hand if it comes to rest.
LEMMA RestStays ==
    ASSUME RestOK, NEW a \in Actor,
           \A b \in Actor : b # a => at'[b] = at[b] /\ task'[b] = task[b],
           a \in Worker =>
              /\ at'[a] \in {"idle", "done"} => task'[a].vids = <<>> /\ Filled(a)' = {}
              /\ at'[a] \in {"complete", "insert", "start"} /\ ~ task'[a].midway => task'[a].vids = <<>>,
           a = Main => (at'[Main] \in {"wait", "flush", "returned"} => Filled(Main)' = {})
    PROVE  RestOK'
<1>1. \A b \in Actor : b # a => Filled(b)' = Filled(b)
  BY DEF Filled
<1>2. Main \in Actor /\ \A b \in Worker : b \in Actor
  BY Actors
<1> QED
  BY <1>1, <1>2 DEF RestOK

-----------------------------------------------------------------------------
(* The steps that only move what waits *)

\* No step but New and Expand changes what is on its way, if nothing is popped.
LEMMA FoundStays ==
    ASSUME \A b \in Actor : task'[b].found = task[b].found
    PROVE  /\ \A v, l, h : IsFound(v, l, h)' <=> IsFound(v, l, h)
           /\ \A b \in Actor : Filled(b)' = Filled(b)
  BY DEF IsFound, Filled

\* A task that is taken goes from the queue to the worker's hand.
LEMMA TakeWaits ==
    ASSUME Base, RestOK, NEW a \in Worker, Take(a)
    PROVE  /\ \A v \in Vertex, l \in 1 .. MaxLevel : IsWaiting(v, l)' <=> IsWaiting(v, l)
           /\ \A b \in Actor : task'[b].found = task[b].found /\ (b # a => task'[b] = task[b])
           /\ \A b \in Actor : at'[b] = IF b = a THEN "expand" ELSE at[b]
<1> DEFINE m == LevelOf(a)
           q == queue[m]
<1>1. /\ TypeOK /\ a \in Actor /\ m \in Level /\ at[a] = "idle" /\ q \in Seq(Seq(Vertex)) /\ q # <<>>
      /\ task \in [Actor -> Task]
  BY Actors DEF Base, TypeOK, Take, Task
<1>2. /\ task' = [task EXCEPT ![a] = [@ EXCEPT !.vids = Head(q), !.pending_num = 0]]
      /\ queue' = [queue EXCEPT ![m] = Tail(@)]
      /\ at' = [at EXCEPT ![a] = "expand"] /\ UNCHANGED pending
  BY DEF Take
<1>3. ToSet(q) = {Head(q)} \cup ToSet(Tail(q))
  BY <1>1, HeadAndTail
<1>4. task[a].vids = <<>> /\ ToSet(task[a].vids) = {}
  <2>1. task[a].vids = <<>>
    BY <1>1 DEF RestOK
  <2>2. ToSet(<<>>) = {}
    BY DEF ToSet
  <2> QED
    BY <2>1, <2>2
<1> HIDE DEF q
<1>5. /\ task'[a].vids = Head(q) /\ \A b \in Actor : b # a => task'[b] = task[b]
      /\ task'[a].found = task[a].found
  BY <1>1, <1>2 DEF Task
<1>6. \A l \in Level : queue'[l] = IF l = m THEN Tail(q) ELSE queue[l]
  BY <1>1, <1>2 DEF TypeOK, q
<1>7. \A b \in Worker : b \in Actor
  BY Actors
<1>8. ASSUME NEW v \in Vertex, NEW l \in 1 .. MaxLevel
      PROVE  IsWaiting(v, l)' <=> IsWaiting(v, l)
  <2>1. l \in Level
    BY SizeAssumption DEF Level
  <2>2. CASE l # m
    BY <1>2, <1>5, <1>6, <1>7, <2>1, <2>2 DEF IsWaiting
  <2>3. CASE l = m
    <3>1. IsWaiting(v, l)' => IsWaiting(v, l)
      <4> SUFFICES ASSUME IsWaiting(v, l)' PROVE IsWaiting(v, l)
        OBVIOUS
      <4>1. CASE v \in ToSet(pending'[l - 1])
        BY <1>2, <4>1 DEF IsWaiting
      <4>2. CASE \E vids \in ToSet(queue'[l]) : v \in ToSet(vids)
        BY <1>3, <1>6, <2>1, <2>3, <4>2 DEF IsWaiting, q
      <4>3. ASSUME NEW b \in Worker, LevelOf(b) = l, v \in ToSet(task'[b].vids) PROVE IsWaiting(v, l)
        <5>1. CASE b = a
          BY <1>3, <1>5, <2>3, <4>3, <5>1 DEF IsWaiting, q
        <5>2. CASE b # a
          BY <1>5, <1>7, <4>3, <5>2 DEF IsWaiting
        <5> QED
          BY <5>1, <5>2
      <4> QED
        BY <4>1, <4>2, <4>3 DEF IsWaiting
    <3>2. IsWaiting(v, l) => IsWaiting(v, l)'
      <4> SUFFICES ASSUME IsWaiting(v, l) PROVE IsWaiting(v, l)'
        OBVIOUS
      <4>1. CASE v \in ToSet(pending[l - 1])
        BY <1>2, <4>1 DEF IsWaiting
      <4>2. ASSUME NEW vids \in ToSet(queue[l]), v \in ToSet(vids) PROVE IsWaiting(v, l)'
        <5>1. vids = Head(q) \/ vids \in ToSet(queue'[l])
          BY <1>3, <1>6, <2>1, <2>3, <4>2 DEF q
        <5>2. vids = Head(q) => v \in ToSet(task'[a].vids) /\ LevelOf(a) = l
          BY <1>5, <2>3, <4>2
        <5> QED
          BY <4>2, <5>1, <5>2 DEF IsWaiting
      <4>3. ASSUME NEW b \in Worker, LevelOf(b) = l, v \in ToSet(task[b].vids) PROVE IsWaiting(v, l)'
        <5>1. b # a
          BY <1>4, <4>3
        <5> QED
          BY <1>5, <1>7, <4>3, <5>1 DEF IsWaiting
      <4> QED
        BY <4>1, <4>2, <4>3 DEF IsWaiting
    <3> QED
      BY <3>1, <3>2
  <2> QED
    BY <2>2, <2>3
<1>9. \A b \in Actor : at'[b] = IF b = a THEN "expand" ELSE at[b]
  BY <1>1, <1>2 DEF TypeOK
<1> QED
  BY <1>5, <1>8, <1>9

\* What is pending goes to the queue of the next level.
LEMMA StartWaits ==
    ASSUME TypeOK, NEW m \in Level, m + 1 \in Level, StartNext(m), UNCHANGED task
    PROVE  \A v \in Vertex, l \in 1 .. MaxLevel : IsWaiting(v, l)' <=> IsWaiting(v, l)
<1> DEFINE q == queue[m + 1]
<1>1. \A l \in Level : /\ pending'[l] = IF l = m THEN <<>> ELSE pending[l]
                       /\ queue'[l] = IF l = m + 1 THEN Append(queue[l], pending[m]) ELSE queue[l]
  BY NextTyped
<1>2. q \in Seq(Seq(Vertex)) /\ pending[m] \in Seq(Vertex)
  BY DEF TypeOK
<1>3. ToSet(Append(q, pending[m])) = ToSet(q) \cup {pending[m]}
  BY <1>2, Elements
<1>4. ToSet(<<>>) = {}
  BY DEF ToSet
<1>5. m \in Nat
  BY SizeAssumption DEF Level
<1> SUFFICES ASSUME NEW v \in Vertex, NEW l \in 1 .. MaxLevel
             PROVE  IsWaiting(v, l)' <=> IsWaiting(v, l)
  OBVIOUS
<1>6. l \in Level /\ l - 1 \in Level /\ (l - 1 = m <=> l = m + 1)
  BY <1>5, SizeAssumption DEF Level
<1>7. CASE l # m + 1
  BY <1>1, <1>6, <1>7 DEF IsWaiting
<1>8. CASE l = m + 1
  <2>1. /\ pending'[l - 1] = <<>> /\ pending[l - 1] = pending[m]
        /\ ToSet(queue'[l]) = ToSet(queue[l]) \cup {pending[m]}
    BY <1>1, <1>3, <1>6, <1>8
  <2> QED
    BY <1>4, <2>1 DEF IsWaiting
<1> QED
  BY <1>7, <1>8

\* A step of an actor inside its task, or of main with its list, that leaves
\* the tables, what waits and what is on its way.
LEMMA InsideQuiet ==
    ASSUME Base, NEW first \in Firsts, All(first),
           UNCHANGED <<keys, query, vid_hash_table, vertext_counter, count, wait_level, early,
                       queue, pending>>,
           \A b \in Actor : task'[b].found = task[b].found /\ task'[b].vids = task[b].vids,
           \A b \in Actor : (at'[b] = "idle" <=> at[b] = "idle") /\ (at'[b] = "start" => at[b] = "start"),
           at'[Main] = "returned" => at[Main] = "returned",
           \A h \in Table : hash_table_mu'[h] = Main <=> hash_table_mu[h] = Main
    PROVE  All(first)'
<1>1. /\ \A v, l, h : IsFound(v, l, h)' <=> IsFound(v, l, h)
  BY FoundStays
<1>2. \A b \in Worker : b \in Actor
  BY Actors
<1>3. \A v, l : IsWaiting(v, l)' <=> IsWaiting(v, l)
  BY <1>2 DEF IsWaiting
<1>4. \A l : Busy(l)' = Busy(l)
  BY <1>2 DEF Busy
<1>5. Data(first)'
  BY <1>1, <1>3, DataStays DEF All, Base
<1>6. CountedOK(first)'
  BY CountedStays DEF All
<1>7. LevelsOK(first)'
  BY <1>4, LevelsStay DEF All
<1>8. RootsOK(first)'
  BY <1>1, <1>4, RootsStay DEF All
<1> QED
  BY <1>5, <1>6, <1>7, <1>8 DEF All

\* The permit is given back.
LEMMA ReleaseWhole ==
    ASSUME Base, RestOK, NEW first \in Firsts, All(first), NEW a \in Worker, Release(a)
    PROVE  RestOK' /\ All(first)'
<1>1. /\ \A b \in Actor : task'[b].vids = task[b].vids /\ task'[b].found = task[b].found
      /\ \A b \in Actor : b # a => task'[b] = task[b]
  BY ReleaseTyped
<1>2. a \in Actor /\ a # Main /\ at[a] = "expand" /\ task[a].vids = <<>>
  BY Actors DEF Release
<1>3. \A b \in Actor : at'[b] = IF b = a THEN "complete" ELSE at[b]
  BY <1>2 DEF Release, Base, TypeOK
<1>4. UNCHANGED <<keys, query, vid_hash_table, hash_table_mu, vertext_counter, count, wait_level,
                  early, queue, pending>>
  BY DEF Release
<1>5. All(first)'
  BY <1>1, <1>2, <1>3, <1>4, Actors, InsideQuiet
<1>6. RestOK'
  BY <1>1, <1>2, <1>3, RestStays
<1> QED
  BY <1>5, <1>6

\* A table is locked.  When main locks one, it is table 0.
LEMMA LockWhole ==
    ASSUME Base, RestOK, NEW first \in Firsts, All(first), NEW a \in Actor, LockTable(a)
    PROVE  RestOK' /\ All(first)'
<1> DEFINE t == Min(Filled(a))
<1>1. t \in Filled(a) /\ t \in Table /\ TypeOK /\ at[a] = "complete"
  BY LockTyped DEF Base, LockTable
<1>2. /\ hash_table_mu' = [hash_table_mu EXCEPT ![t] = a] /\ hash_table_mu[t] = Nobody
      /\ at' = [at EXCEPT ![a] = "insert"]
      /\ UNCHANGED <<keys, query, vid_hash_table, pending, queue, vertext_counter, task,
                     wait_level, count, early>>
  BY DEF LockTable
<1>3. \A b \in Actor : at'[b] = IF b = a THEN "insert" ELSE at[b]
  BY <1>1, <1>2 DEF TypeOK
<1>4. \A h \in Table : hash_table_mu'[h] = IF h = t THEN a ELSE hash_table_mu[h]
  BY <1>1, <1>2 DEF TypeOK
<1>5. a = Main => t = 0
  <2> SUFFICES ASSUME a = Main PROVE t = 0
    OBVIOUS
  <2>1. task[Main].found[t] \in Seq(Vertex) /\ task[Main].found[t] # <<>>
    <3>1. task[Main].found \in [Table -> Seq(Vertex)]
      BY <1>1, Actors DEF TypeOK
    <3> HIDE DEF t
    <3> QED
      BY <1>1, <3>1 DEF Filled
  <2>2. PICK v : v \in ToSet(task[Main].found[t])
    BY <2>1, Elements
  <2>3. v \in Vertex
    BY <2>1, <2>2, Elements
  <2>4. IsFound(v, 0, t) /\ 0 \in Level
    BY <2>2, Actors, SizeAssumption DEF IsFound, Level
  <2> QED
    BY <1>1, <2>3, <2>4 DEF All, Data, HomesOK
<1>6. RestOK'
  BY <1>1, <1>2, <1>3, Actors, RestStays DEF RestOK
<1> HIDE DEF t
<1>7. /\ \A v, l, h : IsFound(v, l, h)' <=> IsFound(v, l, h)
  BY <1>2, FoundStays
<1>8. \A b \in Worker : b \in Actor
  BY Actors
<1>9. \A v, l : IsWaiting(v, l)' <=> IsWaiting(v, l)
  BY <1>2 DEF IsWaiting
<1>10. \A l : Busy(l)' = Busy(l)
  BY <1>1, <1>3, <1>8 DEF Busy
<1>11. Data(first)'
  BY <1>1, <1>2, <1>7, <1>9, DataStays DEF All
<1>12. CountedOK(first)'
  BY <1>1, <1>2, <1>3, Actors, CountedStays DEF All
<1>13. LevelsOK(first)'
  BY <1>1, <1>2, <1>3, <1>10, LevelsStay DEF All
<1>14. RootsOK(first)'
  <2>1. Roots' = Roots
    BY <1>2, SameQuery
  <2>2. \A h \in Table : hash_table_mu'[h] = Main => h = 0
    BY <1>4, <1>5 DEF All, RootsOK
  <2>3. hash_table_mu[0] = Main => hash_table_mu'[0] = Main
    <3>1. 0 \in Table /\ Nobody # Main
      BY SizeAssumption, Actors, NobodyIsNone DEF Table
    <3> QED
      BY <1>2, <1>4, <3>1
  <2> QED
    BY <1>2, <1>7, <1>10, <2>1, <2>2, <2>3 DEF All, RootsOK
<1> QED
  BY <1>6, <1>11, <1>12, <1>13, <1>14 DEF All

\* A table is unlocked.  When main does so, its list has been handed over.
LEMMA UnlockWhole ==
    ASSUME Base, RestOK, NEW first \in Firsts, All(first), NEW a \in Actor, UnlockTable(a)
    PROVE  RestOK' /\ All(first)'
<1> DEFINE t == Held(a)
<1>1. TypeOK /\ LocksOK /\ at[a] = "insert" /\ t \in Table /\ task[a].found[t] = <<>>
  BY UnlockTyped DEF Base, UnlockTable
<1>2. /\ at' = [at EXCEPT ![a] = "complete"]
      /\ UNCHANGED <<keys, query, vid_hash_table, pending, queue, vertext_counter, task,
                     wait_level, count, early>>
  BY DEF UnlockTable
<1>3. \A b \in Actor : at'[b] = IF b = a THEN "complete" ELSE at[b]
  BY <1>1, <1>2 DEF TypeOK
<1>4. /\ hash_table_mu[t] = a
      /\ \A h \in Table : hash_table_mu'[h] = IF h = t THEN Nobody ELSE hash_table_mu[h]
  BY UnlockTyped
<1>5. RestOK'
  BY <1>1, <1>2, <1>3, Actors, RestStays DEF RestOK
<1> HIDE DEF t
<1>6. /\ \A v, l, h : IsFound(v, l, h)' <=> IsFound(v, l, h)
  BY <1>2, FoundStays
<1>7. \A b \in Worker : b \in Actor
  BY Actors
<1>8. \A v, l : IsWaiting(v, l)' <=> IsWaiting(v, l)
  BY <1>2 DEF IsWaiting
<1>9. \A l : Busy(l)' = Busy(l)
  BY <1>1, <1>3, <1>7 DEF Busy
<1>10. Data(first)'
  BY <1>1, <1>2, <1>6, <1>8, DataStays DEF All
<1>11. CountedOK(first)'
  BY <1>1, <1>2, <1>3, Actors, CountedStays DEF All
<1>12. LevelsOK(first)'
  BY <1>1, <1>2, <1>3, <1>9, LevelsStay DEF All
<1>13. RootsOK(first)'
  <2>1. Roots' = Roots /\ Nobody # Main /\ 0 \in Table
    BY <1>2, SameQuery, Actors, NobodyIsNone, SizeAssumption DEF Table
  <2>2. \A h \in Table : hash_table_mu'[h] = Main => h = 0
    BY <1>4, <2>1 DEF All, RootsOK
  <2>3. CASE hash_table_mu[0] = Main /\ hash_table_mu'[0] # Main
    <3>1. a = Main /\ t = 0
      BY <1>4, <2>1, <2>3
    <3>2. \A v : ~ IsFound(v, 0, 0)
      <4>1. \A b \in Actor : LevelOf(b) = 0 => b = Main
        BY SizeAssumption, Actors DEF Actor
      <4>2. ToSet(<<>>) = {}
        BY DEF ToSet
      <4> QED
        BY <1>1, <3>1, <4>1, <4>2 DEF IsFound
    <3> QED
      BY <1>2, <1>6, <2>1, <2>2, <3>2 DEF All, RootsOK
  <2>4. CASE hash_table_mu[0] = Main => hash_table_mu'[0] = Main
    BY <1>2, <1>6, <1>9, <2>1, <2>2, <2>4 DEF All, RootsOK
  <2> QED
    BY <2>3, <2>4
<1> QED
  BY <1>5, <1>10, <1>11, <1>12, <1>13 DEF All

\* Everything has been handed over.
LEMMA CompletedWhole ==
    ASSUME Base, RestOK, NEW first \in Firsts, All(first), NEW a \in Actor, Completed(a)
    PROVE  RestOK' /\ All(first)'
<1>1. /\ \A b \in Actor : at'[b] = IF b # a THEN at[b] ELSE IF a = Main THEN "wait"
                                   ELSE IF task[a].midway THEN "expand" ELSE "done"
      /\ at[a] = "complete" /\ Filled(a) = {}
  BY CompletedTyped DEF Completed
<1>2. UNCHANGED <<keys, query, vid_hash_table, hash_table_mu, vertext_counter, count, wait_level,
                  early, queue, pending, task>>
  BY DEF Completed
<1>3. All(first)'
  BY <1>1, <1>2, Actors, InsideQuiet
<1>4. RestOK'
  <2>1. Filled(a)' = {}
    BY <1>1, <1>2 DEF Filled
  <2>2. a \in Worker => a # Main /\ (~ task[a].midway => task[a].vids = <<>>)
    BY <1>1, Actors DEF RestOK
  <2> QED
    BY <1>1, <1>2, <2>1, <2>2, RestStays
<1> QED
  BY <1>3, <1>4

\* main waits for a level.
LEMMA WaitWhole ==
    ASSUME Base, RestOK, NEW first \in Firsts, All(first), Wait
    PROVE  RestOK' /\ All(first)'
<1>1. /\ \A b \in Actor : at'[b] = IF b = Main THEN "flush" ELSE at[b]
      /\ at[Main] = "wait" /\ Main \in Actor
  BY Actors DEF Wait, Base, TypeOK
<1>2. UNCHANGED <<keys, query, vid_hash_table, hash_table_mu, vertext_counter, count, wait_level,
                  early, queue, pending, task>>
  BY DEF Wait
<1>3. All(first)'
  BY <1>1, <1>2, InsideQuiet
<1>4. RestOK'
  <2>1. Filled(Main)' = {}
    BY <1>1, <1>2 DEF Filled, RestOK
  <2>2. Main \notin Worker
    BY Actors
  <2> QED
    BY <1>1, <1>2, <2>1, <2>2, RestStays
<1> QED
  BY <1>3, <1>4

\* A worker takes a task.
LEMMA TakeWhole ==
    ASSUME Base, RestOK, NEW first \in Firsts, All(first), NEW a \in Worker, Take(a)
    PROVE  RestOK' /\ All(first)'
<1> DEFINE m == LevelOf(a)
<1>1. /\ \A v \in Vertex, l \in 1 .. MaxLevel : IsWaiting(v, l)' <=> IsWaiting(v, l)
      /\ \A b \in Actor : task'[b].found = task[b].found /\ (b # a => task'[b] = task[b])
      /\ \A b \in Actor : at'[b] = IF b = a THEN "expand" ELSE at[b]
  BY TakeWaits
<1>2. /\ TypeOK /\ a \in Actor /\ a # Main /\ Main \in Actor /\ at[a] = "idle" /\ m \in Level
      /\ queue[m] # <<>>
  BY Actors DEF Base, Take
<1>3. /\ UNCHANGED <<keys, query, vid_hash_table, hash_table_mu, vertext_counter, count, wait_level,
                     early>>
      /\ \A l \in Level : l # m => queue'[l] = queue[l]
  BY DEF Take, TypeOK, Base
<1>4. \A v, l, h : IsFound(v, l, h)' <=> IsFound(v, l, h)
  BY <1>1, FoundStays
<1>5. \A b \in Worker : b \in Actor
  BY Actors
<1>6. \A l : l # m => Busy(l)' = Busy(l)
  BY <1>1, <1>5 DEF Busy
<1>7. Data(first)'
  BY <1>1, <1>2, <1>3, <1>4, DataStays DEF All
<1>8. CountedOK(first)'
  BY <1>1, <1>2, <1>3, CountedStays DEF All
<1> HIDE DEF m
<1>9. LevelsOK(first)'
  <2>1. \A l \in Level : queue[l] = <<>> => l # m
    BY <1>2
  <2> QED
    BY <1>1, <1>2, <1>3, <1>6, <2>1, LevelsStay DEF All
<1>10. RootsOK(first)'
  BY <1>2, <1>3, <1>4, RootsStay DEF All
<1>11. RestOK'
  BY <1>1, <1>2, RestStays
<1> QED
  BY <1>7, <1>8, <1>9, <1>10, <1>11 DEF All

\* A task ends.
LEMMA DoneWhole ==
    ASSUME Base, RestOK, NEW first \in Firsts, All(first), NEW a \in Worker, Done(a)
    PROVE  RestOK' /\ All(first)'
<1>1. /\ \A b \in Actor : at'[b] = IF b = a THEN "idle" ELSE at[b]
      /\ TypeOK /\ a \in Actor /\ a # Main /\ Main \in Actor /\ at[a] = "done"
      /\ task[a].vids = <<>> /\ Filled(a) = {}
  BY Actors DEF Base, Done, TypeOK, RestOK
<1>2. UNCHANGED <<keys, query, vid_hash_table, hash_table_mu, vertext_counter, count, wait_level,
                  early, queue, pending, task>>
  BY DEF Done
<1>3. \A v, l, h : IsFound(v, l, h)' <=> IsFound(v, l, h)
  BY <1>2, FoundStays
<1>4. \A b \in Worker : b \in Actor
  BY Actors
<1>5. \A l : Busy(l)' \subseteq Busy(l)
  BY <1>1, <1>4 DEF Busy
<1>6. \A v, l : IsWaiting(v, l)' <=> IsWaiting(v, l)
  BY <1>2 DEF IsWaiting
<1>7. Data(first)'
  BY <1>1, <1>2, <1>3, <1>6, DataStays DEF All
<1>8. CountedOK(first)'
  BY <1>1, <1>2, CountedStays DEF All
<1>9. \A l : Busy(l) = {} => Busy(l)' = {}
  BY <1>5
<1>10. LevelsOK(first)'
  BY <1>1, <1>2, <1>9, LevelsStay DEF All
<1>11. RootsOK(first)'
  BY <1>2, <1>3, <1>9, RootsStay DEF All
<1>12. RestOK'
  <2>1. Filled(a)' = {}
    BY <1>1, <1>2 DEF Filled
  <2> QED
    BY <1>1, <1>2, <2>1, RestStays
<1> QED
  BY <1>7, <1>8, <1>10, <1>11, <1>12 DEF All

\* A full array is handed to the next level: that is early.
LEMMA StartWhole ==
    ASSUME Base, RestOK, NEW first \in Firsts, All(first), NEW a \in Actor, Start(a)
    PROVE  RestOK' /\ All(first)'
<1> DEFINE m == LevelOf(a)
<1>1. /\ StartNext(m) /\ m \in Level /\ m + 1 \in Level /\ m < query.k
      /\ \A b \in Actor : at'[b] = IF b = a THEN "insert" ELSE at[b]
      /\ TypeOK /\ LocksOK /\ at[a] = "start" /\ Main \in Actor
  BY StartTyped, Actors DEF Base, Start
<1>2. UNCHANGED <<keys, query, vid_hash_table, hash_table_mu, vertext_counter, count, wait_level,
                  early, task>>
  BY DEF Start
<1>3. \A v, l, h : IsFound(v, l, h)' <=> IsFound(v, l, h)
  BY <1>2, FoundStays
<1>4. \A b \in Worker : b \in Actor
  BY Actors
<1>5. Data(first)'
  <2>1. \A v \in Vertex, l \in 1 .. MaxLevel : IsWaiting(v, l)' <=> IsWaiting(v, l)
    BY <1>1, <1>2, StartWaits
  <2> QED
    BY <1>1, <1>2, <1>3, <2>1, DataStays DEF All
<1>6. CountedOK(first)'
  BY <1>1, <1>2, CountedStays DEF All
<1>7. LevelsOK(first)'
  <2>1. early[m + 1] > 0
    BY <1>1 DEF All, LevelsOK
  <2>2. ~ NoEarly'
    <3>1. early'[m + 1] # 0
      BY <1>2, <2>1
    <3> HIDE DEF m
    <3> QED
      BY <1>1, <3>1 DEF NoEarly
  <2>3. \A b \in Actor : at'[b] = "start" => early'[LevelOf(b) + 1] > 0
    BY <1>1, <1>2 DEF All, LevelsOK
  <2> QED
    BY <2>2, <2>3 DEF LevelsOK
<1>8. RootsOK(first)'
  <2>1. hash_table_mu[0] = Main \/ a \in Busy(m)
    <3>1. CASE a = Main
      <4>1. PICK h \in Table : hash_table_mu[h] = Main
        BY <1>1, <3>1 DEF LocksOK
      <4> QED
        BY <4>1 DEF All, RootsOK
    <3>2. CASE a \in Worker
      BY <1>1, <3>2 DEF Busy
    <3> QED
      BY <3>1, <3>2 DEF Actor
  <2>2. hash_table_mu[0] = Main \/ ~ \A l \in Level : queue[l] = <<>> /\ Busy(l) = {}
    BY <1>1, <2>1
  <2> QED
    BY <1>2, <1>3, <2>2, RootsStay DEF All
<1>9. RestOK'
  <2>1. a \in Worker => (~ task[a].midway => task[a].vids = <<>>)
    BY <1>1 DEF RestOK
  <2> QED
    BY <1>1, <1>2, <2>1, RestStays
<1> QED
  BY <1>5, <1>6, <1>7, <1>8, <1>9 DEF All

\* main has nothing on its way when its list has been handed over.
LEMMA MainIsDone ==
    ASSUME Base, RestOK, at[Main] \in {"wait", "flush", "returned"}
    PROVE  \A v : \A h \in Table : ~ IsFound(v, 0, h)
<1>1. Filled(Main) = {}
  BY DEF RestOK
<1>2. \A b \in Actor : LevelOf(b) = 0 => b = Main
  BY SizeAssumption, Actors DEF Actor
<1>3. ToSet(<<>>) = {}
  BY DEF ToSet
<1> QED
  BY <1>1, <1>2, <1>3 DEF IsFound, Filled

\* Sets of entries are finite.
LEMMA EntrySets ==
    ASSUME NEW S \in SUBSET (Table \X Vertex)
    PROVE  IsFiniteSet(S) /\ Cardinality(S) \in Nat
<1>1. IsFiniteSet(Table)
  BY SizeAssumption, FS_Interval DEF Table
<1>2. IsFiniteSet(Table \X Vertex)
  BY <1>1, VertexAssumption, FS_Product
<1> QED
  BY <1>2, FS_Subset, FS_CardinalityType

\* Nothing waits at a level that is at rest, and nothing is on its way there.
LEMMA Resting ==
    ASSUME Base, RestOK, NEW l \in 1 .. MaxLevel,
           pending[l - 1] = <<>>, queue[l] = <<>>, Busy(l) = {}
    PROVE  /\ \A v : ~ IsWaiting(v, l)
           /\ \A v : \A h \in Table : ~ IsFound(v, l, h)
<1>1. ToSet(<<>>) = {}
  BY DEF ToSet
<1>2. \A b \in Worker : LevelOf(b) = l => task[b].vids = <<>> /\ Filled(b) = {}
  BY DEF Busy, RestOK
<1>3. \A b \in Actor : LevelOf(b) = l => b \in Worker
  <2>1. LevelOf(Main) # l
    BY Actors, SizeAssumption
  <2> QED
    BY <2>1 DEF Actor
<1>4. \A v : ~ IsWaiting(v, l)
  BY <1>1, <1>2 DEF IsWaiting
<1>5. \A v : \A h \in Table : ~ IsFound(v, l, h)
  BY <1>1, <1>2, <1>3 DEF IsFound, Filled
<1> QED
  BY <1>4, <1>5

\* What is joined to an entry above a level that is at rest has an entry.
LEMMA AllAreEntries ==
    ASSUME Base, RestOK, NEW first \in Firsts, All(first),
           NEW h \in Table, NEW v \in vid_hash_table[h], first[<<h, v>>] < query.k,
           pending[first[<<h, v>>]] = <<>>, queue[first[<<h, v>>] + 1] = <<>>,
           Busy(first[<<h, v>>] + 1) = {},
           NEW key \in ToSet(keys), key[1] = v, Followed(key)
    PROVE  key[4] \in Vertex /\ key[4] \in vid_hash_table[key[4] % HashTables]
<1> DEFINE l == first[<<h, v>>] + 1
           w == key[4]
<1>1. TypeOK /\ l \in 1 .. MaxLevel /\ l - 1 = first[<<h, v>>]
  BY FirstLevels DEF Base
<1>2. w \in ToSet(Ends(v)) /\ ToSet(Ends(v)) \subseteq Vertex
  BY <1>1, TypesSay, EndsFind, Elements
<1>3. w % HashTables \in Table
  BY <1>2, HomeIsTable
<1>4. IsExpanded(v, l)
  <2>1. \A u : ~ IsWaiting(u, l)
    BY <1>1, Resting
  <2> QED
    BY <2>1 DEF All, Data, ExpandedOK
<1>5. ~ IsFound(w, l, w % HashTables)
  BY <1>1, <1>3, Resting
<1> QED
  BY <1>2, <1>4, <1>5 DEF IsExpanded

\* If the levels came one after the other, the tables have the ball of the
\* level that main is flushing.
LEMMA FlushFindsBall ==
    ASSUME Base, RestOK, NEW first \in Firsts, All(first), Flush, NoEarly, NEW v \in Ball(wait_level)
    PROVE  \E h \in Table : v \in vid_hash_table[h] /\ first[<<h, v>>] <= wait_level
<1>1. /\ TypeOK /\ at[Main] = "flush" /\ wait_level \in Level /\ wait_level \in Nat
      /\ wait_level <= query.k /\ keys \in Seq(Keys) /\ query \in Queries
      /\ query.k \in 0 .. MaxLevel /\ MaxLevel \in Nat
  BY FlushTyped, TypesSay, SizeAssumption DEF Flush, Base
<1>2. CASE wait_level = 0
  <2>1. v \in Roots
    BY <1>1, <1>2, BallSteps
  <2>2. 0 \in Table
    BY SizeAssumption DEF Table
  <2>3. v \in vid_hash_table[0] /\ first[<<0, v>>] = 0
    BY <1>1, <2>1, <2>2, MainIsDone DEF All, RootsOK
  <2> QED
    BY <1>2, <2>2, <2>3
<1>3. CASE wait_level # 0
  <2> DEFINE n == wait_level - 1
  <2>1. n \in Nat /\ n + 1 = wait_level /\ n < wait_level
    BY <1>1, <1>3
  <2>2. v \in NextTo(Ball(n))
    <3>1. Ball(n + 1) = NextTo(Ball(n))
      BY <1>1, <2>1, BallSteps
    <3> QED
      BY <2>1, <3>1
  <2>3. \A u \in Ball(n) : \E h \in Table : u \in vid_hash_table[h] /\ first[<<h, u>>] <= n
    BY <2>1 DEF All, LevelsOK
  <2>4. CASE v \in Ball(n)
    <3>1. PICK h \in Table : v \in vid_hash_table[h] /\ first[<<h, v>>] <= n
      BY <2>3, <2>4
    <3>2. first[<<h, v>>] \in Nat
      BY <1>1, <3>1, FirstLevels
    <3> QED
      BY <2>1, <3>1, <3>2
  <2>5. CASE v \notin Ball(n)
    <3>1. PICK key \in ToSet(keys) : key[1] \in Ball(n) /\ Followed(key) /\ key[4] = v
      BY <2>2, <2>5 DEF NextTo
    <3>2. PICK h \in Table : key[1] \in vid_hash_table[h] /\ first[<<h, key[1]>>] <= n
      BY <2>3, <3>1
    <3> DEFINE l == first[<<h, key[1]>>]
    <3>3. l \in Nat /\ l < wait_level /\ l + 1 <= wait_level /\ l < query.k
      BY <1>1, <2>1, <3>2, FirstLevels
    <3>4. l \in Level /\ l + 1 \in Level
      BY <1>1, <3>3 DEF Level
    <3> HIDE DEF l, n
    <3>5. pending[l] = <<>>
      BY <1>1, <3>3, <3>4 DEF Base, Inv, PastOK
    <3>6. queue[l + 1] = <<>> /\ Busy(l + 1) = {}
      <4>1. l + 1 = wait_level \/ l + 1 < wait_level
        BY <1>1, <3>3
      <4> QED
        BY <1>1, <3>4, <4>1 DEF Base, Inv, PastOK
    <3>7. v \in Vertex /\ v \in vid_hash_table[v % HashTables]
      BY <3>1, <3>2, <3>3, <3>5, <3>6, AllAreEntries DEF l
    <3>8. v % HashTables \in Table
      BY <3>7, HomeIsTable
    <3>9. <<v % HashTables, v>> \in Entries
      BY <1>1, <3>7, <3>8, FirstLevels
    <3>10. first[<<v % HashTables, v>>] <= wait_level
      BY <3>9 DEF All, LevelsOK
    <3> QED
      BY <3>7, <3>8, <3>10
  <2> QED
    BY <2>4, <2>5
<1> QED
  BY <1>2, <1>3

\* main goes past a level.
LEMMA FlushWhole ==
    ASSUME Base, RestOK, NEW first \in Firsts, All(first), Flush
    PROVE  RestOK' /\ All(first)'
<1> DEFINE w == wait_level
<1>1. /\ TypeOK /\ w \in Level /\ w \in Nat /\ w <= query.k /\ at[Main] = "flush" /\ Main \in Actor
      /\ (StartNext(w) /\ w + 1 \in Level) \/ UNCHANGED <<queue, pending>>
      /\ \A b \in Actor : at'[b] = IF b # Main THEN at[b] ELSE IF w = query.k THEN "returned" ELSE "wait"
  BY FlushTyped, Actors DEF Base, Flush
<1>2. /\ count' = count + vertext_counter[w] /\ wait_level' = w + 1
      /\ UNCHANGED <<keys, query, vid_hash_table, hash_table_mu, vertext_counter, task, early>>
  BY DEF Flush
<1>3. /\ \A v, l, h : IsFound(v, l, h)' <=> IsFound(v, l, h)
      /\ \A b \in Actor : Filled(b)' = Filled(b)
  BY <1>2, FoundStays
<1>4. Main \notin Worker /\ \A b \in Worker : b \in Actor
  BY Actors
<1>5. \A l : Busy(l)' = Busy(l)
  BY <1>1, <1>4 DEF Busy
<1>6. Data(first)'
  <2>1. \A v \in Vertex, l \in 1 .. MaxLevel : IsWaiting(v, l)' <=> IsWaiting(v, l)
    <3>1. CASE StartNext(w) /\ w + 1 \in Level
      BY <1>1, <1>2, <3>1, StartWaits
    <3>2. CASE UNCHANGED <<queue, pending>>
      BY <1>2, <3>2 DEF IsWaiting
    <3> QED
      BY <1>1, <3>1, <3>2
  <2> QED
    BY <1>1, <1>2, <1>3, <2>1, DataStays DEF All
<1>7. Entries' = Entries /\ Entries \subseteq Table \X Vertex
  BY <1>2 DEF Entries
<1>8. CountedOK(first)'
  <2> DEFINE Here == {p \in Entries : first[p] = w}
             Past == {p \in Entries : first[p] < w}
             Now == {p \in Entries : first[p] < w + 1}
  <2>1. \A p \in Entries : first[p] \in Nat
    BY <1>7, SizeAssumption DEF Firsts, Level
  <2>2. Now = Here \cup Past /\ Here \cap Past = {}
    BY <1>1, <2>1
  <2>3. /\ IsFiniteSet(Here) /\ IsFiniteSet(Past)
        /\ Cardinality(Here) \in Nat /\ Cardinality(Past) \in Nat
    <3>1. Here \in SUBSET (Table \X Vertex) /\ Past \in SUBSET (Table \X Vertex)
      BY <1>7
    <3> HIDE DEF Here, Past
    <3> QED
      BY <3>1, EntrySets
  <2>4. Cardinality(Now) = Cardinality(Past) + Cardinality(Here)
    <3>1. Cardinality(Here \cap Past) = 0
      BY <2>2, FS_EmptySet
    <3> HIDE DEF Here, Past, Now
    <3>2. Cardinality(Here \cup Past) = Cardinality(Here) + Cardinality(Past) - Cardinality(Here \cap Past)
      BY <2>3, FS_Union
    <3> QED
      BY <2>2, <2>3, <3>1, <3>2
  <2>5. count' = Cardinality(Now)
    <3>1. count = Cardinality(Past) /\ vertext_counter[w] = Cardinality(Here)
      BY <1>1 DEF All, CountedOK
    <3> QED
      BY <1>2, <2>4, <3>1
  <2>6. at'[Main] = "returned" => wait_level' = query.k + 1
    BY <1>1, <1>2
  <2> HIDE DEF w
  <2>7. \A p \in Entries' : first[p] <= query.k'
    BY <1>2, <1>7 DEF All, CountedOK
  <2>8. \A l \in Level : vertext_counter'[l] = Cardinality({p \in Entries' : first[p] = l})
    BY <1>2, <1>7 DEF All, CountedOK
  <2>9. count' = Cardinality({p \in Entries' : first[p] < wait_level'})
    BY <1>2, <1>7, <2>5
  <2> QED
    BY <1>2, <2>6, <2>7, <2>8, <2>9 DEF CountedOK
<1>9. LevelsOK(first)'
  <2>1. \A b \in Actor : at'[b] = "start" => early'[LevelOf(b) + 1] > 0
    BY <1>1, <1>2 DEF All, LevelsOK
  <2>2. ASSUME NoEarly'
        PROVE  /\ \A p \in Entries : first[p] <= w + 1
               /\ \A l \in Level : l > w + 1 => queue'[l] = <<>> /\ Busy(l)' = {}
               /\ \A n \in Nat : n < w + 1 =>
                     \A v \in Ball(n) : \E h \in Table : v \in vid_hash_table[h] /\ first[<<h, v>>] <= n
    <3>1. NoEarly
      BY <1>2, <2>2 DEF NoEarly
    <3>2. \A p \in Entries : first[p] <= w + 1
      <4>1. \A p \in Entries : first[p] <= w /\ first[p] \in Nat
        BY <1>7, <3>1, SizeAssumption DEF All, LevelsOK, Firsts, Level
      <4> QED
        BY <1>1, <4>1
    <3>3. ASSUME NEW l \in Level, l > w + 1 PROVE queue'[l] = <<>> /\ Busy(l)' = {}
      <4>1. l > w /\ l # w + 1
        BY <1>1, <3>3, SizeAssumption DEF Level
      <4>2. queue[l] = <<>> /\ Busy(l) = {}
        BY <3>1, <4>1 DEF All, LevelsOK
      <4>3. queue'[l] = queue[l]
        BY <1>1, <4>1, NextTyped
      <4> QED
        BY <1>5, <4>2, <4>3
    <3>4. ASSUME NEW n \in Nat, n < w + 1, NEW v \in Ball(n)
          PROVE  \E h \in Table : v \in vid_hash_table[h] /\ first[<<h, v>>] <= n
      <4>1. n = w \/ n < w
        BY <1>1, <3>4
      <4>2. CASE n = w
        BY <3>1, <3>4, <4>2, FlushFindsBall
      <4>3. CASE n < w
        BY <3>1, <4>3 DEF All, LevelsOK
      <4> QED
        BY <4>1, <4>2, <4>3
    <3> QED
      BY <3>2, <3>3, <3>4
  <2>3. \A n : Ball(n)' = Ball(n)
    BY <1>2, SameQuery
  <2> HIDE DEF w
  <2> QED
    BY <1>2, <1>7, <2>1, <2>2, <2>3 DEF LevelsOK
<1>10. RootsOK(first)'
  <2>1. Roots' = Roots
    BY <1>2, SameQuery
  <2>2. \A v : ~ IsFound(v, 0, 0)
    <3>1. 0 \in Table
      BY SizeAssumption DEF Table
    <3> QED
      BY <1>1, <3>1, MainIsDone
  <2> QED
    BY <1>2, <1>3, <2>1, <2>2 DEF All, RootsOK
<1>11. RestOK'
  <2>1. Filled(Main)' = {}
    BY <1>1, <1>3 DEF RestOK
  <2> QED
    BY <1>1, <1>2, <1>4, <2>1, RestStays
<1> QED
  BY <1>6, <1>8, <1>9, <1>10, <1>11 DEF All

-----------------------------------------------------------------------------
(* The steps that deal with vertices *)

\* One vertex less is on its way.
LEMMA PopFound ==
    ASSUME TypeOK, NEW a \in Actor, Held(a) \in Table, task[a].found[Held(a)] # <<>>,
           task' = Popped(a)
    PROVE  /\ NextVid(a) \in Vertex /\ IsFound(NextVid(a), LevelOf(a), Held(a))
           /\ \A v, l : \A h \in Table :
                 /\ IsFound(v, l, h)' => IsFound(v, l, h)
                 /\ IsFound(v, l, h) => \/ IsFound(v, l, h)'
                                        \/ v = NextVid(a) /\ l = LevelOf(a) /\ h = Held(a)
           /\ \A b \in Actor : /\ task'[b].vids = task[b].vids /\ task'[b].midway = task[b].midway
                               /\ b # a => task'[b] = task[b]
<1> DEFINE t == Held(a)
           w == NextVid(a)
           q == task[a].found[t]
<1>1. /\ \A b \in Actor : b # a => task'[b] = task[b]
      /\ task'[a].vids = task[a].vids /\ task'[a].midway = task[a].midway
      /\ \A h \in Table : task'[a].found[h] = IF h = t THEN Tail(task[a].found[h])
                                              ELSE task[a].found[h]
      /\ w \in Vertex
      /\ ToSet(q) = {w} \cup ToSet(Tail(q))
  BY PopTyped
<1> HIDE DEF t, w, q
<1>2. IsFound(w, LevelOf(a), t)
  BY <1>1 DEF IsFound, q
<1>3. ASSUME NEW v, NEW l, NEW h \in Table, IsFound(v, l, h)'
      PROVE  IsFound(v, l, h)
  <2>1. PICK b \in Actor : LevelOf(b) = l /\ v \in ToSet(task'[b].found[h])
    BY <1>3 DEF IsFound
  <2>2. v \in ToSet(task[b].found[h])
    BY <1>1, <2>1 DEF q
  <2> QED
    BY <2>1, <2>2 DEF IsFound
<1>4. ASSUME NEW v, NEW l, NEW h \in Table, IsFound(v, l, h)
      PROVE  IsFound(v, l, h)' \/ (v = w /\ l = LevelOf(a) /\ h = t)
  <2>1. PICK b \in Actor : LevelOf(b) = l /\ v \in ToSet(task[b].found[h])
    BY <1>4 DEF IsFound
  <2>2. v \in ToSet(task'[b].found[h]) \/ (b = a /\ h = t /\ v = w)
    BY <1>1, <2>1 DEF q
  <2> QED
    BY <2>1, <2>2 DEF IsFound
<1> QED
  BY <1>1, <1>2, <1>3, <1>4 DEF t, w

\* A vertex that has an entry already.
LEMMA KnownWhole ==
    ASSUME Base, RestOK, NEW first \in Firsts, All(first), NEW a \in Actor, Known(a)
    PROVE  RestOK' /\ All(first)'
<1> DEFINE t == Held(a)
           w == NextVid(a)
           m == LevelOf(a)
<1>1. /\ TypeOK /\ t \in Table /\ w \in vid_hash_table[t] /\ at[a] = "insert"
      /\ task[a].found[t] # <<>> /\ task' = Popped(a)
  BY KnownTyped DEF Base, Known
<1>2. /\ w \in Vertex /\ IsFound(w, m, t)
      /\ \A v, l : \A h \in Table :
            /\ IsFound(v, l, h)' => IsFound(v, l, h)
            /\ IsFound(v, l, h) => IsFound(v, l, h)' \/ (v = w /\ l = m /\ h = t)
      /\ \A b \in Actor : /\ task'[b].vids = task[b].vids /\ task'[b].midway = task[b].midway
                          /\ b # a => task'[b] = task[b]
  BY <1>1, PopFound
<1>3. UNCHANGED <<keys, query, vid_hash_table, hash_table_mu, pending, queue, vertext_counter, at,
                  wait_level, count, early>>
  BY DEF Known
<1> HIDE DEF t, w, m
<1>4. \A v, l : IsWaiting(v, l)' <=> IsWaiting(v, l)
  <2>1. \A b \in Worker : b \in Actor
    BY Actors
  <2> QED
    BY <1>2, <1>3, <2>1 DEF IsWaiting
<1>5. Roots' = Roots /\ (\A n : Ball(n)' = Ball(n)) /\ \A v : Ends(v)' = Ends(v)
  BY <1>3, SameQuery
<1>6. HomesOK'
  BY <1>2, <1>3, <1>5 DEF All, Data, HomesOK
<1>7. ReachOK(first)'
  BY <1>2, <1>3, <1>4, <1>5 DEF All, Data, ReachOK
<1>8. ExpandedOK(first)'
  <2> SUFFICES ASSUME NEW h \in Table, NEW v \in vid_hash_table[h], first[<<h, v>>] < query.k,
                      IsExpanded(v, first[<<h, v>>] + 1)
               PROVE  IsExpanded(v, first[<<h, v>>] + 1)'
    BY <1>3, <1>4 DEF All, Data, ExpandedOK
  <2> DEFINE l == first[<<h, v>>] + 1
  <2> HIDE DEF l
  <2> SUFFICES ASSUME NEW e \in ToSet(Ends(v))
               PROVE  e \in vid_hash_table[e % HashTables] \/ IsFound(e, l, e % HashTables)'
    BY <1>3, <1>5 DEF IsExpanded, l
  <2>1. e % HashTables \in Table
    BY <1>1, TypesSay, EndsFind, Elements, HomeIsTable
  <2>2. e \in vid_hash_table[e % HashTables] \/ IsFound(e, l, e % HashTables)
    BY DEF IsExpanded, l
  <2> QED
    BY <1>1, <1>2, <2>1, <2>2
<1>9. RootsOK(first)'
  <2>1. 0 \in Table
    BY SizeAssumption DEF Table
  <2>2. \A v \in Roots : IsFound(v, 0, 0)' \/ (v \in vid_hash_table[0] /\ first[<<0, v>>] = 0)
    <3> SUFFICES ASSUME NEW v \in Roots, IsFound(v, 0, 0), ~ IsFound(v, 0, 0)'
                 PROVE  v \in vid_hash_table[0] /\ first[<<0, v>>] = 0
      BY DEF All, RootsOK
    <3>1. v = w /\ t = 0
      BY <1>2, <2>1
    <3> QED
      BY <1>1, <1>2, <3>1 DEF All, RootsOK
  <2>3. \A l : Busy(l)' = Busy(l)
    BY <1>3 DEF Busy
  <2> QED
    BY <1>2, <1>3, <1>5, <2>1, <2>2, <2>3 DEF All, RootsOK
<1>10. CountedOK(first)'
  BY <1>3, CountedStays DEF All
<1>11. LevelsOK(first)'
  <2>1. \A l : Busy(l)' = Busy(l)
    BY <1>3 DEF Busy
  <2> QED
    BY <1>3, <2>1, LevelsStay DEF All
<1>12. RestOK'
  BY <1>1, <1>2, <1>3, RestStays DEF RestOK
<1> QED
  BY <1>6, <1>7, <1>8, <1>9, <1>10, <1>11, <1>12 DEF All, Data

\* The neighbours of a vertex are on their way, and it has been expanded.
LEMMA ExpandWhole ==
    ASSUME Base, RestOK, NEW first \in Firsts, All(first), NEW a \in Worker, Expand(a)
    PROVE  RestOK' /\ All(first)'
<1> DEFINE m == LevelOf(a)
           x == Head(task[a].vids)
           q == task[a].vids
<1>1. /\ TypeOK /\ a \in Actor /\ a # Main /\ Main \in Actor /\ m \in 1 .. MaxLevel /\ m \in Level
      /\ at[a] = "expand" /\ q # <<>> /\ q \in Seq(Vertex) /\ task[a].found \in [Table -> Seq(Vertex)]
  BY Actors DEF Base, Expand, TypeOK
<1>2. /\ \A b \in Actor : b # a => task'[b] = task[b]
      /\ task'[a].vids = Tail(q) /\ task'[a].found = Hashed(task[a].found, Ends(x))
      /\ \A b \in Actor : at'[b] = at[b] \/ (b = a /\ at'[b] = "complete" /\ task'[b].midway)
  BY ExpandTyped
<1>3. UNCHANGED <<keys, query, vid_hash_table, hash_table_mu, pending, queue, vertext_counter,
                  wait_level, count, early>>
  BY DEF Expand
<1>4. ToSet(q) = {x} \cup ToSet(Tail(q)) /\ x \in Vertex
  <2>1. Head(q) \in Vertex
    BY <1>1
  <2> QED
    BY <1>1, <2>1, HeadAndTail
<1>5. /\ Ends(x) \in Seq(Vertex)
      /\ ToSet(Ends(x)) = {key[4] : key \in {k \in ToSet(keys) : k[1] = x /\ Followed(k)}}
      /\ ToSet(Ends(x)) \subseteq Vertex
  BY <1>1, TypesSay, EndsFind, Elements
<1> HIDE DEF x
<1>6. \A h \in Table : ToSet(task'[a].found[h]) = ToSet(task[a].found[h])
                                                   \cup {v \in ToSet(Ends(x)) : v % HashTables = h}
  <2> DEFINE f == task[a].found
             e == Ends(x)
  <2>1. f \in [Table -> Seq(Vertex)] /\ e \in Seq(Vertex) /\ task'[a].found = Hashed(f, e)
    BY <1>1, <1>2, <1>5
  <2> HIDE DEF f, e, q
  <2>2. \A h \in Table : ToSet(Hashed(f, e)[h])
                           = ToSet(f[h]) \cup {v \in ToSet(e) : v % HashTables = h}
    BY <2>1, HashedHas
  <2> QED
    BY <2>1, <2>2 DEF f, e
<1> HIDE DEF q, m
<1>7. \A v, l : \A h \in Table :
         IsFound(v, l, h)' <=> IsFound(v, l, h) \/ (l = m /\ v \in ToSet(Ends(x)) /\ v % HashTables = h)
  BY <1>1, <1>2, <1>6 DEF IsFound, m
<1>8. /\ IsWaiting(x, m)
      /\ \A v, l : /\ IsWaiting(v, l)' => IsWaiting(v, l)
                   /\ IsWaiting(v, l) => IsWaiting(v, l)' \/ (v = x /\ l = m)
  <2>1. \A b \in Worker : b \in Actor
    BY Actors
  <2>2. IsWaiting(x, m)
    BY <1>4 DEF IsWaiting, q, m
  <2>3. ASSUME NEW v, NEW l, IsWaiting(v, l)' PROVE IsWaiting(v, l)
    <3>1. \A b \in Worker : v \in ToSet(task'[b].vids) => v \in ToSet(task[b].vids)
      BY <1>2, <1>4, <2>1 DEF q
    <3> QED
      BY <1>3, <2>3, <3>1 DEF IsWaiting
  <2>4. ASSUME NEW v, NEW l, IsWaiting(v, l) PROVE IsWaiting(v, l)' \/ (v = x /\ l = m)
    <3>1. \A b \in Worker : v \in ToSet(task[b].vids) =>
                               v \in ToSet(task'[b].vids) \/ (v = x /\ b = a)
      BY <1>2, <1>4, <2>1 DEF q
    <3> QED
      BY <1>3, <2>4, <3>1 DEF IsWaiting, m
  <2> QED
    BY <2>2, <2>3, <2>4
<1>9. Roots' = Roots /\ (\A n : Ball(n)' = Ball(n)) /\ \A v : Ends(v)' = Ends(v)
  BY <1>3, SameQuery
<1>10. m # 0
  BY <1>1
<1>11. HomesOK'
  BY <1>3, <1>7, <1>9, <1>10 DEF All, Data, HomesOK
<1>12. ToSet(Ends(x)) \subseteq Ball(m)
  <2>1. x \in Ball(m - 1)
    BY <1>1, <1>4, <1>8 DEF All, Data, ReachOK
  <2>2. m - 1 \in Nat /\ (m - 1) + 1 = m
    BY <1>1
  <2>3. Ball(m) = NextTo(Ball(m - 1))
    BY <1>1, <2>2, TypesSay, BallSteps
  <2>4. \A key \in ToSet(keys) : key[1] = x /\ Followed(key) => key[4] \in NextTo(Ball(m - 1))
    BY <2>1 DEF NextTo
  <2> QED
    BY <1>5, <2>3, <2>4
<1>13. ReachOK(first)'
  BY <1>3, <1>7, <1>8, <1>9, <1>12 DEF All, Data, ReachOK
<1>14. ExpandedOK(first)'
  <2> SUFFICES ASSUME NEW h \in Table, NEW v \in vid_hash_table[h], first[<<h, v>>] < query.k
               PROVE  IsWaiting(v, first[<<h, v>>] + 1)' \/ IsExpanded(v, first[<<h, v>>] + 1)'
    BY <1>3 DEF ExpandedOK
  <2> DEFINE l == first[<<h, v>>] + 1
  <2>1. IsWaiting(v, l) \/ IsExpanded(v, l)
    BY DEF All, Data, ExpandedOK
  <2> HIDE DEF l
  <2>2. \A e \in ToSet(Ends(v)) : e % HashTables \in Table
    BY <1>1, TypesSay, EndsFind, Elements, HomeIsTable
  <2>3. CASE IsExpanded(v, l)
    BY <1>3, <1>7, <1>9, <2>2, <2>3 DEF IsExpanded, l
  <2>4. CASE v = x /\ l = m
    BY <1>7, <1>9, <2>2, <2>4 DEF IsExpanded, l
  <2> QED
    BY <1>8, <2>1, <2>3, <2>4 DEF l
<1>15. \A l : Busy(l)' = Busy(l)
  <2>1. \A b \in Worker : b \in Actor
    BY Actors
  <2> QED
    BY <1>1, <1>2, <2>1 DEF Busy
<1>16. RootsOK(first)'
  <2>1. 0 \in Table
    BY SizeAssumption DEF Table
  <2> QED
    BY <1>3, <1>7, <1>10, <1>15, <2>1, RootsStay DEF All
<1>17. CountedOK(first)'
  BY <1>1, <1>2, <1>3, CountedStays DEF All
<1>18. LevelsOK(first)'
  BY <1>1, <1>2, <1>3, <1>15, LevelsStay DEF All
<1>19. RestOK'
  <2>1. \A b \in Actor : b # a => at'[b] = at[b]
    BY <1>2
  <2>2. at'[a] = "expand" \/ (at'[a] = "complete" /\ task'[a].midway)
    BY <1>1, <1>2
  <2> QED
    BY <1>1, <1>2, <2>1, <2>2, RestStays
<1> QED
  BY <1>11, <1>13, <1>14, <1>16, <1>17, <1>18, <1>19 DEF All, Data

\* A new vertex has its entry at the actor's level, and waits for the next.
LEMMA NewWhole ==
    ASSUME Base, RestOK, NEW first \in Firsts, All(first), NEW a \in Actor, New(a)
    PROVE  RestOK' /\ \E f \in Firsts : All(f)'
<1>a. PICK t \in Table, w \in Vertex, m \in Level :
              t = Held(a) /\ w = NextVid(a) /\ m = LevelOf(a)
  <2>1. LevelOf(a) \in Level /\ Held(a) \in Table
    BY NewTyped, TypesSay DEF Base, New
  <2>2. NextVid(a) \in Vertex
    BY NewTyped, TypesSay, PopFound DEF Base, New
  <2> QED
    BY <2>1, <2>2
<1>1. /\ TypeOK /\ LocksOK /\ t \in Table /\ w \notin vid_hash_table[t] /\ at[a] = "insert"
      /\ task[a].found[t] # <<>> /\ task' = Popped(a) /\ hash_table_mu[t] = a
      /\ m \in Level /\ m \in Nat
  BY <1>a, NewTyped, TypesSay DEF Base, New
<1>2. /\ w \in Vertex /\ IsFound(w, m, t)
      /\ \A v, l : \A h \in Table :
            /\ IsFound(v, l, h)' => IsFound(v, l, h)
            /\ IsFound(v, l, h) => IsFound(v, l, h)' \/ (v = w /\ l = m /\ h = t)
      /\ \A b \in Actor : /\ task'[b].vids = task[b].vids /\ task'[b].midway = task[b].midway
                          /\ b # a => task'[b] = task[b]
  BY <1>a, <1>1, PopFound
<1>3. UNCHANGED <<keys, query, hash_table_mu, queue, wait_level, count>>
  BY DEF New
<1>4. /\ \A h \in Table : vid_hash_table'[h] = IF h = t THEN vid_hash_table[h] \cup {w}
                                               ELSE vid_hash_table[h]
      /\ \A l \in Level : vertext_counter'[l] = IF l = m THEN vertext_counter[l] + 1
                                                ELSE vertext_counter[l]
      /\ \/ IsLast(m) /\ UNCHANGED <<at, pending, early>>
         \/ /\ ~ IsLast(m)
            /\ \A l \in Level : pending'[l] = IF l = m THEN Append(pending[l], w) ELSE pending[l]
            /\ \/ UNCHANGED <<at, early>>
               \/ /\ \A b \in Actor : at'[b] = IF b = a THEN "start" ELSE at[b]
                  /\ early' = [early EXCEPT ![m + 1] = @ + 1]
  BY <1>a, NewTyped
<1>0. PICK f \in Firsts : /\ f[<<t, w>>] = m
                         /\ \A p \in Table \X Vertex : p # <<t, w>> => f[p] = first[p]
  <2>1. [first EXCEPT ![<<t, w>>] = m] \in Firsts
    BY <1>1 DEF Firsts
  <2> QED
    BY <1>1, <1>2, <2>1 DEF Firsts
<1>5. /\ f \in Firsts /\ f[<<t, w>>] = m
      /\ \A h \in Table, v \in Vertex : h # t \/ v # w => f[<<h, v>>] = first[<<h, v>>]
  <2>1. \A h \in Table, v \in Vertex : <<h, v>> \in Table \X Vertex /\ (h # t \/ v # w => <<h, v>> # <<t, w>>)
    OBVIOUS
  <2> QED
    BY <1>0, <2>1
<1>6. \A h \in Table : \A v \in vid_hash_table[h] :
         v \in Vertex /\ f[<<h, v>>] = first[<<h, v>>] /\ v \in vid_hash_table'[h]
  <2>1. \A h \in Table : vid_hash_table[h] \subseteq Vertex
    BY <1>1 DEF TypeOK
  <2> SUFFICES ASSUME NEW h \in Table, NEW v \in vid_hash_table[h]
               PROVE  v \in Vertex /\ f[<<h, v>>] = first[<<h, v>>] /\ v \in vid_hash_table'[h]
    OBVIOUS
  <2>2. v \in Vertex /\ (h # t \/ v # w)
    BY <1>1, <2>1
  <2> QED
    BY <1>4, <1>5, <2>2
<1>7. \A h \in Table : \A v \in vid_hash_table'[h] : v \in vid_hash_table[h] \/ (h = t /\ v = w)
  BY <1>4
<1>8. \A b \in Actor : at'[b] = at[b] \/ (b = a /\ at'[b] = "start")
  BY <1>4
<1>9. \A b \in Worker : b \in Actor
  BY Actors
<1>10. \A l : Busy(l)' = Busy(l)
  BY <1>1, <1>8, <1>9 DEF Busy
<1>11. wait_level <= m /\ m <= query.k /\ wait_level \in Nat /\ query.k \in 0 .. MaxLevel /\ MaxLevel \in Nat
  <2>1. query.k \in 0 .. MaxLevel /\ MaxLevel \in Nat /\ wait_level \in Nat
    BY <1>1, TypesSay, SizeAssumption DEF TypeOK
  <2>2. (a = Main /\ at[a] \in {"complete", "insert", "start"}) \/ (a \in Worker /\ at[a] # "idle")
    BY <1>1 DEF Actor
  <2> QED
    BY <1>a, <2>1, <2>2, ActorsLevel DEF Base
<1>12. /\ ~ IsLast(m) => IsWaiting(w, m + 1)' /\ m + 1 \in Level
       /\ \A v \in Vertex, l \in 1 .. MaxLevel :
             /\ IsWaiting(v, l) => IsWaiting(v, l)'
             /\ IsWaiting(v, l)' => IsWaiting(v, l) \/ (v = w /\ l = m + 1)
  <2>1. ~ IsLast(m) => m + 1 \in Level
    BY <1>1, <1>11 DEF IsLast, Level
  <2>2. \A l \in 1 .. MaxLevel : l - 1 \in Level /\ (l - 1 = m <=> l = m + 1)
    BY <1>1, <1>11 DEF Level
  <2>3. pending[m] \in Seq(Vertex)
    BY <1>1 DEF TypeOK
  <2>4. ToSet(Append(pending[m], w)) = ToSet(pending[m]) \cup {w}
    BY <1>2, <2>3, Elements
  <2>5. \A l \in Level : /\ \A v \in ToSet(pending[l]) : v \in ToSet(pending'[l])
                         /\ \A v \in ToSet(pending'[l]) : v \in ToSet(pending[l]) \/ (v = w /\ l = m)
    BY <1>4, <2>4
  <2>6. ~ IsLast(m) => w \in ToSet(pending'[m])
    BY <1>1, <1>4, <2>4
  <2>7. ~ IsLast(m) => IsWaiting(w, m + 1)'
    <3>1. (m + 1) - 1 = m
      BY <1>1
    <3> QED
      BY <2>6, <3>1 DEF IsWaiting
  <2>8. ASSUME NEW v \in Vertex, NEW l \in 1 .. MaxLevel
        PROVE  /\ IsWaiting(v, l) => IsWaiting(v, l)'
               /\ IsWaiting(v, l)' => IsWaiting(v, l) \/ (v = w /\ l = m + 1)
    <3>1. l - 1 \in Level /\ (l - 1 = m <=> l = m + 1)
      BY <2>2
    <3>2. (v \in ToSet(pending[l - 1]) => v \in ToSet(pending'[l - 1]))
          /\ (v \in ToSet(pending'[l - 1]) => v \in ToSet(pending[l - 1]) \/ (v = w /\ l = m + 1))
      BY <2>5, <3>1
    <3>3. \A b \in Worker : task'[b].vids = task[b].vids
      BY <1>2, <1>9
    <3>4. queue' = queue
      BY <1>3
    <3> QED
      BY <3>2, <3>3, <3>4 DEF IsWaiting
  <2> QED
    BY <2>1, <2>7, <2>8
<1>13. Roots' = Roots /\ (\A n : Ball(n)' = Ball(n)) /\ \A v : Ends(v)' = Ends(v)
  BY <1>3, SameQuery
<1>14. HomesOK'
  <2>1. w % HashTables = t \/ (t = 0 /\ w \in Roots)
    BY <1>1, <1>2 DEF All, Data, HomesOK
  <2>2. \A h \in Table : \A v \in vid_hash_table'[h] : v % HashTables = h \/ (h = 0 /\ v \in Roots)
    BY <1>7, <2>1 DEF All, Data, HomesOK
  <2> QED
    BY <1>2, <1>13, <2>2 DEF All, Data, HomesOK
<1>15. ReachOK(f)'
  <2>1. w \in Ball(m)
    BY <1>1, <1>2 DEF All, Data, ReachOK
  <2>2. \A h \in Table : \A v \in vid_hash_table'[h] : v \in Ball(f[<<h, v>>])
    BY <1>5, <1>6, <1>7, <2>1 DEF All, Data, ReachOK
  <2>3. \A l \in 1 .. MaxLevel, v \in Vertex : IsWaiting(v, l)' => v \in Ball(l - 1)
    <3>1. (m + 1) - 1 = m
      BY <1>1
    <3> QED
      BY <1>12, <2>1, <3>1 DEF All, Data, ReachOK
  <2> QED
    BY <1>2, <1>13, <2>2, <2>3 DEF All, Data, ReachOK
<1>16. ExpandedOK(f)'
  <2> SUFFICES ASSUME NEW h \in Table, NEW v \in vid_hash_table'[h], f[<<h, v>>] < query.k
               PROVE  IsWaiting(v, f[<<h, v>>] + 1)' \/ IsExpanded(v, f[<<h, v>>] + 1)'
    BY <1>3 DEF ExpandedOK
  <2>1. CASE h = t /\ v = w
    <3>1. ~ IsLast(m)
      BY <1>1, <1>5, <1>11, <2>1 DEF IsLast
    <3> QED
      BY <1>5, <1>12, <2>1, <3>1
  <2>2. CASE v \in vid_hash_table[h]
    <3> DEFINE l == first[<<h, v>>] + 1
    <3>1. f[<<h, v>>] + 1 = l /\ v \in Vertex /\ first[<<h, v>>] < query.k
      BY <1>6, <2>2
    <3>2. l \in 1 .. MaxLevel
      BY <1>1, <2>2, <3>1, FirstLevels
    <3>3. IsWaiting(v, l) \/ IsExpanded(v, l)
      BY <2>2, <3>1 DEF All, Data, ExpandedOK
    <3> HIDE DEF l
    <3>4. CASE IsWaiting(v, l)
      BY <1>12, <3>1, <3>2, <3>4
    <3>5. CASE IsExpanded(v, l)
      <4>1. ASSUME NEW e \in ToSet(Ends(v))
            PROVE  e \in vid_hash_table'[e % HashTables] \/ IsFound(e, l, e % HashTables)'
        <5>1. e % HashTables \in Table
          BY <1>1, TypesSay, EndsFind, Elements, HomeIsTable
        <5>2. e \in vid_hash_table[e % HashTables] \/ IsFound(e, l, e % HashTables)
          BY <3>5 DEF IsExpanded
        <5>3. w \in vid_hash_table'[t]
          BY <1>1, <1>4
        <5>4. CASE e \in vid_hash_table[e % HashTables]
          BY <1>6, <5>1, <5>4
        <5>5. CASE IsFound(e, l, e % HashTables)
          <6>1. IsFound(e, l, e % HashTables)' \/ (e = w /\ e % HashTables = t)
            BY <1>2, <5>1, <5>5
          <6> QED
            BY <5>3, <6>1
        <5> QED
          BY <5>2, <5>4, <5>5
      <4>2. IsExpanded(v, l)'
        BY <1>13, <4>1 DEF IsExpanded
      <4> QED
        BY <3>1, <4>2
    <3> QED
      BY <3>3, <3>4, <3>5
  <2> QED
    BY <1>7, <2>1, <2>2
<1>17. RootsOK(f)'
  <2>1. 0 \in Table
    BY SizeAssumption DEF Table
  <2>2. w \in vid_hash_table'[t]
    BY <1>1, <1>4
  <2>3. \A v \in Roots : IsFound(v, 0, 0)' \/ (v \in vid_hash_table'[0] /\ f[<<0, v>>] = 0)
    <3> SUFFICES ASSUME NEW v \in Roots, ~ IsFound(v, 0, 0)'
                 PROVE  v \in vid_hash_table'[0] /\ f[<<0, v>>] = 0
      OBVIOUS
    <3>1. CASE IsFound(v, 0, 0)
      <4>1. v = w /\ m = 0 /\ t = 0
        BY <1>2, <2>1, <3>1
      <4> QED
        BY <1>5, <2>2, <4>1
    <3>2. CASE v \in vid_hash_table[0] /\ first[<<0, v>>] = 0
      BY <1>6, <2>1, <3>2
    <3> QED
      BY <3>1, <3>2 DEF All, RootsOK
  <2>4. ASSUME NEW u \in Vertex, IsFound(u, 0, 0)'
        PROVE  (\A v \in vid_hash_table'[0] : f[<<0, v>>] = 0) /\ hash_table_mu[0] = Main
    <3>1. IsFound(u, 0, 0)
      BY <1>2, <2>1, <2>4
    <3>2. /\ \A v \in vid_hash_table[0] : first[<<0, v>>] = 0
          /\ hash_table_mu[0] = Main \/ \A l \in Level : Busy(l) = {}
      BY <3>1 DEF All, RootsOK
    <3>3. a = Main => t = 0
      BY <1>1 DEF All, RootsOK
    <3>4. a = Main \/ a \in Busy(m)
      BY <1>a, <1>1 DEF Actor, Busy
    <3>5. hash_table_mu[0] = Main
      BY <1>1, <3>2, <3>3, <3>4
    <3>6. t = 0 => m = 0
      BY <1>a, <1>1, <3>5, Actors
    <3> QED
      BY <1>5, <1>6, <1>7, <2>1, <3>2, <3>5, <3>6
  <2> QED
    BY <1>3, <1>13, <2>3, <2>4 DEF All, RootsOK
<1>18. /\ Entries' = Entries \cup {<<t, w>>} /\ <<t, w>> \notin Entries
       /\ \A p \in Entries : f[p] = first[p]
       /\ Entries \subseteq Table \X Vertex
  <2>1. \A h \in Table, v \in Vertex : <<h, v>> \in Entries <=> v \in vid_hash_table[h]
    BY DEF Entries
  <2>2. \A h \in Table, v \in Vertex : <<h, v>> \in Entries' <=> v \in vid_hash_table'[h]
    BY DEF Entries
  <2>3. Entries \subseteq Table \X Vertex /\ Entries' \subseteq Table \X Vertex
    BY DEF Entries
  <2>4. <<t, w>> \notin Entries
    BY <1>1, <1>2, <2>1
  <2>5. \A p \in Entries : f[p] = first[p]
    <3>1. \A p \in Entries : p \in Table \X Vertex /\ p # <<t, w>>
      BY <2>3, <2>4
    <3> QED
      BY <1>0, <3>1
  <2>6. \A h \in Table, v \in Vertex : <<h, v>> \in Entries' <=> <<h, v>> \in Entries \/ <<h, v>> = <<t, w>>
    BY <1>4, <2>1, <2>2
  <2>7. <<t, w>> \in Table \X Vertex
    BY <1>1, <1>2
  <2>8. \A p \in Table \X Vertex : p \in Entries' <=> p \in Entries \/ p = <<t, w>>
    BY <2>6
  <2> QED
    BY <2>3, <2>4, <2>5, <2>7, <2>8
<1>19. CountedOK(f)'
  <2> DEFINE p0 == <<t, w>>
             Of(l) == {p \in Entries : first[p] = l}
             Now(l) == {p \in Entries' : f[p] = l}
  <2>1. \A l \in Level : Now(l) = IF l = m THEN Of(l) \cup {p0} ELSE Of(l)
    BY <1>5, <1>18
  <2>2. \A l \in Level : IsFiniteSet(Of(l)) /\ Cardinality(Of(l)) \in Nat /\ p0 \notin Of(l)
    <3> SUFFICES ASSUME NEW l \in Level
                 PROVE  IsFiniteSet(Of(l)) /\ Cardinality(Of(l)) \in Nat /\ p0 \notin Of(l)
      OBVIOUS
    <3>1. Of(l) \in SUBSET (Table \X Vertex) /\ p0 \notin Of(l)
      BY <1>18
    <3> HIDE DEF Of
    <3> QED
      BY <3>1, EntrySets
  <2>3. {p \in Entries' : f[p] < wait_level} = {p \in Entries : first[p] < wait_level}
    BY <1>1, <1>5, <1>11, <1>18
  <2>4. \A p \in Entries' : f[p] <= query.k
    BY <1>5, <1>11, <1>18 DEF All, CountedOK
  <2>5. \A l \in Level : vertext_counter[l] = Cardinality(Of(l))
    BY DEF All, CountedOK
  <2>6. \A l \in Level : vertext_counter'[l] = Cardinality(Now(l))
    <3> HIDE DEF Of, Now, p0
    <3>1. \A l \in Level : Cardinality(Of(l) \cup {p0}) = Cardinality(Of(l)) + 1
      BY <2>2, FS_AddElement
    <3> QED
      BY <1>1, <1>4, <2>1, <2>5, <3>1
  <2>7. count = Cardinality({p \in Entries' : f[p] < wait_level})
    BY <2>3 DEF All, CountedOK
  <2>8. at'[Main] = "returned" => wait_level = query.k + 1
    BY <1>8, Actors DEF All, CountedOK
  <2> QED
    BY <1>3, <2>4, <2>6, <2>7, <2>8 DEF CountedOK
<1>20. LevelsOK(f)'
  <2>1. \/ UNCHANGED early
        \/ ~ IsLast(m) /\ early' = [early EXCEPT ![m + 1] = @ + 1]
    BY <1>4
  <2>2. early \in [Level -> Nat]
    BY <1>1 DEF TypeOK
  <2>3. ~ IsLast(m) => m + 1 \in Level
    BY <1>12
  <2>4. /\ \A l \in Level : early'[l] = early[l] \/ (l = m + 1 /\ early'[l] = early[l] + 1)
        /\ early' # early => early'[m + 1] > 0 /\ m + 1 \in Level
    BY <2>1, <2>2, <2>3
  <2>5. \A b \in Actor : at'[b] = "start" => early'[LevelOf(b) + 1] > 0
    <3> SUFFICES ASSUME NEW b \in Actor, at'[b] = "start" PROVE early'[LevelOf(b) + 1] > 0
      OBVIOUS
    <3>1. CASE at[b] = "start"
      <4>1. early[LevelOf(b) + 1] > 0
        BY <3>1 DEF All, LevelsOK
      <4>2. LevelOf(b) + 1 \in Level
        <5>1. LevelOf(b) < query.k
          BY <3>1 DEF Base, Inv, DepthOK
        <5>2. LevelOf(b) \in Nat
          BY <1>1, TypesSay
        <5> QED
          BY <1>11, <5>1, <5>2 DEF Level
      <4> QED
        BY <2>2, <2>4, <4>1, <4>2
    <3>2. CASE at[b] # "start"
      <4>1. b = a /\ at' # at
        BY <1>8, <3>2
      <4>2. ~ IsLast(m) /\ early' = [early EXCEPT ![m + 1] = @ + 1]
        BY <1>4, <4>1
      <4>3. early'[m + 1] > 0
        BY <2>2, <2>3, <4>2
      <4> QED
        BY <1>a, <4>1, <4>3
    <3> QED
      BY <3>1, <3>2
  <2>6. ASSUME NoEarly'
        PROVE  /\ \A p \in Entries' : f[p] <= wait_level
               /\ \A l \in Level : l > wait_level => queue[l] = <<>> /\ Busy(l) = {}
               /\ \A n \in Nat : n < wait_level =>
                     \A v \in Ball(n) : \E h \in Table : v \in vid_hash_table'[h] /\ f[<<h, v>>] <= n
    <3>1. UNCHANGED early
      <4>1. ~ (early'[m + 1] > 0 /\ m + 1 \in Level)
        BY <2>6 DEF NoEarly
      <4> QED
        BY <2>4, <4>1
    <3>2. NoEarly
      BY <2>6, <3>1 DEF NoEarly
    <3>3. m <= wait_level
      <4>1. CASE a = Main
        BY <1>a, <1>11, <4>1, Actors
      <4>2. CASE a \in Worker
        <5>1. a \in Busy(m)
          BY <1>a, <1>1, <4>2 DEF Busy
        <5>2. ~ (m > wait_level)
          BY <1>1, <3>2, <5>1 DEF All, LevelsOK
        <5> QED
          BY <1>1, <1>11, <5>2
      <4> QED
        BY <4>1, <4>2 DEF Actor
    <3>4. \A p \in Entries' : f[p] <= wait_level
      BY <1>5, <1>18, <3>2, <3>3 DEF All, LevelsOK
    <3>5. \A n \in Nat : n < wait_level =>
             \A v \in Ball(n) : \E h \in Table : v \in vid_hash_table'[h] /\ f[<<h, v>>] <= n
      <4> SUFFICES ASSUME NEW n \in Nat, n < wait_level, NEW v \in Ball(n)
                   PROVE  \E h \in Table : v \in vid_hash_table'[h] /\ f[<<h, v>>] <= n
        OBVIOUS
      <4>1. PICK h \in Table : v \in vid_hash_table[h] /\ first[<<h, v>>] <= n
        BY <3>2 DEF All, LevelsOK
      <4> QED
        BY <1>6, <4>1
    <3> QED
      BY <3>2, <3>4, <3>5 DEF All, LevelsOK
  <2> QED
    BY <1>3, <1>10, <1>13, <2>5, <2>6 DEF LevelsOK
<1>21. RestOK'
  <2>1. \A b \in Actor : b # a => at'[b] = at[b]
    BY <1>8
  <2>2. at'[a] \in {"insert", "start"}
    BY <1>1, <1>8
  <2>3. a \in Worker => (~ task'[a].midway => task'[a].vids = <<>>)
    BY <1>1, <1>2 DEF RestOK
  <2> QED
    BY <1>2, <2>1, <2>2, <2>3, RestStays
<1>22. All(f)'
  BY <1>14, <1>15, <1>16, <1>17, <1>19, <1>20 DEF All, Data
<1> QED
  BY <1>5, <1>21, <1>22

-----------------------------------------------------------------------------
(* The first state and every step *)

\* At first main has its list in hand, and there are no entries.
LEMMA WholeStarts ==
    ASSUME Init
    PROVE  Whole
<1>1. Base
  BY BaseStarts
<1>2. /\ TypeOK /\ query \in Queries /\ keys \in Seq(Keys) /\ query.k \in 0 .. MaxLevel
      /\ query.vertex_id_list \in Seq(Vertex) /\ Main \in Actor /\ 0 \in Table
  BY <1>1, TypesSay, QueryAssumption, SizeAssumption DEF Base, Table
<1>3. ToSet(<<>>) = {}
  BY DEF ToSet
<1>4. \A a \in Actor, h \in Table :
         /\ task[a].vids = <<>>
         /\ task[a].found[h] = IF a = Main /\ h = 0 THEN query.vertex_id_list ELSE <<>>
  BY DEF Init, NothingFound
<1>5. /\ \A h \in Table : vid_hash_table[h] = {} /\ hash_table_mu[h] = Nobody
      /\ \A l \in Level : /\ pending[l] = <<>> /\ queue[l] = <<>>
                          /\ vertext_counter[l] = 0 /\ early[l] = 0
      /\ \A a \in Actor : at[a] = IF a = Main THEN "complete" ELSE "idle"
      /\ wait_level = 0 /\ count = 0
  BY DEF Init
<1>6. \A a \in Worker : a \in Actor /\ a # Main
  BY Actors
<1>7. \A l \in Level : Busy(l) = {}
  BY <1>5, <1>6 DEF Busy
<1>8. \A v : \A l \in 1 .. MaxLevel : ~ IsWaiting(v, l)
  <2>1. \A l \in 1 .. MaxLevel : l \in Level /\ l - 1 \in Level
    BY SizeAssumption DEF Level
  <2>2. \A l \in 1 .. MaxLevel : ToSet(pending[l - 1]) = {} /\ ToSet(queue[l]) = {}
    BY <1>3, <1>5, <2>1
  <2>3. \A a \in Worker : ToSet(task[a].vids) = {}
    BY <1>2, <1>3, <1>4, <1>6
  <2> QED
    BY <2>2, <2>3 DEF IsWaiting
<1>9. \A l, v : \A h \in Table : IsFound(v, l, h) <=> l = 0 /\ h = 0 /\ v \in Roots
  <2> SUFFICES ASSUME NEW l, NEW v, NEW h \in Table
               PROVE  IsFound(v, l, h) <=> l = 0 /\ h = 0 /\ v \in Roots
    OBVIOUS
  <2>1. \A a \in Actor : v \in ToSet(task[a].found[h]) <=> a = Main /\ h = 0 /\ v \in Roots
    BY <1>3, <1>4 DEF Roots
  <2>2. LevelOf(Main) = 0
    BY Actors
  <2> QED
    BY <1>2, <2>1, <2>2 DEF IsFound
<1>10. PICK first \in Firsts : TRUE
  <2>1. 0 \in Level
    BY SizeAssumption DEF Level
  <2>2. [p \in Table \X Vertex |-> 0] \in Firsts
    BY <2>1 DEF Firsts
  <2> QED
    BY <2>2
<1>11. Entries = {}
  <2>1. \A p \in Table \X Vertex : p[1] \in Table
    OBVIOUS
  <2> QED
    BY <1>5, <2>1 DEF Entries
<1>12. Data(first)
  <2>1. \A v \in Roots : v \in Ball(0)
    BY <1>2, BallSteps
  <2>2. HomesOK
    BY <1>5, <1>9 DEF HomesOK
  <2>3. ReachOK(first)
    BY <1>5, <1>8, <1>9, <2>1 DEF ReachOK
  <2>4. ExpandedOK(first)
    BY <1>5 DEF ExpandedOK
  <2> QED
    BY <2>2, <2>3, <2>4 DEF Data
<1>13. RootsOK(first)
  <2>1. Main # Nobody
    BY <1>2, NobodyIsNone
  <2> QED
    BY <1>2, <1>5, <1>7, <1>9, <2>1 DEF RootsOK
<1>14. CountedOK(first)
  <2>1. \A l : {p \in Entries : first[p] = l} = {} /\ {p \in Entries : first[p] < l} = {}
    BY <1>11
  <2>2. Cardinality({}) = 0
    BY FS_EmptySet
  <2> QED
    BY <1>2, <1>5, <1>11, <2>1, <2>2 DEF CountedOK
<1>15. LevelsOK(first)
  <2>1. \A n \in Nat : ~ (n < 0)
    OBVIOUS
  <2> QED
    BY <1>5, <1>7, <1>11, <2>1 DEF LevelsOK
<1>16. RestOK
  BY <1>2, <1>4, <1>5, <1>6 DEF RestOK, Filled
<1> QED
  BY <1>1, <1>10, <1>12, <1>13, <1>14, <1>15, <1>16 DEF Whole, All

\* Nothing changes when nothing does.
LEMMA NothingWhole ==
    ASSUME Base, RestOK, NEW first \in Firsts, All(first), UNCHANGED vars
    PROVE  RestOK' /\ All(first)'
<1>1. All(first)'
  BY InsideQuiet DEF vars
<1>2. RestOK'
  BY DEF vars, RestOK, Filled
<1> QED
  BY <1>1, <1>2

\* Every step keeps the invariant.
LEMMA WholeStays ==
    ASSUME Whole, [Next]_vars
    PROVE  Whole'
<1>1. Base /\ RestOK /\ Base'
  BY BaseStays DEF Whole
<1>2. PICK first \in Firsts : All(first)
  BY DEF Whole
<1> SUFFICES RestOK' /\ \E f \in Firsts : All(f)'
  BY <1>1 DEF Whole, Firsts
<1>3. ASSUME NEW a \in Actor, HandOver(a)
      PROVE  RestOK' /\ \E f \in Firsts : All(f)'
  <2>1. CASE New(a)
    BY <1>1, <1>2, <2>1, NewWhole
  <2>2. CASE LockTable(a) \/ Known(a) \/ Start(a) \/ UnlockTable(a) \/ Completed(a)
    BY <1>1, <1>2, <2>2, LockWhole, KnownWhole, StartWhole, UnlockWhole, CompletedWhole
  <2> QED
    BY <1>3, <2>1, <2>2 DEF HandOver
<1>4. CASE MainStep
  BY <1>1, <1>2, <1>3, <1>4, Actors, WaitWhole, FlushWhole DEF MainStep
<1>5. ASSUME NEW a \in Worker, WorkerStep(a)
      PROVE  RestOK' /\ \E f \in Firsts : All(f)'
  <2>1. CASE HandOver(a)
    BY <1>3, <2>1, Actors
  <2>2. CASE Take(a) \/ Expand(a) \/ Release(a) \/ Done(a)
    BY <1>1, <1>2, <2>2, TakeWhole, ExpandWhole, ReleaseWhole, DoneWhole
  <2> QED
    BY <1>5, <2>1, <2>2 DEF WorkerStep
<1>6. CASE UNCHANGED vars
  BY <1>1, <1>2, <1>6, NothingWhole
<1> QED
  BY <1>4, <1>5, <1>6 DEF Next, Over

-----------------------------------------------------------------------------
(* The answer *)

\* The vertices in the tables are the entries, but for the second ones of the
\* roots that have been found as neighbours.
LEMMA CountedTwice ==
    ASSUME TypeOK, HomesOK, \A v \in Roots : v \in vid_hash_table[0]
    PROVE  Cardinality(Entries)
             = Cardinality(UNION {vid_hash_table[h] : h \in Table}) + Cardinality(FoundTwice)
<1> DEFINE counted == UNION {vid_hash_table[h] : h \in Table}
           Second == {p \in Entries : p[1] = 0 /\ p[2] \in FoundTwice}
           First == Entries \ Second
           vertex == [p \in First |-> p[2]]
           second == [p \in Second |-> p[2]]
<1>1. /\ Entries \in SUBSET (Table \X Vertex) /\ 0 \in Table
      /\ \A h \in Table, v \in Vertex : <<h, v>> \in Entries <=> v \in vid_hash_table[h]
      /\ \A h \in Table : vid_hash_table[h] \subseteq Vertex
  BY SizeAssumption DEF Entries, TypeOK, Table
<1>2. \A p \in Entries : /\ p = <<p[1], p[2]>> /\ p[1] \in Table /\ p[2] \in Vertex
                         /\ p[2] \in vid_hash_table[p[1]]
                         /\ p[2] % HashTables = p[1] \/ (p[1] = 0 /\ p[2] \in Roots)
  BY <1>1 DEF Entries, HomesOK
<1>3. \A v \in FoundTwice : /\ v \in Vertex /\ v \in vid_hash_table[0] /\ <<0, v>> \in Entries
                            /\ v % HashTables # 0 /\ v \in vid_hash_table[v % HashTables]
  BY <1>1 DEF FoundTwice
<1>4. \A h \in Table, v \in Vertex : <<h, v>>[1] = h /\ <<h, v>>[2] = v
  OBVIOUS
<1>5. IsFiniteSet(Entries) /\ IsFiniteSet(First) /\ IsFiniteSet(Second)
      /\ Cardinality(First) \in Nat /\ Cardinality(Second) \in Nat
      /\ Cardinality(Entries) \in Nat
  BY <1>1, EntrySets
<1>6. Cardinality(First) = Cardinality(Entries) - Cardinality(Second)
  <2>1. Entries \cap Second = Second
    OBVIOUS
  <2> HIDE DEF Second
  <2> QED
    BY <1>5, <2>1, FS_Difference
<1>7. Cardinality(FoundTwice) = Cardinality(Second)
  <2>1. \A p \in Second : second[p] = p[2] /\ p[2] \in FoundTwice /\ p = <<0, p[2]>>
    BY <1>2
  <2>2. \A v \in FoundTwice : <<0, v>> \in Second /\ second[<<0, v>>] = v
    BY <1>1, <1>3, <1>4
  <2>3. second = [p \in Second |-> second[p]]
    OBVIOUS
  <2> HIDE DEF second, Second
  <2>4. second \in [Second -> FoundTwice]
    BY <2>1, <2>3
  <2>5. second \in Bijection(Second, FoundTwice)
    <3>1. second \in Injection(Second, FoundTwice)
      BY <2>1, <2>4 DEF Injection, IsInjective
    <3>2. second \in Surjection(Second, FoundTwice)
      BY <2>2, <2>4 DEF Surjection
    <3> QED
      BY <3>1, <3>2 DEF Bijection
  <2> QED
    BY <1>5, <2>5, FS_Bijection DEF ExistsBijection
<1>8. Cardinality(counted) = Cardinality(First)
  <2>1. \A p \in First : vertex[p] = p[2] /\ p[2] \in counted
    BY <1>2
  <2>2. \A p, q \in First : p[2] = q[2] => p = q
    <3> SUFFICES ASSUME NEW p \in First, NEW q \in First, p[2] = q[2] PROVE p[1] = q[1]
      BY <1>2
    <3>1. ASSUME NEW x \in First, NEW y \in First, x[2] = y[2], x[1] = x[2] % HashTables
          PROVE  x[1] = y[1]
      <4>1. CASE y[2] % HashTables = y[1]
        BY <3>1, <4>1
      <4>2. CASE y[1] = 0 /\ y[2] \in Roots /\ y[2] % HashTables # 0
        <5>1. y[2] \in vid_hash_table[y[2] % HashTables]
          BY <1>2, <3>1
        <5>2. y[2] \in FoundTwice
          BY <4>2, <5>1 DEF FoundTwice
        <5> QED
          BY <4>2, <5>2
      <4> QED
        BY <1>2, <4>1, <4>2
    <3>2. CASE p[1] = p[2] % HashTables
      BY <3>1, <3>2
    <3>3. CASE q[1] = q[2] % HashTables
      BY <3>1, <3>3
    <3>4. CASE p[1] = 0 /\ q[1] = 0
      BY <3>4
    <3> QED
      BY <1>2, <3>2, <3>3, <3>4
  <2>3. \A v \in counted : \E p \in First : vertex[p] = v
    <3> SUFFICES ASSUME NEW h \in Table, NEW v \in vid_hash_table[h]
                 PROVE  \E p \in First : p[2] = v
      BY <2>1
    <3>1. v \in Vertex /\ <<h, v>> \in Entries /\ v % HashTables \in Table
      BY <1>1, HomeIsTable
    <3>2. CASE h = 0 /\ v \in FoundTwice
      <4>1. <<v % HashTables, v>> \in Entries /\ <<v % HashTables, v>> \notin Second
        BY <1>1, <1>3, <1>4, <3>1, <3>2
      <4> QED
        BY <1>4, <3>1, <4>1
    <3>3. CASE ~ (h = 0 /\ v \in FoundTwice)
      <4>1. <<h, v>> \in First
        BY <1>4, <3>1, <3>3
      <4> QED
        BY <1>4, <3>1, <4>1
    <3> QED
      BY <3>2, <3>3
  <2>4. vertex = [p \in First |-> vertex[p]]
    OBVIOUS
  <2> HIDE DEF vertex, First, counted
  <2>5. vertex \in [First -> counted]
    BY <2>1, <2>4
  <2>6. vertex \in Bijection(First, counted)
    <3>1. vertex \in Injection(First, counted)
      BY <2>1, <2>2, <2>5 DEF Injection, IsInjective
    <3>2. vertex \in Surjection(First, counted)
      BY <2>3, <2>5 DEF Surjection
    <3> QED
      BY <3>1, <3>2 DEF Bijection
  <2> QED
    BY <1>5, <2>6, FS_Bijection DEF ExistsBijection
<1> HIDE DEF counted, Second, First
<1>9. Cardinality(Entries) = Cardinality(counted) + Cardinality(FoundTwice)
  BY <1>5, <1>6, <1>7, <1>8
<1> QED
  BY <1>9 DEF counted

\* When main returns every level is at rest.
LEMMA ReturnedIsRest ==
    ASSUME Base, RestOK, NEW first \in Firsts, All(first), Returned
    PROVE  /\ \A l \in Level : l <= query.k => queue[l] = <<>> /\ Busy(l) = {} /\ pending[l] = <<>>
           /\ wait_level = query.k + 1 /\ query.k \in Nat /\ query.k \in 0 .. MaxLevel
           /\ \A v \in Roots : v \in vid_hash_table[0] /\ first[<<0, v>>] = 0
<1>1. wait_level = query.k + 1 /\ at[Main] = "returned"
  BY DEF Returned, All, CountedOK
<1>2. query.k \in 0 .. MaxLevel /\ query.k \in Nat
  BY TypesSay, SizeAssumption DEF Base
<1>3. \A l \in Level : l <= query.k => l < wait_level
  BY <1>1, <1>2, SizeAssumption DEF Level
<1>4. 0 \in Table
  BY SizeAssumption DEF Table
<1>5. \A v : ~ IsFound(v, 0, 0)
  BY <1>1, <1>4, MainIsDone
<1> QED
  BY <1>1, <1>2, <1>3, <1>5 DEF Base, Inv, PastOK, All, RootsOK

\* What the count is when main returns.
LEMMA WholeCounts ==
    ASSUME Whole
    PROVE  CountIsBall
<1> DEFINE counted == UNION {vid_hash_table[h] : h \in Table}
<1> SUFFICES ASSUME Returned
             PROVE  /\ count = Cardinality(counted) + Cardinality(FoundTwice)
                    /\ counted \subseteq Ball(query.k)
                    /\ query.k > 0 => Ball(1) \subseteq counted
                    /\ NoEarly => counted = Ball(query.k)
  BY DEF CountIsBall, NoEarly
<1>1. Base /\ RestOK /\ TypeOK
  BY DEF Whole, Base
<1>2. PICK first \in Firsts : All(first)
  BY DEF Whole
<1>3. /\ \A l \in Level : l <= query.k => queue[l] = <<>> /\ Busy(l) = {} /\ pending[l] = <<>>
      /\ wait_level = query.k + 1 /\ query.k \in Nat /\ query.k \in 0 .. MaxLevel
      /\ \A v \in Roots : v \in vid_hash_table[0] /\ first[<<0, v>>] = 0
  BY <1>1, <1>2, ReturnedIsRest
<1>4. /\ keys \in Seq(Keys) /\ query \in Queries /\ 0 \in Table /\ MaxLevel \in Nat
      /\ \A h \in Table : vid_hash_table[h] \subseteq Vertex
  BY <1>1, TypesSay, SizeAssumption DEF Table, TypeOK
<1>5. \A h \in Table : \A v \in vid_hash_table[h] :
         <<h, v>> \in Entries /\ first[<<h, v>>] \in Nat /\ first[<<h, v>>] <= query.k
  BY <1>1, <1>2, FirstLevels DEF All, CountedOK
<1>6. count = Cardinality(counted) + Cardinality(FoundTwice)
  <2>1. {p \in Entries : first[p] < wait_level} = Entries
    <3>1. \A p \in Entries : first[p] <= query.k /\ first[p] \in Nat
      BY <1>2, SizeAssumption DEF All, CountedOK, Firsts, Entries, Level
    <3> QED
      BY <1>3, <3>1
  <2>2. count = Cardinality(Entries)
    BY <1>2, <2>1 DEF All, CountedOK
  <2> QED
    BY <1>1, <1>2, <1>3, <2>2, CountedTwice DEF All, Data
<1>7. counted \subseteq Ball(query.k)
  <2> SUFFICES ASSUME NEW h \in Table, NEW v \in vid_hash_table[h]
               PROVE  v \in Ball(query.k)
    OBVIOUS
  <2>1. v \in Ball(first[<<h, v>>])
    BY <1>2 DEF All, Data, ReachOK
  <2>2. first[<<h, v>>] \in 0 .. query.k
    BY <1>3, <1>5
  <2> QED
    BY <1>3, <1>4, <2>1, <2>2, BallsGrow
<1>8. query.k > 0 => Ball(1) \subseteq counted
  <2> SUFFICES ASSUME query.k > 0, NEW v \in Ball(1)
               PROVE  v \in counted
    OBVIOUS
  <2>1. v \in NextTo(Roots)
    <3>1. 0 \in Nat /\ 0 + 1 = 1
      OBVIOUS
    <3>2. Ball(0 + 1) = NextTo(Ball(0)) /\ Ball(0) = Roots
      BY <1>4, <3>1, BallSteps
    <3> QED
      BY <3>1, <3>2
  <2>2. CASE v \in Roots
    BY <1>3, <1>4, <2>2
  <2>3. CASE v \notin Roots
    <3>1. PICK key \in ToSet(keys) : key[1] \in Roots /\ Followed(key) /\ key[4] = v
      BY <2>1, <2>3 DEF NextTo
    <3>2. key[1] \in vid_hash_table[0] /\ first[<<0, key[1]>>] = 0
      BY <1>3, <3>1
    <3>3. 0 \in Level /\ 0 + 1 \in Level /\ 0 <= query.k /\ 0 + 1 <= query.k
      BY <1>3, <1>4 DEF Level
    <3>4. pending[0] = <<>> /\ queue[0 + 1] = <<>> /\ Busy(0 + 1) = {}
      BY <1>3, <3>3
    <3>5. v \in Vertex /\ v \in vid_hash_table[v % HashTables]
      <4>1. /\ first[<<0, key[1]>>] < query.k
            /\ pending[first[<<0, key[1]>>]] = <<>> /\ queue[first[<<0, key[1]>>] + 1] = <<>>
            /\ Busy(first[<<0, key[1]>>] + 1) = {}
        BY <3>2, <3>4
      <4> QED
        BY <1>1, <1>2, <1>4, <3>1, <3>2, <4>1, AllAreEntries
    <3> QED
      BY <3>5, HomeIsTable
  <2> QED
    BY <2>2, <2>3
<1>9. NoEarly => Ball(query.k) \subseteq counted
  <2>1. query.k < wait_level
    BY <1>3
  <2> QED
    BY <1>2, <1>3, <2>1 DEF All, LevelsOK
<1> QED
  BY <1>6, <1>7, <1>8, <1>9

-----------------------------------------------------------------------------
(* The theorems *)

\* The whole invariant.
THEOREM WholeTheorem == Spec => []Whole
  BY WholeStarts, WholeStays, PTL DEF Spec

\* Every variable stays in its type, whatever the graph, the query, the number
\* of tables and workers and the capacities.
THEOREM ParallelTyping == Spec => []TypeOK
<1>1. Whole => TypeOK
  BY DEF Whole, Base
<1> QED
  BY <1>1, WholeTheorem, PTL

\* What parallel_adj_count_query returns: every vertex counted is within k
\* steps of the list, every neighbour of the list is counted, a vertex is
\* counted once, but a root found as a neighbour twice if it is not of table 0;
\* and if no level was started by a full array the vertices counted are those
\* within k steps.
THEOREM CountIsBallTheorem == Spec => []CountIsBall
  BY WholeCounts, WholeTheorem, PTL
===============================================================================
