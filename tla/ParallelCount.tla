---------------------------- MODULE ParallelCount ----------------------------
(***************************************************************************)
(* parallel_adj_count_query of src/src/algo/k_hop_neighbors_count.cpp      *)
(* (57-687): a count of the vertices around a list of vertices in which    *)
(* every level has a thread pool, a semaphore and a WaitGroup of its own,  *)
(* and all levels share the hash tables that remove duplicates.  Nothing   *)
(* calls the function at this commit.                                      *)
(*                                                                         *)
(* An actor is main or a worker <<level, number>>.  Both hand what they    *)
(* have found to parallel_adj_count_sub_task_complete_with_distinct, table *)
(* by table; main does so for level 0, with the list it is given.          *)
(*                                                                         *)
(* The path of a vertex is cleared before the vertex is handed to the next *)
(* level, so a task never meets an edge of a path and paths are left out.  *)
(***************************************************************************)
EXTENDS EdgeScan

CONSTANTS
    Vertex,       \* the vertices in the database
    Label,        \* their labels, a function
    MaxLevel,     \* bound: the largest k that is asked for
    MaxParallel,  \* bound: the largest adj_count_query_parallel_num
    HashTables,   \* MAX_ADJ_COUNT_DISTINCT_HASH_SIZE
    MinCap,       \* MIN_PENDING_VID_ARRAY_CAP
    MaxCap,       \* MAX_PENDING_VID_ARRAY_CAP
    EdgeSets,     \* the sets of edges <<start, relation, end>> that may be stored
    Queries       \* [vertex_id_list, k, direction, n_labels, r_labels, parallel_num]

ASSUME VertexAssumption == IsFiniteSet(Vertex) /\ Vertex \subseteq Nat \ {0}
ASSUME SizeAssumption == MaxLevel \in Nat /\ MaxParallel \in Nat \ {0} /\ HashTables \in Nat \ {0}
ASSUME CapAssumption == MinCap \in Nat \ {0} /\ MaxCap \in Nat \ {0}
ASSUME EdgeAssumption ==
    \A edges \in EdgeSets : IsFiniteSet(edges) /\ edges \subseteq Vertex \X (Nat \ {0}) \X Vertex
ASSUME QueryAssumption ==
    \A q \in Queries : /\ q.k \in 0 .. MaxLevel /\ q.parallel_num \in 1 .. MaxParallel
                       /\ q.vertex_id_list \in Seq(Vertex) /\ q.r_labels \in Seq(Nat \ {0})

VARIABLES
    keys,            \* the edge table
    query,           \* the parameters
    vid_hash_table,  \* of each table: the vertices in it
    hash_table_mu,   \* of each table: who holds its mutex
    mu,              \* of each level: who holds its mutex
    pending,         \* of each level: pending_vid_array
    semaphore,       \* of each level: permits left
    task_wg,         \* of each level: the WaitGroup's counter
    queue,           \* of each level: the tasks in its pool
    vertext_counter, \* of each level: how many vertices it has found
    at,              \* of each actor: where it is
    task,            \* of each actor: [vids, found, pending_num, midway]
    wait_level,      \* of main: current_wait_level
    count,           \* of main: adj_total_count
    early,           \* history: how often a level was started by a full array
    midway_levels    \* history: where a task has handed over with its permit in hand

vars == <<keys, query, vid_hash_table, hash_table_mu, mu, pending, semaphore, task_wg, queue,
          vertext_counter, at, task, wait_level, count, early, midway_levels>>

Level == 0 .. MaxLevel
Table == 0 .. HashTables - 1
Main == <<0, 0>>
Worker == (1 .. MaxLevel) \X (1 .. MaxParallel)
Actor == {Main} \cup Worker
Nobody == <<>>

\* The array of results of each table, when there are none.
NothingFound == [h \in Table |-> <<>>]

\* All vertices of the list go to table 0.
Init ==
    /\ keys \in {EdgeTable(edges) : edges \in EdgeSets}
    /\ query \in Queries
    /\ vid_hash_table = [h \in Table |-> {}]
    /\ hash_table_mu = [h \in Table |-> Nobody]
    /\ mu = [l \in Level |-> Nobody]
    /\ pending = [l \in Level |-> <<>>]
    /\ semaphore = [l \in Level |-> query.parallel_num]
    /\ task_wg = [l \in Level |-> 0]
    /\ queue = [l \in Level |-> <<>>]
    /\ vertext_counter = [l \in Level |-> 0]
    /\ at = [a \in Actor |-> IF a = Main THEN "complete" ELSE "idle"]
    /\ task = [a \in Actor |->
                  [vids |-> <<>>, pending_num |-> 0, midway |-> FALSE,
                   found |-> IF a = Main THEN [NothingFound EXCEPT ![0] = query.vertex_id_list]
                             ELSE NothingFound]]
    /\ wait_level = 0 /\ count = 0
    /\ early = [l \in Level |-> 0] /\ midway_levels = {}

-----------------------------------------------------------------------------
(* Parameters of a level, and the look-ups of a task *)

LevelOf(a) == a[1]
IsLast(level) == level = query.k
Cap(level) == IF level = 0 THEN MinCap ELSE Min({level * MinCap, MaxCap})

Directions ==
    CASE query.direction = "INCOMING" -> <<INCOMING>>
      [] query.direction = "OUTGOING" -> <<OUTGOING>>
      [] OTHER -> <<INCOMING, OUTGOING>>

Allowed(v) == query.n_labels = {} \/ Label[v] \in query.n_labels

\* The ends of the edges at v, as one prefix scan gives them; 0 is any relation.
Scan(v, direction, relation) ==
    LET wanted(key) == /\ key[1] = v /\ key[2] = direction
                       /\ relation = 0 \/ key[3] = relation
                       /\ Allowed(key[4])
        ends[i \in 0 .. Len(keys)] ==
            IF i = 0 THEN <<>>
            ELSE IF wanted(keys[i]) THEN Append(ends[i - 1], keys[i][4]) ELSE ends[i - 1]
    IN  ends[Len(keys)]

\* One scan for each relation, and so for each direction.
Reads(v, direction) ==
    LET relations == IF query.r_labels = <<>> THEN <<0>> ELSE query.r_labels
        reads[i \in 0 .. Len(relations)] ==
            IF i = 0 THEN <<>> ELSE reads[i - 1] \o Scan(v, direction, relations[i])
    IN  reads[Len(relations)]
Scans(v) ==
    LET scans[i \in 0 .. Len(Directions)] ==
            IF i = 0 THEN <<>> ELSE scans[i - 1] \o Reads(v, Directions[i])
    IN  scans[Len(Directions)]

\* A vertex is its own neighbour at most once.
Ends(v) ==
    LET scans == Scans(v)
        ends[i \in 0 .. Len(scans)] ==
            IF i = 0 THEN <<>>
            ELSE IF scans[i] = v /\ \E j \in 1 .. i - 1 : scans[j] = v THEN ends[i - 1]
            ELSE Append(ends[i - 1], scans[i])
    IN  ends[Len(scans)]

\* Vertices appended to the arrays of their tables.
Hashed(found, ends) ==
    LET hashed[i \in 0 .. Len(ends)] ==
            IF i = 0 THEN found
            ELSE [hashed[i - 1] EXCEPT ![ends[i] % HashTables] = Append(@, ends[i])]
    IN  hashed[Len(ends)]

-----------------------------------------------------------------------------
(* A task: parallel_adj_count_sub_task_thread *)

\* A worker of the level's pool takes the oldest task.
Take(a) ==
    /\ at[a] = "idle" /\ a[2] <= query.parallel_num
    /\ queue[LevelOf(a)] # <<>>
    /\ task' = [task EXCEPT ![a].vids = Head(queue[LevelOf(a)]), ![a].pending_num = 0]
    /\ queue' = [queue EXCEPT ![LevelOf(a)] = Tail(@)]
    /\ at' = [at EXCEPT ![a] = "expand"]
    /\ UNCHANGED <<keys, query, vid_hash_table, hash_table_mu, mu, pending, semaphore, task_wg,
                   vertext_counter, wait_level, count, early, midway_levels>>

\* The neighbours of one vertex; when enough have come together they are
\* handed over at once, while the task keeps its permit.
Expand(a) ==
    /\ at[a] = "expand" /\ task[a].vids # <<>>
    /\ LET ends == Ends(Head(task[a].vids))
           num == task[a].pending_num + Len(ends)
           full == num > Cap(LevelOf(a))
       IN  /\ task' = [task EXCEPT
                         ![a] = [vids |-> Tail(@.vids),
                                 found |-> Hashed(@.found, ends),
                                 pending_num |-> IF full THEN 0 ELSE num,
                                 midway |-> full]]
           /\ at' = IF full THEN [at EXCEPT ![a] = "complete"] ELSE at
           /\ midway_levels' = midway_levels \cup (IF full THEN {LevelOf(a)} ELSE {})
    /\ UNCHANGED <<keys, query, vid_hash_table, hash_table_mu, mu, pending, semaphore, task_wg,
                   queue, vertext_counter, wait_level, count, early>>

\* Mutant: the WaitGroup is told before the rest is handed over.
ReleaseAndDone(a) ==
    /\ at[a] = "expand" /\ task[a].vids = <<>>
    /\ semaphore' = [semaphore EXCEPT ![LevelOf(a)] = @ + 1]
    /\ task_wg' = [task_wg EXCEPT ![LevelOf(a)] = @ - 1]
    /\ at' = [at EXCEPT ![a] = "complete"]
    /\ task' = [task EXCEPT ![a].midway = FALSE]
    /\ UNCHANGED <<keys, query, vid_hash_table, hash_table_mu, mu, pending, queue,
                   vertext_counter, wait_level, count, early, midway_levels>>

\* The permit is given back before the rest is handed over.
Release(a) ==
    /\ at[a] = "expand" /\ task[a].vids = <<>>
    /\ semaphore' = [semaphore EXCEPT ![LevelOf(a)] = @ + 1]
    /\ at' = [at EXCEPT ![a] = "complete"]
    /\ task' = [task EXCEPT ![a].midway = FALSE]
    /\ UNCHANGED <<keys, query, vid_hash_table, hash_table_mu, mu, pending, task_wg, queue,
                   vertext_counter, wait_level, count, early, midway_levels>>

Done(a) ==
    /\ at[a] = "done"
    /\ task_wg' = [task_wg EXCEPT ![LevelOf(a)] = @ - 1]
    /\ at' = [at EXCEPT ![a] = "idle"]
    /\ UNCHANGED <<keys, query, vid_hash_table, hash_table_mu, mu, pending, semaphore, queue,
                   vertext_counter, task, wait_level, count, early, midway_levels>>

-----------------------------------------------------------------------------
(* Handing over: parallel_adj_count_sub_task_complete_with_distinct *)

Filled(a) == {h \in Table : task[a].found[h] # <<>>}
Held(a) == CHOOSE h \in Table : hash_table_mu[h] = a
NextVid(a) == Head(task[a].found[Held(a)])
Popped(a) == [task EXCEPT ![a].found[Held(a)] = Tail(@)]

\* The tables in turn.
LockTable(a) ==
    /\ at[a] = "complete" /\ Filled(a) # {}
    /\ hash_table_mu[Min(Filled(a))] = Nobody
    /\ hash_table_mu' = [hash_table_mu EXCEPT ![Min(Filled(a))] = a]
    /\ at' = [at EXCEPT ![a] = "insert"]
    /\ UNCHANGED <<keys, query, vid_hash_table, mu, pending, semaphore, task_wg, queue,
                   vertext_counter, task, wait_level, count, early, midway_levels>>

\* Mutant: a vertex is counted before it is looked up.
KnownCounted(a) ==
    /\ at[a] = "insert" /\ task[a].found[Held(a)] # <<>>
    /\ NextVid(a) \in vid_hash_table[Held(a)]
    /\ vertext_counter' = [vertext_counter EXCEPT ![LevelOf(a)] = @ + 1]
    /\ task' = Popped(a)
    /\ UNCHANGED <<keys, query, vid_hash_table, hash_table_mu, mu, pending, semaphore, task_wg,
                   queue, at, wait_level, count, early, midway_levels>>

Known(a) ==
    /\ at[a] = "insert" /\ task[a].found[Held(a)] # <<>>
    /\ NextVid(a) \in vid_hash_table[Held(a)]
    /\ task' = Popped(a)
    /\ UNCHANGED <<keys, query, vid_hash_table, hash_table_mu, mu, pending, semaphore, task_wg,
                   queue, vertext_counter, at, wait_level, count, early, midway_levels>>

\* A new vertex is counted, and waits for the next level, if there is one.
\* The mutex of the level stays locked if the array has become full.
New(a) ==
    /\ at[a] = "insert" /\ task[a].found[Held(a)] # <<>>
    /\ NextVid(a) \notin vid_hash_table[Held(a)]
    /\ vid_hash_table' = [vid_hash_table EXCEPT ![Held(a)] = @ \cup {NextVid(a)}]
    /\ vertext_counter' = [vertext_counter EXCEPT ![LevelOf(a)] = @ + 1]
    /\ task' = Popped(a)
    /\ IF IsLast(LevelOf(a)) THEN UNCHANGED <<at, mu, pending, early>>
       ELSE /\ mu[LevelOf(a)] = Nobody
            /\ pending' = [pending EXCEPT ![LevelOf(a)] = Append(@, NextVid(a))]
            /\ IF Len(pending[LevelOf(a)]) + 1 = Cap(LevelOf(a))
               THEN /\ mu' = [mu EXCEPT ![LevelOf(a)] = a]
                    /\ at' = [at EXCEPT ![a] = "start"]
                    /\ early' = [early EXCEPT ![LevelOf(a) + 1] = @ + 1]
               ELSE UNCHANGED <<at, mu, early>>
    /\ UNCHANGED <<keys, query, hash_table_mu, semaphore, task_wg, queue, wait_level, count,
                   midway_levels>>

\* start_one_parallel_adj_count_sub_task_thread: what is pending becomes a
\* task of the next level, as soon as that has a permit.
StartNext(level) ==
    /\ semaphore[level + 1] > 0
    /\ semaphore' = [semaphore EXCEPT ![level + 1] = @ - 1]
    /\ task_wg' = [task_wg EXCEPT ![level + 1] = @ + 1]
    /\ queue' = [queue EXCEPT ![level + 1] = Append(@, pending[level])]
    /\ pending' = [pending EXCEPT ![level] = <<>>]

\* Mutant: the mutex of the level is not unlocked after a start.
StartKeepsMutex(a) ==
    /\ at[a] = "start"
    /\ StartNext(LevelOf(a))
    /\ at' = [at EXCEPT ![a] = "insert"]
    /\ UNCHANGED <<keys, query, vid_hash_table, hash_table_mu, mu, vertext_counter, task,
                   wait_level, count, early, midway_levels>>

\* The caller holds the mutex of its table and that of its level.
Start(a) ==
    /\ at[a] = "start"
    /\ StartNext(LevelOf(a))
    /\ mu' = [mu EXCEPT ![LevelOf(a)] = Nobody]
    /\ at' = [at EXCEPT ![a] = "insert"]
    /\ UNCHANGED <<keys, query, vid_hash_table, hash_table_mu, vertext_counter, task, wait_level,
                   count, early, midway_levels>>

UnlockTable(a) ==
    /\ at[a] = "insert" /\ task[a].found[Held(a)] = <<>>
    /\ hash_table_mu' = [hash_table_mu EXCEPT ![Held(a)] = Nobody]
    /\ at' = [at EXCEPT ![a] = "complete"]
    /\ UNCHANGED <<keys, query, vid_hash_table, mu, pending, semaphore, task_wg, queue,
                   vertext_counter, task, wait_level, count, early, midway_levels>>

\* Back to the task, to its end, or to main.
Completed(a) ==
    /\ at[a] = "complete" /\ Filled(a) = {}
    /\ at' = [at EXCEPT ![a] = IF a = Main THEN "wait"
                               ELSE IF task[a].midway THEN "expand" ELSE "done"]
    /\ UNCHANGED <<keys, query, vid_hash_table, hash_table_mu, mu, pending, semaphore, task_wg,
                   queue, vertext_counter, task, wait_level, count, early, midway_levels>>

-----------------------------------------------------------------------------
(* main: parallel_adj_count_query *)

Wait ==
    /\ at[Main] = "wait"
    /\ task_wg[wait_level] = 0
    /\ at' = [at EXCEPT ![Main] = "flush"]
    /\ UNCHANGED <<keys, query, vid_hash_table, hash_table_mu, mu, pending, semaphore, task_wg,
                   queue, vertext_counter, task, wait_level, count, early, midway_levels>>

\* What is left pending becomes the last task of the next level.
Flush ==
    /\ at[Main] = "flush"
    /\ mu[wait_level] = Nobody
    /\ IF ~ IsLast(wait_level) /\ pending[wait_level] # <<>> THEN StartNext(wait_level)
       ELSE UNCHANGED <<semaphore, task_wg, queue, pending>>
    /\ count' = count + vertext_counter[wait_level]
    /\ wait_level' = wait_level + 1
    /\ at' = [at EXCEPT ![Main] = IF IsLast(wait_level) THEN "returned" ELSE "wait"]
    /\ UNCHANGED <<keys, query, vid_hash_table, hash_table_mu, mu, vertext_counter, task, early,
                   midway_levels>>

-----------------------------------------------------------------------------
Over == at[Main] = "returned" /\ UNCHANGED vars

HandOver(a) ==
    \/ LockTable(a) \/ Known(a) \/ New(a) \/ Start(a) \/ UnlockTable(a) \/ Completed(a)
WorkerStep(a) == Take(a) \/ Expand(a) \/ Release(a) \/ HandOver(a) \/ Done(a)
MainStep == HandOver(Main) \/ Wait \/ Flush

Next == MainStep \/ (\E a \in Worker : WorkerStep(a)) \/ Over

Spec == Init /\ [][Next]_vars

\* Some thread that can run does: less than fairness of each thread, and enough
\* because every step leads on.
FairSpec == Spec /\ WF_vars(MainStep \/ \E a \in Worker : WorkerStep(a))

-----------------------------------------------------------------------------
(* Properties *)

TypeOK ==
    /\ keys \in {EdgeTable(edges) : edges \in EdgeSets} /\ query \in Queries
    /\ vid_hash_table \in [Table -> SUBSET Vertex]
    /\ hash_table_mu \in [Table -> Actor \cup {Nobody}] /\ mu \in [Level -> Actor \cup {Nobody}]
    /\ pending \in [Level -> Seq(Vertex)] /\ queue \in [Level -> Seq(Seq(Vertex))]
    /\ semaphore \in [Level -> Nat] /\ task_wg \in [Level -> Nat]
    /\ vertext_counter \in [Level -> Nat] /\ early \in [Level -> Nat]
    /\ at \in [Actor -> {"idle", "expand", "complete", "insert", "start", "done",
                         "wait", "flush", "returned"}]
    /\ task \in [Actor -> [vids : Seq(Vertex), found : [Table -> Seq(Vertex)],
                           pending_num : Nat, midway : BOOLEAN]]
    /\ wait_level \in Nat /\ count \in Nat /\ midway_levels \subseteq Level

Returned == at[Main] = "returned"

\* The comment of 656-658: a level may be waited for once the one above is
\* complete, since then its tasks are all counted.  When main has gone past a
\* level, no task of it is queued or running and nothing waits to be started
\* from a level above it, so no vertex can come to a level already counted.
WaitIsSound ==
    \A l \in Level :
       l < wait_level =>
          /\ queue[l] = <<>> /\ task_wg[l] = 0
          /\ \A a \in Worker : LevelOf(a) = l => at[a] = "idle"
          /\ pending[l] = <<>>

\* The vertices within a number of steps of a set.
Followed(key) ==
    /\ key[2] \in ToSet(Directions)
    /\ query.r_labels = <<>> \/ key[3] \in ToSet(query.r_labels)
    /\ Allowed(key[4])
NextTo(S) == S \cup {key[4] : key \in {x \in ToSet(keys) : x[1] \in S /\ Followed(x)}}
Roots == ToSet(query.vertex_id_list)
Ball(steps) == LET ball[n \in 0 .. steps] == IF n = 0 THEN Roots ELSE NextTo(ball[n - 1])
               IN  ball[steps]

\* A root is in table 0, and a second time in its own table if it is found
\* as a neighbour: then it is counted twice.
FoundTwice == {v \in Roots : v % HashTables # 0 /\ v \in vid_hash_table[v % HashTables]}

\* What the query has counted when it returns, whatever the threads did.  Every
\* vertex counted is within k steps, every neighbour of the list is counted, and a
\* vertex is counted once, the roots too, which the comment of 678 says are taken
\* off (see InitialVerticesRemoved), and those of FoundTwice twice.  If no level was started while the one above was still
\* at work the count is that of the whole ball; otherwise a vertex may be met
\* at a deeper level first, and what lies behind it is lost.
CountIsBall ==
    Returned =>
       LET counted == UNION {vid_hash_table[h] : h \in Table}
       IN  /\ count = Cardinality(counted) + Cardinality(FoundTwice)
           /\ counted \subseteq Ball(query.k)
           /\ query.k > 0 => Ball(1) \subseteq counted
           /\ (\A l \in Level : early[l] = 0) => counted = Ball(query.k)

\* The comment of 678 where the levels are summed up: the answer is the total
\* without the initial vertices of the top level ("要返回总数，并去掉最顶层的初始顶点").
InitialVerticesRemoved ==
    Returned =>
       count = Cardinality(UNION {vid_hash_table[h] : h \in Table} \ Roots)

\* The query returns unless full arrays start some level more often than it
\* has permits (twice as often, if no task of the level hands over before its
\* end): a task that waits for a permit of the next level holds the mutex of a
\* table, and those with the permits may need it to come to their end.
QueryReturns ==
    <>(\/ Returned
       \/ \E l \in Level :
             early[l] > (IF l \in midway_levels THEN 1 ELSE 2) * query.parallel_num)
=============================================================================
