# Verification of euleraph

euleraph loads a property graph from an Excel or CSV file into a WiredTiger
database and answers graph queries over HTTP. This directory holds TLA+ models
of that program, the TLC configurations that check them, and theorems about them
that TLAPS checks. Paths below are relative to the root of the repository, whose
C++ code is in `src/`.

## 1. The system

| part | code | state | operations |
|---|---|---|---|
| import pipeline | `src/importer/importer.cpp` | two counting semaphores, a `WaitGroup`, the batch being filled, `writed_completed` | `import_data`, `run_write_task`, `import_edges_first_step`, the edge-writing task |
| thread pool | `src/utils/thread_pool.hpp` | `tasks_`, `stop_`, mutex, condition variable | constructor, `enqueue`, worker loop, destructor |
| WaitGroup | `src/utils/wait_group.hpp` | `counter_` | `add`, `done`, `wait` |
| batch writer | `src/storage/writer_wiredtiger.cpp` | a session, name caches | `write_label_type`, `write_relation_type`, `write_vertices`, `write_edges` |
| schema | `src/storage/wiredtiger_common.*` | four tables, three indexes | `wiredtiger_initialize_databse_schema` |
| process | `src/main.cpp` | connection, `import_completed`, checkpoint thread | import, checkpoint, serve, fail |
| readers | `src/storage/reader_wiredtiger.cpp`, `one_trx_reader_wiredtiger.cpp` | a session, name caches | look-ups, prefix scans |
| algorithms | `src/algo/*` | local | k-hop and adjacency counts, common neighbours, WCC, subgraph matching |
| HTTP service | `src/service/http/*`, routes in `src/main.cpp` | per request: a reader with its session | one handler per route |
| terminal, logging, CSV parser | `src/utils/gaudy.hpp`, `src/log/log.hpp`, `src/utils/csv.h` | | |

How they interact. `main()` opens the connection, starts a detached thread that
makes a checkpoint every minute, and calls `import_data`. That function is run by
four kinds of threads at once: the caller reads rows, writes their names and cuts
them into batches; one worker (the *first step*) looks up and appends the
vertices of a batch; `--concurrency` workers write the edges of batches; a
detached thread draws a progress bar. A batch is handed on through a semaphore
(how many may be under way), the WaitGroup (what is still to be done) and the
queue of a pool. All threads write the same database, each in a WiredTiger
session of its own. When the import is over, `main()` joins the checkpoint
thread, makes a last checkpoint and serves. There is no log, so a process that
dies leaves its last complete checkpoint. While it serves, the HTTP framework runs
handlers on as many threads as the machine has; each request gets a reader with
a WiredTiger session of its own, and the k-hop and adjacency counts make a second
one for themselves.

What is hard here: the hand-over between the two pools while `main` waits for
both; two edge writers that insert the same key and abort each other; look-up
and append of a vertex in two transactions; rollbacks that burn record numbers;
checkpoints that catch the import anywhere; error codes that are not looked at;
detached threads that outlive the frame they work on; sessions that nobody
closes; names that a second import has appended again; and, in the parallel
adjacency count, levels that overlap and lock the same hash tables. `PROJECT.json` lists these
under "hazards", each at its line, with the properties that cover it.

What makes each part correct:

- **pipeline**: nothing counted is lost, nothing blocks for ever, `wait()` ends
  only when all is written, the reader is held back, batches are resolved in order;
- **thread pool**: each task runs once, in order; no wakeup is lost; the
  destructor runs what is queued and returns;
- **writers and store**: one vertex per key, no dangling reference, both
  directions of an edge or none, ids never change their meaning;
- **process**: what is served after an import is all of the file and is durable;
  a crash falls back to a whole number of batches;
- **service**: a session is open only while a request needs it, a request is
  counted with the parameters it names, an answer shows the rows of the file;
- **queries**: the count is that of the definition, whatever order vertices,
  edges and threads are met in.

## 2. The modules

| module | models | checked by |
|---|---|---|
| `ImportPipeline` | the threads of `import_data` without the rows | `import_pipeline` |
| `ImportPipelineProofs` | theorems about it | TLAPS |
| `GraphStore` | tables, record numbers, index look-ups, edge keys | through `Server`, `NameWriter`, `Service` |
| `Importer` | `import_data` with rows and database; composes `ImportPipeline` and `GraphStore` | through `Server` |
| `BulkLoad` | abstract: what loading a file promises | refined by `Server` |
| `Server` | `main()`: import, checkpoints, crash, restart | `server`, `server_live`, `lost_commit` |
| `ServerProofs` | theorems about the store, what is saved, what is loaded and what is served | TLAPS |
| `MCServer` | the file of rows for TLC | |
| `TaskPool` | abstract: what a thread pool promises | refined by `ThreadPool` |
| `ThreadPool` | the pool at the level of mutex and condition variable | `thread_pool` |
| `ThreadPoolProofs` | theorems about it | TLAPS |
| `NameWriter` | `write_label_type` / `write_relation_type` step by step | `name_writer` |
| `NameWriterProofs` | theorems about it | TLAPS |
| `EdgeScan` | the prefix scan of the edge table | through `Traversal`, `ParallelCount` |
| `Traversal` | `get_k_hop_neighbors_count`, `get_adj_count`, `get_common_neighbor_count`; uses `EdgeScan` | `algorithms` |
| `TraversalProofs` | theorems about `EdgeScan`, `Traversal` and `SubgraphMatching` | TLAPS |
| `Partition` | abstract: counting the classes of a partition | refined by `Wcc` |
| `VertexIds`, `Dsu` | the ids of the vertices; the union-find as operators on its array | through `Wcc` |
| `Wcc` | `get_wcc_count`; uses `Dsu` | `algorithms` |
| `WccProofs` | theorems about it | TLAPS |
| `SubgraphMatching` | `get_subgraph_matching_count`; uses `EdgeScan` | `algorithms`, `loop_pattern` |
| `Algorithms` | one call of `AlgoInterface`; composes `Traversal`, `SubgraphMatching` and `Wcc` | `algorithms`, `loop_pattern` |
| `ParallelCount` | `parallel_adj_count_query` and its threads; uses `EdgeScan` | `parallel`, `parallel_roots` |
| `ParallelCountProofs` | theorems about waiting level by level and about the answer | TLAPS |
| `Service` | routes, handlers and sessions of the readers; uses `GraphStore` | `service`, `session_leak` |
| `ServiceProofs` | theorems about its sessions, its parameters and its answers | TLAPS |
| `MCAlgorithms`, `MCParallelCount` | graphs, queries and patterns for TLC | |
| `MCService` | stores and requests for TLC | |

### ImportPipeline

`main` is the program counter of `import_data`; `firstStep[b]` and
`realWrite[b]` say where batch `b` is on its way through the two pools.
`"unread"` to `"counted"` are steps of the reading thread, the rest those of the
worker. The semaphores and the WaitGroup are counters with the names of the code.
Each operation on one of them is a step, because each takes its own lock:
`AcquireFirstStep`, `CountFirstStep`, `EnqueueFirstStep` are lines 259, 260, 261;
`FirstRelease`, `FirstAcquire`, `FirstAdd`, `FirstEnqueue`, `FirstDone` are 118,
154, 155, 156 and the `DEFER` of 262; `RealDone` and `RealRelease` are the two
halves of the `DEFER` of 157. The queues need no variable: each is filled by one
thread in batch order, so the oldest queued batch has the smallest number; that
the pools are FIFO and lose nothing is what `ThreadPool` shows. `InputError` is
any exception of the readers; `Unwind` the joins of the two pools in their
destructors.

### Importer and GraphStore

`Importer` instantiates `ImportPipeline` and conjoins to its steps what they do to
the store. `db` holds the committed rows of the four tables as partial functions.
`ReadRow` writes the names of a row. `FirstResolve` is `get_vertex_ids`;
`FirstWrite` the transaction of `write_vertices`: one step, because nobody else
writes that table and `append` hands out the numbers in order; failed attempts
(`FirstWriteFails`) burn numbers. `BeginTransaction`, `InsertEdge`,
`InsertConflicts`, `CommitEdges` take `write_edges` insert by insert, since edge
writers run side by side; `Conflict` is WiredTiger's rule for two transactions
under snapshot isolation and is external. `FirstResolveFails`, `FirstCommitFails`
and `CommitEdgesFails` are the errors the code goes on after. Which calls may
fail is the constant `Faults`, how often the bound `MaxFaults`.

### Server and BulkLoad

`phase` is where `main()` is. A checkpoint takes its snapshot when it begins and
is durable when it ends, so commits in between are not in it. `Crash` may come in
any phase; it keeps `durable` and nothing else. A restart imports the same file
again or just serves. `Server` implements `BulkLoad` under the mapping of `Load`:
the graph as rows, read through the ids of vertices, labels and relations.

### ThreadPool and TaskPool

A critical section of `tasks_mutex_` is one step, `notify_one` a second one, since
`enqueue` calls it after the unlock. A notified worker goes back to `"loop"`, where
it has to win the mutex and test the predicate again. The destructor may come at
any moment when no call of `enqueue` is left, and none follows: this is the
owner's duty, which both pools of `import_data` meet. Line 84 names the exit
callback without calling it and therefore has no step.

### NameWriter

`write_label_type` takes five fallible WiredTiger calls in a loop. `Insert` takes
the record number, `Commit` makes row and index entry visible, `Search` finds the
smallest number of the name; `InsertFails` and `SearchFails` are the `continue`s
before and after the append. `Session` is the set of threads with a writer;
in the program that is `{"main"}`, because only the reading thread writes names.
With two sessions `SameNameSameId` fails (a smaller number may be committed after
a larger one was found), which is the limit of the remark on line 24 that the
smallest record number is always found.

### EdgeScan and Traversal

A key of the edge table is a tuple and a prefix its first two or three fields.
`SearchNear` gives every position WiredTiger may leave the cursor at, and
`Neighbors` every result the reader may then return; `ScanIsExact` says there is
only one. The readers' cached cursor needs no variable, since every look-up sets
its key anew. `Traversal` runs both level-by-level queries: `scans` are the
look-ups of a level, `vids` and `next_vids` the levels as bags, `visited` the set
that removes duplicates (of the whole query for k-hop, of one level for the
distinct adjacency count). A vertex that occurs n times in a level is scanned
once here and its edges counted n times. The list of relations is a sequence, as the
handler passes repeated names on: `Named` are the positions that ask for a look-up, and
`get_adj_count` counts an edge once for each of them (`Each`), which `Followed` and so
`AdjCountsWalks` say as well; for k-hop and common neighbours a repeated look-up finds
nothing new. k-hop counts its starts as well as the neighbours; `KHopCountsNeighbors`
says that the rest of the count is right. The label of an
edge's end is that of the vertex, which is so in what the importer writes when
each key has one label. The common-neighbour query takes the list vertex by vertex
(`NextVertex`), always in both directions, and has no levels.

### Wcc and Partition

`stage` is where the scan is: between vertices, at the edges of `u`, or about to
unite the ends of `edge`. `parent` is the forest of the `DSU` with its negative
sizes, and `Unite` both finds, each of which compresses, and the link. The edges
of a vertex are taken in any order. The memory pages of the array decide nothing
and are left out. Under the mapping, `ScanVertex` and `TakeEdge` are `Add` when
they meet a new vertex, and `Unite` is `Join` when it links two sets. Two vertices are
connected when no set of vertices that every edge leaves alone or has both ends in
separates them (`Component`).

### SubgraphMatching

The recursion of `backtrack` is the pair `depth`, `next`: how many variables are
matched and where each is in its candidates. `Assign` is the recursive call,
`Match` and `Exhausted` are the two ways back. `current_mapping` keeps what a
variable was last given, as in the code, where it is never cleared; that stale
entries are not used is part of what `MatchesCounted` says: at every moment `total`
is the number of homomorphisms that the search has gone past, which comes before
the end of the search as well as at it. A pattern edge from a variable to itself is
looked up before the variable is assigned and never found, so the run has patterns
without one (`Findable`) and `loop_pattern` those with one. `Orders` are the orders that `std::sort`
may leave the variables in. Patterns whose edges name a variable that is not a
node are left out (`var_to_idx` would take it for the first one).

### Algorithms

A call of `AlgoInterface` runs one algorithm over a database that does not change
meanwhile. `Algorithms` extends `Traversal` and `Wcc` and has `SubgraphMatching` as an
instance over the same table; it starts as one of `Traversal`, `SubgraphMatching` and `Wcc`
(`call`) and goes on as that one; the variables of the other two keep the values of
`NoTraversal`, `NoMatching` and `NoWcc`. What the module adds is that the three are
checked on one set of vertices and, but for `Wcc`, one set of graphs.

### ParallelCount

Every level has a pool, a semaphore, a WaitGroup, a mutex `mu` and an array of
vertices waiting for the level below; all levels share the hash tables
`vid_hash_table` with their mutexes. An actor is main or a worker of a level's
pool. `Take`, `Expand`, `Release`, `Done` are a task; `LockTable`, `Known`,
`New`, `Start`, `UnlockTable`, `Completed` are the hand-over of what an actor has
found (lines 197-269), which main performs for the roots as well; `Wait` and
`Flush` are main's loop (663-681). A vertex is a step, because other actors may
come to their tables in between. `Start` is `start_one_...` with its `acquire()`,
which blocks with the mutex of a table and of the level locked; it is one step
since nobody can look at the level while its mutex is held. The path of a vertex
is empty whenever a task looks at it (it is cleared on line 233 before the hand-over),
so the test of line 376 is never true and paths are left out. The constants
`MinCap` and `MaxCap` are 5000 and 50000 in the code, `HashTables` is 3.

Nothing calls the function at this commit. What the model says of it is for whoever
wants to use it: the answer is not the ball of radius k in general
(`CountIsBall`: the roots are counted, although the comment on line 678 takes them
off, and those found again twice; hops are lost if a level is started early), and threads may wait for one another for ever once a level is
started more often than it has permits (`QueryReturns`).

### Service

A thread of the framework is `idle`, then at its route (where the reader is made),
in the handler, in the algorithm (with or without a reader of its own), and
`responded` until the handler returns and the reader is destroyed. A request is a
record of its route, content type and body; the members of a body are sequences of
names. `parse_...` translate them, with the look-ups of the readers over a store
that does not change while it is served. `open_sessions` counts the sessions of the
connection; `reader[t]` is `"garbage"` when `open_session` has failed under a
`ReaderWiredTiger`, whose `session_` is then not initialised: a look-up through it
may bring the process down, fail, or succeed on a session that was there before.
A `OneTrxReaderWiredTiger` has a null `session_` in that case and its constructor
uses it at once (`CrashInConstructor`). `abandoned` is a history variable: the
sessions of finished requests whose reader has no destructor. What the
algorithms count is not repeated here: a count is the parameters it is made with,
and `Traversal`, `Wcc` and `SubgraphMatching` say what comes out. The one-hop handler
dereferences its body without a test (38); its requests have a JSON body
(`OneHopAssumption`). A number of the wrong type in a body, where the JSON library
throws and the handler answers 400, is left out.

`SafeWithinBudget` says how long the process is safe: it can only go down when the
abandoned sessions leave fewer than two for each thread. `OneHopShowsRows`
compares the answer with the rows of the file, `TranslationIsExact` what the ids
of a request select with what its names say, on a store in which every name is
there twice.

## 3. The runs

| run | instance | shows | states |
|---|---|---|---|
| `import_pipeline` | 6 batches, 2 writers, CSV and Excel, fair | the five invariants of the hand-over; the import ends; a counted batch is written even if the reader throws | 13,680 |
| `server` | 3 rows, 2 batches, 2 writers, one failing append or insert, one crash | the store is right in every state and after a crash; ids are stable; `BulkLoad` is implemented | 388,296 |
| `server_live` | 2 batches of the same 2 rows in opposite orders, one failing look-up, commit or checkpoint, fair | the import ends in serving or in a reported failure, or the two writers roll each other back for ever | 91,487 |
| `thread_pool` | 3 workers, 2 producers, 2 tasks each, fair | no lost wakeup, no task left, every task runs, the destructor returns, `TaskPool` is implemented | 5,221 |
| `name_writer` | 1 session, 3 writers in turn, 2 names, 3 failures, fair | same name, same id; ids are kept; calls return | 55,370 |
| `algorithms` | 4 vertices; every subset of 6 edges with 340 queries and with 21 patterns; every subset of 10 edges with 9 filters | scans are exact, levels are distances, the counts are those of neighbours, walks and intersections; homomorphisms are counted, each once; forest and component count are right at every step, `Partition` is implemented | 401,688 |
| `parallel` | 6 vertices, 9 graphs, 6 queries of up to 2 levels, 1 or 2 permits, 2 hash tables, caps 2 and 3, fair | waiting level by level is sound; what the answer counts; when the query returns | 106,145 |
| `service` | 2 threads, 5 sessions, 6 requests of 24 kinds, 4 stores | sessions balance; the process is safe within its budget; answers and parameters are those asked for | 214,852 |
| `lost_commit` | as `server`, one failing commit | **violated**: `ImportedIsDurable` | |
| `session_leak` | 1 thread, 3 sessions, 4 requests | **violated**: `StaysUp` | |
| `loop_pattern` | as `algorithms`, 2 patterns with an edge from a variable to itself | **violated**: `AllMatchesCounted` | |
| `parallel_roots` | as `parallel` | **violated**: `InitialVerticesRemoved` | |

**Bounds.** At most `Concurrency + 3` batches are read and not yet written (proved,
see below), five with two writers: six batches reach that, with a finished one before
them or an unread one behind, and make the reader block on both semaphores. In the
`server` run the second batch is a tail, repeats a row of the first (so that the
edge writers conflict), shares two vertices with it and adds none, while the
first batch brings three vertices and two labels: look-ups find all, none or a
part. One crash gives import, restart and second import; a second crash meets the
same kinds of states. Three workers and two producers give the pool more sleepers
than notifiers and the other way round. Three failures let a name be appended
four times. Four vertices are the fewest for a tree of height two that a later
`find` compresses, and the ten edges contain cycles, parallel edges, a loop and
edges to vertices scanned before; `INT32_MAX` is 5, so that sizes come next to the
mark of inactivity. Three levels on a triangle with a loop bring every vertex back
into later levels. The patterns of `algorithms` have a path, a triangle, a pair of
opposite edges, no edge, no candidate and no variable, with edges that point from
the later variable to the earlier one and back. Its lists of relations are
empty, have one entry, and name one relation twice. In `parallel` caps of
2 and 3 make arrays fill up before a task and a level end, with one permit and with two, and
two hash tables put a root into a table that is not its own. In `service` two
threads can hold four sessions at once, so with five the first abandoned session
fits and the second one does not; six requests are enough to abandon all five and
to come once more. Deadlock is checked in every run but `parallel`: there the code
itself can stop with every thread waiting, which `QueryReturns` speaks of.

Type invariants (`TypeOK` in each module) hold in these instances; no run
spends time on them, and those of the pipeline, the pool, the name writer, the
union-find, the queries and the service are theorems.

**Fairness.** Weak fairness per thread, as the operating system schedules every
thread: the reading thread, each first-step task, each edge-writing task, the
progress thread; in `ThreadPool` each worker and producer and the joining thread;
in `Server` also the steps of `main()` and the end of a checkpoint once begun.
`ParallelCount` asks for less: that some thread that can move does.
Nothing is assumed of crashes, failures, spurious wakeups, reading errors, or of
the pool ever being destroyed. Strong fairness is nowhere needed: main is the only
thread that waits for the first semaphore, and the one worker the only one that
waits for the second. Failures are finitely many by their bounds, so
their retries end; the code relies on the same, since it retries without limit.
Conflicts of edge writers are not bounded. Two batches that insert two common keys in
opposite orders can each insert the key the other needs next, be refused, roll back and
begin again, in step, for ever: the code has no back-off and fairness of the threads
does not end it. `LoadEnds` names this way and no other; in `server_live` it is reached
(there `<>[](phase \in {"serve", "failed"})` alone is violated), while with a file whose
batches insert their common keys in the same order the import ends. No document of the
repository promises an end: `docs/design/01_design_lite.md` 49 warns of the conflicts.

**Findings.** Four violated properties say what a document, or a comment, of the
repository asks for; `PROJECT.json` quotes the lines. A commit that fails counts as a
success (`lost_commit`). Every k-hop and common-neighbour request leaves a session
open, and when the connection has none left (100 unless configured otherwise) the
server goes down (`session_leak`). A pattern with an edge from a variable to itself
counts nothing, where `algo.hpp` 79 promises all matches (`loop_pattern`). The parallel
count contains the initial vertices, which the comment on line 678 of
`k_hop_neighbors_count.cpp` takes off (`parallel_roots`).

Other disagreements and oddities, met while modelling and stated by no run:

- an exception of the CSV reader unwinds `import_data` under the detached progress
  thread, which the comment on `importer.cpp` 479 waits for (`CompletionIsTotal`
  holds for the return only; the model reaches `main = "failed"` with
  `progress = "running"`);
- a second import appends every label and relation name again, where
  `docs/test/01_test_checklist.md` 16 wants no duplicates; the ids in use stay right
  (`SavedIdsAreStable`, `TranslationIsExact`);
- a key identifies a vertex whatever its label, where `types.hpp` 16 calls it
  unique within a label: a key with two labels becomes one vertex with the first;
- a look-up that fails counts as "no such vertex" and the key gets a second one
  (put `"lookup"` into the `Faults` of `MCServer.cfg` to see it);
- the k-hop count contains its starts as well, which the comment on line 853 of
  `k_hop_neighbors_count.cpp` subtracts: every admitted start makes the answer one
  larger than that comment says. `KHopCountsNeighbors` is about the neighbours only;
- `get_adj_count` counts an edge as often as the list of relations names its
  relation, since the handler (`euleraph_http_handle.cpp` 711) keeps repeated names;
  no document says what a repeated name means;
- the parallel adjacency count, if it were called: see `ParallelCount` above.

**Mutants.** Every property of a passing run is broken by a changed definition
given in `PROJECT.json` ("mutants"), such as a permit that is not released, a
wait that ends one task early, an edge writer that keeps its old snapshot after
a conflict, or an incoming edge that is not turned round.

## 4. What is proved

TLC checks the instances of section 3; the theorems hold for every value of the
constants that the named assumptions of a module allow. Of the 40 properties of
the passing runs theorems state 33; the end of this section says what stays with
TLC. A theorem that needs some call not to fail says so in its hypothesis, such as
`"commit" \notin Faults`; the `Faults` of the configurations show by counterexample
what such a failure does.

`ImportPipelineProofs` proves, for any number of batches, any positive number of
writers and both file types (the named assumptions of `ImportPipeline`, of which
`ConcurrencyAssumption` is what the pool's constructor enforces):

- `PipelineTyping`: `TypeOK`; no counter is ever negative;
- `WaitGroupCounts`: the WaitGroup counts exactly the tasks still to call `done()`;
- `SemaphoresBalance`: missing permits are held by batches, one each;
- `ResolvingIsOrdered`: a batch is resolved after all earlier ones;
- `CompletionTheorem`: past `wait()`, every batch is resolved and written;
- `ReadAheadIsBounded`: at most `Concurrency + 3` batches are read and not yet written.

The argument. None of these is inductive alone: that a counter equals the size of
a set of batches is kept by a step only if the batch that moves was not in the set
before (or was), and that depends on how the two functions `firstStep` and
`realWrite` fit together. The inductive invariant is therefore
`FieldsOK /\ Shape /\ Balance`. `FieldsOK` is the type invariant with integers for
counters. `Shape` says what main has handed over (`HandedOver`: everything before
`next` is queued or later, everything after it unread, and a batch has an
edge-writing task exactly from the moment the first step has enqueued it) and that
the worker takes batches one by one (`OneByOne`). `Balance` is `WgCounts` and the
two equations of `PermitsAccounted`. Each step adds one batch to, or removes one
from, at most one of the four sets of batches that are counted, by the lemmas
`BatchJoins` and `BatchLeaves`. Completion follows because a WaitGroup of zero
makes two of the sets empty (`NothingOutstanding`), and with `HandedOver` every
batch is then finished; the bound on the batches under way because such a batch holds
a permit, or is the one the worker is at, or the one main is at.

`ThreadPoolProofs` proves, for any non-empty finite set of workers, any finite set
of producers and any number of tasks each (the named assumptions of `ThreadPool`):

- `PoolTyping`: `TypeOK`; a worker holds a task exactly while it runs it;
- `WakeupsSuffice`: `NoLostWakeup`, although `enqueue` notifies after the unlock;
- `NoWorkIsLeft`: no worker ends while a task is queued;
- `TasksAreNotDoubled`: a task is in the queue once or with one worker;
- `PoolImplementsTaskPool`: the pool implements `TaskPool`.

The argument. `NoLostWakeup` is inductive together with the types: a push adds one
task and one producer about to notify; a notification removes that producer and
wakes one sleeper, or finds nobody asleep; `Take` removes one task and one awake
worker; a worker goes to sleep only on an empty queue. For the refinement two
strengthenings are needed. `OnePlace` says that no task is queued twice, queued
and held, or held by two workers, since otherwise the end of one run would not
remove the task from the set of those running. `Ending` relates `stop_`, the
owner and the workers that have ended, so that the last join finds the queue
empty. Under the mapping, `Push` is `Submit`, `Take` is `Start`, `Run` is
`Finish`, `Joined` is `Destroy`, and every other step changes nothing.

`ServerProofs`, `NameWriterProofs` and `ServiceProofs` begin with the lemmas about
`GraphStore` they need: a non-empty set of record numbers has a least element, a
look-up finds the least id of a name, rows added with greater ids (`Extends`) leave
every look-up its result, and a key is the mirror of its mirror.

`ServerProofs` proves of the whole process, for any file, batch size, number of
writers, failures and crashes (the named assumptions of `Importer` and `Server`;
`RowsAssumption` only says that a row has its five fields):

- `Invariance`: the inductive invariant `Inv`, whichever calls fail;
- `EdgesAreMirroredTheorem`: `EdgesAreMirrored`, whichever calls fail;
- `SavedIdsAreStableTheorem`: `SavedIdsAreStable`, whichever calls fail;
- `OneVertexPerPkTheorem`: `OneVertexPerPk`, if no look-up fails.

The argument. `Inv` has seven parts. `StagesOK` and `LinesOK` say how far main and
the first-step worker are and how many rows are read, so that a batch past
`"unread"` has all its rows behind it. `CachesOK` says that the names of the
rows read are in main's caches by ids of theirs, `ResolvedOK` that a batch past
`write_vertices` has an id for each of its keys, `EdgesOK` that it has two edges for
each row, one the mirror of the other. `StoresOK` speaks of the store, the
snapshot of a checkpoint and what is durable: each is made of tables and
mirrored pairs, and each has the rows of the older ones and only greater ids
besides (`Grows`); `VerticesOK` is what makes the ids greater. The mirror property
follows because a transaction inserts the edges of a batch, whole pairs, or
nothing; the stability of ids because `Grows` is kept by each commit, by the end of
a checkpoint and, since a restart begins with what is durable, by a crash. One
vertex per key needs more: between `FirstResolve` and `FirstWrite` a key must not
get a vertex from anybody else (`FoundOK`), which is so because only the first-step
worker appends vertices and it has one batch at a time (`StagesOK`). A failed
look-up breaks `FoundOK` and the property, see the oddities above.

Its second part proves, of the same process:

- `NoDanglingReferenceTheorem` and `OnlyRowsOfTheFileTheorem`, if no commit
  fails;
- `ImplementsBulkLoadTheorem`: the refinement of `BulkLoad`, if neither a commit nor
  a checkpoint fails, for a file that satisfies `OneLabelPerEdge`;
- `FirstIdsTheorem`: whatever fails, the store refers to a label or a relation by
  the first id of its name, however often a new import has appended it again;
- `ServableTheorem`: if neither a look-up nor a commit fails, the store and every
  checkpoint satisfy what `Service` assumes of a store.

The argument. A failed commit is taken for a success, so the ids that a batch
holds may name no row; without such a failure `SoundInv` is invariant: the ids
that batches hold are ids of their keys (`IdsOK`), the edges they hold are those
of their rows (`PairsOK`), and so is every edge stored or saved (`EdgesAreRows`).
An edge keeps its row while others are inserted because rows never change, and an
equal key may be inserted again only by an equal row: this is `OneLabelPerEdge`, which
asks that the file gives the two ends of an edge the same labels each time it has
the edge. It is asked for the refinement only. Without it the edge would take the
labels of the batch that was written last, and the graph would not be a union of batches. The
refinement then goes step by step (`StepLoads`). The steps of the process are steps
of `ImportPipeline` or leave its variables alone (`StepOfThreads`), so the proved
invariant of that module holds here too (`ThreadsKeepInv`, with `Threads` an
instance of `ImportPipelineProofs`). `LoadInv` adds to it that a batch past the first
step has its edges (`BuiltOK`), that one past `write_edges` has its rows in the store
(`WrittenOK`), that the graphs of the store, the snapshot and what is durable are
unions of whole batches, the older ones contained in the newer (`GraphsOK`), and
what `main()` knows in each phase (`PhasesOK`): since `main()` joins the checkpoint
thread before its own checkpoint, none is under way that began earlier.
`CommitEdges` is then `LoadBatch` or a stutter (`CommitAddsBatch`), the end of a
checkpoint is `Checkpoint` with what the store had when it began (`SavesMoment`), a crash
or a failed import is `Stop`, a restart `Start`, and `StartServer` is `Serve`, whose guard
holds because past `wait()` all batches are in the graph (`ReturnedIsAll`, from the
invariant of `ImportPipeline`) and the last checkpoint has saved them (`PhasesOK`).
`FirstInv` follows the ids of names on their own, from the search that puts them in a
cache (`CachesAreFirst`) into the edges of a batch (`BuiltAreFirst`) and the tables
(`UsesFirsts`); a name appended again has a greater id, so a first id stays the first.

`NameWriterProofs` proves, for any number of sessions, names, writers and
failures (`BoundsAssumption`):

- `NamesTyping`, `CachedIdsName` (an id in a cache is an id of that name, for ever)
  and `RowsNeverChange`, for any number of threads;
- `SameNameSameIdTheorem` and `NameKeepsIdTheorem`, if one thread writes
  names (`OneThread`), which is so in the program.

The argument. `Inv` says that a record number handed out and not committed belongs to one
session (`AppendsAreFresh`) and that a session only searches for what it has
committed (`SearchesSucceed`). With one thread, numbers are committed in the order
they are handed out (`AppendIsLast`), so a search finds for a name what every
earlier search of it has found. With two threads a smaller number may be committed
late: TLC finds the counterexample.

`ParallelCountProofs` proves, for any graph, query, number of levels, permits,
hash tables and caps (the named assumptions of `ParallelCount`):

- `WaitIsSoundTheorem`: when main has gone past a level, nothing of it is queued, under
  way or waiting to be started;
- `ParallelTyping`: `TypeOK`;
- `CountIsBallTheorem`: what is returned is within k steps and has all neighbours of
  the list, each vertex counted once and the roots of `FoundTwice` twice; unless a
  level is started early it is the whole ball.

The argument. `CountsOK` says that the WaitGroup of a level counts its queued tasks
and busy workers; `DepthOK` that nothing happens below the last level; `PastOK` that
a level main has gone past stays at rest: only an actor of the level above starts
its tasks, and that level is past as well, or main itself, which is done with
the roots before it waits (`PlacesOK`).

For the answer the invariant (`Whole`) follows each vertex. A vertex can come to a level by
several ways, and which actor inserts it first decides at which level it is expanded; the
program forgets that, so `Whole` says that there is a function `first`, from the entries
of the tables to levels, with which the following holds:

- `HomesOK`, `RootsOK`: a vertex is in the table of its remainder, or it is a root in
  table 0, where all roots are once main is done with its list;
- `ReachOK`: an entry of level l, like what waits for level l + 1 or has been found at
  level l, is within l steps of the roots;
- `ExpandedOK`: an entry above the last level still waits (in an array, in a task that is
  queued or in one under way), or each end of its edges is in its table or found and on
  the way there;
- `CountedOK`: the counter of a level is the number of its entries, and main's sum that
  of the levels it is past, so the count is the number of all entries in the end;
- `LevelsOK`: as long as no level is started early, nothing is below the level that
  main waits for, and the entries above it are all of the smaller balls;
- `RestOK`, `LocksOK`: an idle worker has nothing in hand, and a mutex has one owner.

When main returns every level is at rest (`PastOK`), so nothing waits and nothing is on its
way; what `ExpandedOK` leaves is that the neighbours of each entry above the last level
are entries. `CountedTwice` counts the entries: one for each vertex in the tables and one
more for each root of `FoundTwice`. That an early start loses hops shows in the
proof as well: a vertex may be an entry of a deeper level than its distance, and if that is the
last level it is not expanded. What the look-ups of a task return is proved from the order
of the edge table (`ScanFinds`, `EndsFind`), what `Ball` is from its steps (`BallSteps`).

`WccProofs` proves, for any set of vertices with ids below `INT32_MAX`, any graph and
any filters (`VertexAssumption` and `LimitAssumption`; `StoredGraphs` only says that an
edge is a triple between vertices):

- `WccTyping`: `WccTypeOK`; sizes, parents and the mark of inactivity are never mixed up;
- `RootsHoldSizesTheorem`, `TreesAreLowTheorem`: a root has the size of its set, and a
  tree with a path of length h has at least 2^h vertices;
- `SetsAreConnectedTheorem`: at every step, the sets are the components of the
  graph of the edges united so far;
- `CountIsWccTheorem`: the count returned is that of the weakly connected components
  of the induced subgraph;
- `ImplementsPartitionTheorem`: the refinement of `Partition`.

The argument. That `find` ends is where induction would be used. Instead a
`Forest` is a function of parents for which a root and a rank exist for every
vertex, the rank growing on the way down; a property of all vertices is shown by
taking a vertex without it of least rank. So the recursive functions of
`FindRoot` and `Compress` are known without unfolding them: one solution is given,
and any solution agrees with it (`FindsRoot`, `CompressIs`). Compression keeps ranks and
roots (`Compressed`), linking moves one set below the root of the other (`LinkLinks`).
`Inv` has three parts. `ScanOK` says which vertices are active and which edges are
still to come. `SetsOK` has the sizes and the count, and that an active vertex has
an active root. `ConnectedOK` says that an edge that was united has both ends in one
tree, and that a set closed under the united edges has all of a tree or none: the
two directions of `SetsAreConnected`. Each step meets a vertex (`Met`), joins two trees
(`Joined`), shortens paths (`Shortened`) or leaves the forest alone (`StepOfForest`), and
these are the steps of `Partition`. At the end the edges united are those of the
induced subgraph, because a vertex's edges are all taken before the next is
scanned (`InducedIsRead`), and components are as many as roots (`AsManyTrees`).
For the height there is a second function, growing on the way up, with
2^height at most the size at each root (`LowOK`); that powers of two double is shown
by counting subsets (`PowerDoubles`).

`TraversalProofs` proves, for any finite set of vertices and of relations, any set of
edges between them, any list of starts, filters and number of hops (the named
assumptions of `Traversal`):

- `TraversalTyping`: `TypeOK`;
- `ScansAreExact`: `ScanIsExact`, wherever `search_near` leaves the cursor;
- `FrontierIsAtDistance`, `KHopCountIsExact`: every level of k-hop is the vertices at
  that distance, and the answer less the starts is the number of their neighbours;
- `AdjCountIsWalks`: the answer of the adjacency count is the number of walks, or of
  their distinct ends, for any list of relations, repeated ones included;
- `CommonCountIsIntersection`: the answer for common neighbours is the size of the
  intersection, although only the smallest set is searched;
- `MatchesAreCounted`: `MatchesCounted` of `SubgraphMatching`, for any graph, any
  patterns whose edges join variables of theirs and no variable to itself, and any
  order of the variables; with such an edge the total stays 0.

The argument. What `SortSeq` returns is a `CHOOSE`; the keys of a finite table are
shown to have a sorted sequence and only one (`TableSorts`, `TableIsSorted`). Keys
before a prefix come first, then those that match it, then the rest
(`KeyAndPrefix`, `MatchesAreTogether`); so from either neighbour of the prefix the cursor comes to
the first match and stops behind the last. Balls and walks are recursive
functions, and what they compute for every number of hops is an induction. It is replaced, as in
`WccProofs`, by a least counterexample: a set of numbers or of subsets of a finite set that
is not empty has a least element (`LeastNumber`, `LeastSubset`), and a recursive function is
known by giving one solution and showing that any other agrees with it. The
invariant of the queries is then as short as its idea: after `hop` levels the
frontier is the ring of that radius, the vertices of the level already expanded have
their neighbours in `next_vids` or `visited`, and the bag of the adjacency count has
for each vertex as many copies as there are walks of that length to it. The number of
walks is a sum over a bag, which is the cardinality of a union of disjoint sets.

For subgraph matching the invariant says where the backtracking stands among all
homomorphisms: they are ordered by the ids of their vertices, the first variable
first, which is the order of the lists of candidates. One is behind the search
(`PastBy`) when it is smaller than the current mapping at the first variable where the
two differ (`Behind`), or agrees with it (`Agree`) and the next candidate of the
variable is further on (`Tried`); `total` is the number of those behind. `Assign` and
`Exhausted` pass no homomorphism, `Reject` passes only mappings that miss an edge of
the pattern, and `Match` passes exactly the current one. `Reject` may do so because
the edge that is missing has its other end at an earlier depth, so the mapping below
it does not change; `Match` because every edge of the pattern was looked up at the
depth of its later end. The proof refers to `SubgraphMatching` as an instance over the
same graph; its hypothesis `WellFormed` is the `PatternAssumption` of `Algorithms`.

`ServiceProofs` proves, for any non-empty finite set of threads, any positive
`SessionMax` and any requests (the named assumptions of `Service`):

- `SessionsBalance`: `SessionsAccounted`, no path through a handler loses a session
  but the missing destructor of `ReaderWiredTiger`;
- `SurvivesWithinBudget`: `SafeWithinBudget`;
- `ServiceTyping`: `TypeOK`; open sessions stay between 0 and `SessionMax`;
- `TranslationTheorem`: `TranslationIsExact`, what is counted is what the request
  names, also where a name has several ids;
- `OneHopTheorem`: `OneHopShowsRows`, an answer lists exactly the rows asked for.

The last two are about any store that satisfies `StoreAssumption`: references resolve,
one vertex per key, ids of names that are first ids, mirrored edges. This is the
conclusion of `ServableTheorem`, so that the theorems about the import and those about
the service together say what a client may expect of a file. `ListAssumption` says that
a JSON array is a sequence.

The argument. `SessionsAccounted` is kept because a step changes the two sets of
sessions by the thread that takes it, which needs `ReadersPlaced`: a thread has no
reader before its handler, and the algorithm's reader exactly while it counts.
`SafeWithinBudget` is not inductive: a look-up crashes through a session that was
refused earlier. `StarvedLate` therefore speaks of the moment of refusal: a
thread that gets no session holds at most its request's, so the account puts more than
`SessionMax - 2 * threads` among those left behind (`RefusedLate`), and these
are never closed (`BudgetShrinks`). With the code's values, 100 sessions and n
threads, that is at least 101 - 2n requests for k-hop or common neighbours.
For parameters and answers, `HandledOK` says that a thread's parameters and
response are those of its own request, whatever the other threads do; what remains
are facts about the translation itself. `FirstIdsSelect` is the key to the first:
where all ids in use are first ids, the first id of a name selects what the name
selects, and `ListsSelect` carries it over to the lists of a body, in which a name
that does not exist is left out or makes the request fail. For the
second, each line of an answer is matched with the row of the edge it was made from
(`LineShowsRow`) and each row of the store with a line (`LinesAreRows`), in both
directions.

**Only model-checked**, and why. Liveness (`import_pipeline`, `server_live`,
`thread_pool`, `name_writer`, `parallel`) needs fairness and `ENABLED`, which the
provers do not handle. Every invariant and every action property of the passing runs is
proved, and so are the refinements.

## 5. Not modelled, and the plan

Not modelled: terminal output, logging and the vendored CSV parser (their effect
on the import is that a row arrives, the file ends, or an exception comes);
`parse_cli_args`; `write_vertex` and `write_edge`, which only tests call; the
paths of vertices in the parallel count, which are always empty when looked at;
the HTTP framework beyond "a thread takes a request". The rows of a file give each
key one label in the import runs; stores with other labels are in `MCService`.

Order of work, the most important first: (1) import pipeline, store, process,
thread pool, name writer, prefix scan, k-hop and adjacency counts, common neighbours,
weakly connected components, subgraph matching, service, parallel count - done; (2)
proofs about the pipeline, the pool, the whole import with the refinement of
`BulkLoad`, the name writer, the union-find with the refinement of `Partition`, the
service with its answers, and the waiting of the parallel count - done; (3) proofs about
the prefix scan, the level-by-level queries and the matching, without induction, in
the way of `WccProofs` - done; (4) what the parallel count returns, with its levels
overlapping - done. What is left is liveness, which stays with TLC.
