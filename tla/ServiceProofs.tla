--------------------------- MODULE ServiceProofs ---------------------------
(***************************************************************************)
(* What Service guarantees about the sessions of the connection, for any   *)
(* number of threads, any session_max and whatever is asked of it.         *)
(***************************************************************************)
EXTENDS Service, FiniteSetTheorems, WellFoundedInduction, TLAPS
LOCAL INSTANCE FiniteSetsExt

-----------------------------------------------------------------------------
(* Record numbers, names and keys. *)

\* A set of numbers that is not empty has a smallest one.
LEMMA LeastRecno ==
    ASSUME NEW S \in SUBSET Nat, S # {}
    PROVE  \E m \in S : \A n \in S : m <= n
<1> DEFINE R == OpToRel(<, Nat)
<1>1. R = {ss \in Nat \X Nat : ss[1] < ss[2]}
  BY DEF OpToRel
<1>2. IsWellFoundedOn(R, Nat)
  BY NatLessThanWellFounded
<1> HIDE DEF R
<1>3. PICK m \in S : \A n \in S : <<n, m>> \notin R
  BY WFMin, <1>2
<1>4. ASSUME NEW n \in S PROVE m <= n
  <2>1. m \in Nat /\ n \in Nat
    OBVIOUS
  <2>2. n < m => <<n, m>> \in R
    BY <1>1, <2>1
  <2> QED
    BY <1>3, <2>1, <2>2
<1> QED
  BY <1>4

\* Min is that record number.
LEMMA MinExists ==
    ASSUME NEW S \in SUBSET Nat, S # {}
    PROVE  /\ Min(S) \in S
           /\ \A n \in S : Min(S) <= n
  BY LeastRecno DEF Min

\* The smallest record number is the only one that is no larger than the others.
LEMMA MinIs ==
    ASSUME NEW S \in SUBSET Nat, NEW m \in S, \A n \in S : m <= n
    PROVE  Min(S) = m
<1>1. /\ Min(S) \in S
      /\ \A n \in S : Min(S) <= n
  BY MinExists
<1>2. Min(S) \in Nat /\ m \in Nat /\ m <= Min(S) /\ Min(S) <= m
  BY <1>1
<1> QED
  BY <1>2

\* The id of a name that a table has is one of its ids, the smallest.
LEMMA IdOfNameFound ==
    ASSUME NEW table, DOMAIN table \subseteq Nat, NEW name, IdsOfName(table, name) # {}
    PROVE  /\ IdOfName(table, name) \in IdsOfName(table, name)
           /\ \A id \in IdsOfName(table, name) : IdOfName(table, name) <= id
<1>1. IdsOfName(table, name) \in SUBSET Nat
  BY DEF IdsOfName
<1> QED
  BY <1>1, MinExists DEF IdOfName

\* An id that is the first of its name is the one a search of the name finds.
LEMMA FirstIsFound ==
    ASSUME NEW table, DOMAIN table \subseteq Nat, NEW id \in DOMAIN table, IsFirst(table, id)
    PROVE  IdOfName(table, table[id]) = id
<1>1. /\ IdsOfName(table, table[id]) \subseteq Nat /\ id \in IdsOfName(table, table[id])
      /\ \A other \in IdsOfName(table, table[id]) : id <= other
  BY DEF IdsOfName, IsFirst
<1> QED
  BY <1>1, MinIs DEF IdOfName

\* The mirror image of a key is a key of the other direction, and its own is the key.
LEMMA MirrorOfKey ==
    ASSUME NEW key, IsKey(key)
    PROVE  IsKey(Mirror(key)) /\ Mirror(Mirror(key)) = key
           /\ Mirror(key).direction = (IF key.direction = "OUTGOING" THEN "INCOMING" ELSE "OUTGOING")
  BY DEF IsKey, Mirror, EdgeKey

-----------------------------------------------------------------------------

\* A set of threads has a size.
LEMMA ThreadSets ==
    ASSUME NEW S \in SUBSET Thread
    PROVE  IsFiniteSet(S) /\ Cardinality(S) \in Nat /\ Cardinality(S) <= Cardinality(Thread)
  BY ThreadAssumption, FS_Subset, FS_CardinalityType

\* A thread that joins a set makes it larger by one, ...
LEMMA ThreadJoins ==
    ASSUME NEW S \in SUBSET Thread, NEW t \in Thread, t \notin S
    PROVE  Cardinality(S \cup {t}) = Cardinality(S) + 1
<1>1. IsFiniteSet(S)
  BY ThreadSets
<1> QED
  BY <1>1, FS_AddElement

\* ... and one that leaves it smaller by one.
LEMMA ThreadLeaves ==
    ASSUME NEW S \in SUBSET Thread, NEW t \in S
    PROVE  Cardinality(S \ {t}) = Cardinality(S) - 1
<1>1. IsFiniteSet(S)
  BY ThreadSets
<1> QED
  BY <1>1, FS_RemoveElement

\* A thread outside a set leaves room for itself in the bound.
LEMMA ThreadMissing ==
    ASSUME NEW S \in SUBSET Thread, NEW t \in Thread, t \notin S
    PROVE  Cardinality(S) + 1 <= Cardinality(Thread)
<1>1. Cardinality(S \cup {t}) = Cardinality(S) + 1
  BY ThreadJoins
<1>2. Cardinality(S \cup {t}) <= Cardinality(Thread)
  BY ThreadSets
<1> QED
  BY <1>1, <1>2

\* The two sets that open_sessions counts are sets of threads.
LEMMA SessionSets ==
    RequestSessions \in SUBSET Thread /\ AlgorithmSessions \in SUBSET Thread
  BY DEF RequestSessions, AlgorithmSessions

-----------------------------------------------------------------------------
\* The types, with an integer for the counter that may not fall below zero.
Places == {"idle", "route", "handle", "algorithm", "counting", "responded"}
FieldsOK ==
    /\ db \in Databases
    /\ process \in {"up", "down"}
    /\ open_sessions \in Int /\ open_sessions <= SessionMax
    /\ arrived \in 0 .. MaxRequests
    /\ abandoned \in Nat
    /\ request \in [Thread -> Requests \cup {NoRequest}]
    /\ at \in [Thread -> Places]
    /\ reader \in [Thread -> {"none", "open", "garbage"}]
    /\ algo_reader \in [Thread -> {"none", "open"}]

\* A reader is made on the way into a handler, and the algorithm has one of its
\* own exactly while it counts.
ReadersPlaced ==
    \A t \in Thread :
       /\ at[t] \in {"idle", "route"} => reader[t] = "none"
       /\ algo_reader[t] = "open" <=> at[t] = "counting"

\* A thread got no session, or the process is down, only when the sessions that
\* are left behind leave fewer than two for each thread.
OutOfBudget == abandoned > SessionMax - 2 * Cardinality(Thread)
Starved == process = "down" \/ \E t \in Thread : reader[t] = "garbage"
StarvedLate == Starved => OutOfBudget

Inv == FieldsOK /\ ReadersPlaced /\ SessionsAccounted /\ StarvedLate

-----------------------------------------------------------------------------
\* Each field keeps its type and each reader its place.
LEMMA StepKeepsFields ==
    ASSUME FieldsOK, ReadersPlaced, [Next]_vars
    PROVE  FieldsOK' /\ ReadersPlaced'
<1> USE SessionAssumption, RequestAssumption DEF FieldsOK, ReadersPlaced, Places
<1>1. ASSUME NEW t \in Thread, NEW r \in Requests, Arrive(t, r)
      PROVE  FieldsOK' /\ ReadersPlaced'
  BY <1>1 DEF Arrive
<1>2. ASSUME NEW t \in Thread, RoutePing(t) PROVE FieldsOK' /\ ReadersPlaced'
  BY <1>2 DEF RoutePing
<1>3. ASSUME NEW t \in Thread, MakeReader(t) PROVE FieldsOK' /\ ReadersPlaced'
  BY <1>3 DEF MakeReader, SessionLeft
<1>4. ASSUME NEW t \in Thread, MakeReaderFails(t) PROVE FieldsOK' /\ ReadersPlaced'
  BY <1>4 DEF MakeReaderFails
<1>5. ASSUME NEW t \in Thread, CrashInConstructor(t) \/ CrashInLookUp(t)
      PROVE  FieldsOK' /\ ReadersPlaced'
  BY <1>5 DEF CrashInConstructor, CrashInLookUp
<1>6. ASSUME NEW t \in Thread, Ping(t) \/ Refuse(t) \/ OneHop(t) \/ RunAlgorithm(t)
      PROVE  FieldsOK' /\ ReadersPlaced'
  BY <1>6 DEF Ping, Refuse, OneHop, RunAlgorithm, Respond
<1>7. ASSUME NEW t \in Thread, Translate(t) PROVE FieldsOK' /\ ReadersPlaced'
  BY <1>7 DEF Translate, Respond
<1>8. ASSUME NEW t \in Thread, StartAlgorithm(t) PROVE FieldsOK' /\ ReadersPlaced'
  BY <1>8 DEF StartAlgorithm, SessionLeft
<1>9. ASSUME NEW t \in Thread, FinishAlgorithm(t) PROVE FieldsOK' /\ ReadersPlaced'
  BY <1>9 DEF FinishAlgorithm, Respond
<1>10. ASSUME NEW t \in Thread, Return(t) PROVE FieldsOK' /\ ReadersPlaced'
  BY <1>10 DEF Return
<1>11. CASE UNCHANGED vars
  BY <1>11 DEF vars
<1> QED
  BY <1>1, <1>2, <1>3, <1>4, <1>5, <1>6, <1>7, <1>8, <1>9, <1>10, <1>11 DEF Next, Over

\* The two sets of sessions change by the thread that takes the step.
LEMMA StepKeepsAccount ==
    ASSUME FieldsOK, ReadersPlaced, SessionsAccounted, [Next]_vars
    PROVE  SessionsAccounted'
<1> DEFINE Req == RequestSessions
           Alg == AlgorithmSessions
<1> USE DEF SessionsAccounted
<1>0. /\ Req \in SUBSET Thread /\ Alg \in SUBSET Thread
      /\ Cardinality(Req) \in Nat /\ Cardinality(Alg) \in Nat
  BY SessionSets, ThreadSets
<1>1. ASSUME NEW t \in Thread, MakeReader(t) PROVE SessionsAccounted'
  <2>1. t \notin Req
    BY <1>1 DEF MakeReader, RequestSessions, ReadersPlaced
  <2>2. RequestSessions' = Req \cup {t}
    BY <1>1 DEF MakeReader, RequestSessions, FieldsOK
  <2>3. AlgorithmSessions' = Alg
    BY <1>1 DEF MakeReader, AlgorithmSessions
  <2>4. Cardinality(RequestSessions') = Cardinality(Req) + 1
    BY <1>0, <2>1, <2>2, ThreadJoins
  <2> QED
    BY <1>0, <1>1, <2>3, <2>4 DEF MakeReader, FieldsOK
<1>2. ASSUME NEW t \in Thread, MakeReaderFails(t) PROVE SessionsAccounted'
  <2>1. RequestSessions' = Req
    BY <1>2 DEF MakeReaderFails, RequestSessions, FieldsOK, ReadersPlaced
  <2>2. AlgorithmSessions' = Alg
    BY <1>2 DEF MakeReaderFails, AlgorithmSessions
  <2> QED
    BY <1>2, <2>1, <2>2 DEF MakeReaderFails
<1>3. ASSUME NEW t \in Thread, StartAlgorithm(t) PROVE SessionsAccounted'
  <2>1. t \notin Alg
    BY <1>3 DEF StartAlgorithm, AlgorithmSessions, ReadersPlaced
  <2>2. AlgorithmSessions' = Alg \cup {t}
    BY <1>3 DEF StartAlgorithm, AlgorithmSessions, FieldsOK
  <2>3. RequestSessions' = Req
    BY <1>3 DEF StartAlgorithm, RequestSessions
  <2>4. Cardinality(AlgorithmSessions') = Cardinality(Alg) + 1
    BY <1>0, <2>1, <2>2, ThreadJoins
  <2> QED
    BY <1>0, <1>3, <2>3, <2>4 DEF StartAlgorithm, FieldsOK
<1>4. ASSUME NEW t \in Thread, FinishAlgorithm(t) PROVE SessionsAccounted'
  <2>1. t \in Alg
    BY <1>4 DEF FinishAlgorithm, AlgorithmSessions, ReadersPlaced
  <2>2. AlgorithmSessions' = Alg \ {t}
    BY <1>4 DEF FinishAlgorithm, AlgorithmSessions, FieldsOK
  <2>3. RequestSessions' = Req
    BY <1>4 DEF FinishAlgorithm, RequestSessions
  <2>4. Cardinality(AlgorithmSessions') = Cardinality(Alg) - 1
    BY <1>0, <2>1, <2>2, ThreadLeaves
  <2> QED
    BY <1>0, <1>4, <2>3, <2>4 DEF FinishAlgorithm, FieldsOK
<1>5. ASSUME NEW t \in Thread, Return(t) PROVE SessionsAccounted'
  <2>1. AlgorithmSessions' = Alg
    BY <1>5 DEF Return, AlgorithmSessions
  <2>2. RequestSessions' = Req \ {t}
    BY <1>5 DEF Return, RequestSessions, FieldsOK
  <2>3. CASE reader[t] = "open"
    <3>1. Cardinality(RequestSessions') = Cardinality(Req) - 1
      BY <1>0, <2>2, <2>3, ThreadLeaves DEF RequestSessions
    <3>2. \/ abandoned' = abandoned + 1 /\ open_sessions' = open_sessions
          \/ abandoned' = abandoned /\ open_sessions' = open_sessions - 1
      BY <1>5, <2>3 DEF Return
    <3> QED
      BY <1>0, <2>1, <3>1, <3>2 DEF FieldsOK
  <2>4. CASE reader[t] # "open"
    <3>1. RequestSessions' = Req
      BY <2>2, <2>4 DEF RequestSessions
    <3> QED
      BY <1>5, <2>1, <2>4, <3>1 DEF Return
  <2> QED
    BY <2>3, <2>4
<1>6. CASE UNCHANGED <<open_sessions, abandoned, reader, algo_reader>>
  BY <1>6 DEF RequestSessions, AlgorithmSessions
<1> QED
  BY <1>1, <1>2, <1>3, <1>4, <1>5, <1>6
  DEF Next, Over, Arrive, RoutePing, CrashInConstructor, Ping, Refuse, Translate, CrashInLookUp,
      OneHop, RunAlgorithm, vars

\* A thread that is refused a session holds none for its algorithm; then the
\* account says who has them all.
LEMMA RefusedLate ==
    ASSUME FieldsOK, SessionsAccounted, ~ SessionLeft,
           NEW t \in Thread, algo_reader[t] # "open"
    PROVE  OutOfBudget
<1>1. t \notin AlgorithmSessions
  BY DEF AlgorithmSessions
<1>2. Cardinality(AlgorithmSessions) + 1 <= Cardinality(Thread)
  BY <1>1, SessionSets, ThreadMissing
<1>3. /\ Cardinality(RequestSessions) <= Cardinality(Thread)
      /\ Cardinality(RequestSessions) \in Nat /\ Cardinality(AlgorithmSessions) \in Nat
      /\ Cardinality(Thread) \in Nat
  BY SessionSets, ThreadSets
<1>4. open_sessions >= SessionMax
  BY SessionAssumption DEF SessionLeft, FieldsOK
<1> QED
  BY <1>2, <1>3, <1>4, SessionAssumption DEF SessionsAccounted, OutOfBudget, FieldsOK

\* Sessions that are left behind are never closed.
LEMMA BudgetShrinks ==
    ASSUME FieldsOK, [Next]_vars, OutOfBudget
    PROVE  OutOfBudget'
<1>1. abandoned' \in {abandoned, abandoned + 1}
  BY DEF Next, Over, Arrive, RoutePing, MakeReader, MakeReaderFails, CrashInConstructor, Ping,
         Refuse, Translate, CrashInLookUp, OneHop, StartAlgorithm, FinishAlgorithm, RunAlgorithm,
         Return, vars
<1>2. Cardinality(Thread) \in Nat
  BY ThreadSets
<1> QED
  BY <1>1, <1>2, SessionAssumption DEF OutOfBudget, FieldsOK

\* Two steps can starve: a reader that gets no session, and a crash; a look-up
\* crashes only through the session of such a reader.
LEMMA StepKeepsBudget ==
    ASSUME Inv, [Next]_vars
    PROVE  StarvedLate'
<1>1. CASE Starved
  BY <1>1, BudgetShrinks DEF Inv, StarvedLate
<1>2. CASE ~ Starved
  <2>1. ASSUME NEW t \in Thread, MakeReaderFails(t) \/ CrashInConstructor(t) PROVE StarvedLate'
    <3>1. ~ SessionLeft /\ algo_reader[t] # "open"
      BY <2>1 DEF MakeReaderFails, CrashInConstructor, Inv, ReadersPlaced
    <3>2. OutOfBudget
      BY <3>1, RefusedLate DEF Inv
    <3> QED
      BY <3>2, BudgetShrinks DEF Inv, StarvedLate
  <2>2. ASSUME NEW t \in Thread, CrashInLookUp(t) PROVE FALSE
    BY <1>2, <2>2 DEF CrashInLookUp, Starved
  <2>3. CASE process' = process /\ \A t \in Thread : reader'[t] = "garbage" => reader[t] = "garbage"
    BY <1>2, <2>3 DEF Starved, StarvedLate
  <2>4. ASSUME NEW t \in Thread, MakeReader(t) \/ Return(t) PROVE StarvedLate'
    BY <2>3, <2>4 DEF MakeReader, Return, Inv, FieldsOK
  <2>5. CASE UNCHANGED <<process, reader>>
    BY <2>3, <2>5
  <2> QED
    BY <2>1, <2>2, <2>4, <2>5
    DEF Next, Over, Arrive, RoutePing, Ping, Refuse, Translate, OneHop, StartAlgorithm,
        FinishAlgorithm, RunAlgorithm, vars
<1> QED
  BY <1>1, <1>2

-----------------------------------------------------------------------------
\* The invariant of the sessions and the readers holds for ever.
LEMMA ServiceInvariant == Spec => []Inv
<1>1. Init => Inv
  <2> SUFFICES ASSUME Init PROVE Inv
    OBVIOUS
  <2>1. FieldsOK /\ ReadersPlaced
    BY SessionAssumption, RequestAssumption DEF Init, FieldsOK, ReadersPlaced, Places
  <2>2. RequestSessions = {} /\ AlgorithmSessions = {}
    BY DEF Init, RequestSessions, AlgorithmSessions
  <2>3. SessionsAccounted
    BY <2>2, FS_EmptySet DEF Init, SessionsAccounted
  <2>4. StarvedLate
    BY DEF Init, StarvedLate, Starved
  <2> QED
    BY <2>1, <2>3, <2>4 DEF Inv
<1>2. Inv /\ [Next]_vars => Inv'
  BY StepKeepsFields, StepKeepsAccount, StepKeepsBudget DEF Inv
<1> QED
  BY <1>1, <1>2, PTL DEF Spec

\* Sessions are neither lost nor made, whatever is asked and in whatever order:
\* those open are held by requests in progress or were left behind by readers
\* that have no destructor.
THEOREM SessionsBalance == Spec => []SessionsAccounted
<1>1. Inv => SessionsAccounted
  BY DEF Inv
<1> QED
  BY <1>1, ServiceInvariant, PTL

\* The server stays up until the sessions left behind leave fewer than two for
\* each thread.
THEOREM SurvivesWithinBudget == Spec => []SafeWithinBudget
<1>1. Inv => SafeWithinBudget
  BY DEF Inv, StarvedLate, Starved, OutOfBudget, SafeWithinBudget
<1> QED
  BY <1>1, ServiceInvariant, PTL

\* The type invariant: the number of open sessions is never negative, and
\* never more than the connection has.
THEOREM ServiceTyping == Spec => []TypeOK
<1>1. Inv => TypeOK
  <2> SUFFICES ASSUME Inv PROVE TypeOK
    OBVIOUS
  <2>1. Cardinality(RequestSessions) \in Nat /\ Cardinality(AlgorithmSessions) \in Nat
    BY SessionSets, ThreadSets
  <2>2. open_sessions \in 0 .. SessionMax
    BY <2>1, SessionAssumption DEF Inv, FieldsOK, SessionsAccounted
  <2> QED
    BY <2>2 DEF Inv, FieldsOK, Places, TypeOK
<1> QED
  BY <1>1, ServiceInvariant, PTL

-----------------------------------------------------------------------------
(* What is asked and what is answered. *)

\* The routes that translate names to ids.
Translated == {"k_hop", "common", "wcc", "matching", "adj"}

\* A request in progress has its own translation, and the answer to itself.
Handled(t) ==
    /\ at[t] # "idle" => request[t] \in Requests
    /\ at[t] \in {"idle", "route", "handle"} => params[t] = Rejected
    /\ at[t] \in {"algorithm", "counting"} => request[t].route \in Translated
    /\ params[t] # Rejected =>
          /\ request[t].route \in Translated /\ Readable(request[t])
          /\ params[t] = Parsed(request[t])
    /\ at[t] = "responded" /\ request[t].route = "one_hop" =>
          response[t] = OneHopResponse(request[t].body)
HandledOK ==
    /\ DOMAIN params = Thread /\ DOMAIN response = Thread
    /\ \A t \in Thread : Handled(t)

\* Nobody writes the store, so a translation stays what it is ...
LEMMA TranslationStays ==
    ASSUME UNCHANGED db, NEW r
    PROVE  Parsed(r)' = Parsed(r)
<1>1. ASSUME NEW list, NEW x PROVE LookUp(list, x)' = LookUp(list, x)
  BY DEF LookUp, get_vertex_by_pk, get_label_type_id, get_relation_type_id
<1>2. ASSUME NEW list, NEW names PROVE Ids(list, names)' = Ids(list, names)
  BY <1>1 DEF Ids
<1>3. ASSUME NEW body, NEW list PROVE IdsIn(body, list)' = IdsIn(body, list)
  BY <1>2 DEF IdsIn
<1>4. ASSUME NEW body, NEW lists PROVE NamesFound(body, lists)' <=> NamesFound(body, lists)
  BY <1>3 DEF NamesFound
<1>5. ASSUME NEW body
      PROVE  parse_khop_query_params(body)' = parse_khop_query_params(body)
  BY <1>3, <1>4 DEF parse_khop_query_params
<1>6. ASSUME NEW body
      PROVE  parse_common_neighbor_query_params(body)' = parse_common_neighbor_query_params(body)
  BY <1>3, <1>4 DEF parse_common_neighbor_query_params
<1>7. ASSUME NEW body PROVE parse_wcc_params(body)' = parse_wcc_params(body)
  BY <1>3, <1>4 DEF parse_wcc_params
<1>8. ASSUME NEW body
      PROVE  parse_adj_count_query_params(body)' = parse_adj_count_query_params(body)
  BY <1>3, <1>4 DEF parse_adj_count_query_params
<1>9. ASSUME NEW body
      PROVE  parse_subgraph_matching_params(body)' = parse_subgraph_matching_params(body)
  BY <1>2 DEF parse_subgraph_matching_params
<1> QED
  BY <1>5, <1>6, <1>7, <1>8, <1>9 DEF Parsed

\* ... and so does the answer of the one-hop handler.
LEMMA AnswerStays ==
    ASSUME UNCHANGED db, NEW body
    PROVE  OneHopResponse(body)' = OneHopResponse(body)
<1>1. ASSUME NEW x
      PROVE  /\ get_vertex_by_pk(x)' = get_vertex_by_pk(x)
             /\ get_relation_type_id(x)' = get_relation_type_id(x)
             /\ get_vertex_by_id(x)' = get_vertex_by_id(x)
  BY DEF get_vertex_by_pk, get_relation_type_id, get_vertex_by_id
<1>2. ASSUME NEW pk, NEW start, NEW key PROVE Line(pk, start, key)' = Line(pk, start, key)
  BY DEF Line, get_label_type_by_id, get_relation_type_by_id, get_vertex_by_id
<1>3. ASSUME NEW start, NEW direction, NEW relations
      PROVE  get_neighbors_by_start_vertex(start, direction, relations)'
                = get_neighbors_by_start_vertex(start, direction, relations)
  BY DEF get_neighbors_by_start_vertex
<1>4. ASSUME NEW relations PROVE DataOf(body, relations)' = DataOf(body, relations)
  BY <1>1, <1>2, <1>3 DEF DataOf
<1>5. RelationsOf(body)' = RelationsOf(body)
  BY <1>1 DEF RelationsOf
<1>6. DataOf(body, RelationsOf(body))' = DataOf(body, RelationsOf(body))
  BY <1>4, <1>5
<1> QED
  BY <1>1, <1>5, <1>6 DEF OneHopResponse, Code, Has, NotFound

\* A thread that does nothing meanwhile keeps what it has.
LEMMA HandledStays ==
    ASSUME UNCHANGED db, NEW t \in Thread, Handled(t),
           at'[t] = at[t], request'[t] = request[t], params'[t] = params[t],
           response'[t] = response[t]
    PROVE  Handled(t)'
<1>1. (\A r : Parsed(r)' = Parsed(r)) /\ (\A body : OneHopResponse(body)' = OneHopResponse(body))
  BY TranslationStays, AnswerStays
<1>2. Parsed(request[t])' = Parsed(request[t])
      /\ OneHopResponse(request[t].body)' = OneHopResponse(request[t].body)
  BY <1>1
<1>3. Readable(request[t])' = Readable(request[t])
  BY DEF Readable, Has
<1> QED
  BY <1>2, <1>3 DEF Handled, Rejected, Translated

\* So a step need only be followed by the thread that takes it.
LEMMA OneThreadSteps ==
    ASSUME HandledOK, UNCHANGED db, NEW t \in Thread, Handled(t)',
           DOMAIN params' = Thread, DOMAIN response' = Thread,
           \A u \in Thread : u # t =>
              /\ at'[u] = at[u] /\ request'[u] = request[u] /\ params'[u] = params[u]
              /\ response'[u] = response[u]
    PROVE  HandledOK'
  BY HandledStays DEF HandledOK

\* No step gives a thread another's translation or answer.
LEMMA StepKeepsHandled ==
    ASSUME FieldsOK, HandledOK, [Next]_vars
    PROVE  HandledOK'
<1> USE DEF FieldsOK
<1>1. ASSUME NEW t \in Thread, NEW r \in Requests, Arrive(t, r) PROVE HandledOK'
  <2>1. Handled(t)'
    BY <1>1 DEF Arrive, HandledOK, Handled, Rejected, Places
  <2> QED
    BY <1>1, <2>1, OneThreadSteps DEF Arrive, HandledOK
<1>2. ASSUME NEW t \in Thread, RoutePing(t) \/ MakeReader(t) \/ MakeReaderFails(t) PROVE HandledOK'
  <2>1. Handled(t)'
    BY <1>2 DEF RoutePing, MakeReader, MakeReaderFails, HandledOK, Handled, Rejected, Places
  <2> QED
    BY <1>2, <2>1, OneThreadSteps DEF RoutePing, MakeReader, MakeReaderFails, HandledOK
<1>3. ASSUME NEW t \in Thread, Ping(t) \/ Refuse(t) PROVE HandledOK'
  <2>1. Handled(t)'
    BY <1>3 DEF Ping, Refuse, Respond, HandledOK, Handled, Rejected, Places
  <2> QED
    BY <1>3, <2>1, OneThreadSteps DEF Ping, Refuse, Respond, HandledOK
<1>4. ASSUME NEW t \in Thread, Translate(t) PROVE HandledOK'
  <2>1. /\ request' = request /\ at[t] = "handle" /\ Readable(request[t])
        /\ request[t].route \in Translated
        /\ params'[t] # Rejected => params'[t] = Parsed(request[t])
        /\ \/ params'[t] = Rejected /\ at'[t] = "responded"
           \/ at'[t] = "algorithm"
    BY <1>4 DEF Translate, Respond, HandledOK, Translated, ReaderRoutes, OneTrxRoutes
  <2>2. Parsed(request[t])' = Parsed(request[t]) /\ Readable(request[t])' = Readable(request[t])
    <3>1. db' = db
      BY <1>4 DEF Translate
    <3>2. \A r : Parsed(r)' = Parsed(r)
      BY <3>1, TranslationStays
    <3> QED
      BY <2>1, <3>2 DEF Readable, Has
  <2>3. Handled(t)'
    BY <2>1, <2>2 DEF HandledOK, Handled, Rejected, Translated
  <2> QED
    BY <1>4, <2>3, OneThreadSteps DEF Translate, Respond, HandledOK
<1>5. ASSUME NEW t \in Thread, StartAlgorithm(t) \/ FinishAlgorithm(t) \/ RunAlgorithm(t)
      PROVE  HandledOK'
  <2>1. /\ request' = request /\ params' = params /\ at[t] \in {"algorithm", "counting"}
        /\ at'[t] \in {"counting", "responded"}
    BY <1>5 DEF StartAlgorithm, FinishAlgorithm, RunAlgorithm, Respond
  <2>2. Parsed(request[t])' = Parsed(request[t]) /\ Readable(request[t])' = Readable(request[t])
    <3>1. db' = db
      BY <1>5 DEF StartAlgorithm, FinishAlgorithm, RunAlgorithm
    <3>2. \A r : Parsed(r)' = Parsed(r)
      BY <3>1, TranslationStays
    <3> QED
      BY <2>1, <3>2 DEF Readable, Has
  <2>3. Handled(t)'
    BY <2>1, <2>2 DEF HandledOK, Handled, Rejected, Translated
  <2> QED
    BY <1>5, <2>3, OneThreadSteps
    DEF StartAlgorithm, FinishAlgorithm, RunAlgorithm, Respond, HandledOK
<1>6. ASSUME NEW t \in Thread, OneHop(t) PROVE HandledOK'
  <2>1. /\ request' = request /\ params' = params /\ at[t] = "handle" /\ at'[t] = "responded"
        /\ response'[t] = OneHopResponse(request[t].body)
    BY <1>6 DEF OneHop, Respond, HandledOK
  <2>2. OneHopResponse(request[t].body)' = OneHopResponse(request[t].body)
    <3>1. db' = db
      BY <1>6 DEF OneHop
    <3>2. \A body : OneHopResponse(body)' = OneHopResponse(body)
      BY <3>1, AnswerStays
    <3> QED
      BY <2>1, <3>2
  <2>3. Handled(t)'
    BY <2>1, <2>2 DEF HandledOK, Handled, Rejected
  <2> QED
    BY <1>6, <2>3, OneThreadSteps DEF OneHop, Respond, HandledOK
<1>7. ASSUME NEW t \in Thread, Return(t) PROVE HandledOK'
  <2>1. Handled(t)'
    BY <1>7 DEF Return, HandledOK, Handled, Rejected
  <2> QED
    BY <1>7, <2>1, OneThreadSteps DEF Return, HandledOK
<1>8. CASE UNCHANGED <<db, request, at, params, response>>
  BY <1>8, HandledStays DEF HandledOK
<1> QED
  BY <1>1, <1>2, <1>3, <1>4, <1>5, <1>6, <1>7, <1>8
  DEF Next, Over, CrashInConstructor, CrashInLookUp, vars

-----------------------------------------------------------------------------
(* What the ids of a list select. *)

\* The ids of a list of names, all of them found.
FoundIds(table, names, ids) ==
    /\ DOMAIN ids = DOMAIN names /\ AllFound(ids)
    /\ \A i \in DOMAIN names : ids[i] = IF IdsOfName(table, names[i]) = {} THEN NotFound
                                        ELSE IdOfName(table, names[i])

\* They are the first ids of the names, and so select the rows that have one of
\* the names.
LEMMA FirstIdsSelect ==
    ASSUME NEW table, DOMAIN table \subseteq Nat \ {0}, NEW names, NEW ids,
           FoundIds(table, names, ids), NEW id \in DOMAIN table, IsFirst(table, id)
    PROVE  (\E i \in DOMAIN ids : id = ids[i]) <=> (\E i \in DOMAIN names : table[id] = names[i])
<1>1. \A i \in DOMAIN names :
         IdsOfName(table, names[i]) # {} /\ ids[i] = IdOfName(table, names[i])
  BY DEF FoundIds, AllFound
<1>2. ASSUME NEW i \in DOMAIN names, id = ids[i] PROVE table[id] = names[i]
  BY <1>1, <1>2, IdOfNameFound DEF IdsOfName
<1>3. ASSUME NEW i \in DOMAIN names, table[id] = names[i] PROVE id = ids[i]
  BY <1>1, <1>3, FirstIsFound
<1> QED
  BY <1>2, <1>3 DEF FoundIds

\* Lists of labels and of relations, or none, select what their names say.
LEMMA ListsSelect ==
    ASSUME db \in Databases, NEW labels, NEW label_names, NEW relations, NEW relation_names,
           \/ labels = <<>> /\ label_names = <<>>
           \/ labels = Ids("n_labels", label_names) /\ AllFound(labels),
           \/ relations = <<>> /\ relation_names = <<>>
           \/ relations = Ids("r_labels", relation_names) /\ AllFound(relations)
    PROVE  IdsSelectNames(labels, label_names, relations, relation_names)
<1>1. Servable(db)
  BY StoreAssumption
<1>2. DOMAIN db.label_type \subseteq Nat \ {0} /\ DOMAIN db.relation_type \subseteq Nat \ {0}
  BY <1>1 DEF Servable
<1>3. ASSUME NEW id \in DOMAIN db.label_type, IsFirst(db.label_type, id)
      PROVE  (\E i \in DOMAIN labels : id = labels[i])
                <=> (\E i \in DOMAIN label_names : db.label_type[id] = label_names[i])
  <2>1. CASE labels = <<>> /\ label_names = <<>>
    BY <2>1
  <2>2. CASE labels = Ids("n_labels", label_names) /\ AllFound(labels)
    <3>1. FoundIds(db.label_type, label_names, labels)
      BY <2>2 DEF FoundIds, Ids, LookUp, get_label_type_id
    <3> QED
      BY <1>2, <1>3, <3>1, FirstIdsSelect
  <2> QED
    BY <2>1, <2>2
<1>4. ASSUME NEW id \in DOMAIN db.relation_type, IsFirst(db.relation_type, id)
      PROVE  (\E i \in DOMAIN relations : id = relations[i])
                <=> (\E i \in DOMAIN relation_names : db.relation_type[id] = relation_names[i])
  <2>1. CASE relations = <<>> /\ relation_names = <<>>
    BY <2>1
  <2>2. CASE relations = Ids("r_labels", relation_names) /\ AllFound(relations)
    <3>1. FoundIds(db.relation_type, relation_names, relations)
      BY <2>2 DEF FoundIds, Ids, LookUp, get_relation_type_id
    <3> QED
      BY <1>2, <1>4, <3>1, FirstIdsSelect
  <2> QED
    BY <2>1, <2>2
<1>5. /\ \A v \in DOMAIN db.vertex :
            /\ db.vertex[v].label_type_id \in DOMAIN db.label_type
            /\ IsFirst(db.label_type, db.vertex[v].label_type_id)
      /\ \A key \in DOMAIN db.edge :
            /\ db.edge[key] \in DOMAIN db.label_type /\ IsFirst(db.label_type, db.edge[key])
            /\ key.relation_type_id \in DOMAIN db.relation_type
            /\ IsFirst(db.relation_type, key.relation_type_id)
  BY <1>1 DEF Servable, ReferencesResolve, IdsAreFirst
<1> QED
  BY <1>3, <1>4, <1>5 DEF IdsSelectNames

\* A list of keys, all found, is translated to their vertices.
LEMMA KeysAreTranslated ==
    ASSUME db \in Databases, NEW body, NEW p, AllFound(p.vertex_id_list),
           body.node_ids \in Seq({body.node_ids[i] : i \in DOMAIN body.node_ids}),
           p.vertex_id_list = Ids("node_ids", body.node_ids)
    PROVE  KeysTranslated(p, body)
<1> DEFINE names == body.node_ids
           ids == p.vertex_id_list
<1>1. OnePerPk(db)
  BY StoreAssumption DEF Servable
<1>2. ids = [i \in DOMAIN names |-> get_vertex_by_pk(names[i])]
  BY DEF Ids, LookUp
<1>3. Len(ids) = Len(names)
  <2>1. DOMAIN names = 1 .. Len(names) /\ Len(names) \in Nat
    OBVIOUS
  <2> HIDE DEF names, ids
  <2>2. ids \in [1 .. Len(names) -> {ids[i] : i \in 1 .. Len(names)}]
    BY <1>2, <2>1
  <2>3. ids \in Seq({ids[i] : i \in 1 .. Len(names)})
    BY <2>1, <2>2
  <2> QED
    BY <2>1, <2>2, <2>3
<1>4. ASSUME NEW i \in DOMAIN names
      PROVE  {v \in DOMAIN db.vertex : db.vertex[v].vertex_pk = names[i]} = {ids[i]}
  <2>1. IdsOfPk(db.vertex, names[i]) # {} /\ ids[i] \in IdsOfPk(db.vertex, names[i])
    BY <1>2 DEF AllFound, get_vertex_by_pk
  <2> QED
    BY <1>1, <2>1 DEF IdsOfPk, OnePerPk
<1> QED
  BY <1>3, <1>4 DEF KeysTranslated

\* A pattern is translated node by node and edge by edge; of the entries of a
\* variable the last one counts.
LEMMA PatternIsTranslated ==
    ASSUME db \in Databases, NEW body, NEW p,
           body.nodes \in Seq({body.nodes[i] : i \in DOMAIN body.nodes}),
           p = parse_subgraph_matching_params(body), p # Rejected
    PROVE  PatternTranslated(p, body)
<1>1. /\ \A i \in DOMAIN body.nodes : AllFound(Ids("n_labels", body.nodes[i].labels))
      /\ \A i \in DOMAIN body.edges : AllFound(Ids("r_labels", body.edges[i].labels))
      /\ p.nodes_pattern_map =
            [var \in {body.nodes[i].var : i \in DOMAIN body.nodes} |->
                Ids("n_labels", body.nodes[LastOf(body.nodes, var)].labels)]
      /\ DOMAIN p.edges_pattern_list = DOMAIN body.edges
      /\ \A i \in DOMAIN body.edges :
            p.edges_pattern_list[i].relations = Ids("r_labels", body.edges[i].labels)
  BY DEF parse_subgraph_matching_params
<1>2. ASSUME NEW i \in DOMAIN body.edges
      PROVE  IdsSelectNames(<<>>, <<>>, p.edges_pattern_list[i].relations, body.edges[i].labels)
  <2>1. /\ p.edges_pattern_list[i].relations = Ids("r_labels", body.edges[i].labels)
        /\ AllFound(p.edges_pattern_list[i].relations)
    BY <1>1
  <2> QED
    BY <2>1, ListsSelect
<1>3. ASSUME NEW i \in DOMAIN body.nodes,
             {j \in DOMAIN body.nodes : j > i /\ body.nodes[j].var = body.nodes[i].var} = {}
      PROVE  IdsSelectNames(p.nodes_pattern_map[body.nodes[i].var], body.nodes[i].labels, <<>>, <<>>)
  <2> DEFINE IsLastOf(k) ==
         /\ k \in DOMAIN body.nodes /\ body.nodes[k].var = body.nodes[i].var
         /\ \A j \in DOMAIN body.nodes : body.nodes[j].var = body.nodes[i].var => j <= k
  <2>1. DOMAIN body.nodes \subseteq Nat
    OBVIOUS
  <2>2. IsLastOf(i)
    BY <1>3, <2>1
  <2>3. \A k : IsLastOf(k) => k = i
    BY <2>1, <2>2
  <2>4. LastOf(body.nodes, body.nodes[i].var) = i
    BY <2>2, <2>3 DEF LastOf
  <2>5. /\ p.nodes_pattern_map[body.nodes[i].var] = Ids("n_labels", body.nodes[i].labels)
        /\ AllFound(Ids("n_labels", body.nodes[i].labels))
    BY <1>1, <2>4
  <2> QED
    BY <2>5, ListsSelect
<1> QED
  BY <1>1, <1>2, <1>3 DEF PatternTranslated

\* What each parse function returns says what its body does.
LEMMA TranslationExact ==
    ASSUME db \in Databases, NEW r \in Requests, r.route \in Translated, Readable(r), NEW p,
           p = Parsed(r), p # Rejected
    PROVE  IF r.route = "matching" THEN PatternTranslated(p, r.body)
           ELSE /\ r.route # "wcc" => KeysTranslated(p, r.body)
                /\ IdsSelectNames(IF r.route = "common" THEN <<>> ELSE p.n_labels,
                                  IF r.route = "common" THEN <<>> ELSE Member(r.body, "n_labels"),
                                  p.r_labels, Member(r.body, "r_labels"))
<1> DEFINE body == r.body
<1>1. \A list \in {"node_ids", "nodes"} \cap DOMAIN body :
         body[list] \in Seq({body[list][i] : i \in DOMAIN body[list]})
  BY ListAssumption DEF Translated
<1>2. CASE r.route = "matching"
  <2>1. p = parse_subgraph_matching_params(body)
    BY <1>2 DEF Parsed
  <2>2. "nodes" \in DOMAIN body
    BY <2>1 DEF parse_subgraph_matching_params, Has
  <2>3. body.nodes \in Seq({body.nodes[i] : i \in DOMAIN body.nodes})
    BY <1>1, <2>2
  <2> QED
    BY <1>2, <2>1, <2>3, PatternIsTranslated
<1>3. ASSUME "node_ids" \in DOMAIN body, p.vertex_id_list = IdsIn(body, "node_ids"),
             AllFound(p.vertex_id_list)
      PROVE  KeysTranslated(p, body)
  <2>1. p.vertex_id_list = Ids("node_ids", body.node_ids)
    BY <1>3 DEF IdsIn, Member
  <2>2. body.node_ids \in Seq({body.node_ids[i] : i \in DOMAIN body.node_ids})
    BY <1>1, <1>3
  <2> QED
    BY <1>3, <2>1, <2>2, KeysAreTranslated
<1>4. ASSUME p.r_labels = IdsIn(body, "r_labels"), AllFound(p.r_labels)
      PROVE  /\ IdsSelectNames(<<>>, <<>>, p.r_labels, Member(body, "r_labels"))
             /\ p.n_labels = IdsIn(body, "n_labels") /\ AllFound(p.n_labels) =>
                   IdsSelectNames(p.n_labels, Member(body, "n_labels"),
                                  p.r_labels, Member(body, "r_labels"))
  BY <1>4, ListsSelect DEF IdsIn
<1>5. CASE r.route \in {"k_hop", "adj"}
  <2>1. p = parse_khop_query_params(body) \/ p = parse_adj_count_query_params(body)
    BY <1>5 DEF Parsed
  <2>2. /\ p.vertex_id_list = IdsIn(body, "node_ids") /\ p.n_labels = IdsIn(body, "n_labels")
        /\ p.r_labels = IdsIn(body, "r_labels")
        /\ NamesFound(body, {"node_ids", "n_labels", "r_labels"})
    BY <2>1 DEF parse_khop_query_params, parse_adj_count_query_params
  <2>3. "node_ids" \in DOMAIN body
    <3>1. CASE r.route = "k_hop"
      BY <3>1 DEF Parsed, parse_khop_query_params, Has
    <3>2. CASE r.route = "adj"
      BY <3>2 DEF Readable, Has
    <3> QED
      BY <1>5, <3>1, <3>2
  <2> QED
    BY <1>3, <1>4, <1>5, <2>2, <2>3 DEF NamesFound
<1>6. CASE r.route = "common"
  <2>1. p = parse_common_neighbor_query_params(body)
    BY <1>6 DEF Parsed
  <2>2. /\ p.vertex_id_list = IdsIn(body, "node_ids") /\ p.r_labels = IdsIn(body, "r_labels")
        /\ NamesFound(body, {"node_ids", "r_labels"}) /\ "node_ids" \in DOMAIN body
    BY <2>1 DEF parse_common_neighbor_query_params, Has
  <2> QED
    BY <1>3, <1>4, <1>6, <2>2 DEF NamesFound
<1>7. CASE r.route = "wcc"
  <2>1. p = parse_wcc_params(body)
    BY <1>7 DEF Parsed
  <2>2. /\ p.n_labels = IdsIn(body, "n_labels") /\ p.r_labels = IdsIn(body, "r_labels")
        /\ NamesFound(body, {"n_labels", "r_labels"})
    BY <2>1 DEF parse_wcc_params
  <2> QED
    BY <1>4, <1>7, <2>2 DEF NamesFound
<1> QED
  BY <1>2, <1>5, <1>6, <1>7 DEF Translated

-----------------------------------------------------------------------------
(* What an answer of the one-hop handler shows. *)

\* The vertex of a key that is found: there is one.
LEMMA VertexOfPk ==
    ASSUME db \in Databases, NEW pk, IdsOfPk(db.vertex, pk) # {}
    PROVE  /\ get_vertex_by_pk(pk) \in DOMAIN db.vertex /\ get_vertex_by_pk(pk) # NotFound
           /\ \A v \in DOMAIN db.vertex : db.vertex[v].vertex_pk = pk <=> v = get_vertex_by_pk(pk)
           /\ LabelOf(pk) = db.label_type[db.vertex[get_vertex_by_pk(pk)].label_type_id]
<1>1. OnePerPk(db) /\ DOMAIN db.vertex \subseteq Nat \ {0}
  BY StoreAssumption DEF Servable
<1>2. get_vertex_by_pk(pk) \in IdsOfPk(db.vertex, pk)
  BY DEF get_vertex_by_pk
<1>3. get_vertex_by_pk(pk) \in DOMAIN db.vertex /\ db.vertex[get_vertex_by_pk(pk)].vertex_pk = pk
  BY <1>2 DEF IdsOfPk
<1>4. \A v \in DOMAIN db.vertex : db.vertex[v].vertex_pk = pk <=> v = get_vertex_by_pk(pk)
  BY <1>1, <1>3 DEF OnePerPk
<1>5. (CHOOSE v \in DOMAIN db.vertex : db.vertex[v].vertex_pk = pk) = get_vertex_by_pk(pk)
  BY <1>3, <1>4
<1> QED
  BY <1>1, <1>3, <1>4, <1>5 DEF LabelOf, NotFound

\* The relation that a body names, as OneHopShowsRows reads it.
NamedRelation(body) == IF "relation" \in DOMAIN body THEN body.relation ELSE ""

\* The ids searched for are those of the relation named, if it is there.
LEMMA RelationIds ==
    ASSUME db \in Databases, NEW body
    PROVE  /\ NotFound \in RelationsOf(body) <=>
                 NamedRelation(body) \notin {""} \cup
                    {db.relation_type[i] : i \in DOMAIN db.relation_type}
           /\ NotFound \notin RelationsOf(body) =>
                 \A key \in DOMAIN db.edge :
                    (RelationsOf(body) = {} \/ key.relation_type_id \in RelationsOf(body))
                       <=> (\/ NamedRelation(body) = ""
                            \/ db.relation_type[key.relation_type_id] = NamedRelation(body))
<1>1. /\ DOMAIN db.relation_type \subseteq Nat \ {0}
      /\ \A key \in DOMAIN db.edge : /\ key.relation_type_id \in DOMAIN db.relation_type
                                     /\ IsFirst(db.relation_type, key.relation_type_id)
  BY StoreAssumption DEF Servable, ReferencesResolve, IdsAreFirst
<1>2. CASE NamedRelation(body) = ""
  BY <1>2 DEF RelationsOf, NamedRelation, Has
<1>3. CASE NamedRelation(body) # ""
  <2> DEFINE name == NamedRelation(body)
  <2>1. RelationsOf(body) = {get_relation_type_id(name)}
    BY <1>3 DEF RelationsOf, NamedRelation, Has
  <2> HIDE DEF name
  <2>2. CASE IdsOfName(db.relation_type, name) = {}
    BY <1>3, <2>1, <2>2 DEF get_relation_type_id, IdsOfName, name
  <2>3. CASE IdsOfName(db.relation_type, name) # {}
    <3>1. /\ get_relation_type_id(name) = IdOfName(db.relation_type, name)
          /\ IdOfName(db.relation_type, name) \in IdsOfName(db.relation_type, name)
      BY <1>1, <2>3, IdOfNameFound DEF get_relation_type_id
    <3>2. /\ get_relation_type_id(name) \in DOMAIN db.relation_type
          /\ db.relation_type[get_relation_type_id(name)] = name
          /\ get_relation_type_id(name) # NotFound
      BY <1>1, <3>1 DEF IdsOfName, NotFound
    <3>3. ASSUME NEW key \in DOMAIN db.edge
          PROVE  key.relation_type_id = get_relation_type_id(name)
                    <=> db.relation_type[key.relation_type_id] = name
      BY <1>1, <3>1, <3>2, FirstIsFound
    <3> QED
      BY <1>3, <2>1, <3>2, <3>3 DEF name
  <2> QED
    BY <2>2, <2>3
<1> QED
  BY <1>2, <1>3

\* The lines of one direction.
LinesOf(body, direction) ==
    {Line(body.start_vertex_pk, get_vertex_by_id(get_vertex_by_pk(body.start_vertex_pk)), key) :
        key \in get_neighbors_by_start_vertex(get_vertex_by_pk(body.start_vertex_pk), direction,
                                              RelationsOf(body))}

\* The line of an outgoing key, and that of its mirror image at the other end,
\* show the row of the edge, with the label of the vertex that was asked for.
LEMMA LineShowsRow ==
    ASSUME db \in Databases, NEW pk, IdsOfPk(db.vertex, pk) # {},
           NEW key \in DOMAIN db.edge, key.direction = "OUTGOING"
    PROVE  LET row == RowOfEdge(db, key)
               id == get_vertex_by_pk(pk)
           IN  /\ row.start_pk = pk <=> key.start_vertex_id = id
               /\ row.end_pk = pk <=> key.end_vertex_id = id
               /\ row.relation_type = db.relation_type[key.relation_type_id]
               /\ key.start_vertex_id = id =>
                     Line(pk, get_vertex_by_id(id), key)
                        = [row EXCEPT !.start_label_type = LabelOf(pk)]
               /\ key.end_vertex_id = id =>
                     Line(pk, get_vertex_by_id(id), Mirror(key))
                        = [row EXCEPT !.end_label_type = LabelOf(pk)]
<1> DEFINE row == RowOfEdge(db, key)
           id == get_vertex_by_pk(pk)
<1>1. key.start_vertex_id \in DOMAIN db.vertex /\ key.end_vertex_id \in DOMAIN db.vertex
  BY StoreAssumption DEF Servable, ReferencesResolve
<1>2. /\ \A v \in DOMAIN db.vertex : db.vertex[v].vertex_pk = pk <=> v = id
      /\ LabelOf(pk) = db.label_type[db.vertex[id].label_type_id]
      /\ id \in DOMAIN db.vertex
  BY VertexOfPk
<1>3. row = [start_pk |-> db.vertex[key.start_vertex_id].vertex_pk,
             start_label_type |-> db.label_type[db.edge[Mirror(key)]],
             relation_type |-> db.relation_type[key.relation_type_id],
             end_pk |-> db.vertex[key.end_vertex_id].vertex_pk,
             end_label_type |-> db.label_type[db.edge[key]]]
  BY DEF RowOfEdge
<1>4. /\ Mirror(key).direction = "INCOMING" /\ Mirror(key).start_vertex_id = key.end_vertex_id
      /\ Mirror(key).end_vertex_id = key.start_vertex_id
      /\ Mirror(key).relation_type_id = key.relation_type_id
  BY DEF Mirror, EdgeKey
<1> HIDE DEF row, id
<1>5. ASSUME key.start_vertex_id = id
      PROVE  Line(pk, get_vertex_by_id(id), key) = [row EXCEPT !.start_label_type = LabelOf(pk)]
  <2>1. Line(pk, get_vertex_by_id(id), key)
           = [start_pk |-> pk, start_label_type |-> LabelOf(pk),
              relation_type |-> db.relation_type[key.relation_type_id],
              end_pk |-> db.vertex[key.end_vertex_id].vertex_pk,
              end_label_type |-> db.label_type[db.edge[key]]]
    BY <1>2 DEF Line, get_label_type_by_id, get_relation_type_by_id, get_vertex_by_id
  <2>2. db.vertex[key.start_vertex_id].vertex_pk = pk
    BY <1>1, <1>2, <1>5
  <2> QED
    BY <1>3, <2>1, <2>2
<1>6. ASSUME key.end_vertex_id = id
      PROVE  Line(pk, get_vertex_by_id(id), Mirror(key)) = [row EXCEPT !.end_label_type = LabelOf(pk)]
  <2>1. Line(pk, get_vertex_by_id(id), Mirror(key))
           = [start_pk |-> db.vertex[key.start_vertex_id].vertex_pk,
              start_label_type |-> db.label_type[db.edge[Mirror(key)]],
              relation_type |-> db.relation_type[key.relation_type_id],
              end_pk |-> pk, end_label_type |-> LabelOf(pk)]
    BY <1>2, <1>4 DEF Line, get_label_type_by_id, get_relation_type_by_id, get_vertex_by_id
  <2>2. db.vertex[key.end_vertex_id].vertex_pk = pk
    BY <1>1, <1>2, <1>6
  <2> QED
    BY <1>3, <2>1, <2>2
<1>7. (row.start_pk = pk <=> key.start_vertex_id = id) /\ (row.end_pk = pk <=> key.end_vertex_id = id)
      /\ row.relation_type = db.relation_type[key.relation_type_id]
  BY <1>1, <1>2, <1>3
<1> QED
  BY <1>5, <1>6, <1>7 DEF row, id

\* The lines of a direction are the rows that leave or enter the vertex.
LEMMA LinesAreRows ==
    ASSUME db \in Databases, NEW body, IdsOfPk(db.vertex, body.start_vertex_pk) # {},
           NotFound \notin RelationsOf(body), NEW direction \in {"OUTGOING", "INCOMING"}
    PROVE  LinesOf(body, direction)
              = RowsAt(body.start_vertex_pk, direction, NamedRelation(body))
<1> DEFINE pk == body.start_vertex_pk
           id == get_vertex_by_pk(pk)
           rel == NamedRelation(body)
           R == RelationsOf(body)
           Asked(key) == R = {} \/ key.relation_type_id \in R
           Out(key) == key \in DOMAIN db.edge /\ key.direction = "OUTGOING"
<1>1. \A key \in DOMAIN db.edge : Asked(key) <=>
         (rel = "" \/ db.relation_type[key.relation_type_id] = rel)
  BY RelationIds
<1>2. \A key \in DOMAIN db.edge : IsKey(key) /\ Mirror(key) \in DOMAIN db.edge
  BY StoreAssumption DEF Servable, KeysOK, BothDirections
<1>3. ASSUME NEW key, Out(key)
      PROVE  /\ RowOfEdge(db, key).start_pk = pk <=> key.start_vertex_id = id
             /\ RowOfEdge(db, key).end_pk = pk <=> key.end_vertex_id = id
             /\ (rel = "" \/ RowOfEdge(db, key).relation_type = rel) <=> Asked(key)
             /\ key.start_vertex_id = id => Line(pk, get_vertex_by_id(id), key)
                   = [RowOfEdge(db, key) EXCEPT !.start_label_type = LabelOf(pk)]
             /\ key.end_vertex_id = id => Line(pk, get_vertex_by_id(id), Mirror(key))
                   = [RowOfEdge(db, key) EXCEPT !.end_label_type = LabelOf(pk)]
  BY <1>1, <1>3, LineShowsRow
<1>4. \A x : x \in LinesOf(body, direction) <=>
         \E key \in DOMAIN db.edge :
            /\ key.start_vertex_id = id /\ key.direction = direction /\ Asked(key)
            /\ x = Line(pk, get_vertex_by_id(id), key)
  BY DEF LinesOf, get_neighbors_by_start_vertex
<1>5. \A row : row \in GraphOf(db) <=> \E key : Out(key) /\ row = RowOfEdge(db, key)
  BY DEF GraphOf
<1>6. CASE direction = "OUTGOING"
  <2>1. \A x : x \in RowsAt(pk, direction, rel) <=>
           \E row \in GraphOf(db) :
              /\ rel = "" \/ row.relation_type = rel
              /\ row.start_pk = pk /\ x = [row EXCEPT !.start_label_type = LabelOf(pk)]
    BY <1>6 DEF RowsAt
  <2> HIDE DEF pk, id, rel, R
  <2>2. ASSUME NEW x PROVE x \in LinesOf(body, direction) <=> x \in RowsAt(pk, direction, rel)
    <3>1. ASSUME x \in LinesOf(body, direction) PROVE x \in RowsAt(pk, direction, rel)
      <4>1. PICK key : /\ Out(key) /\ key.start_vertex_id = id /\ Asked(key)
                       /\ x = Line(pk, get_vertex_by_id(id), key)
        BY <1>4, <1>6, <3>1
      <4> QED
        BY <1>3, <1>5, <2>1, <4>1
    <3>2. ASSUME x \in RowsAt(pk, direction, rel) PROVE x \in LinesOf(body, direction)
      <4>1. PICK row \in GraphOf(db) :
               /\ rel = "" \/ row.relation_type = rel
               /\ row.start_pk = pk /\ x = [row EXCEPT !.start_label_type = LabelOf(pk)]
        BY <2>1, <3>2
      <4>2. PICK key : Out(key) /\ row = RowOfEdge(db, key)
        BY <1>5, <4>1
      <4> QED
        BY <1>3, <1>4, <1>6, <4>1, <4>2
    <3> QED
      BY <3>1, <3>2
  <2> QED
    BY <2>2 DEF pk, rel
<1>7. CASE direction = "INCOMING"
  <2>1. \A x : x \in RowsAt(pk, direction, rel) <=>
           \E row \in GraphOf(db) :
              /\ rel = "" \/ row.relation_type = rel
              /\ row.end_pk = pk /\ x = [row EXCEPT !.end_label_type = LabelOf(pk)]
    BY <1>7 DEF RowsAt
  <2>2. \A key : IsKey(key) => /\ Asked(Mirror(key)) <=> Asked(key)
                               /\ Mirror(key).end_vertex_id = key.start_vertex_id
                               /\ Mirror(key).start_vertex_id = key.end_vertex_id
    BY DEF Mirror, EdgeKey
  <2> HIDE DEF pk, id, rel, R, Asked
  <2>3. ASSUME NEW x PROVE x \in LinesOf(body, direction) <=> x \in RowsAt(pk, direction, rel)
    <3>1. ASSUME x \in LinesOf(body, direction) PROVE x \in RowsAt(pk, direction, rel)
      <4>1. PICK key \in DOMAIN db.edge :
               /\ key.direction = "INCOMING" /\ key.start_vertex_id = id /\ Asked(key)
               /\ x = Line(pk, get_vertex_by_id(id), key)
        BY <1>4, <1>7, <3>1
      <4>2. /\ Out(Mirror(key)) /\ Mirror(Mirror(key)) = key /\ Mirror(key).end_vertex_id = id
            /\ Asked(Mirror(key))
        BY <1>2, <2>2, <4>1, MirrorOfKey
      <4>3. PICK row \in GraphOf(db) : row = RowOfEdge(db, Mirror(key))
        BY <1>5, <4>2
      <4>4. /\ row.end_pk = pk /\ (rel = "" \/ row.relation_type = rel)
            /\ x = [row EXCEPT !.end_label_type = LabelOf(pk)]
        BY <1>3, <4>1, <4>2, <4>3
      <4> QED
        BY <2>1, <4>4
    <3>2. ASSUME x \in RowsAt(pk, direction, rel) PROVE x \in LinesOf(body, direction)
      <4>1. PICK row \in GraphOf(db) :
               /\ rel = "" \/ row.relation_type = rel
               /\ row.end_pk = pk /\ x = [row EXCEPT !.end_label_type = LabelOf(pk)]
        BY <2>1, <3>2
      <4>2. PICK key : Out(key) /\ row = RowOfEdge(db, key)
        BY <1>5, <4>1
      <4>3. /\ Mirror(key) \in DOMAIN db.edge /\ Mirror(key).direction = "INCOMING"
            /\ Mirror(key).start_vertex_id = key.end_vertex_id
            /\ Asked(Mirror(key)) <=> Asked(key)
        BY <1>2, <2>2, <4>2, MirrorOfKey
      <4>4. /\ key.end_vertex_id = id /\ Asked(key)
            /\ x = Line(pk, get_vertex_by_id(id), Mirror(key))
        BY <1>3, <4>1, <4>2
      <4> QED
        BY <1>4, <1>7, <4>3, <4>4
    <3> QED
      BY <3>1, <3>2
  <2> QED
    BY <2>3 DEF pk, rel
<1> QED
  BY <1>6, <1>7

\* The answer as a whole, errors included.
KnownIn(body) ==
    /\ {"start_vertex_pk"} \subseteq DOMAIN body
    /\ "direction" \in DOMAIN body => body.direction \in 0 .. 2
    /\ NamedRelation(body) \in {""} \cup {db.relation_type[i] : i \in DOMAIN db.relation_type}
    /\ body.start_vertex_pk \in {db.vertex[v].vertex_pk : v \in DOMAIN db.vertex}
WantedIn(body) ==
    IF "direction" \in DOMAIN body /\ body.direction # 2
    THEN <<<<"OUTGOING", "INCOMING">>[body.direction + 1]>>
    ELSE <<"OUTGOING", "INCOMING">>
AnswerFits(body, answer) ==
    IF KnownIn(body)
    THEN answer.data = [i \in DOMAIN WantedIn(body) |->
             RowsAt(body.start_vertex_pk, WantedIn(body)[i], NamedRelation(body))]
    ELSE answer.code \in {400, 500}

LEMMA DirectionsFit ==
    ASSUME NEW body, "direction" \in DOMAIN body => body.direction \in 0 .. 2
    PROVE  /\ real_direction_array(body) = WantedIn(body)
           /\ \A i \in DOMAIN WantedIn(body) : WantedIn(body)[i] \in {"OUTGOING", "INCOMING"}
<1>1. CASE "direction" \notin DOMAIN body
  BY <1>1 DEF real_direction_array, WantedIn, Has
<1>2. CASE "direction" \in DOMAIN body
  <2>1. body.direction = 0 \/ body.direction = 1 \/ body.direction = 2
    BY <1>2
  <2>2. CASE body.direction = 0
    BY <1>2, <2>2 DEF real_direction_array, WantedIn, Has
  <2>3. CASE body.direction = 1
    BY <1>2, <2>3 DEF real_direction_array, WantedIn, Has
  <2>4. CASE body.direction = 2
    BY <1>2, <2>4 DEF real_direction_array, WantedIn, Has
  <2> QED
    BY <2>1, <2>2, <2>3, <2>4
<1> QED
  BY <1>1, <1>2

LEMMA AnswerExact ==
    ASSUME db \in Databases, NEW body, NEW answer, answer = OneHopResponse(body)
    PROVE  AnswerFits(body, answer)
<1> DEFINE pk == body.start_vertex_pk
           wanted == WantedIn(body)
           refused == \/ ~ Has(body, {"start_vertex_pk"})
                      \/ Has(body, {"direction"}) /\ body.direction \notin 0 .. 2
           missing == \/ NotFound \in RelationsOf(body)
                      \/ get_vertex_by_pk(pk) = NotFound
<1>1. NotFound \in RelationsOf(body) <=>
         NamedRelation(body) \notin {""} \cup {db.relation_type[i] : i \in DOMAIN db.relation_type}
  BY RelationIds
<1>2. pk \in {db.vertex[v].vertex_pk : v \in DOMAIN db.vertex} <=> IdsOfPk(db.vertex, pk) # {}
  BY DEF IdsOfPk
<1>3. get_vertex_by_pk(pk) = NotFound <=> IdsOfPk(db.vertex, pk) = {}
  BY VertexOfPk DEF get_vertex_by_pk
<1>4. KnownIn(body) <=> ~ refused /\ ~ missing
  BY <1>1, <1>2, <1>3 DEF KnownIn, Has
<1>5. answer = IF refused THEN Code(400) ELSE IF missing THEN Code(500)
               ELSE [status |-> 200, data |-> DataOf(body, RelationsOf(body))]
  BY DEF OneHopResponse
<1>6. Code(400).code = 400 /\ Code(500).code = 500
  BY DEF Code
<1>7. CASE KnownIn(body)
  <2>1. answer.data = DataOf(body, RelationsOf(body))
    BY <1>4, <1>5, <1>7
  <2>2. DataOf(body, RelationsOf(body)) =
           [i \in DOMAIN real_direction_array(body) |->
               LinesOf(body, real_direction_array(body)[i])]
    BY DEF DataOf, LinesOf
  <2>3. /\ real_direction_array(body) = wanted
        /\ \A i \in DOMAIN wanted : wanted[i] \in {"OUTGOING", "INCOMING"}
    BY <1>7, DirectionsFit DEF KnownIn
  <2> HIDE DEF wanted
  <2>4. \A i \in DOMAIN wanted :
           LinesOf(body, wanted[i]) = RowsAt(pk, wanted[i], NamedRelation(body))
    BY <1>1, <1>2, <1>7, <2>3, LinesAreRows DEF KnownIn
  <2>5. answer.data = [i \in DOMAIN wanted |-> RowsAt(pk, wanted[i], NamedRelation(body))]
    BY <2>1, <2>2, <2>3, <2>4
  <2> QED
    BY <1>7, <2>5 DEF wanted, AnswerFits
<1>8. CASE ~ KnownIn(body)
  <2>1. answer = Code(400) \/ answer = Code(500)
    BY <1>4, <1>5, <1>8
  <2>2. answer.code = 400 \/ answer.code = 500
    BY <1>6, <2>1
  <2> QED
    BY <1>8, <2>2 DEF AnswerFits
<1> QED
  BY <1>7, <1>8

-----------------------------------------------------------------------------
\* Each request in progress has what belongs to it, at first and for ever.
LEMMA HandledInvariance == Spec => []HandledOK
<1>1. Init => HandledOK
  BY DEF Init, HandledOK, Handled, Rejected, Translated
<1>2. Inv /\ HandledOK /\ [Next]_vars => HandledOK'
  BY StepKeepsHandled DEF Inv
<1> QED
  BY <1>1, <1>2, ServiceInvariant, PTL DEF Spec

\* Whatever is asked, by how many threads at once, of a store as the import
\* leaves it: what is counted is what the request names, also where names have
\* been appended again under other ids.
THEOREM TranslationTheorem == Spec => []TranslationIsExact
<1>1. Inv /\ HandledOK => TranslationIsExact
  <2> SUFFICES ASSUME Inv, HandledOK, NEW t \in Thread, params[t] # Rejected
               PROVE  LET p == params[t]
                          body == request[t].body
                      IN  IF request[t].route = "matching" THEN PatternTranslated(p, body)
                          ELSE /\ request[t].route # "wcc" => KeysTranslated(p, body)
                               /\ IdsSelectNames(IF request[t].route = "common" THEN <<>>
                                                 ELSE p.n_labels,
                                                 IF request[t].route = "common" THEN <<>>
                                                 ELSE Member(body, "n_labels"),
                                                 p.r_labels, Member(body, "r_labels"))
    BY DEF TranslationIsExact
  <2>1. /\ request[t] \in Requests /\ request[t].route \in Translated /\ Readable(request[t])
        /\ params[t] = Parsed(request[t]) /\ db \in Databases
    BY DEF Inv, FieldsOK, HandledOK, Handled
  <2> QED
    BY <2>1, TranslationExact
<1> QED
  BY <1>1, ServiceInvariant, HandledInvariance, PTL

\* A one-hop answer lists exactly the rows asked for, or says what is missing.
THEOREM OneHopTheorem == Spec => []OneHopShowsRows
<1>1. Inv /\ HandledOK => OneHopShowsRows
  <2> SUFFICES ASSUME Inv, HandledOK
               PROVE  OneHopShowsRows
    OBVIOUS
  <2>1. db \in Databases
    BY DEF Inv, FieldsOK
  <2>2. ASSUME NEW t \in Thread, at[t] = "responded", request[t].route = "one_hop"
        PROVE  response[t] = OneHopResponse(request[t].body)
    BY <2>2 DEF HandledOK, Handled
  <2>3. ASSUME NEW t \in Thread, at[t] = "responded", request[t].route = "one_hop"
        PROVE  AnswerFits(request[t].body, response[t])
    BY <2>1, <2>2, <2>3, AnswerExact
  <2> QED
    BY <2>3 DEF OneHopShowsRows, AnswerFits, KnownIn, WantedIn, NamedRelation
<1> QED
  BY <1>1, ServiceInvariant, HandledInvariance, PTL
=============================================================================
