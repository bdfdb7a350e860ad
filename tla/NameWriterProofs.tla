--------------------------- MODULE NameWriterProofs ---------------------------
(***************************************************************************)
(* What the names of NameWriter keep, for any names, any failures and, as  *)
(* far as it holds for them, any number of sessions.                       *)
(***************************************************************************)
EXTENDS NameWriter, FiniteSetTheorems, WellFoundedInduction, TLAPS
LOCAL INSTANCE FiniteSetsExt

-----------------------------------------------------------------------------
(* Record numbers and names. *)

\* A set of numbers that is not empty has a smallest one.
LEMMA LeastRecno ==
    ASSUME NEW S \in SUBSET Nat, S # {}
    PROVE  \E m \in S : \A n \in S : m <= n
<1> DEFINE R == OpToRel(<, Nat)
<1>1. R = {ss \in Nat \X Nat : ss[1] < ss[2]}
  BY DEF OpToRel
<1>2. IsWellFoundedOn(R, Nat)
  BY NatLessThanWellFounded
<1> HIDE DEF R
<1>3. PICK m \in S : \A n \in S : <<n, m>> \notin R
  BY WFMin, <1>2
<1>4. ASSUME NEW n \in S PROVE m <= n
  <2>1. m \in Nat /\ n \in Nat
    OBVIOUS
  <2>2. n < m => <<n, m>> \in R
    BY <1>1, <2>1
  <2> QED
    BY <1>3, <2>1, <2>2
<1> QED
  BY <1>4

\* Min is that record number.
LEMMA MinExists ==
    ASSUME NEW S \in SUBSET Nat, S # {}
    PROVE  /\ Min(S) \in S
           /\ \A n \in S : Min(S) <= n
  BY LeastRecno DEF Min

\* The smallest record number is the only one that is no larger than the others.
LEMMA MinIs ==
    ASSUME NEW S \in SUBSET Nat, NEW m \in S, \A n \in S : m <= n
    PROVE  Min(S) = m
<1>1. /\ Min(S) \in S
      /\ \A n \in S : Min(S) <= n
  BY MinExists
<1>2. Min(S) \in Nat /\ m \in Nat /\ m <= Min(S) /\ Min(S) <= m
  BY <1>1
<1> QED
  BY <1>2

\* The id of a name that a table has is one of its ids, the smallest.
LEMMA IdOfNameFound ==
    ASSUME NEW rows, DOMAIN rows \subseteq Nat, NEW n, IdsOfName(rows, n) # {}
    PROVE  /\ IdOfName(rows, n) \in IdsOfName(rows, n)
           /\ \A id \in IdsOfName(rows, n) : IdOfName(rows, n) <= id
<1>1. IdsOfName(rows, n) \in SUBSET Nat
  BY DEF IdsOfName
<1> QED
  BY <1>1, MinExists DEF IdOfName

\* later has the rows of an earlier table and, under larger numbers, others.
Extends(later, rows) ==
    /\ DOMAIN rows \subseteq DOMAIN later /\ DOMAIN later \subseteq Nat
    /\ \A id \in DOMAIN rows : later[id] = rows[id]
    /\ \A new \in DOMAIN later \ DOMAIN rows, old \in DOMAIN rows : old < new

\* Rows appended later do not change the id of a name.
LEMMA LaterRowsKeepIds ==
    ASSUME NEW rows, NEW later, Extends(later, rows),
           NEW n, IdsOfName(rows, n) # {}
    PROVE  IdOfName(later, n) = IdOfName(rows, n)
<1> USE DEF Extends
<1> DEFINE m == IdOfName(rows, n)
<1>1. m \in IdsOfName(rows, n) /\ \A id \in IdsOfName(rows, n) : m <= id
  BY IdOfNameFound
<1>2. IdsOfName(later, n) \in SUBSET Nat /\ m \in IdsOfName(later, n)
  BY <1>1 DEF IdsOfName
<1>3. ASSUME NEW id \in IdsOfName(later, n) PROVE m <= id
  <2>1. CASE id \in DOMAIN rows
    BY <1>1, <1>3, <2>1 DEF IdsOfName
  <2>2. CASE id \notin DOMAIN rows
    <3>1. m \in DOMAIN rows /\ id \in DOMAIN later \ DOMAIN rows
      BY <1>1, <1>3, <2>2 DEF IdsOfName
    <3>2. m \in Nat /\ id \in Nat /\ m < id
      BY <3>1
    <3> QED
      BY <3>2
  <2> QED
    BY <2>1, <2>2
<1> QED
  BY <1>2, <1>3, MinIs DEF IdOfName

\* What one entry does to a table.
LEMMA EntryPutIn ==
    ASSUME NEW rows, NEW k, NEW entry
    PROVE  /\ DOMAIN WithEntry(rows, k, entry) = DOMAIN rows \cup {k}
           /\ WithEntry(rows, k, entry)[k] = entry
           /\ \A x \in DOMAIN rows : x # k => WithEntry(rows, k, entry)[x] = rows[x]
  BY DEF WithEntry

\* A row appended under a number larger than all others.
LEMMA AppendExtends ==
    ASSUME NEW rows, DOMAIN rows \subseteq Nat, NEW n,
           NEW id \in Nat, \A old \in DOMAIN rows : old < id
    PROVE  Extends(WithEntry(rows, id, n), rows)
<1> DEFINE later == WithEntry(rows, id, n)
<1>1. DOMAIN later = DOMAIN rows \cup {id} 
  BY EntryPutIn
<1>2. \A old \in DOMAIN rows : old # id
  OBVIOUS
<1>3. \A old \in DOMAIN rows : later[old] = rows[old]
  BY <1>2 DEF WithEntry
<1> HIDE DEF later
<1>4. DOMAIN rows \subseteq DOMAIN later /\ DOMAIN later \subseteq Nat
  BY <1>1
<1>5. \A new \in DOMAIN later \ DOMAIN rows, old \in DOMAIN rows : old < new
  BY <1>1
<1> QED
  BY <1>3, <1>4, <1>5 DEF Extends, later

-----------------------------------------------------------------------------

\* The table holds names under record numbers that have been handed out, and
\* each session's place, name and cache are of their types.
FieldsOK ==
    /\ recno \in Nat
    /\ DOMAIN table \subseteq 1 .. recno
    /\ \A id \in DOMAIN table : table[id] \in Name
    /\ pc \in [Session -> {"idle", "append", "commit", "search"}]
    /\ name \in [Session -> Name]
    /\ appended \in [Session -> 0 .. recno]
    /\ DOMAIN cache = Session
    /\ objects \in [Session -> 1 .. MaxObjects]
    /\ failures \in 0 .. MaxFailures

\* A record number that was handed out is not in the table before its session
\* commits it, and it is the session's alone.
AppendsAreFresh ==
    \A s \in Session :
       /\ appended[s] # 0 <=> pc[s] = "commit"
       /\ appended[s] \notin DOMAIN table
       /\ \A t \in Session : s # t /\ appended[s] # 0 => appended[t] # appended[s]

\* A session that searches for its name has committed it ...
SearchesSucceed ==
    \A s \in Session : pc[s] = "search" => IdsOfName(table, name[s]) # {}

\* ... and each id in a cache is an id of its name.
CachedIdsAreOfTheName ==
    \A s \in Session : \A n \in DOMAIN cache[s] : n \in Name /\ cache[s][n] \in IdsOfName(table, n)

Inv == FieldsOK /\ AppendsAreFresh /\ SearchesSucceed /\ CachedIdsAreOfTheName

\* The rows that are committed stay.
RowsStay == \A id \in DOMAIN table : id \in DOMAIN table' /\ table'[id] = table[id]

-----------------------------------------------------------------------------
\* At first there are no names and no cache has any.
LEMMA InitInv == Init => Inv
  BY BoundsAssumption DEF Init, Inv, FieldsOK, AppendsAreFresh, SearchesSucceed, CachedIdsAreOfTheName,
       EmptyTable

\* A row that is committed is put under a free number.
LEMMA CommitAddsARow ==
    ASSUME Inv, NEW s \in Session, Commit(s)
    PROVE  /\ DOMAIN table' = DOMAIN table \cup {appended[s]}
           /\ table'[appended[s]] = name[s]
           /\ RowsStay
           /\ appended[s] \in 1 .. recno /\ appended[s] \notin DOMAIN table
<1>1. appended[s] # 0 /\ appended[s] \notin DOMAIN table
  BY DEF Commit, Inv, AppendsAreFresh
<1>2. appended[s] \in 1 .. recno
  BY <1>1 DEF Inv, FieldsOK
<1>3. table' = WithEntry(table, appended[s], name[s])
  BY DEF Commit
<1>4. /\ DOMAIN table' = DOMAIN table \cup {appended[s]}
      /\ table'[appended[s]] = name[s]
      /\ \A id \in DOMAIN table : table'[id] = table[id]
  BY <1>1, <1>3 DEF WithEntry
<1> QED
  BY <1>1, <1>2, <1>4 DEF RowsStay

\* Committed rows stay, whichever step is taken.
LEMMA StepKeepsRows ==
    ASSUME Inv, [Next]_vars
    PROVE  RowsStay
<1>1. ASSUME NEW s \in Session, Commit(s) PROVE RowsStay
  BY <1>1, CommitAddsARow
<1>2. CASE UNCHANGED table
  BY <1>2 DEF RowsStay
<1> QED
  BY <1>1, <1>2 DEF Next, Rest, vars, Call, Insert, InsertFails, Search, SearchFails, NewWriter

\* Every step writes values of the right kind.
LEMMA StepKeepsFields ==
    ASSUME Inv, [Next]_vars
    PROVE  FieldsOK'
<1> USE BoundsAssumption DEF Inv, FieldsOK
<1>1. ASSUME NEW s \in Session, NEW n \in Name, Call(s, n) PROVE FieldsOK'
  BY <1>1 DEF Call
<1>2. ASSUME NEW s \in Session, Insert(s) PROVE FieldsOK'
  BY <1>2 DEF Insert
<1>3. ASSUME NEW s \in Session, Commit(s) PROVE FieldsOK'
  <2>1. /\ DOMAIN table' = DOMAIN table \cup {appended[s]}
        /\ table'[appended[s]] = name[s]
        /\ \A id \in DOMAIN table : table'[id] = table[id]
        /\ appended[s] \in 1 .. recno
    BY <1>3, CommitAddsARow DEF RowsStay
  <2> QED
    BY <1>3, <2>1 DEF Commit
<1>4. ASSUME NEW s \in Session, InsertFails(s) PROVE FieldsOK'
  BY <1>4 DEF InsertFails
<1>5. ASSUME NEW s \in Session, Search(s) PROVE FieldsOK'
  BY <1>5 DEF Search
<1>6. ASSUME NEW s \in Session, SearchFails(s) PROVE FieldsOK'
  BY <1>6 DEF SearchFails
<1>7. ASSUME NEW s \in Session, NewWriter(s) PROVE FieldsOK'
  BY <1>7 DEF NewWriter
<1>8. CASE UNCHANGED vars
  BY <1>8 DEF vars
<1> QED
  BY <1>1, <1>2, <1>3, <1>4, <1>5, <1>6, <1>7, <1>8 DEF Next, Rest

\* A number is taken under the table's counter, so no two sessions hold one.
LEMMA StepKeepsFresh ==
    ASSUME Inv, [Next]_vars
    PROVE  AppendsAreFresh'
<1> USE DEF Inv, FieldsOK, AppendsAreFresh
<1>1. ASSUME NEW s \in Session, NEW n \in Name, Call(s, n) PROVE AppendsAreFresh'
  BY <1>1 DEF Call
<1>2. ASSUME NEW s \in Session, Insert(s) PROVE AppendsAreFresh'
  BY <1>2 DEF Insert
<1>3. ASSUME NEW s \in Session, Commit(s) PROVE AppendsAreFresh'
  <2>1. /\ DOMAIN table' = DOMAIN table \cup {appended[s]}
        /\ appended[s] \in 1 .. recno
    BY <1>3, CommitAddsARow
  <2> QED
    BY <1>3, <2>1 DEF Commit
<1>4. ASSUME NEW s \in Session, InsertFails(s) PROVE AppendsAreFresh'
  BY <1>4 DEF InsertFails
<1>5. ASSUME NEW s \in Session, Search(s) \/ SearchFails(s) PROVE AppendsAreFresh'
  BY <1>5 DEF Search, SearchFails
<1>6. ASSUME NEW s \in Session, NewWriter(s) PROVE AppendsAreFresh'
  BY <1>6 DEF NewWriter
<1>7. CASE UNCHANGED vars
  BY <1>7 DEF vars
<1> QED
  BY <1>1, <1>2, <1>3, <1>4, <1>5, <1>6, <1>7 DEF Next, Rest

\* A name that has an id has it after any step.
LEMMA IdsStay ==
    ASSUME RowsStay, NEW n
    PROVE  IdsOfName(table, n) \subseteq IdsOfName(table', n)
  BY DEF RowsStay, IdsOfName

\* A session searches after its own commit, and no row goes away.
LEMMA StepKeepsSearches ==
    ASSUME Inv, [Next]_vars
    PROVE  SearchesSucceed'
<1> USE DEF Inv, FieldsOK, SearchesSucceed
<1>0. \A n : IdsOfName(table, n) # {} => IdsOfName(table', n) # {}
  BY StepKeepsRows, IdsStay
<1>1. ASSUME NEW s \in Session, NEW n \in Name, Call(s, n) PROVE SearchesSucceed'
  BY <1>1, <1>0 DEF Call
<1>2. ASSUME NEW s \in Session, Insert(s) PROVE SearchesSucceed'
  BY <1>2, <1>0 DEF Insert
<1>3. ASSUME NEW s \in Session, Commit(s) PROVE SearchesSucceed'
  <2>1. appended[s] \in IdsOfName(table', name[s])
    BY <1>3, CommitAddsARow DEF IdsOfName
  <2> QED
    BY <1>3, <1>0, <2>1 DEF Commit
<1>4. ASSUME NEW s \in Session, InsertFails(s) PROVE SearchesSucceed'
  BY <1>4, <1>0 DEF InsertFails
<1>5. ASSUME NEW s \in Session, Search(s) \/ SearchFails(s) PROVE SearchesSucceed'
  BY <1>5, <1>0 DEF Search, SearchFails
<1>6. ASSUME NEW s \in Session, NewWriter(s) PROVE SearchesSucceed'
  BY <1>6, <1>0 DEF NewWriter
<1>7. CASE UNCHANGED vars
  BY <1>7 DEF vars
<1> QED
  BY <1>1, <1>2, <1>3, <1>4, <1>5, <1>6, <1>7 DEF Next, Rest

\* What a search has found stays an id of the name.
LEMMA StepKeepsCachedIds ==
    ASSUME Inv, [Next]_vars
    PROVE  CachedIdsAreOfTheName'
<1> USE DEF Inv, FieldsOK, CachedIdsAreOfTheName
<1>0. \A n : IdsOfName(table, n) \subseteq IdsOfName(table', n)
  BY StepKeepsRows, IdsStay
<1>1. ASSUME NEW s \in Session, Search(s) PROVE CachedIdsAreOfTheName'
  <2> DEFINE id == IdOfName(table, name[s])
  <2>1. id \in IdsOfName(table, name[s])
    <3>1. IdsOfName(table, name[s]) # {}
      BY <1>1 DEF Search, SearchesSucceed
    <3>2. DOMAIN table \subseteq Nat
      OBVIOUS
    <3> QED
      BY <3>1, <3>2, IdOfNameFound
  <2> HIDE DEF id
  <2>2. cache' = [cache EXCEPT ![s] = WithEntry(cache[s], name[s], id)] /\ UNCHANGED table
    BY <1>1 DEF Search, id
  <2>3. /\ DOMAIN cache'[s] = DOMAIN cache[s] \cup {name[s]}
        /\ cache'[s][name[s]] = id
        /\ \A n \in DOMAIN cache[s] : n # name[s] => cache'[s][n] = cache[s][n]
    BY <2>2 DEF WithEntry
  <2>4. \A t \in Session : t # s => cache'[t] = cache[t]
    BY <2>2
  <2> QED
    BY <2>1, <2>2, <2>3, <2>4
<1>2. ASSUME NEW s \in Session, NewWriter(s) PROVE CachedIdsAreOfTheName'
  BY <1>2, <1>0 DEF NewWriter, EmptyTable
<1>3. CASE UNCHANGED cache
  BY <1>3, <1>0
<1> QED
  BY <1>1, <1>2, <1>3 DEF Next, Rest, vars, Call, Insert, Commit, InsertFails, SearchFails

\* The invariant holds for ever, whatever the number of sessions.
LEMMA SpecInv == Spec => []Inv
<1>1. Inv /\ [Next]_vars => Inv'
  BY StepKeepsFields, StepKeepsFresh, StepKeepsSearches, StepKeepsCachedIds DEF Inv
<1> QED
  BY <1>1, InitInv, PTL DEF Spec

\* The type invariant: in particular no call ends with an id that is not in
\* the table, and no two sessions are handed the same record number.
THEOREM NamesTyping == Spec => []TypeOK
<1>1. Inv => TypeOK
  BY DEF Inv, FieldsOK, AppendsAreFresh, CachedIdsAreOfTheName, TypeOK, IdsOfName
<1> QED
  BY <1>1, SpecInv, PTL

\* However many sessions write names at once and whatever is appended twice,
\* an id that a session was given is, and stays, an id of that name alone.
THEOREM CachedIdsName == Spec => []CachedIdsAreOfTheName
<1>1. Inv => CachedIdsAreOfTheName
  BY DEF Inv
<1> QED
  BY <1>1, SpecInv, PTL

\* No step, of any session, takes a row of the table away or changes its name.
THEOREM RowsNeverChange == Spec => [][RowsStay]_table
<1>1. Inv /\ [Next]_vars => [RowsStay]_table
  BY StepKeepsRows
<1> QED
  BY <1>1, SpecInv, PTL DEF Spec

-----------------------------------------------------------------------------
(* One thread writes names, which is so in this program: the reading loop  *)
(* of import_data.                                                         *)

OneThread == \A s, t \in Session : s = t

\* Record numbers are then committed in the order they are handed out.
AppendIsLast ==
    \A s \in Session : pc[s] = "commit" => \A id \in DOMAIN table : id < appended[s]

\* With one session at a time an append is committed before the next is made.
LEMMA StepKeepsOrder ==
    ASSUME OneThread, Inv, AppendIsLast, [Next]_vars
    PROVE  AppendIsLast'
<1> USE DEF OneThread, Inv, FieldsOK, AppendIsLast
<1>1. ASSUME NEW s \in Session, NEW n \in Name, Call(s, n) PROVE AppendIsLast'
  BY <1>1 DEF Call
<1>2. ASSUME NEW s \in Session, Insert(s) PROVE AppendIsLast'
  BY <1>2 DEF Insert
<1>3. ASSUME NEW s \in Session, Commit(s) PROVE AppendIsLast'
  BY <1>3 DEF Commit
<1>4. ASSUME NEW s \in Session, InsertFails(s) PROVE AppendIsLast'
  BY <1>4 DEF InsertFails
<1>5. ASSUME NEW s \in Session, Search(s) \/ SearchFails(s) PROVE AppendIsLast'
  BY <1>5 DEF Search, SearchFails
<1>6. ASSUME NEW s \in Session, NewWriter(s) PROVE AppendIsLast'
  BY <1>6 DEF NewWriter
<1>7. CASE UNCHANGED vars
  BY <1>7 DEF vars
<1> QED
  BY <1>1, <1>2, <1>3, <1>4, <1>5, <1>6, <1>7 DEF Next, Rest

\* So every step leaves each name its smallest id.
LEMMA StepKeepsSmallest ==
    ASSUME Inv, AppendIsLast, [Next]_vars, NEW n, IdsOfName(table, n) # {}
    PROVE  IdOfName(table', n) = IdOfName(table, n)
<1>1. ASSUME NEW s \in Session, Commit(s) PROVE Extends(table', table)
  <2>1. /\ DOMAIN table \subseteq Nat /\ appended[s] \in Nat
        /\ \A id \in DOMAIN table : id < appended[s]
    BY <1>1 DEF Inv, FieldsOK, AppendIsLast, Commit
  <2>2. table' = WithEntry(table, appended[s], name[s])
    BY <1>1 DEF Commit
  <2> QED
    BY <2>1, <2>2, AppendExtends
<1>2. CASE UNCHANGED table
  BY <1>2
<1>3. ASSUME NEW s \in Session, Commit(s) PROVE IdOfName(table', n) = IdOfName(table, n)
  BY <1>1, <1>3, LaterRowsKeepIds
<1> QED
  BY <1>2, <1>3 DEF Next, Rest, vars, Call, Insert, InsertFails, Search, SearchFails, NewWriter

\* An append above all committed numbers does not change what a search finds.
LEMMA StepKeepsSameId ==
    ASSUME Inv, AppendIsLast, SameNameSameId, [Next]_vars
    PROVE  SameNameSameId'
<1> USE DEF SameNameSameId
<1>0. \A n : IdsOfName(table, n) # {} => IdOfName(table', n) = IdOfName(table, n)
  BY StepKeepsSmallest
<1>1. \A s \in Session : \A n \in DOMAIN cache[s] : IdOfName(table', n) = cache[s][n]
  BY <1>0 DEF Inv, CachedIdsAreOfTheName
<1>2. ASSUME NEW s \in Session, Search(s) PROVE SameNameSameId'
  <2> DEFINE id == IdOfName(table, name[s])
  <2>1. cache' = [cache EXCEPT ![s] = WithEntry(cache[s], name[s], id)] /\ UNCHANGED table
    BY <1>2 DEF Search
  <2> HIDE DEF id
  <2>2. /\ DOMAIN cache'[s] = DOMAIN cache[s] \cup {name[s]}
        /\ cache'[s][name[s]] = id
        /\ \A n \in DOMAIN cache[s] : n # name[s] => cache'[s][n] = cache[s][n]
    BY <2>1 DEF WithEntry, Inv, FieldsOK
  <2>3. \A t \in Session : t # s => cache'[t] = cache[t]
    BY <2>1 DEF Inv, FieldsOK
  <2> QED
    BY <1>1, <2>1, <2>2, <2>3 DEF id
<1>3. ASSUME NEW s \in Session, NewWriter(s) PROVE SameNameSameId'
  BY <1>1, <1>3 DEF NewWriter, EmptyTable, Inv, FieldsOK
<1>4. CASE UNCHANGED cache
  BY <1>1, <1>4
<1> QED
  BY <1>2, <1>3, <1>4 DEF Next, Rest, vars, Call, Insert, Commit, InsertFails, SearchFails

\* So both hold for ever when one thread writes.
LEMMA OneThreadInv ==
    ASSUME OneThread
    PROVE  Spec => [](AppendIsLast /\ SameNameSameId)
<1>1. Init => AppendIsLast /\ SameNameSameId
  BY DEF Init, AppendIsLast, SameNameSameId, EmptyTable
<1>2. Inv /\ AppendIsLast /\ SameNameSameId /\ [Next]_vars => (AppendIsLast /\ SameNameSameId)'
  BY OneThread, StepKeepsOrder, StepKeepsSameId
<1> QED
  BY <1>1, <1>2, SpecInv, PTL DEF Spec

\* The thread that reads the file is given for a name the id that the search
\* of the index finds for ever after, however often the name is appended.
THEOREM SameNameSameIdTheorem ==
    ASSUME OneThread
    PROVE  Spec => []SameNameSameId
  BY OneThreadInv, PTL

\* ... and no step gives a name that has an id another one.
THEOREM NameKeepsIdTheorem ==
    ASSUME OneThread
    PROVE  Spec => NameKeepsId
<1>1. ASSUME Inv, AppendIsLast, [Next]_vars
      PROVE  \A id \in DOMAIN table :
                IdOfName(table', table[id]) = IdOfName(table, table[id])
  BY <1>1, StepKeepsSmallest DEF IdsOfName
<1> QED
  BY <1>1, SpecInv, OneThreadInv, PTL DEF Spec, NameKeepsId
=============================================================================
