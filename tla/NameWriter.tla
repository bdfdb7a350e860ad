----------------------------- MODULE NameWriter -----------------------------
(***************************************************************************)
(* WriterWiredTiger::write_label_type and write_relation_type, which are   *)
(* the same code over two tables, step by step and for several sessions:   *)
(* src/src/storage/writer_wiredtiger.cpp 25-132.                           *)
(*                                                                         *)
(* A call that misses the cache appends the name without looking whether   *)
(* it is there, in a transaction of its own, and then takes the smallest   *)
(* record number that a search of the name index finds.  Every WiredTiger  *)
(* call that fails sends it round the loop again, so a name may be         *)
(* appended several times.  WiredTiger hands out the record number of an   *)
(* append before the append is committed, and the sessions of two threads  *)
(* commit in any order.                                                    *)
(***************************************************************************)
EXTENDS GraphStore

CONSTANTS
    Session,     \* the threads that write names, each with its own writer
    Name,        \* the names they write
    MaxFailures, \* bound: WiredTiger calls that fail
    MaxObjects   \* bound: writers made per thread, one after the other

ASSUME BoundsAssumption == MaxFailures \in Nat /\ MaxObjects \in Nat \ {0}

VARIABLES
    table,      \* the committed rows: id |-> name
    recno,      \* the last record number handed out
    pc,         \* where the call of each session is
    name,       \* the name of that call
    appended,   \* the record number of its uncommitted append
    cache,      \* label_type_cache_ of each session's writer: name |-> id
    objects,    \* writers each session has had
    failures

vars == <<table, recno, pc, name, appended, cache, objects, failures>>

Init ==
    /\ table = EmptyTable
    /\ recno = 0
    /\ pc = [s \in Session |-> "idle"]
    /\ name \in [Session -> Name]
    /\ appended = [s \in Session |-> 0]
    /\ cache = [s \in Session |-> EmptyTable]
    /\ objects = [s \in Session |-> 1]
    /\ failures = 0

\* A call with a name that is not in the cache; one that is in it returns at
\* once and changes nothing.
Call(s, n) ==
    /\ pc[s] = "idle"
    /\ n \notin DOMAIN cache[s]
    /\ name' = [name EXCEPT ![s] = n]
    /\ pc' = [pc EXCEPT ![s] = "append"]
    /\ UNCHANGED <<table, recno, appended, cache, objects, failures>>

\* Mutant: a unique index refuses a name that is there, and the loop goes on.
InsertOnlyNew(s) ==
    /\ pc[s] = "append" /\ IdsOfName(table, name[s]) = {}
    /\ recno' = recno + 1
    /\ appended' = [appended EXCEPT ![s] = recno + 1]
    /\ pc' = [pc EXCEPT ![s] = "commit"]
    /\ UNCHANGED <<table, name, cache, objects, failures>>

\* cursor->insert on an append cursor: the record number is taken ...
Insert(s) ==
    /\ pc[s] = "append"
    /\ recno' = recno + 1
    /\ appended' = [appended EXCEPT ![s] = recno + 1]
    /\ pc' = [pc EXCEPT ![s] = "commit"]
    /\ UNCHANGED <<table, name, cache, objects, failures>>

\* ... and the row is committed with its index entry, ...
Commit(s) ==
    /\ pc[s] = "commit"
    /\ table' = WithEntry(table, appended[s], name[s])
    /\ appended' = [appended EXCEPT ![s] = 0]
    /\ pc' = [pc EXCEPT ![s] = "search"]
    /\ UNCHANGED <<recno, name, cache, objects, failures>>

\* ... or it is not, the record number is lost and the loop goes round.
InsertFails(s) ==
    /\ pc[s] = "commit"
    /\ failures < MaxFailures /\ failures' = failures + 1
    /\ appended' = [appended EXCEPT ![s] = 0]
    /\ pc' = [pc EXCEPT ![s] = "append"]
    /\ UNCHANGED <<table, recno, name, cache, objects>>

\* Mutant: the id is that of the row just appended, as write_vertex does.
SearchSkipped(s) ==
    /\ pc[s] = "search"
    /\ cache' = [cache EXCEPT ![s] = WithEntry(@, name[s], LastRecno(table))]
    /\ pc' = [pc EXCEPT ![s] = "idle"]
    /\ UNCHANGED <<table, recno, name, appended, objects, failures>>

\* The search of the index finds the smallest committed record number.
Search(s) ==
    /\ pc[s] = "search"
    /\ cache' = [cache EXCEPT ![s] = WithEntry(@, name[s], IdOfName(table, name[s]))]
    /\ pc' = [pc EXCEPT ![s] = "idle"]
    /\ UNCHANGED <<table, recno, name, appended, objects, failures>>

\* Opening the index, searching it or reading the value fails: round again,
\* although the name has been appended.
SearchFails(s) ==
    /\ pc[s] = "search"
    /\ failures < MaxFailures /\ failures' = failures + 1
    /\ pc' = [pc EXCEPT ![s] = "append"]
    /\ UNCHANGED <<table, recno, name, appended, cache, objects>>

\* The thread ends and another takes its place with an empty cache.
NewWriter(s) ==
    /\ pc[s] = "idle" /\ objects[s] < MaxObjects
    /\ cache' = [cache EXCEPT ![s] = EmptyTable]
    /\ objects' = [objects EXCEPT ![s] = @ + 1]
    /\ UNCHANGED <<table, recno, pc, name, appended, failures>>

\* The threads may stop writing names.
Rest == (\A s \in Session : pc[s] = "idle") /\ UNCHANGED vars

Next ==
    \/ Rest
    \/ \E s \in Session :
          \/ \E n \in Name : Call(s, n)
          \/ Insert(s) \/ Commit(s) \/ InsertFails(s)
          \/ Search(s) \/ SearchFails(s) \/ NewWriter(s)

Spec == Init /\ [][Next]_vars

\* The calling thread is scheduled; a WiredTiger call that is tried again and
\* again succeeds in the end (the bound on the failures).
FairSpec ==
    Spec /\ \A s \in Session : WF_vars(Insert(s) \/ Commit(s) \/ Search(s))

-----------------------------------------------------------------------------
(* Properties *)

TypeOK ==
    /\ DOMAIN table \subseteq 1 .. recno /\ recno \in Nat
    /\ \A id \in DOMAIN table : table[id] \in Name
    /\ pc \in [Session -> {"idle", "append", "commit", "search"}]
    /\ name \in [Session -> Name]
    /\ \A s \in Session : appended[s] # 0 <=> pc[s] = "commit"
    /\ \A s \in Session : \A n \in DOMAIN cache[s] : n \in Name /\ cache[s][n] \in DOMAIN table
    /\ objects \in [Session -> 1 .. MaxObjects]
    /\ failures \in 0 .. MaxFailures

\* docs/data/01_data_dictionary.md 154: writing a name again returns the same
\* id.  The id a writer was given for a name is for ever the one that the
\* readers' search of the index finds, whatever was appended twice.
SameNameSameId ==
    \A s \in Session : \A n \in DOMAIN cache[s] : cache[s][n] = IdOfName(table, n)

\* A name that has an id keeps it.
NameKeepsId ==
    [][\A id \in DOMAIN table : IdOfName(table', table[id]) = IdOfName(table, table[id])]_table

\* A call returns, although each failure sends it round its loop again.
CallReturns ==
    \A s \in Session : pc[s] = "append" ~> pc[s] = "idle"
=============================================================================
