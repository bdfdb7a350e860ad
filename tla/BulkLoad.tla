------------------------------ MODULE BulkLoad ------------------------------
(***************************************************************************)
(* What loading a file promises, without threads, batches in flight, ids   *)
(* or transactions: the graph grows by whole batches, a checkpoint saves   *)
(* the graph as it was at some moment between the last checkpoint and now, *)
(* a crash falls back to what was saved, and the server that has loaded a  *)
(* file starts only when all of the file is saved.                         *)
(***************************************************************************)
EXTENDS Integers

CONSTANT Chunks    \* a function from batch numbers to sets of rows

VARIABLES
    graph,     \* the rows that readers of the store see
    saved,     \* the rows that survive a crash
    phase      \* "loading", "serving" or "down"

vars == <<graph, saved, phase>>

AllRows == UNION {Chunks[b] : b \in DOMAIN Chunks}

Init == graph = {} /\ saved = {} /\ phase = "loading"

LoadBatch(b) ==
    /\ phase = "loading"
    /\ graph' = graph \cup Chunks[b]
    /\ UNCHANGED <<saved, phase>>

\* What is saved is a union of batches, holds all that was saved before, and
\* is part of what is loaded.
Checkpoint ==
    /\ phase = "loading"
    /\ \E B \in SUBSET DOMAIN Chunks :
          LET moment == UNION {Chunks[b] : b \in B}
          IN  /\ saved \subseteq moment /\ moment \subseteq graph
              /\ saved' = moment
    /\ UNCHANGED <<graph, phase>>

Serve ==
    /\ phase = "loading"
    /\ graph = AllRows /\ saved = AllRows
    /\ phase' = "serving"
    /\ UNCHANGED <<graph, saved>>

\* The process ends, killed or after a failed import.
Stop ==
    /\ phase' = "down"
    /\ graph' = saved
    /\ UNCHANGED saved

\* Started again, with or without --need_import.
Start ==
    /\ phase = "down"
    /\ phase' \in {"loading", "serving"}
    /\ UNCHANGED <<graph, saved>>

Next == (\E b \in DOMAIN Chunks : LoadBatch(b)) \/ Checkpoint \/ Serve \/ Stop \/ Start

Spec == Init /\ [][Next]_vars
=============================================================================
