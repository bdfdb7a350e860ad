------------------------------ MODULE TaskPool ------------------------------
(***************************************************************************)
(* What a pool of threads promises to the code that uses it: a submitted   *)
(* task is run exactly once, tasks are begun in the order they were        *)
(* submitted, and destroying the pool returns after all of them have run.  *)
(* There are no threads, no lock and no condition variable here.           *)
(***************************************************************************)
EXTENDS Sequences

CONSTANT Task

VARIABLES
    submitted,   \* the tasks enqueue() was called with
    pending,     \* those not begun, in order of submission
    running,     \* those begun and not ended
    finished,    \* those that ended
    destroyed    \* the destructor has returned

vars == <<submitted, pending, running, finished, destroyed>>

Init == submitted = {} /\ pending = <<>> /\ running = {} /\ finished = {} /\ destroyed = FALSE

Submit(t) ==
    /\ ~ destroyed /\ t \notin submitted
    /\ submitted' = submitted \cup {t}
    /\ pending' = Append(pending, t)
    /\ UNCHANGED <<running, finished, destroyed>>

Start ==
    /\ pending # <<>>
    /\ running' = running \cup {Head(pending)}
    /\ pending' = Tail(pending)
    /\ UNCHANGED <<submitted, finished, destroyed>>

Finish(t) ==
    /\ t \in running
    /\ running' = running \ {t}
    /\ finished' = finished \cup {t}
    /\ UNCHANGED <<submitted, pending, destroyed>>

Destroy ==
    /\ ~ destroyed
    /\ pending = <<>> /\ running = {}
    /\ destroyed' = TRUE
    /\ UNCHANGED <<submitted, pending, running, finished>>

Next == Start \/ Destroy \/ \E t \in Task : Submit(t) \/ Finish(t)

Spec == Init /\ [][Next]_vars
=============================================================================
