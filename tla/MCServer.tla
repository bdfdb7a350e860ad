------------------------------ MODULE MCServer ------------------------------
(***************************************************************************)
(* A file of three rows in two batches, the second one the tail.  The last *)
(* row repeats the first, so that the two edge writers insert the same     *)
(* keys; the second row brings a second label.                             *)
(***************************************************************************)
EXTENDS Server

Row(start, startLabel, end, endLabel) ==
    [start_pk |-> start, start_label_type |-> startLabel, relation_type |-> "knows",
     end_pk |-> end, end_label_type |-> endLabel]

MCRows == <<Row("ann", "person", "bob", "person"),
            Row("bob", "person", "rex", "dog"),
            Row("ann", "person", "bob", "person")>>

\* Two batches of two rows, the second with the rows of the first turned round.
MCOppositeRows ==
    <<Row("ann", "person", "bob", "person"), Row("bob", "person", "ann", "person"),
      Row("bob", "person", "ann", "person"), Row("ann", "person", "bob", "person")>>
=============================================================================
