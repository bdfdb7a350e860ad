--------------------------- MODULE MCParallelCount ---------------------------
(***************************************************************************)
(* Graphs and queries for ParallelCount.                                   *)
(***************************************************************************)
EXTENDS ParallelCount

MCVertex == 1 .. 6
MCLabel == [v \in MCVertex |-> IF v = 5 THEN "b" ELSE "a"]

\* Two ways of different length from 1 to 4, one edge further, a loop and an
\* edge back; and a graph whose second level is wide.
Ways == {<<1, 1, 2>>, <<1, 1, 3>>, <<2, 1, 4>>, <<3, 1, 2>>, <<4, 2, 5>>, <<2, 2, 1>>, <<3, 2, 3>>}
Star == {<<1, 1, 2>>, <<1, 1, 3>>, <<1, 1, 4>>, <<1, 1, 5>>,
         <<2, 1, 6>>, <<2, 1, 3>>, <<4, 1, 5>>, <<4, 1, 6>>, <<3, 1, 6>>}
MCEdgeSets == {Star, Ways} \cup {Ways \ {edge} : edge \in Ways}

Query(list, k, direction, parallel_num) ==
    [vertex_id_list |-> list, k |-> k, direction |-> direction, n_labels |-> {},
     r_labels |-> <<>>, parallel_num |-> parallel_num]

MCQueries ==
    {Query(<<1>>, 0, "OUTGOING", 1), Query(<<1>>, 2, "OUTGOING", 1),
     Query(<<1, 4>>, 2, "UNDIRECTED", 2), Query(<<1, 3, 1>>, 2, "OUTGOING", 1),
     Query(<<2, 3>>, 2, "INCOMING", 2),
     [Query(<<1, 2>>, 2, "OUTGOING", 2) EXCEPT !.n_labels = {"a"}, !.r_labels = <<1, 2>>]}
=============================================================================
