------------------------------ MODULE VertexIds ------------------------------
(***************************************************************************)
(* The ids of the vertices in the database, which the vertex table hands   *)
(* out from 1 as record numbers.                                           *)
(***************************************************************************)
EXTENDS Integers, FiniteSets

CONSTANT Vertex      \* the vertices in the database

ASSUME VertexAssumption == IsFiniteSet(Vertex) /\ Vertex \subseteq Nat \ {0}
=============================================================================
