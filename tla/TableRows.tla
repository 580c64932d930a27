------------------------------ MODULE TableRows ------------------------------
(***************************************************************************)
(* A table is a sequence of rows in the order a SELECT returns them; what  *)
(* its WHERE selects is given by the places of the rows.                   *)
(***************************************************************************)
EXTENDS Naturals, Sequences, FiniteSets

(* The k-th of some places. *)
Place(places, k) == CHOOSE i \in places : Cardinality({j \in places : j <= i}) = k

(* The rows at some places, in the order of the table. *)
Kept(table, places) == [k \in 1 .. Cardinality(places) |-> table[Place(places, k)]]
=============================================================================
