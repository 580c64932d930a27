-------------------------- MODULE MCDocumentIngest --------------------------
(* Model-checking instance of DocumentIngest: the second version of the       *)
(* content keeps one chunk of the first and loses the other.                  *)
EXTENDS DocumentIngest, TLC

CONSTANTS h1, h2, a, b

MCContent == 1 :> {a, b} @@ 2 :> {b}
=============================================================================
