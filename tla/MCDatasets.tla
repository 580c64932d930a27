----------------------------- MODULE MCDatasets -----------------------------
(* Model-checking instance of Datasets. *)
EXTENDS Datasets

CONSTANTS h1, h2

=============================================================================
