---------------------------- MODULE MCChatCache ----------------------------
(* Model-checking instance of ChatCache: every question is near only itself. *)
EXTENDS ChatCache, TLC

CONSTANTS q1, q2, w1, w2, k1

MCNear == [k \in Question |-> {k}]

(* Requests and writers are interchangeable. *)
Symmetry == Permutations(Query) \cup Permutations(Writer)
=============================================================================
