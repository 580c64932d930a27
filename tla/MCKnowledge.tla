---------------------------- MODULE MCKnowledge ----------------------------
(* Model-checking instance of Knowledge: a document of two chunks, one of   *)
(* one chunk, and a ticket; two gaps, one cluster, two drafts, two reviews. *)
EXTENDS Knowledge, TLC

CONSTANTS r1, r2

MCDocumentOf == 1 :> "d" @@ 2 :> "d" @@ 3 :> "e"
MCTicketOf == 4 :> "t"

Reviewers == {r1, r2}
Symmetry == Permutations(Reviewers)
=============================================================================
