----------------------------- MODULE MCTenancy -----------------------------
(* Model-checking instance of Tenancy. *)
EXTENDS Tenancy, TLC

CONSTANTS form1, form2, nav1, fetch1, fetch2, fetch3, tab1, tab2,
          owner, guest, invitation1, invitation2, doc1, doc2, request1, request2

MCTabOf == [f \in {fetch1, fetch2, fetch3} |-> IF f = fetch3 THEN tab2 ELSE tab1]

Symmetric ==
  Permutations({form1, form2}) \cup Permutations({fetch1, fetch2})
    \cup Permutations({request1, request2})

=============================================================================
