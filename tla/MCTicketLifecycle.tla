------------------------- MODULE MCTicketLifecycle -------------------------
(* Model-checking instance of TicketLifecycle. *)
EXTENDS TicketLifecycle, TLC

CONSTANTS c1, c2, h1, h2, r1, r2, text1, text2

=============================================================================
