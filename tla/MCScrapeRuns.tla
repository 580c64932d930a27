---------------------------- MODULE MCScrapeRuns ----------------------------
(* Model-checking instance of ScrapeRuns. *)
EXTENDS ScrapeRuns, TLC

CONSTANTS s1, h1, h2

=============================================================================
