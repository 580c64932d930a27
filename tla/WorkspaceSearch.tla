--------------------------- MODULE WorkspaceSearch ---------------------------
(***************************************************************************)
(* The search box of the web client: every change of the text restarts a   *)
(* 300 ms timer, the request it sends can be aborted, and what was found   *)
(* stays until another answer or an empty text replaces it.                *)
(***************************************************************************)
EXTENDS Naturals, FiniteSets

CONSTANTS Text,        \* texts the user may enter, after trimming
          MaxRequests  \* bound: search requests under way at a time

VARIABLES
  open,    \* the box is open
  text,    \* query
  status,  \* status
  found,   \* results: the text they were found for, or none
  timer,   \* the timer runs
  asked    \* requests under way, with their AbortController

vars == <<open, text, status, found, timer, asked>>

NoText == "no text"
Entry == Text \cup {NoText}

Init == /\ open = FALSE /\ text = NoText /\ status = "idle" /\ found = NoText
        /\ timer = FALSE /\ asked = {}

(* mutant: the cleanup clears the timer only *)
AbortedNot == asked

(* The cleanup of the effect of the render before. *)
Aborted == {[r EXCEPT !.live = FALSE] : r \in asked}

(* The effect of a render with the box open. *)
Search(t) ==
  /\ asked' = Aborted
  /\ timer' = (t # NoText)
  /\ IF t = NoText THEN found' = NoText /\ status' = "idle"
     ELSE found' = found /\ status' = "loading"

Open ==
  /\ ~open /\ open' = TRUE
  /\ Search(text)
  /\ text' = text

Type(t) ==
  /\ open /\ text' = t
  /\ Search(t)
  /\ open' = open

(* Also when a result is opened. *)
Close ==
  /\ open /\ open' = FALSE
  /\ asked' = Aborted /\ timer' = FALSE
  /\ UNCHANGED <<text, status, found>>

SearchWorkspace ==
  /\ timer /\ Cardinality(asked) < MaxRequests
  /\ timer' = FALSE
  /\ asked' = asked \cup {[text |-> text, live |-> TRUE]}
  /\ UNCHANGED <<open, text, status, found>>

Answer(r) ==
  /\ asked' = asked \ {r}
  /\ IF r.live THEN found' = r.text /\ status' = "success" ELSE UNCHANGED <<found, status>>
  /\ UNCHANGED <<open, text, timer>>

Fail(r) ==
  /\ asked' = asked \ {r}
  /\ status' = IF r.live THEN "error" ELSE status
  /\ UNCHANGED <<open, text, found, timer>>

Next ==
  \/ Open \/ Close \/ SearchWorkspace
  \/ \E t \in Entry : Type(t)
  \/ \E r \in asked : Answer(r) \/ Fail(r)

Spec == Init /\ [][Next]_vars

(* Results that are not marked as loading are those of the text in the box:  *)
(* an answer that a newer keystroke overtook is never applied.               *)
FoundForText == status = "success" => found = text
=============================================================================
