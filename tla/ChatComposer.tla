---------------------------- MODULE ChatComposer ----------------------------
(***************************************************************************)
(* The composer of the chat page: the text in the box, "Refine with        *)
(* Mnemra" and what can be done with its last result, and the API behind   *)
(* it: the daily limit in Redis, the refine chain and the saved messages.  *)
(* The box stays editable while a refinement is under way, and nothing     *)
(* relates its answer to what the box holds when it arrives.               *)
(*                                                                         *)
(* A text is one the user can enter and how often it was refined since;    *)
(* that of a template or a prompt is entered like any other.               *)
(***************************************************************************)
EXTENDS Naturals, FiniteSets

CONSTANTS
  Phrase,        \* texts the user, the templates and the prompts enter
  DailyLimit,    \* REFINE_DAILY_LIMIT_PER_USER
  MaxRefined,    \* bound: times a text is refined again
  MaxSaves       \* bound: calls of saveRefinedMessage under way at a time

VARIABLES
  input,      \* the text in the box
  busy,       \* isLoading: an answer is under way
  refine,     \* the request of handleRefine, idle while ~isRefining
  lastRefine, \* lastRefine
  remaining,  \* refineRemaining
  statuses,   \* calls of getRefineStatus, and what they have read
  used,       \* rl:refine:<user>:<day>
  saved,      \* saved_refined_messages of this member
  saving      \* calls of saveRefinedMessage

quota == <<remaining, statuses, used>>
reuse == <<saved, saving>>
vars == <<input, busy, refine, lastRefine, quota, reuse>>

Unknown == DailyLimit + 1 \* no number of refinements left
Blank == [phrase |-> "nothing", refined |-> 0]
Entered(p) == [phrase |-> p, refined |-> 0]
Entry == {Entered(p) : p \in Phrase}
Refined(t) == [t EXCEPT !.refined = @ + 1]
Pair(original, refined) == [original |-> original, refined |-> refined]
NoPair == Pair(Blank, Blank)
Idle == [original |-> Blank, state |-> "idle", result |-> Blank]
Asked(t) == [original |-> t, state |-> "asked", result |-> Blank]
Status(own) == [own |-> own, left |-> Unknown]

Init ==
  /\ input = Blank /\ busy = FALSE /\ refine = Idle /\ lastRefine = NoPair
  /\ remaining = Unknown /\ statuses = {Status(FALSE)} /\ used = 0
  /\ saved = {} /\ saving = {}

-----------------------------------------------------------------------------
(* The box *)

Editable == ~busy

(* Only an edit by hand parts the box from the last refinement. *)
Type(t) ==
  /\ Editable /\ input' = t
  /\ lastRefine' = IF t # lastRefine.refined THEN NoPair ELSE lastRefine
  /\ UNCHANGED <<busy, refine, quota, reuse>>

SetInput(t) ==
  /\ input' = t
  /\ UNCHANGED <<busy, refine, lastRefine, quota, reuse>>

ApplyTemplate == \E t \in Entry : SetInput(t)

SuggestedPrompt == ~busy /\ \E t \in Entry : SetInput(t)

StartNewChat == SetInput(Blank)

Send ==
  /\ input # Blank /\ ~busy
  /\ input' = Blank /\ busy' = TRUE
  /\ UNCHANGED <<refine, lastRefine, quota, reuse>>

(* The answer ends, or is stopped. *)
Answered ==
  /\ busy /\ busy' = FALSE
  /\ UNCHANGED <<input, refine, lastRefine, quota, reuse>>

-----------------------------------------------------------------------------
(* Refining *)

At(state) == refine.state = state
Goto(state) == refine' = [refine EXCEPT !.state = state]

CanRefine == input # Blank /\ ~busy

HandleRefine ==
  /\ CanRefine /\ At("idle") /\ input.refined < MaxRefined
  /\ refine' = Asked(input)
  /\ UNCHANGED <<input, busy, lastRefine, quota, reuse>>

Refused == Goto("failed")

(* RefineRateLimitGuard: the request is counted whatever becomes of it, and  *)
(* passes uncounted when Redis fails. The bound stands for any higher count.  *)
CheckRefineDaily ==
  /\ At("asked")
  /\ \/ /\ used' = IF used > DailyLimit THEN used ELSE used + 1
        /\ IF used >= DailyLimit THEN Refused ELSE Goto("counted")
     \/ used' = used /\ Goto("counted")
  /\ UNCHANGED <<input, busy, lastRefine, remaining, statuses, reuse>>

(* A pair of quotes around nothing passes the check for an empty text, which *)
(* comes before they are stripped.                                           *)
RefineMessage ==
  /\ At("counted")
  /\ \/ \E result \in {Refined(refine.original), Blank} :
          refine' = [refine EXCEPT !.state = "answered", !.result = result]
     \/ Refused
  /\ UNCHANGED <<input, busy, lastRefine, quota, reuse>>

(* mutant: the text the box holds by now *)
ShowRefinedOfBox ==
  /\ At("answered") /\ refine' = [Idle EXCEPT !.state = "shown"]
  /\ lastRefine' = Pair(input, refine.result) /\ input' = refine.result
  /\ statuses' = statuses \cup {Status(TRUE)}
  /\ UNCHANGED <<busy, remaining, used, reuse>>

(* Over whatever was typed, inserted or sent meanwhile. *)
ShowRefined ==
  /\ At("answered") /\ refine' = [Idle EXCEPT !.state = "shown"]
  /\ lastRefine' = Pair(refine.original, refine.result) /\ input' = refine.result
  /\ statuses' = statuses \cup {Status(TRUE)}
  /\ UNCHANGED <<busy, remaining, used, reuse>>

RefineFails ==
  /\ At("failed") /\ refine' = Idle
  /\ UNCHANGED <<input, busy, lastRefine, quota, reuse>>

CanReuse == lastRefine # NoPair

UndoRefine ==
  /\ CanReuse
  /\ input' = lastRefine.original /\ lastRefine' = NoPair
  /\ UNCHANGED <<busy, refine, quota, reuse>>

-----------------------------------------------------------------------------
(* The badge *)

GetRefineStatus(s) ==
  /\ s.left = Unknown
  /\ \E left \in {IF used > DailyLimit THEN 0 ELSE DailyLimit - used, DailyLimit} :
       statuses' = (statuses \ {s}) \cup {[s EXCEPT !.left = left]}
  /\ UNCHANGED <<input, busy, refine, lastRefine, remaining, used, reuse>>

(* handleRefine waits for its own call, whether or not it fails. *)
RefreshRefineStatus(s) ==
  /\ statuses' = statuses \ {s}
  /\ \/ s.left # Unknown /\ remaining' = s.left
     \/ remaining' = remaining
  /\ refine' = IF s.own THEN Idle ELSE refine
  /\ UNCHANGED <<input, busy, lastRefine, used, reuse>>

NextDay ==
  /\ used' = 0
  /\ UNCHANGED <<input, busy, refine, lastRefine, remaining, statuses, reuse>>

-----------------------------------------------------------------------------
(* Saved messages *)

SaveRefined ==
  /\ CanReuse
  /\ saving' = saving \cup {lastRefine} /\ Cardinality(saving) < MaxSaves
  /\ UNCHANGED <<input, busy, refine, lastRefine, quota, saved>>

(* SaveRefinedMessageDto takes no empty text. *)
Valid(m) == m.original # Blank /\ m.refined # Blank

SaveRefinedMessage(m) ==
  /\ saving' = saving \ {m}
  /\ \/ Valid(m) /\ saved' = saved \cup {m}
     \/ saved' = saved
  /\ UNCHANGED <<input, busy, refine, lastRefine, quota>>

(* listSavedRefinedMessages may have been answered at any time, and in any    *)
(* order; as no row ever goes, the modal may list any that are there.        *)
ListSavedRefinedMessages == saved

ApplySavedMessage == \E m \in ListSavedRefinedMessages : SetInput(m.refined)

-----------------------------------------------------------------------------

Next ==
  \/ Send \/ Answered \/ HandleRefine \/ CheckRefineDaily \/ RefineMessage \/ ShowRefined
  \/ RefineFails \/ UndoRefine \/ NextDay
  \/ SaveRefined \/ ApplySavedMessage
  \/ \E t \in Entry \cup {Blank} : Type(t)
  \/ ApplyTemplate \/ SuggestedPrompt \/ StartNewChat
  \/ \E s \in statuses : GetRefineStatus(s) \/ RefreshRefineStatus(s)
  \/ \E m \in saving : SaveRefinedMessage(m)

Spec == Init /\ [][Next]_vars

(* Every saved message is a text with the model's refinement of that text,   *)
(* whatever was typed, inserted, undone, sent or refined again while the     *)
(* model worked and while the request to save it was under way.              *)
SavedAsRefined == \A m \in saved : m.refined = Refined(m.original)
=============================================================================
