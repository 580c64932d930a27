------------------------------ MODULE Knowledge ------------------------------
(***************************************************************************)
(* What is made of the documents and tickets of a workspace: answers and   *)
(* search results when they are asked for (Retrieval), and flags, drafts   *)
(* and digests by the week (Insights). Both read documents, tickets and    *)
(* chunks and write none of them, but for the document of an approved      *)
(* draft, which is ingested before it is found; so a behaviour is of one   *)
(* or of the other.                                                        *)
(***************************************************************************)
EXTENDS Naturals

CONSTANTS
  DocumentOf, TicketOf, Limit, Reserve, MinScore, Threshold, GradeBelow, MaxScore,
  MaxRewrites, Budget, Size, Excerpt,                                  \* Retrieval
  Gap, Cluster, Draft, Review, Weeks, MaxStalls, MaxOverruns, MaxCrashes \* Insights

(* A header of the first block leaves room for something of its chunk. *)
ASSUME SomethingFits == {Size, Excerpt, Budget} \subseteq Nat \ {0} /\ Excerpt < Budget

(* What scores nothing is below the threshold.                               *)
ASSUME RetrievalBounds ==
  {Threshold, MaxScore} \subseteq Nat \ {0} /\ {Limit, Reserve} \subseteq Nat
ASSUME InsightBounds == {Weeks, MaxStalls, MaxOverruns, MaxCrashes} \subseteq Nat

VARIABLES
  used, \* by a request, or by the background work
  rows, chunks, path, step, rewrites, score, found, results, named, sources, evidence, gone,
  kind, tick, job, worker, flags, drafts, faqBases, review, settings, patch,
  sent, redone, wanted, entangled, raced, overruns, crashes

Request == INSTANCE Retrieval
Weekly == INSTANCE Insights

requestVars == <<rows, chunks, path, step, rewrites, score, found, results, named, sources,
                 evidence, gone>>
weeklyVars == <<kind, tick, job, worker, flags, drafts, faqBases, review, settings, patch,
                sent, redone, wanted, entangled, raced, overruns, crashes>>
vars == <<used, requestVars, weeklyVars>>

Init == \/ used = "by a request" /\ Request!Init /\ Weekly!Init /\ kind = "digest"
        \/ used = "by the week" /\ Request!Init /\ path = "light" /\ Weekly!Init

Next ==
  \/ used = "by a request" /\ Request!Next /\ UNCHANGED <<used, weeklyVars>>
  \/ used = "by the week" /\ Weekly!Next /\ UNCHANGED <<used, requestVars>>

Spec == Init /\ [][Next]_vars

-----------------------------------------------------------------------------

(* What is in the prompt is cited (buildSources, buildEvidencePack).         *)
EvidenceIsCited == Request!EvidenceIsCited

(* A gap has one flag and a cluster one draft (onCheck, onCluster).          *)
FoundOnce == Weekly!FoundOnce

(* A draft enters the corpus at most once (FaqDraftsService.approve).        *)
ReviewedOnce == Weekly!ReviewedOnce

(* A week's digest is sent once, to the channels that are on (onDigest).     *)
SentAsSet == Weekly!SentAsSet
=============================================================================
