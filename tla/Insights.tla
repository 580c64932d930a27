------------------------------ MODULE Insights ------------------------------
(***************************************************************************)
(* The weekly background work of one workspace and what people do with its *)
(* results: the freshness check and its flags (FreshnessCheckProcessor,    *)
(* InsightsService), the FAQ drafts and their review (FaqClusterProcessor, *)
(* FaqDraftsService), and the digest with its settings (DigestProcessor,   *)
(* DigestSettingsService). The three share their scheduling, a tick that   *)
(* adds one job per workspace, and BackgroundRunsService; they share no    *)
(* row, so one of them, kind, is followed in a behaviour.                  *)
(*                                                                         *)
(* Scores and embeddings are data: which tickets have no document, and how *)
(* they cluster, is chosen at each query.                                  *)
(***************************************************************************)
EXTENDS BullJob, FiniteSets

CONSTANTS
  Gap,         \* pairs of a ticket and its nearest document
  Cluster,     \* sets of tickets that ask the same
  Draft,       \* bound: faq_drafts rows ever inserted
  Review,      \* approvals, and changes of the settings, in flight
  Weeks,       \* bound: days the ticks fire on
  MaxStalls,   \* Bull's maxStalledCount: 1
  MaxOverruns, \* bound: times a job's lock ends while its handler lives on
  MaxCrashes   \* bound: times the API process dies

Attempts == 2
Kind == {"freshness-check", "faq-cluster", "digest"}
Week == 1 .. Weeks
Channel == {"email", "slack"}

VARIABLES
  kind,
  tick,      \* the tick job of the last week: its week, and how far it is
  job,       \* job[w]: the Bull job <kind>:<workspaceId>:<date of week w>
  worker,    \* the one execution of the queue's handler
  flags,     \* flags[g]: document_review_flags rows of g that are open
  drafts,    \* faq_drafts
  faqBases,  \* knowledge_bases rows named FAQ_KNOWLEDGE_BASE_NAME
  review,    \* approvals in flight
  settings,  \* workspace_digest_settings: the channels that are on
  patch,     \* changes of the settings in flight
  sent,      \* history: sent[w][c], digests of week w delivered to c
  redone,    \* history: weeks whose digest was started again by a fault
  wanted,    \* history: what the last change of each channel asked for
  entangled, \* history: drafts with overlapping reviews, or one cut short
  raced,     \* history: two approvals looked for the knowledge base at once,
             \* or two changes of the settings overlapped
  overruns, crashes   \* history: what is bounded

queue   == <<tick, job, worker>>
faq     == <<drafts, faqBases, review, entangled>>
digest  == <<settings, patch, sent, wanted>>
history == <<redone, overruns, crashes>>
vars == <<kind, queue, flags, faq, digest, raced, history>>

NoWork == [pc |-> "idle", week |-> 0, owns |-> FALSE, todo |-> {}]
NoDraft == [status |-> "absent", cluster |-> CHOOSE c \in Cluster : TRUE, documents |-> 0]
NoReview == [pc |-> "idle", draft |-> CHOOSE d \in Draft : TRUE]
NoPatch == [pc |-> "idle", channel |-> "email", on |-> TRUE, base |-> {}]

TypeOK ==
  /\ kind \in Kind
  /\ tick \in [week : 0 .. Weeks, pc : {"over", "select", "stalled"}]
  /\ job \in [Week -> JobRecord(Attempts, MaxStalls)]
  /\ worker \in [pc : {"idle", "start", "read", "compare", "record", "succeed", "catch"},
                 week : 0 .. Weeks, owns : BOOLEAN, todo : SUBSET (Gap \cup Cluster \cup Channel)]
  /\ flags \in [Gap -> Nat]
  /\ drafts \in [Draft -> [status : {"absent", "pending", "approved", "rejected"},
                           cluster : Cluster, documents : 0 .. 2]]
  /\ faqBases \in Nat
  /\ review \in [Review -> [pc : {"idle", "find", "create", "insert", "approve"},
                            draft : Draft]]
  /\ settings \in SUBSET Channel /\ wanted \in SUBSET Channel
  /\ patch \in [Review -> [pc : {"idle", "write"}, channel : Channel, on : BOOLEAN,
                           base : SUBSET Channel]]
  /\ sent \in [Week -> [Channel -> Nat]]
  /\ redone \subseteq Week /\ entangled \subseteq Draft /\ raced \in BOOLEAN
  /\ overruns \in 0 .. MaxOverruns /\ crashes \in 0 .. MaxCrashes

(* DEFAULT_SETTINGS has email on; a Slack webhook is on when there is one. *)
Init ==
  /\ kind \in Kind
  /\ tick = [week |-> 0, pc |-> "over"]
  /\ job = [w \in Week |-> NoJob]
  /\ worker = NoWork
  /\ flags = [g \in Gap |-> 0]
  /\ drafts = [d \in Draft |-> NoDraft] /\ faqBases = 0
  /\ review = [r \in Review |-> NoReview] /\ entangled = {}
  /\ settings = {"email"} /\ wanted = {"email"} /\ patch = [r \in Review |-> NoPatch]
  /\ sent = [w \in Week |-> [c \in Channel |-> 0]]
  /\ redone = {} /\ raced = FALSE /\ overruns = 0 /\ crashes = 0

-----------------------------------------------------------------------------
(* The ticks and the queue *)

Redo(weeks) == redone' = IF kind = "digest" THEN redone \cup weeks ELSE redone

Tick ==
  /\ tick.pc = "over" /\ tick.week < Weeks
  /\ tick' = [week |-> tick.week + 1, pc |-> "select"]
  /\ UNCHANGED <<kind, job, worker, flags, faq, digest, raced, history>>

FanOut ==
  /\ tick.pc = "select"
  /\ job' = [job EXCEPT ![tick.week] = Enqueued(@)]
  /\ tick' = [tick EXCEPT !.pc = "over"]
  /\ UNCHANGED <<kind, worker, flags, faq, digest, raced, history>>

(* A tick has one attempt: its workspaces get no job that week. *)
TickFails ==
  /\ tick.pc = "select"
  /\ tick' = [tick EXCEPT !.pc = "over"]
  /\ UNCHANGED <<kind, job, worker, flags, faq, digest, raced, history>>

(* The tick was cut off after it had added this workspace's job, and runs     *)
(* again: the stamp of the day, taken again, is the same one.                 *)
TickCutOff ==
  /\ tick.pc = "select" /\ crashes < MaxCrashes
  /\ job' = [job EXCEPT ![tick.week] = Enqueued(@)]
  /\ tick' = [tick EXCEPT !.pc = "stalled"]
  /\ crashes' = crashes + 1
  /\ Redo({tick.week})
  /\ UNCHANGED <<kind, worker, flags, faq, digest, raced, overruns>>

TickAgain ==
  /\ tick.pc = "stalled"
  /\ tick' = [tick EXCEPT !.pc = "select"]
  /\ UNCHANGED <<kind, job, worker, flags, faq, digest, raced, history>>

TakeJob(w) ==
  /\ worker.pc = "idle" /\ job[w].state = "waiting"
  /\ job' = [job EXCEPT ![w].state = "active"]
  /\ worker' = [NoWork EXCEPT !.pc = "start", !.week = w, !.owns = TRUE]
  /\ UNCHANGED <<kind, tick, flags, faq, digest, raced, history>>

At(pc) == worker.pc = pc
Goto(pc) == worker' = [worker EXCEPT !.pc = pc]

(* The handler returned or threw; a job it no longer owns is left alone. *)
EndJob(j) ==
  /\ worker' = NoWork
  /\ job' = IF worker.owns THEN [job EXCEPT ![worker.week] = j] ELSE job

StartRun ==
  /\ At("start")
  /\ Goto("read")
  /\ UNCHANGED <<kind, tick, job, flags, faq, digest, raced, history>>

StartFails ==
  /\ At("start")
  /\ EndJob(FailedAttempt(job[worker.week], Attempts))
  /\ UNCHANGED <<kind, tick, flags, faq, digest, raced, history>>

(* A statement of the try block, or a model it asks, fails. *)
CallFails ==
  /\ worker.pc \in {"read", "compare", "record"}
  /\ kind = "digest" => At("read")
  /\ Goto("catch")
  /\ UNCHANGED <<kind, tick, job, flags, faq, digest, raced, history>>

Succeed ==
  /\ At("succeed")
  /\ EndJob(NoJob)
  /\ UNCHANGED <<kind, tick, flags, faq, digest, raced, history>>

SucceedFails ==
  /\ At("succeed")
  /\ Goto("catch")
  /\ Redo({worker.week})
  /\ UNCHANGED <<kind, tick, job, flags, faq, digest, raced, overruns, crashes>>

(* runs.fail, which may fail itself: the attempt has failed either way. *)
Fail ==
  /\ At("catch")
  /\ EndJob(FailedAttempt(job[worker.week], Attempts))
  /\ UNCHANGED <<kind, tick, flags, faq, digest, raced, history>>

(* The lock of the job ends while its handler lives on. *)
Overrun ==
  /\ worker.owns /\ overruns < MaxOverruns
  /\ job' = [job EXCEPT ![worker.week] = StalledJob(@, MaxStalls)]
  /\ worker' = [worker EXCEPT !.owns = FALSE]
  /\ overruns' = overruns + 1
  /\ Redo({worker.week})
  /\ UNCHANGED <<kind, tick, flags, faq, digest, raced, crashes>>

(* After a restart: the job of the process that died. *)
Stalled(w) ==
  /\ job[w].state = "active" /\ ~ (worker.owns /\ worker.week = w)
  /\ job' = [job EXCEPT ![w] = StalledJob(@, MaxStalls)]
  /\ UNCHANGED <<kind, tick, worker, flags, faq, digest, raced, history>>

Crash ==
  /\ crashes < MaxCrashes
  /\ crashes' = crashes + 1
  /\ worker' = NoWork
  /\ tick' = IF tick.pc = "select" THEN [tick EXCEPT !.pc = "stalled"] ELSE tick
  /\ Redo(IF worker.pc = "idle" THEN {} ELSE {worker.week})
  /\ entangled' = entangled \cup {review[r].draft : r \in {s \in Review : review[s].pc # "idle"}}
  /\ review' = [r \in Review |-> NoReview]
  /\ patch' = [r \in Review |-> NoPatch]
  /\ UNCHANGED <<kind, job, flags, drafts, faqBases, settings, sent, wanted, raced, overruns>>

-----------------------------------------------------------------------------
(* The freshness check *)

FindGapsAny ==
  /\ kind = "freshness-check" /\ At("read")
  /\ \E gaps \in SUBSET Gap : worker' = [worker EXCEPT !.pc = "record", !.todo = gaps]
  /\ UNCHANGED <<kind, tick, job, flags, faq, digest, raced, history>>

(* TicketDocCoverageService.findGaps: NOT EXISTS an open flag. *)
FindGaps ==
  /\ kind = "freshness-check" /\ At("read")
  /\ \E gaps \in SUBSET {g \in Gap : flags[g] = 0} :
       worker' = [worker EXCEPT !.pc = "record", !.todo = gaps]
  /\ UNCHANGED <<kind, tick, job, flags, faq, digest, raced, history>>

(* The INSERT of all flags; its answer may be lost. *)
InsertFlags ==
  /\ kind = "freshness-check" /\ At("record")
  /\ flags' = [g \in Gap |-> IF g \in worker.todo THEN flags[g] + 1 ELSE flags[g]]
  /\ \E pc \in {"succeed", "catch"} : Goto(pc)
  /\ UNCHANGED <<kind, tick, job, faq, digest, raced, history>>

(* dismissFlag. A pair that still mismatches is flagged again. *)
DismissFlag(g) ==
  /\ flags[g] > 0
  /\ flags' = [flags EXCEPT ![g] = @ - 1]
  /\ UNCHANGED <<kind, queue, faq, digest, raced, history>>

-----------------------------------------------------------------------------
(* FAQ drafts *)

FindUncovered ==
  /\ kind = "faq-cluster" /\ At("read")
  /\ \E uncovered \in SUBSET Cluster :
       worker' = [worker EXCEPT !.pc = "compare", !.todo = uncovered]
  /\ UNCHANGED <<kind, tick, job, flags, faq, digest, raced, history>>

Kept(d, statuses) == drafts[d].status \in statuses
DraftedAs(statuses) == {drafts[d].cluster : d \in {e \in Draft : Kept(e, statuses)}}

(* alreadyDraftedTicketIds *)
SkipDrafted ==
  /\ kind = "faq-cluster" /\ At("compare")
  /\ worker' = [worker EXCEPT !.pc = "record", !.todo = @ \ DraftedAs({"pending", "approved"})]
  /\ UNCHANGED <<kind, tick, job, flags, faq, digest, raced, history>>

(* draftFromCluster, cluster by cluster. *)
InsertDraft(d) ==
  /\ kind = "faq-cluster" /\ At("record") /\ drafts[d].status = "absent"
  /\ \E c \in worker.todo :
       /\ drafts' = [drafts EXCEPT ![d] = [NoDraft EXCEPT !.status = "pending", !.cluster = c]]
       /\ \E pc \in {"record", "catch"} :
            worker' = [worker EXCEPT !.pc = pc, !.todo = @ \ {c}]
  /\ UNCHANGED <<kind, tick, job, flags, faqBases, review, entangled, digest, raced, history>>

(* The tickets of the cluster are gone. *)
SkipCluster ==
  /\ kind = "faq-cluster" /\ At("record")
  /\ \E c \in worker.todo : worker' = [worker EXCEPT !.todo = @ \ {c}]
  /\ UNCHANGED <<kind, tick, job, flags, faq, digest, raced, history>>

DraftsDone ==
  /\ kind = "faq-cluster" /\ At("record") /\ worker.todo = {}
  /\ Goto("succeed")
  /\ UNCHANGED <<kind, tick, job, flags, faq, digest, raced, history>>

Reject(d) ==
  /\ drafts[d].status = "pending"
  /\ drafts' = [drafts EXCEPT ![d].status = "rejected"]
  /\ UNCHANGED <<kind, queue, flags, faqBases, review, entangled, digest, raced, history>>

Reviewing(r, pc) == review[r].pc = pc
GotoReview(r, pc) == review' = [review EXCEPT ![r].pc = pc]
Reviews(d) == {r \in Review : review[r].pc # "idle" /\ review[r].draft = d}

SelectDraftAny(r, d) ==
  /\ Reviewing(r, "idle") /\ drafts[d].status # "absent"
  /\ review' = [review EXCEPT ![r] = [pc |-> "find", draft |-> d]]
  /\ entangled' = IF Reviews(d) = {} THEN entangled ELSE entangled \cup {d}
  /\ UNCHANGED <<kind, queue, flags, drafts, faqBases, digest, raced, history>>

(* approve: SELECT the draft while it is pending ... *)
SelectDraft(r, d) ==
  /\ Reviewing(r, "idle") /\ drafts[d].status = "pending"
  /\ review' = [review EXCEPT ![r] = [pc |-> "find", draft |-> d]]
  /\ entangled' = IF Reviews(d) = {} THEN entangled ELSE entangled \cup {d}
  /\ UNCHANGED <<kind, queue, flags, drafts, faqBases, digest, raced, history>>

(* getOrCreateFaqKnowledgeBase: SELECT, then INSERT; the name is not unique. *)
FindFaqBase(r) ==
  /\ Reviewing(r, "find")
  /\ GotoReview(r, IF faqBases > 0 THEN "insert" ELSE "create")
  /\ raced' = (raced \/ \E s \in Review : Reviewing(s, "create"))
  /\ UNCHANGED <<kind, queue, flags, drafts, faqBases, entangled, digest, history>>

CreateFaqBase(r) ==
  /\ Reviewing(r, "create")
  /\ faqBases' = faqBases + 1
  /\ GotoReview(r, "insert")
  /\ UNCHANGED <<kind, queue, flags, drafts, entangled, digest, raced, history>>

(* The answer is stored, then the document inserted; more than two documents   *)
(* count as two.                                                              *)
InsertDocument(r) ==
  /\ Reviewing(r, "insert")
  /\ drafts' = [drafts EXCEPT ![review[r].draft].documents = IF @ < 2 THEN @ + 1 ELSE @]
  /\ GotoReview(r, "approve")
  /\ UNCHANGED <<kind, queue, flags, faqBases, entangled, digest, raced, history>>

(* ... queue the document, then UPDATE by id: a draft rejected meanwhile is approved. *)
Approve(r) ==
  LET d == review[r].draft IN
  /\ Reviewing(r, "approve")
  /\ drafts' = [drafts EXCEPT ![d].status = "approved"]
  /\ review' = [review EXCEPT ![r] = NoReview]
  /\ entangled' = IF drafts[d].status = "rejected" THEN entangled \cup {d} ELSE entangled
  /\ UNCHANGED <<kind, queue, flags, faqBases, digest, raced, history>>

ApprovalFails(r) ==
  /\ review[r].pc # "idle"
  /\ review' = [review EXCEPT ![r] = NoReview]
  /\ entangled' = entangled \cup (IF Reviewing(r, "approve") THEN {review[r].draft} ELSE {})
  /\ UNCHANGED <<kind, queue, flags, drafts, faqBases, digest, raced, history>>

-----------------------------------------------------------------------------
(* The digest *)

(* The settings, the owner's address and the content of the digest. *)
BuildDigest ==
  /\ kind = "digest" /\ At("read")
  /\ worker' = [worker EXCEPT !.pc = "record", !.todo = settings]
  /\ UNCHANGED <<kind, tick, job, flags, faq, digest, raced, history>>

Deliver(c) == sent' = [sent EXCEPT ![worker.week][c] = @ + 1]
InOrder(c) == c \in worker.todo /\ (c = "slack" => "email" \notin worker.todo)

SendDigest(c) ==
  /\ kind = "digest" /\ At("record") /\ InOrder(c)
  /\ Deliver(c)
  /\ worker' = [worker EXCEPT !.todo = @ \ {c}]
  /\ UNCHANGED <<kind, tick, job, flags, faq, settings, patch, wanted, raced, history>>

SendFailsRun(c) ==
  /\ kind = "digest" /\ At("record") /\ InOrder(c)
  /\ worker' = [worker EXCEPT !.pc = "catch", !.todo = @ \ {c}]
  /\ UNCHANGED <<kind, tick, job, flags, faq, digest, raced, history>>

(* A channel that fails is caught on its own. *)
SendFails(c) ==
  /\ kind = "digest" /\ At("record") /\ InOrder(c)
  /\ worker' = [worker EXCEPT !.todo = @ \ {c}]
  /\ UNCHANGED <<kind, tick, job, flags, faq, digest, raced, history>>

DigestDone ==
  /\ kind = "digest" /\ At("record") /\ worker.todo = {}
  /\ Goto("succeed")
  /\ UNCHANGED <<kind, tick, job, flags, faq, digest, raced, history>>

(* DigestSettingsService.update: SELECT the row, merge, then write all of it. *)
ReadSettings(r, c, on) ==
  /\ kind = "digest" /\ patch[r].pc = "idle"
  /\ patch' = [patch EXCEPT ![r] = [pc |-> "write", channel |-> c, on |-> on, base |-> settings]]
  /\ raced' = (raced \/ \E s \in Review : patch[s].pc # "idle")
  /\ UNCHANGED <<kind, queue, flags, faq, settings, sent, wanted, history>>

Merged(channels, c, on) == IF on THEN channels \cup {c} ELSE channels \ {c}

WriteSettings(r) ==
  /\ patch[r].pc = "write"
  /\ settings' = Merged(patch[r].base, patch[r].channel, patch[r].on)
  /\ wanted' = Merged(wanted, patch[r].channel, patch[r].on)
  /\ patch' = [patch EXCEPT ![r] = NoPatch]
  /\ UNCHANGED <<kind, queue, flags, faq, sent, raced, history>>

(* The write fails; so does the second of two first INSERTs. *)
WriteFails(r) ==
  /\ patch[r].pc = "write"
  /\ patch' = [patch EXCEPT ![r] = NoPatch]
  /\ UNCHANGED <<kind, queue, flags, faq, settings, sent, wanted, raced, history>>

-----------------------------------------------------------------------------
Queue ==
  \/ Tick \/ FanOut \/ TickFails \/ TickCutOff \/ TickAgain
  \/ \E w \in Week : TakeJob(w) \/ Stalled(w)
  \/ StartRun \/ StartFails \/ CallFails \/ Succeed \/ SucceedFails \/ Fail
  \/ Overrun \/ Crash

Freshness == FindGaps \/ InsertFlags \/ \E g \in Gap : DismissFlag(g)

Faq ==
  \/ FindUncovered \/ SkipDrafted \/ SkipCluster \/ DraftsDone
  \/ \E d \in Draft : InsertDraft(d) \/ Reject(d)
  \/ \E r \in Review :
       \/ \E d \in Draft : SelectDraft(r, d)
       \/ FindFaqBase(r) \/ CreateFaqBase(r) \/ InsertDocument(r)
       \/ Approve(r) \/ ApprovalFails(r)

Digest ==
  \/ BuildDigest \/ DigestDone
  \/ \E c \in Channel : SendDigest(c) \/ SendFails(c)
  \/ \E r \in Review :
       \/ \E c \in Channel, on \in BOOLEAN : ReadSettings(r, c, on)
       \/ WriteSettings(r) \/ WriteFails(r)

Next == Queue \/ Freshness \/ Faq \/ Digest

Spec == Init /\ [][Next]_vars

-----------------------------------------------------------------------------
(* Properties *)

(* However often a check is run again, by a retry, a stall or another week,   *)
(* a gap has at most one open flag, and a cluster of tickets at most one      *)
(* draft that is pending or approved; a draft whose approval overlapped       *)
(* another review of it is excused (freshness-check.processor.ts,             *)
(* faq-cluster.processor.ts).                                                 *)
FoundOnce ==
  /\ \A g \in Gap : flags[g] <= 1
  /\ \A d, e \in Draft \ entangled :
       /\ Kept(d, {"pending", "approved"}) /\ Kept(e, {"pending", "approved"})
       /\ drafts[d].cluster = drafts[e].cluster
       => d = e

(* A draft enters the corpus at most once, and not when it was rejected,      *)
(* unless its reviews overlapped or an approval ended between the INSERT of   *)
(* the document and the UPDATE of the draft; all drafts go to one knowledge   *)
(* base unless two approvals looked for it at once (faq-drafts.service.ts).   *)
ReviewedOnce ==
  /\ \A d \in Draft \ entangled :
       /\ drafts[d].documents <= 1
       /\ drafts[d].status = "approved" => drafts[d].documents = 1
       /\ Reviews(d) = {} /\ drafts[d].status # "approved" => drafts[d].documents = 0
  /\ raced \/ faqBases <= 1

(* A channel that fails repeats the other one's digest neither in this run nor *)
(* by a retry: only a fault of the queue, of the process or of the row of the *)
(* run sends a week's digest again (digest.processor.ts). And each channel is *)
(* as the last change of it asked for, whatever other fields were changed,    *)
(* unless two changes overlapped (digest-settings.service.ts).                *)
SentAsSet ==
  /\ \A w \in Week \ redone, c \in Channel : sent[w][c] <= 1
  /\ raced \/ settings = wanted
=============================================================================
