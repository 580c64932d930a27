-------------------------- MODULE TicketLifecycle --------------------------
(***************************************************************************)
(* One support ticket: the requests that create it from a transcript       *)
(* (TicketsService.create, queueTicket), its extraction job                *)
(* (TicketExtractionProcessor), the reviews that edit it (update) and keep *)
(* its one chunk in step (syncTicketChunk), the backfill script, and boot  *)
(* reconciliation.                                                         *)
(*                                                                         *)
(* Tickets are told apart by (workspace, transcript hash) and every        *)
(* statement selects by ticket id, so one transcript is modelled. The      *)
(* fields that extraction and reviews write, and that the chunk is built   *)
(* from, are abstracted to one text.                                       *)
(***************************************************************************)
EXTENDS BullJob, FiniteSets

CONSTANTS
  Creator,      \* POST requests with this transcript
  Handler,      \* executions of handleExtraction that may be alive at one time
  Reviewer,     \* PATCH requests in flight
  Backfill,     \* the backfill script
  Text,         \* what extraction or an edit may write
  CallsMayFail, \* whether statements, the queue and the model API may fail
  MaxStalls,    \* Bull's maxStalledCount: 1
  MaxPatches,   \* bound: PATCH requests and backfill runs in all
  MaxOverruns,  \* bound: times a job's lock ends while its handler lives on
  MaxCrashes    \* bound: times the API process dies

ASSUME TicketBounds ==
  /\ MaxStalls \in Nat /\ MaxPatches \in Nat
  /\ MaxOverruns \in Nat /\ MaxCrashes \in Nat
  /\ CallsMayFail \in BOOLEAN

ASSUME BackfillIsNoReviewer == Backfill \notin Reviewer

CONSTANT Blank
ASSUME BlankIsNoText == Blank \notin Text

Attempts == 1          \* job options

Syncer == Reviewer \cup {Backfill}

VARIABLES
  row,       \* the tickets row of the transcript
  chunk,     \* texts of the chunks rows of the ticket
  job,       \* the Bull job ticket-extraction:<ticketId>
  creator, handler, \* where each create request and each handler is
  sync,      \* the reviewers and the backfill
  recon,     \* reconcileTickets of the last boot; "down" when no process runs
  unbumped,  \* the chunk has changed since the last successful bump
  excused,   \* history: ... and a sync failed after that, or a bump was lost
  abandoned, \* history: a handler or its process died with the row processing
  disturbed, \* history: see ChunkFollowsReview
  patches, overruns, crashes   \* history: what is bounded

vars == <<row, chunk, job, creator, handler, sync, recon, unbumped, excused,
          abandoned, disturbed, patches, overruns, crashes>>

Open == {"pending", "processing"}

Ticket == [status : Open \cup {"absent", "done", "failed"},
           text : Text \cup {Blank},
           usefulness : {"unset", "useful", "not_useful"},
           reviewed : BOOLEAN,    \* reviewedBy IS NOT NULL
           linked : BOOLEAN]      \* queueJobId IS NOT NULL

Absent == [status |-> "absent", text |-> Blank, usefulness |-> "unset",
           reviewed |-> FALSE, linked |-> FALSE]

(* was: the row as getOne read it; ticket: the row whose chunk is synchronised *)
Sync == [pc : {"idle", "update", "select", "remove", "replace", "insert", "bump"},
         was : Ticket, ticket : Ticket]

NoSync == [pc |-> "idle", was |-> Absent, ticket |-> Absent]

Execution == [pc : {"idle", "start", "select", "extract", "catch"}, owns : BOOLEAN]

Idle == [pc |-> "idle", owns |-> FALSE]

TypeOK ==
  /\ row \in Ticket
  /\ chunk \in SUBSET Text /\ Cardinality(chunk) <= 1
  /\ job \in JobRecord(Attempts, MaxStalls)
  /\ creator \in [Creator -> {"idle", "insert", "link", "add", "addFailed"}]
  /\ handler \in [Handler -> Execution]
  /\ sync \in [Syncer -> Sync]
  /\ recon \in {"down", "getJob", "update", "finished"}
  /\ {unbumped, excused, abandoned, disturbed} \subseteq BOOLEAN
  /\ patches \in 0 .. MaxPatches
  /\ overruns \in 0 .. MaxOverruns /\ crashes \in 0 .. MaxCrashes

Present == row.status # "absent"
Running == recon # "down"
Serving == recon = "finished"   \* app.listen comes after onModuleInit

(* What drives embedding: syncTicketChunk's condition. *)
Qualifies(t) == t.status = "done" /\ t.reviewed /\ t.usefulness = "useful"

Init ==
  /\ row = Absent
  /\ chunk = {}
  /\ job = NoJob
  /\ creator = [c \in Creator |-> "idle"]
  /\ handler = [h \in Handler |-> Idle]
  /\ sync = [a \in Syncer |-> NoSync]
  /\ recon = "finished"
  /\ unbumped = FALSE /\ excused = FALSE /\ abandoned = FALSE /\ disturbed = FALSE
  /\ patches = 0 /\ overruns = 0 /\ crashes = 0

cacheVars == <<unbumped, excused>>
bounds    == <<patches, overruns, crashes>>

-----------------------------------------------------------------------------
(* TicketsService.create and queueTicket *)

FindByHash(c) ==
  /\ Serving /\ creator[c] = "idle"
  /\ creator' = [creator EXCEPT ![c] = IF Present THEN "idle" ELSE "insert"]
  /\ UNCHANGED <<row, chunk, job, handler, sync, recon, cacheVars, abandoned,
                 disturbed, bounds>>

InsertTicket(c) ==
  /\ creator[c] = "insert" /\ ~Present
  /\ row' = [Absent EXCEPT !.status = "pending"]
  /\ creator' = [creator EXCEPT ![c] = "link"]
  /\ UNCHANGED <<chunk, job, handler, sync, recon, cacheVars, abandoned, disturbed,
                 bounds>>

(* The unique index refuses the INSERT and the winner's ticket is answered. *)
LoseRace(c) ==
  /\ creator[c] = "insert" /\ Present
  /\ creator' = [creator EXCEPT ![c] = "idle"]
  /\ UNCHANGED <<row, chunk, job, handler, sync, recon, cacheVars, abandoned,
                 disturbed, bounds>>

LinkJob(c) ==
  /\ creator[c] = "link"
  /\ row' = [row EXCEPT !.status = "pending", !.linked = TRUE]
  /\ creator' = [creator EXCEPT ![c] = "add"]
  /\ UNCHANGED <<chunk, job, handler, sync, recon, cacheVars, abandoned, disturbed,
                 bounds>>

AddJob(c) ==
  /\ creator[c] = "add"
  /\ job' = Enqueued(job)
  /\ creator' = [creator EXCEPT ![c] = "idle"]
  /\ UNCHANGED <<row, chunk, handler, sync, recon, cacheVars, abandoned, disturbed,
                 bounds>>

(* The add failed, before or after Redis carried it out. *)
AddJobFails(c) ==
  /\ CallsMayFail /\ creator[c] = "add"
  /\ job' \in {job, Enqueued(job)}
  /\ creator' = [creator EXCEPT ![c] = "addFailed"]
  /\ UNCHANGED <<row, chunk, handler, sync, recon, cacheVars, abandoned, disturbed,
                 bounds>>

AddFailed(c) ==
  /\ creator[c] = "addFailed"
  /\ row' = [row EXCEPT !.status = "failed"]
  /\ creator' = [creator EXCEPT ![c] = "idle"]
  /\ disturbed' = (disturbed \/ row.status = "done")
  /\ UNCHANGED <<chunk, job, handler, sync, recon, cacheVars, abandoned, bounds>>

(* One of the statements failed and the request with it. *)
CreateFails(c) ==
  /\ CallsMayFail /\ creator[c] \in {"insert", "link", "addFailed"}
  /\ creator' = [creator EXCEPT ![c] = "idle"]
  /\ UNCHANGED <<row, chunk, job, handler, sync, recon, cacheVars, abandoned,
                 disturbed, bounds>>

-----------------------------------------------------------------------------
(* The Bull job *)

AttemptUncounted == [job EXCEPT !.state = "waiting"]

AttemptFailed == FailedAttempt(job, Attempts)

TakeJob(h) ==
  /\ Running /\ job.state = "waiting" /\ handler[h].pc = "idle"
  /\ job' = [job EXCEPT !.state = "active"]
  /\ handler' = [handler EXCEPT ![h] = [pc |-> "start", owns |-> TRUE]]
  /\ UNCHANGED <<row, chunk, creator, sync, recon, cacheVars, abandoned, disturbed,
                 bounds>>

(* TICKET_JOB_TIMEOUT_MS passed, or the lock expired under a busy event loop:  *)
(* the job goes on without its handler, which runs on.                        *)
LoseJob(h) ==
  /\ handler[h].owns /\ overruns < MaxOverruns
  /\ job' \in {AttemptFailed, StalledJob(job, MaxStalls)}
  /\ handler' = [handler EXCEPT ![h].owns = FALSE]
  /\ overruns' = overruns + 1
  /\ UNCHANGED <<row, chunk, creator, sync, recon, cacheVars, abandoned, disturbed,
                 patches, crashes>>

StallDead ==
  /\ Running /\ job.state = "active" /\ \A h \in Handler : ~handler[h].owns
  /\ job' = StalledJob(job, MaxStalls)
  /\ UNCHANGED <<row, chunk, creator, handler, sync, recon, cacheVars, abandoned,
                 disturbed, bounds>>

(* The handler returns, and its job is removed if it is still its own. *)
Return(h) ==
  /\ job' = IF handler[h].owns THEN NoJob ELSE job
  /\ handler' = [handler EXCEPT ![h] = Idle]

(* The handler rejects. *)
Throw(h) ==
  /\ job' = IF handler[h].owns THEN AttemptFailed ELSE job
  /\ handler' = [handler EXCEPT ![h] = Idle]

-----------------------------------------------------------------------------
(* TicketExtractionProcessor.handleExtraction *)

StartUnguarded(h) ==
  /\ handler[h].pc = "start"
  /\ row' = [row EXCEPT !.status = "processing"]
  /\ handler' = [handler EXCEPT ![h].pc = "select"]
  /\ UNCHANGED <<chunk, job, creator, sync, recon, cacheVars, abandoned, disturbed,
                 bounds>>

(* UPDATE ... WHERE id AND status = 'pending'; no row means skipped. *)
Start(h) ==
  /\ handler[h].pc = "start"
  /\ \/ /\ row.status = "pending"
        /\ row' = [row EXCEPT !.status = "processing"]
        /\ handler' = [handler EXCEPT ![h].pc = "select"]
        /\ job' = job
     \/ row.status # "pending" /\ row' = row /\ Return(h)
  /\ UNCHANGED <<chunk, creator, sync, recon, cacheVars, abandoned, disturbed, bounds>>

(* The transcript, which nothing changes. *)
SelectTicket(h) ==
  /\ handler[h].pc = "select"
  /\ handler' = [handler EXCEPT ![h].pc = "extract"]
  /\ UNCHANGED <<row, chunk, job, creator, sync, recon, cacheVars, abandoned,
                 disturbed, bounds>>

(* Outside the try block: the UPDATE or the SELECT failed. *)
RejectEarly(h) ==
  /\ CallsMayFail /\ handler[h].pc \in {"start", "select"}
  /\ Throw(h)
  /\ abandoned' = (abandoned \/ handler[h].pc = "select")
  /\ UNCHANGED <<row, chunk, creator, sync, recon, cacheVars, disturbed, bounds>>

(* The extracted fields are stored unless the row has left the open statuses. *)
Finish(h) ==
  /\ handler[h].pc = "extract"
  /\ \E t \in Text :
       row' = IF row.status \in Open THEN [row EXCEPT !.status = "done", !.text = t]
                                     ELSE row
  /\ Return(h)
  /\ UNCHANGED <<chunk, creator, sync, recon, cacheVars, abandoned, disturbed, bounds>>

(* extractTicketFromTranscript threw: empty, malformed, refused or timed out   *)
(* twice; or the UPDATE failed.                                               *)
ExtractFails(h) ==
  /\ handler[h].pc = "extract"
  /\ handler' = [handler EXCEPT ![h].pc = "catch"]
  /\ UNCHANGED <<row, chunk, job, creator, sync, recon, cacheVars, abandoned,
                 disturbed, bounds>>

(* UPDATE ... SET status = 'failed' WHERE id: no guard on the status. *)
MarkFailed(h) ==
  /\ handler[h].pc = "catch"
  /\ row' = [row EXCEPT !.status = "failed"]
  /\ Return(h)
  /\ UNCHANGED <<chunk, creator, sync, recon, cacheVars, abandoned, disturbed, bounds>>

MarkFailedFails(h) ==
  /\ CallsMayFail /\ handler[h].pc = "catch"
  /\ Throw(h)
  /\ abandoned' = TRUE
  /\ UNCHANGED <<row, chunk, creator, sync, recon, cacheVars, disturbed, bounds>>

-----------------------------------------------------------------------------
(* TicketsService.update and the backfill script *)

Others(a) == \E b \in Syncer \ {a} : sync[b].pc # "idle"

GetOne(r) ==
  /\ Serving /\ Present /\ sync[r].pc = "idle" /\ patches < MaxPatches
  /\ sync' = [sync EXCEPT ![r] = [NoSync EXCEPT !.pc = "update", !.was = row]]
  /\ patches' = patches + 1
  /\ disturbed' = (disturbed \/ Others(r))
  /\ UNCHANGED <<row, chunk, job, creator, handler, recon, cacheVars, abandoned,
                 overruns, crashes>>

(* SELECT of all tickets; each is then synchronised as it was read. *)
StartBackfill ==
  /\ Present /\ sync[Backfill].pc = "idle" /\ patches < MaxPatches
  /\ sync' = [sync EXCEPT ![Backfill] = [NoSync EXCEPT !.pc = "select", !.ticket = row]]
  /\ patches' = patches + 1
  /\ disturbed' = (disturbed \/ Others(Backfill))
  /\ UNCHANGED <<row, chunk, job, creator, handler, recon, cacheVars, abandoned,
                 overruns, crashes>>

ShouldSyncQualifying(was, updated) == Qualifies(updated)

ShouldSync(was, updated) ==
  /\ updated.status = "done"
  /\ \/ updated.reviewed /\ updated.usefulness = "useful"
     \/ was.usefulness = "useful"
     \/ was.reviewed

(* What the DTO may change: fields that are left out keep their value. *)
Patched(t, u) == [row EXCEPT !.text = t, !.usefulness = u, !.reviewed = TRUE]

Update(r) ==
  /\ sync[r].pc = "update"
  /\ \E t \in Text \cup {row.text}, u \in {"useful", "not_useful", row.usefulness} :
       /\ row' = Patched(t, u)
       /\ sync' = [sync EXCEPT ![r] =
            IF ShouldSync(sync[r].was, Patched(t, u))
              THEN [NoSync EXCEPT !.pc = "select", !.ticket = Patched(t, u)]
              ELSE NoSync]
  /\ disturbed' = (disturbed \/ row.status \in Open)
  /\ UNCHANGED <<chunk, job, creator, handler, recon, cacheVars, abandoned, bounds>>

UpdateFails(r) ==
  /\ CallsMayFail /\ sync[r].pc = "update"
  /\ sync' = [sync EXCEPT ![r] = NoSync]
  /\ UNCHANGED <<row, chunk, job, creator, handler, recon, cacheVars, abandoned,
                 disturbed, bounds>>

(* syncTicketChunk: the SELECT decides; "unchanged" and "skipped" end it. *)
SelectChunk(a) ==
  /\ sync[a].pc = "select"
  /\ LET t    == sync[a].ticket
         next == IF ~Qualifies(t)
                   THEN IF chunk = {} THEN "idle" ELSE "remove"
                   ELSE IF chunk = {t.text} THEN "idle" ELSE "replace"
     IN sync' = [sync EXCEPT ![a] = IF next = "idle" THEN NoSync
                                                     ELSE [@ EXCEPT !.pc = next]]
  /\ UNCHANGED <<row, chunk, job, creator, handler, recon, cacheVars, abandoned,
                 disturbed, bounds>>

RemoveWithoutBump(a) ==
  /\ sync[a].pc \in {"remove", "replace"}
  /\ chunk' = {}
  /\ unbumped' = (unbumped \/ chunk # {})
  /\ sync' = [sync EXCEPT ![a] = IF @.pc = "remove" THEN NoSync
                                                    ELSE [@ EXCEPT !.pc = "insert"]]
  /\ UNCHANGED <<row, job, creator, handler, recon, excused, abandoned, disturbed,
                 bounds>>

(* The DELETE, after the embedding call when the ticket qualifies. *)
DeleteChunk(a) ==
  /\ sync[a].pc \in {"remove", "replace"}
  /\ chunk' = {}
  /\ unbumped' = (unbumped \/ chunk # {})
  /\ sync' = [sync EXCEPT ![a].pc = IF @ = "remove" THEN "bump" ELSE "insert"]
  /\ UNCHANGED <<row, job, creator, handler, recon, excused, abandoned, disturbed,
                 bounds>>

(* The unique index on ticket_id refuses a second chunk. *)
InsertChunk(a) ==
  /\ sync[a].pc = "insert" /\ chunk = {}
  /\ chunk' = {sync[a].ticket.text}
  /\ unbumped' = TRUE
  /\ sync' = [sync EXCEPT ![a].pc = "bump"]
  /\ UNCHANGED <<row, job, creator, handler, recon, excused, abandoned, disturbed,
                 bounds>>

(* A statement or the embedding call failed: update swallows it, the script    *)
(* exits.                                                                     *)
SyncFails(a) ==
  /\ sync[a].pc \in {"select", "remove", "replace", "insert"}
  /\ CallsMayFail \/ (sync[a].pc = "insert" /\ chunk # {})
  /\ sync' = [sync EXCEPT ![a] = NoSync]
  /\ excused' = (excused \/ sync[a].pc = "insert")
  /\ disturbed' = TRUE
  /\ UNCHANGED <<row, chunk, job, creator, handler, recon, unbumped, abandoned, bounds>>

BumpVersion(a) ==
  /\ sync[a].pc = "bump"
  /\ \/ unbumped' = FALSE /\ excused' = FALSE
     \/ CallsMayFail /\ unbumped' = unbumped /\ excused' = TRUE
  /\ sync' = [sync EXCEPT ![a] = NoSync]
  /\ UNCHANGED <<row, chunk, job, creator, handler, recon, abandoned, disturbed, bounds>>

-----------------------------------------------------------------------------
(* The API process dies, and Redis may lose its data with it. The backfill is *)
(* a process of its own.                                                      *)
Crash ==
  /\ Running /\ crashes < MaxCrashes
  /\ creator' = [c \in Creator |-> "idle"]
  /\ handler' = [h \in Handler |-> Idle]
  /\ sync' = [a \in Syncer |-> IF a = Backfill THEN sync[a] ELSE NoSync]
  /\ job' \in {job, IF job.state = "none" THEN job ELSE [NoJob EXCEPT !.state = "lost"]}
  /\ recon' = "down"
  /\ excused' = (excused \/ unbumped)
  /\ abandoned' = (abandoned \/ row.status = "processing")
  /\ disturbed' = (disturbed \/ \E r \in Reviewer : sync[r].pc # "idle")
  /\ crashes' = crashes + 1
  /\ UNCHANGED <<row, chunk, unbumped, patches, overruns>>

(* onModuleInit: how long the process was down is not known, so an open row   *)
(* may be past its grace period or not.                                       *)
Boot ==
  /\ recon = "down"
  /\ \/ recon' = "finished"
     \/ row.status \in Open /\ recon' = IF row.linked THEN "getJob" ELSE "update"
  /\ UNCHANGED <<row, chunk, job, creator, handler, sync, cacheVars, abandoned,
                 disturbed, bounds>>

ReconcileGetJob ==
  /\ recon = "getJob"
  /\ recon' = IF Found(job) THEN "finished" ELSE "update"
  /\ UNCHANGED <<row, chunk, job, creator, handler, sync, cacheVars, abandoned,
                 disturbed, bounds>>

(* getJob failed, which counts as a missing job. *)
ReconcileGetJobFails ==
  /\ CallsMayFail /\ recon = "getJob"
  /\ recon' = "update"
  /\ UNCHANGED <<row, chunk, job, creator, handler, sync, cacheVars, abandoned,
                 disturbed, bounds>>

(* UPDATE by id only; its own failure ends the pass. *)
ReconcileFail ==
  /\ recon = "update"
  /\ \/ /\ row' = [row EXCEPT !.status = "failed"]
        /\ disturbed' = (disturbed \/ row.status = "done")
     \/ CallsMayFail /\ row' = row /\ disturbed' = disturbed
  /\ recon' = "finished"
  /\ UNCHANGED <<chunk, job, creator, handler, sync, cacheVars, abandoned, bounds>>

-----------------------------------------------------------------------------
Create(c) ==
  \/ FindByHash(c) \/ InsertTicket(c) \/ LoseRace(c)
  \/ LinkJob(c) \/ AddJob(c) \/ AddJobFails(c) \/ AddFailed(c) \/ CreateFails(c)

Handle(h) ==
  \/ Start(h) \/ SelectTicket(h) \/ RejectEarly(h)
  \/ Finish(h) \/ ExtractFails(h) \/ MarkFailed(h) \/ MarkFailedFails(h)

Review(r) == GetOne(r) \/ Update(r) \/ UpdateFails(r)

SyncTicketChunk(a) ==
  \/ SelectChunk(a) \/ DeleteChunk(a) \/ InsertChunk(a) \/ SyncFails(a)
  \/ BumpVersion(a)

Reconcile == Boot \/ ReconcileGetJob \/ ReconcileGetJobFails \/ ReconcileFail

Next ==
  \/ \E c \in Creator : Create(c)
  \/ \E h \in Handler : TakeJob(h) \/ LoseJob(h) \/ Handle(h)
  \/ \E r \in Reviewer : Review(r)
  \/ \E a \in Syncer : SyncTicketChunk(a)
  \/ StartBackfill \/ StallDead \/ Crash \/ Reconcile

Spec == Init /\ [][Next]_vars

(* As for documents: the process is restarted, its worker takes waiting jobs  *)
(* and checks for stalled ones, and awaited calls return or fail.             *)
FairSpec ==
  /\ Spec
  /\ WF_vars(Reconcile) /\ WF_vars(StallDead)
  /\ WF_vars(\E h \in Handler : TakeJob(h))
  /\ \A h \in Handler : WF_vars(Handle(h))

-----------------------------------------------------------------------------
(* Properties *)

(* handleExtraction's guarded UPDATE lets one execution through: a transcript *)
(* is never extracted by two handlers at a time, whatever stalls, timeouts    *)
(* and repeated POSTs there are.                                              *)
Working(h) == handler[h].pc \in {"select", "extract", "catch"}

SingleExtraction == \A g, h \in Handler : Working(g) /\ Working(h) => g = h

(* A ticket that says "processing" is being worked on, unless a handler or    *)
(* the process died in the middle; such a row waits for the next boot.        *)
ProcessingHasWorker ==
  row.status = "processing" => abandoned \/ \E h \in Handler : Working(h)

(* Nothing takes a ticket out of "done", where reviews and embedding build on *)
(* it, but two unguarded UPDATEs: that of a create request whose queue add    *)
(* seemed to fail, and that of a reconciliation that has read an older row.   *)
DoneIsFinal ==
  [][row.status = "done" /\ row'.status # "done"
       => recon = "update" \/ \E c \in Creator : creator[c] = "addFailed"]_vars

(* After a change of the ticket's chunk somebody is going to bump the cache   *)
(* version, unless an INSERT or a bump failed or the process died: update     *)
(* bumps only when syncTicketChunk returned.                                  *)
ChangesAnnounced ==
  unbumped => excused \/ \E a \in Syncer : sync[a].pc \in {"insert", "bump"}

(* Reviews that do not overlap, of a ticket whose extraction has ended, keep  *)
(* the chunk in step with the row: a qualifying ticket has a chunk with its   *)
(* present text and any other ticket has none. "disturbed" is set by what     *)
(* update and syncTicketChunk do not guard against: overlapping calls, a      *)
(* failed or interrupted sync, a review of an open ticket, and a "done" that  *)
(* is taken back.                                                             *)
ChunkFollowsReview ==
  ~disturbed /\ (\A a \in Syncer : sync[a].pc = "idle")
    => chunk = IF Qualifies(row) THEN {row.text} ELSE {}

(* A queued ticket is started or failed, unless its job fails before its      *)
(* first statement or Redis loses it.                                         *)
PendingSettles ==
  (row.status = "pending" /\ job.state = "waiting")
    ~> (row.status # "pending" \/ job.state \in {"failed", "lost"})
=============================================================================
