--------------------------- MODULE DocumentIngest ---------------------------
(***************************************************************************)
(* The ingestion of one document: IngestService (queueDocument, boot       *)
(* reconciliation), IngestProcessor with syncChunks, the callers that      *)
(* create or recrawl the document, DocumentsService.remove / removeMany,   *)
(* and the Bull job of the document.                                       *)
(*                                                                         *)
(* Every statement of these handlers selects by document id and the job id *)
(* is ingest:<documentId>, so documents do not interact and one is         *)
(* modelled. Content is abstracted to the set of chunk hashes it is split  *)
(* into: Content[k] for the k-th object stored for the document. The       *)
(* chunks of one object are taken to have different texts.                 *)
(***************************************************************************)
EXTENDS BullJob, FiniteSets

CONSTANTS
  Handler,     \* executions of handleIngest that may be alive at one time
  Hash,        \* content hashes of chunks
  Content,     \* Content[k]: the chunk hashes of the k-th stored object
  CallsMayFail, \* whether the caller's UPDATE and the add of its job may fail
  MaxKey,      \* bound: objects stored for the document (first crawl, recrawls)
  Id,          \* chunk row ids
  Attempts,    \* "attempts" of the job options: 3
  MaxStalls,   \* Bull's maxStalledCount: 1
  MaxOverruns, \* bound: times a job's lock ends while its handler lives on
  MaxCrashes   \* bound: times the API process dies

Key == 1 .. MaxKey

ASSUME IngestBounds ==
  /\ MaxKey \in Nat \ {0} /\ Attempts \in Nat \ {0}
  /\ MaxStalls \in Nat /\ MaxOverruns \in Nat /\ MaxCrashes \in Nat
  /\ Id \subseteq Nat

ASSUME ContentAssumption == Content \in [Key -> SUBSET Hash]

VARIABLES
  origin,    \* who creates the document: an upload (or an approved FAQ draft), a crawl
  row,       \* the documents row
  chunks,    \* the chunks rows of the document
  job,       \* the Bull job ingest:<documentId>
  handler,   \* executions of handleIngest
  caller,    \* the request or crawl that stores content and queues the document
  remover,   \* a call of DocumentsService.remove or removeMany
  recon,     \* reconcileDocuments of the last boot; "down" when no process runs
  unbumped,  \* chunks have changed since the last successful bumpVersion
  excused,   \* history: ... and the bump of such a change failed or died
  overruns,  \* history: locks that ended before their handler did
  crashes    \* history

vars == <<origin, row, chunks, job, handler, caller, remover, recon, unbumped,
          excused, overruns, crashes>>

Chunk == [hash : Hash, id : Id]

Open == {"pending", "processing"}   \* the statuses reconciliation looks at

Status == Open \cup {"done", "failed"}

(* "absent" before the INSERT, "deleted" after the DELETE of the row. linked: *)
(* queueJobId has been written.                                              *)
Row == [status : Status \cup {"absent", "deleted"}, key : Key, linked : BOOLEAN]

Job == JobRecord(Attempts, MaxStalls)

HandlerPc == {"idle", "mark", "select", "load", "delete", "insert", "done",
              "bump", "catch"}

Execution == [pc : HandlerPc, key : Key, seen : SUBSET Chunk,
              owns : BOOLEAN]   \* it still holds the lock of the active job

Idle == [pc |-> "idle", key |-> 1, seen |-> {}, owns |-> FALSE]

TypeOK ==
  /\ origin \in {"upload", "crawl"}
  /\ row \in Row
  /\ chunks \in SUBSET Chunk
  /\ job \in Job
  /\ handler \in [Handler -> Execution]
  /\ caller \in {"idle", "link", "add", "addFailed", "uploadFailed"}
  /\ remover \in {"idle", "delete", "bump"}
  /\ recon \in {"down", "getJob", "update", "finished"}
  /\ unbumped \in BOOLEAN /\ excused \in BOOLEAN
  /\ overruns \in 0 .. MaxOverruns /\ crashes \in 0 .. MaxCrashes

Present == row.status \in Status
Running == recon # "down"

(* An UPDATE ... WHERE id = documentId, which matches nothing once deleted. *)
StatusSet(s) == IF Present THEN [row EXCEPT !.status = s] ELSE row

Init ==
  /\ origin \in {"upload", "crawl"}
  /\ row = [status |-> "absent", key |-> 1, linked |-> FALSE]
  /\ chunks = {}
  /\ job = NoJob
  /\ handler = [h \in Handler |-> Idle]
  /\ caller = "idle"
  /\ remover = "idle"
  /\ recon = "finished"
  /\ unbumped = FALSE /\ excused = FALSE
  /\ overruns = 0 /\ crashes = 0

history == <<overruns, crashes>>

-----------------------------------------------------------------------------
(* The callers of queueDocument: DocumentsService.upload, and the onPage     *)
(* callback of a crawl, which upserts the row of its page.                   *)

(* The content is in object storage; INSERT the row as pending. *)
Create ==
  /\ Running /\ caller = "idle" /\ row.status = "absent"
  /\ row' = [row EXCEPT !.status = "pending"]
  /\ caller' = "link"
  /\ UNCHANGED <<origin, chunks, job, handler, remover, recon, unbumped, excused,
                 history>>

(* ON CONFLICT DO UPDATE: the row gets a new storageKey and is pending again. *)
Recrawl ==
  /\ Running /\ caller = "idle" /\ origin = "crawl" /\ Present
  /\ row.key < MaxKey
  /\ row' = [row EXCEPT !.status = "pending", !.key = @ + 1]
  /\ caller' = "link"
  /\ UNCHANGED <<origin, chunks, job, handler, remover, recon, unbumped, excused,
                 history>>

(* queueDocument: UPDATE ... SET status = 'pending', queueJobId, ... *)
LinkJob ==
  /\ caller = "link"
  /\ row' = IF Present THEN [row EXCEPT !.status = "pending", !.linked = TRUE]
                       ELSE row
  /\ caller' = "add"
  /\ UNCHANGED <<origin, chunks, job, handler, remover, recon, unbumped, excused,
                 history>>

(* That UPDATE failed; upload's catch still runs. *)
LinkJobFails ==
  /\ CallsMayFail
  /\ caller = "link"
  /\ caller' = IF origin = "upload" THEN "uploadFailed" ELSE "idle"
  /\ UNCHANGED <<origin, row, chunks, job, handler, remover, recon, unbumped,
                 excused, history>>

Added == Enqueued(job)

AddJob ==
  /\ caller = "add"
  /\ job' = Added
  /\ caller' = "idle"
  /\ UNCHANGED <<origin, row, chunks, handler, remover, recon, unbumped, excused,
                 history>>

(* The add failed, before or after Redis carried it out. *)
AddJobFails ==
  /\ CallsMayFail
  /\ caller = "add"
  /\ job' \in {job, Added}
  /\ caller' = "addFailed"
  /\ UNCHANGED <<origin, row, chunks, handler, remover, recon, unbumped, excused,
                 history>>

(* queueDocument's catch, then upload's own; either UPDATE may fail as well.  *)
AddFailed ==
  /\ caller \in {"addFailed", "uploadFailed"}
  /\ row' \in {StatusSet("failed"), row}
  /\ caller' = IF caller = "addFailed" /\ origin = "upload" THEN "uploadFailed"
                                                            ELSE "idle"
  /\ UNCHANGED <<origin, chunks, job, handler, remover, recon, unbumped, excused,
                 history>>

-----------------------------------------------------------------------------
(* The Bull job *)

AttemptUncounted == [job EXCEPT !.state = "waiting"]

AttemptFailed == FailedAttempt(job, Attempts)

Stalled == StalledJob(job, MaxStalls)

TakeJob(h) ==
  /\ Running /\ job.state = "waiting" /\ handler[h].pc = "idle"
  /\ job' = [job EXCEPT !.state = "active"]
  /\ handler' = [handler EXCEPT ![h] = [Idle EXCEPT !.pc = "mark", !.owns = TRUE]]
  /\ UNCHANGED <<origin, row, chunks, caller, remover, recon, unbumped, excused,
                 history>>

(* INGEST_JOB_TIMEOUT_MS passed: the attempt fails, but Bull cannot stop the  *)
(* handler, which runs on.                                                    *)
TimeOut(h) ==
  /\ handler[h].owns /\ overruns < MaxOverruns
  /\ job' = AttemptFailed
  /\ handler' = [handler EXCEPT ![h].owns = FALSE]
  /\ overruns' = overruns + 1
  /\ UNCHANGED <<origin, row, chunks, caller, remover, recon, unbumped, excused,
                 crashes>>

(* The event loop was busy past the lock's expiry: the stalled-job check      *)
(* gives the job to the next worker while this handler lives on.              *)
StallAlive(h) ==
  /\ handler[h].owns /\ overruns < MaxOverruns
  /\ job' = Stalled
  /\ handler' = [handler EXCEPT ![h].owns = FALSE]
  /\ overruns' = overruns + 1
  /\ UNCHANGED <<origin, row, chunks, caller, remover, recon, unbumped, excused,
                 crashes>>

(* The same check for a job whose worker died. *)
StallDead ==
  /\ Running /\ job.state = "active" /\ \A h \in Handler : ~handler[h].owns
  /\ job' = Stalled
  /\ UNCHANGED <<origin, row, chunks, handler, caller, remover, recon, unbumped,
                 excused, history>>

(* The handler returned: removeOnComplete, if the job is still its own. *)
Completed(h) == IF handler[h].owns THEN NoJob ELSE job

-----------------------------------------------------------------------------
(* IngestProcessor.handleIngest *)

(* The promise of the handler rejects. *)
Throw(h) ==
  /\ job' = IF handler[h].owns THEN AttemptFailed ELSE job
  /\ handler' = [handler EXCEPT ![h] = Idle]

MarkProcessing(h) ==
  /\ handler[h].pc = "mark"
  /\ row' = StatusSet("processing")
  /\ handler' = [handler EXCEPT ![h].pc = "select"]
  /\ UNCHANGED <<origin, chunks, job, caller, remover, recon, unbumped, excused,
                 history>>

SelectRow(h) ==
  /\ handler[h].pc = "select" /\ Present
  /\ handler' = [handler EXCEPT ![h].pc = "load", ![h].key = row.key]
  /\ UNCHANGED <<origin, row, chunks, job, caller, remover, recon, unbumped,
                 excused, history>>

(* Document not found, or one of the first two statements failed. *)
RejectEarly(h) ==
  /\ handler[h].pc \in {"mark", "select"}
  /\ Throw(h)
  /\ UNCHANGED <<origin, row, chunks, caller, remover, recon, unbumped, excused,
                 history>>

(* The object was fetched, chunked and embedded; syncChunks selects the rows. *)
SelectChunks(h) ==
  /\ handler[h].pc = "load"
  /\ handler' = [handler EXCEPT ![h].pc = "delete", ![h].seen = chunks]
  /\ UNCHANGED <<origin, row, chunks, job, caller, remover, recon, unbumped,
                 excused, history>>

DeleteChunks(h) ==
  /\ handler[h].pc = "delete"
  /\ LET gone == {c \in handler[h].seen : c.hash \notin Content[handler[h].key]}
     IN /\ chunks' = chunks \ gone
        /\ unbumped' = (unbumped \/ chunks' # chunks)
  /\ handler' = [handler EXCEPT ![h].pc = "insert"]
  /\ UNCHANGED <<origin, row, job, caller, remover, recon, excused, history>>

SeenHashes(h) == {c.hash : c \in handler[h].seen}

Unused(i) == /\ \A c \in chunks : c.id # i
             /\ \A h \in Handler : \A c \in handler[h].seen : c.id # i

InsertUnparented(h, new) ==
  /\ handler[h].pc = "insert"
  /\ \E i \in Id :
       /\ Unused(i) /\ \A j \in Id : Unused(j) => i <= j
       /\ chunks' = chunks \cup {[hash |-> x, id |-> i] : x \in new}
  /\ unbumped' = (unbumped \/ new # {})
  /\ handler' = [handler EXCEPT ![h].pc = "done", ![h].seen = {}]
  /\ UNCHANGED <<origin, row, job, caller, remover, recon, excused, history>>

(* Insert(h, new): one INSERT of rows for the hashes in new, under an id no   *)
(* handler knows; the foreign key refuses them once the document is deleted.  *)
Insert(h, new) ==
  /\ handler[h].pc = "insert"
  /\ Present \/ new = {}
  /\ \E i \in Id :
       /\ Unused(i) /\ \A j \in Id : Unused(j) => i <= j
       /\ chunks' = chunks \cup {[hash |-> x, id |-> i] : x \in new}
  /\ unbumped' = (unbumped \/ new # {})
  /\ handler' = [handler EXCEPT ![h].pc = "done", ![h].seen = {}]
  /\ UNCHANGED <<origin, row, job, caller, remover, recon, excused, history>>

InsertChunks(h) == Insert(h, Content[handler[h].key] \ SeenHashes(h))

MarkDoneWithoutBump(h) ==
  /\ handler[h].pc = "done"
  /\ row' = StatusSet("done")
  /\ job' = Completed(h)
  /\ handler' = [handler EXCEPT ![h] = Idle]
  /\ UNCHANGED <<origin, chunks, caller, remover, recon, unbumped, excused, history>>

MarkDone(h) ==
  /\ handler[h].pc = "done"
  /\ row' = StatusSet("done")
  /\ handler' = [handler EXCEPT ![h].pc = "bump"]
  /\ UNCHANGED <<origin, chunks, job, caller, remover, recon, unbumped, excused,
                 history>>

(* bumpVersion swallows its error, so the handler returns either way. *)
Bump(h) ==
  /\ handler[h].pc = "bump"
  /\ \/ unbumped' = FALSE /\ excused' = FALSE
     \/ unbumped' = unbumped /\ excused' = TRUE
  /\ job' = Completed(h)
  /\ handler' = [handler EXCEPT ![h] = Idle]
  /\ UNCHANGED <<origin, row, chunks, caller, remover, recon, history>>

FailIgnored(h) ==
  /\ handler[h].pc \in {"load", "delete", "insert"}
  /\ handler' = [handler EXCEPT ![h].pc = "done", ![h].seen = {}]
  /\ UNCHANGED <<origin, row, chunks, job, caller, remover, recon, unbumped,
                 excused, history>>

(* An error inside the try block: a missing object, the loader, the           *)
(* embedding call, one of the statements, the foreign key.                    *)
Fail(h) ==
  /\ handler[h].pc \in {"load", "delete", "insert", "done"}
  /\ handler' = [handler EXCEPT ![h].pc = "catch", ![h].seen = {}]
  /\ excused' = (excused \/ handler[h].pc \in {"insert", "done"})
  /\ UNCHANGED <<origin, row, chunks, job, caller, remover, recon, unbumped,
                 history>>

(* The catch block records the failure and swallows it: the job completes. *)
MarkFailed(h) ==
  /\ handler[h].pc = "catch"
  /\ row' = StatusSet("failed")
  /\ job' = Completed(h)
  /\ handler' = [handler EXCEPT ![h] = Idle]
  /\ UNCHANGED <<origin, chunks, caller, remover, recon, unbumped, excused, history>>

(* The UPDATE of the catch block fails too. *)
MarkFailedFails(h) ==
  /\ handler[h].pc = "catch"
  /\ Throw(h)
  /\ UNCHANGED <<origin, row, chunks, caller, remover, recon, unbumped, excused,
                 history>>

-----------------------------------------------------------------------------
(* DocumentsService.remove and removeMany: SELECT, delete the object, DELETE, *)
(* bump.                                                                      *)

SelectToRemove ==
  /\ Running /\ remover = "idle" /\ Present
  /\ remover' = "delete"
  /\ UNCHANGED <<origin, row, chunks, job, handler, caller, recon, unbumped,
                 excused, history>>

(* The row goes, and its chunks by ON DELETE CASCADE. *)
DeleteRow ==
  /\ remover = "delete"
  /\ row' = [row EXCEPT !.status = "deleted"]
  /\ chunks' = {}
  /\ unbumped' = (unbumped \/ chunks # {})
  /\ remover' = "bump"
  /\ UNCHANGED <<origin, job, handler, caller, recon, excused, history>>

(* The DELETE statement failed and the request with it. *)
DeleteRowFails ==
  /\ remover = "delete"
  /\ remover' = "idle"
  /\ UNCHANGED <<origin, row, chunks, job, handler, caller, recon, unbumped,
                 excused, history>>

BumpRemoved ==
  /\ remover = "bump"
  /\ \/ unbumped' = FALSE /\ excused' = FALSE
     \/ unbumped' = unbumped /\ excused' = TRUE
  /\ remover' = "idle"
  /\ UNCHANGED <<origin, row, chunks, job, handler, caller, recon, history>>

-----------------------------------------------------------------------------
(* The API process dies, and Redis may lose its data with it. *)
Crash ==
  /\ Running /\ crashes < MaxCrashes
  /\ handler' = [h \in Handler |-> Idle]
  /\ caller' = "idle" /\ remover' = "idle" /\ recon' = "down"
  /\ job' \in {job, IF job.state = "none" THEN job ELSE [NoJob EXCEPT !.state = "lost"]}
  /\ excused' = (excused \/ unbumped)
  /\ crashes' = crashes + 1
  /\ UNCHANGED <<origin, row, chunks, unbumped, overruns>>

(* onModuleInit: reconcileDocuments selects the open rows and passes those    *)
(* whose reference time is older than the grace period. How long the process  *)
(* was down is not known, so an open row may be stale or not.                 *)
Boot ==
  /\ recon = "down"
  /\ \/ recon' = "finished"
     \/ row.status \in Open /\ recon' = IF row.linked THEN "getJob" ELSE "update"
  /\ UNCHANGED <<origin, row, chunks, job, handler, caller, remover, unbumped,
                 excused, history>>

(* getJob, whose error counts as a missing job. *)
ReconcileGetJob ==
  /\ recon = "getJob"
  /\ \/ Found(job) /\ recon' = "finished"
     \/ recon' = "update"
  /\ UNCHANGED <<origin, row, chunks, job, handler, caller, remover, unbumped,
                 excused, history>>

ReconcileFail ==
  /\ recon = "update"
  /\ row' \in {StatusSet("failed"), row}   \* a failed UPDATE ends the pass
  /\ recon' = "finished"
  /\ UNCHANGED <<origin, chunks, job, handler, caller, remover, unbumped, excused,
                 history>>

-----------------------------------------------------------------------------
Call ==
  \/ Create \/ Recrawl
  \/ LinkJob \/ LinkJobFails
  \/ AddJob \/ AddJobFails \/ AddFailed

Handle(h) ==
  \/ MarkProcessing(h) \/ SelectRow(h) \/ RejectEarly(h)
  \/ SelectChunks(h) \/ DeleteChunks(h) \/ InsertChunks(h)
  \/ MarkDone(h) \/ Bump(h)
  \/ Fail(h) \/ MarkFailed(h) \/ MarkFailedFails(h)

Remove == SelectToRemove \/ DeleteRow \/ DeleteRowFails \/ BumpRemoved

Reconcile == Boot \/ ReconcileGetJob \/ ReconcileFail

Next ==
  \/ Call \/ Remove \/ Reconcile \/ Crash \/ StallDead
  \/ \E h \in Handler : TakeJob(h) \/ Handle(h) \/ TimeOut(h) \/ StallAlive(h)

Spec == Init /\ [][Next]_vars

(* The process is restarted when it dies, its worker takes waiting jobs and   *)
(* checks for stalled ones, and every awaited call of a handler is taken to   *)
(* return or fail; one that hangs costs its job an attempt at most (TimeOut). *)
FairSpec ==
  /\ Spec
  /\ WF_vars(Reconcile) /\ WF_vars(StallDead)
  /\ WF_vars(\E h \in Handler : TakeJob(h))
  /\ \A h \in Handler : WF_vars(Handle(h))

-----------------------------------------------------------------------------
(* Properties *)

Hashes == {c.hash : c \in chunks}

(* An uploaded document that says "done" is retrievable as exactly the chunks *)
(* of its file, whatever attempts, timeouts, stalls and crashes it took.      *)
UploadDoneIsIndexed ==
  origin = "upload" /\ row.status = "done" => Hashes = Content[row.key]

(* No chunk of a deleted document comes back, although a handler may still be *)
(* running for it when DocumentsService.remove deletes the row.               *)
NoChunksOfDeleted == ~Present => chunks = {}

(* After a chunk change somebody is still going to bump the cache version,    *)
(* unless a bump failed, or an ingest failed or died part-way.                *)
ChangesAnnounced ==
  unbumped => \/ excused \/ remover = "bump"
              \/ \E h \in Handler : handler[h].pc \in {"insert", "done", "bump"}

(* A document that waits in the queue leaves the open statuses, unless its    *)
(* job uses up its attempts or Redis loses it; only a restart helps those.    *)
QueuedSettles ==
  (job.state = "waiting" /\ row.status \in Open)
    ~> (row.status \notin Open \/ job.state \in {"failed", "lost"})
=============================================================================
