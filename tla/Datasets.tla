------------------------------ MODULE Datasets ------------------------------
(***************************************************************************)
(* One dataset: its upload (DatasetsService), its profiling job            *)
(* (DatasetProfilingService, DatasetProfilingProcessor), which overwrites  *)
(* an uploaded XLSX with the CSV that queries read, its removal, and the   *)
(* structured questions answered from it (StructuredQueryService,          *)
(* DuckDbQueryService, text-to-sql), alone, compared with other datasets,  *)
(* or from the tickets.                                                    *)
(*                                                                         *)
(* Rows and columns are data: a profile is there or not, a statement runs  *)
(* or not. Files downloaded to the temporary directory are followed until  *)
(* they are unlinked.                                                      *)
(***************************************************************************)
EXTENDS BullJob, FiniteSets

CONSTANTS
  Handler,      \* executions of handleProfiling that may be alive at one time
  Query,        \* structured questions
  Mine, Tickets,\* the file of this dataset, and that of exported tickets
  Others,       \* files of other datasets, always ready
  CallsMayFail, \* whether statements, storage, the queue and models may fail
  MaxStalls,    \* Bull's maxStalledCount: 1
  MaxOverruns,  \* bound: times a job's lock ends while its handler lives on
  MaxCrashes    \* bound: times the API process dies

ASSUME DatasetBounds ==
  /\ MaxStalls \in Nat /\ MaxOverruns \in Nat /\ MaxCrashes \in Nat
  /\ CallsMayFail \in BOOLEAN
  /\ {Mine, Tickets} \cap Others = {} /\ Mine # Tickets

Attempts == 3

VARIABLES
  row,      \* the datasets row
  object,   \* what is stored under its storageKey
  job,      \* the Bull job dataset-profiling:<datasetId>
  upload, remover, handler, query,
  recon,    \* reconcileDatasets of the last boot; "down" when no process runs
  spilled,  \* history: a temporary file was left where no finally block covers it
  removed,  \* history: a removal got as far as the object
  stuck,    \* history: a handler that had lost its job could not mark the row
  overruns, crashes   \* history: what is bounded

lifecycle == <<row, object, job, upload, remover, handler, recon, removed, stuck>>
bounds == <<overruns, crashes>>
vars == <<lifecycle, query, spilled, bounds>>

Open == {"pending", "processing"}

Dataset == [status : Open \cup {"absent", "done", "failed"},
            name : {"csv", "xlsx"},
            linked : BOOLEAN,      \* queueJobId IS NOT NULL
            profiled : BOOLEAN]    \* columnsSchema, descriptionEmbedding

Execution == [pc : {"idle", "start", "select", "download", "convert", "profile", "catch"},
              owns : BOOLEAN]

Idle == [pc |-> "idle", owns |-> FALSE]

File == {Mine, Tickets} \cup Others

(* coming: downloads under way; files: on disk; statements: generated so far  *)
Question == [pc : {"idle", "select", "download", "sql", "run", "cleanup", "ended"},
             coming : SUBSET File, files : SUBSET File, statements : 0 .. 2]

NoQuestion == [pc |-> "idle", coming |-> {}, files |-> {}, statements |-> 0]

TypeOK ==
  /\ row \in Dataset /\ object \in {"none", "csv", "xlsx"}
  /\ job \in JobRecord(Attempts, MaxStalls)
  /\ upload \in {"new", "insert", "link", "add", "addFailed", "failed", "over"}
  /\ remover \in {"idle", "object", "row"}
  /\ handler \in [Handler -> Execution] /\ query \in [Query -> Question]
  /\ recon \in {"down", "getJob", "update", "finished"}
  /\ {spilled, removed, stuck} \subseteq BOOLEAN
  /\ overruns \in 0 .. MaxOverruns /\ crashes \in 0 .. MaxCrashes

Absent == [status |-> "absent", name |-> "csv", linked |-> FALSE, profiled |-> FALSE]
Present == row.status # "absent"
Running == recon # "down"
Serving == recon = "finished"

Init ==
  /\ row = Absent /\ object = "none" /\ job = NoJob
  /\ upload = "new" /\ remover = "idle"
  /\ handler = [h \in Handler |-> Idle] /\ query = [q \in Query |-> NoQuestion]
  /\ recon = "finished" /\ spilled = FALSE /\ removed = FALSE /\ stuck = FALSE
  /\ overruns = 0 /\ crashes = 0

(* UPDATE ... WHERE id, which finds no row once the dataset is removed. *)
Set(r) == IF Present THEN r ELSE row

-----------------------------------------------------------------------------
(* DatasetsService.upload and queueDataset *)

Save(name) ==
  /\ Serving /\ upload = "new"
  /\ object' = name
  /\ upload' = "insert"
  /\ UNCHANGED <<row, job, remover, handler, recon, removed, stuck, query, spilled, bounds>>

InsertDataset ==
  /\ upload = "insert"
  /\ row' = [Absent EXCEPT !.status = "pending", !.name = object]
  /\ upload' = "link"
  /\ UNCHANGED <<object, job, remover, handler, recon, removed, stuck, query, spilled, bounds>>

LinkJob ==
  /\ upload = "link"
  /\ row' = Set([row EXCEPT !.status = "pending", !.linked = TRUE])
  /\ upload' = "add"
  /\ UNCHANGED <<object, job, remover, handler, recon, removed, stuck, query, spilled, bounds>>

AddJob ==
  /\ upload = "add"
  /\ job' = Enqueued(job)
  /\ upload' = "over"
  /\ UNCHANGED <<row, object, remover, handler, recon, removed, stuck, query, spilled, bounds>>

(* The add failed, before or after Redis carried it out. *)
AddJobFails ==
  /\ CallsMayFail /\ upload = "add"
  /\ job' \in {job, Enqueued(job)}
  /\ upload' = "addFailed"
  /\ UNCHANGED <<row, object, remover, handler, recon, removed, stuck, query, spilled, bounds>>

(* queueDataset and upload both set the row failed. *)
AddFailed ==
  /\ upload \in {"addFailed", "failed"}
  /\ row' = Set([row EXCEPT !.status = "failed"])
  /\ upload' = IF upload = "addFailed" THEN "failed" ELSE "over"
  /\ UNCHANGED <<object, job, remover, handler, recon, removed, stuck, query, spilled, bounds>>

(* A statement fails: an object without a row is left, or a row without a job. *)
UploadFails ==
  /\ CallsMayFail /\ upload \in {"insert", "link", "addFailed", "failed"}
  /\ upload' = IF upload \in {"link", "addFailed"} THEN "failed" ELSE "over"
  /\ UNCHANGED <<row, object, job, remover, handler, recon, removed, stuck, query, spilled, bounds>>

(* DatasetsService.remove; a failed delete of the object is only logged. *)
SelectToRemove ==
  /\ Serving /\ Present /\ remover = "idle"
  /\ remover' = "object"
  /\ UNCHANGED <<row, object, job, upload, handler, recon, removed, stuck, query, spilled, bounds>>

DeleteObject ==
  /\ remover = "object"
  /\ object' \in {"none"} \cup IF CallsMayFail THEN {object} ELSE {}
  /\ remover' = "row" /\ removed' = TRUE
  /\ UNCHANGED <<row, job, upload, handler, recon, stuck, query, spilled, bounds>>

DeleteRow ==
  /\ remover = "row"
  /\ \/ row' = Absent
     \/ CallsMayFail /\ row' = row
  /\ remover' = "idle"
  /\ UNCHANGED <<object, job, upload, handler, recon, removed, stuck, query, spilled, bounds>>

-----------------------------------------------------------------------------
(* The Bull job *)

AttemptUncounted == [job EXCEPT !.state = "waiting"]

AttemptFailed == FailedAttempt(job, Attempts)

TakeJob(h) ==
  /\ Running /\ job.state = "waiting" /\ handler[h].pc = "idle"
  /\ job' = [job EXCEPT !.state = "active"]
  /\ handler' = [handler EXCEPT ![h] = [pc |-> "start", owns |-> TRUE]]
  /\ UNCHANGED <<row, object, upload, remover, recon, removed, stuck, query, spilled, bounds>>

(* PROFILING_JOB_TIMEOUT_MS passed, or the lock expired: the handler runs on. *)
LoseJob(h) ==
  /\ handler[h].owns /\ overruns < MaxOverruns
  /\ job' \in {AttemptFailed, StalledJob(job, MaxStalls)}
  /\ handler' = [handler EXCEPT ![h].owns = FALSE]
  /\ overruns' = overruns + 1
  /\ UNCHANGED <<row, object, upload, remover, recon, removed, stuck, query, spilled, crashes>>

StallDead ==
  /\ Running /\ job.state = "active" /\ \A h \in Handler : ~handler[h].owns
  /\ job' = StalledJob(job, MaxStalls)
  /\ UNCHANGED <<row, object, upload, remover, handler, recon, removed, stuck, query, spilled, bounds>>

(* The handler returns, or rejects; the finally block unlinks its file. *)
Return(h) ==
  /\ job' = IF handler[h].owns THEN NoJob ELSE job
  /\ handler' = [handler EXCEPT ![h] = Idle]

Throw(h) ==
  /\ job' = IF handler[h].owns THEN AttemptFailed ELSE job
  /\ handler' = [handler EXCEPT ![h] = Idle]

-----------------------------------------------------------------------------
(* DatasetProfilingProcessor.handleProfiling *)

Start(h) ==
  /\ handler[h].pc = "start"
  /\ row' = Set([row EXCEPT !.status = "processing"])
  /\ handler' = [handler EXCEPT ![h].pc = "select"]
  /\ UNCHANGED <<object, job, upload, remover, recon, removed, stuck, query, spilled, bounds>>

SelectDataset(h) ==
  /\ handler[h].pc = "select" /\ Present
  /\ handler' = [handler EXCEPT ![h].pc = "download"]
  /\ UNCHANGED <<row, object, job, upload, remover, recon, removed, stuck, query, spilled, bounds>>

(* Outside the try block: a statement failed, or the row is gone. *)
RejectEarly(h) ==
  /\ \/ CallsMayFail /\ handler[h].pc \in {"start", "select"}
     \/ handler[h].pc = "select" /\ ~Present
  /\ Throw(h)
  /\ UNCHANGED <<row, object, upload, remover, recon, removed, stuck, query, spilled, bounds>>

(* getToTempFile *)
Download(h) ==
  /\ handler[h].pc = "download" /\ object # "none"
  /\ handler' = [handler EXCEPT ![h].pc = IF row.name = "xlsx" THEN "convert" ELSE "profile"]
  /\ UNCHANGED <<row, object, job, upload, remover, recon, removed, stuck, query, spilled, bounds>>

ConvertInMemory(h) ==
  /\ handler[h].pc = "convert"
  /\ handler' = [handler EXCEPT ![h].pc = "profile"]
  /\ UNCHANGED <<row, object, job, upload, remover, recon, removed, stuck, query, spilled, bounds>>

(* The first sheet as CSV overwrites the object, removed or not. *)
ConvertXlsx(h) ==
  /\ handler[h].pc = "convert"
  /\ object' = "csv"
  /\ handler' = [handler EXCEPT ![h].pc = "profile"]
  /\ UNCHANGED <<row, job, upload, remover, recon, removed, stuck, query, spilled, bounds>>

MarkDone(h) ==
  /\ handler[h].pc = "profile"
  /\ row' = Set([row EXCEPT !.status = "done", !.profiled = TRUE])
  /\ Return(h)
  /\ UNCHANGED <<object, upload, remover, recon, removed, stuck, query, spilled, bounds>>

(* In the try block: no object, a broken file, or a call that failed. *)
ProfilingFails(h) ==
  /\ \/ handler[h].pc = "download" /\ (object = "none" \/ CallsMayFail)
     \/ handler[h].pc \in {"convert", "profile"}
  /\ handler' = [handler EXCEPT ![h].pc = "catch"]
  /\ UNCHANGED <<row, object, job, upload, remover, recon, removed, stuck, query, spilled, bounds>>

(* The error is not thrown again: the job completes. *)
MarkFailed(h) ==
  /\ handler[h].pc = "catch"
  /\ row' = Set([row EXCEPT !.status = "failed"])
  /\ Return(h)
  /\ UNCHANGED <<object, upload, remover, recon, removed, stuck, query, spilled, bounds>>

MarkFailedFails(h) ==
  /\ CallsMayFail /\ handler[h].pc = "catch"
  /\ Throw(h)
  /\ stuck' = (stuck \/ ~handler[h].owns)
  /\ UNCHANGED <<row, object, upload, remover, recon, removed, query, spilled, bounds>>

-----------------------------------------------------------------------------
(* StructuredQueryService.answer *)

End(q) == query' = [query EXCEPT ![q].pc = "ended"]

(* Called by ChatService.answer once hasReadyDatasets or a ticket question    *)
(* led there.                                                                 *)
Ask(q) ==
  /\ Serving /\ query[q].pc = "idle"
  /\ query' = [query EXCEPT ![q].pc = "select"]
  /\ UNCHANGED <<lifecycle, spilled, bounds>>

(* answerFromTickets: no ticket is done, or their rows are written to a file. *)
ExportTickets(q) ==
  /\ query[q].pc = "select"
  /\ \/ End(q)
     \/ query' = [query EXCEPT ![q].pc = "sql", ![q].files = {Tickets}]
  /\ UNCHANGED <<lifecycle, spilled, bounds>>

Ready == Others \cup IF row.status = "done" /\ row.profiled THEN {Mine} ELSE {}

(* No match or several (which are asked about), one, or those of a comparison. *)
SelectCandidates(q) ==
  /\ query[q].pc = "select"
  /\ \/ End(q)
     \/ \E tables \in SUBSET Ready \ {{}} :
          query' = [query EXCEPT ![q].pc = "download", ![q].coming = tables]
  /\ UNCHANGED <<lifecycle, spilled, bounds>>

(* The downloads of a comparison run side by side, and on when one fails. *)
Arrive(q, f) ==
  /\ f \in query[q].coming /\ (f = Mine => object # "none")
  /\ query' = [query EXCEPT ![q].coming = @ \ {f}, ![q].files = @ \cup {f},
                            ![q].pc = IF @ = "download" /\ query[q].coming = {f} THEN "sql" ELSE @]
  /\ spilled' = (spilled \/ query[q].pc # "download")
  /\ UNCHANGED <<lifecycle, bounds>>

(* answer rejects. What has been written, of this file or of others, stays:   *)
(* the try block comes after the downloads.                                   *)
DownloadFails(q, f) ==
  /\ f \in query[q].coming /\ (CallsMayFail \/ (f = Mine /\ object = "none"))
  /\ \E partial \in {{}} \cup IF CallsMayFail THEN {{f}} ELSE {} :
       /\ query' = [query EXCEPT ![q].coming = @ \ {f}, ![q].files = @ \cup partial, ![q].pc = "ended"]
       /\ spilled' = (spilled \/ query[q].files \cup partial # {})
  /\ UNCHANGED <<lifecycle, bounds>>

(* generateSql, a second time with the error of the first statement. *)
GenerateSql(q) ==
  /\ query[q].pc = "sql"
  /\ query' = [query EXCEPT ![q].pc = "run", ![q].statements = @ + 1]
  /\ UNCHANGED <<lifecycle, spilled, bounds>>

GenerateFailsUncaught(q) ==
  /\ query[q].pc = "sql"
  /\ \E next \in {"cleanup", "ended"} : query' = [query EXCEPT ![q].pc = next, ![q].statements = 0]
  /\ UNCHANGED <<lifecycle, spilled, bounds>>

(* Unanswerable, or the model failed. *)
GenerateFails(q) ==
  /\ query[q].pc = "sql"
  /\ query' = [query EXCEPT ![q].pc = "cleanup", ![q].statements = 0]
  /\ UNCHANGED <<lifecycle, spilled, bounds>>

(* More than one statement, or none that only reads: not repaired. *)
RejectSql(q) ==
  /\ query[q].pc = "run"
  /\ query' = [query EXCEPT ![q].pc = "cleanup", ![q].statements = 0]
  /\ UNCHANGED <<lifecycle, spilled, bounds>>

(* Every file is loaded into a table, and the statement gives rows. *)
RunQuery(q) ==
  /\ query[q].pc = "run"
  /\ query' = [query EXCEPT ![q].pc = "cleanup", ![q].statements = 0]
  /\ UNCHANGED <<lifecycle, spilled, bounds>>

(* DuckDB refused the statement, or it ran into QUERY_TIMEOUT_MS. *)
RunQueryFails(q) ==
  /\ query[q].pc = "run"
  /\ query' = [query EXCEPT ![q] =
       IF @.statements = 1 THEN [@ EXCEPT !.pc = "sql"]
                           ELSE [@ EXCEPT !.pc = "cleanup", !.statements = 0]]
  /\ UNCHANGED <<lifecycle, spilled, bounds>>

(* finally: unlink, whose own failure is ignored. *)
Cleanup(q) ==
  /\ query[q].pc = "cleanup"
  /\ \/ query' = [query EXCEPT ![q].pc = "ended", ![q].files = {}] /\ spilled' = spilled
     \/ CallsMayFail /\ End(q) /\ spilled' = TRUE
  /\ UNCHANGED <<lifecycle, bounds>>

Answer(q) ==
  \/ ExportTickets(q) \/ SelectCandidates(q)
  \/ \E f \in File : Arrive(q, f) \/ DownloadFails(q, f)
  \/ GenerateSql(q) \/ GenerateFails(q) \/ RejectSql(q) \/ RunQuery(q) \/ RunQueryFails(q) \/ Cleanup(q)

-----------------------------------------------------------------------------
(* The process dies; its temporary files stay. *)
Crash ==
  /\ Running /\ crashes < MaxCrashes
  /\ upload' = (IF upload = "new" THEN "new" ELSE "over") /\ remover' = "idle"
  /\ handler' = [h \in Handler |-> Idle]
  /\ query' = [q \in Query |-> [query[q] EXCEPT !.pc = "ended", !.coming = {}, !.statements = 0]]
  /\ job' \in {job, IF job.state = "none" THEN job ELSE [NoJob EXCEPT !.state = "lost"]}
  /\ recon' = "down"
  /\ spilled' = (spilled \/ \E q \in Query : query[q].files # {})
  /\ crashes' = crashes + 1
  /\ UNCHANGED <<row, object, removed, stuck, overruns>>

(* onModuleInit and reconcileDatasets: an open row may be past its grace      *)
(* period or not.                                                             *)
Boot ==
  /\ recon = "down"
  /\ \/ recon' = "finished"
     \/ row.status \in Open /\ recon' = IF row.linked THEN "getJob" ELSE "update"
  /\ UNCHANGED <<row, object, job, upload, remover, handler, removed, stuck, query, spilled, bounds>>

ReconcileGetJob ==
  /\ recon = "getJob"
  /\ recon' \in {IF Found(job) THEN "finished" ELSE "update"}
                 \cup IF CallsMayFail THEN {"update"} ELSE {}
  /\ UNCHANGED <<row, object, job, upload, remover, handler, removed, stuck, query, spilled, bounds>>

ReconcileFail ==
  /\ recon = "update"
  /\ \/ row' = Set([row EXCEPT !.status = "failed"])
     \/ CallsMayFail /\ row' = row
  /\ recon' = "finished"
  /\ UNCHANGED <<object, job, upload, remover, handler, removed, stuck, query, spilled, bounds>>

Upload ==
  \/ \E name \in {"csv", "xlsx"} : Save(name)
  \/ InsertDataset \/ LinkJob \/ AddJob \/ AddJobFails \/ AddFailed \/ UploadFails

Remove == SelectToRemove \/ DeleteObject \/ DeleteRow

Handle(h) ==
  \/ Start(h) \/ SelectDataset(h) \/ RejectEarly(h) \/ Download(h) \/ ConvertXlsx(h)
  \/ MarkDone(h) \/ ProfilingFails(h) \/ MarkFailed(h) \/ MarkFailedFails(h)

Reconcile == Boot \/ ReconcileGetJob \/ ReconcileFail

Next ==
  \/ Upload \/ Remove \/ StallDead \/ Crash \/ Reconcile
  \/ \E h \in Handler : TakeJob(h) \/ LoseJob(h) \/ Handle(h)
  \/ \E q \in Query : Ask(q) \/ Answer(q)

(* As for documents: the process is restarted, its worker takes waiting jobs  *)
(* and checks for stalled ones, and awaited calls return or fail.             *)
Fairness ==
  /\ WF_vars(Reconcile) /\ WF_vars(StallDead)
  /\ WF_vars(\E h \in Handler : TakeJob(h))
  /\ \A h \in Handler : WF_vars(Handle(h))

Spec == Init /\ [][Next]_vars /\ Fairness

-----------------------------------------------------------------------------
(* Properties *)

(* A dataset that says "done" has a profile, and its object is the CSV that   *)
(* DuckDB reads, whichever of several handlers said so; only a removal takes  *)
(* the object away.                                                           *)
DoneIsQueryable ==
  row.status = "done" => row.profiled /\ object \in {"csv"} \cup IF removed THEN {"none"} ELSE {}

(* An answer leaves no file behind, whether it was given, failed or repaired, *)
(* unless a download or an unlink failed or the process died.                 *)
TempFilesRemoved ==
  \A q \in Query : query[q].pc = "ended" /\ query[q].files # {} => spilled

(* A queued dataset is profiled or failed, however often its job is retried   *)
(* or stalls, unless Redis loses the job, it uses up its attempts, or a       *)
(* handler that had lost it could not mark the row.                           *)
DatasetSettles ==
  (row.status \in Open /\ job.state = "waiting")
    ~> (row.status \notin Open \/ job.state \in {"failed", "lost"} \/ stuck)
=============================================================================
