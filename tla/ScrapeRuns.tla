----------------------------- MODULE ScrapeRuns -----------------------------
(***************************************************************************)
(* The crawl runs of one seed URL of a knowledge base: the requests that   *)
(* start them (ScrapeService.startScrape), their Bull jobs and "failed"    *)
(* events, ScrapeProcessor.handleScrape, and boot reconciliation.          *)
(*                                                                         *)
(* Runs are numbered in the order of their INSERTs. Times are not kept:    *)
(* an open row may be past its grace period or not whenever that is asked. *)
(* The crawl itself, its pages and the document quota are in SiteCrawl.    *)
(***************************************************************************)
EXTENDS BullJob, FiniteSets

CONSTANTS
  Starter,      \* POST requests for this seed URL
  Handler,      \* executions of handleScrape that may be alive at one time
  MaxRuns,      \* bound: runs inserted
  CallsMayFail, \* whether statements and the queue may fail
  MaxStalls,    \* Bull's maxStalledCount: 1
  MaxOverruns,  \* bound: times a job's lock ends while its handler lives on
  MaxCrashes    \* bound: times the API process dies

ASSUME ScrapeBounds ==
  /\ MaxRuns \in Nat /\ MaxStalls \in Nat
  /\ MaxOverruns \in Nat /\ MaxCrashes \in Nat
  /\ CallsMayFail \in BOOLEAN

Run == 1 .. MaxRuns

Attempts == 1          \* job options

VARIABLES
  runs,      \* the scrape_runs rows
  jobs,      \* the Bull jobs scrape:<runId>
  starter,   \* requests in startScrape
  handler,   \* executions of handleScrape
  events,    \* runs whose "failed" event has called failRun, not yet carried out
  recon,     \* reconcileRuns of the last boot; "down" when no process runs
  raced,     \* history: two requests were between findInFlightRun and INSERT
  revived,   \* history: a run that had ended was set running
  abandoned, \* history: runs left open by a dead process or a failed UPDATE
  overruns, crashes   \* history: what is bounded

vars == <<runs, jobs, starter, handler, events, recon, raced, revived, abandoned,
          overruns, crashes>>

Open == {"queued", "running"}

RunRow == [status : Open \cup {"absent", "completed", "failed"},
           linked : BOOLEAN]          \* queueJobId IS NOT NULL

Absent == [status |-> "absent", linked |-> FALSE]

(* run: the run found, later the run inserted *)
Request == [pc : {"idle", "getJob", "failOld", "insert", "link", "add", "addFailed"},
            run : Run \cup {0}]

NoRequest == [pc |-> "idle", run |-> 0]

Execution == [pc : {"idle", "start", "crawl", "complete", "catch"},
              run : Run \cup {0}, owns : BOOLEAN]

Idle == [pc |-> "idle", run |-> 0, owns |-> FALSE]

(* A row as the SELECT of reconcileRuns returned it *)
Selected == [run : Run, status : Open, linked : BOOLEAN]

Reconciliation == [pc : {"down", "rows", "getJob", "update", "finished"},
                   todo : SUBSET Selected, run : Run \cup {0}]

Finished == [pc |-> "finished", todo |-> {}, run |-> 0]

TypeOK ==
  /\ runs \in [Run -> RunRow]
  /\ jobs \in [Run -> JobRecord(Attempts, MaxStalls)]
  /\ starter \in [Starter -> Request]
  /\ handler \in [Handler -> Execution]
  /\ events \subseteq Run /\ abandoned \subseteq Run
  /\ recon \in Reconciliation
  /\ {raced, revived} \subseteq BOOLEAN
  /\ overruns \in 0 .. MaxOverruns /\ crashes \in 0 .. MaxCrashes

Running == recon.pc # "down"
Serving == recon.pc = "finished"     \* app.listen comes after onModuleInit

OpenRuns == {r \in Run : runs[r].status \in Open}
Absents  == {r \in Run : runs[r].status = "absent"}
Ended(r) == runs[r].status \in {"completed", "failed"}

Init ==
  /\ runs = [r \in Run |-> Absent]
  /\ jobs = [r \in Run |-> NoJob]
  /\ starter = [s \in Starter |-> NoRequest]
  /\ handler = [h \in Handler |-> Idle]
  /\ events = {}
  /\ recon = Finished
  /\ raced = FALSE /\ revived = FALSE /\ abandoned = {}
  /\ overruns = 0 /\ crashes = 0

queueVars == <<jobs, events>>
flags     == <<raced, revived, abandoned>>
bounds    == <<overruns, crashes>>

SetStatus(r, status) == [runs EXCEPT ![r].status = status]

(* ScrapeService.failRun: an UPDATE guarded by the open statuses. *)
FailRun(r) == IF runs[r].status \in Open THEN SetStatus(r, "failed") ELSE runs

-----------------------------------------------------------------------------
(* ScrapeService.startScrape *)

Goto(s, pc) == [starter EXCEPT ![s].pc = pc]
GotoWith(s, pc, r) == [starter EXCEPT ![s] = [pc |-> pc, run |-> r]]
Answer(s) == [starter EXCEPT ![s] = NoRequest]

InFlightQueuedOnly == {r \in Run : runs[r].status = "queued"}

InFlight == OpenRuns

Inserting(s) == starter[s].pc \in {"getJob", "failOld", "insert"}

(* findInFlightRun. An unlinked run has no job to ask for: it is reused, or    *)
(* failed when it is stale.                                                   *)
FindRun(s) ==
  /\ Serving /\ starter[s].pc = "idle"
  /\ \/ InFlight = {} /\ starter' = Goto(s, "insert")
     \/ \E old \in InFlight :
          /\ \A r \in InFlight : r <= old
          /\ \/ runs[old].linked /\ starter' = GotoWith(s, "getJob", old)
             \/ ~runs[old].linked /\ starter' = Answer(s)
             \/ ~runs[old].linked /\ starter' = GotoWith(s, "failOld", old)
  /\ raced' = (raced \/ \E t \in Starter \ {s} : Inserting(t))
  /\ UNCHANGED <<runs, queueVars, handler, recon, revived, abandoned, bounds>>

(* A job in whatever state, or a run that is not stale: the run is reused. A   *)
(* failed getJob counts as no job.                                            *)
GetJob(s) ==
  /\ starter[s].pc = "getJob"
  /\ \/ starter' = Answer(s)
     \/ /\ ~Found(jobs[starter[s].run]) \/ CallsMayFail
        /\ starter' = Goto(s, "failOld")
  /\ UNCHANGED <<runs, queueVars, handler, recon, flags, bounds>>

FailOld(s) ==
  /\ starter[s].pc = "failOld"
  /\ runs' = FailRun(starter[s].run)
  /\ starter' = Goto(s, "insert")
  /\ UNCHANGED <<queueVars, handler, recon, flags, bounds>>

InsertRun(s) ==
  /\ starter[s].pc = "insert"
  /\ \E r \in Absents :
       /\ \A q \in Absents : r <= q
       /\ runs' = [runs EXCEPT ![r] = [status |-> "queued", linked |-> FALSE]]
       /\ starter' = GotoWith(s, "link", r)
  /\ UNCHANGED <<queueVars, handler, recon, flags, bounds>>

LinkJob(s) ==
  /\ starter[s].pc = "link"
  /\ runs' = [runs EXCEPT ![starter[s].run].linked = TRUE]
  /\ starter' = Goto(s, "add")
  /\ UNCHANGED <<queueVars, handler, recon, flags, bounds>>

Add(r) == [jobs EXCEPT ![r] = Enqueued(jobs[r])]

AddJob(s) ==
  /\ starter[s].pc = "add"
  /\ jobs' = Add(starter[s].run)
  /\ starter' = Answer(s)
  /\ UNCHANGED <<runs, events, handler, recon, flags, bounds>>

(* The add failed, before or after Redis carried it out. *)
AddJobFails(s) ==
  /\ CallsMayFail /\ starter[s].pc = "add"
  /\ jobs' \in {jobs, Add(starter[s].run)}
  /\ starter' = Goto(s, "addFailed")
  /\ UNCHANGED <<runs, events, handler, recon, flags, bounds>>

AddFailed(s) ==
  /\ starter[s].pc = "addFailed"
  /\ runs' = FailRun(starter[s].run)
  /\ starter' = Answer(s)
  /\ UNCHANGED <<queueVars, handler, recon, flags, bounds>>

(* A statement failed and the request with it; a run it inserted stays queued. *)
StartFails(s) ==
  /\ CallsMayFail /\ starter[s].pc \notin {"idle", "getJob", "add"}
  /\ starter' = Answer(s)
  /\ abandoned' = IF starter[s].pc \in {"link", "addFailed"}
                    THEN abandoned \cup {starter[s].run} ELSE abandoned
  /\ UNCHANGED <<runs, queueVars, handler, recon, raced, revived, bounds>>

StartScrape(s) ==
  \/ FindRun(s) \/ GetJob(s) \/ FailOld(s) \/ InsertRun(s)
  \/ LinkJob(s) \/ AddJob(s) \/ AddJobFails(s) \/ AddFailed(s) \/ StartFails(s)

-----------------------------------------------------------------------------
(* The Bull jobs. The queue's "failed" event calls failRun, whoever fails the  *)
(* job.                                                                       *)

SetJob(r, job) ==
  /\ jobs' = [jobs EXCEPT ![r] = job]
  /\ events' = IF job.state = "failed" THEN events \cup {r} ELSE events

(* @Process() takes one job at a time. *)
TakeJob(h) ==
  /\ Running /\ handler[h].pc = "idle" /\ \A g \in Handler : ~handler[g].owns
  /\ \E r \in Run :
       /\ jobs[r].state = "waiting"
       /\ jobs' = [jobs EXCEPT ![r].state = "active"]
       /\ handler' = [handler EXCEPT ![h] = [Idle EXCEPT !.pc = "start", !.run = r,
                                                         !.owns = TRUE]]
  /\ UNCHANGED <<runs, events, starter, recon, flags, bounds>>

(* The job's timeout of RUNNING_SCRAPE_IDLE_MS passed, or its lock expired:    *)
(* the job goes on without its handler, which runs on.                        *)
LoseJob(h) ==
  /\ handler[h].owns /\ overruns < MaxOverruns
  /\ LET r == handler[h].run
     IN  \/ SetJob(r, FailedAttempt(jobs[r], Attempts))
         \/ SetJob(r, StalledJob(jobs[r], MaxStalls))
  /\ handler' = [handler EXCEPT ![h].owns = FALSE]
  /\ overruns' = overruns + 1
  /\ UNCHANGED <<runs, starter, recon, flags, crashes>>

StallDead(r) ==
  /\ Running /\ jobs[r].state = "active"
  /\ \A h \in Handler : ~(handler[h].owns /\ handler[h].run = r)
  /\ SetJob(r, StalledJob(jobs[r], MaxStalls))
  /\ UNCHANGED <<runs, starter, handler, recon, flags, bounds>>

FailedEventLogged(r) ==
  /\ r \in events
  /\ events' = events \ {r}
  /\ UNCHANGED <<runs, jobs, starter, handler, recon, flags, bounds>>

(* failRun of the "failed" event. *)
FailedEvent(r) ==
  /\ r \in events
  /\ runs' = FailRun(r)
  /\ events' = events \ {r}
  /\ UNCHANGED <<jobs, starter, handler, recon, flags, bounds>>

(* The handler returns: removeOnComplete. *)
Return(h) ==
  /\ IF handler[h].owns THEN SetJob(handler[h].run, NoJob) ELSE UNCHANGED queueVars
  /\ handler' = [handler EXCEPT ![h] = Idle]

(* The handler rejects. *)
Throw(h) ==
  /\ IF handler[h].owns
       THEN SetJob(handler[h].run, FailedAttempt(jobs[handler[h].run], Attempts))
       ELSE UNCHANGED queueVars
  /\ handler' = [handler EXCEPT ![h] = Idle]

-----------------------------------------------------------------------------
(* ScrapeProcessor.handleScrape *)

AtStep(h, pc) == [handler EXCEPT ![h].pc = pc]

(* UPDATE ... SET status = 'running' WHERE id: no guard on the status.         *)
Start(h) ==
  /\ handler[h].pc = "start"
  /\ runs' = SetStatus(handler[h].run, "running")
  /\ handler' = AtStep(h, "crawl")
  /\ revived' = (revived \/ Ended(handler[h].run))
  /\ UNCHANGED <<queueVars, starter, recon, raced,
                 abandoned, bounds>>

(* That UPDATE is outside the try block. *)
StartRejects(h) ==
  /\ CallsMayFail /\ handler[h].pc = "start"
  /\ Throw(h)
  /\ abandoned' = IF handler[h].owns THEN abandoned
                                     ELSE abandoned \cup {handler[h].run}
  /\ UNCHANGED <<runs, starter, recon, raced, revived,
                 bounds>>

(* crawlSite returns. *)
CrawlEnds(h) ==
  /\ handler[h].pc = "crawl"
  /\ handler' = AtStep(h, "complete")
  /\ UNCHANGED <<runs, queueVars, starter, recon, flags, bounds>>

(* crawlSite throws before its first page: the seed URL is not public any more. *)
CrawlFails(h) ==
  /\ handler[h].pc = "crawl"
  /\ handler' = AtStep(h, "catch")
  /\ UNCHANGED <<runs, queueVars, starter, recon, flags, bounds>>

(* UPDATE ... SET status = 'completed' WHERE id: no guard on the status.       *)
Complete(h) ==
  /\ handler[h].pc = "complete"
  /\ runs' = SetStatus(handler[h].run, "completed")
  /\ Return(h)
  /\ UNCHANGED << starter, recon, flags, bounds>>

CompleteFails(h) ==
  /\ CallsMayFail /\ handler[h].pc = "complete"
  /\ handler' = AtStep(h, "catch")
  /\ UNCHANGED <<runs, queueVars, starter, recon, flags, bounds>>

MarkFailed(h) ==
  /\ handler[h].pc = "catch"
  /\ runs' = SetStatus(handler[h].run, "failed")
  /\ Return(h)
  /\ UNCHANGED << starter, recon, flags, bounds>>

(* Rejects; of a handler that has lost its job nobody hears. *)
MarkFailedRejects(h) ==
  /\ CallsMayFail /\ handler[h].pc = "catch"
  /\ Throw(h)
  /\ abandoned' = IF handler[h].owns THEN abandoned
                                     ELSE abandoned \cup {handler[h].run}
  /\ UNCHANGED <<runs, starter, recon, raced, revived,
                 bounds>>

HandleScrape(h) ==
  \/ Start(h) \/ StartRejects(h)
  \/ CrawlEnds(h) \/ CrawlFails(h)
  \/ Complete(h) \/ CompleteFails(h) \/ MarkFailed(h) \/ MarkFailedRejects(h)

-----------------------------------------------------------------------------
(* Crash, restart and reconcileRuns *)

(* Redis may lose its data with the process. *)
Die ==
  /\ starter' = [s \in Starter |-> NoRequest]
  /\ handler' = [h \in Handler |-> Idle]
  /\ events' = {}
  /\ \/ jobs' = jobs
     \/ jobs' = [r \in Run |-> IF Found(jobs[r]) THEN [NoJob EXCEPT !.state = "lost"]
                                                 ELSE jobs[r]]
  /\ recon' = [pc |-> "down", todo |-> {}, run |-> 0]
  /\ abandoned' = abandoned \cup OpenRuns
  /\ UNCHANGED <<runs, raced, revived, overruns>>

Crash ==
  /\ Running /\ crashes < MaxCrashes
  /\ crashes' = crashes + 1
  /\ Die

(* failRun of a "failed" event is not awaited: if its UPDATE fails the promise *)
(* is rejected with no handler, and that ends the process.                    *)
FailedEventRejects(r) ==
  /\ CallsMayFail /\ Running /\ r \in events /\ crashes < MaxCrashes
  /\ crashes' = crashes + 1
  /\ Die

Boot ==
  /\ recon.pc = "down"
  /\ recon' = [pc |-> "rows", run |-> 0,
               todo |-> {[run |-> r, status |-> runs[r].status, linked |-> runs[r].linked] :
                           r \in OpenRuns}]
  /\ UNCHANGED <<runs, queueVars, starter, handler, flags, bounds>>

ReconcileGo(pc, x) == recon' = [pc |-> pc, todo |-> recon.todo \ {x}, run |-> x.run]

(* A fresh row is skipped; a running one without a heartbeat is failed whatever *)
(* its job; a stale one is failed when its job is missing.                      *)
ReconcileRow(x) ==
  /\ recon.pc = "rows"
  /\ \/ ReconcileGo("rows", x)
     \/ x.status = "running" /\ ReconcileGo("update", x)
     \/ ReconcileGo(IF x.linked THEN "getJob" ELSE "update", x)
  /\ UNCHANGED <<runs, queueVars, starter, handler, flags, bounds>>

ReconcileGetJob ==
  /\ recon.pc = "getJob"
  /\ \/ Found(jobs[recon.run]) /\ recon' = [recon EXCEPT !.pc = "rows"]
     \/ /\ ~Found(jobs[recon.run]) \/ CallsMayFail
        /\ recon' = [recon EXCEPT !.pc = "update"]
  /\ UNCHANGED <<runs, queueVars, starter, handler, flags, bounds>>

(* failRun; its own failure ends the pass. *)
ReconcileFail ==
  /\ recon.pc = "update"
  /\ \/ runs' = FailRun(recon.run) /\ recon' = [recon EXCEPT !.pc = "rows"]
     \/ CallsMayFail /\ runs' = runs /\ recon' = Finished
  /\ UNCHANGED <<queueVars, starter, handler, flags, bounds>>

ReconcileEnds ==
  /\ recon.pc = "rows" /\ recon.todo = {}
  /\ recon' = Finished
  /\ UNCHANGED <<runs, queueVars, starter, handler, flags, bounds>>

Reconcile ==
  \/ Boot \/ ReconcileGetJob \/ ReconcileFail \/ ReconcileEnds
  \/ \E x \in recon.todo : ReconcileRow(x)

-----------------------------------------------------------------------------
Next ==
  \/ \E s \in Starter : StartScrape(s)
  \/ \E h \in Handler : TakeJob(h) \/ LoseJob(h) \/ HandleScrape(h)
  \/ \E r \in Run : StallDead(r) \/ FailedEvent(r) \/ FailedEventRejects(r)
  \/ Crash \/ Reconcile

Spec == Init /\ [][Next]_vars

(* The process is restarted, its worker takes waiting jobs and checks for      *)
(* stalled ones, and awaited calls return or fail.                            *)
FairSpec ==
  /\ Spec
  /\ WF_vars(Reconcile)
  /\ WF_vars(\E h \in Handler : TakeJob(h))
  /\ \A h \in Handler : WF_vars(HandleScrape(h))
  /\ \A r \in Run : WF_vars(StallDead(r)) /\ WF_vars(FailedEvent(r))

-----------------------------------------------------------------------------
(* Properties *)

(* A run that says "running" is being crawled, or its "failed" event is on the *)
(* way, unless the process died or the UPDATE that ends it failed: handled     *)
(* errors leave no run behind as running.                                      *)
Crawling(r) == \E h \in Handler : handler[h].run = r

RunningHasCrawler ==
  \A r \in Run : runs[r].status = "running" => Crawling(r) \/ r \in events \cup abandoned

(* One run is open at a time, as startScrape's check intends, when requests    *)
(* did not overlap between the check and the INSERT and no ended run was set   *)
(* running again.                                                              *)
SingleOpenRun == ~raced /\ ~revived => Cardinality(OpenRuns) <= 1

(* A run whose job is in the queue reaches completed or failed, unless it is   *)
(* abandoned (see RunningHasCrawler).                                          *)
RunSettles ==
  \A r \in Run : jobs[r].state \in {"waiting", "active"} ~> Ended(r) \/ r \in abandoned
=============================================================================
