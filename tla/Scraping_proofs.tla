-------------------------- MODULE Scraping_proofs --------------------------
(***************************************************************************)
(* Proofs about web scraping: about ScrapeRuns, for every set of requests  *)
(* and handlers, any number of runs and every bound; then about SiteCrawl, *)
(* for every site, depth, concurrency and quota.                           *)
(***************************************************************************)
EXTENDS ScrapeRuns, SiteCrawl, FiniteSetTheorems, SequenceTheorems,
        WellFoundedInduction, TLAPS

LEMMA BoundsInNat == /\ MaxStalls \in Nat /\ Attempts \in Nat /\ MaxRuns \in Nat
                     /\ MaxOverruns \in Nat /\ MaxCrashes \in Nat
  BY ScrapeBounds DEF Attempts

LEMMA ZeroIsNoRun == 0 \notin Run
  BY BoundsInNat DEF Run

Status == Open \cup {"absent", "completed", "failed"}

-----------------------------------------------------------------------------
(* What the operations of a Bull job do to it, for any number of attempts and *)
(* stalls.                                                                    *)

(* A job that is not, or no longer, in the queue. *)
LEMMA NoJobType ==
  ASSUME NEW n \in Nat, NEW m \in Nat
  PROVE  /\ NoJob \in JobRecord(n, m) /\ NoJob.state = "none"
         /\ [NoJob EXCEPT !.state = "lost"] \in JobRecord(n, m)
         /\ [NoJob EXCEPT !.state = "lost"].state = "lost"
  BY DEF NoJob, JobRecord

(* Queue.add makes a missing job wait with all its attempts, and leaves one   *)
(* that is found alone.                                                      *)
LEMMA EnqueuedType ==
  ASSUME NEW n \in Nat, NEW m \in Nat, NEW j \in JobRecord(n, m)
  PROVE  /\ Enqueued(j) \in JobRecord(n, m)
         /\ Found(j) => Enqueued(j) = j
         /\ ~Found(j) => Enqueued(j).state = "waiting" /\ Enqueued(j).attemptsMade = 0
  BY DEF Enqueued, Found, NoJob, JobRecord

LEMMA TakenType ==
  ASSUME NEW n \in Nat, NEW m \in Nat, NEW j \in JobRecord(n, m)
  PROVE  /\ [j EXCEPT !.state = "active"] \in JobRecord(n, m)
         /\ [j EXCEPT !.state = "active"].state = "active"
         /\ [j EXCEPT !.state = "active"].attemptsMade = j.attemptsMade
  BY DEF JobRecord

(* A failed attempt is counted, and the job waits again only if it has one    *)
(* left.                                                                     *)
LEMMA FailedAttemptType ==
  ASSUME NEW n \in Nat, NEW m \in Nat, NEW j \in JobRecord(n, m), j.attemptsMade < n
  PROVE  /\ FailedAttempt(j, n) \in JobRecord(n, m)
         /\ FailedAttempt(j, n).state \in {"waiting", "failed"}
         /\ FailedAttempt(j, n).state = "waiting" => FailedAttempt(j, n).attemptsMade < n
  <1>1. j.attemptsMade \in 0 .. n
    BY DEF JobRecord
  <1>2. PICK k \in 0 .. n : k = j.attemptsMade + 1
    BY <1>1
  <1>3. CASE k < n
    <2>1. FailedAttempt(j, n) = [j EXCEPT !.state = "waiting", !.attemptsMade = k]
      BY <1>2, <1>3 DEF FailedAttempt
    <2> QED
      BY <1>3, <2>1 DEF JobRecord
  <1>4. CASE ~(k < n)
    <2>1. FailedAttempt(j, n) = [j EXCEPT !.state = "failed", !.attemptsMade = k]
      BY <1>2, <1>4 DEF FailedAttempt
    <2> QED
      BY <2>1 DEF JobRecord
  <1> QED
    BY <1>3, <1>4

(* A stall is counted on its own and costs no attempt.                       *)
LEMMA StalledJobType ==
  ASSUME NEW n \in Nat, NEW m \in Nat, NEW j \in JobRecord(n, m)
  PROVE  /\ StalledJob(j, m) \in JobRecord(n, m)
         /\ StalledJob(j, m).state \in {"waiting", "failed"}
         /\ StalledJob(j, m).attemptsMade = j.attemptsMade
  <1>1. j.stalls \in 0 .. m
    BY DEF JobRecord
  <1>2. CASE j.stalls < m
    <2>1. PICK k \in 0 .. m : k = j.stalls + 1
      BY <1>1, <1>2
    <2>2. StalledJob(j, m) = [j EXCEPT !.state = "waiting", !.stalls = k]
      BY <1>2, <2>1 DEF StalledJob
    <2> QED
      BY <2>2 DEF JobRecord
  <1>3. CASE ~(j.stalls < m)
    <2>1. StalledJob(j, m) = [j EXCEPT !.state = "failed"]
      BY <1>3 DEF StalledJob
    <2> QED
      BY <2>1 DEF JobRecord
  <1> QED
    BY <1>2, <1>3

-----------------------------------------------------------------------------
(* The jobs and their handlers *)

Job == JobRecord(Attempts, MaxStalls)

HasAttempt(j) == j.state \in {"waiting", "active"} => j.attemptsMade < Attempts

(* An execution that is not idle works on a run. *)
Placed(e) == (e.pc # "idle" => e.run \in Run) /\ (e.pc = "idle" => e = Idle)

(* One handler at most holds the lock of a job, and that job is active; a job  *)
(* that may still run has its attempt left.                                   *)
LockInv ==
  /\ jobs \in [Run -> Job]
  /\ handler \in [Handler -> Execution]
  /\ \A h \in Handler : Placed(handler[h])
  /\ \A h \in Handler : handler[h].owns => jobs[handler[h].run].state = "active"
  /\ \A g, h \in Handler : handler[g].owns /\ handler[h].owns => g = h
  /\ \A r \in Run : HasAttempt(jobs[r])

LEMMA IdleExecution == Idle \in Execution /\ Placed(Idle) /\ ~Idle.owns /\ Idle.pc = "idle"
                       /\ Idle.run = 0
  BY DEF Idle, Execution, Placed

LEMMA OwnerWorks ==
  ASSUME LockInv, NEW h \in Handler, handler[h].owns
  PROVE  handler[h].pc # "idle" /\ handler[h].run \in Run
  BY IdleExecution DEF LockInv, Placed

(* A handler goes on, or stops, without touching a job.                       *)
LEMMA LockQuiet ==
  ASSUME LockInv, NEW h \in Handler, NEW e \in Execution, Placed(e),
         e.owns => handler[h].owns /\ e.run = handler[h].run,
         handler' = [handler EXCEPT ![h] = e], jobs' = jobs
  PROVE  LockInv'
  <1>1. \A g \in Handler : handler'[g] = IF g = h THEN e ELSE handler[g]
    BY DEF LockInv
  <1>2. handler' \in [Handler -> Execution]
    BY DEF LockInv
  <1>3. \A g \in Handler : Placed(handler'[g])
    BY <1>1 DEF LockInv
  <1>4. \A g \in Handler : handler'[g].owns =>
          handler[g].owns /\ handler'[g].run = handler[g].run
    BY <1>1
  <1> QED
    BY <1>2, <1>3, <1>4 DEF LockInv, Placed, HasAttempt

(* The owner of a job gives it up, with whatever that makes of the job.        *)
LEMMA LockRelease ==
  ASSUME LockInv, NEW h \in Handler, handler[h].owns,
         NEW e \in Execution, Placed(e), ~e.owns,
         NEW j \in Job, HasAttempt(j),
         handler' = [handler EXCEPT ![h] = e],
         jobs' = [jobs EXCEPT ![handler[h].run] = j]
  PROVE  LockInv'
  <1>1. \A g \in Handler : handler'[g] = IF g = h THEN e ELSE handler[g]
    BY DEF LockInv
  <1>2. handler' \in [Handler -> Execution] /\ jobs' \in [Run -> Job]
    BY DEF LockInv
  <1>3. \A g \in Handler : Placed(handler'[g]) /\ ~handler'[g].owns
    BY <1>1 DEF LockInv
  <1>4. \A r \in Run : HasAttempt(jobs'[r])
    BY DEF LockInv
  <1> QED
    BY <1>2, <1>3, <1>4 DEF LockInv, Placed, HasAttempt

LEMMA NoJobIsJob == NoJob \in Job /\ HasAttempt(NoJob) /\ NoJob.state = "none"
  BY NoJobType, BoundsInNat DEF Job, HasAttempt

LEMMA JobAfterFailure ==
  ASSUME LockInv, NEW r \in Run, jobs[r].state = "active"
  PROVE  /\ FailedAttempt(jobs[r], Attempts) \in Job
         /\ FailedAttempt(jobs[r], Attempts).state = "failed"
         /\ HasAttempt(FailedAttempt(jobs[r], Attempts))
         /\ StalledJob(jobs[r], MaxStalls) \in Job
         /\ StalledJob(jobs[r], MaxStalls).state \in {"waiting", "failed"}
         /\ HasAttempt(StalledJob(jobs[r], MaxStalls))
  <1>1. jobs[r] \in JobRecord(Attempts, MaxStalls) /\ jobs[r].attemptsMade < Attempts
    BY DEF LockInv, Job, HasAttempt
  <1>2. /\ FailedAttempt(jobs[r], Attempts) \in Job
        /\ FailedAttempt(jobs[r], Attempts).state \in {"waiting", "failed"}
        /\ FailedAttempt(jobs[r], Attempts).state = "waiting" =>
             FailedAttempt(jobs[r], Attempts).attemptsMade < Attempts
    BY <1>1, BoundsInNat, FailedAttemptType DEF Job
  <1>3. FailedAttempt(jobs[r], Attempts).state = "failed"
    BY <1>1 DEF FailedAttempt, JobRecord, Attempts
  <1>4. /\ StalledJob(jobs[r], MaxStalls) \in Job
        /\ StalledJob(jobs[r], MaxStalls).state \in {"waiting", "failed"}
        /\ StalledJob(jobs[r], MaxStalls).attemptsMade = jobs[r].attemptsMade
    BY <1>1, BoundsInNat, StalledJobType DEF Job
  <1> QED
    BY <1>1, <1>2, <1>3, <1>4 DEF HasAttempt

LEMMA ReturnKeepsLock ==
  ASSUME LockInv, NEW h \in Handler, Return(h)
  PROVE  LockInv'
  <1>1. handler' = [handler EXCEPT ![h] = Idle]
    BY DEF Return
  <1>2. CASE handler[h].owns
    <2>1. jobs' = [jobs EXCEPT ![handler[h].run] = NoJob]
      BY <1>2 DEF Return, SetJob
    <2> QED
      BY <1>1, <1>2, <2>1, IdleExecution, NoJobIsJob, LockRelease
  <1>3. CASE ~handler[h].owns
    <2>1. jobs' = jobs
      BY <1>3 DEF Return, queueVars
    <2> QED
      BY <1>1, <2>1, IdleExecution, LockQuiet
  <1> QED
    BY <1>2, <1>3

LEMMA ThrowKeepsLock ==
  ASSUME LockInv, NEW h \in Handler, Throw(h)
  PROVE  LockInv'
  <1>1. handler' = [handler EXCEPT ![h] = Idle]
    BY DEF Throw
  <1>2. CASE handler[h].owns
    <2>1. handler[h].run \in Run /\ jobs[handler[h].run].state = "active"
      BY <1>2, OwnerWorks DEF LockInv
    <2> DEFINE j == FailedAttempt(jobs[handler[h].run], Attempts)
    <2>2. j \in Job /\ HasAttempt(j)
      BY <2>1, JobAfterFailure
    <2>3. jobs' = [jobs EXCEPT ![handler[h].run] = j]
      BY <1>2 DEF Throw, SetJob
    <2> HIDE DEF j
    <2> QED
      BY <1>1, <1>2, <2>2, <2>3, IdleExecution, LockRelease
  <1>3. CASE ~handler[h].owns
    <2>1. jobs' = jobs
      BY <1>3 DEF Throw, queueVars
    <2> QED
      BY <1>1, <2>1, IdleExecution, LockQuiet
  <1> QED
    BY <1>2, <1>3

LEMMA MovedOn ==
  ASSUME LockInv, NEW h \in Handler, handler[h].pc # "idle",
         NEW pc \in {"crawl", "complete", "catch"}, handler' = AtStep(h, pc), jobs' = jobs
  PROVE  LockInv'
  <1> DEFINE e == [handler[h] EXCEPT !.pc = pc]
  <1>1. handler[h] \in Execution /\ handler[h].run \in Run
    BY DEF LockInv, Placed
  <1>2. e \in Execution /\ e.pc = pc /\ e.run = handler[h].run /\ e.owns = handler[h].owns
    BY <1>1 DEF Execution
  <1>3. Placed(e)
    BY <1>1, <1>2 DEF Placed
  <1>4. handler' = [handler EXCEPT ![h] = e]
    BY DEF AtStep
  <1> HIDE DEF e
  <1> QED
    BY <1>2, <1>3, <1>4, LockQuiet

LEMMA HandleKeepsLock ==
  ASSUME LockInv, NEW h \in Handler, HandleScrape(h)
  PROVE  LockInv'
  <1>1. CASE Start(h) \/ CrawlEnds(h) \/ CrawlFails(h) \/ CompleteFails(h)
    BY <1>1, MovedOn DEF Start, CrawlEnds, CrawlFails, CompleteFails, queueVars
  <1>2. CASE Complete(h) \/ MarkFailed(h)
    BY <1>2, ReturnKeepsLock DEF Complete, MarkFailed
  <1>3. CASE StartRejects(h) \/ MarkFailedRejects(h)
    BY <1>3, ThrowKeepsLock DEF StartRejects, MarkFailedRejects
  <1> QED
    BY <1>1, <1>2, <1>3 DEF HandleScrape

LEMMA TakeKeepsLock ==
  ASSUME LockInv, NEW h \in Handler, TakeJob(h)
  PROVE  LockInv'
  <1>1. PICK r \in Run :
          /\ jobs[r].state = "waiting"
          /\ jobs' = [jobs EXCEPT ![r].state = "active"]
          /\ handler' = [handler EXCEPT ![h] = [Idle EXCEPT !.pc = "start", !.run = r,
                                                            !.owns = TRUE]]
    BY DEF TakeJob
  <1> DEFINE e == [Idle EXCEPT !.pc = "start", !.run = r, !.owns = TRUE]
             j == [jobs[r] EXCEPT !.state = "active"]
  <1>2. e \in Execution /\ e.owns /\ e.run = r /\ Placed(e)
    BY DEF Idle, Execution, Placed
  <1>3. j \in Job /\ j.state = "active" /\ HasAttempt(j)
    BY <1>1, BoundsInNat, TakenType DEF LockInv, Job, HasAttempt
  <1>4. handler' = [handler EXCEPT ![h] = e] /\ jobs' = [jobs EXCEPT ![r] = j]
    BY <1>1
  <1>5. \A g \in Handler : ~handler[g].owns
    BY DEF TakeJob
  <1> HIDE DEF e, j
  <1>6. /\ \A g \in Handler : handler'[g] = IF g = h THEN e ELSE handler[g]
        /\ \A q \in Run : jobs'[q] = IF q = r THEN j ELSE jobs[q]
    BY <1>4 DEF LockInv
  <1>7. handler' \in [Handler -> Execution] /\ jobs' \in [Run -> Job]
    BY <1>2, <1>3, <1>4 DEF LockInv
  <1>8. /\ \A g \in Handler : Placed(handler'[g])
        /\ \A q \in Run : HasAttempt(jobs'[q])
    BY <1>2, <1>3, <1>6 DEF LockInv
  <1> QED
    BY <1>2, <1>3, <1>5, <1>6, <1>7, <1>8 DEF LockInv, Placed, HasAttempt

LEMMA LoseKeepsLock ==
  ASSUME LockInv, NEW h \in Handler, LoseJob(h)
  PROVE  LockInv'
  <1> DEFINE e == [handler[h] EXCEPT !.owns = FALSE]
  <1>1. /\ handler[h].owns /\ handler[h].run \in Run /\ handler[h].pc # "idle"
        /\ jobs[handler[h].run].state = "active" /\ handler[h] \in Execution
    BY OwnerWorks DEF LoseJob, LockInv
  <1>2. e \in Execution /\ ~e.owns /\ e.run = handler[h].run /\ e.pc = handler[h].pc
    BY <1>1 DEF Execution
  <1>3. Placed(e)
    BY <1>1, <1>2 DEF Placed
  <1>4. handler' = [handler EXCEPT ![h] = e]
    BY DEF LoseJob
  <1>5. \E j \in Job : HasAttempt(j) /\ jobs' = [jobs EXCEPT ![handler[h].run] = j]
    BY <1>1, JobAfterFailure DEF LoseJob, SetJob
  <1> HIDE DEF e
  <1> QED
    BY <1>1, <1>2, <1>3, <1>4, <1>5, LockRelease

(* A job changes that no handler owns. *)
LEMMA LockOther ==
  ASSUME LockInv, NEW r \in Run, NEW j \in Job, HasAttempt(j), UNCHANGED handler,
         jobs' = [jobs EXCEPT ![r] = j],
         j = jobs[r] \/ \A h \in Handler : ~(handler[h].owns /\ handler[h].run = r)
  PROVE  LockInv'
  <1>1. jobs' \in [Run -> Job] /\ \A q \in Run : jobs'[q] = IF q = r THEN j ELSE jobs[q]
    BY DEF LockInv
  <1>2. \A q \in Run : HasAttempt(jobs'[q])
    BY <1>1 DEF LockInv
  <1>3. \A h \in Handler : handler[h].owns => jobs'[handler[h].run].state = "active"
    BY <1>1, OwnerWorks DEF LockInv
  <1> QED
    BY <1>1, <1>2, <1>3 DEF LockInv, Placed, HasAttempt

LEMMA AddKeepsLock ==
  ASSUME LockInv, NEW r \in Run, UNCHANGED handler, jobs' \in {jobs, Add(r)}
  PROVE  LockInv'
  <1> DEFINE j == Enqueued(jobs[r])
  <1>1. /\ j \in Job /\ HasAttempt(j)
        /\ Found(jobs[r]) => j = jobs[r]
    <2>1. jobs[r] \in JobRecord(Attempts, MaxStalls) /\ HasAttempt(jobs[r])
      BY DEF LockInv, Job
    <2>2. /\ j \in JobRecord(Attempts, MaxStalls)
          /\ Found(jobs[r]) => j = jobs[r]
          /\ ~Found(jobs[r]) => j.state = "waiting" /\ j.attemptsMade = 0
      BY <2>1, BoundsInNat, EnqueuedType
    <2> HIDE DEF j
    <2>3. Attempts > 0
      BY DEF Attempts
    <2>4. HasAttempt(j)
      BY <2>1, <2>2, <2>3 DEF HasAttempt
    <2> QED
      BY <2>2, <2>4 DEF Job
  <1>2. j = jobs[r] \/ \A h \in Handler : ~(handler[h].owns /\ handler[h].run = r)
    BY <1>1 DEF LockInv, Found
  <1>3. CASE jobs' = jobs
    BY <1>3 DEF LockInv, Placed, HasAttempt
  <1>4. CASE jobs' = Add(r)
    <2>1. jobs' = [jobs EXCEPT ![r] = j]
      BY <1>4 DEF Add
    <2> HIDE DEF j
    <2> QED
      BY <1>1, <1>2, <2>1, LockOther
  <1> QED
    BY <1>3, <1>4

-----------------------------------------------------------------------------
(* The requests *)

(* A request that is past findInFlightRun, or past its INSERT, has a run.       *)
Placing(x) == x.pc \in {"getJob", "failOld", "link", "add", "addFailed"} => x.run \in Run

StarterInv ==
  /\ starter \in [Starter -> Request]
  /\ \A s \in Starter : Placing(starter[s])

LEMMA NoRequestType == NoRequest \in Request /\ Placing(NoRequest) /\ NoRequest.pc = "idle"
  BY DEF NoRequest, Request, Placing

LEMMA StarterStep ==
  ASSUME StarterInv, NEW s \in Starter, NEW x \in Request, Placing(x),
         starter' = [starter EXCEPT ![s] = x]
  PROVE  StarterInv'
  BY DEF StarterInv, Placing

LEMMA StarterInit == Init => StarterInv
  BY NoRequestType DEF Init, StarterInv

LEMMA StarterNext == StarterInv /\ [Next]_vars => StarterInv'
  <1> SUFFICES ASSUME StarterInv, [Next]_vars PROVE StarterInv'
    OBVIOUS
  <1>1. ASSUME NEW s \in Starter, StartScrape(s) PROVE StarterInv'
    <2>0. starter[s] \in Request /\ Placing(starter[s])
      BY DEF StarterInv
    <2>1. ASSUME starter' = Answer(s) PROVE StarterInv'
      BY <2>1, NoRequestType, StarterStep DEF Answer
    <2>2. ASSUME NEW pc \in {"insert", "failOld", "add", "addFailed"},
                 starter' = Goto(s, pc),
                 starter[s].pc \in {"getJob", "failOld", "link", "add"}
          PROVE  StarterInv'
      <3> DEFINE x == [starter[s] EXCEPT !.pc = pc]
      <3>1. x \in Request /\ Placing(x)
        BY <2>0, <2>2 DEF Request, Placing
      <3>2. starter' = [starter EXCEPT ![s] = x]
        BY <2>2 DEF Goto
      <3> HIDE DEF x
      <3> QED
        BY <3>1, <3>2, StarterStep
    <2>3. ASSUME NEW pc \in {"getJob", "failOld", "link"}, NEW r \in Run,
                 starter' = GotoWith(s, pc, r)
          PROVE  StarterInv'
      <3> DEFINE x == [pc |-> pc, run |-> r]
      <3>1. x \in Request /\ Placing(x)
        BY DEF Request, Placing
      <3>2. starter' = [starter EXCEPT ![s] = x]
        BY <2>3 DEF GotoWith
      <3> HIDE DEF x
      <3> QED
        BY <3>1, <3>2, StarterStep
    <2>4. CASE FindRun(s)
      <3>1. CASE starter' = Goto(s, "insert")
        <4> DEFINE x == [starter[s] EXCEPT !.pc = "insert"]
        <4>1. x \in Request /\ Placing(x)
          BY <2>0 DEF Request, Placing
        <4>2. starter' = [starter EXCEPT ![s] = x]
          BY <3>1 DEF Goto
        <4> HIDE DEF x
        <4> QED
          BY <4>1, <4>2, StarterStep
      <3>2. InFlight \subseteq Run
        BY DEF InFlight, OpenRuns
      <3> QED
        BY <2>1, <2>3, <2>4, <3>1, <3>2 DEF FindRun
    <2>5. CASE InsertRun(s)
      BY <2>3, <2>5 DEF InsertRun, Absents
    <2>6. CASE GetJob(s) \/ FailOld(s) \/ LinkJob(s) \/ AddJob(s) \/ AddJobFails(s)
               \/ AddFailed(s) \/ StartFails(s)
      BY <2>1, <2>2, <2>6 DEF GetJob, FailOld, LinkJob, AddJob, AddJobFails, AddFailed,
                  StartFails
    <2> QED
      BY <1>1, <2>4, <2>5, <2>6 DEF StartScrape
  <1>2. CASE Crash \/ \E r \in Run : FailedEventRejects(r)
    BY <1>2, NoRequestType DEF Crash, FailedEventRejects, Die, StarterInv
  <1>3. CASE \/ \E h \in Handler : TakeJob(h) \/ LoseJob(h) \/ HandleScrape(h)
             \/ \E r \in Run : StallDead(r) \/ FailedEvent(r)
             \/ Reconcile \/ UNCHANGED vars
    <2>1. starter' = starter
      BY <1>3 DEF TakeJob, LoseJob, HandleScrape, Start, StartRejects, CrawlEnds,
                  CrawlFails, Complete, CompleteFails, MarkFailed, MarkFailedRejects,
                  StallDead, FailedEvent, Reconcile, Boot, ReconcileRow,
                  ReconcileGetJob, ReconcileFail, ReconcileEnds, vars
    <2> QED
      BY <2>1 DEF StarterInv
  <1> QED
    BY <1>1, <1>2, <1>3 DEF Next

LEMMA LockInit == Init => LockInv
  BY NoJobIsJob, IdleExecution DEF Init, LockInv

LEMMA LockNext == LockInv /\ StarterInv /\ [Next]_vars => LockInv'
  <1> SUFFICES ASSUME LockInv, StarterInv, [Next]_vars PROVE LockInv'
    OBVIOUS
  <1>1. ASSUME NEW s \in Starter, StartScrape(s) PROVE LockInv'
    <2>1. CASE AddJob(s) \/ AddJobFails(s)
      <3>1. starter[s].run \in Run
        BY <2>1 DEF AddJob, AddJobFails, StarterInv, Placing
      <3> QED
        BY <2>1, <3>1, AddKeepsLock DEF AddJob, AddJobFails
    <2>2. CASE ~(AddJob(s) \/ AddJobFails(s))
      <3>1. UNCHANGED <<jobs, handler>>
        BY <1>1, <2>2 DEF StartScrape, FindRun, GetJob, FailOld, InsertRun, LinkJob,
                    AddFailed, StartFails, queueVars
      <3> QED
        BY <3>1 DEF LockInv, Placed, HasAttempt
    <2> QED
      BY <2>1, <2>2
  <1>2. ASSUME NEW h \in Handler, TakeJob(h) \/ LoseJob(h) \/ HandleScrape(h)
        PROVE  LockInv'
    BY <1>2, TakeKeepsLock, LoseKeepsLock, HandleKeepsLock
  <1>3. ASSUME NEW r \in Run, StallDead(r) PROVE LockInv'
    <2> DEFINE j == StalledJob(jobs[r], MaxStalls)
    <2>1. /\ jobs[r].state = "active" /\ handler' = handler
          /\ \A h \in Handler : ~(handler[h].owns /\ handler[h].run = r)
          /\ jobs' = [jobs EXCEPT ![r] = j]
      BY <1>3 DEF StallDead, SetJob
    <2>2. j \in Job /\ HasAttempt(j)
      BY <2>1, JobAfterFailure
    <2> HIDE DEF j
    <2> QED
      BY <2>1, <2>2, LockOther
  <1>4. CASE Crash \/ \E r \in Run : FailedEventRejects(r)
    <2>1. handler' = [h \in Handler |-> Idle] /\ Die
      BY <1>4 DEF Crash, FailedEventRejects, Die
    <2>2. jobs' \in [Run -> Job] /\ \A r \in Run : HasAttempt(jobs'[r])
      <3> DEFINE lost == [NoJob EXCEPT !.state = "lost"]
      <3>1. lost \in Job /\ HasAttempt(lost)
        BY NoJobType, BoundsInNat DEF Job, HasAttempt
      <3>2. \/ jobs' = jobs
            \/ jobs' = [r \in Run |-> IF Found(jobs[r]) THEN lost ELSE jobs[r]]
        BY <2>1 DEF Die
      <3> HIDE DEF lost
      <3> QED
        BY <3>1, <3>2 DEF LockInv
    <2> QED
      BY <2>1, <2>2, IdleExecution DEF LockInv
  <1>5. CASE Reconcile \/ UNCHANGED vars \/ \E r \in Run : FailedEvent(r)
    <2>1. UNCHANGED <<jobs, handler>>
      BY <1>5 DEF FailedEvent, Reconcile, Boot, ReconcileRow, ReconcileGetJob,
                  ReconcileFail, ReconcileEnds, queueVars, vars
    <2> QED
      BY <2>1 DEF LockInv, Placed, HasAttempt
  <1> QED
    BY <1>1, <1>2, <1>3, <1>4, <1>5 DEF Next

-----------------------------------------------------------------------------
(* The rows *)

RunsType == runs \in [Run -> RunRow]

LEMMA StatusSet ==
  ASSUME RunsType, NEW r \in Run, NEW x \in Status
  PROVE  /\ SetStatus(r, x) \in [Run -> RunRow]
         /\ \A q \in Run : SetStatus(r, x)[q].status = IF q = r THEN x ELSE runs[q].status
  BY DEF RunsType, SetStatus, RunRow, Status

(* failRun makes an open run failed, and does nothing to any other.            *)
LEMMA RunFailed ==
  ASSUME RunsType, NEW r \in Run
  PROVE  /\ FailRun(r) \in [Run -> RunRow]
         /\ \A q \in Run : FailRun(r)[q].status =
              IF q = r /\ runs[r].status \in Open THEN "failed" ELSE runs[q].status
  BY StatusSet DEF FailRun, RunsType, Status

LEMMA FailedOutside ==
  ASSUME RunsType, NEW r, r \notin Run
  PROVE  FailRun(r) = runs
  BY DEF FailRun, SetStatus, RunsType

(* What failRun does in one of the places that call it.                        *)
FailsAtMost == \E r \in Run : runs' = FailRun(r)

(* The steps that give a run a status other than failed by failRun.            *)
LEMMA InsertedRun ==
  ASSUME RunsType, NEW s \in Starter, InsertRun(s)
  PROVE  \E r \in Run :
           /\ runs[r].status = "absent" /\ starter' = GotoWith(s, "link", r)
           /\ runs' \in [Run -> RunRow]
           /\ \A q \in Run : runs'[q].status = IF q = r THEN "queued" ELSE runs[q].status
  <1>1. PICK r \in Absents :
          /\ runs' = [runs EXCEPT ![r] = [status |-> "queued", linked |-> FALSE]]
          /\ starter' = GotoWith(s, "link", r)
    BY DEF InsertRun
  <1>2. [status |-> "queued", linked |-> FALSE] \in RunRow
    BY DEF RunRow, Open
  <1> QED
    BY <1>1, <1>2 DEF Absents, RunsType

LEMMA LinkedRun ==
  ASSUME RunsType, StarterInv, NEW s \in Starter, LinkJob(s)
  PROVE  /\ runs' \in [Run -> RunRow]
         /\ \A q \in Run : runs'[q].status = runs[q].status
  <1>1. starter[s].run \in Run
    BY DEF LinkJob, StarterInv, Placing
  <1> QED
    BY <1>1 DEF LinkJob, RunsType, RunRow

(* The status each statement of handleScrape writes.                           *)
LEMMA HandledRun ==
  ASSUME RunsType, LockInv, NEW h \in Handler, HandleScrape(h)
  PROVE  /\ handler[h].run \in Run /\ handler[h].pc # "idle"
         /\ runs' \in [Run -> RunRow]
         /\ \A q \in Run : q # handler[h].run => runs'[q].status = runs[q].status
         /\ Start(h) => runs'[handler[h].run].status = "running"
         /\ Complete(h) => runs'[handler[h].run].status = "completed"
         /\ MarkFailed(h) => runs'[handler[h].run].status = "failed"
         /\ ~(Start(h) \/ Complete(h) \/ MarkFailed(h)) => runs' = runs
  <1>1. handler[h].run \in Run /\ handler[h].pc # "idle"
    BY DEF LockInv, Placed, HandleScrape, Start, StartRejects, CrawlEnds, CrawlFails,
           Complete, CompleteFails, MarkFailed, MarkFailedRejects
  <1> DEFINE r == handler[h].run
  <1> HIDE DEF r
  <1>2. r = handler[h].run
    BY DEF r
  <1>3. CASE Start(h)
    <2>1. runs' = SetStatus(r, "running") /\ handler[h].pc = "start"
      BY <1>3 DEF Start, r
    <2>2. "running" \in Status
      BY DEF Status, Open
    <2>3. ~Complete(h) /\ ~MarkFailed(h)
      BY <2>1 DEF Complete, MarkFailed
    <2>4. /\ runs' \in [Run -> RunRow]
          /\ \A q \in Run : runs'[q].status = IF q = r THEN "running" ELSE runs[q].status
      BY <1>1, <1>2, <2>1, <2>2, StatusSet
    <2> QED
      BY <1>1, <1>2, <1>3, <2>3, <2>4
  <1>4. CASE Complete(h)
    <2>1. runs' = SetStatus(r, "completed") /\ handler[h].pc = "complete"
      BY <1>4 DEF Complete, r
    <2>2. "completed" \in Status
      BY DEF Status, Open
    <2>3. ~Start(h) /\ ~MarkFailed(h)
      BY <2>1 DEF Start, MarkFailed
    <2>4. /\ runs' \in [Run -> RunRow]
          /\ \A q \in Run : runs'[q].status = IF q = r THEN "completed" ELSE runs[q].status
      BY <1>1, <1>2, <2>1, <2>2, StatusSet
    <2> QED
      BY <1>1, <1>2, <1>4, <2>3, <2>4
  <1>5. CASE MarkFailed(h)
    <2>1. runs' = SetStatus(r, "failed") /\ handler[h].pc = "catch"
      BY <1>5 DEF MarkFailed, r
    <2>2. "failed" \in Status
      BY DEF Status, Open
    <2>3. ~Start(h) /\ ~Complete(h)
      BY <2>1 DEF Start, Complete
    <2>4. /\ runs' \in [Run -> RunRow]
          /\ \A q \in Run : runs'[q].status = IF q = r THEN "failed" ELSE runs[q].status
      BY <1>1, <1>2, <2>1, <2>2, StatusSet
    <2> QED
      BY <1>1, <1>2, <1>5, <2>3, <2>4
  <1>6. CASE ~(Start(h) \/ Complete(h) \/ MarkFailed(h))
    <2>1. runs' = runs
      BY <1>6 DEF HandleScrape, StartRejects, CrawlEnds, CrawlFails, CompleteFails,
                  MarkFailedRejects
    <2> QED
      BY <1>1, <1>6, <2>1 DEF RunsType
  <1> QED
    BY <1>3, <1>4, <1>5, <1>6

(* The remaining steps leave the rows, or fail at most one run that is open.    *)
LEMMA OtherRuns ==
  ASSUME RunsType, StarterInv, [Next]_vars,
         ~\E s \in Starter : InsertRun(s) \/ LinkJob(s),
         ~\E h \in Handler : HandleScrape(h)
  PROVE  runs' = runs \/ FailsAtMost
  <1>1. ASSUME NEW s \in Starter, StartScrape(s) PROVE runs' = runs \/ FailsAtMost
    <2>1. CASE FailOld(s) \/ AddFailed(s)
      BY <2>1 DEF FailOld, AddFailed, StarterInv, Placing, FailsAtMost
    <2> QED
      BY <1>1, <2>1 DEF StartScrape, FindRun, GetJob, AddJob, AddJobFails, StartFails
  <1>2. CASE Reconcile
    <2>1. CASE ReconcileFail
      BY <2>1, FailedOutside DEF ReconcileFail, FailsAtMost
    <2> QED
      BY <1>2, <2>1 DEF Reconcile, Boot, ReconcileRow, ReconcileGetJob, ReconcileEnds
  <1>3. ASSUME NEW r \in Run, StallDead(r) \/ FailedEvent(r) \/ FailedEventRejects(r)
        PROVE  runs' = runs \/ FailsAtMost
    BY <1>3 DEF StallDead, FailedEvent, FailedEventRejects, Die, FailsAtMost
  <1>4. CASE \/ \E h \in Handler : TakeJob(h) \/ LoseJob(h)
             \/ Crash \/ UNCHANGED vars
    BY <1>4 DEF TakeJob, LoseJob, Crash, Die, vars
  <1> QED
    BY <1>1, <1>2, <1>3, <1>4 DEF Next

LEMMA RunsInit == Init => RunsType
  BY DEF Init, RunsType, Absent, RunRow

LEMMA RunsNext == RunsType /\ LockInv /\ StarterInv /\ [Next]_vars => RunsType'
  <1> SUFFICES ASSUME RunsType, LockInv, StarterInv, [Next]_vars PROVE RunsType'
    OBVIOUS
  <1>1. ASSUME NEW s \in Starter, InsertRun(s) \/ LinkJob(s) PROVE RunsType'
    BY <1>1, InsertedRun, LinkedRun DEF RunsType
  <1>2. ASSUME NEW h \in Handler, HandleScrape(h) PROVE RunsType'
    BY <1>2, HandledRun DEF RunsType
  <1>3. CASE runs' = runs \/ FailsAtMost
    BY <1>3, RunFailed DEF RunsType, FailsAtMost
  <1> QED
    BY <1>1, <1>2, <1>3, OtherRuns

-----------------------------------------------------------------------------
(* What has a job, a handler or a request after its INSERT is a run. *)

Inserted(s) == starter[s].pc \in {"link", "add", "addFailed"}

ExistInv ==
  /\ \A r \in Run : jobs[r].state # "none" => runs[r].status # "absent"
  /\ \A h \in Handler : handler[h].pc # "idle" => runs[handler[h].run].status # "absent"
  /\ \A s \in Starter : Inserted(s) => runs[starter[s].run].status # "absent"

LEMMA PresentStays ==
  ASSUME RunsType, LockInv, StarterInv, [Next]_vars, NEW r \in Run,
         runs[r].status # "absent"
  PROVE  runs'[r].status # "absent"
  <1>1. ASSUME NEW s \in Starter, InsertRun(s) \/ LinkJob(s)
        PROVE  runs'[r].status # "absent"
    BY <1>1, InsertedRun, LinkedRun
  <1>2. ASSUME NEW h \in Handler, HandleScrape(h) PROVE runs'[r].status # "absent"
    <2>1. CASE Start(h) \/ Complete(h) \/ MarkFailed(h)
      BY <1>2, <2>1, HandledRun
    <2>2. CASE ~(Start(h) \/ Complete(h) \/ MarkFailed(h))
      BY <1>2, <2>2, HandledRun
    <2> QED
      BY <2>1, <2>2
  <1>3. CASE runs' = runs \/ FailsAtMost
    BY <1>3, RunFailed DEF FailsAtMost
  <1> QED
    BY <1>1, <1>2, <1>3, OtherRuns

(* Only an add after an INSERT makes a job of nothing.                         *)
LEMMA JobsCome ==
  ASSUME LockInv, StarterInv, [Next]_vars, NEW r \in Run, jobs'[r].state # "none"
  PROVE  jobs[r].state # "none" \/ \E s \in Starter : Inserted(s) /\ starter[s].run = r
  <1> SUFFICES ASSUME jobs[r].state = "none"
               PROVE  \E s \in Starter : Inserted(s) /\ starter[s].run = r
    OBVIOUS
  <1>1. ASSUME NEW s \in Starter, AddJob(s) \/ AddJobFails(s)
        PROVE  \E t \in Starter : Inserted(t) /\ starter[t].run = r
    <2>1. /\ Inserted(s) /\ starter[s].run \in Run
          /\ jobs' \in {jobs, Add(starter[s].run)}
      BY <1>1 DEF AddJob, AddJobFails, Inserted, StarterInv, Placing
    <2>2. starter[s].run = r
      BY <2>1 DEF Add, LockInv
    <2> QED
      BY <2>1, <2>2
  <1>2. ASSUME NEW h \in Handler, HandleScrape(h) \/ LoseJob(h) PROVE FALSE
    <2>1. CASE handler[h].owns
      <3>1. jobs[handler[h].run].state = "active" /\ handler[h].run \in Run
        BY <2>1, OwnerWorks DEF LockInv
      <3>2. \A q \in Run : q # handler[h].run => jobs'[q] = jobs[q]
        BY <1>2 DEF HandleScrape, Start, StartRejects, CrawlEnds, CrawlFails, Complete,
                    CompleteFails, MarkFailed, MarkFailedRejects, LoseJob, Return, Throw,
                    SetJob, queueVars, LockInv
      <3> QED
        BY <3>1, <3>2
    <2>2. CASE ~handler[h].owns
      <3>1. jobs' = jobs
        BY <1>2, <2>2 DEF HandleScrape, Start, StartRejects, CrawlEnds, CrawlFails,
                    Complete, CompleteFails, MarkFailed, MarkFailedRejects, LoseJob,
                    Return, Throw, queueVars
      <3> QED
        BY <3>1
    <2> QED
      BY <2>1, <2>2
  <1>3. ASSUME NEW h \in Handler, TakeJob(h) PROVE FALSE
    BY <1>3 DEF TakeJob, LockInv
  <1>4. ASSUME NEW q \in Run, StallDead(q) PROVE FALSE
    BY <1>4 DEF StallDead, SetJob, LockInv
  <1>5. CASE Crash \/ \E q \in Run : FailedEventRejects(q)
    <2>1. jobs'[r] = jobs[r]
      BY <1>5 DEF Crash, FailedEventRejects, Die, Found, LockInv
    <2> QED
      BY <2>1
  <1>6. ASSUME NEW s \in Starter, StartScrape(s), ~(AddJob(s) \/ AddJobFails(s))
        PROVE  FALSE
    <2>1. jobs' = jobs
      BY <1>6 DEF StartScrape, FindRun, GetJob, FailOld, InsertRun, LinkJob,
                  AddFailed, StartFails, queueVars
    <2> QED
      BY <2>1
  <1>7. CASE Reconcile \/ UNCHANGED vars \/ \E q \in Run : FailedEvent(q)
    <2>1. jobs' = jobs
      BY <1>7 DEF FailedEvent, Reconcile, Boot, ReconcileRow, ReconcileGetJob,
                  ReconcileFail, ReconcileEnds, queueVars, vars
    <2> QED
      BY <2>1
  <1> QED
    BY <1>1, <1>2, <1>3, <1>4, <1>5, <1>6, <1>7 DEF Next

(* A handler stays with its run; a new one takes a run that has a job.          *)
LEMMA HandlersCome ==
  ASSUME LockInv, [Next]_vars, NEW h \in Handler, handler'[h].pc # "idle"
  PROVE  \/ handler[h].pc # "idle" /\ handler'[h].run = handler[h].run
         \/ handler'[h].run \in Run /\ jobs[handler'[h].run].state # "none"
  <1>1. ASSUME NEW g \in Handler, HandleScrape(g) \/ LoseJob(g)
        PROVE  handler[h].pc # "idle" /\ handler'[h].run = handler[h].run
    <2>1. CASE g = h
      <3>0. handler[h] \in Execution
        BY DEF LockInv
      <3>1. CASE Start(h) \/ CrawlEnds(h) \/ CrawlFails(h) \/ CompleteFails(h)
        BY <3>0, <3>1 DEF Start, CrawlEnds, CrawlFails, CompleteFails, AtStep, LockInv,
                    Execution
      <3>2. CASE Complete(h) \/ MarkFailed(h) \/ StartRejects(h) \/ MarkFailedRejects(h)
        BY <3>2, IdleExecution DEF Complete, MarkFailed, StartRejects, MarkFailedRejects,
                    Return, Throw, LockInv
      <3>3. CASE LoseJob(h)
        BY <3>0, <3>3, OwnerWorks DEF LoseJob, LockInv, Execution
      <3> QED
        BY <1>1, <2>1, <3>1, <3>2, <3>3 DEF HandleScrape
    <2>2. CASE g # h
      <3>1. handler'[h] = handler[h]
        BY <1>1, <2>2 DEF HandleScrape, Start, StartRejects, CrawlEnds, CrawlFails,
                    Complete, CompleteFails, MarkFailed, MarkFailedRejects, LoseJob,
                    Return, Throw, AtStep, LockInv
      <3> QED
        BY <3>1
    <2> QED
      BY <2>1, <2>2
  <1>2. ASSUME NEW g \in Handler, TakeJob(g)
        PROVE  \/ handler[h].pc # "idle" /\ handler'[h].run = handler[h].run
               \/ handler'[h].run \in Run /\ jobs[handler'[h].run].state # "none"
    <2>1. PICK r \in Run :
            /\ jobs[r].state = "waiting"
            /\ handler' = [handler EXCEPT ![g] = [Idle EXCEPT !.pc = "start", !.run = r,
                                                              !.owns = TRUE]]
      BY <1>2 DEF TakeJob
    <2> QED
      BY <2>1 DEF LockInv, Idle
  <1>3. CASE Crash \/ \E q \in Run : FailedEventRejects(q)
    BY <1>3, IdleExecution DEF Crash, FailedEventRejects, Die
  <1>4. CASE \/ \E s \in Starter : StartScrape(s)
             \/ \E q \in Run : StallDead(q) \/ FailedEvent(q)
             \/ Reconcile \/ UNCHANGED vars
    <2>1. handler' = handler
      BY <1>4 DEF StartScrape, FindRun, GetJob, FailOld, InsertRun, LinkJob, AddJob,
                  AddJobFails, AddFailed, StartFails, StallDead, FailedEvent, Reconcile,
                  Boot, ReconcileRow, ReconcileGetJob, ReconcileFail, ReconcileEnds, vars
    <2> QED
      BY <2>1
  <1> QED
    BY <1>1, <1>2, <1>3, <1>4 DEF Next

(* A request is past its INSERT with the run it inserted.                       *)
LEMMA InsertsCome ==
  ASSUME RunsType, StarterInv, [Next]_vars, NEW s \in Starter, Inserted(s)'
  PROVE  \/ Inserted(s) /\ starter'[s].run = starter[s].run
         \/ runs'[starter'[s].run].status # "absent"
  <1>1. ASSUME NEW t \in Starter, StartScrape(t), t # s
        PROVE  starter'[s] = starter[s]
    BY <1>1 DEF StartScrape, FindRun, GetJob, FailOld, InsertRun, LinkJob, AddJob,
                AddJobFails, AddFailed, StartFails, Answer, Goto, GotoWith, StarterInv
  <1>2. CASE InsertRun(s)
    <2>1. PICK r \in Run : /\ starter' = GotoWith(s, "link", r)
                           /\ runs'[r].status = "queued"
      BY <1>2, InsertedRun
    <2>2. starter'[s].run = r
      BY <2>1 DEF GotoWith, StarterInv
    <2> QED
      BY <2>1, <2>2
  <1>3. CASE \/ FindRun(s) \/ GetJob(s) \/ FailOld(s) \/ LinkJob(s) \/ AddJob(s)
             \/ AddJobFails(s) \/ AddFailed(s) \/ StartFails(s)
    BY <1>3, NoRequestType DEF FindRun, GetJob, FailOld, LinkJob, AddJob, AddJobFails,
                AddFailed, StartFails, Answer, Goto, GotoWith, StarterInv, Inserted, Request
  <1>4. CASE Crash \/ \E q \in Run : FailedEventRejects(q)
    BY <1>4, NoRequestType DEF Crash, FailedEventRejects, Die, Inserted
  <1>5. CASE \/ \E h \in Handler : TakeJob(h) \/ LoseJob(h) \/ HandleScrape(h)
             \/ \E r \in Run : StallDead(r) \/ FailedEvent(r)
             \/ Reconcile \/ UNCHANGED vars
    <2>1. starter' = starter
      BY <1>5 DEF TakeJob, LoseJob, HandleScrape, Start, StartRejects, CrawlEnds,
                  CrawlFails, Complete, CompleteFails, MarkFailed, MarkFailedRejects,
                  StallDead, FailedEvent, Reconcile, Boot, ReconcileRow,
                  ReconcileGetJob, ReconcileFail, ReconcileEnds, vars
    <2> QED
      BY <2>1 DEF Inserted
  <1> QED
    BY <1>1, <1>2, <1>3, <1>4, <1>5 DEF Next, StartScrape, Inserted

LEMMA ExistInit == Init => ExistInv
  BY IdleExecution DEF Init, ExistInv, NoJob, Inserted, NoRequest

LEMMA ExistNext ==
  RunsType /\ LockInv /\ StarterInv /\ ExistInv /\ [Next]_vars => ExistInv'
  <1> SUFFICES ASSUME RunsType, LockInv, StarterInv, ExistInv, [Next]_vars PROVE ExistInv'
    OBVIOUS
  <1>0. \A s \in Starter : Inserted(s) => starter[s].run \in Run
    BY DEF Inserted, StarterInv, Placing
  <1>1. ASSUME NEW r \in Run, jobs'[r].state # "none" PROVE runs'[r].status # "absent"
    <2>1. runs[r].status # "absent"
      BY <1>1, JobsCome DEF ExistInv
    <2> QED
      BY <2>1, PresentStays
  <1>2. ASSUME NEW h \in Handler, handler'[h].pc # "idle"
        PROVE  runs'[handler'[h].run].status # "absent"
    <2>1. handler'[h].run \in Run /\ runs[handler'[h].run].status # "absent"
      BY <1>2, HandlersCome DEF ExistInv, LockInv, Placed
    <2> QED
      BY <2>1, PresentStays
  <1>3. ASSUME NEW s \in Starter, Inserted(s)' PROVE runs'[starter'[s].run].status # "absent"
    BY <1>0, <1>3, InsertsCome, PresentStays DEF ExistInv
  <1> QED
    BY <1>1, <1>2, <1>3 DEF ExistInv

-----------------------------------------------------------------------------
(* A running run is crawled *)

LEMMA RunningComes ==
  ASSUME RunsType, LockInv, StarterInv, [Next]_vars, NEW r \in Run,
         runs'[r].status = "running"
  PROVE  \/ runs[r].status = "running"
         \/ \E h \in Handler : Start(h) /\ handler[h].run = r
  <1>1. ASSUME NEW s \in Starter, InsertRun(s) \/ LinkJob(s)
        PROVE  runs[r].status = "running"
    BY <1>1, InsertedRun, LinkedRun
  <1>2. ASSUME NEW h \in Handler, HandleScrape(h)
        PROVE  runs[r].status = "running" \/ (Start(h) /\ handler[h].run = r)
    BY <1>2, HandledRun
  <1>3. CASE runs' = runs \/ FailsAtMost
    BY <1>3, RunFailed DEF FailsAtMost
  <1> QED
    BY <1>1, <1>2, <1>3, OtherRuns

(* A job that changes hands adds its run to the events at most.                *)
LEMMA EventsGrow ==
  ASSUME NEW h \in Handler, TakeJob(h) \/ LoseJob(h) \/ HandleScrape(h)
  PROVE  events \subseteq events' /\ abandoned \subseteq abandoned'
  BY DEF TakeJob, LoseJob, HandleScrape, Start, StartRejects, CrawlEnds, CrawlFails,
         Complete, CompleteFails, MarkFailed, MarkFailedRejects, Return, Throw, SetJob,
         queueVars, flags

(* The handler that stops with an error tells somebody.                        *)
LEMMA RejectionHeard ==
  ASSUME LockInv, NEW h \in Handler, StartRejects(h) \/ MarkFailedRejects(h)
  PROVE  handler[h].run \in events' \cup abandoned'
  <1>1. CASE handler[h].owns
    <2>1. handler[h].run \in Run /\ jobs[handler[h].run].state = "active"
      BY <1>1, OwnerWorks DEF LockInv
    <2>2. FailedAttempt(jobs[handler[h].run], Attempts).state = "failed"
      BY <2>1, JobAfterFailure
    <2> QED
      BY <1>1, <2>2 DEF StartRejects, MarkFailedRejects, Throw, SetJob
  <1>2. CASE ~handler[h].owns
    BY <1>2 DEF StartRejects, MarkFailedRejects
  <1> QED
    BY <1>1, <1>2

LEMMA CrawlerInit == Init => RunningHasCrawler
  BY DEF Init, RunningHasCrawler, Absent

LEMMA CrawlerNext ==
  RunsType /\ LockInv /\ StarterInv /\ RunningHasCrawler /\ [Next]_vars
    => RunningHasCrawler'
  <1> SUFFICES ASSUME RunsType, LockInv, StarterInv, RunningHasCrawler, [Next]_vars,
                      NEW r \in Run, runs'[r].status = "running"
               PROVE  \/ \E h \in Handler : handler'[h].run = r
                      \/ r \in events' \cup abandoned'
    BY DEF RunningHasCrawler, Crawling
  <1>1. ASSUME NEW h \in Handler, Start(h), handler[h].run = r
        PROVE  handler'[h].run = r
    BY <1>1 DEF Start, AtStep, LockInv, Execution
  <1>2. ASSUME runs[r].status = "running"
        PROVE  \/ \E h \in Handler : handler'[h].run = r
               \/ r \in events' \cup abandoned'
    <2>1. \/ \E h \in Handler : handler[h].run = r
          \/ r \in events \cup abandoned
      BY <1>2 DEF RunningHasCrawler, Crawling
    <2>2. ASSUME NEW h \in Handler, HandleScrape(h)
          PROVE  \/ \E g \in Handler : handler'[g].run = r
                 \/ r \in events' \cup abandoned'
      <3>1. CASE r \in events \cup abandoned
        BY <2>2, <3>1, EventsGrow
      <3>2. CASE handler[h].run = r
        <4>1. CASE Start(h) \/ CrawlEnds(h) \/ CrawlFails(h) \/ CompleteFails(h)
          <5>1. handler'[h].run = r
            BY <3>2, <4>1 DEF Start, CrawlEnds, CrawlFails, CompleteFails, AtStep,
                        LockInv, Execution
          <5> QED
            BY <5>1
        <4>2. CASE StartRejects(h) \/ MarkFailedRejects(h)
          BY <3>2, <4>2, RejectionHeard
        <4>3. CASE Complete(h) \/ MarkFailed(h)
          BY <2>2, <3>2, <4>3, HandledRun
        <4> QED
          BY <2>2, <4>1, <4>2, <4>3 DEF HandleScrape
      <3>3. ASSUME NEW g \in Handler, g # h, handler[g].run = r
            PROVE  handler'[g].run = r
        BY <2>2, <3>3 DEF HandleScrape, Start, StartRejects, CrawlEnds, CrawlFails,
                    Complete, CompleteFails, MarkFailed, MarkFailedRejects, Return,
                    Throw, AtStep, LockInv
      <3> QED
        BY <2>1, <3>1, <3>2, <3>3
    <2>3. ASSUME NEW h \in Handler, TakeJob(h) \/ LoseJob(h)
          PROVE  \/ \E g \in Handler : handler'[g].run = r
                 \/ r \in events' \cup abandoned'
      <3>1. CASE r \in events \cup abandoned
        BY <2>3, <3>1, EventsGrow
      <3>2. ASSUME NEW g \in Handler, handler[g].run = r PROVE handler'[g].run = r
        <4>1. CASE LoseJob(h)
          BY <3>2, <4>1 DEF LoseJob, LockInv, Execution
        <4>2. CASE TakeJob(h)
          <5>1. handler[h].run = 0 /\ r # 0
            BY <4>2, IdleExecution, ZeroIsNoRun DEF TakeJob, LockInv, Placed
          <5> QED
            BY <3>2, <4>2, <5>1 DEF TakeJob, LockInv
        <4> QED
          BY <2>3, <4>1, <4>2
      <3> QED
        BY <2>1, <3>1, <3>2
    <2>4. CASE Crash \/ \E q \in Run : FailedEventRejects(q)
      BY <1>2, <2>4 DEF Crash, FailedEventRejects, Die, OpenRuns, Open
    <2>5. ASSUME NEW q \in Run, FailedEvent(q)
          PROVE  \/ \E g \in Handler : handler'[g].run = r
                 \/ r \in events' \cup abandoned'
      <3>1. q # r
        BY <1>2, <2>5, RunFailed DEF FailedEvent, Open
      <3> QED
        BY <2>1, <2>5, <3>1 DEF FailedEvent, flags
    <2>6. CASE \/ \E s \in Starter : StartScrape(s)
               \/ \E q \in Run : StallDead(q)
               \/ Reconcile \/ UNCHANGED vars
      <3>1. handler' = handler /\ events \subseteq events' /\ abandoned \subseteq abandoned'
        BY <2>6 DEF StartScrape, FindRun, GetJob, FailOld, InsertRun, LinkJob, AddJob,
                    AddJobFails, AddFailed, StartFails, StallDead, SetJob, Reconcile,
                    Boot, ReconcileRow, ReconcileGetJob, ReconcileFail, ReconcileEnds,
                    queueVars, flags, vars
      <3> QED
        BY <2>1, <3>1
    <2> QED
      BY <2>2, <2>3, <2>4, <2>5, <2>6 DEF Next
  <1> QED
    BY <1>1, <1>2, RunningComes

-----------------------------------------------------------------------------
(* One open run *)

(* Without a race one request at most is between its check and its INSERT; it  *)
(* knows of every open run, and once it has got to the INSERT there is none.    *)
SingleInv ==
  /\ ~raced => \A s, t \in Starter : Inserting(s) /\ Inserting(t) => s = t
  /\ ~raced /\ ~revived =>
       /\ \A q, r \in OpenRuns : q = r
       /\ \A s \in Starter :
            /\ starter[s].pc = "insert" => OpenRuns = {}
            /\ starter[s].pc \in {"getJob", "failOld"} => OpenRuns \subseteq {starter[s].run}

LEMMA SingleInit == Init => SingleInv
  BY DEF Init, SingleInv, NoRequest, Inserting, OpenRuns, Absent, Open

(* No run is opened, and no request begins or ends.                            *)
LEMMA SingleFrame ==
  ASSUME SingleInv, ~revived' => OpenRuns' \subseteq OpenRuns, starter' = starter,
         raced' = raced, revived => revived'
  PROVE  SingleInv'
  BY DEF SingleInv, Inserting

(* What may open a run. *)
LEMMA OpenRunsShrink ==
  ASSUME RunsType, LockInv, StarterInv, ExistInv, [Next]_vars,
         ~\E s \in Starter : InsertRun(s), ~revived'
  PROVE  OpenRuns' \subseteq OpenRuns
  <1>1. ASSUME NEW s \in Starter, LinkJob(s) PROVE OpenRuns' \subseteq OpenRuns
    BY <1>1, LinkedRun DEF OpenRuns
  <1>2. ASSUME NEW h \in Handler, HandleScrape(h) PROVE OpenRuns' \subseteq OpenRuns
    <2>1. CASE Start(h)
      <3>1. runs[handler[h].run].status \in Open
        <4>1. ~Ended(handler[h].run)
          BY <2>1 DEF Start
        <4>2. runs[handler[h].run] \in RunRow /\ runs[handler[h].run].status # "absent"
          BY <1>2, HandledRun DEF ExistInv, RunsType
        <4> QED
          BY <4>1, <4>2 DEF Ended, RunRow
      <3> QED
        BY <1>2, <3>1, HandledRun DEF OpenRuns
    <2>2. CASE ~Start(h)
      BY <1>2, <2>2, HandledRun DEF OpenRuns, Open
    <2> QED
      BY <2>1, <2>2
  <1>3. CASE runs' = runs \/ FailsAtMost
    BY <1>3, RunFailed DEF FailsAtMost, OpenRuns, Open
  <1> QED
    BY <1>1, <1>2, <1>3, OtherRuns

(* A request goes on without an INSERT. *)
LEMMA SingleRequest ==
  ASSUME StarterInv, SingleInv, NEW s \in Starter, NEW x \in Request,
         starter' = [starter EXCEPT ![s] = x],
         Inserting(s),
         OpenRuns' \subseteq OpenRuns, raced' = raced, revived' = revived,
         ~raced /\ ~revived => (x.pc = "insert" => OpenRuns' = {}),
         ~raced /\ ~revived =>
           (x.pc \in {"getJob", "failOld"} => OpenRuns' \subseteq {x.run})
  PROVE  SingleInv'
  <1>1. \A t \in Starter : starter'[t] = IF t = s THEN x ELSE starter[t]
    BY DEF StarterInv
  <1>2. \A t \in Starter : Inserting(t)' => Inserting(t)
    BY <1>1 DEF Inserting
  <1>3. ASSUME ~raced' PROVE \A t, u \in Starter : Inserting(t)' /\ Inserting(u)' => t = u
    BY <1>2, <1>3 DEF SingleInv
  <1>4. ASSUME ~raced', ~revived'
        PROVE  /\ \A q, r \in OpenRuns' : q = r
               /\ \A t \in Starter :
                    /\ starter'[t].pc = "insert" => OpenRuns' = {}
                    /\ starter'[t].pc \in {"getJob", "failOld"} =>
                         OpenRuns' \subseteq {starter'[t].run}
    <2>0. ~raced /\ ~revived
      BY <1>4
    <2>1. /\ x.pc = "insert" => OpenRuns' = {}
          /\ x.pc \in {"getJob", "failOld"} => OpenRuns' \subseteq {x.run}
      BY <2>0
    <2>2. \A q, r \in OpenRuns' : q = r
      BY <2>0 DEF SingleInv
    <2>3. ASSUME NEW t \in Starter
          PROVE  /\ starter'[t].pc = "insert" => OpenRuns' = {}
                 /\ starter'[t].pc \in {"getJob", "failOld"} =>
                      OpenRuns' \subseteq {starter'[t].run}
      <3>1. CASE t = s
        BY <1>1, <2>1, <3>1
      <3>2. CASE t # s
        BY <1>1, <2>0, <3>2 DEF SingleInv
      <3> QED
        BY <3>1, <3>2
    <2> QED
      BY <2>2, <2>3
  <1> QED
    BY <1>3, <1>4 DEF SingleInv

(* A request that is past its INSERT, or ends, does not matter any more.       *)
LEMMA SinglePast ==
  ASSUME StarterInv, SingleInv, NEW s \in Starter, NEW x \in Request,
         starter' = [starter EXCEPT ![s] = x],
         x.pc \notin {"getJob", "failOld", "insert"},
         OpenRuns' \subseteq OpenRuns, UNCHANGED <<raced, revived>>
  PROVE  SingleInv'
  <1>1. \A t \in Starter : starter'[t] = IF t = s THEN x ELSE starter[t]
    BY DEF StarterInv
  <1>2. \A t \in Starter : Inserting(t)' => Inserting(t) /\ starter'[t] = starter[t]
    BY <1>1 DEF Inserting
  <1> QED
    BY <1>1, <1>2 DEF SingleInv, Inserting

LEMMA SingleFind ==
  ASSUME StarterInv, SingleInv, NEW s \in Starter, FindRun(s)
  PROVE  SingleInv'
  <1>1. /\ UNCHANGED <<runs, revived>> /\ starter[s].pc = "idle"
        /\ OpenRuns' = OpenRuns
    BY DEF FindRun, OpenRuns
  <1>2. \A t \in Starter \ {s} : starter'[t] = starter[t]
    BY DEF FindRun, Goto, GotoWith, Answer, StarterInv
  <1>3. raced => raced'
    BY DEF FindRun
  <1>4. ~raced' => \A t \in Starter \ {s} : ~Inserting(t)
    BY DEF FindRun
  <1>5. ASSUME ~raced' PROVE \A t, u \in Starter : Inserting(t)' /\ Inserting(u)' => t = u
    BY <1>2, <1>4, <1>5 DEF Inserting
  <1>6. ASSUME ~raced', ~revived'
        PROVE  /\ \A q, r \in OpenRuns' : q = r
               /\ \A t \in Starter :
                    /\ starter'[t].pc = "insert" => OpenRuns' = {}
                    /\ starter'[t].pc \in {"getJob", "failOld"} =>
                         OpenRuns' \subseteq {starter'[t].run}
    <2>1. ~raced /\ ~revived
      BY <1>1, <1>3, <1>6
    <2>2. \A q, r \in OpenRuns : q = r
      BY <2>1 DEF SingleInv
    <2>3. \A t \in Starter \ {s} : starter'[t].pc \notin {"getJob", "failOld", "insert"}
      BY <1>2, <1>4, <1>6 DEF Inserting
    <2>4. /\ starter'[s].pc = "insert" => OpenRuns = {}
          /\ starter'[s].pc \in {"getJob", "failOld"} => OpenRuns \subseteq {starter'[s].run}
      <3>1. CASE InFlight = {} /\ starter' = Goto(s, "insert")
        <4>1. starter'[s].pc = "insert" /\ OpenRuns = {}
          BY <3>1 DEF Goto, StarterInv, InFlight, Request
        <4> QED
          BY <4>1
      <3>2. ASSUME NEW old \in InFlight, NEW pc, starter' = GotoWith(s, pc, old)
            PROVE  OpenRuns \subseteq {starter'[s].run} /\ starter'[s].pc = pc
        BY <2>2, <3>2 DEF GotoWith, StarterInv, InFlight
      <3>3. CASE starter' = Answer(s)
        BY <3>3, NoRequestType DEF Answer, StarterInv
      <3>4. ASSUME NEW old \in InFlight,
                   starter' \in {GotoWith(s, "getJob", old), GotoWith(s, "failOld", old)}
            PROVE  starter'[s].pc # "insert" /\ OpenRuns \subseteq {starter'[s].run}
        BY <3>2, <3>4
      <3> QED
        BY <3>1, <3>3, <3>4 DEF FindRun
    <2> QED
      BY <1>1, <2>2, <2>3, <2>4
  <1> QED
    BY <1>5, <1>6 DEF SingleInv

LEMMA SingleInsert ==
  ASSUME RunsType, StarterInv, SingleInv, NEW s \in Starter, InsertRun(s)
  PROVE  SingleInv'
  <1>1. PICK r \in Run :
          /\ starter' = GotoWith(s, "link", r)
          /\ \A q \in Run : runs'[q].status = IF q = r THEN "queued" ELSE runs[q].status
    BY InsertedRun
  <1>2. UNCHANGED <<raced, revived>> /\ starter[s].pc = "insert"
    BY DEF InsertRun, flags
  <1>3. \A t \in Starter : starter'[t] = IF t = s THEN [pc |-> "link", run |-> r]
                                                  ELSE starter[t]
    BY <1>1 DEF GotoWith, StarterInv
  <1>4. \A t \in Starter : Inserting(t)' => Inserting(t) /\ t # s
    BY <1>3 DEF Inserting
  <1>5. ASSUME ~raced' PROVE \A t \in Starter : ~Inserting(t)'
    BY <1>2, <1>4, <1>5 DEF SingleInv, Inserting
  <1>6. ASSUME ~raced', ~revived' PROVE OpenRuns' = {r}
    <2>1. OpenRuns = {}
      BY <1>2, <1>6 DEF SingleInv
    <2> QED
      BY <1>1, <2>1 DEF OpenRuns, Open
  <1> QED
    BY <1>5, <1>6 DEF SingleInv, Inserting

LEMMA SingleNext ==
  RunsType /\ LockInv /\ StarterInv /\ ExistInv /\ SingleInv /\ [Next]_vars => SingleInv'
  <1> SUFFICES ASSUME RunsType, LockInv, StarterInv, ExistInv, SingleInv, [Next]_vars
               PROVE  SingleInv'
    OBVIOUS
  <1>1. ASSUME NEW s \in Starter, StartScrape(s) PROVE SingleInv'
    <2>0. starter[s] \in Request
      BY DEF StarterInv
    <2>1. CASE GetJob(s)
      <3>0. UNCHANGED <<runs, raced, revived>> /\ starter[s].pc = "getJob"
        BY <2>1 DEF GetJob, flags
      <3>1. OpenRuns' = OpenRuns
        BY <3>0 DEF OpenRuns
      <3>2. CASE starter' = Answer(s)
        BY <3>0, <3>1, <3>2, NoRequestType, SinglePast DEF Answer
      <3>3. CASE starter' = Goto(s, "failOld")
        <4> DEFINE x == [starter[s] EXCEPT !.pc = "failOld"]
        <4>1. x \in Request /\ x.pc = "failOld" /\ x.run = starter[s].run
          BY <2>0 DEF Request
        <4>2. starter' = [starter EXCEPT ![s] = x]
          BY <3>3 DEF Goto
        <4>3. ~raced /\ ~revived => OpenRuns \subseteq {x.run}
          BY <3>0, <4>1 DEF SingleInv
        <4>4. Inserting(s)
          BY <3>0 DEF Inserting
        <4> HIDE DEF x
        <4> QED
          BY <3>0, <3>1, <4>1, <4>2, <4>3, <4>4, SingleRequest
      <3> QED
        BY <2>1, <3>2, <3>3 DEF GetJob
    <2>2. CASE FailOld(s)
      <3> DEFINE x == [starter[s] EXCEPT !.pc = "insert"]
      <3>0. /\ UNCHANGED <<raced, revived>> /\ starter[s].pc = "failOld"
            /\ runs' = FailRun(starter[s].run) /\ starter[s].run \in Run
        BY <2>2 DEF FailOld, flags, StarterInv, Placing
      <3>1. OpenRuns' = OpenRuns \ {starter[s].run}
        BY <3>0, RunFailed DEF OpenRuns, Open
      <3>2. x \in Request /\ x.pc = "insert"
        BY <2>0 DEF Request
      <3>3. starter' = [starter EXCEPT ![s] = x]
        BY <2>2 DEF FailOld, Goto
      <3>4. ~raced /\ ~revived => OpenRuns' = {}
        BY <3>0, <3>1 DEF SingleInv
      <3>5. Inserting(s)
        BY <3>0 DEF Inserting
      <3> HIDE DEF x
      <3> QED
        BY <3>0, <3>1, <3>2, <3>3, <3>4, <3>5, SingleRequest
    <2>3. CASE LinkJob(s) \/ AddJob(s) \/ AddJobFails(s) \/ AddFailed(s) \/ StartFails(s)
      <3>0. UNCHANGED <<raced, revived>>
        BY <2>3 DEF LinkJob, AddJob, AddJobFails, AddFailed, StartFails, flags
      <3>1. OpenRuns' \subseteq OpenRuns
        <4>1. CASE LinkJob(s)
          BY <4>1, LinkedRun DEF OpenRuns
        <4>2. CASE AddFailed(s)
          <5>1. runs' = FailRun(starter[s].run) /\ starter[s].run \in Run
            BY <4>2 DEF AddFailed, StarterInv, Placing
          <5> QED
            BY <5>1, RunFailed DEF OpenRuns, Open
        <4>3. CASE AddJob(s) \/ AddJobFails(s) \/ StartFails(s)
          BY <4>3 DEF AddJob, AddJobFails, StartFails, OpenRuns
        <4> QED
          BY <2>3, <4>1, <4>2, <4>3
      <3>2. ASSUME NEW pc \in {"add", "addFailed"}, starter' = Goto(s, pc)
            PROVE  SingleInv'
        <4> DEFINE x == [starter[s] EXCEPT !.pc = pc]
        <4>1. x \in Request /\ x.pc = pc
          BY <2>0 DEF Request
        <4>2. starter' = [starter EXCEPT ![s] = x]
          BY <3>2 DEF Goto
        <4> HIDE DEF x
        <4> QED
          BY <3>0, <3>1, <4>1, <4>2, SinglePast
      <3>3. ASSUME starter' = Answer(s) PROVE SingleInv'
        BY <3>0, <3>1, <3>3, NoRequestType, SinglePast DEF Answer
      <3> QED
        BY <2>3, <3>2, <3>3 DEF LinkJob, AddJob, AddJobFails, AddFailed, StartFails
    <2> QED
      BY <1>1, <2>1, <2>2, <2>3, SingleFind, SingleInsert DEF StartScrape
  <1>2. CASE Crash \/ \E q \in Run : FailedEventRejects(q)
    <2>1. /\ runs' = runs /\ raced' = raced /\ revived' = revived
          /\ \A s \in Starter : starter'[s] = NoRequest
      BY <1>2 DEF Crash, FailedEventRejects, Die
    <2>2. OpenRuns' = OpenRuns
      BY <2>1 DEF OpenRuns
    <2>3. \A s \in Starter : ~Inserting(s)'
      BY <2>1, NoRequestType DEF Inserting
    <2>4. \A s \in Starter : starter'[s].pc \notin {"getJob", "failOld", "insert"}
      BY <2>1, NoRequestType
    <2>5. ASSUME ~raced', ~revived' PROVE \A q, r \in OpenRuns' : q = r
      <3>1. ~raced /\ ~revived
        BY <2>1, <2>5
      <3> QED
        BY <2>2, <3>1 DEF SingleInv
    <2>6. \A s \in Starter : /\ starter'[s].pc = "insert" => OpenRuns' = {}
                             /\ starter'[s].pc \in {"getJob", "failOld"} =>
                                  OpenRuns' \subseteq {starter'[s].run}
      BY <2>4
    <2>7. ASSUME ~raced' PROVE \A s, t \in Starter : Inserting(s)' /\ Inserting(t)' => s = t
      BY <2>3
    <2>8. ASSUME ~raced', ~revived'
          PROVE  /\ \A q, r \in OpenRuns' : q = r
                 /\ \A s \in Starter :
                      /\ starter'[s].pc = "insert" => OpenRuns' = {}
                      /\ starter'[s].pc \in {"getJob", "failOld"} =>
                           OpenRuns' \subseteq {starter'[s].run}
      BY <2>5, <2>6, <2>8
    <2> QED
      BY <2>7, <2>8 DEF SingleInv
  <1>3. CASE /\ ~\E s \in Starter : StartScrape(s)
             /\ ~Crash /\ ~\E q \in Run : FailedEventRejects(q)
    <2>1. starter' = starter /\ raced' = raced /\ (revived => revived')
      <3>1. ASSUME NEW h \in Handler, HandleScrape(h)
            PROVE  starter' = starter /\ raced' = raced /\ (revived => revived')
        <4>1. CASE Start(h)
          BY <4>1 DEF Start
        <4>2. CASE StartRejects(h) \/ MarkFailedRejects(h)
          BY <4>2 DEF StartRejects, MarkFailedRejects
        <4> QED
          BY <3>1, <4>1, <4>2 DEF HandleScrape, CrawlEnds, CrawlFails, Complete,
                                  CompleteFails, MarkFailed, flags
      <3>2. ASSUME NEW h \in Handler, TakeJob(h) \/ LoseJob(h)
            PROVE  starter' = starter /\ raced' = raced /\ (revived => revived')
        <4>1. starter' = starter /\ flags' = flags
          BY <3>2 DEF TakeJob, LoseJob
        <4> QED
          BY <4>1 DEF flags
      <3>3. ASSUME NEW q \in Run, StallDead(q) \/ FailedEvent(q)
            PROVE  starter' = starter /\ raced' = raced /\ (revived => revived')
        BY <3>3 DEF StallDead, FailedEvent, flags
      <3>4. CASE UNCHANGED vars
        BY <3>4 DEF vars
      <3>5. CASE Reconcile
        <4>1. ASSUME NEW y \in recon.todo, ReconcileRow(y)
              PROVE  starter' = starter /\ raced' = raced /\ (revived => revived')
          BY <4>1 DEF ReconcileRow, flags
        <4>2. CASE Boot \/ ReconcileGetJob \/ ReconcileFail \/ ReconcileEnds
          BY <4>2 DEF Boot, ReconcileGetJob, ReconcileFail, ReconcileEnds, flags
        <4> QED
          BY <3>5, <4>1, <4>2 DEF Reconcile
      <3> QED
        BY <1>3, <3>1, <3>2, <3>3, <3>4, <3>5 DEF Next
    <2>2. ~revived' => OpenRuns' \subseteq OpenRuns
      BY <1>3, OpenRunsShrink DEF StartScrape
    <2> QED
      BY <2>1, <2>2, SingleFrame
  <1> QED
    BY <1>1, <1>2, <1>3

-----------------------------------------------------------------------------
(* The remaining types *)

ReconType == recon \in Reconciliation

LEMMA ReconInit == Init => ReconType
  BY DEF Init, Finished, ReconType, Reconciliation

LEMMA ReconNext == RunsType /\ ReconType /\ [Next]_vars => ReconType'
  <1> SUFFICES ASSUME RunsType, ReconType, [Next]_vars PROVE ReconType'
    OBVIOUS
  <1>1. CASE Boot
    <2> DEFINE rows == {[run |-> r, status |-> runs[r].status, linked |-> runs[r].linked] :
                          r \in OpenRuns}
    <2>1. rows \subseteq Selected
      <3>1. ASSUME NEW r \in OpenRuns
            PROVE  r \in Run /\ runs[r].status \in Open /\ runs[r].linked \in BOOLEAN
        BY DEF OpenRuns, RunsType, RunRow
      <3> QED
        BY <3>1 DEF Selected
    <2>2. recon' = [pc |-> "rows", run |-> 0, todo |-> rows]
      BY <1>1 DEF Boot
    <2> HIDE DEF rows
    <2> QED
      BY <2>1, <2>2 DEF ReconType, Reconciliation
  <1>2. ASSUME NEW x \in recon.todo, ReconcileRow(x) PROVE ReconType'
    <2>1. x \in Selected /\ recon.todo \ {x} \subseteq Selected /\ x.run \in Run
      BY DEF ReconType, Reconciliation, Selected
    <2>2. PICK pc \in {"rows", "update", "getJob"} : ReconcileGo(pc, x)
      BY <1>2 DEF ReconcileRow
    <2> QED
      BY <2>1, <2>2 DEF ReconcileGo, ReconType, Reconciliation
  <1>3. CASE ReconcileGetJob \/ ReconcileFail \/ ReconcileEnds
    BY <1>3 DEF ReconcileGetJob, ReconcileFail, ReconcileEnds, Finished, ReconType,
                Reconciliation
  <1>4. CASE Crash \/ \E q \in Run : FailedEventRejects(q)
    BY <1>4 DEF Crash, FailedEventRejects, Die, ReconType, Reconciliation
  <1>5. CASE \/ \E s \in Starter : StartScrape(s)
             \/ \E h \in Handler : TakeJob(h) \/ LoseJob(h) \/ HandleScrape(h)
             \/ \E q \in Run : StallDead(q) \/ FailedEvent(q)
             \/ UNCHANGED vars
    <2>1. recon' = recon
      BY <1>5 DEF StartScrape, FindRun, GetJob, FailOld, InsertRun, LinkJob, AddJob,
                  AddJobFails, AddFailed, StartFails, TakeJob, LoseJob, HandleScrape,
                  Start, StartRejects, CrawlEnds, CrawlFails, Complete, CompleteFails,
                  MarkFailed, MarkFailedRejects, StallDead, FailedEvent, vars
    <2> QED
      BY <2>1 DEF ReconType
  <1> QED
    BY <1>1, <1>2, <1>3, <1>4, <1>5 DEF Next, Reconcile

BoundType == overruns \in 0 .. MaxOverruns /\ crashes \in 0 .. MaxCrashes

LEMMA BoundInit == Init => BoundType
  BY BoundsInNat DEF Init, BoundType

LEMMA BoundNext == BoundType /\ [Next]_vars => BoundType'
  <1> SUFFICES ASSUME BoundType, [Next]_vars PROVE BoundType'
    OBVIOUS
  <1>1. /\ overruns' = overruns \/ (overruns < MaxOverruns /\ overruns' = overruns + 1)
        /\ crashes' = crashes \/ (crashes < MaxCrashes /\ crashes' = crashes + 1)
    BY DEF Next, StartScrape, FindRun, GetJob, FailOld, InsertRun, LinkJob, AddJob,
           AddJobFails, AddFailed, StartFails, TakeJob, LoseJob, HandleScrape,
           Start, StartRejects, CrawlEnds, CrawlFails, Complete, CompleteFails,
           MarkFailed, MarkFailedRejects, StallDead, FailedEvent, FailedEventRejects,
           Crash, Die, Reconcile, Boot, ReconcileRow, ReconcileGetJob, ReconcileFail,
           ReconcileEnds, bounds, vars
  <1> QED
    BY <1>1, BoundsInNat DEF BoundType

EventType == events \subseteq Run /\ abandoned \subseteq Run

LEMMA EventInit == Init => EventType
  BY DEF Init, EventType

LEMMA EventNext == EventType /\ LockInv /\ StarterInv /\ [Next]_vars => EventType'
  <1> SUFFICES ASSUME EventType, LockInv, StarterInv, [Next]_vars PROVE EventType'
    OBVIOUS
  <1>1. ASSUME NEW s \in Starter, StartScrape(s) PROVE EventType'
    <2>1. CASE StartFails(s)
      BY <2>1 DEF StartFails, StarterInv, Placing, EventType, queueVars
    <2>2. CASE ~StartFails(s)
      BY <1>1, <2>2 DEF StartScrape, FindRun, GetJob, FailOld, InsertRun, LinkJob, AddJob,
                  AddJobFails, AddFailed, EventType, queueVars, flags
    <2> QED
      BY <2>1, <2>2
  <1>2. ASSUME NEW h \in Handler, HandleScrape(h) PROVE EventType'
    <2>1. handler[h].pc # "idle"
      BY <1>2 DEF HandleScrape, Start, StartRejects, CrawlEnds, CrawlFails, Complete,
                  CompleteFails, MarkFailed, MarkFailedRejects
    <2>2. handler[h].run \in Run
      BY <2>1 DEF LockInv, Placed
    <2>3. events' \subseteq events \cup {handler[h].run}
      BY <1>2 DEF HandleScrape, Start, StartRejects, CrawlEnds, CrawlFails, Complete,
                  CompleteFails, MarkFailed, MarkFailedRejects, Return, Throw, SetJob,
                  queueVars
    <2>4. abandoned' \subseteq abandoned \cup {handler[h].run}
      <3>1. CASE Start(h) \/ StartRejects(h) \/ MarkFailedRejects(h)
        BY <3>1 DEF Start, StartRejects, MarkFailedRejects
      <3>2. CASE CrawlEnds(h) \/ CrawlFails(h) \/ Complete(h) \/ CompleteFails(h)
                 \/ MarkFailed(h)
        BY <3>2 DEF CrawlEnds, CrawlFails, Complete, CompleteFails, MarkFailed, flags
      <3> QED
        BY <1>2, <3>1, <3>2 DEF HandleScrape
    <2> QED
      BY <2>2, <2>3, <2>4 DEF EventType
  <1>3. ASSUME NEW h \in Handler, TakeJob(h) \/ LoseJob(h) PROVE EventType'
    <2>1. CASE TakeJob(h)
      BY <2>1 DEF TakeJob, flags, EventType
    <2>2. CASE LoseJob(h)
      <3>1. handler[h].owns /\ flags' = flags
        BY <2>2 DEF LoseJob
      <3>2. handler[h].run \in Run
        BY <3>1, OwnerWorks
      <3>3. events' \subseteq events \cup {handler[h].run}
        BY <2>2 DEF LoseJob, SetJob
      <3> QED
        BY <3>1, <3>2, <3>3 DEF flags, EventType
    <2> QED
      BY <1>3, <2>1, <2>2
  <1>4. ASSUME NEW q \in Run, StallDead(q) \/ FailedEvent(q) PROVE EventType'
    BY <1>4 DEF StallDead, FailedEvent, SetJob, flags, EventType
  <1>5. CASE Crash \/ \E q \in Run : FailedEventRejects(q)
    BY <1>5 DEF Crash, FailedEventRejects, Die, EventType, OpenRuns
  <1>6. CASE Reconcile \/ UNCHANGED vars
    <2>1. events' = events /\ abandoned' = abandoned
      BY <1>6 DEF Reconcile, Boot, ReconcileRow, ReconcileGetJob, ReconcileFail,
                  ReconcileEnds, queueVars, flags, vars
    <2> QED
      BY <2>1 DEF EventType
  <1> QED
    BY <1>1, <1>2, <1>3, <1>4, <1>5, <1>6 DEF Next

FlagType == raced \in BOOLEAN /\ revived \in BOOLEAN

LEMMA FlagInit == Init => FlagType
  BY DEF Init, FlagType

LEMMA FlagNext == FlagType /\ [Next]_vars => FlagType'
  <1> SUFFICES ASSUME FlagType, [Next]_vars PROVE FlagType'
    OBVIOUS
  <1>1. ASSUME NEW s \in Starter, FindRun(s) PROVE FlagType'
    <2>1. raced' \in BOOLEAN
      BY <1>1 DEF FindRun
    <2>2. revived' = revived
      BY <1>1 DEF FindRun
    <2> QED
      BY <2>1, <2>2 DEF FlagType
  <1>2. ASSUME NEW h \in Handler, Start(h) PROVE FlagType'
    <2>1. revived' \in BOOLEAN
      BY <1>2 DEF Start
    <2>2. raced' = raced
      BY <1>2 DEF Start
    <2> QED
      BY <2>1, <2>2 DEF FlagType
  <1>3. CASE /\ ~\E s \in Starter : FindRun(s)
             /\ ~\E h \in Handler : Start(h)
    <2>1. raced' = raced /\ revived' = revived
      BY <1>3 DEF Next, StartScrape, GetJob, FailOld, InsertRun, LinkJob, AddJob,
             AddJobFails, AddFailed, StartFails, TakeJob, LoseJob, HandleScrape,
             StartRejects, CrawlEnds, CrawlFails, Complete, CompleteFails,
             MarkFailed, MarkFailedRejects, StallDead, FailedEvent, FailedEventRejects,
             Crash, Die, Reconcile, Boot, ReconcileRow, ReconcileGetJob, ReconcileFail,
             ReconcileEnds, flags, vars
    <2> QED
      BY <2>1 DEF FlagType
  <1> QED
    BY <1>1, <1>2, <1>3

-----------------------------------------------------------------------------
(* The inductive invariant and what it gives *)

ScrapeInv ==
  /\ RunsType /\ ReconType /\ BoundType /\ EventType /\ FlagType
  /\ LockInv /\ StarterInv /\ ExistInv
  /\ RunningHasCrawler /\ SingleInv

(* ScrapeInv holds in every reachable state. *)
THEOREM ScrapeInvariant == Spec => []ScrapeInv
  <1>1. Init => ScrapeInv
    BY RunsInit, ReconInit, BoundInit, EventInit, FlagInit, LockInit, StarterInit,
       ExistInit, CrawlerInit, SingleInit DEF ScrapeInv
  <1>2. ScrapeInv /\ [Next]_vars => ScrapeInv'
    BY RunsNext, ReconNext, BoundNext, EventNext, FlagNext, LockNext, StarterNext,
       ExistNext, CrawlerNext, SingleNext DEF ScrapeInv
  <1> QED
    BY <1>1, <1>2, PTL DEF Spec

(* Type correctness: above all, every request, handler, event and row of the   *)
(* reconciliation names a run that exists.                                    *)
THEOREM ScrapeTypeCorrect == Spec => []TypeOK
  <1>1. ScrapeInv => TypeOK
    BY DEF ScrapeInv, TypeOK, RunsType, ReconType, BoundType, EventType, FlagType,
           LockInv, StarterInv, Job
  <1> QED
    BY <1>1, ScrapeInvariant, PTL

(* handleScrape and the queue's events leave no run "running" that nobody       *)
(* crawls, whatever fails and however often jobs time out or stall.            *)
THEOREM RunningIsCrawled == Spec => []RunningHasCrawler
  <1>1. ScrapeInv => RunningHasCrawler
    BY DEF ScrapeInv
  <1> QED
    BY <1>1, ScrapeInvariant, PTL

(* startScrape's check keeps one run open, for any number of requests, as long *)
(* as no two of them overlap between the check and the INSERT.                 *)
THEOREM OneOpenRun == Spec => []SingleOpenRun
  <1>1. SingleInv => SingleOpenRun
    <2> SUFFICES ASSUME SingleInv, ~raced, ~revived PROVE Cardinality(OpenRuns) <= 1
      BY DEF SingleOpenRun
    <2>1. \A q, r \in OpenRuns : q = r
      BY DEF SingleInv
    <2>2. CASE OpenRuns = {}
      <3>1. Cardinality(OpenRuns) = 0
        BY <2>2, FS_EmptySet
      <3> QED
        BY <3>1
    <2>3. CASE OpenRuns # {}
      <3>1. PICK r : OpenRuns = {r}
        BY <2>1, <2>3
      <3>2. Cardinality({r}) = 1
        BY FS_Singleton
      <3>3. Cardinality(OpenRuns) = 1
        BY <3>1, <3>2, Zenon
      <3> QED
        BY <3>3
    <2> QED
      BY <2>2, <2>3
  <1>2. ScrapeInv => SingleOpenRun
    BY <1>1 DEF ScrapeInv
  <1> QED
    BY <1>2, ScrapeInvariant, PTL

-----------------------------------------------------------------------------
(* SiteCrawl: induction on the natural numbers, and functions iterated on them. *)

(* Every set of natural numbers has a least one. *)
LEMMA LeastNat ==
  ASSUME NEW T \in SUBSET Nat, T # {}
  PROVE  \E n \in T : \A m \in T : n <= m
  <1> DEFINE R == OpToRel(<, Nat)
  <1>1. IsWellFoundedOn(R, Nat)
    BY NatLessThanWellFounded
  <1>2. \A m, n \in Nat : m < n => <<m, n>> \in R
    BY Zenon DEF OpToRel
  <1> HIDE DEF R
  <1>3. PICK n \in T : \A m \in T : ~(<<m, n>> \in R)
    BY <1>1, WFMin
  <1>4. \A m \in T : ~(m < n)
    BY <1>2, <1>3, Zenon
  <1> QED
    BY <1>4

(* Induction, for a set in place of a predicate. *)
LEMMA NatSetInduction ==
  ASSUME NEW T, 0 \in T, \A n \in Nat : n \in T => n + 1 \in T
  PROVE  Nat \subseteq T
  <1> SUFFICES ASSUME NEW m \in Nat, m \notin T PROVE FALSE
    OBVIOUS
  <1>1. PICK n \in Nat \ T : \A k \in Nat \ T : n <= k
    <2>1. Nat \ T \in SUBSET Nat /\ Nat \ T # {}
      OBVIOUS
    <2> QED
      BY <2>1, LeastNat
  <1>2. n # 0 /\ n - 1 \in Nat /\ n - 1 \in T
    BY <1>1
  <1> QED
    BY <1>1, <1>2

(* A function on a set is iterated from an element by a function on Nat.      *)
LEMMA Iteration ==
  ASSUME NEW D, NEW start \in D, NEW step \in [D -> D]
  PROVE  \E f \in [Nat -> D] : f[0] = start /\ \A n \in Nat : f[n + 1] = step[f[n]]
  <1> DEFINE Up(f, n) == f \in [0 .. n -> D] /\ f[0] = start
                         /\ \A k \in 0 .. n : k < n => f[k + 1] = step[f[k]]
             Has(n) == \E f : Up(f, n)
             F(n) == CHOOSE f : Up(f, n)
             g == [n \in Nat |-> F(n)[n]]
             T == {n \in Nat : Has(n)}
  <1>1. 0 \in T
    <2>1. Up([k \in 0 .. 0 |-> start], 0)
      OBVIOUS
    <2> QED
      BY <2>1
  <1>2. ASSUME NEW n \in Nat, n \in T PROVE n + 1 \in T
    <2>1. PICK f : Up(f, n)
      BY <1>2
    <2>2. Up([k \in 0 .. n + 1 |-> IF k <= n THEN f[k] ELSE step[f[n]]], n + 1)
      BY <2>1
    <2> QED
      BY <2>2
  <1>3. \A n \in Nat : Has(n)
    <2> HIDE DEF Has
    <2>1. Nat \subseteq T
      <3> HIDE DEF T
      <3> QED
        BY <1>1, <1>2, NatSetInduction
    <2> QED
      BY <2>1
  <1>4. \A n \in Nat : Up(F(n), n)
    BY <1>3
  <1>5. ASSUME NEW n \in Nat PROVE \A k \in 0 .. n : F(n + 1)[k] = F(n)[k]
    <2> DEFINE S == {k \in Nat : k <= n => F(n + 1)[k] = F(n)[k]}
    <2> HIDE DEF F
    <2>1. Up(F(n), n) /\ Up(F(n + 1), n + 1)
      BY <1>4
    <2>2. 0 \in S
      BY <2>1
    <2>3. ASSUME NEW k \in Nat, k \in S PROVE k + 1 \in S
      BY <2>1, <2>3
    <2>4. Nat \subseteq S
      <3> HIDE DEF S
      <3> QED
        BY <2>2, <2>3, NatSetInduction
    <2> QED
      BY <2>4
  <1>6. g \in [Nat -> D] /\ g[0] = start
    <2> HIDE DEF F
    <2>1. \A n \in Nat : F(n)[n] \in D /\ F(0)[0] = start
      BY <1>4
    <2> QED
      BY <2>1
  <1>7. ASSUME NEW n \in Nat PROVE g[n + 1] = step[g[n]]
    <2> HIDE DEF F
    <2>1. F(n + 1)[n + 1] = step[F(n + 1)[n]]
      BY <1>4
    <2>2. F(n + 1)[n] = F(n)[n]
      BY <1>5
    <2> QED
      BY <2>1, <2>2
  <1> QED
    <2> HIDE DEF g
    <2> QED
      BY <1>6, <1>7

(* The pages within n links of the seed, of a site and what robots.txt allows. *)
Layers(l, open) ==
  CHOOSE f : f = [n \in Nat |-> IF n = 0 THEN {Seed}
                                ELSE f[n - 1] \cup UNION {{Canonical[href] : href \in l[p]} \ {NoUrl}
                                                           : p \in f[n - 1] \cap open}]

LEMMA WithinIsLayers == Within = Layers(links, Opened)
  BY DEF Within, Layers, Links

(* The recursive definition has the function it describes. *)
LEMMA LayersDef ==
  ASSUME NEW l \in Sites, NEW open \in SUBSET Page
  PROVE  /\ Layers(l, open)[0] = {Seed}
         /\ \A n \in Nat :
              Layers(l, open)[n + 1] =
                Layers(l, open)[n] \cup
                  UNION {{Canonical[href] : href \in l[p]} \ {NoUrl} : p \in Layers(l, open)[n] \cap open}
         /\ Layers(l, open) \in [Nat -> SUBSET Page]
  <1> DEFINE D == SUBSET Page
             Grow(S) == S \cup UNION {{Canonical[href] : href \in l[p]} \ {NoUrl} : p \in S \cap open}
             step == [S \in D |-> Grow(S)]
             Is(f) == f = [n \in Nat |-> IF n = 0 THEN {Seed} ELSE Grow(f[n - 1])]
  <1>1. {Seed} \in D /\ step \in [D -> D]
    <2>1. \A p \in Page : l[p] \subseteq Href
      BY CrawlBounds
    <2>2. ASSUME NEW S \in D PROVE Grow(S) \in D
      BY <2>1, CrawlBounds
    <2> QED
      BY <2>2, CrawlBounds
  <1>2. PICK f \in [Nat -> D] : f[0] = {Seed} /\ \A n \in Nat : f[n + 1] = step[f[n]]
    <2> HIDE DEF D, step
    <2> QED
      BY <1>1, Iteration
  <1>3. Is(f)
    <2> HIDE DEF Grow
    <2>1. \A n \in Nat : n # 0 => f[n] = Grow(f[n - 1])
      <3>1. \A n \in Nat : f[n + 1] = Grow(f[n])
        BY <1>2
      <3> QED
        BY <3>1
    <2> QED
      BY <1>2, <2>1
  <1>4. Is(Layers(l, open))
    BY <1>3, Zenon DEF Layers
  <1> DEFINE w == Layers(l, open)
  <1>5. w[0] = {Seed} /\ \A n \in Nat : w[n + 1] = Grow(w[n])
    <2>1. w = [n \in Nat |-> IF n = 0 THEN {Seed} ELSE Grow(w[n - 1])]
      <3> HIDE DEF Grow
      <3> QED
        BY <1>4
    <2>2. \A n \in Nat : w[n] = IF n = 0 THEN {Seed} ELSE Grow(w[n - 1])
      <3> HIDE DEF Grow, w
      <3> QED
        BY <2>1, Zenon
    <2>3. \A n \in Nat : n + 1 \in Nat /\ n + 1 # 0 /\ (n + 1) - 1 = n
      OBVIOUS
    <2> HIDE DEF Grow, w
    <2>4. w[0] = {Seed}
      BY <2>2
    <2>5. ASSUME NEW n \in Nat PROVE w[n + 1] = Grow(w[n])
      BY <2>2, <2>3, Zenon
    <2> QED
      BY <2>4, <2>5
  <1>6. w \in [Nat -> D]
    <2> DEFINE T == {n \in Nat : w[n] \in D}
    <2>1. 0 \in T
      BY <1>1, <1>5
    <2>2. ASSUME NEW n \in Nat, n \in T PROVE n + 1 \in T
      <3>1. w[n + 1] = step[w[n]]
        BY <1>5, <2>2
      <3> HIDE DEF w, step, D
      <3> QED
        BY <1>1, <2>2, <3>1
    <2>3. Nat \subseteq T
      <3> HIDE DEF T
      <3> QED
        BY <2>1, <2>2, NatSetInduction
    <2>4. w = [n \in Nat |-> w[n]]
      <3> HIDE DEF Grow
      <3> QED
        BY <1>4
    <2> HIDE DEF w
    <2> QED
      BY <2>3, <2>4
  <1> QED
    BY <1>5, <1>6

-----------------------------------------------------------------------------
(* Where the pages are *)

(* A page is queued once: it is in the queue, where it has not been fetched,   *)
(* or in one call of the frontier, or behind both. A page of the queue or of   *)
(* the frontier is within its depth of the seed.                              *)
PlaceInv ==
  /\ \A k \in DOMAIN queue :
       /\ queue[k].url \in (queued \cap Within[queue[k].depth]) \ visited
       /\ fetches[queue[k].url] = 0
  /\ \A i \in DOMAIN tasks :
       /\ tasks[i].url \in queued \cap Within[tasks[i].depth]
       /\ tasks[i].stage = "waiting" => tasks[i].url \notin visited
       /\ tasks[i].stage \in {"waiting", "check"} => fetches[tasks[i].url] = 0
       /\ tasks[i].stage = "check" => tasks[i].url \notin Outside \cup (IF robots THEN Disallowed ELSE {})
       /\ tasks[i].stage = "fetch" => tasks[i].url \in Opened
  /\ \A j, k \in DOMAIN queue : queue[j].url = queue[k].url => j = k
  /\ \A i, j \in DOMAIN tasks : tasks[i].url = tasks[j].url => i = j
  /\ \A k \in DOMAIN queue, i \in DOMAIN tasks : queue[k].url # tasks[i].url

FetchInv ==
  \A p \in Page : fetches[p] <= 1 /\ (fetches[p] # 0 => p \in queued \cap Reach)

OverInv == over => tasks = <<>> /\ (limited \/ queue = <<>>)

InQueue(p) == \E k \in DOMAIN queue : queue[k].url = p

Awaited(p, stages) ==
  \E i \in DOMAIN tasks : tasks[i].url = p /\ tasks[i].stage \in stages

(* The crawl is at level n: it has queued all pages less than n links away,    *)
(* the queue holds pages that are n links away and no nearer ones, and the     *)
(* frontier those one link nearer.                                            *)
AtLevel(n) ==
  /\ \A k \in DOMAIN queue : queue[k].depth = n
  /\ \A i \in DOMAIN tasks : tasks[i].depth + 1 = n
  /\ n > 0 => /\ Within[n - 1] \ Outside \subseteq queued
              /\ \A k \in DOMAIN queue : queue[k].url \notin Within[n - 1]
  /\ n <= MaxDepth =>
       \A p \in queued \cap Opened :
         \/ InQueue(p) \/ Awaited(p, {"waiting", "check", "fetch"})
         \/ InScope(Links(p)) \subseteq queued

FetchedAll ==
  \A p \in queued \cap Opened :
    InQueue(p) \/ Awaited(p, {"waiting", "check"}) \/ fetches[p] > 0

LevelInv ==
  ~limited /\ ~skipped =>
    Seed \in queued /\ FetchedAll /\ \E n \in 0 .. (MaxDepth + 1) : AtLevel(n)

-----------------------------------------------------------------------------
(* What the run's row says *)

InStage(stages) == Cardinality({i \in DOMAIN tasks : tasks[i].stage \in stages})

Unstored == {"announce", "store"}
StoredOnes == {"count", "countFailed", "page"}
FoundOnes  == Unstored \cup StoredOnes
Uncounted == Unstored \cup {"count"}

CountInv ==
  /\ results + Len(tasks) <= maxPages
  /\ succeeded + InStage(Unstored) <= found
  /\ failed + InStage(Uncounted) <= found
  /\ ~unwritten =>
       /\ found = results + InStage(FoundOnes)
       /\ found = succeeded + failed + InStage(Unstored)
       /\ docs + maxPages <= Cap + results + InStage(StoredOnes)

CrawlInv == CrawlTypeOK /\ PlaceInv /\ FetchInv /\ OverInv /\ LevelInv /\ CountInv

-----------------------------------------------------------------------------
(* Within, as the steps of the crawl use it. *)
LEMMA LayersFacts ==
  ASSUME CrawlTypeOK
  PROVE  /\ Opened \subseteq Page /\ Within \in [Nat -> SUBSET Page]
         /\ Within[0] = {Seed}
         /\ \A n \in Nat : Within[n + 1] = Within[n] \cup UNION {Links(p) : p \in Within[n] \cap Opened}
         /\ \A p \in Page : Links(p) \subseteq Page /\ IsFiniteSet(Links(p))
  <1>1. Opened \subseteq Page /\ links \in Sites
    BY DEF Opened, CrawlTypeOK
  <1>3. /\ Within \in [Nat -> SUBSET Page] /\ Within[0] = {Seed}
        /\ \A n \in Nat :
             Within[n + 1] = Within[n] \cup
               UNION {{Canonical[href] : href \in links[p]} \ {NoUrl} : p \in Within[n] \cap Opened}
    <2> HIDE DEF Within, Layers
    <2> QED
      BY <1>1, WithinIsLayers, LayersDef
  <1>4. ASSUME NEW p \in Page PROVE Links(p) \subseteq Page /\ IsFiniteSet(Links(p))
    <2>1. links[p] \subseteq Href /\ IsFiniteSet(links[p])
      BY <1>1, CrawlBounds
    <2>2. IsFiniteSet({Canonical[href] : href \in links[p]})
      <3> DEFINE f == [href \in links[p] |-> Canonical[href]]
                 T == {Canonical[href] : href \in links[p]}
      <3>1. f \in Surjection(links[p], T)
        BY DEF Surjection
      <3> QED
        BY <2>1, <3>1, FS_Surjection
    <2>3. Links(p) \in SUBSET {Canonical[href] : href \in links[p]}
      BY DEF Links
    <2>4. Links(p) \subseteq Page
      BY <2>1, CrawlBounds DEF Links
    <2> QED
      BY <2>2, <2>3, <2>4, FS_Subset
  <1> QED
    BY <1>1, <1>3, <1>4 DEF Links

(* Fewer links reach fewer pages. *)
LEMMA WithinMonotone ==
  ASSUME CrawlTypeOK, NEW m \in Nat, NEW n \in Nat, m <= n
  PROVE  Within[m] \subseteq Within[n]
  <1> DEFINE T == {k \in Nat : Within[m] \subseteq Within[m + k]}
  <1>1. 0 \in T
    OBVIOUS
  <1>2. ASSUME NEW k \in Nat, k \in T PROVE k + 1 \in T
    <2>1. Within[(m + k) + 1] = Within[m + k] \cup UNION {Links(p) : p \in Within[m + k] \cap Opened}
      BY LayersFacts
    <2>2. (m + k) + 1 = m + (k + 1)
      OBVIOUS
    <2> QED
      BY <1>2, <2>1, <2>2
  <1>3. Nat \subseteq T
    <2> HIDE DEF T
    <2> QED
      BY <1>1, <1>2, NatSetInduction
  <1>4. n - m \in Nat /\ m + (n - m) = n
    OBVIOUS
  <1> QED
    BY <1>3, <1>4

(* The site does not change during a crawl. *)
LEMMA SameSite ==
  ASSUME UNCHANGED site
  PROVE  /\ Opened' = Opened /\ Within' = Within /\ Reach' = Reach
         /\ \A p : Links(p)' = Links(p)
  <1>1. Opened' = Opened
    BY DEF Opened, site
  <1>2. Within' = Within
    <2>1. Within' = Layers(links', Opened')
      BY DEF Within, Layers, Links
    <2> HIDE DEF Within, Layers
    <2> QED
      BY <1>1, <2>1, WithinIsLayers DEF site
  <1>3. Reach' = Reach
    BY <1>1, <1>2 DEF Reach
  <1>4. \A p : Links(p)' = Links(p)
    BY DEF Links, site
  <1> QED
    BY <1>1, <1>2, <1>3, <1>4

(* A step of one call leaves the others where they are. *)
LEMMA Moved ==
  ASSUME CrawlTypeOK, NEW i \in DOMAIN tasks, NEW stage \in Stage, MoveTo(i, stage)
  PROVE  /\ tasks' \in Seq(Task) /\ Len(tasks') = Len(tasks) /\ DOMAIN tasks' = DOMAIN tasks
         /\ \A j \in DOMAIN tasks :
              /\ tasks'[j].url = tasks[j].url /\ tasks'[j].depth = tasks[j].depth
              /\ tasks'[j].stage = IF j = i THEN stage ELSE tasks[j].stage
  <1>1. tasks \in Seq(Task) /\ DOMAIN tasks = 1 .. Len(tasks)
    BY DEF CrawlTypeOK
  <1>2. [tasks[i] EXCEPT !.stage = stage] \in Task
    <2>1. tasks[i] \in Task
      BY <1>1
    <2> QED
      BY <2>1 DEF Task
  <1>3. tasks' = [tasks EXCEPT ![i] = [tasks[i] EXCEPT !.stage = stage]]
    BY <1>1 DEF MoveTo
  <1> QED
    BY <1>1, <1>2, <1>3 DEF Task

(* Calls can be counted. *)
LEMMA StagesFinite ==
  ASSUME NEW t \in Seq(Task), NEW S
  PROVE  /\ IsFiniteSet({i \in DOMAIN t : t[i].stage \in S})
         /\ Cardinality({i \in DOMAIN t : t[i].stage \in S}) \in Nat
         /\ Cardinality({i \in DOMAIN t : t[i].stage \in S}) <= Len(t)
  <1> DEFINE T == {i \in DOMAIN t : t[i].stage \in S}
  <1>1. DOMAIN t = 1 .. Len(t) /\ Len(t) \in Nat
    OBVIOUS
  <1>2. IsFiniteSet(1 .. Len(t)) /\ Cardinality(1 .. Len(t)) = Len(t)
    BY <1>1, FS_Interval
  <1>3. T \in SUBSET (1 .. Len(t))
    BY <1>1
  <1> HIDE DEF T
  <1>4. IsFiniteSet(T) /\ Cardinality(T) <= Len(t) /\ Cardinality(T) \in Nat
    BY <1>2, <1>3, FS_Subset, FS_CardinalityType
  <1> QED
    BY <1>4 DEF T

(* It is one call more or less in some stages. *)
LEMMA Counted ==
  ASSUME CrawlTypeOK, NEW i \in DOMAIN tasks, NEW stage \in Stage, MoveTo(i, stage), NEW S
  PROVE  InStage(S)' = IF tasks[i].stage \in S
                         THEN IF stage \in S THEN InStage(S) ELSE InStage(S) - 1
                         ELSE IF stage \in S THEN InStage(S) + 1 ELSE InStage(S)
  <1> DEFINE T == {j \in DOMAIN tasks : tasks[j].stage \in S}
             U == {j \in DOMAIN tasks' : tasks'[j].stage \in S}
  <1>1. IsFiniteSet(T)
    BY StagesFinite DEF CrawlTypeOK
  <1>2. U = IF stage \in S THEN T \cup {i} ELSE T \ {i}
    BY Moved
  <1>3. i \in T <=> tasks[i].stage \in S
    OBVIOUS
  <1>4. InStage(S) = Cardinality(T) /\ InStage(S)' = Cardinality(U)
    BY DEF InStage
  <1>5. Cardinality(T) \in Nat
    BY <1>1, FS_CardinalityType
  <1> HIDE DEF T, U
  <1>6. CASE stage \in S
    BY <1>1, <1>2, <1>3, <1>4, <1>6, FS_AddElement
  <1>7. CASE stage \notin S
    BY <1>1, <1>2, <1>3, <1>4, <1>7, FS_RemoveElement
  <1> QED
    BY <1>6, <1>7

-----------------------------------------------------------------------------
(* A crawl starts with the seed in its queue, at level 0. *)
LEMMA CrawlInitInv == CrawlInit => CrawlInv
  <1> SUFFICES ASSUME CrawlInit PROVE CrawlInv
    OBVIOUS
  <1>1. CrawlTypeOK
    <2>1. queue \in Seq(Entry) /\ Len(queue) = 1
      BY CrawlBounds DEF CrawlInit, Entry
    <2>2. tasks \in Seq(Task) /\ Len(tasks) = 0
      BY DEF CrawlInit
    <2>3. maxPages \in 1 .. Wanted /\ docs \in Nat
      BY CrawlBounds DEF CrawlInit, ClampedPages, Lower
    <2>4. {robots, over, limited, skipped, unwritten} \subseteq BOOLEAN
      BY DEF CrawlInit, LoadRobots
    <2> QED
      BY <2>1, <2>2, <2>3, <2>4, CrawlBounds DEF CrawlInit, CrawlTypeOK
  <1>2. PlaceInv
    BY <1>1, LayersFacts, CrawlBounds DEF CrawlInit, PlaceInv
  <1>3. FetchInv /\ OverInv
    BY DEF CrawlInit, FetchInv, OverInv
  <1>4. LevelInv
    <2>1. AtLevel(0)
      BY CrawlBounds DEF CrawlInit, AtLevel, InQueue
    <2>2. FetchedAll /\ Seed \in queued
      BY DEF CrawlInit, FetchedAll, InQueue
    <2> QED
      BY <2>1, <2>2, CrawlBounds DEF LevelInv
  <1>5. CountInv
    <2>1. \A S : InStage(S) = 0
      BY FS_EmptySet DEF CrawlInit, InStage
    <2> QED
      BY <2>1, CrawlBounds DEF CrawlInit, CountInv, ClampedPages, Lower
  <1> QED
    BY <1>1, <1>2, <1>3, <1>4, <1>5 DEF CrawlInv

-----------------------------------------------------------------------------
(* Taking a frontier: without a limit it is the whole queue, and the level     *)
(* rises by one.                                                              *)

LEMMA FrontierTaken ==
  ASSUME CrawlTypeOK, TakeFrontier
  PROVE  \E n \in 1 .. Len(queue) :
           /\ n + results <= maxPages
           /\ tasks = <<>> /\ ~over
           /\ tasks' \in Seq(Task) /\ Len(tasks') = n
           /\ \A i \in 1 .. n : /\ tasks'[i].url = queue[i].url
                                /\ tasks'[i].depth = queue[i].depth
                                /\ tasks'[i].stage = "waiting"
           /\ queue' \in Seq(Entry) /\ Len(queue') = Len(queue) - n
           /\ \A k \in 1 .. (Len(queue) - n) : queue'[k] = queue[k + n]
           /\ limited' = (limited \/ n < Len(queue))
  <1>1. queue \in Seq(Entry) /\ queue # <<>> /\ results < maxPages /\ results \in Nat /\ maxPages \in Nat
    BY DEF CrawlTypeOK, TakeFrontier
  <1> DEFINE n == FrontierSize
  <1>2. n \in 1 .. Len(queue) /\ n + results <= maxPages
    BY <1>1 DEF FrontierSize, Lower
  <1>3. \A i \in 1 .. n : queue[i] \in Entry
    BY <1>1, <1>2
  <1>4. tasks' = [i \in 1 .. n |-> [url |-> queue[i].url, depth |-> queue[i].depth,
                                    stage |-> "waiting"]]
        /\ queue' = SubSeq(queue, n + 1, Len(queue))
        /\ limited' = (limited \/ n < Len(queue)) /\ tasks = <<>> /\ ~over
    BY DEF TakeFrontier
  <1> HIDE DEF n
  <1>5. tasks' \in Seq(Task) /\ Len(tasks') = n
    <2>1. \A i \in 1 .. n : [url |-> queue[i].url, depth |-> queue[i].depth,
                             stage |-> "waiting"] \in Task
      BY <1>3 DEF Entry, Task, Stage
    <2> HIDE DEF Task
    <2> QED
      BY <1>2, <1>4, <2>1
  <1>6. \A i \in 1 .. n : /\ tasks'[i].url = queue[i].url
                          /\ tasks'[i].depth = queue[i].depth
                          /\ tasks'[i].stage = "waiting"
    BY <1>4
  <1>7. queue' \in Seq(Entry) /\ Len(queue') = Len(queue) - n
        /\ \A k \in 1 .. (Len(queue) - n) : queue'[k] = queue[k + n]
    <2>1. n \in Int /\ n + 1 \in Int /\ Len(queue) \in Int /\ n <= Len(queue)
      BY <1>1, <1>2
    <2>2. \A i \in (n + 1) .. Len(queue) : queue[i] \in Entry
      BY <1>1, <1>2
    <2>3. /\ queue' \in Seq(Entry)
          /\ Len(queue') = IF n + 1 <= Len(queue) THEN Len(queue) - (n + 1) + 1 ELSE 0
          /\ \A k \in 1 .. (Len(queue) - (n + 1) + 1) : queue'[k] = queue[(n + 1) + k - 1]
      BY <1>4, <2>1, <2>2, SubSeqProperties
    <2>5. Len(queue') = Len(queue) - n
      BY <2>1, <2>3
    <2>6. \A k \in 1 .. (Len(queue) - n) : queue'[k] = queue[k + n]
      <3> SUFFICES ASSUME NEW k \in 1 .. (Len(queue) - n) PROVE queue'[k] = queue[k + n]
        OBVIOUS
      <3>1. k \in 1 .. (Len(queue) - (n + 1) + 1) /\ (n + 1) + k - 1 = k + n
        BY <2>1
      <3> QED
        BY <2>3, <3>1
    <2> QED
      BY <2>3, <2>5, <2>6
  <1> QED
    BY <1>2, <1>4, <1>5, <1>6, <1>7

LEMMA TakeFrontierStep ==
  ASSUME CrawlInv, TakeFrontier
  PROVE  CrawlInv'
  <1>0. CrawlTypeOK
    BY DEF CrawlInv
  <1>1. PICK n \in 1 .. Len(queue) :
           /\ n + results <= maxPages
           /\ tasks = <<>> /\ ~over
           /\ tasks' \in Seq(Task) /\ Len(tasks') = n
           /\ \A i \in 1 .. n : /\ tasks'[i].url = queue[i].url
                                /\ tasks'[i].depth = queue[i].depth
                                /\ tasks'[i].stage = "waiting"
           /\ queue' \in Seq(Entry) /\ Len(queue') = Len(queue) - n
           /\ \A k \in 1 .. (Len(queue) - n) : queue'[k] = queue[k + n]
           /\ limited' = (limited \/ n < Len(queue))
    BY <1>0, FrontierTaken
  <1>2. queue \in Seq(Entry) /\ Len(queue) \in Nat /\ DOMAIN queue = 1 .. Len(queue)
        /\ Len(queue) <= maxPages /\ maxPages \in Nat /\ results \in Nat
    BY <1>0 DEF CrawlTypeOK
  <1>3. /\ UNCHANGED <<site, maxPages, queued, visited, results, over, found, succeeded, failed,
                       docs, fetches, skipped, unwritten>>
        /\ Within' = Within /\ Opened' = Opened /\ Reach' = Reach /\ \A p : Links(p)' = Links(p)
    BY SameSite DEF TakeFrontier, counters
  <1>4. DOMAIN tasks' = 1 .. n /\ DOMAIN queue' = 1 .. (Len(queue) - n)
    BY <1>1, <1>2
  <1>5. CrawlTypeOK'
    <2>1. limited' \in BOOLEAN
      BY <1>1
    <2>2. Len(queue') <= maxPages /\ Len(tasks') <= maxPages
      BY <1>1, <1>2
    <2> QED
      BY <1>0, <1>1, <1>3, <2>1, <2>2 DEF CrawlTypeOK, site
  <1>6. PlaceInv'
    <2>1. PlaceInv
      BY DEF CrawlInv
    <2>2. \A k \in 1 .. (Len(queue) - n) :
            /\ queue'[k].url \in (queued \cap Within[queue'[k].depth]) \ visited
            /\ fetches[queue'[k].url] = 0
      <3> SUFFICES ASSUME NEW k \in 1 .. (Len(queue) - n)
                   PROVE  /\ queue'[k].url \in (queued \cap Within[queue'[k].depth]) \ visited
                          /\ fetches[queue'[k].url] = 0
        OBVIOUS
      <3>1. k + n \in DOMAIN queue /\ queue'[k] = queue[k + n]
        BY <1>1, <1>2
      <3> QED
        BY <2>1, <3>1 DEF PlaceInv
    <2>3. \A i \in 1 .. n :
            /\ tasks'[i].url \in (queued \cap Within[tasks'[i].depth]) \ visited
            /\ fetches[tasks'[i].url] = 0
            /\ tasks'[i].stage = "waiting"
      <3>1. \A i \in 1 .. n : i \in DOMAIN queue
        BY <1>2
      <3> QED
        BY <1>1, <2>1, <3>1 DEF PlaceInv
    <2>4. \A j, k \in 1 .. (Len(queue) - n) : queue'[j].url = queue'[k].url => j = k
      <3> SUFFICES ASSUME NEW j \in 1 .. (Len(queue) - n), NEW k \in 1 .. (Len(queue) - n),
                          queue'[j].url = queue'[k].url
                   PROVE  j = k
        OBVIOUS
      <3>1. j + n \in DOMAIN queue /\ k + n \in DOMAIN queue
        BY <1>2
      <3>2. j + n = k + n
        BY <1>1, <2>1, <3>1 DEF PlaceInv
      <3> QED
        BY <3>2
    <2>5. \A i, j \in 1 .. n : tasks'[i].url = tasks'[j].url => i = j
      <3>1. \A i \in 1 .. n : i \in DOMAIN queue
        BY <1>2
      <3> QED
        BY <1>1, <2>1, <3>1 DEF PlaceInv
    <2>6. \A k \in 1 .. (Len(queue) - n), i \in 1 .. n : queue'[k].url # tasks'[i].url
      <3> SUFFICES ASSUME NEW k \in 1 .. (Len(queue) - n), NEW i \in 1 .. n,
                          queue'[k].url = tasks'[i].url
                   PROVE  FALSE
        OBVIOUS
      <3>1. k + n \in DOMAIN queue /\ i \in DOMAIN queue /\ k + n # i
        BY <1>2
      <3> QED
        BY <1>1, <2>1, <3>1 DEF PlaceInv
    <2> QED
      BY <1>3, <1>4, <2>2, <2>3, <2>4, <2>5, <2>6 DEF PlaceInv
  <1>7. FetchInv'
    BY <1>3 DEF CrawlInv, FetchInv
  <1>8. OverInv'
    BY <1>1, <1>3 DEF OverInv
  <1>9. LevelInv'
    <2> SUFFICES ASSUME ~limited', ~skipped' PROVE LevelInv'
      BY DEF LevelInv
    <2>1. ~limited /\ ~skipped /\ n = Len(queue)
      <3>1. ~limited /\ ~(n < Len(queue))
        BY <1>1, Zenon
      <3>2. ~skipped
        BY Zenon DEF TakeFrontier
      <3>3. n = Len(queue)
        <4>1. ~(n < Len(queue))
          BY <3>1, Zenon
        <4>2. n \in Nat /\ n <= Len(queue) /\ Len(queue) \in Nat
          BY <1>2
        <4> QED
          BY <4>1, <4>2
      <3> QED
        BY <3>1, <3>2, <3>3
    <2>2. queue' = <<>>
      BY <1>1, <2>1
    <2>3. PICK m \in 0 .. (MaxDepth + 1) : AtLevel(m)
      BY <2>1 DEF CrawlInv, LevelInv
    <2>4. Seed \in queued /\ FetchedAll
      BY <2>1 DEF CrawlInv, LevelInv
    <2>5. m <= MaxDepth /\ m \in Nat /\ m + 1 \in 0 .. (MaxDepth + 1)
      <3>1. 1 \in DOMAIN queue /\ queue[1].depth = m /\ queue[1] \in Entry
        BY <1>2, <2>1, <2>3 DEF AtLevel
      <3> QED
        BY <3>1, CrawlBounds DEF Entry
    <2>6. \A p \in queued \cap Opened : InQueue(p) \/ InScope(Links(p)) \subseteq queued
      BY <1>1, <2>3, <2>5 DEF AtLevel, Awaited
    <2>7. \A p : InQueue(p) => Awaited(p, {"waiting"})'
      BY <1>1, <1>2, <1>4, <2>1 DEF InQueue, Awaited
    <2>8. Within[m] \ Outside \subseteq queued
      <3>1. CASE m = 0
        BY <1>0, <2>4, <3>1, LayersFacts
      <3>2. CASE m > 0
        <4>1. m - 1 \in Nat /\ (m - 1) + 1 = m
          BY <2>5, <3>2
        <4>2. Within[m - 1] \ Outside \subseteq queued
              /\ \A k \in DOMAIN queue : queue[k].url \notin Within[m - 1]
          BY <2>3, <3>2 DEF AtLevel
        <4>3. Within[m] = Within[m - 1] \cup UNION {Links(p) : p \in Within[m - 1] \cap Opened}
          BY <1>0, <4>1, LayersFacts
        <4>4. ASSUME NEW p \in Within[m - 1] \cap Opened PROVE Links(p) \ Outside \subseteq queued
          <5>1. p \in queued /\ ~InQueue(p)
            BY <4>2, <4>4 DEF Opened, InQueue
          <5> QED
            BY <2>6, <4>4, <5>1 DEF InScope
        <4> QED
          BY <4>2, <4>3, <4>4
      <3> QED
        BY <2>5, <3>1, <3>2
    <2>9. AtLevel(m + 1)'
      <3>1. \A i \in DOMAIN tasks' : tasks'[i].depth + 1 = m + 1
        BY <1>1, <1>2, <1>4, <2>1, <2>3 DEF AtLevel
      <3>2. Within'[(m + 1) - 1] \ Outside \subseteq queued'
        BY <1>3, <2>5, <2>8
      <3>3. \A p \in queued' \cap Opened' :
              Awaited(p, {"waiting", "check", "fetch"})' \/ InScope(Links(p))' \subseteq queued'
        <4>1. \A p : InQueue(p) => Awaited(p, {"waiting", "check", "fetch"})'
          BY <2>7 DEF Awaited
        <4> QED
          BY <1>3, <2>6, <4>1 DEF InScope
      <3> QED
        BY <2>2, <3>1, <3>2, <3>3 DEF AtLevel
    <2>10. FetchedAll'
      <3>1. \A p : InQueue(p) => Awaited(p, {"waiting", "check"})'
        BY <2>7 DEF Awaited
      <3>2. \A p : ~Awaited(p, {"waiting", "check"})
        BY <1>1 DEF Awaited
      <3> QED
        BY <1>3, <2>4, <3>1, <3>2 DEF FetchedAll
    <2> QED
      BY <1>3, <2>4, <2>5, <2>9, <2>10 DEF LevelInv
  <1>10. CountInv'
    <2>1. \A S : InStage(S) = 0
      BY <1>1, FS_EmptySet DEF InStage
    <2>2. ASSUME NEW S, "waiting" \notin S PROVE InStage(S)' = 0
      <3>1. {i \in DOMAIN tasks' : tasks'[i].stage \in S} = {}
        BY <1>1, <1>4, <2>2
      <3> QED
        BY <3>1, FS_EmptySet DEF InStage
    <2>3. CountInv
      BY DEF CrawlInv
    <2>4. \A S \in {Unstored, Uncounted, FoundOnes, StoredOnes} : InStage(S)' = 0 /\ InStage(S) = 0
      BY <2>1, <2>2 DEF Unstored, Uncounted, FoundOnes, StoredOnes
    <2>5. results' + Len(tasks') <= maxPages'
      BY <1>1, <1>2, <1>3
    <2> QED
      BY <1>3, <2>3, <2>4, <2>5 DEF CountInv
  <1> QED
    BY <1>5, <1>6, <1>7, <1>8, <1>9, <1>10 DEF CrawlInv

-----------------------------------------------------------------------------
(* The end of a frontier and of the crawl. *)

LEMMA FinishStep ==
  ASSUME CrawlInv, Finish
  PROVE  CrawlInv'
  <1>1. /\ UNCHANGED <<site, maxPages, queue, queued, visited, tasks, results, found, succeeded,
                       failed, docs, fetches, skipped, unwritten>>
        /\ Within' = Within /\ Opened' = Opened /\ Reach' = Reach /\ \A p : Links(p)' = Links(p)
    BY SameSite DEF Finish, counters
  <1>2. limited' = (limited \/ queue # <<>>) /\ over' = TRUE /\ tasks = <<>>
    BY DEF Finish
  <1>3. limited' \in BOOLEAN /\ over' \in BOOLEAN
    BY <1>2
  <1>4. ~limited' => ~limited
    BY <1>2, Zenon
  <1>5. CrawlTypeOK'
    BY <1>1, <1>3 DEF CrawlInv, CrawlTypeOK, site
  <1>6. PlaceInv'
    BY <1>1 DEF CrawlInv, PlaceInv, site
  <1>7. FetchInv'
    BY <1>1 DEF CrawlInv, FetchInv
  <1>8. OverInv'
    <2>1. limited' \/ queue' = <<>>
      <3>1. queue' = queue
        BY <1>1
      <3> QED
        BY <1>2, <3>1, Zenon
    <2> QED
      BY <1>1, <1>2, <2>1 DEF OverInv
  <1>9. LevelInv'
    <2> SUFFICES ASSUME ~limited', ~skipped' PROVE LevelInv'
      BY DEF LevelInv
    <2>1. skipped' = skipped
      BY <1>1
    <2>2. ~limited /\ ~skipped
      BY <1>4, <2>1, Zenon
    <2>3. LevelInv
      BY DEF CrawlInv
    <2>4. PICK n \in 0 .. (MaxDepth + 1) : AtLevel(n)
      BY <2>2, <2>3 DEF LevelInv
    <2>5. AtLevel(n)'
      BY <1>1, <2>4 DEF AtLevel, InQueue, Awaited, InScope
    <2>6. Seed \in queued' /\ FetchedAll'
      BY <1>1, <2>2, <2>3 DEF LevelInv, FetchedAll, InQueue, Awaited
    <2> QED
      BY <2>5, <2>6 DEF LevelInv
  <1>10. CountInv'
    BY <1>1 DEF CrawlInv, CountInv, InStage
  <1> QED
    BY <1>5, <1>6, <1>7, <1>8, <1>9, <1>10 DEF CrawlInv

LEMMA EndFrontierStep ==
  ASSUME CrawlInv, EndFrontier
  PROVE  CrawlInv'
  <1>0. CrawlTypeOK /\ tasks \in Seq(Task)
    BY DEF CrawlInv, CrawlTypeOK
  <1>1. /\ UNCHANGED <<site, maxPages, queue, queued, visited, over, found, succeeded,
                       failed, docs, fetches, limited, skipped, unwritten>>
        /\ Within' = Within /\ Opened' = Opened /\ Reach' = Reach /\ \A p : Links(p)' = Links(p)
    BY SameSite DEF EndFrontier, counters, history
  <1>2. tasks' = <<>> /\ tasks # <<>> /\ \A i \in DOMAIN tasks : tasks[i].stage \in {"page", "null"}
    BY DEF EndFrontier, Settled
  <1>3. results' = results + InStage({"page"})
    <2>1. {i \in DOMAIN tasks : tasks[i].stage = "page"} = {i \in DOMAIN tasks : tasks[i].stage \in {"page"}}
      OBVIOUS
    <2> QED
      BY <2>1 DEF EndFrontier, InStage
  <1>4. InStage({"page"}) \in Nat /\ InStage({"page"}) <= Len(tasks) /\ Len(tasks) \in Nat
    <2>1. \A S : InStage(S) \in Nat /\ InStage(S) <= Len(tasks)
      BY <1>0, StagesFinite DEF InStage
    <2>2. Len(tasks) \in Nat
      BY <1>0
    <2> QED
      BY <2>1, <2>2
  <1>5. /\ InStage(Unstored) = 0 /\ InStage(Uncounted) = 0
        /\ InStage(FoundOnes) = InStage({"page"}) /\ InStage(StoredOnes) = InStage({"page"})
    <2>1. /\ {i \in DOMAIN tasks : tasks[i].stage \in Unstored} = {}
          /\ {i \in DOMAIN tasks : tasks[i].stage \in Uncounted} = {}
          /\ {i \in DOMAIN tasks : tasks[i].stage \in FoundOnes} = {i \in DOMAIN tasks : tasks[i].stage \in {"page"}}
          /\ {i \in DOMAIN tasks : tasks[i].stage \in StoredOnes} = {i \in DOMAIN tasks : tasks[i].stage \in {"page"}}
      BY <1>2 DEF Unstored, Uncounted, FoundOnes, StoredOnes
    <2> QED
      BY <2>1, FS_EmptySet DEF InStage
  <1>6. \A S : InStage(S)' = 0
    BY <1>2, FS_EmptySet DEF InStage
  <1>7. results + Len(tasks) <= maxPages /\ results \in Nat /\ maxPages \in Nat
    BY DEF CrawlInv, CountInv, CrawlTypeOK
  <1>8. CrawlTypeOK'
    <2>1. results' \in 0 .. maxPages
      BY <1>3, <1>4, <1>7
    <2>2. tasks' \in Seq(Task) /\ Len(tasks') = 0
      BY <1>2
    <2> QED
      BY <1>0, <1>1, <1>7, <2>1, <2>2 DEF CrawlTypeOK, site
  <1>9. PlaceInv'
    BY <1>1, <1>2 DEF CrawlInv, PlaceInv
  <1>10. FetchInv' /\ OverInv'
    BY <1>1, <1>2 DEF CrawlInv, FetchInv, OverInv
  <1>11. LevelInv'
    <2> SUFFICES ASSUME ~limited', ~skipped' PROVE LevelInv'
      BY DEF LevelInv
    <2>1. skipped' = skipped /\ limited' = limited
      BY <1>1
    <2>2. ~limited /\ ~skipped
      BY <2>1, Zenon
    <2>3. LevelInv
      BY DEF CrawlInv
    <2>4. PICK n \in 0 .. (MaxDepth + 1) : AtLevel(n)
      BY <2>2, <2>3 DEF LevelInv
    <2>5. \A p : ~Awaited(p, {"waiting", "check", "fetch"}) /\ ~Awaited(p, {"waiting", "check"})
      BY <1>2 DEF Awaited
    <2>6. AtLevel(n)'
      BY <1>1, <1>2, <2>4, <2>5 DEF AtLevel, InQueue, InScope
    <2>7. Seed \in queued' /\ FetchedAll'
      BY <1>1, <2>2, <2>3, <2>5 DEF LevelInv, FetchedAll, InQueue
    <2> QED
      BY <2>6, <2>7 DEF LevelInv
  <1>12. CountInv'
    <2>1. CountInv
      BY DEF CrawlInv
    <2>2. results' + Len(tasks') <= maxPages'
      BY <1>1, <1>2, <1>3, <1>4, <1>7
    <2>3. {found, succeeded, failed, docs, Cap} \subseteq Nat
      BY <1>0, CrawlBounds DEF CrawlTypeOK
    <2>4. unwritten' = unwritten
      BY <1>1
    <2>5. succeeded' + InStage(Unstored)' <= found' /\ failed' + InStage(Uncounted)' <= found'
      BY <1>1, <1>5, <1>6, <2>1, <2>3 DEF CountInv
    <2>6. ASSUME ~unwritten'
          PROVE  /\ found' = results' + InStage(FoundOnes)'
                 /\ found' = succeeded' + failed' + InStage(Unstored)'
                 /\ docs' + maxPages' <= Cap + results' + InStage(StoredOnes)'
      <3>1. ~unwritten
        BY <2>4, <2>6, Zenon
      <3>2. /\ found = results + InStage({"page"})
            /\ found = succeeded + failed + 0
            /\ docs + maxPages <= Cap + results + InStage({"page"})
        BY <1>5, <2>1, <3>1 DEF CountInv
      <3> QED
        BY <1>1, <1>3, <1>4, <1>6, <1>7, <2>3, <3>2
    <2> QED
      BY <2>2, <2>5, <2>6 DEF CountInv
  <1> QED
    BY <1>8, <1>9, <1>10, <1>11, <1>12 DEF CrawlInv

-----------------------------------------------------------------------------
(* The calls *)

Amounts ==
  /\ results \in Nat /\ maxPages \in Nat /\ docs \in Nat /\ Cap \in Nat
  /\ found \in Nat /\ succeeded \in Nat /\ failed \in Nat /\ Len(tasks) \in Nat

(* The sums of CountInv, from how a step moves one call.                      *)
LEMMA CountsMove ==
  ASSUME CrawlTypeOK, NEW i \in DOMAIN tasks, NEW stage \in Stage, MoveTo(i, stage)
  PROVE  /\ \A S \in {Unstored, Uncounted, FoundOnes, StoredOnes} :
              /\ InStage(S) \in Nat
              /\ InStage(S)' = IF tasks[i].stage \in S
                                 THEN IF stage \in S THEN InStage(S) ELSE InStage(S) - 1
                                 ELSE IF stage \in S THEN InStage(S) + 1 ELSE InStage(S)
         /\ Amounts
  <1>1. tasks \in Seq(Task)
    BY DEF CrawlTypeOK
  <1>2. \A S : InStage(S) \in Nat
    BY <1>1, StagesFinite DEF InStage
  <1>3. \A S : InStage(S)' = IF tasks[i].stage \in S
                               THEN IF stage \in S THEN InStage(S) ELSE InStage(S) - 1
                               ELSE IF stage \in S THEN InStage(S) + 1 ELSE InStage(S)
    BY Counted
  <1>4. Amounts
    BY CrawlBounds DEF CrawlTypeOK, Amounts
  <1> QED
    BY <1>2, <1>3, <1>4

(* The calls of onPage and of its statements leave the crawl alone. *)
Late == {"announce", "store", "count", "countFailed"}

LEMMA LateStep ==
  ASSUME CrawlInv, NEW i \in DOMAIN tasks, tasks[i].stage \in Late,
         NEW stage \in Late \cup Settled, MoveTo(i, stage),
         UNCHANGED <<site, maxPages, queue, queued, visited, results, over, fetches, limited, skipped>>
  PROVE  PlaceInv' /\ FetchInv' /\ OverInv' /\ LevelInv'
  <1>0. CrawlTypeOK /\ stage \in Stage
    BY DEF CrawlInv, Stage, Late, Settled
  <1>1. /\ DOMAIN tasks' = DOMAIN tasks
        /\ \A j \in DOMAIN tasks : tasks'[j].url = tasks[j].url /\ tasks'[j].depth = tasks[j].depth
        /\ \A S \in SUBSET {"waiting", "check", "fetch"}, j \in DOMAIN tasks :
             tasks'[j].stage \in S <=> tasks[j].stage \in S
    BY <1>0, Moved DEF Late, Settled
  <1>2. \A s \in {"waiting", "check", "fetch"}, j \in DOMAIN tasks : tasks'[j].stage = s <=> tasks[j].stage = s
    BY <1>0, Moved DEF Late, Settled
  <1>3. Within' = Within /\ Opened' = Opened /\ Reach' = Reach /\ \A p : Links(p)' = Links(p)
    BY SameSite
  <1>4. PlaceInv'
    BY <1>1, <1>2, <1>3 DEF CrawlInv, PlaceInv, site
  <1>5. FetchInv'
    BY <1>3 DEF CrawlInv, FetchInv
  <1>6. OverInv'
    <2>1. ~over
      BY DEF CrawlInv, OverInv
    <2> QED
      BY <2>1, Zenon DEF OverInv
  <1>7. LevelInv'
    <2> SUFFICES ASSUME ~limited', ~skipped' PROVE LevelInv'
      BY DEF LevelInv
    <2>1. ~limited /\ ~skipped
      BY Zenon
    <2>2. LevelInv
      BY DEF CrawlInv
    <2>3. PICK n \in 0 .. (MaxDepth + 1) : AtLevel(n)
      BY <2>1, <2>2 DEF LevelInv
    <2>4. \A p : /\ Awaited(p, {"waiting", "check", "fetch"})' <=> Awaited(p, {"waiting", "check", "fetch"})
                 /\ Awaited(p, {"waiting", "check"})' <=> Awaited(p, {"waiting", "check"})
      BY <1>1 DEF Awaited
    <2>5. AtLevel(n)'
      BY <1>1, <1>3, <2>3, <2>4 DEF AtLevel, InQueue, InScope
    <2>6. Seed \in queued' /\ FetchedAll'
      BY <1>3, <2>1, <2>2, <2>4 DEF LevelInv, FetchedAll, InQueue
    <2> QED
      BY <2>5, <2>6 DEF LevelInv
  <1> QED
    BY <1>4, <1>5, <1>6, <1>7

LEMMA AnnounceStep ==
  ASSUME CrawlInv, NEW i \in DOMAIN tasks, Announce(i)
  PROVE  CrawlInv'
  <1>0. CrawlTypeOK /\ CountInv
    BY DEF CrawlInv
  <1>1. PICK stage \in {"store", "null"} :
           MoveTo(i, stage) /\ (stage = "null" => unwritten' = TRUE) /\ (stage = "store" => unwritten' = unwritten)
    BY DEF Announce
  <1>2. /\ tasks[i].stage = "announce" /\ stage \in Stage
        /\ UNCHANGED <<site, maxPages, queue, queued, visited, results, over, found, succeeded, failed,
                       docs, fetches, limited, skipped>>
    BY <1>1 DEF Announce, At, Stage, counters
  <1>3. PlaceInv' /\ FetchInv' /\ OverInv' /\ LevelInv'
    BY <1>1, <1>2, LateStep DEF Late, Settled
  <1>4. tasks' \in Seq(Task) /\ Len(tasks') = Len(tasks)
    BY <1>0, <1>1, <1>2, Moved
  <1>5. CrawlTypeOK'
    BY <1>0, <1>1, <1>2, <1>4 DEF CrawlTypeOK, site
  <1>6. CountInv'
    <2>1. /\ InStage(Unstored) \in Nat /\ InStage(Uncounted) \in Nat
          /\ InStage(FoundOnes) \in Nat /\ InStage(StoredOnes) \in Nat
          /\ results \in Nat /\ maxPages \in Nat /\ docs \in Nat /\ Cap \in Nat
          /\ found \in Nat /\ succeeded \in Nat /\ failed \in Nat /\ Len(tasks) \in Nat
      BY <1>0, <1>1, <1>2, CountsMove DEF Amounts
    <2>2. CASE stage = "store"
      <3>1. /\ InStage(Unstored)' = InStage(Unstored) /\ InStage(Uncounted)' = InStage(Uncounted)
            /\ InStage(FoundOnes)' = InStage(FoundOnes) /\ InStage(StoredOnes)' = InStage(StoredOnes)
        BY <1>0, <1>1, <1>2, <2>2, CountsMove DEF Unstored, Uncounted, FoundOnes, StoredOnes
      <3> QED
        BY <1>0, <1>1, <1>2, <1>4, <2>2, <3>1 DEF CountInv
    <2>3. CASE stage = "null"
      <3>1. InStage(Unstored)' = InStage(Unstored) - 1 /\ InStage(Uncounted)' = InStage(Uncounted) - 1
        BY <1>0, <1>1, <1>2, <2>3, CountsMove DEF Unstored, Uncounted
      <3> QED
        BY <1>0, <1>1, <1>2, <1>4, <2>1, <2>3, <3>1 DEF CountInv
    <2> QED
      BY <2>2, <2>3
  <1> QED
    BY <1>3, <1>5, <1>6 DEF CrawlInv

LEMMA StoreStep ==
  ASSUME CrawlInv, NEW i \in DOMAIN tasks, Store(i) \/ StoreFails(i)
  PROVE  CrawlInv'
  <1>0. CrawlTypeOK /\ CountInv
    BY DEF CrawlInv
  <1>1. PICK stage \in {"count", "countFailed"} :
           /\ MoveTo(i, stage)
           /\ stage = "count" => succeeded' = succeeded + 1 /\ failed' = failed
           /\ stage = "countFailed" => failed' = failed + 1 /\ succeeded' = succeeded
    BY DEF Store, StoreFails
  <1>2. /\ tasks[i].stage = "store" /\ stage \in Stage
        /\ UNCHANGED <<site, maxPages, queue, queued, visited, results, over, found,
                       fetches, limited, skipped, unwritten>>
        /\ docs' \in {docs, docs + 1}
    BY <1>1 DEF Store, StoreFails, At, Stage, history
  <1>3. PlaceInv' /\ FetchInv' /\ OverInv' /\ LevelInv'
    BY <1>1, <1>2, LateStep DEF Late, Settled
  <1>4. tasks' \in Seq(Task) /\ Len(tasks') = Len(tasks)
    BY <1>0, <1>1, <1>2, Moved
  <1>5. /\ InStage(Unstored) \in Nat /\ InStage(Uncounted) \in Nat
        /\ InStage(FoundOnes) \in Nat /\ InStage(StoredOnes) \in Nat
        /\ results \in Nat /\ maxPages \in Nat /\ docs \in Nat /\ Cap \in Nat
        /\ found \in Nat /\ succeeded \in Nat /\ failed \in Nat /\ Len(tasks) \in Nat
    BY <1>0, <1>1, <1>2, CountsMove DEF Amounts
  <1>6. /\ InStage(Unstored)' = InStage(Unstored) - 1
        /\ InStage(Uncounted)' = IF stage = "count" THEN InStage(Uncounted) ELSE InStage(Uncounted) - 1
        /\ InStage(FoundOnes)' = InStage(FoundOnes)
        /\ InStage(StoredOnes)' = InStage(StoredOnes) + 1
    BY <1>0, <1>1, <1>2, CountsMove DEF Unstored, Uncounted, FoundOnes, StoredOnes
  <1>7. InStage(Unstored)' \in Nat /\ InStage(Uncounted)' \in Nat
    <2>1. \A S : Cardinality({j \in DOMAIN tasks' : tasks'[j].stage \in S}) \in Nat
      BY <1>4, StagesFinite
    <2> QED
      BY <2>1 DEF InStage
  <1>8. CountInv'
    <2>0. ~unwritten' => ~unwritten
      BY <1>2, Zenon
    <2>1. results' + Len(tasks') <= maxPages'
      BY <1>0, <1>2, <1>4 DEF CountInv
    <2>2. succeeded' + InStage(Unstored)' <= found' /\ failed' + InStage(Uncounted)' <= found'
      <3>0. /\ succeeded + InStage(Unstored) <= found
            /\ failed + InStage(Uncounted) <= found /\ found' = found
        BY <1>0, <1>2 DEF CountInv
      <3>1. CASE stage = "count"
        <4>1. /\ succeeded' = succeeded + 1 /\ failed' = failed
              /\ InStage(Unstored)' = InStage(Unstored) - 1
              /\ InStage(Uncounted)' = InStage(Uncounted)
          BY <1>1, <1>6, <3>1
        <4> QED
          BY <1>5, <3>0, <4>1
      <3>2. CASE stage = "countFailed"
        <4>1. /\ failed' = failed + 1 /\ succeeded' = succeeded
              /\ InStage(Unstored)' = InStage(Unstored) - 1
              /\ InStage(Uncounted)' = InStage(Uncounted) - 1
          BY <1>1, <1>6, <3>2
        <4> QED
          BY <1>5, <3>0, <4>1
      <3> QED
        BY <3>1, <3>2
    <2>3. ASSUME ~unwritten'
          PROVE  /\ found' = results' + InStage(FoundOnes)'
                 /\ found' = succeeded' + failed' + InStage(Unstored)'
                 /\ docs' + maxPages' <= Cap + results' + InStage(StoredOnes)'
      <3>1. /\ found = results + InStage(FoundOnes)
            /\ found = succeeded + failed + InStage(Unstored)
            /\ docs + maxPages <= Cap + results + InStage(StoredOnes)
        BY <1>0, <2>0, <2>3 DEF CountInv
      <3>4. /\ results' = results /\ maxPages' = maxPages /\ found' = found
            /\ docs' <= docs + 1 /\ docs' \in Nat
        BY <1>2, <1>5
      <3>5. /\ InStage(Unstored)' = InStage(Unstored) - 1
            /\ InStage(FoundOnes)' = InStage(FoundOnes)
            /\ InStage(StoredOnes)' = InStage(StoredOnes) + 1
        BY <1>6
      <3>6. found' = results' + InStage(FoundOnes)'
        BY <3>1, <3>4, <3>5
      <3>7. found' = succeeded' + failed' + InStage(Unstored)'
        <4>1. found = succeeded + failed + InStage(Unstored)
          BY <3>1
        <4>2. CASE stage = "count"
          <5>1. succeeded' = succeeded + 1 /\ failed' = failed
            BY <1>1, <4>2
          <5> QED
            BY <1>5, <3>4, <3>5, <4>1, <5>1
        <4>3. CASE stage = "countFailed"
          <5>1. succeeded' = succeeded /\ failed' = failed + 1
            BY <1>1, <4>3
          <5> QED
            BY <1>5, <3>4, <3>5, <4>1, <5>1
        <4> QED
          BY <4>2, <4>3
      <3>8. docs' + maxPages' <= Cap + results' + InStage(StoredOnes)'
        BY <1>5, <3>1, <3>4, <3>5
      <3> QED
        BY <3>6, <3>7, <3>8
    <2> QED
      BY <2>1, <2>2, <2>3 DEF CountInv
  <1>9. CrawlTypeOK'
    <2>1. succeeded' \in Nat /\ failed' \in Nat /\ docs' \in Nat /\ found' \in Nat
      BY <1>1, <1>2, <1>5
    <2>2. succeeded' \in 0 .. found' /\ failed' \in 0 .. found'
      BY <1>7, <1>8, <2>1 DEF CountInv
    <2> QED
      BY <1>0, <1>2, <1>4, <2>1, <2>2 DEF CrawlTypeOK, site
  <1> QED
    BY <1>3, <1>8, <1>9 DEF CrawlInv

LEMMA CountStep ==
  ASSUME CrawlInv, NEW i \in DOMAIN tasks, Count(i) \/ CountFailed(i)
  PROVE  CrawlInv'
  <1>0. CrawlTypeOK /\ CountInv
    BY DEF CrawlInv
  <1>1. PICK stage \in {"page", "countFailed", "null"} :
           /\ MoveTo(i, stage)
           /\ stage = "page" => UNCHANGED <<failed, unwritten>> /\ tasks[i].stage \in {"count", "countFailed"}
           /\ stage = "countFailed" => failed' = failed + 1 /\ unwritten' = TRUE /\ tasks[i].stage = "count"
           /\ stage = "null" => failed' = failed /\ unwritten' = TRUE /\ tasks[i].stage = "countFailed"
    BY DEF Count, CountFailed, At, counters
  <1>2. /\ tasks[i].stage \in {"count", "countFailed"} /\ stage \in Stage
        /\ UNCHANGED <<site, maxPages, queue, queued, visited, results, over, found, succeeded, docs,
                       fetches, limited, skipped>>
    BY <1>1 DEF Count, CountFailed, At, Stage, counters
  <1>3. PlaceInv' /\ FetchInv' /\ OverInv' /\ LevelInv'
    BY <1>1, <1>2, LateStep DEF Late, Settled
  <1>4. tasks' \in Seq(Task) /\ Len(tasks') = Len(tasks)
    BY <1>0, <1>1, <1>2, Moved
  <1>5. /\ InStage(Unstored) \in Nat /\ InStage(Uncounted) \in Nat
        /\ InStage(FoundOnes) \in Nat /\ InStage(StoredOnes) \in Nat
        /\ results \in Nat /\ maxPages \in Nat /\ docs \in Nat /\ Cap \in Nat
        /\ found \in Nat /\ succeeded \in Nat /\ failed \in Nat /\ Len(tasks) \in Nat
    BY <1>0, <1>1, <1>2, CountsMove DEF Amounts
  <1>6. /\ InStage(Unstored)' = InStage(Unstored)
        /\ InStage(Uncounted)' = IF tasks[i].stage = "count" THEN InStage(Uncounted) - 1 ELSE InStage(Uncounted)
        /\ stage = "page" => InStage(FoundOnes)' = InStage(FoundOnes) /\ InStage(StoredOnes)' = InStage(StoredOnes)
    BY <1>0, <1>1, <1>2, CountsMove DEF Unstored, Uncounted, FoundOnes, StoredOnes
  <1>7. InStage(Unstored)' \in Nat /\ InStage(Uncounted)' \in Nat
    <2>1. \A S : Cardinality({j \in DOMAIN tasks' : tasks'[j].stage \in S}) \in Nat
      BY <1>4, StagesFinite
    <2> QED
      BY <2>1 DEF InStage
  <1>8. CountInv'
    <2>1. CASE stage = "page"
      BY <1>0, <1>1, <1>2, <1>4, <1>5, <1>6, <2>1 DEF CountInv
    <2>2. CASE stage = "countFailed"
      BY <1>0, <1>1, <1>2, <1>4, <1>5, <1>6, <2>2 DEF CountInv
    <2>3. CASE stage = "null"
      BY <1>0, <1>1, <1>2, <1>4, <1>5, <1>6, <2>3 DEF CountInv
    <2> QED
      BY <2>1, <2>2, <2>3
  <1>9. CrawlTypeOK'
    <2>1. succeeded' \in Nat /\ failed' \in Nat /\ docs' \in Nat /\ found' \in Nat
      BY <1>1, <1>2, <1>5
    <2>3. unwritten' \in BOOLEAN
      BY <1>0, <1>1 DEF CrawlTypeOK
    <2>2. succeeded' \in 0 .. found' /\ failed' \in 0 .. found'
      BY <1>7, <1>8, <2>1 DEF CountInv
    <2> QED
      BY <1>0, <1>2, <1>4, <2>1, <2>2, <2>3 DEF CrawlTypeOK, site
  <1> QED
    BY <1>3, <1>8, <1>9 DEF CrawlInv

(* A call that has not yet read its page, and that may end without it only    *)
(* when it must not be opened, or counts as skipped.                          *)
LEMMA EarlyStep ==
  ASSUME CrawlInv, NEW i \in DOMAIN tasks, NEW stage \in {"check", "fetch", "null"}, MoveTo(i, stage),
         <<tasks[i].stage, stage>> \in
           {<<"waiting", "check">>, <<"waiting", "null">>, <<"check", "fetch">>,
            <<"check", "null">>, <<"fetch", "null">>},
         visited' \in {visited, visited \cup {tasks[i].url}},
         stage = "check" =>
           tasks[i].url \notin Outside \cup (IF robots THEN Disallowed ELSE {}),
         stage = "fetch" =>
           /\ tasks[i].url \notin Private
           /\ fetches' = [fetches EXCEPT ![tasks[i].url] = @ + 1],
         stage # "fetch" => fetches' = fetches,
         stage = "null" => tasks[i].url \notin Opened \/ skipped' = TRUE,
         skipped' = TRUE \/ skipped' = skipped,
         UNCHANGED <<site, maxPages, queue, queued, results, over, counters, docs, limited, unwritten>>
  PROVE  CrawlInv'
  <1> DEFINE url == tasks[i].url
  <1>0. /\ CrawlTypeOK /\ PlaceInv /\ FetchInv /\ CountInv
        /\ tasks \in Seq(Task) /\ DOMAIN tasks = 1 .. Len(tasks) /\ stage \in Stage
    BY DEF CrawlInv, CrawlTypeOK, Stage
  <1>1. url \in Page /\ tasks[i].depth \in 0 .. MaxDepth /\ MaxDepth \in Nat
    <2>1. tasks[i] \in Task
      BY <1>0
    <2> QED
      BY <2>1, CrawlBounds DEF Task
  <1>2. /\ tasks' \in Seq(Task) /\ Len(tasks') = Len(tasks) /\ DOMAIN tasks' = DOMAIN tasks
        /\ \A j \in DOMAIN tasks :
             /\ tasks'[j].url = tasks[j].url /\ tasks'[j].depth = tasks[j].depth
             /\ tasks'[j].stage = IF j = i THEN stage ELSE tasks[j].stage
    BY <1>0, Moved
  <1>3. Within' = Within /\ Opened' = Opened /\ Reach' = Reach /\ \A p : Links(p)' = Links(p)
    BY SameSite
  <1>4. url \in queued /\ url \in Within[tasks[i].depth]
    BY <1>0 DEF PlaceInv
  <1>5. stage = "fetch" => url \in Opened
    BY <1>0, <1>1 DEF PlaceInv, Opened
  <1>6. /\ fetches' \in [Page -> Nat]
        /\ \A p \in Page : fetches'[p] = IF stage = "fetch" /\ p = url THEN 1 ELSE fetches[p]
    <2>1. fetches \in [Page -> Nat]
      BY <1>0 DEF CrawlTypeOK
    <2>2. stage = "fetch" => fetches[url] = 0
      BY <1>0 DEF PlaceInv
    <2> QED
      BY <1>1, <2>1, <2>2
  <1>7. skipped' \in BOOLEAN
    BY <1>0 DEF CrawlTypeOK
  <1>8. CrawlTypeOK'
    BY <1>0, <1>2, <1>4, <1>6, <1>7 DEF CrawlTypeOK, site, counters
  <1>9. \A k \in DOMAIN queue : queue[k].url # url /\ queue[k].url \in Page
    BY <1>0 DEF PlaceInv, CrawlTypeOK, Entry
  <1>10. \A j \in DOMAIN tasks : j # i => tasks[j].url # url
    BY <1>0 DEF PlaceInv
  <1>11. PlaceInv'
    <2>1. \A k \in DOMAIN queue :
            /\ queue[k].url \in (queued \cap Within[queue[k].depth]) \ visited'
            /\ fetches'[queue[k].url] = 0
      BY <1>0, <1>6, <1>9 DEF PlaceInv
    <2>2. ASSUME NEW j \in DOMAIN tasks
          PROVE  /\ tasks'[j].url \in queued \cap Within[tasks'[j].depth]
                 /\ tasks'[j].stage = "waiting" => tasks'[j].url \notin visited'
                 /\ tasks'[j].stage \in {"waiting", "check"} => fetches'[tasks'[j].url] = 0
                 /\ tasks'[j].stage = "check" =>
                      tasks'[j].url \notin Outside \cup (IF robots THEN Disallowed ELSE {})
                 /\ tasks'[j].stage = "fetch" => tasks'[j].url \in Opened
      <3>1. tasks[j].url \in Page
        <4>1. tasks[j] \in Task
          BY <1>0
        <4> QED
          BY <4>1 DEF Task
      <3>2. CASE j = i
        BY <1>0, <1>1, <1>2, <1>4, <1>5, <1>6, <3>2 DEF PlaceInv
      <3>3. CASE j # i
        BY <1>0, <1>2, <1>6, <1>10, <3>1, <3>3 DEF PlaceInv
      <3> QED
        BY <3>2, <3>3
    <2>3. /\ \A j, k \in DOMAIN tasks : tasks'[j].url = tasks'[k].url => j = k
          /\ \A k \in DOMAIN queue, j \in DOMAIN tasks : queue[k].url # tasks'[j].url
          /\ \A j, k \in DOMAIN queue : queue[j].url = queue[k].url => j = k
      BY <1>0, <1>2 DEF PlaceInv
    <2> QED
      BY <1>2, <1>3, <2>1, <2>2, <2>3 DEF PlaceInv, site
  <1>12. FetchInv'
    <2>1. stage = "fetch" => url \in Reach
      <3>1. Within[tasks[i].depth] \subseteq Within[MaxDepth]
        BY <1>0, <1>1, WithinMonotone
      <3> QED
        BY <1>4, <1>5, <3>1 DEF Reach
    <2> QED
      BY <1>0, <1>3, <1>4, <1>6, <2>1 DEF FetchInv
  <1>13. OverInv'
    <2>1. ~over
      BY DEF CrawlInv, OverInv
    <2> QED
      BY <2>1, Zenon DEF OverInv
  <1>14. LevelInv'
    <2> SUFFICES ASSUME ~limited', ~skipped' PROVE LevelInv'
      BY DEF LevelInv
    <2>1. ~limited /\ ~skipped /\ (stage = "null" => url \notin Opened)
      <3>1. ~limited
        BY Zenon
      <3>2. skipped' # TRUE
        BY Zenon
      <3>3. ~skipped
        BY <3>2, Zenon
      <3> QED
        BY <3>1, <3>2, <3>3, Zenon
    <2>2. LevelInv
      BY DEF CrawlInv
    <2>3. PICK n \in 0 .. (MaxDepth + 1) : AtLevel(n)
      BY <2>1, <2>2 DEF LevelInv
    <2>4. ASSUME NEW p \in queued \cap Opened, Awaited(p, {"waiting", "check", "fetch"})
          PROVE  Awaited(p, {"waiting", "check", "fetch"})'
      <3>1. PICK j \in DOMAIN tasks : tasks[j].url = p /\ tasks[j].stage \in {"waiting", "check", "fetch"}
        BY <2>4 DEF Awaited
      <3>2. tasks'[j].url = p /\ tasks'[j].stage \in {"waiting", "check", "fetch"}
        BY <1>2, <2>1, <3>1
      <3> QED
        BY <1>2, <3>1, <3>2 DEF Awaited
    <2>5. ASSUME NEW p \in queued \cap Opened, Awaited(p, {"waiting", "check"})
          PROVE  Awaited(p, {"waiting", "check"})' \/ fetches'[p] > 0
      <3>1. PICK j \in DOMAIN tasks : tasks[j].url = p /\ tasks[j].stage \in {"waiting", "check"}
        BY <2>5 DEF Awaited
      <3>2. \/ tasks'[j].url = p /\ tasks'[j].stage \in {"waiting", "check"}
            \/ fetches'[p] = 1
        BY <1>1, <1>2, <1>6, <2>1, <3>1
      <3> QED
        BY <1>2, <3>1, <3>2 DEF Awaited
    <2>6. AtLevel(n)'
      <3>1. \A p \in queued \cap Opened : InScope(Links(p))' = InScope(Links(p))
        BY <1>3 DEF InScope
      <3> QED
        BY <1>2, <1>3, <2>3, <2>4, <3>1 DEF AtLevel, InQueue
    <2>7. FetchedAll'
      <3>1. \A p \in queued \cap Opened : fetches[p] > 0 => fetches'[p] > 0
        BY <1>6 DEF Opened
      <3> QED
        BY <1>3, <2>1, <2>2, <2>5, <3>1 DEF LevelInv, FetchedAll, InQueue
    <2> QED
      BY <2>1, <2>2, <2>6, <2>7 DEF LevelInv
  <1>15. CountInv'
    <2>1. \A S \in {Unstored, Uncounted, FoundOnes, StoredOnes} : InStage(S)' = InStage(S)
      BY <1>0, CountsMove DEF Unstored, Uncounted, FoundOnes, StoredOnes
    <2> QED
      BY <1>0, <1>2, <2>1 DEF CountInv, counters
  <1> QED
    BY <1>8, <1>11, <1>12, <1>13, <1>14, <1>15 DEF CrawlInv

LEMMA BeginStep ==
  ASSUME CrawlInv, NEW i \in DOMAIN tasks, Begin(i)
  PROVE  CrawlInv'
  <1>0. tasks[i].stage = "waiting" /\ tasks[i].url \notin visited
    BY DEF Begin, At, CrawlInv, PlaceInv
  <1>1. /\ UNCHANGED <<site, maxPages, queue, queued, results, over, counters, docs, limited, unwritten>>
        /\ fetches' = fetches /\ skipped' = skipped
    BY DEF Begin, history
  <1>2. CASE tasks[i].url \in Outside /\ MoveTo(i, "null") /\ visited' = visited
    BY <1>0, <1>1, <1>2, EarlyStep DEF Opened
  <1>3. CASE robots /\ tasks[i].url \in Disallowed /\ MoveTo(i, "null") /\ visited' = visited \cup {tasks[i].url}
    BY <1>0, <1>1, <1>3, EarlyStep DEF Opened
  <1>4. CASE /\ tasks[i].url \notin Outside \cup (IF robots THEN Disallowed ELSE {})
             /\ MoveTo(i, "check") /\ visited' = visited
    BY <1>0, <1>1, <1>4, EarlyStep
  <1> QED
    BY <1>0, <1>2, <1>3, <1>4 DEF Begin

LEMMA CheckStep ==
  ASSUME CrawlInv, NEW i \in DOMAIN tasks, Check(i)
  PROVE  CrawlInv'
  <1>0. tasks[i].stage = "check"
    BY DEF Check, At
  <1>1. UNCHANGED <<site, maxPages, queue, queued, results, over, counters, docs, limited, unwritten>>
    BY DEF Check
  <1>2. CASE /\ tasks[i].url \notin Private
             /\ MoveTo(i, "fetch")
             /\ visited' = visited \cup {tasks[i].url}
             /\ fetches' = [fetches EXCEPT ![tasks[i].url] = @ + 1]
             /\ skipped' = skipped
    BY <1>0, <1>1, <1>2, EarlyStep
  <1>3. CASE /\ MoveTo(i, "null")
             /\ skipped' = (skipped \/ tasks[i].url \notin Private)
             /\ UNCHANGED <<visited, fetches>>
    <2>1. tasks[i].url \notin Opened \/ skipped' = TRUE
      BY <1>3 DEF Opened
    <2>2. skipped' = TRUE \/ skipped' = skipped
      <3>1. skipped \in BOOLEAN
        BY DEF CrawlInv, CrawlTypeOK
      <3> QED
        BY <1>3, <3>1
    <2> QED
      BY <1>0, <1>1, <1>3, <2>1, <2>2, EarlyStep
  <1> QED
    BY <1>2, <1>3 DEF Check

LEMMA SkipStep ==
  ASSUME CrawlInv, NEW i \in DOMAIN tasks, Skip(i)
  PROVE  CrawlInv'
  BY EarlyStep DEF Skip, At

(* The links of a page that a call pushes: as many as there is room for, each  *)
(* once, none that is queued already; and all of them unless maxPages limits.  *)
LEMMA LinksPushed ==
  ASSUME CrawlInv, NEW i \in DOMAIN tasks, Parse(i)
  PROVE  LET new == IF Follows(tasks[i].depth) THEN NewLinks(tasks[i].url) ELSE {}
         IN  \E n \in Nat : \E pushed \in [1 .. n -> new] :
               /\ \A j, k \in 1 .. n : pushed[j] = pushed[k] => j = k
               /\ queue' \in Seq(Entry) /\ Len(queue') = Len(queue) + n /\ Len(queue') <= maxPages
               /\ \A k \in 1 .. Len(queue) : queue'[k] = queue[k]
               /\ \A k \in 1 .. n : /\ queue'[Len(queue) + k].url = pushed[k]
                                    /\ queue'[Len(queue) + k].depth = tasks[i].depth + 1
               /\ queued' = queued \cup {pushed[k] : k \in 1 .. n}
               /\ limited' = (limited \/ {pushed[k] : k \in 1 .. n} # new)
  <1> DEFINE url   == tasks[i].url
             depth == tasks[i].depth
             new   == IF Follows(depth) THEN NewLinks(url) ELSE {}
             n     == Lower(Cardinality(new), Room)
  <1>0. CrawlTypeOK /\ queue \in Seq(Entry) /\ Len(queue) \in Nat /\ Len(queue) <= maxPages
        /\ results \in Nat /\ maxPages \in Nat /\ MaxDepth \in Nat
    BY CrawlBounds DEF CrawlInv, CrawlTypeOK
  <1>1. url \in Page /\ depth \in 0 .. MaxDepth
    <2>1. tasks[i] \in Task
      BY <1>0 DEF CrawlTypeOK
    <2> QED
      BY <2>1 DEF Task
  <1>2. new \subseteq Page /\ IsFiniteSet(new) /\ Cardinality(new) \in Nat
    <2>1. Links(url) \subseteq Page /\ IsFiniteSet(Links(url))
      BY <1>0, <1>1, LayersFacts
    <2>2. new \in SUBSET Links(url)
      BY DEF NewLinks, InScope
    <2> HIDE DEF new
    <2>3. IsFiniteSet(new)
      BY <2>1, <2>2, FS_Subset
    <2> QED
      BY <2>1, <2>2, <2>3, FS_CardinalityType
  <1>3. new # {} => depth + 1 \in 0 .. MaxDepth
    BY <1>0, <1>1 DEF Follows
  <1>4. PICK pushed \in Arrangements(new, n) :
          /\ queue' = queue \o [k \in 1 .. n |-> [url |-> pushed[k], depth |-> depth + 1]]
          /\ queued' = queued \cup {pushed[k] : k \in 1 .. n}
    BY DEF Parse
  <1>5. limited' = (limited \/ n < Cardinality(new))
    BY DEF Parse
  <1> HIDE DEF new
  <1>6. n \in Nat /\ n <= Cardinality(new) /\ (n > 0 => Len(queue) + n <= maxPages)
    BY <1>0, <1>2 DEF Lower, Room
  <1> HIDE DEF n
  <1>7. pushed \in [1 .. n -> new] /\ \A j, k \in 1 .. n : pushed[j] = pushed[k] => j = k
    BY <1>4 DEF Arrangements
  <1> DEFINE tail == [k \in 1 .. n |-> [url |-> pushed[k], depth |-> depth + 1]]
  <1>8. tail \in Seq(Entry) /\ Len(tail) = n
    <2>1. ASSUME NEW k \in 1 .. n PROVE [url |-> pushed[k], depth |-> depth + 1] \in Entry
      <3>1. pushed[k] \in new
        BY <1>7
      <3>2. pushed[k] \in Page /\ depth + 1 \in 0 .. MaxDepth
        BY <1>2, <1>3, <3>1
      <3> QED
        BY <3>2 DEF Entry
    <2> QED
      BY <1>6, <2>1
  <1>9. /\ queue' \in Seq(Entry) /\ Len(queue') = Len(queue) + n
        /\ \A k \in 1 .. (Len(queue) + n) :
             queue'[k] = IF k <= Len(queue) THEN queue[k] ELSE tail[k - Len(queue)]
    <2> HIDE DEF tail
    <2>1. queue' = queue \o tail
      BY <1>4 DEF tail
    <2> QED
      BY <1>0, <1>8, <2>1, ConcatProperties
  <1>10. ASSUME NEW k \in 1 .. Len(queue) PROVE queue'[k] = queue[k]
    <2>1. k \in 1 .. (Len(queue) + n) /\ k <= Len(queue)
      BY <1>0, <1>6
    <2> QED
      BY <1>9, <2>1
  <1>11. ASSUME NEW k \in 1 .. n
         PROVE  queue'[Len(queue) + k].url = pushed[k] /\ queue'[Len(queue) + k].depth = depth + 1
    <2>1. Len(queue) + k \in 1 .. (Len(queue) + n) /\ ~(Len(queue) + k <= Len(queue))
          /\ (Len(queue) + k) - Len(queue) = k
      BY <1>0, <1>6
    <2>2. queue'[Len(queue) + k] = tail[k]
      BY <1>9, <2>1
    <2> QED
      BY <2>2
  <1>12. n < Cardinality(new) <=> {pushed[k] : k \in 1 .. n} # new
    <2> DEFINE range == {pushed[k] : k \in 1 .. n}
    <2>1. range \in SUBSET new
      BY <1>7
    <2>2. IsFiniteSet(1 .. n) /\ Cardinality(1 .. n) = n
      BY <1>6, FS_Interval
    <2>3. ExistsBijection(1 .. n, range)
      <3>1. pushed \in Bijection(1 .. n, range)
        <4>1. pushed \in [1 .. n -> range] /\ \A y \in range : \E k \in 1 .. n : pushed[k] = y
          BY <1>7
        <4>2. pushed \in Injection(1 .. n, range)
          BY <1>7, <4>1 DEF Injection, IsInjective
        <4>3. pushed \in Surjection(1 .. n, range)
          BY <4>1 DEF Surjection
        <4> QED
          BY <4>2, <4>3 DEF Bijection
      <3> QED
        BY <3>1 DEF ExistsBijection
    <2> HIDE DEF range
    <2>4. Cardinality(range) = n
      BY <2>2, <2>3, FS_Bijection
    <2>5. Cardinality(new) = Cardinality(range) => new = range
      BY <1>2, <2>1, FS_Subset
    <2>6. n < Cardinality(new) <=> range # new
      BY <1>2, <1>6, <2>4, <2>5
    <2> QED
      BY <2>6 DEF range
  <1>13. limited' = (limited \/ {pushed[k] : k \in 1 .. n} # new)
    BY <1>5, <1>12
  <1>14. Len(queue') <= maxPages
    BY <1>0, <1>6, <1>9
  <1>15. /\ n \in Nat /\ pushed \in [1 .. n -> new]
         /\ \A j, k \in 1 .. n : pushed[j] = pushed[k] => j = k
         /\ queue' \in Seq(Entry) /\ Len(queue') = Len(queue) + n /\ Len(queue') <= maxPages
         /\ \A k \in 1 .. Len(queue) : queue'[k] = queue[k]
         /\ \A k \in 1 .. n : /\ queue'[Len(queue) + k].url = pushed[k]
                              /\ queue'[Len(queue) + k].depth = depth + 1
         /\ queued' = queued \cup {pushed[k] : k \in 1 .. n}
         /\ limited' = (limited \/ {pushed[k] : k \in 1 .. n} # new)
    BY <1>4, <1>6, <1>7, <1>9, <1>10, <1>11, <1>13, <1>14
  <1> QED
    BY <1>15 DEF new

LEMMA ParseStep ==
  ASSUME CrawlInv, NEW i \in DOMAIN tasks, Parse(i)
  PROVE  CrawlInv'
  <1> DEFINE url   == tasks[i].url
             depth == tasks[i].depth
             new   == IF Follows(depth) THEN NewLinks(url) ELSE {}
  <1>0. /\ CrawlTypeOK /\ PlaceInv /\ FetchInv /\ CountInv
        /\ queue \in Seq(Entry) /\ DOMAIN queue = 1 .. Len(queue) /\ Len(queue) \in Nat
        /\ tasks \in Seq(Task) /\ MaxDepth \in Nat /\ visited \subseteq queued
    BY CrawlBounds DEF CrawlInv, CrawlTypeOK
  <1>1. url \in Page /\ depth \in 0 .. MaxDepth
    <2>1. tasks[i] \in Task
      BY <1>0
    <2> QED
      BY <2>1 DEF Task
  <1>2. PICK n \in Nat : \E pushed \in [1 .. n -> new] :
          /\ \A j, k \in 1 .. n : pushed[j] = pushed[k] => j = k
          /\ queue' \in Seq(Entry) /\ Len(queue') = Len(queue) + n /\ Len(queue') <= maxPages
          /\ \A k \in 1 .. Len(queue) : queue'[k] = queue[k]
          /\ \A k \in 1 .. n : /\ queue'[Len(queue) + k].url = pushed[k]
                               /\ queue'[Len(queue) + k].depth = depth + 1
          /\ queued' = queued \cup {pushed[k] : k \in 1 .. n}
          /\ limited' = (limited \/ {pushed[k] : k \in 1 .. n} # new)
    BY LinksPushed
  <1>19. PICK pushed \in [1 .. n -> new] :
          /\ \A j, k \in 1 .. n : pushed[j] = pushed[k] => j = k
          /\ queue' \in Seq(Entry) /\ Len(queue') = Len(queue) + n /\ Len(queue') <= maxPages
          /\ \A k \in 1 .. Len(queue) : queue'[k] = queue[k]
          /\ \A k \in 1 .. n : /\ queue'[Len(queue) + k].url = pushed[k]
                               /\ queue'[Len(queue) + k].depth = depth + 1
          /\ queued' = queued \cup {pushed[k] : k \in 1 .. n}
          /\ limited' = (limited \/ {pushed[k] : k \in 1 .. n} # new)
    BY <1>2
  <1>3. PICK stage \in {"null", "announce"} :
          MoveTo(i, stage) /\ found' = IF stage = "announce" THEN found + 1 ELSE found
    BY DEF Parse, Extract
  <1>4. /\ UNCHANGED <<site, maxPages, visited, results, over, succeeded, failed, docs,
                       fetches, skipped, unwritten>>
        /\ tasks[i].stage = "fetch" /\ stage \in Stage
    BY DEF Parse, At, Stage
  <1>5. /\ tasks' \in Seq(Task) /\ Len(tasks') = Len(tasks) /\ DOMAIN tasks' = DOMAIN tasks
        /\ \A j \in DOMAIN tasks :
             /\ tasks'[j].url = tasks[j].url /\ tasks'[j].depth = tasks[j].depth
             /\ tasks'[j].stage = IF j = i THEN stage ELSE tasks[j].stage
    BY <1>0, <1>3, <1>4, Moved
  <1>6. Within' = Within /\ Opened' = Opened /\ Reach' = Reach /\ \A p : Links(p)' = Links(p)
    BY <1>4, SameSite
  <1>7. /\ new \cap (queued \cup Outside) = {} /\ new \subseteq Links(url) /\ new \subseteq Page
        /\ depth < MaxDepth => InScope(Links(url)) \subseteq queued \cup new
    <2>1. Links(url) \subseteq Page
      BY <1>0, <1>1, LayersFacts
    <2> QED
      BY <1>0, <1>1, <2>1 DEF NewLinks, InScope, Follows
  <1>8. url \in Opened \cap Within[depth] /\ url \in queued
    BY <1>0, <1>4 DEF PlaceInv
  <1>9. new \subseteq Within[depth + 1]
    <2>1. Within[depth + 1] = Within[depth] \cup UNION {Links(p) : p \in Within[depth] \cap Opened}
      <3>1. depth \in Nat
        BY <1>1
      <3> HIDE DEF depth
      <3> QED
        BY <1>0, <3>1, LayersFacts
    <2> QED
      BY <1>7, <1>8, <2>1
  <1> HIDE DEF new
  <1>10. \A k \in 1 .. n : pushed[k] \in new
    OBVIOUS
  <1>11. queued \subseteq queued' /\ queued' \subseteq queued \cup new
    BY <1>19, <1>10
  <1>12. /\ DOMAIN queue' = 1 .. (Len(queue) + n)
         /\ \A k \in DOMAIN queue' : k \in DOMAIN queue \/ \E j \in 1 .. n : k = Len(queue) + j
         /\ \A k \in DOMAIN queue : k \in DOMAIN queue'
         /\ \A k \in 1 .. n : Len(queue) + k \in DOMAIN queue'
    <2>1. DOMAIN queue' = 1 .. (Len(queue) + n)
      BY <1>0, <1>19
    <2>2. ASSUME NEW k \in DOMAIN queue', k \notin DOMAIN queue
          PROVE  \E j \in 1 .. n : k = Len(queue) + j
      <3>1. k - Len(queue) \in 1 .. n /\ k = Len(queue) + (k - Len(queue))
        BY <1>0, <2>1, <2>2
      <3> QED
        BY <3>1
    <2> QED
      BY <1>0, <2>1, <2>2
  <1>13. CrawlTypeOK'
    <2>1. found' \in Nat /\ succeeded' \in 0 .. found' /\ failed' \in 0 .. found'
      BY <1>0, <1>3, <1>4 DEF CrawlTypeOK
    <2>2. limited' \in BOOLEAN
      BY <1>19
    <2>3. queued' \subseteq Page /\ visited' \subseteq queued'
      BY <1>0, <1>4, <1>7, <1>11 DEF CrawlTypeOK
    <2> QED
      BY <1>0, <1>19, <1>4, <1>5, <2>1, <2>2, <2>3 DEF CrawlTypeOK, site
  <1>14. PlaceInv'
    <2>1. ASSUME NEW k \in DOMAIN queue'
          PROVE  /\ queue'[k].url \in (queued' \cap Within[queue'[k].depth]) \ visited
                 /\ fetches[queue'[k].url] = 0
      <3>1. CASE k \in DOMAIN queue
        BY <1>0, <1>19, <1>11, <3>1 DEF PlaceInv
      <3>2. ASSUME NEW j \in 1 .. n, k = Len(queue) + j
            PROVE  /\ queue'[k].url \in (queued' \cap Within[queue'[k].depth]) \ visited
                   /\ fetches[queue'[k].url] = 0
        <4>1. queue'[k].url = pushed[j] /\ queue'[k].depth = depth + 1
          BY <1>19, <3>2
        <4>2. pushed[j] \in new /\ pushed[j] \in queued'
          BY <1>19, <1>10
        <4>3. pushed[j] \in Page /\ pushed[j] \notin queued /\ pushed[j] \in Within[depth + 1]
          BY <1>7, <1>9, <4>2
        <4>4. fetches[pushed[j]] = 0
          BY <1>0, <4>3 DEF FetchInv
        <4> QED
          BY <1>0, <4>1, <4>2, <4>3, <4>4
      <3> QED
        BY <1>12, <3>1, <3>2
    <2>2. ASSUME NEW j \in DOMAIN queue', NEW k \in DOMAIN queue', queue'[j].url = queue'[k].url
          PROVE  j = k
      <3>1. \A m \in DOMAIN queue : queue'[m].url = queue[m].url /\ queue[m].url \in queued
        BY <1>0, <1>19 DEF PlaceInv
      <3>2. \A m \in 1 .. n : queue'[Len(queue) + m].url = pushed[m] /\ pushed[m] \notin queued
        BY <1>19, <1>7, <1>10
      <3>3. CASE j \in DOMAIN queue /\ k \in DOMAIN queue
        BY <1>0, <2>2, <3>1, <3>3 DEF PlaceInv
      <3>4. CASE j \notin DOMAIN queue /\ k \notin DOMAIN queue
        <4>1. PICK a \in 1 .. n : j = Len(queue) + a
          BY <1>12, <3>4
        <4>2. PICK b \in 1 .. n : k = Len(queue) + b
          BY <1>12, <3>4
        <4>3. pushed[a] = pushed[b]
          BY <2>2, <3>2, <4>1, <4>2
        <4>4. a = b
          BY <1>19, <4>3
        <4> QED
          BY <4>1, <4>2, <4>4
      <3> QED
        BY <1>12, <2>2, <3>1, <3>2, <3>3, <3>4
    <2>3. ASSUME NEW k \in DOMAIN queue', NEW j \in DOMAIN tasks
          PROVE  queue'[k].url # tasks[j].url
      <3>1. tasks[j].url \in queued
        BY <1>0 DEF PlaceInv
      <3>2. CASE k \in DOMAIN queue
        BY <1>0, <1>19, <3>2 DEF PlaceInv
      <3>3. ASSUME NEW m \in 1 .. n, k = Len(queue) + m
            PROVE  queue'[k].url # tasks[j].url
        <4>1. pushed[m] \notin queued
          BY <1>7, <1>10
        <4> QED
          BY <1>19, <3>1, <3>3, <4>1
      <3> QED
        BY <1>12, <3>2, <3>3
    <2>4. ASSUME NEW j \in DOMAIN tasks
          PROVE  /\ tasks'[j].url \in queued' \cap Within[tasks'[j].depth]
                 /\ tasks'[j].stage = "waiting" => tasks'[j].url \notin visited
                 /\ tasks'[j].stage \in {"waiting", "check"} => fetches[tasks'[j].url] = 0
                 /\ tasks'[j].stage = "check" =>
                      tasks'[j].url \notin Outside \cup (IF robots THEN Disallowed ELSE {})
                 /\ tasks'[j].stage = "fetch" => tasks'[j].url \in Opened
      BY <1>0, <1>5, <1>11 DEF PlaceInv
    <2>5. \A j, k \in DOMAIN tasks : tasks'[j].url = tasks'[k].url => j = k
      BY <1>0, <1>5 DEF PlaceInv
    <2> QED
      BY <1>4, <1>5, <1>6, <2>1, <2>2, <2>3, <2>4, <2>5 DEF PlaceInv, site
  <1>15. FetchInv'
    BY <1>0, <1>4, <1>6, <1>11 DEF FetchInv
  <1>16. OverInv'
    <2>1. over' = over
      BY <1>4
    <2>2. ~over
      BY DEF CrawlInv, OverInv
    <2> QED
      BY <2>1, <2>2, Zenon DEF OverInv
  <1>17. LevelInv'
    <2> SUFFICES ASSUME ~limited', ~skipped' PROVE LevelInv'
      BY DEF LevelInv
    <2>0. skipped' = skipped
      BY <1>4
    <2>1. ~limited /\ {pushed[k] : k \in 1 .. n} = new
      BY <1>19, Zenon
    <2>2. ~skipped
      BY <2>0, Zenon
    <2>3. LevelInv
      BY DEF CrawlInv
    <2>4. PICK m \in 0 .. (MaxDepth + 1) : AtLevel(m)
      BY <2>1, <2>2, <2>3 DEF LevelInv
    <2>5. m = depth + 1 /\ m > 0 /\ m - 1 = depth
      BY <1>1, <2>4 DEF AtLevel
    <2>6. queued' = queued \cup new
      BY <1>19, <2>1
    <2>7. \A p : InQueue(p) => InQueue(p)'
      BY <1>0, <1>19, <1>12 DEF InQueue
    <2>8. \A p \in new : InQueue(p)'
      <3> SUFFICES ASSUME NEW p \in new PROVE InQueue(p)'
        OBVIOUS
      <3>1. PICK k \in 1 .. n : pushed[k] = p
        BY <2>1
      <3> QED
        BY <1>19, <1>12, <3>1 DEF InQueue
    <2>9. \A p : Awaited(p, {"waiting", "check", "fetch"}) =>
                   Awaited(p, {"waiting", "check", "fetch"})' \/ p = url
      BY <1>5 DEF Awaited
    <2>10. \A p : Awaited(p, {"waiting", "check"}) => Awaited(p, {"waiting", "check"})'
      BY <1>4, <1>5 DEF Awaited
    <2>11. AtLevel(m)'
      <3>1. \A k \in DOMAIN queue' : queue'[k].depth = m
        <4> SUFFICES ASSUME NEW k \in DOMAIN queue' PROVE queue'[k].depth = m
          OBVIOUS
        <4>1. CASE k \in DOMAIN queue
          BY <1>0, <1>19, <2>4, <4>1 DEF AtLevel
        <4>2. CASE \E j \in 1 .. n : k = Len(queue) + j
          BY <1>19, <2>5, <4>2
        <4> QED
          BY <1>12, <4>1, <4>2
      <3>2. \A j \in DOMAIN tasks' : tasks'[j].depth + 1 = m
        BY <1>5, <2>4 DEF AtLevel
      <3>3. Within[m - 1] \ Outside \subseteq queued /\ \A k \in DOMAIN queue : queue[k].url \notin Within[m - 1]
        BY <2>4, <2>5 DEF AtLevel
      <3>4. Within'[m - 1] \ Outside \subseteq queued'
        BY <1>6, <1>11, <3>3
      <3>5. \A k \in DOMAIN queue' : queue'[k].url \notin Within'[m - 1]
        <4> SUFFICES ASSUME NEW k \in DOMAIN queue' PROVE queue'[k].url \notin Within[m - 1]
          BY <1>6
        <4>1. CASE k \in DOMAIN queue
          BY <1>0, <1>19, <3>3, <4>1
        <4>2. ASSUME NEW j \in 1 .. n, k = Len(queue) + j PROVE queue'[k].url \notin Within[m - 1]
          <5>1. pushed[j] \notin queued \cup Outside
            BY <1>7, <1>10
          <5> QED
            BY <1>19, <3>3, <4>2, <5>1
        <4> QED
          BY <1>12, <4>1, <4>2
      <3>6. ASSUME m <= MaxDepth, NEW p \in queued' \cap Opened'
            PROVE  \/ InQueue(p)' \/ Awaited(p, {"waiting", "check", "fetch"})'
                   \/ InScope(Links(p))' \subseteq queued'
        <4>1. InScope(Links(p))' = InScope(Links(p))
          BY <1>6 DEF InScope
        <4>2. CASE p = url
          <5>1. depth < MaxDepth
            BY <1>0, <1>1, <2>5, <3>6
          <5> QED
            BY <1>7, <2>6, <4>1, <4>2, <5>1
        <4>3. CASE p \in new
          BY <2>8, <4>3
        <4>4. CASE p \in queued /\ p # url
          <5>1. InQueue(p) \/ Awaited(p, {"waiting", "check", "fetch"}) \/ InScope(Links(p)) \subseteq queued
            BY <1>6, <2>4, <3>6, <4>4 DEF AtLevel
          <5> QED
            BY <1>11, <2>7, <2>9, <4>1, <4>4, <5>1
        <4> QED
          BY <2>6, <3>6, <4>2, <4>3, <4>4
      <3> QED
        BY <3>1, <3>2, <3>4, <3>5, <3>6 DEF AtLevel
    <2>12. FetchedAll'
      <3>1. FetchedAll
        BY <2>1, <2>2, <2>3 DEF LevelInv
      <3> QED
        BY <1>4, <1>6, <2>6, <2>7, <2>8, <2>10, <3>1 DEF FetchedAll
    <2>13. Seed \in queued'
      BY <1>11, <2>1, <2>2, <2>3 DEF LevelInv
    <2> QED
      BY <2>11, <2>12, <2>13 DEF LevelInv
  <1>18. CountInv'
    <2>1. /\ InStage(Unstored) \in Nat /\ InStage(Uncounted) \in Nat
          /\ InStage(FoundOnes) \in Nat /\ InStage(StoredOnes) \in Nat
          /\ results \in Nat /\ maxPages \in Nat /\ docs \in Nat /\ Cap \in Nat
          /\ found \in Nat /\ succeeded \in Nat /\ failed \in Nat /\ Len(tasks) \in Nat
      BY <1>0, <1>3, <1>4, CountsMove DEF Amounts
    <2>2. CASE stage = "null"
      <3>1. /\ InStage(Unstored)' = InStage(Unstored) /\ InStage(Uncounted)' = InStage(Uncounted)
            /\ InStage(FoundOnes)' = InStage(FoundOnes) /\ InStage(StoredOnes)' = InStage(StoredOnes)
        BY <1>0, <1>3, <1>4, <2>2, CountsMove DEF Unstored, Uncounted, FoundOnes, StoredOnes
      <3> QED
        BY <1>0, <1>3, <1>4, <1>5, <2>2, <3>1 DEF CountInv
    <2>3. CASE stage = "announce"
      <3>1. /\ InStage(Unstored)' = InStage(Unstored) + 1 /\ InStage(Uncounted)' = InStage(Uncounted) + 1
            /\ InStage(FoundOnes)' = InStage(FoundOnes) + 1 /\ InStage(StoredOnes)' = InStage(StoredOnes)
        BY <1>0, <1>3, <1>4, <2>3, CountsMove DEF Unstored, Uncounted, FoundOnes, StoredOnes
      <3>2. found' = found + 1
        BY <1>3, <2>3
      <3>3. ~unwritten' => ~unwritten
        BY <1>4, Zenon
      <3>4. results' + Len(tasks') <= maxPages'
        BY <1>0, <1>4, <1>5 DEF CountInv
      <3>5. succeeded' + InStage(Unstored)' <= found' /\ failed' + InStage(Uncounted)' <= found'
        <4>1. succeeded + InStage(Unstored) <= found /\ failed + InStage(Uncounted) <= found
          BY <1>0 DEF CountInv
        <4>2. succeeded' = succeeded /\ failed' = failed
          BY <1>4
        <4> QED
          BY <2>1, <3>1, <3>2, <4>1, <4>2
      <3>6. ASSUME ~unwritten
            PROVE  /\ found' = results' + InStage(FoundOnes)'
                   /\ found' = succeeded' + failed' + InStage(Unstored)'
                   /\ docs' + maxPages' <= Cap + results' + InStage(StoredOnes)'
        <4>1. /\ found = results + InStage(FoundOnes)
              /\ found = succeeded + failed + InStage(Unstored)
              /\ docs + maxPages <= Cap + results + InStage(StoredOnes)
          BY <1>0, <3>6 DEF CountInv
        <4>2. /\ results' = results /\ maxPages' = maxPages /\ docs' = docs
              /\ succeeded' = succeeded /\ failed' = failed
          BY <1>4
        <4>3. found' = succeeded' + failed' + InStage(Unstored)'
          BY <2>1, <3>1, <3>2, <4>1, <4>2
        <4> QED
          BY <2>1, <3>1, <3>2, <4>1, <4>2, <4>3
      <3> QED
        BY <3>3, <3>4, <3>5, <3>6 DEF CountInv
    <2> QED
      BY <2>2, <2>3
  <1> QED
    BY <1>13, <1>14, <1>15, <1>16, <1>17, <1>18 DEF CrawlInv

-----------------------------------------------------------------------------
(* The invariant is inductive. *)
LEMMA CrawlStepInv == CrawlInv /\ [CrawlNext]_crawlVars => CrawlInv'
  <1> SUFFICES ASSUME CrawlInv, [CrawlNext]_crawlVars PROVE CrawlInv'
    OBVIOUS
  <1>1. CASE TakeFrontier
    BY <1>1, TakeFrontierStep
  <1>2. CASE Finish
    BY <1>2, FinishStep
  <1>3. CASE EndFrontier
    BY <1>3, EndFrontierStep
  <1>4. ASSUME NEW i \in DOMAIN tasks, CrawlPage(i) PROVE CrawlInv'
    BY <1>4, BeginStep, CheckStep, SkipStep, ParseStep, AnnounceStep, StoreStep, CountStep
       DEF CrawlPage
  <1>5. CASE UNCHANGED crawlVars
    <2>1. UNCHANGED site
      BY <1>5 DEF crawlVars, site
    <2>2. Within' = Within /\ Opened' = Opened /\ Reach' = Reach /\ \A p : Links(p)' = Links(p)
      BY <2>1, SameSite
    <2>3. CrawlTypeOK' /\ PlaceInv' /\ FetchInv' /\ OverInv' /\ CountInv'
      BY <1>5, <2>2 DEF crawlVars, CrawlInv, CrawlTypeOK, PlaceInv, FetchInv, OverInv, CountInv, InStage
    <2>4. \A n : AtLevel(n)' <=> AtLevel(n)
      BY <1>5, <2>2 DEF crawlVars, AtLevel, InQueue, Awaited, InScope
    <2>5. FetchedAll' <=> FetchedAll
      BY <1>5, <2>2 DEF crawlVars, FetchedAll, InQueue, Awaited
    <2>6. LevelInv'
      BY <1>5, <2>4, <2>5 DEF crawlVars, CrawlInv, LevelInv
    <2> QED
      BY <2>3, <2>6 DEF CrawlInv
  <1> QED
    BY <1>1, <1>2, <1>3, <1>4, <1>5 DEF CrawlNext

(* Type correctness of a crawl: the queue and the frontier never exceed        *)
(* maxPages, a page is visited only once it is queued, and the counters of the *)
(* run's row stay below the pages found (crawlSite, handleScrape).             *)
THEOREM CrawlTypeCorrect == CrawlSpec => []CrawlTypeOK
  <1>1. CrawlInv => CrawlTypeOK
    BY DEF CrawlInv
  <1> QED
    BY <1>1, CrawlInitInv, CrawlStepInv, PTL DEF CrawlSpec

(* Whatever the site and whatever order links and calls come in, the crawl     *)
(* fetches no page twice, none it may not, and, when neither maxPages nor a    *)
(* failure cut it short, every page within maxDepth (crawlSite, crawlPage).    *)
THEOREM CrawlReaches == CrawlSpec => []ReachIsFetched
  <1>1. CrawlInv => ReachIsFetched
    <2> SUFFICES ASSUME CrawlInv PROVE ReachIsFetched
      OBVIOUS
    <2>0. CrawlTypeOK /\ MaxDepth \in Nat
      BY CrawlBounds DEF CrawlInv
    <2>1. Reach \subseteq Page
      BY <2>0, LayersFacts DEF Reach
    <2>2. (\A p \in Reach : fetches[p] <= 1) /\ \A p \in Page \ Reach : fetches[p] = 0
      BY <2>1 DEF CrawlInv, FetchInv
    <2>3. ASSUME over, ~limited, ~skipped PROVE \A p \in Reach : fetches[p] > 0
      <3>1. tasks = <<>> /\ queue = <<>>
        BY <2>3 DEF CrawlInv, OverInv
      <3>2. FetchedAll /\ Seed \in queued
        BY <2>3 DEF CrawlInv, LevelInv
      <3>3. PICK n \in 0 .. (MaxDepth + 1) : AtLevel(n)
        BY <2>3 DEF CrawlInv, LevelInv
      <3>4. Within[MaxDepth] \ Outside \subseteq queued
        <4>1. CASE n = MaxDepth + 1
          BY <2>0, <3>3, <4>1 DEF AtLevel
        <4>2. CASE n <= MaxDepth
          <5>1. \A p \in queued \cap Opened : InScope(Links(p)) \subseteq queued
            BY <3>1, <3>3, <4>2 DEF AtLevel, InQueue, Awaited
          <5> DEFINE T == {k \in Nat : Within[k] \ Outside \subseteq queued}
          <5>2. 0 \in T
            BY <2>0, <3>2, LayersFacts
          <5>3. ASSUME NEW k \in Nat, k \in T PROVE k + 1 \in T
            <6>1. Within[k + 1] = Within[k] \cup UNION {Links(p) : p \in Within[k] \cap Opened}
              BY <2>0, LayersFacts
            <6>2. \A p \in Within[k] \cap Opened : p \in queued
              BY <5>3 DEF Opened
            <6> QED
              BY <5>1, <5>3, <6>1, <6>2 DEF InScope
          <5>4. Nat \subseteq T
            <6> HIDE DEF T
            <6> QED
              BY <5>2, <5>3, NatSetInduction
          <5> QED
            BY <2>0, <5>4
        <4> QED
          BY <2>0, <4>1, <4>2
      <3>5. Reach \subseteq queued \cap Opened
        BY <3>4 DEF Reach, Opened
      <3> QED
        BY <3>1, <3>2, <3>5 DEF FetchedAll, InQueue, Awaited
    <2> QED
      BY <2>2, <2>3 DEF ReachIsFetched
  <1> QED
    BY <1>1, CrawlInitInv, CrawlStepInv, PTL DEF CrawlSpec

(* The counters of the run's row add up and the quota of documents holds for   *)
(* any number of concurrent calls (the onPage callback of handleScrape).       *)
THEOREM CrawlAddsUp == CrawlSpec => []PagesAddUp
  <1>1. CrawlInv => PagesAddUp
    <2> SUFFICES ASSUME CrawlInv, ~unwritten
                 PROVE  docs <= Cap /\ (over => found = succeeded + failed /\ results = found)
      BY DEF PagesAddUp
    <2>1. tasks \in Seq(Task)
      BY DEF CrawlInv, CrawlTypeOK
    <2>2. InStage(StoredOnes) \in Nat /\ InStage(StoredOnes) <= Len(tasks) /\ Len(tasks) \in Nat
      BY <2>1, StagesFinite DEF InStage
    <2>3. /\ results \in Nat /\ maxPages \in Nat /\ docs \in Nat /\ Cap \in Nat
          /\ found \in Nat /\ succeeded \in Nat /\ failed \in Nat
      BY CrawlBounds DEF CrawlInv, CrawlTypeOK
    <2>4. docs <= Cap
      BY <2>2, <2>3 DEF CrawlInv, CountInv
    <2>5. ASSUME over PROVE found = succeeded + failed /\ results = found
      <3>1. tasks = <<>>
        BY <2>5 DEF CrawlInv, OverInv
      <3>2. InStage(Unstored) = 0 /\ InStage(FoundOnes) = 0
        BY <3>1, FS_EmptySet DEF InStage
      <3> QED
        BY <2>3, <3>2 DEF CrawlInv, CountInv
    <2> QED
      BY <2>4, <2>5
  <1> QED
    BY <1>1, CrawlInitInv, CrawlStepInv, PTL DEF CrawlSpec
=============================================================================
