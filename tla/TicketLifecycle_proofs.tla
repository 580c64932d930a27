----------------------- MODULE TicketLifecycle_proofs -----------------------
(***************************************************************************)
(* Proofs about TicketLifecycle, for every set of requests, handlers and   *)
(* texts and every bound.                                                  *)
(***************************************************************************)
EXTENDS TicketLifecycle, TLAPS, FiniteSetTheorems

(* TypeOK, part by part *)
RowType     == row \in Ticket
ChunkType   == chunk \in SUBSET Text /\ Cardinality(chunk) <= 1
CreatorType == creator \in [Creator -> {"idle", "insert", "link", "add", "addFailed"}]
SyncType    == sync \in [Syncer -> Sync]
RestType    ==
  /\ recon \in {"down", "getJob", "update", "finished"}
  /\ unbumped \in BOOLEAN /\ excused \in BOOLEAN
  /\ abandoned \in BOOLEAN /\ disturbed \in BOOLEAN
  /\ patches \in 0 .. MaxPatches
  /\ overruns \in 0 .. MaxOverruns /\ crashes \in 0 .. MaxCrashes

-----------------------------------------------------------------------------
(* What the operations of a Bull job do to it, for any number of attempts and *)
(* stalls.                                                                    *)

(* A job that is not, or no longer, in the queue. *)
LEMMA NoJobType ==
  ASSUME NEW n \in Nat, NEW m \in Nat
  PROVE  /\ NoJob \in JobRecord(n, m) /\ NoJob.state = "none"
         /\ [NoJob EXCEPT !.state = "lost"] \in JobRecord(n, m)
         /\ [NoJob EXCEPT !.state = "lost"].state = "lost"
  BY DEF NoJob, JobRecord

(* Queue.add makes a missing job wait with all its attempts, and leaves one   *)
(* that is found alone.                                                      *)
LEMMA EnqueuedType ==
  ASSUME NEW n \in Nat, NEW m \in Nat, NEW j \in JobRecord(n, m)
  PROVE  /\ Enqueued(j) \in JobRecord(n, m)
         /\ Found(j) => Enqueued(j) = j
         /\ ~Found(j) => Enqueued(j).state = "waiting" /\ Enqueued(j).attemptsMade = 0
  BY DEF Enqueued, Found, NoJob, JobRecord

LEMMA TakenType ==
  ASSUME NEW n \in Nat, NEW m \in Nat, NEW j \in JobRecord(n, m)
  PROVE  /\ [j EXCEPT !.state = "active"] \in JobRecord(n, m)
         /\ [j EXCEPT !.state = "active"].state = "active"
         /\ [j EXCEPT !.state = "active"].attemptsMade = j.attemptsMade
  BY DEF JobRecord

(* A failed attempt is counted, and the job waits again only if it has one    *)
(* left.                                                                     *)
LEMMA FailedAttemptType ==
  ASSUME NEW n \in Nat, NEW m \in Nat, NEW j \in JobRecord(n, m), j.attemptsMade < n
  PROVE  /\ FailedAttempt(j, n) \in JobRecord(n, m)
         /\ FailedAttempt(j, n).state \in {"waiting", "failed"}
         /\ FailedAttempt(j, n).state = "waiting" => FailedAttempt(j, n).attemptsMade < n
  <1>1. j.attemptsMade \in 0 .. n
    BY DEF JobRecord
  <1>2. PICK k \in 0 .. n : k = j.attemptsMade + 1
    BY <1>1
  <1>3. CASE k < n
    <2>1. FailedAttempt(j, n) = [j EXCEPT !.state = "waiting", !.attemptsMade = k]
      BY <1>2, <1>3 DEF FailedAttempt
    <2> QED
      BY <1>3, <2>1 DEF JobRecord
  <1>4. CASE ~(k < n)
    <2>1. FailedAttempt(j, n) = [j EXCEPT !.state = "failed", !.attemptsMade = k]
      BY <1>2, <1>4 DEF FailedAttempt
    <2> QED
      BY <2>1 DEF JobRecord
  <1> QED
    BY <1>3, <1>4

(* A stall is counted on its own and costs no attempt.                       *)
LEMMA StalledJobType ==
  ASSUME NEW n \in Nat, NEW m \in Nat, NEW j \in JobRecord(n, m)
  PROVE  /\ StalledJob(j, m) \in JobRecord(n, m)
         /\ StalledJob(j, m).state \in {"waiting", "failed"}
         /\ StalledJob(j, m).attemptsMade = j.attemptsMade
  <1>1. j.stalls \in 0 .. m
    BY DEF JobRecord
  <1>2. CASE j.stalls < m
    <2>1. PICK k \in 0 .. m : k = j.stalls + 1
      BY <1>1, <1>2
    <2>2. StalledJob(j, m) = [j EXCEPT !.state = "waiting", !.stalls = k]
      BY <1>2, <2>1 DEF StalledJob
    <2> QED
      BY <2>2 DEF JobRecord
  <1>3. CASE ~(j.stalls < m)
    <2>1. StalledJob(j, m) = [j EXCEPT !.state = "failed"]
      BY <1>3 DEF StalledJob
    <2> QED
      BY <2>1 DEF JobRecord
  <1> QED
    BY <1>2, <1>3

-----------------------------------------------------------------------------
(* The job and its handlers *)

Job == JobRecord(Attempts, MaxStalls)

(* One handler at most holds the lock of the job, only while it is active,   *)
(* and a job that may still run has its attempt left.                         *)
LockInv ==
  /\ job \in Job
  /\ handler \in [Handler -> Execution]
  /\ \A h \in Handler : handler[h].owns => job.state = "active"
  /\ \A g, h \in Handler : handler[g].owns /\ handler[h].owns => g = h
  /\ job.state \in {"waiting", "active"} => job.attemptsMade < Attempts

LEMMA BoundsInNat == /\ MaxStalls \in Nat /\ Attempts \in Nat /\ MaxPatches \in Nat
                     /\ MaxOverruns \in Nat /\ MaxCrashes \in Nat
  BY TicketBounds DEF Attempts

(* An execution that does not own the job may be anywhere and changes nothing *)
(* about the lock.                                                           *)
LEMMA Disowned ==
  ASSUME LockInv, NEW h \in Handler, NEW e \in Execution, ~e.owns,
         handler' = [handler EXCEPT ![h] = e], NEW j \in Job, job' = j,
         handler[h].owns \/ j = job,
         j.state \in {"waiting", "active"} => j.attemptsMade < Attempts
  PROVE  LockInv'
  <1>1. \A g \in Handler : handler'[g] = IF g = h THEN e ELSE handler[g]
    BY DEF LockInv
  <1>2. ASSUME NEW g \in Handler, handler'[g].owns
        PROVE  g # h /\ handler[g].owns /\ job' = job
    BY <1>1, <1>2 DEF LockInv
  <1>3. handler' \in [Handler -> Execution]
    BY DEF LockInv
  <1> QED
    BY <1>1, <1>2, <1>3 DEF LockInv

(* A handler moves on and leaves the job alone.                              *)
LEMMA MovedOn ==
  ASSUME LockInv, NEW h \in Handler, NEW pc \in {"idle", "start", "select", "extract", "catch"},
         handler' = [handler EXCEPT ![h].pc = pc], job' = job
  PROVE  LockInv'
  <1>1. handler[h] \in Execution
    BY DEF LockInv
  <1>2. [handler[h] EXCEPT !.pc = pc] \in Execution
    BY <1>1 DEF Execution
  <1>3. handler' = [handler EXCEPT ![h] = [handler[h] EXCEPT !.pc = pc]]
    OBVIOUS
  <1>4. handler' \in [Handler -> Execution]
    BY <1>2, <1>3 DEF LockInv
  <1>5. \A g \in Handler : handler'[g].owns = handler[g].owns
    BY <1>1 DEF LockInv, Execution
  <1> QED
    BY <1>4, <1>5 DEF LockInv

LEMMA IdleExecution == Idle \in Execution /\ ~Idle.owns /\ Idle.pc = "idle"
  BY DEF Idle, Execution

LEMMA ReturnKeepsLock ==
  ASSUME LockInv, NEW h \in Handler, Return(h)
  PROVE  LockInv'
  <1>1. NoJob \in Job /\ NoJob.state = "none"
    BY NoJobType, BoundsInNat DEF Job
  <1>2. /\ handler' = [handler EXCEPT ![h] = Idle]
        /\ job' = IF handler[h].owns THEN NoJob ELSE job
    BY DEF Return
  <1>3. CASE handler[h].owns
    BY <1>1, <1>2, <1>3, IdleExecution, Disowned
  <1>4. CASE ~handler[h].owns
    BY <1>2, <1>4, IdleExecution, Disowned DEF LockInv
  <1> QED
    BY <1>3, <1>4

LEMMA FailedKeepsType ==
  ASSUME LockInv, job.state = "active"
  PROVE  /\ AttemptFailed \in Job
         /\ AttemptFailed.state \in {"waiting", "failed"}
         /\ AttemptFailed.state \in {"waiting", "active"} => AttemptFailed.attemptsMade < Attempts
         /\ StalledJob(job, MaxStalls) \in Job
         /\ StalledJob(job, MaxStalls).state \in {"waiting", "failed"}
         /\ StalledJob(job, MaxStalls).attemptsMade < Attempts
  <1>1. job \in JobRecord(Attempts, MaxStalls) /\ job.attemptsMade < Attempts
    BY DEF LockInv, Job
  <1>2. /\ AttemptFailed \in Job
        /\ AttemptFailed.state \in {"waiting", "failed"}
        /\ AttemptFailed.state = "waiting" => AttemptFailed.attemptsMade < Attempts
    BY <1>1, BoundsInNat, FailedAttemptType DEF AttemptFailed, Job
  <1>3. /\ StalledJob(job, MaxStalls) \in Job
        /\ StalledJob(job, MaxStalls).state \in {"waiting", "failed"}
        /\ StalledJob(job, MaxStalls).attemptsMade = job.attemptsMade
    BY <1>1, BoundsInNat, StalledJobType DEF Job
  <1> QED
    BY <1>1, <1>2, <1>3

LEMMA ThrowKeepsLock ==
  ASSUME LockInv, NEW h \in Handler, Throw(h)
  PROVE  LockInv'
  <1>1. /\ handler' = [handler EXCEPT ![h] = Idle]
        /\ job' = IF handler[h].owns THEN AttemptFailed ELSE job
    BY DEF Throw
  <1>2. CASE handler[h].owns
    <2>1. job.state = "active"
      BY <1>2 DEF LockInv
    <2> QED
      BY <1>1, <1>2, <2>1, FailedKeepsType, IdleExecution, Disowned
  <1>3. CASE ~handler[h].owns
    BY <1>1, <1>3, IdleExecution, Disowned DEF LockInv
  <1> QED
    BY <1>2, <1>3

LEMMA HandleKeepsLock ==
  ASSUME LockInv, NEW h \in Handler, Handle(h)
  PROVE  LockInv'
  <1>1. CASE Start(h)
    BY <1>1, MovedOn, ReturnKeepsLock DEF Start
  <1>2. CASE SelectTicket(h) \/ ExtractFails(h)
    BY <1>2, MovedOn DEF SelectTicket, ExtractFails
  <1>3. CASE Finish(h) \/ MarkFailed(h)
    BY <1>3, ReturnKeepsLock DEF Finish, MarkFailed
  <1>4. CASE RejectEarly(h) \/ MarkFailedFails(h)
    BY <1>4, ThrowKeepsLock DEF RejectEarly, MarkFailedFails
  <1> QED
    BY <1>1, <1>2, <1>3, <1>4 DEF Handle

LEMMA TakeKeepsLock ==
  ASSUME LockInv, NEW h \in Handler, TakeJob(h)
  PROVE  LockInv'
  <1> DEFINE e == [pc |-> "start", owns |-> TRUE]
  <1>1. e \in Execution /\ e.owns
    BY DEF Execution
  <1>2. /\ job.state = "waiting" /\ job' = [job EXCEPT !.state = "active"]
        /\ handler' = [handler EXCEPT ![h] = e]
    BY DEF TakeJob
  <1>3. job' \in Job /\ job'.state = "active" /\ job'.attemptsMade < Attempts
    BY <1>2, BoundsInNat, TakenType DEF LockInv, Job
  <1>4. \A g \in Handler : ~handler[g].owns
    BY <1>2 DEF LockInv
  <1>5. \A g \in Handler : handler'[g] = IF g = h THEN e ELSE handler[g]
    BY <1>2 DEF LockInv
  <1>6. handler' \in [Handler -> Execution]
    BY <1>1, <1>2 DEF LockInv
  <1> QED
    BY <1>3, <1>4, <1>5, <1>6 DEF LockInv

LEMMA LoseKeepsLock ==
  ASSUME LockInv, NEW h \in Handler, LoseJob(h)
  PROVE  LockInv'
  <1> DEFINE e == [handler[h] EXCEPT !.owns = FALSE]
  <1>1. handler[h] \in Execution /\ handler[h].owns /\ job.state = "active"
    BY DEF LoseJob, LockInv
  <1>2. e \in Execution /\ ~e.owns
    BY <1>1 DEF Execution
  <1>3. handler' = [handler EXCEPT ![h] = e]
    BY DEF LoseJob
  <1>4. /\ job' \in Job
        /\ job'.state \in {"waiting", "active"} => job'.attemptsMade < Attempts
    BY <1>1, FailedKeepsType DEF LoseJob
  <1>5. \A g \in Handler : handler'[g] = IF g = h THEN e ELSE handler[g]
    BY <1>3 DEF LockInv
  <1>6. \A g \in Handler : ~handler'[g].owns
    BY <1>1, <1>2, <1>5 DEF LockInv
  <1>7. handler' \in [Handler -> Execution]
    BY <1>2, <1>3 DEF LockInv
  <1> QED
    BY <1>4, <1>6, <1>7 DEF LockInv

LEMMA AddKeepsLock ==
  ASSUME LockInv, UNCHANGED handler, job' \in {job, Enqueued(job)}
  PROVE  LockInv'
  <1>1. /\ Enqueued(job) \in Job
        /\ Enqueued(job) # job => /\ ~Found(job) /\ Enqueued(job).attemptsMade = 0
    BY BoundsInNat, EnqueuedType DEF LockInv, Job
  <1>2. job.state = "active" => job' = job
    BY <1>1 DEF Found
  <1>3. job'.state \in {"waiting", "active"} => job'.attemptsMade < Attempts
    BY <1>1 DEF LockInv, Attempts
  <1> QED
    BY <1>1, <1>2, <1>3 DEF LockInv

LEMMA LockInit == Init => LockInv
  BY NoJobType, BoundsInNat, IdleExecution DEF Init, LockInv, Job

LEMMA LockNext == LockInv /\ [Next]_vars => LockInv'
  <1> SUFFICES ASSUME LockInv, [Next]_vars PROVE LockInv'
    OBVIOUS
  <1>1. ASSUME NEW c \in Creator, Create(c) PROVE LockInv'
    <2>1. UNCHANGED handler /\ job' \in {job, Enqueued(job)}
      BY <1>1 DEF Create, FindByHash, InsertTicket, LoseRace, LinkJob, AddJob,
                  AddJobFails, AddFailed, CreateFails
    <2> QED
      BY <2>1, AddKeepsLock
  <1>2. ASSUME NEW h \in Handler, TakeJob(h) \/ LoseJob(h) \/ Handle(h) PROVE LockInv'
    BY <1>2, TakeKeepsLock, LoseKeepsLock, HandleKeepsLock
  <1>3. ASSUME NEW r \in Reviewer, Review(r) PROVE LockInv'
    <2>1. UNCHANGED <<job, handler>>
      BY <1>3 DEF Review, GetOne, Update, UpdateFails
    <2> QED
      BY <2>1 DEF LockInv
  <1>4. ASSUME NEW a \in Syncer, SyncTicketChunk(a) PROVE LockInv'
    <2>1. UNCHANGED <<job, handler>>
      BY <1>4 DEF SyncTicketChunk, SelectChunk, DeleteChunk, InsertChunk, SyncFails,
                  BumpVersion
    <2> QED
      BY <2>1 DEF LockInv
  <1>5. CASE StartBackfill \/ Reconcile \/ UNCHANGED vars
    <2>1. UNCHANGED <<job, handler>>
      BY <1>5 DEF StartBackfill, Reconcile, Boot, ReconcileGetJob, ReconcileGetJobFails,
                  ReconcileFail, vars
    <2> QED
      BY <2>1 DEF LockInv
  <1>6. CASE StallDead
    <2>1. /\ job.state = "active" /\ \A h \in Handler : ~handler[h].owns
          /\ job' = StalledJob(job, MaxStalls) /\ handler' = handler
      BY <1>6 DEF StallDead
    <2> QED
      BY <2>1, FailedKeepsType DEF LockInv
  <1>7. CASE Crash
    <2>1. handler' = [h \in Handler |-> Idle]
      BY <1>7 DEF Crash
    <2>2. /\ job' \in Job
          /\ job'.state \in {"waiting", "active"} => job' = job
      BY <1>7, NoJobType, BoundsInNat DEF Crash, LockInv, Job
    <2> QED
      BY <2>1, <2>2, IdleExecution DEF LockInv
  <1> QED
    BY <1>1, <1>2, <1>3, <1>4, <1>5, <1>6, <1>7 DEF Next

-----------------------------------------------------------------------------
(* The row *)

LEMMA RowInit == Init => RowType
  BY DEF Init, RowType, Absent, Ticket

LEMMA RowNext == RowType /\ [Next]_vars => RowType'
  <1> SUFFICES ASSUME RowType, [Next]_vars PROVE RowType'
    OBVIOUS
  <1>0. row \in Ticket
    BY DEF RowType
  <1>1. ASSUME NEW c \in Creator, Create(c) PROVE RowType'
    BY <1>0, <1>1 DEF Create, FindByHash, InsertTicket, LoseRace, LinkJob, AddJob,
                AddJobFails, AddFailed, CreateFails, RowType, Absent, Ticket, Open
  <1>2. ASSUME NEW h \in Handler, TakeJob(h) \/ LoseJob(h) \/ Handle(h) PROVE RowType'
    <2>1. CASE Finish(h)
      <3>1. PICK t \in Text : row' = IF row.status \in Open
                                       THEN [row EXCEPT !.status = "done", !.text = t]
                                       ELSE row
        BY <2>1 DEF Finish
      <3> QED
        BY <1>0, <3>1 DEF RowType, Ticket
    <2>2. CASE Start(h) \/ MarkFailed(h)
      BY <1>0, <2>2 DEF Start, MarkFailed, RowType, Ticket, Open
    <2>3. CASE ~(Finish(h) \/ Start(h) \/ MarkFailed(h))
      BY <1>0, <1>2, <2>3 DEF TakeJob, LoseJob, Handle, SelectTicket, RejectEarly,
                  ExtractFails, MarkFailedFails, RowType
    <2> QED
      BY <2>1, <2>2, <2>3
  <1>3. ASSUME NEW r \in Reviewer, Review(r) PROVE RowType'
    <2>1. CASE Update(r)
      <3>1. PICK t \in Text \cup {row.text}, u \in {"useful", "not_useful", row.usefulness} :
              row' = Patched(t, u)
        BY <2>1 DEF Update
      <3> QED
        BY <1>0, <3>1 DEF RowType, Ticket, Patched
    <2>2. CASE GetOne(r) \/ UpdateFails(r)
      BY <1>0, <2>2 DEF GetOne, UpdateFails, RowType
    <2> QED
      BY <1>3, <2>1, <2>2 DEF Review
  <1>4. ASSUME NEW a \in Syncer, SyncTicketChunk(a) PROVE RowType'
    BY <1>0, <1>4 DEF SyncTicketChunk, SelectChunk, DeleteChunk, InsertChunk, SyncFails,
                BumpVersion, RowType
  <1>5. CASE StartBackfill \/ StallDead \/ Crash \/ Reconcile \/ UNCHANGED vars
    BY <1>0, <1>5 DEF StartBackfill, StallDead, Crash, Reconcile, Boot, ReconcileGetJob,
                ReconcileGetJobFails, ReconcileFail, RowType, Ticket, vars
  <1> QED
    BY <1>1, <1>2, <1>3, <1>4, <1>5 DEF Next

-----------------------------------------------------------------------------
(* One extraction at a time *)

HandlersIdle == \A h \in Handler : handler[h].pc = "idle"

Unadded(c)  == creator[c] \in {"link", "add"}
Queueing(c) == creator[c] \in {"link", "add", "addFailed"}

(* The one request that inserted the ticket is the only one to queue it, and  *)
(* nothing handles the ticket before it has; from then on nothing makes the   *)
(* row pending again, so that handleExtraction's guard lets one handler past. *)
SoloInv ==
  /\ row.status = "absent" =>
       job.state = "none" /\ HandlersIdle /\ \A c \in Creator : ~Queueing(c)
  /\ \A c \in Creator : Unadded(c) =>
       job.state = "none" /\ HandlersIdle /\ row.status \in {"pending", "failed"}
  /\ \A b, c \in Creator : Queueing(b) /\ Queueing(c) => b = c
  /\ \A h \in Handler : Working(h) => row.status \in {"processing", "failed"}
  /\ SingleExtraction
  /\ ProcessingHasWorker

LEMMA SoloInit == Init => SoloInv
  BY DEF Init, SoloInv, HandlersIdle, Unadded, Queueing, Working, SingleExtraction,
         ProcessingHasWorker, Absent, Idle, NoJob

(* Steps of no request and no handler: they keep the status or make it failed. *)
LEMMA SoloFrame ==
  ASSUME SoloInv, UNCHANGED <<job, handler, creator, abandoned>>,
         row'.status \in {row.status, "failed"}
  PROVE  SoloInv'
  BY DEF SoloInv, HandlersIdle, Unadded, Queueing, Working, SingleExtraction,
         ProcessingHasWorker

LEMMA SoloCreate ==
  ASSUME RowType, LockInv, CreatorType, SoloInv, NEW c \in Creator, Create(c)
  PROVE  SoloInv'
  <1> USE DEF HandlersIdle, Unadded, Queueing, Working
  <1>0. row \in Ticket /\ creator \in [Creator -> {"idle", "insert", "link", "add", "addFailed"}]
    BY DEF RowType, CreatorType
  <1>1. CASE FindByHash(c) \/ LoseRace(c) \/ CreateFails(c)
    <2>1. UNCHANGED <<row, job, handler, abandoned>>
      BY <1>1 DEF FindByHash, LoseRace, CreateFails
    <2>2. \A b \in Creator : /\ Queueing(b)' => Queueing(b)
                             /\ Unadded(b)' => Unadded(b)
      BY <1>0, <1>1 DEF FindByHash, LoseRace, CreateFails
    <2> QED
      BY <2>1, <2>2 DEF SoloInv, SingleExtraction, ProcessingHasWorker
  <1>2. CASE InsertTicket(c)
    <2>1. /\ row.status = "absent" /\ row'.status = "pending"
          /\ UNCHANGED <<job, handler, abandoned>>
          /\ \A b \in Creator : creator'[b] = IF b = c THEN "link" ELSE creator[b]
      BY <1>0, <1>2 DEF InsertTicket, Present, Absent
    <2> QED
      BY <2>1 DEF SoloInv, SingleExtraction, ProcessingHasWorker
  <1>3. CASE LinkJob(c)
    <2>1. /\ creator[c] = "link" /\ row'.status = "pending"
          /\ UNCHANGED <<job, handler, abandoned>>
          /\ \A b \in Creator : creator'[b] = IF b = c THEN "add" ELSE creator[b]
      BY <1>0, <1>3 DEF LinkJob, Ticket
    <2> QED
      BY <2>1 DEF SoloInv, SingleExtraction, ProcessingHasWorker
  <1>4. CASE AddJob(c) \/ AddJobFails(c)
    <2>1. /\ creator[c] = "add" /\ UNCHANGED <<row, handler, abandoned>>
          /\ \A b \in Creator : creator'[b] = IF b = c THEN creator'[c] ELSE creator[b]
          /\ creator'[c] \in {"idle", "addFailed"}
      BY <1>0, <1>4 DEF AddJob, AddJobFails
    <2>2. \A b \in Creator : ~Unadded(b)'
      BY <2>1 DEF SoloInv
    <2>3. row.status # "absent"
      BY <2>1 DEF SoloInv
    <2> QED
      BY <2>1, <2>2, <2>3 DEF SoloInv, SingleExtraction, ProcessingHasWorker
  <1>5. CASE AddFailed(c)
    <2>1. /\ creator[c] = "addFailed" /\ row'.status = "failed"
          /\ UNCHANGED <<job, handler, abandoned>>
          /\ \A b \in Creator : creator'[b] = IF b = c THEN "idle" ELSE creator[b]
      BY <1>0, <1>5 DEF AddFailed, Ticket
    <2> QED
      BY <2>1 DEF SoloInv, SingleExtraction, ProcessingHasWorker
  <1> QED
    BY <1>1, <1>2, <1>3, <1>4, <1>5 DEF Create

(* A step of an execution: no request is about to queue the ticket any more,  *)
(* and the row exists.                                                       *)
LEMMA HandledIsQueued ==
  ASSUME LockInv, SoloInv, NEW h \in Handler,
         handler[h].pc # "idle" \/ job.state # "none"
  PROVE  row.status # "absent" /\ \A c \in Creator : ~Unadded(c)
  BY DEF SoloInv, HandlersIdle

LEMMA SoloHandle ==
  ASSUME RowType, LockInv, SoloInv, NEW h \in Handler, Handle(h)
  PROVE  SoloInv'
  <1> USE DEF Unadded, Queueing, Working
  <1>0. row \in Ticket /\ handler[h] \in Execution
    BY DEF RowType, LockInv
  <1>1. handler[h].pc # "idle" /\ UNCHANGED creator
    BY DEF Handle, Start, SelectTicket, RejectEarly, Finish, ExtractFails, MarkFailed,
           MarkFailedFails
  <1>2. row.status # "absent" /\ \A c \in Creator : ~Unadded(c) /\ ~Unadded(c)'
    BY <1>1, HandledIsQueued
  <1>3. \A g \in Handler \ {h} : handler'[g] = handler[g]
    BY DEF Handle, Start, SelectTicket, RejectEarly, Finish, ExtractFails, MarkFailed,
           MarkFailedFails, Return, Throw, LockInv
  <1>4. Return(h) \/ Throw(h) => handler'[h].pc = "idle"
    BY IdleExecution DEF Return, Throw, LockInv
  <1>5. CASE Start(h) /\ row.status = "pending"
    <2>1. /\ row'.status = "processing" /\ handler'[h].pc = "select"
          /\ abandoned' = abandoned
      BY <1>0, <1>5 DEF Start, Ticket, LockInv, Execution
    <2>2. \A g \in Handler : ~Working(g)
      BY <1>5 DEF SoloInv
    <2> QED
      BY <1>1, <1>2, <1>3, <2>1, <2>2 DEF SoloInv, SingleExtraction, ProcessingHasWorker
  <1>6. CASE Start(h) /\ row.status # "pending"
    <2>1. UNCHANGED <<row, abandoned>> /\ ~Working(h) /\ handler'[h].pc = "idle"
      BY <1>4, <1>6 DEF Start
    <2> QED
      BY <1>1, <1>2, <1>3, <2>1 DEF SoloInv, SingleExtraction, ProcessingHasWorker
  <1>7. CASE SelectTicket(h) \/ ExtractFails(h)
    <2>1. UNCHANGED <<row, abandoned>> /\ Working(h) /\ Working(h)'
      BY <1>0, <1>7 DEF SelectTicket, ExtractFails, LockInv, Execution
    <2> QED
      BY <1>1, <1>2, <1>3, <2>1 DEF SoloInv, SingleExtraction, ProcessingHasWorker
  <1>8. CASE RejectEarly(h) \/ MarkFailedFails(h)
    <2>1. /\ row' = row /\ handler'[h].pc = "idle"
          /\ abandoned => abandoned'
          /\ Working(h) => abandoned'
      BY <1>4, <1>8 DEF RejectEarly, MarkFailedFails
    <2> QED
      BY <1>1, <1>2, <1>3, <2>1 DEF SoloInv, SingleExtraction, ProcessingHasWorker
  <1>9. CASE Finish(h) \/ MarkFailed(h)
    <2>1. /\ Working(h) /\ handler'[h].pc = "idle" /\ abandoned' = abandoned
          /\ row'.status \in {"done", "failed"}
      <3>1. CASE Finish(h)
        <4>1. Working(h) /\ handler'[h].pc = "idle" /\ abandoned' = abandoned
          BY <1>4, <3>1 DEF Finish
        <4>2. row.status \in {"processing", "failed"}
          BY <4>1 DEF SoloInv
        <4>3. PICK t \in Text : row' = IF row.status \in Open
                                         THEN [row EXCEPT !.status = "done", !.text = t]
                                         ELSE row
          BY <3>1 DEF Finish
        <4> QED
          BY <1>0, <4>1, <4>2, <4>3 DEF Open, Ticket
      <3>2. CASE MarkFailed(h)
        BY <1>0, <1>4, <3>2 DEF MarkFailed, Ticket
      <3> QED
        BY <1>9, <3>1, <3>2
    <2>2. \A g \in Handler : ~Working(g)'
      BY <1>3, <2>1 DEF SoloInv, SingleExtraction
    <2> QED
      BY <1>1, <1>2, <2>1, <2>2 DEF SoloInv, SingleExtraction, ProcessingHasWorker
  <1> QED
    BY <1>5, <1>6, <1>7, <1>8, <1>9 DEF Handle

LEMMA SoloNext ==
  RowType /\ LockInv /\ CreatorType /\ SoloInv /\ [Next]_vars => SoloInv'
  <1> SUFFICES ASSUME RowType, LockInv, CreatorType, SoloInv, [Next]_vars PROVE SoloInv'
    OBVIOUS
  <1>1. ASSUME NEW c \in Creator, Create(c) PROVE SoloInv'
    BY <1>1, SoloCreate
  <1>2. ASSUME NEW h \in Handler, Handle(h) PROVE SoloInv'
    BY <1>2, SoloHandle
  <1>3. ASSUME NEW h \in Handler, TakeJob(h) \/ LoseJob(h) PROVE SoloInv'
    <2>1. /\ job.state # "none" /\ UNCHANGED <<row, creator, abandoned>>
          /\ \A g \in Handler : Working(g)' <=> Working(g)
      BY <1>3 DEF TakeJob, LoseJob, LockInv, Execution, Working
    <2>2. row.status # "absent" /\ \A c \in Creator : ~Unadded(c) /\ ~Unadded(c)'
      BY <1>3, <2>1, HandledIsQueued DEF Unadded
    <2> QED
      BY <2>1, <2>2 DEF SoloInv, Unadded, Queueing, SingleExtraction, ProcessingHasWorker
  <1>4. ASSUME NEW r \in Reviewer, Review(r) PROVE SoloInv'
    <2>1. UNCHANGED <<job, handler, creator, abandoned>> /\ row'.status = row.status
      BY <1>4 DEF Review, GetOne, Update, UpdateFails, Patched, RowType, Ticket
    <2> QED
      BY <2>1, SoloFrame
  <1>5. ASSUME NEW a \in Syncer, SyncTicketChunk(a) PROVE SoloInv'
    <2>1. UNCHANGED <<job, handler, creator, abandoned, row>>
      BY <1>5 DEF SyncTicketChunk, SelectChunk, DeleteChunk, InsertChunk, SyncFails,
                  BumpVersion
    <2> QED
      BY <2>1, SoloFrame
  <1>6. CASE StartBackfill \/ Reconcile \/ UNCHANGED vars
    <2>1. /\ UNCHANGED <<job, handler, creator, abandoned>>
          /\ row'.status \in {row.status, "failed"}
      BY <1>6 DEF StartBackfill, Reconcile, Boot, ReconcileGetJob, ReconcileGetJobFails,
                  ReconcileFail, RowType, Ticket, vars
    <2> QED
      BY <2>1, SoloFrame
  <1>7. CASE StallDead
    <2>1. job.state = "active" /\ UNCHANGED <<row, handler, creator, abandoned>>
      BY <1>7 DEF StallDead
    <2> QED
      BY <2>1 DEF SoloInv, HandlersIdle, Unadded, Queueing, Working, SingleExtraction,
                  ProcessingHasWorker
  <1>8. CASE Crash
    <2>1. /\ row' = row /\ \A c \in Creator : creator'[c] = "idle"
          /\ \A h \in Handler : handler'[h].pc = "idle"
          /\ job.state = "none" => job' = job
          /\ row.status = "processing" => abandoned'
      BY <1>8, IdleExecution DEF Crash
    <2> QED
      BY <2>1 DEF SoloInv, HandlersIdle, Unadded, Queueing, Working, SingleExtraction,
                  ProcessingHasWorker
  <1> QED
    BY <1>1, <1>2, <1>3, <1>4, <1>5, <1>6, <1>7, <1>8 DEF Next

-----------------------------------------------------------------------------
(* The other types *)

LEMMA RestInit == Init => CreatorType /\ ChunkType /\ SyncType /\ RestType
  <1> SUFFICES ASSUME Init PROVE CreatorType /\ ChunkType /\ SyncType /\ RestType
    OBVIOUS
  <1>1. Cardinality({}) = 0
    BY FS_EmptySet
  <1>2. NoSync \in Sync
    BY DEF NoSync, Sync, Absent, Ticket
  <1>3. ChunkType
    <2>1. chunk = {} /\ chunk \in SUBSET Text
      BY DEF Init
    <2>2. Cardinality(chunk) = 0
      BY <1>1, <2>1, Zenon
    <2> QED
      BY <2>1, <2>2 DEF ChunkType
  <1>4. CreatorType /\ SyncType
    BY <1>2 DEF Init, CreatorType, SyncType
  <1>5. RestType
    <2>1. /\ (unbumped \in BOOLEAN) /\ (excused \in BOOLEAN)
          /\ (abandoned \in BOOLEAN) /\ (disturbed \in BOOLEAN)
      BY Zenon DEF Init
    <2>2. /\ patches \in 0 .. MaxPatches
          /\ overruns \in 0 .. MaxOverruns /\ crashes \in 0 .. MaxCrashes
      BY BoundsInNat DEF Init
    <2> QED
      BY <2>1, <2>2 DEF Init, RestType
  <1> QED
    BY <1>3, <1>4, <1>5

LEMMA CreatorNext == CreatorType /\ [Next]_vars => CreatorType'
  <1> SUFFICES ASSUME CreatorType, [Next]_vars PROVE CreatorType'
    OBVIOUS
  <1>1. ASSUME NEW c \in Creator, Create(c) PROVE CreatorType'
    BY <1>1 DEF Create, FindByHash, InsertTicket, LoseRace, LinkJob, AddJob, AddJobFails,
                AddFailed, CreateFails, CreatorType
  <1>2. CASE Crash
    BY <1>2 DEF Crash, CreatorType
  <1>3. CASE ~Crash /\ ~\E c \in Creator : Create(c)
    <2>1. UNCHANGED creator
      BY <1>3 DEF Next, TakeJob, LoseJob, Handle, Start, SelectTicket, RejectEarly, Finish,
                  ExtractFails, MarkFailed, MarkFailedFails, Review, GetOne, Update,
                  UpdateFails, SyncTicketChunk, SelectChunk, DeleteChunk, InsertChunk,
                  SyncFails, BumpVersion, StartBackfill, StallDead, Reconcile, Boot,
                  ReconcileGetJob, ReconcileGetJobFails, ReconcileFail, vars
    <2> QED
      BY <2>1 DEF CreatorType
  <1> QED
    BY <1>1, <1>2, <1>3

(* A ticket that is done has the text that extraction wrote or a review's, and *)
(* what is about to be embedded is such a ticket: no blank chunk is written.   *)
HasText(t) == t.status = "done" => t.text \in Text

TextInv ==
  /\ HasText(row)
  /\ \A a \in Syncer : /\ HasText(sync[a].ticket)
                       /\ sync[a].pc \in {"replace", "insert"} => Qualifies(sync[a].ticket)

LEMMA TextInit == Init => TextInv
  BY DEF Init, TextInv, HasText, Absent, NoSync

LEMMA TextNext == RowType /\ SyncType /\ TextInv /\ [Next]_vars => TextInv'
  <1> SUFFICES ASSUME RowType, SyncType, TextInv, [Next]_vars PROVE TextInv'
    OBVIOUS
  <1>0. /\ row \in Ticket /\ HasText(row)
        /\ NoSync.pc = "idle" /\ HasText(NoSync.ticket)
    BY DEF RowType, TextInv, NoSync, Absent, HasText
  <1>1. ASSUME NEW a \in Syncer, NEW x, sync' = [sync EXCEPT ![a] = x],
               HasText(row'), HasText(x.ticket),
               x.pc \in {"replace", "insert"} => Qualifies(x.ticket)
        PROVE  TextInv'
    BY <1>1 DEF TextInv, SyncType, HasText, Qualifies
  <1>2. ASSUME sync' = sync, HasText(row') PROVE TextInv'
    BY <1>2 DEF TextInv, HasText, Qualifies
  <1>3. ASSUME NEW c \in Creator, Create(c) PROVE TextInv'
    <2>1. HasText(row')
      BY <1>0, <1>3 DEF Create, FindByHash, InsertTicket, LoseRace, LinkJob, AddJob,
                  AddJobFails, AddFailed, CreateFails, HasText, Absent, Ticket
    <2>2. sync' = sync
      BY <1>3 DEF Create, FindByHash, InsertTicket, LoseRace, LinkJob, AddJob,
                  AddJobFails, AddFailed, CreateFails
    <2> QED
      BY <1>2, <2>1, <2>2
  <1>4. ASSUME NEW h \in Handler, TakeJob(h) \/ LoseJob(h) \/ Handle(h) PROVE TextInv'
    <2>1. CASE Finish(h)
      <3>1. PICK t \in Text : row' = IF row.status \in Open
                                       THEN [row EXCEPT !.status = "done", !.text = t]
                                       ELSE row
        BY <2>1 DEF Finish
      <3>2. HasText(row')
        BY <1>0, <3>1 DEF HasText, Ticket
      <3> QED
        BY <1>2, <2>1, <3>2 DEF Finish
    <2>2. CASE Start(h) \/ MarkFailed(h)
      <3>1. HasText(row')
        BY <1>0, <2>2 DEF Start, MarkFailed, HasText, Ticket
      <3> QED
        BY <1>2, <2>2, <3>1 DEF Start, MarkFailed
    <2>3. CASE ~(Finish(h) \/ Start(h) \/ MarkFailed(h))
      BY <1>0, <1>2, <1>4, <2>3 DEF TakeJob, LoseJob, Handle, SelectTicket, RejectEarly,
                  ExtractFails, MarkFailedFails
    <2> QED
      BY <2>1, <2>2, <2>3
  <1>5. ASSUME NEW r \in Reviewer, Review(r) PROVE TextInv'
    <2>0. r \in Syncer
      BY DEF Syncer
    <2>1. CASE Update(r)
      <3>1. PICK t \in Text \cup {row.text}, u \in {"useful", "not_useful", row.usefulness} :
              /\ row' = Patched(t, u)
              /\ sync' = [sync EXCEPT ![r] =
                   IF ShouldSync(sync[r].was, Patched(t, u))
                     THEN [NoSync EXCEPT !.pc = "select", !.ticket = Patched(t, u)]
                     ELSE NoSync]
        BY <2>1 DEF Update
      <3>2. HasText(row')
        BY <1>0, <3>1 DEF HasText, Patched, Ticket
      <3> DEFINE x == [NoSync EXCEPT !.pc = "select", !.ticket = Patched(t, u)]
      <3>3. x.pc = "select" /\ x.ticket = row'
        BY <3>1 DEF NoSync
      <3>4. CASE sync' = [sync EXCEPT ![r] = x]
        BY <1>1, <2>0, <3>2, <3>3, <3>4
      <3>5. CASE sync' = [sync EXCEPT ![r] = NoSync]
        BY <1>0, <1>1, <2>0, <3>2, <3>5
      <3> QED
        BY <3>1, <3>4, <3>5
    <2>2. CASE GetOne(r)
      <3> DEFINE x == [NoSync EXCEPT !.pc = "update", !.was = row]
      <3>1. x.pc = "update" /\ HasText(x.ticket) /\ sync' = [sync EXCEPT ![r] = x]
        BY <1>0, <2>2 DEF GetOne, NoSync
      <3> QED
        BY <1>0, <1>1, <2>0, <2>2, <3>1 DEF GetOne
    <2>3. CASE UpdateFails(r)
      BY <1>0, <1>1, <2>0, <2>3 DEF UpdateFails
    <2> QED
      BY <1>5, <2>1, <2>2, <2>3 DEF Review
  <1>6. ASSUME NEW a \in Syncer, SyncTicketChunk(a) PROVE TextInv'
    <2>0. /\ sync[a] \in Sync /\ HasText(sync[a].ticket) /\ row' = row
          /\ sync[a].pc \in {"replace", "insert"} => Qualifies(sync[a].ticket)
      BY <1>6 DEF SyncType, TextInv, SyncTicketChunk, SelectChunk, DeleteChunk,
                  InsertChunk, SyncFails, BumpVersion
    <2>1. ASSUME NEW pc \in {"remove", "replace", "insert", "bump"},
                 sync' = [sync EXCEPT ![a] = [sync[a] EXCEPT !.pc = pc]],
                 pc \in {"replace", "insert"} => Qualifies(sync[a].ticket)
          PROVE  TextInv'
      <3> DEFINE x == [sync[a] EXCEPT !.pc = pc]
      <3>1. x.pc = pc /\ x.ticket = sync[a].ticket
        BY <2>0 DEF Sync
      <3> QED
        BY <1>0, <1>1, <2>0, <2>1, <3>1
    <2>2. ASSUME sync' = [sync EXCEPT ![a] = NoSync] PROVE TextInv'
      BY <1>0, <1>1, <2>0, <2>2
    <2>3. CASE SelectChunk(a)
      BY <2>1, <2>2, <2>3 DEF SelectChunk
    <2>4. CASE DeleteChunk(a)
      <3>1. sync' = [sync EXCEPT ![a] = [sync[a] EXCEPT
                      !.pc = IF sync[a].pc = "remove" THEN "bump" ELSE "insert"]]
        BY <2>4 DEF DeleteChunk
      <3> QED
        BY <2>0, <2>1, <2>4, <3>1 DEF DeleteChunk
    <2>5. CASE InsertChunk(a)
      BY <2>1, <2>5 DEF InsertChunk
    <2>6. CASE SyncFails(a) \/ BumpVersion(a)
      BY <2>2, <2>6 DEF SyncFails, BumpVersion
    <2> QED
      BY <1>6, <2>3, <2>4, <2>5, <2>6 DEF SyncTicketChunk
  <1>7. CASE StartBackfill
    <2> DEFINE x == [NoSync EXCEPT !.pc = "select", !.ticket = row]
    <2>1. x.pc = "select" /\ x.ticket = row
      BY DEF NoSync
    <2> QED
      BY <1>0, <1>1, <1>7, <2>1 DEF StartBackfill, Syncer
  <1>8. CASE Crash
    BY <1>0, <1>8 DEF Crash, TextInv, HasText, Qualifies
  <1>9. CASE StallDead \/ Reconcile \/ UNCHANGED vars
    <2>1. HasText(row')
      BY <1>0, <1>9 DEF StallDead, Reconcile, Boot, ReconcileGetJob,
                  ReconcileGetJobFails, ReconcileFail, HasText, Ticket, vars
    <2> QED
      BY <1>2, <1>9, <2>1 DEF StallDead, Reconcile, Boot, ReconcileGetJob,
                  ReconcileGetJobFails, ReconcileFail, vars
  <1> QED
    BY <1>3, <1>4, <1>5, <1>6, <1>7, <1>8, <1>9 DEF Next

(* What syncTicketChunk and its callers may do to the chunk and to a call.    *)
LEMMA SyncNext ==
  RowType /\ ChunkType /\ SyncType /\ TextInv /\ [Next]_vars => ChunkType' /\ SyncType'
  <1> SUFFICES ASSUME RowType, ChunkType, SyncType, TextInv, [Next]_vars
               PROVE  ChunkType' /\ SyncType'
    OBVIOUS
  <1>0. NoSync \in Sync /\ row \in Ticket
    BY DEF NoSync, Sync, Absent, Ticket, RowType
  <1>1. ASSUME NEW a \in Syncer, NEW x \in Sync, sync' = [sync EXCEPT ![a] = x]
        PROVE  SyncType'
    BY <1>1 DEF SyncType
  <1>2. ASSUME NEW r \in Reviewer, Review(r) PROVE ChunkType' /\ SyncType'
    <2>0. r \in Syncer /\ sync[r] \in Sync /\ UNCHANGED chunk
      BY <1>2 DEF Syncer, SyncType, Review, GetOne, Update, UpdateFails
    <2>1. CASE GetOne(r)
      <3>1. [NoSync EXCEPT !.pc = "update", !.was = row] \in Sync
        BY <1>0 DEF Sync
      <3> QED
        BY <1>1, <2>0, <2>1, <3>1 DEF GetOne, ChunkType
    <2>2. CASE Update(r)
      <3>1. PICK t \in Text \cup {row.text}, u \in {"useful", "not_useful", row.usefulness} :
              sync' = [sync EXCEPT ![r] =
                IF ShouldSync(sync[r].was, Patched(t, u))
                  THEN [NoSync EXCEPT !.pc = "select", !.ticket = Patched(t, u)]
                  ELSE NoSync]
        BY <2>2 DEF Update
      <3>2. Patched(t, u) \in Ticket
        BY <1>0 DEF Patched, Ticket
      <3>3. [NoSync EXCEPT !.pc = "select", !.ticket = Patched(t, u)] \in Sync
        BY <1>0, <3>2 DEF Sync
      <3> QED
        BY <1>0, <1>1, <2>0, <3>1, <3>3 DEF ChunkType
    <2>3. CASE UpdateFails(r)
      BY <1>0, <1>1, <2>0, <2>3 DEF UpdateFails, ChunkType
    <2> QED
      BY <1>2, <2>1, <2>2, <2>3 DEF Review
  <1>3. ASSUME NEW a \in Syncer, SyncTicketChunk(a) PROVE ChunkType' /\ SyncType'
    <2>0. sync[a] \in Sync /\ sync[a].ticket \in Ticket
      BY DEF SyncType, Sync
    <2>1. ASSUME NEW pc \in {"remove", "replace", "insert", "bump"}
          PROVE  [sync[a] EXCEPT !.pc = pc] \in Sync
      BY <2>0 DEF Sync
    <2>2. SyncType'
      <3>1. CASE SelectChunk(a)
        BY <1>0, <1>1, <2>1, <3>1 DEF SelectChunk
      <3>2. CASE DeleteChunk(a)
        <4>1. sync' = [sync EXCEPT ![a] = [sync[a] EXCEPT
                        !.pc = IF sync[a].pc = "remove" THEN "bump" ELSE "insert"]]
          BY <3>2 DEF DeleteChunk
        <4> QED
          BY <1>1, <2>1, <4>1
      <3>3. CASE InsertChunk(a)
        <4>1. sync' = [sync EXCEPT ![a] = [sync[a] EXCEPT !.pc = "bump"]]
          BY <3>3 DEF InsertChunk
        <4> QED
          BY <1>1, <2>1, <4>1
      <3>4. CASE SyncFails(a) \/ BumpVersion(a)
        BY <1>0, <1>1, <3>4 DEF SyncFails, BumpVersion
      <3> QED
        BY <1>3, <3>1, <3>2, <3>3, <3>4 DEF SyncTicketChunk
    <2>3. ChunkType'
      <3>1. CASE DeleteChunk(a)
        BY <3>1, FS_EmptySet DEF DeleteChunk, ChunkType
      <3>2. CASE InsertChunk(a)
        <4>1. sync[a].ticket.text \in Text
          BY <3>2 DEF InsertChunk, TextInv, HasText, Qualifies
        <4> DEFINE x == sync[a].ticket.text
        <4>2. chunk' = {x}
          BY <3>2 DEF InsertChunk
        <4>3. Cardinality({x}) = 1
          BY FS_Singleton
        <4>4. Cardinality(chunk') = 1
          BY <4>2, <4>3, Zenon
        <4> QED
          BY <4>1, <4>2, <4>4 DEF ChunkType
      <3>3. CASE SelectChunk(a) \/ SyncFails(a) \/ BumpVersion(a)
        BY <3>3 DEF SelectChunk, SyncFails, BumpVersion, ChunkType
      <3> QED
        BY <1>3, <3>1, <3>2, <3>3 DEF SyncTicketChunk
    <2> QED
      BY <2>2, <2>3
  <1>4. CASE StartBackfill
    <2>1. [NoSync EXCEPT !.pc = "select", !.ticket = row] \in Sync
      BY <1>0 DEF Sync
    <2> QED
      BY <1>1, <1>4, <2>1 DEF StartBackfill, Syncer, ChunkType
  <1>5. CASE Crash
    BY <1>0, <1>5 DEF Crash, SyncType, ChunkType
  <1>6. CASE \/ StallDead \/ Reconcile \/ UNCHANGED vars
             \/ \E c \in Creator : Create(c)
             \/ \E h \in Handler : TakeJob(h) \/ LoseJob(h) \/ Handle(h)
    <2>1. UNCHANGED <<chunk, sync>>
      BY <1>6 DEF Create, FindByHash, InsertTicket, LoseRace, LinkJob, AddJob,
                  AddJobFails, AddFailed, CreateFails, TakeJob, LoseJob, Handle, Start,
                  SelectTicket, RejectEarly, Finish, ExtractFails, MarkFailed,
                  MarkFailedFails, StallDead, Reconcile, Boot, ReconcileGetJob,
                  ReconcileGetJobFails, ReconcileFail, vars
    <2> QED
      BY <2>1 DEF ChunkType, SyncType
  <1> QED
    BY <1>2, <1>3, <1>4, <1>5, <1>6 DEF Next

LEMMA RestNext == RestType /\ [Next]_vars => RestType'
  <1> SUFFICES ASSUME RestType, [Next]_vars PROVE RestType'
    OBVIOUS
  <1>0. /\ (unbumped' \in BOOLEAN) /\ (excused' \in BOOLEAN)
        /\ (abandoned' \in BOOLEAN) /\ (disturbed' \in BOOLEAN)
    <2> USE DEF RestType, cacheVars
    <2>1. ASSUME NEW c \in Creator, Create(c)
          PROVE  /\ (unbumped' \in BOOLEAN) /\ (excused' \in BOOLEAN)
                 /\ (abandoned' \in BOOLEAN) /\ (disturbed' \in BOOLEAN)
      BY <2>1 DEF Create, FindByHash, InsertTicket, LoseRace, LinkJob, AddJob,
                  AddJobFails, AddFailed, CreateFails
    <2>2. ASSUME NEW h \in Handler, TakeJob(h) \/ LoseJob(h) \/ Handle(h)
          PROVE  /\ (unbumped' \in BOOLEAN) /\ (excused' \in BOOLEAN)
                 /\ (abandoned' \in BOOLEAN) /\ (disturbed' \in BOOLEAN)
      BY <2>2 DEF TakeJob, LoseJob, Handle, Start, SelectTicket, RejectEarly, Finish,
                  ExtractFails, MarkFailed, MarkFailedFails
    <2>3. ASSUME NEW r \in Reviewer, Review(r)
          PROVE  /\ (unbumped' \in BOOLEAN) /\ (excused' \in BOOLEAN)
                 /\ (abandoned' \in BOOLEAN) /\ (disturbed' \in BOOLEAN)
      BY <2>3 DEF Review, GetOne, Update, UpdateFails
    <2>4. ASSUME NEW a \in Syncer, SyncTicketChunk(a)
          PROVE  /\ (unbumped' \in BOOLEAN) /\ (excused' \in BOOLEAN)
                 /\ (abandoned' \in BOOLEAN) /\ (disturbed' \in BOOLEAN)
      BY <2>4 DEF SyncTicketChunk, SelectChunk, DeleteChunk, InsertChunk, SyncFails,
                  BumpVersion
    <2>5. CASE StartBackfill \/ StallDead \/ Crash \/ Reconcile \/ UNCHANGED vars
      BY <2>5 DEF StartBackfill, StallDead, Crash, Reconcile, Boot, ReconcileGetJob,
                  ReconcileGetJobFails, ReconcileFail, vars
    <2> QED
      BY <2>1, <2>2, <2>3, <2>4, <2>5 DEF Next
  <1>1. recon' \in {"down", "getJob", "update", "finished"}
    BY DEF RestType, Next, Create, FindByHash, InsertTicket, LoseRace, LinkJob, AddJob,
           AddJobFails, AddFailed, CreateFails, TakeJob, LoseJob, Handle, Start,
           SelectTicket, RejectEarly, Finish, ExtractFails, MarkFailed, MarkFailedFails,
           Review, GetOne, Update, UpdateFails, SyncTicketChunk, SelectChunk,
           DeleteChunk, InsertChunk, SyncFails, BumpVersion, StartBackfill, StallDead,
           Crash, Reconcile, Boot, ReconcileGetJob, ReconcileGetJobFails,
           ReconcileFail, vars
  <1>2. patches' \in 0 .. MaxPatches
    <2>1. patches' = patches \/ (patches < MaxPatches /\ patches' = patches + 1)
      BY DEF Next, Create, FindByHash, InsertTicket, LoseRace, LinkJob, AddJob,
             AddJobFails, AddFailed, CreateFails, TakeJob, LoseJob, Handle, Start,
             SelectTicket, RejectEarly, Finish, ExtractFails, MarkFailed,
             MarkFailedFails, Review, GetOne, Update, UpdateFails, SyncTicketChunk,
             SelectChunk, DeleteChunk, InsertChunk, SyncFails, BumpVersion,
             StartBackfill, StallDead, Crash, Reconcile, Boot, ReconcileGetJob,
             ReconcileGetJobFails, ReconcileFail, bounds, vars
    <2> QED
      BY <2>1, BoundsInNat DEF RestType
  <1>3. overruns' \in 0 .. MaxOverruns /\ crashes' \in 0 .. MaxCrashes
    <2>1. /\ overruns' = overruns \/ (overruns < MaxOverruns /\ overruns' = overruns + 1)
          /\ crashes' = crashes \/ (crashes < MaxCrashes /\ crashes' = crashes + 1)
      BY DEF Next, Create, FindByHash, InsertTicket, LoseRace, LinkJob, AddJob,
             AddJobFails, AddFailed, CreateFails, TakeJob, LoseJob, Handle, Start,
             SelectTicket, RejectEarly, Finish, ExtractFails, MarkFailed,
             MarkFailedFails, Review, GetOne, Update, UpdateFails, SyncTicketChunk,
             SelectChunk, DeleteChunk, InsertChunk, SyncFails, BumpVersion,
             StartBackfill, StallDead, Crash, Reconcile, Boot, ReconcileGetJob,
             ReconcileGetJobFails, ReconcileFail, bounds, vars
    <2> QED
      BY <2>1, BoundsInNat DEF RestType
  <1> QED
    BY <1>0, <1>1, <1>2, <1>3 DEF RestType

-----------------------------------------------------------------------------
(* The chunk follows the reviews *)

(* Requests run only while the process serves, so that no reconciliation is    *)
(* under way before the ticket is queued, and only a ticket that exists has    *)
(* calls at work on it.                                                        *)
QueueInv ==
  /\ \A c \in Creator : creator[c] # "idle" => Serving
  /\ \A c \in Creator : Unadded(c) => row.status = "pending"
  /\ ~Present => \A a \in Syncer : sync[a].pc = "idle"

Embedded(t) == IF Qualifies(t) THEN {t.text} ELSE {}

Unembedded(a) == sync[a].pc \in {"select", "remove", "replace", "insert"}

(* Of two tickets, one is to be embedded as the other is.                      *)
SameChunk(t, u) == (Qualifies(t) <=> Qualifies(u)) /\ (Qualifies(u) => t.text = u.text)

(* What a call knows of the row is still so.                                   *)
Knows(a) ==
  /\ sync[a].pc = "update" =>
       sync[a].was.usefulness = row.usefulness /\ sync[a].was.reviewed = row.reviewed
  /\ Unembedded(a) => SameChunk(sync[a].ticket, row)
  /\ sync[a].pc = "remove" => ~Qualifies(row)
  /\ sync[a].pc = "insert" => chunk = {}

(* While nothing disturbs them, one call works on the ticket at a time, it     *)
(* knows the row, and between calls the chunk is that of the row; a ticket     *)
(* that extraction may yet finish has had no review.                           *)
OneCall  == \A a, b \in Syncer : sync[a].pc # "idle" /\ sync[b].pc # "idle" => a = b
InStep   == (\A a \in Syncer : ~Unembedded(a)) => chunk = Embedded(row)
Unopened == row.status \in Open => ~row.reviewed

FollowInv ==
  ~disturbed => OneCall /\ InStep /\ Unopened /\ \A a \in Syncer : Knows(a)

LEMMA FollowInit == Init => QueueInv /\ FollowInv
  <1> SUFFICES ASSUME Init PROVE QueueInv /\ FollowInv
    OBVIOUS
  <1>1. /\ row.status = "absent" /\ ~row.reviewed /\ chunk = {} /\ Serving
        /\ \A c \in Creator : creator[c] = "idle"
        /\ \A a \in Syncer : sync[a].pc = "idle"
    BY DEF Init, Absent, NoSync, Serving
  <1> QED
    BY <1>1 DEF QueueInv, FollowInv, OneCall, InStep, Unopened, Knows, Unembedded,
                Embedded, Qualifies, Unadded

LEMMA QueueNext ==
  RowType /\ CreatorType /\ SyncType /\ SoloInv /\ QueueInv /\ [Next]_vars => QueueInv'
  <1> SUFFICES ASSUME RowType, CreatorType, SyncType, SoloInv, QueueInv, [Next]_vars
               PROVE  QueueInv'
    OBVIOUS
  <1>0. row \in Ticket
    BY DEF RowType
  <1>1. ASSUME UNCHANGED <<creator, recon>>, \A c \in Creator : Unadded(c) => row' = row,
               row'.status = "absent" =>
                 Present' = Present /\ \A a \in Syncer : sync'[a].pc = sync[a].pc
        PROVE  QueueInv'
    BY <1>1 DEF QueueInv, Serving, Unadded, Present
  <1>2. ASSUME NEW c \in Creator, Create(c) PROVE QueueInv'
    <2>1. /\ \A b \in Creator \ {c} : creator'[b] = creator[b]
          /\ creator'[c] # "idle" => Serving
          /\ recon' = recon /\ sync' = sync
      BY <1>2 DEF Create, FindByHash, InsertTicket, LoseRace, LinkJob, AddJob,
                  AddJobFails, AddFailed, CreateFails, CreatorType, QueueInv
    <2>2. \A b \in Creator : creator'[b] # "idle" => Serving'
      BY <2>1 DEF QueueInv, Serving
    <2>3. /\ Unadded(c)' => row'.status = "pending"
          /\ \A b \in Creator \ {c} : Unadded(b) => row' = row
      <3>1. \A b \in Creator \ {c} : Unadded(b) => Present /\ ~Queueing(c)
        BY DEF SoloInv, Unadded, Queueing, Present
      <3>2. \A b \in Creator \ {c} : Unadded(b) => row' = row
        BY <1>2, <3>1 DEF Create, FindByHash, InsertTicket, LoseRace, LinkJob, AddJob,
                  AddJobFails, AddFailed, CreateFails, Queueing
      <3>3. Unadded(c)' => row'.status = "pending"
        BY <1>0, <1>2 DEF Create, FindByHash, InsertTicket, LoseRace, LinkJob, AddJob,
                  AddJobFails, AddFailed, CreateFails, CreatorType, Unadded, Absent, Ticket
      <3> QED
        BY <3>2, <3>3
    <2>4. \A b \in Creator : Unadded(b)' => row'.status = "pending"
      BY <2>1, <2>3 DEF QueueInv, Unadded
    <2>5. row'.status = "absent" => row.status = "absent"
      BY <1>0, <1>2 DEF Create, FindByHash, InsertTicket, LoseRace, LinkJob, AddJob,
                  AddJobFails, AddFailed, CreateFails, Absent, Ticket
    <2> QED
      BY <2>1, <2>2, <2>4, <2>5 DEF QueueInv, Present
  <1>3. ASSUME NEW h \in Handler, TakeJob(h) \/ LoseJob(h) \/ Handle(h) PROVE QueueInv'
    <2>1. UNCHANGED <<creator, recon, sync>>
      BY <1>3 DEF TakeJob, LoseJob, Handle, Start, SelectTicket, RejectEarly, Finish,
                  ExtractFails, MarkFailed, MarkFailedFails
    <2>2. ASSUME NEW c \in Creator, Unadded(c) PROVE row' = row
      <3>1. handler[h].pc = "idle"
        BY <2>2 DEF SoloInv, HandlersIdle
      <3> QED
        BY <1>3, <3>1 DEF TakeJob, LoseJob, Handle, Start, SelectTicket, RejectEarly,
                  Finish, ExtractFails, MarkFailed, MarkFailedFails
    <2>3. row'.status = "absent" => row.status = "absent"
      BY <1>0, <1>3 DEF TakeJob, LoseJob, Handle, Start, SelectTicket, RejectEarly,
                  Finish, ExtractFails, MarkFailed, MarkFailedFails, Ticket
    <2> QED
      BY <1>1, <2>1, <2>2, <2>3 DEF Present
  <1>4. ASSUME NEW r \in Reviewer, Review(r) PROVE QueueInv'
    <2>0. r \in Syncer
      BY DEF Syncer
    <2>1. CASE Update(r)
      <3>1. /\ row'.status = row.status /\ Present
            /\ UNCHANGED <<creator, recon>>
        BY <1>0, <2>0, <2>1 DEF Update, Patched, Ticket, QueueInv
      <3> QED
        BY <3>1 DEF QueueInv, Serving, Unadded, Present
    <2>2. CASE GetOne(r) \/ UpdateFails(r)
      BY <1>1, <2>0, <2>2 DEF GetOne, UpdateFails, Present, QueueInv
    <2> QED
      BY <1>4, <2>1, <2>2 DEF Review
  <1>5. ASSUME NEW a \in Syncer, SyncTicketChunk(a) PROVE QueueInv'
    <2>1. UNCHANGED <<creator, recon, row>> /\ sync[a].pc # "idle"
      BY <1>5 DEF SyncTicketChunk, SelectChunk, DeleteChunk, InsertChunk, SyncFails,
                  BumpVersion
    <2> QED
      BY <1>1, <2>1 DEF QueueInv, Present
  <1>6. CASE Crash
    BY <1>6 DEF Crash, QueueInv, Serving, Unadded, Present, NoSync
  <1>7. CASE StartBackfill \/ StallDead \/ UNCHANGED vars
    BY <1>1, <1>7 DEF StartBackfill, StallDead, vars, Present
  <1>8. CASE Reconcile
    <2>1. /\ UNCHANGED <<creator, sync>> /\ ~Serving
          /\ row'.status = "absent" => row.status = "absent"
      BY <1>0, <1>8 DEF Reconcile, Boot, ReconcileGetJob, ReconcileGetJobFails,
                  ReconcileFail, Serving, Ticket
    <2> QED
      BY <2>1 DEF QueueInv, Unadded, Present
  <1> QED
    BY <1>2, <1>3, <1>4, <1>5, <1>6, <1>7, <1>8 DEF Next

(* A step that leaves the calls and the chunk alone and does not change what   *)
(* is to be embedded.                                                          *)
LEMMA FollowFrame ==
  ASSUME FollowInv, UNCHANGED <<sync, chunk>>, disturbed => disturbed',
         ~disturbed' =>
           /\ SameChunk(row', row)
           /\ row'.status \in Open => ~row'.reviewed
           /\ \A a \in Syncer : sync[a].pc = "update" =>
                row'.usefulness = row.usefulness /\ row'.reviewed = row.reviewed
  PROVE  FollowInv'
  <1> SUFFICES ASSUME ~disturbed' PROVE (OneCall /\ InStep /\ Unopened)' /\ \A a \in Syncer : Knows(a)'
    BY DEF FollowInv
  <1>1. OneCall /\ InStep /\ Unopened /\ (\A a \in Syncer : Knows(a)) /\ SameChunk(row', row)
    BY DEF FollowInv
  <1>2. OneCall' /\ Unopened'
    BY <1>1 DEF OneCall, Unopened
  <1>3. InStep'
    BY <1>1 DEF InStep, Unembedded, Embedded, SameChunk
  <1>4. ASSUME NEW a \in Syncer PROVE Knows(a)'
    BY <1>1 DEF Knows, Unembedded, SameChunk
  <1> QED
    BY <1>2, <1>3, <1>4

(* A step of the one call that is at work, or that starts.                     *)
LEMMA FollowCall ==
  ASSUME FollowInv, SyncType, NEW a \in Syncer, NEW x \in Sync,
         sync' = [sync EXCEPT ![a] = x], disturbed => disturbed',
         ~disturbed' =>
           /\ \A b \in Syncer \ {a} : sync[b].pc = "idle"
           /\ row'.status \in Open => ~row'.reviewed
           /\ x.pc = "update" => x.was.usefulness = row'.usefulness
                                 /\ x.was.reviewed = row'.reviewed
           /\ x.pc \in {"select", "remove", "replace", "insert"} => SameChunk(x.ticket, row')
           /\ x.pc = "remove" => ~Qualifies(row')
           /\ x.pc = "insert" => chunk' = {}
           /\ x.pc \in {"idle", "update", "bump"} => chunk' = Embedded(row')
  PROVE  FollowInv'
  <1> SUFFICES ASSUME ~disturbed' PROVE (OneCall /\ InStep /\ Unopened)' /\ \A b \in Syncer : Knows(b)'
    BY DEF FollowInv
  <1>1. sync'[a] = x /\ \A b \in Syncer \ {a} : sync'[b].pc = "idle"
    BY DEF SyncType
  <1>2. OneCall' /\ Unopened'
    BY <1>1 DEF OneCall, Unopened
  <1>3. InStep'
    <2>1. Unembedded(a)' \/ x.pc \in {"idle", "update", "bump"}
      BY <1>1 DEF Unembedded, Sync
    <2> QED
      BY <2>1 DEF InStep
  <1>4. ASSUME NEW b \in Syncer PROVE Knows(b)'
    <2>1. CASE b = a
      BY <1>1, <2>1 DEF Knows, Unembedded
    <2>2. CASE b # a
      BY <1>1, <2>2 DEF Knows, Unembedded
    <2> QED
      BY <2>1, <2>2
  <1> QED
    BY <1>2, <1>3, <1>4

LEMMA FollowNext ==
  RowType /\ SyncType /\ TextInv /\ SoloInv /\ QueueInv /\ FollowInv /\ [Next]_vars
    => FollowInv'
  <1> SUFFICES ASSUME RowType, SyncType, TextInv, SoloInv, QueueInv, FollowInv,
                      [Next]_vars
               PROVE  FollowInv'
    OBVIOUS
  <1>0. /\ row \in Ticket
        /\ NoSync \in Sync /\ NoSync.pc = "idle"
    BY DEF RowType, NoSync, Sync, Absent, Ticket
  <1>1. ASSUME NEW c \in Creator, Create(c) PROVE FollowInv'
    <2>0. UNCHANGED <<sync, chunk>>
      BY <1>1 DEF Create, FindByHash, InsertTicket, LoseRace, LinkJob, AddJob,
                  AddJobFails, AddFailed, CreateFails
    <2>1. UNCHANGED <<sync, chunk>> /\ (disturbed => disturbed')
      <3>1. CASE AddFailed(c)
        BY <2>0, <3>1, Zenon DEF AddFailed
      <3>2. CASE ~AddFailed(c)
        BY <1>1, <2>0, <3>2 DEF Create, FindByHash, InsertTicket, LoseRace, LinkJob,
                  AddJob, AddJobFails, CreateFails
      <3> QED
        BY <3>1, <3>2
    <2>2. CASE InsertTicket(c)
      <3>1. /\ ~Present /\ ~Qualifies(row) /\ ~Qualifies(row') /\ ~row'.reviewed
            /\ \A a \in Syncer : sync[a].pc = "idle"
        BY <2>2 DEF InsertTicket, QueueInv, Present, Qualifies, Absent
      <3> QED
        BY <2>1, <3>1, FollowFrame DEF SameChunk
    <2>3. CASE LinkJob(c)
      <3>1. row.status = "pending" /\ row' = [row EXCEPT !.status = "pending", !.linked = TRUE]
        BY <2>3 DEF LinkJob, QueueInv, Unadded
      <3>2. /\ row'.status = row.status /\ row'.reviewed = row.reviewed
            /\ row'.usefulness = row.usefulness /\ ~Qualifies(row) /\ ~Qualifies(row')
        BY <1>0, <3>1 DEF Ticket, Qualifies
      <3>3. ~disturbed => ~row.reviewed
        BY <3>1 DEF FollowInv, Unopened, Open
      <3> QED
        BY <2>1, <3>2, <3>3, FollowFrame DEF SameChunk
    <2>4. CASE AddFailed(c)
      <3>1. /\ row'.status = "failed" /\ row'.reviewed = row.reviewed
            /\ row'.usefulness = row.usefulness /\ ~Qualifies(row')
            /\ ~disturbed' => ~Qualifies(row)
        BY <1>0, <2>4 DEF AddFailed, Ticket, Qualifies
      <3> QED
        BY <2>1, <3>1, FollowFrame DEF SameChunk, Open
    <2>5. CASE ~(InsertTicket(c) \/ LinkJob(c) \/ AddFailed(c))
      <3>1. row' = row /\ disturbed' = disturbed
        BY <1>1, <2>5 DEF Create, FindByHash, LoseRace, AddJob, AddJobFails, CreateFails
      <3>2. ~disturbed => Unopened
        BY DEF FollowInv
      <3> QED
        BY <2>1, <3>1, <3>2, FollowFrame DEF SameChunk, Unopened
    <2> QED
      BY <2>2, <2>3, <2>4, <2>5
  <1>2. ASSUME NEW h \in Handler, TakeJob(h) \/ LoseJob(h) \/ Handle(h) PROVE FollowInv'
    <2>1. UNCHANGED <<sync, chunk, disturbed>>
      BY <1>2 DEF TakeJob, LoseJob, Handle, Start, SelectTicket, RejectEarly, Finish,
                  ExtractFails, MarkFailed, MarkFailedFails
    <2>2. /\ row'.reviewed = row.reviewed /\ row'.usefulness = row.usefulness
          /\ row' = row \/ row.status \in Open \/ row.status = "failed"
          /\ row'.status \in Open => row.status \in Open
          /\ row.status = "failed" => row'.status = "failed"
      <3>1. CASE Finish(h)
        <4>1. PICK t \in Text : row' = IF row.status \in Open
                                       THEN [row EXCEPT !.status = "done", !.text = t]
                                       ELSE row
          BY <3>1 DEF Finish
        <4> QED
          BY <1>0, <4>1 DEF Ticket, Open
      <3>2. CASE Start(h)
        BY <1>0, <3>2 DEF Start, Ticket, Open
      <3>3. CASE MarkFailed(h)
        <4>1. row.status \in {"processing", "failed"}
          BY <3>3 DEF MarkFailed, SoloInv, Working
        <4> QED
          BY <1>0, <3>3, <4>1 DEF MarkFailed, Ticket, Open
      <3>4. CASE ~(Finish(h) \/ Start(h) \/ MarkFailed(h))
        BY <1>2, <3>4 DEF TakeJob, LoseJob, Handle, SelectTicket, RejectEarly,
                  ExtractFails, MarkFailedFails
      <3> QED
        BY <3>1, <3>2, <3>3, <3>4
    <2>3. ~disturbed => SameChunk(row', row) /\ (row'.status \in Open => ~row'.reviewed)
      BY <2>2 DEF FollowInv, Unopened, SameChunk, Qualifies, Open
    <2> QED
      BY <2>1, <2>2, <2>3, FollowFrame
  <1>3. ASSUME NEW r \in Reviewer, Review(r) PROVE FollowInv'
    <2>0. r \in Syncer /\ sync[r] \in Sync
      BY DEF Syncer, SyncType
    <2>1. CASE GetOne(r)
      <3> DEFINE x == [NoSync EXCEPT !.pc = "update", !.was = row]
      <3>1. /\ x \in Sync /\ x.pc = "update" /\ x.was = row
            /\ sync' = [sync EXCEPT ![r] = x] /\ row' = row /\ chunk' = chunk
            /\ disturbed => disturbed'
            /\ ~disturbed' => ~Others(r)
            /\ sync[r].pc = "idle"
        BY <1>0, <2>1 DEF GetOne, NoSync, Sync
      <3> HIDE DEF x
      <3>2. ASSUME ~disturbed'
            PROVE  /\ \A b \in Syncer : sync[b].pc = "idle"
                   /\ chunk = Embedded(row) /\ Unopened
        BY <3>1, <3>2 DEF Others, FollowInv, InStep, Unembedded
      <3> QED
        BY <2>0, <3>1, <3>2, FollowCall DEF Unopened
    <2>2. CASE UpdateFails(r)
      <3>1. ASSUME ~disturbed'
            PROVE  /\ \A b \in Syncer \ {r} : sync[b].pc = "idle"
                   /\ chunk = Embedded(row) /\ Unopened
        BY <2>0, <2>2, <3>1 DEF UpdateFails, FollowInv, OneCall, InStep, Unembedded
      <3>2. /\ sync' = [sync EXCEPT ![r] = NoSync]
            /\ UNCHANGED <<row, chunk, disturbed>>
        BY <2>2 DEF UpdateFails
      <3> QED
        BY <1>0, <2>0, <3>1, <3>2, FollowCall DEF Unopened
    <2>3. CASE Update(r)
      <3>1. PICK t \in Text \cup {row.text}, u \in {"useful", "not_useful", row.usefulness} :
              /\ row' = Patched(t, u)
              /\ sync' = [sync EXCEPT ![r] =
                   IF ShouldSync(sync[r].was, Patched(t, u))
                     THEN [NoSync EXCEPT !.pc = "select", !.ticket = Patched(t, u)]
                     ELSE NoSync]
        BY <2>3 DEF Update
      <3>2. /\ row' \in Ticket /\ row'.status = row.status /\ row'.reviewed
            /\ row'.usefulness = u
        BY <1>0, <3>1 DEF Patched, Ticket
      <3>3. disturbed' = (disturbed \/ row.status \in Open) /\ chunk' = chunk
            /\ sync[r].pc = "update"
        BY <2>3 DEF Update
      <3>4. ASSUME ~disturbed'
            PROVE  /\ \A b \in Syncer \ {r} : sync[b].pc = "idle"
                   /\ chunk = Embedded(row) /\ row'.status \notin Open
                   /\ sync[r].was.usefulness = row.usefulness
                   /\ sync[r].was.reviewed = row.reviewed
        BY <2>0, <3>2, <3>3, <3>4 DEF FollowInv, OneCall, InStep, Unembedded, Knows
      <3>5. CASE ShouldSync(sync[r].was, row')
        <4> DEFINE x == [NoSync EXCEPT !.pc = "select", !.ticket = row']
        <4>1. x \in Sync /\ x.pc = "select" /\ x.ticket = row'
              /\ sync' = [sync EXCEPT ![r] = x]
          BY <1>0, <3>1, <3>2, <3>5 DEF NoSync, Sync
        <4> HIDE DEF x
        <4> QED
          BY <2>0, <3>3, <3>4, <4>1, FollowCall DEF SameChunk
      <3>6. CASE ~ShouldSync(sync[r].was, row')
        <4>1. sync' = [sync EXCEPT ![r] = NoSync]
          BY <3>1, <3>6
        <4>2. ASSUME ~disturbed' PROVE chunk' = Embedded(row')
          BY <3>2, <3>3, <3>4, <3>6, <4>2 DEF ShouldSync, Embedded, Qualifies
        <4> QED
          BY <1>0, <2>0, <3>3, <3>4, <4>1, <4>2, FollowCall
      <3> QED
        BY <3>5, <3>6
    <2> QED
      BY <1>3, <2>1, <2>2, <2>3 DEF Review
  <1>4. ASSUME NEW a \in Syncer, SyncTicketChunk(a) PROVE FollowInv'
    <2>0. /\ sync[a] \in Sync /\ row' = row /\ sync[a].pc # "idle"
          /\ disturbed => disturbed'
          /\ sync[a].pc \in {"replace", "insert"} => Qualifies(sync[a].ticket)
      BY <1>4 DEF SyncType, TextInv, SyncTicketChunk, SelectChunk, DeleteChunk,
                  InsertChunk, SyncFails, BumpVersion
    <2>1. ASSUME ~disturbed'
          PROVE  /\ \A b \in Syncer \ {a} : sync[b].pc = "idle"
                 /\ Unopened /\ Knows(a) /\ InStep
      BY <2>0, <2>1 DEF FollowInv, OneCall
    <2>2. ASSUME NEW pc \in {"remove", "replace", "insert", "bump"},
                 sync' = [sync EXCEPT ![a] = [sync[a] EXCEPT !.pc = pc]],
                 ~disturbed' =>
                   /\ pc # "bump" => SameChunk(sync[a].ticket, row)
                   /\ pc = "remove" => ~Qualifies(row)
                   /\ pc = "insert" => chunk' = {}
                   /\ pc = "bump" => chunk' = Embedded(row)
          PROVE  FollowInv'
      <3> DEFINE x == [sync[a] EXCEPT !.pc = pc]
      <3>1. x \in Sync /\ x.pc = pc /\ x.ticket = sync[a].ticket
            /\ sync' = [sync EXCEPT ![a] = x]
        BY <2>0, <2>2 DEF Sync
      <3> HIDE DEF x
      <3> QED
        BY <2>0, <2>1, <2>2, <3>1, FollowCall DEF Unopened
    <2>3. ASSUME sync' = [sync EXCEPT ![a] = NoSync], ~disturbed' => chunk' = Embedded(row)
          PROVE  FollowInv'
      BY <1>0, <2>0, <2>1, <2>3, FollowCall DEF Unopened
    <2>4. CASE SelectChunk(a)
      <3>1. ~disturbed' => SameChunk(sync[a].ticket, row)
        BY <2>1, <2>4 DEF SelectChunk, Knows, Unembedded
      <3>2. /\ chunk' = chunk
            /\ \/ /\ sync' = [sync EXCEPT ![a] = NoSync]
                  /\ chunk = Embedded(sync[a].ticket)
               \/ /\ sync' = [sync EXCEPT ![a] = [sync[a] EXCEPT !.pc = "remove"]]
                  /\ ~Qualifies(sync[a].ticket)
               \/ sync' = [sync EXCEPT ![a] = [sync[a] EXCEPT !.pc = "replace"]]
        BY <2>4 DEF SelectChunk, Embedded
      <3> QED
        BY <2>2, <2>3, <3>1, <3>2 DEF SameChunk, Embedded
    <2>5. CASE DeleteChunk(a)
      <3>1. sync' = [sync EXCEPT ![a] = [sync[a] EXCEPT
                      !.pc = IF sync[a].pc = "remove" THEN "bump" ELSE "insert"]]
            /\ chunk' = {} /\ sync[a].pc \in {"remove", "replace"}
        BY <2>5 DEF DeleteChunk
      <3>2. ~disturbed' => SameChunk(sync[a].ticket, row)
                           /\ (sync[a].pc = "remove" => Embedded(row) = {})
        BY <2>1, <3>1 DEF Knows, Unembedded, Embedded
      <3> QED
        BY <2>2, <3>1, <3>2
    <2>6. CASE InsertChunk(a)
      <3>1. /\ sync' = [sync EXCEPT ![a] = [sync[a] EXCEPT !.pc = "bump"]]
            /\ chunk' = {sync[a].ticket.text} /\ sync[a].pc = "insert"
        BY <2>6 DEF InsertChunk
      <3>2. ~disturbed' => chunk' = Embedded(row)
        BY <2>0, <2>1, <3>1 DEF Knows, Unembedded, SameChunk, Embedded
      <3> QED
        BY <2>2, <3>1, <3>2
    <2>7. CASE SyncFails(a)
      BY <2>3, <2>7 DEF SyncFails
    <2>8. CASE BumpVersion(a)
      <3>1. sync' = [sync EXCEPT ![a] = NoSync] /\ sync[a].pc = "bump" /\ chunk' = chunk
        BY <2>8 DEF BumpVersion
      <3>2. ~disturbed' => chunk' = Embedded(row)
        BY <2>1, <3>1 DEF InStep, Unembedded
      <3> QED
        BY <2>3, <3>1, <3>2
    <2> QED
      BY <1>4, <2>4, <2>5, <2>6, <2>7, <2>8 DEF SyncTicketChunk
  <1>5. CASE StartBackfill
    <2> DEFINE x == [NoSync EXCEPT !.pc = "select", !.ticket = row]
    <2>0. Backfill \in Syncer
      BY DEF Syncer
    <2>1. /\ x \in Sync /\ x.pc = "select" /\ x.ticket = row
          /\ sync' = [sync EXCEPT ![Backfill] = x] /\ row' = row
          /\ disturbed => disturbed'
          /\ ~disturbed' => ~Others(Backfill)
      BY <1>0, <1>5 DEF StartBackfill, NoSync, Sync
    <2> HIDE DEF x
    <2>2. ASSUME ~disturbed'
          PROVE  (\A b \in Syncer \ {Backfill} : sync[b].pc = "idle") /\ Unopened
      BY <2>1, <2>2 DEF Others, FollowInv
    <2> QED
      BY <2>0, <2>1, <2>2, FollowCall DEF SameChunk, Unopened
  <1>6. CASE Crash
    <2>1. /\ UNCHANGED <<row, chunk>> /\ (disturbed => disturbed')
          /\ ~disturbed' => \A r \in Reviewer : sync[r].pc = "idle"
          /\ \A a \in Syncer : sync'[a] = IF a = Backfill THEN sync[a] ELSE NoSync
      BY <1>6 DEF Crash
    <2>2. ASSUME ~disturbed' PROVE \A a \in Syncer : sync'[a] = sync[a] \/ (sync'[a].pc = "idle" /\ sync[a].pc = "idle")
      BY <1>0, <2>1, <2>2 DEF Syncer
    <2>3. ASSUME ~disturbed' PROVE OneCall' /\ Unopened' /\ InStep'
      BY <2>1, <2>2, <2>3 DEF FollowInv, OneCall, Unopened, InStep, Unembedded
    <2>4. ASSUME ~disturbed', NEW a \in Syncer PROVE Knows(a)'
      BY <2>1, <2>2, <2>4 DEF FollowInv, Knows, Unembedded
    <2> QED
      BY <2>3, <2>4 DEF FollowInv
  <1>7. CASE StallDead \/ Reconcile \/ UNCHANGED vars
    <2>1. /\ UNCHANGED <<sync, chunk>> /\ (disturbed => disturbed')
          /\ row'.reviewed = row.reviewed /\ row'.usefulness = row.usefulness
          /\ row' = row \/ (row'.status = "failed" /\ (~disturbed' => row.status # "done"))
      <3>1. CASE ReconcileFail
        <4>1. UNCHANGED <<sync, chunk>>
          BY <3>1 DEF ReconcileFail
        <4>2. \/ row' = row /\ (disturbed => disturbed')
              \/ /\ row' = [row EXCEPT !.status = "failed"]
                 /\ disturbed => disturbed'
                 /\ ~disturbed' => row.status # "done"
          BY <3>1, Zenon DEF ReconcileFail
        <4> QED
          BY <1>0, <4>1, <4>2 DEF Ticket
      <3>2. CASE ~ReconcileFail
        BY <1>7, <3>2 DEF StallDead, Reconcile, Boot, ReconcileGetJob,
                  ReconcileGetJobFails, vars
      <3> QED
        BY <3>1, <3>2
    <2>2. ~disturbed' => SameChunk(row', row) /\ (row'.status \in Open => ~row'.reviewed)
      BY <2>1 DEF FollowInv, Unopened, SameChunk, Qualifies, Open
    <2> QED
      BY <2>1, <2>2, FollowFrame
  <1> QED
    BY <1>1, <1>2, <1>3, <1>4, <1>5, <1>6, <1>7 DEF Next

-----------------------------------------------------------------------------
(* Theorems *)

TicketInv == /\ RowType /\ ChunkType /\ CreatorType /\ SyncType /\ RestType
             /\ LockInv /\ TextInv /\ SoloInv /\ QueueInv /\ FollowInv

LEMMA TicketInvariant == Spec => []TicketInv
  <1>1. Init => TicketInv
    BY RowInit, RestInit, LockInit, TextInit, SoloInit, FollowInit DEF TicketInv
  <1>2. TicketInv /\ [Next]_vars => TicketInv'
    BY RowNext, CreatorNext, SyncNext, RestNext, LockNext, TextNext, SoloNext,
       QueueNext, FollowNext
    DEF TicketInv
  <1> QED
    BY <1>1, <1>2, PTL DEF Spec

(* Type correctness: above all, a ticket never has two chunks, and the chunk   *)
(* it has is never the blank text of a ticket that was not extracted.         *)
THEOREM TicketTypeCorrect == Spec => []TypeOK
  <1>1. TicketInv => TypeOK
    BY DEF TicketInv, TypeOK, RowType, ChunkType, CreatorType, SyncType, RestType,
           LockInv, Job
  <1> QED
    BY <1>1, TicketInvariant, PTL

(* No two handlers extract one transcript at the same time, for any number of  *)
(* requests, handlers, stalls and timeouts.                                   *)
THEOREM OneExtraction == Spec => []SingleExtraction
  <1>1. TicketInv => SingleExtraction
    BY DEF TicketInv, SoloInv
  <1> QED
    BY <1>1, TicketInvariant, PTL

(* A ticket is never left "processing" by an error that the handler caught.    *)
THEOREM ProcessingIsWorkedOn == Spec => []ProcessingHasWorker
  <1>1. TicketInv => ProcessingHasWorker
    BY DEF TicketInv, SoloInv
  <1> QED
    BY <1>1, TicketInvariant, PTL

(* A change of the ticket's chunk is announced to the cache, or excused.        *)
THEOREM TicketChangesAnnounced == Spec => []ChangesAnnounced
  <1>1. Init => ChangesAnnounced
    BY DEF Init, ChangesAnnounced
  <1>2. TicketInv /\ ChangesAnnounced /\ [Next]_vars => ChangesAnnounced'
    <2> SUFFICES ASSUME SyncType, ChangesAnnounced, [Next]_vars, unbumped', ~excused'
                 PROVE  \E b \in Syncer : sync'[b].pc \in {"insert", "bump"}
      BY DEF TicketInv, ChangesAnnounced
    <2>1. ASSUME NEW a \in Syncer, SyncTicketChunk(a)
          PROVE  \E b \in Syncer : sync'[b].pc \in {"insert", "bump"}
      <3>0. sync[a] \in Sync
        BY DEF SyncType
      <3>1. CASE SelectChunk(a)
        <4>1. unbumped /\ ~excused /\ sync[a].pc = "select"
              /\ \A b \in Syncer \ {a} : sync'[b] = sync[b]
          BY <3>1 DEF SelectChunk, SyncType, cacheVars
        <4> QED
          BY <4>1 DEF ChangesAnnounced
      <3>2. CASE DeleteChunk(a)
        <4>1. sync'[a].pc \in {"bump", "insert"}
          BY <3>0, <3>2 DEF DeleteChunk, SyncType, Sync
        <4> QED
          BY <4>1
      <3>3. CASE InsertChunk(a)
        <4>1. sync'[a].pc = "bump"
          BY <3>0, <3>3 DEF InsertChunk, SyncType, Sync
        <4> QED
          BY <4>1
      <3>4. CASE SyncFails(a)
        <4>1. unbumped /\ ~excused /\ sync[a].pc \notin {"insert", "bump"}
              /\ \A b \in Syncer \ {a} : sync'[b] = sync[b]
          BY <3>4 DEF SyncFails, SyncType
        <4> QED
          BY <4>1 DEF ChangesAnnounced
      <3>5. CASE BumpVersion(a)
        BY <3>5 DEF BumpVersion
      <3> QED
        BY <2>1, <3>1, <3>2, <3>3, <3>4, <3>5 DEF SyncTicketChunk
    <2>2. ASSUME NEW r \in Reviewer, Review(r)
          PROVE  \E b \in Syncer : sync'[b].pc \in {"insert", "bump"}
      <3>1. /\ unbumped /\ ~excused /\ sync[r].pc \in {"idle", "update"}
            /\ \A b \in Syncer \ {r} : sync'[b] = sync[b]
        <4>1. /\ unbumped' = unbumped /\ excused' = excused
              /\ sync[r].pc \in {"idle", "update"}
          BY <2>2 DEF Review, GetOne, Update, UpdateFails, cacheVars
        <4>2. \A b \in Syncer \ {r} : sync'[b] = sync[b]
          BY <2>2 DEF Review, GetOne, Update, UpdateFails, SyncType
        <4> QED
          BY <4>1, <4>2
      <3> QED
        BY <3>1 DEF ChangesAnnounced
    <2>3. CASE StartBackfill
      <3>1. /\ unbumped /\ ~excused /\ sync[Backfill].pc = "idle"
            /\ \A b \in Syncer \ {Backfill} : sync'[b] = sync[b]
        BY <2>3 DEF StartBackfill, SyncType, cacheVars
      <3> QED
        BY <3>1 DEF ChangesAnnounced
    <2>4. CASE Crash
      BY <2>4 DEF Crash
    <2>5. CASE \/ StallDead \/ Reconcile \/ UNCHANGED vars
               \/ \E c \in Creator : Create(c)
               \/ \E h \in Handler : TakeJob(h) \/ LoseJob(h) \/ Handle(h)
      <3>1. UNCHANGED <<sync, unbumped, excused>>
        BY <2>5 DEF Create, FindByHash, InsertTicket, LoseRace, LinkJob, AddJob,
                    AddJobFails, AddFailed, CreateFails, TakeJob, LoseJob, Handle, Start,
                    SelectTicket, RejectEarly, Finish, ExtractFails, MarkFailed,
                    MarkFailedFails, StallDead, Reconcile, Boot, ReconcileGetJob,
                    ReconcileGetJobFails, ReconcileFail, cacheVars, vars
      <3> QED
        BY <3>1 DEF ChangesAnnounced
    <2> QED
      BY <2>1, <2>2, <2>3, <2>4, <2>5 DEF Next
  <1> QED
    BY <1>1, <1>2, TicketInvariant, PTL DEF Spec

(* Between the calls of undisturbed reviews the chunk is that of the row, for  *)
(* any number of requests, handlers, reviewers and texts.                     *)
THEOREM ChunkInStep == Spec => []ChunkFollowsReview
  <1>1. TicketInv => ChunkFollowsReview
    BY DEF TicketInv, FollowInv, InStep, Unembedded, Embedded, ChunkFollowsReview
  <1> QED
    BY <1>1, TicketInvariant, PTL

(* A done ticket stays done, but for the two UPDATEs that do not look.         *)
THEOREM DoneStaysDone == Spec => DoneIsFinal
  <1> DEFINE A == row.status = "done" /\ row'.status # "done"
                    => recon = "update" \/ \E c \in Creator : creator[c] = "addFailed"
  <1>1. TicketInv /\ [Next]_vars => [A]_vars
    <2> SUFFICES ASSUME TicketInv, [Next]_vars, row.status = "done",
                        row'.status # "done"
                 PROVE  recon = "update" \/ \E c \in Creator : creator[c] = "addFailed"
      OBVIOUS
    <2>0. row \in Ticket /\ SoloInv
      BY DEF TicketInv, RowType
    <2>1. ASSUME NEW c \in Creator, Create(c) PROVE creator[c] = "addFailed"
      <3>1. creator[c] # "link" /\ row.status # "absent"
        BY <2>0 DEF SoloInv, Unadded
      <3> QED
        BY <2>1, <3>1 DEF Create, FindByHash, InsertTicket, LoseRace, LinkJob, AddJob,
                  AddJobFails, AddFailed, CreateFails, Present
    <2>2. ASSUME NEW h \in Handler, TakeJob(h) \/ LoseJob(h) \/ Handle(h) PROVE FALSE
      <3>1. ~Working(h)
        BY <2>0 DEF SoloInv
      <3> QED
        BY <2>2, <3>1 DEF TakeJob, LoseJob, Handle, Start, SelectTicket, RejectEarly,
                  Finish, ExtractFails, MarkFailed, MarkFailedFails, Working
    <2>3. ASSUME NEW r \in Reviewer, Review(r) PROVE FALSE
      BY <2>0, <2>3 DEF Review, GetOne, Update, UpdateFails, Patched, Ticket
    <2>4. ASSUME NEW a \in Syncer, SyncTicketChunk(a) PROVE FALSE
      BY <2>4 DEF SyncTicketChunk, SelectChunk, DeleteChunk, InsertChunk, SyncFails,
                  BumpVersion
    <2>5. CASE StartBackfill \/ StallDead \/ Crash \/ Reconcile \/ UNCHANGED vars
      BY <2>5 DEF StartBackfill, StallDead, Crash, Reconcile, Boot, ReconcileGetJob,
                  ReconcileGetJobFails, ReconcileFail, vars
    <2> QED
      BY <2>1, <2>2, <2>3, <2>4, <2>5 DEF Next
  <1>2. Spec => [][A]_vars
    BY <1>1, TicketInvariant, PTL DEF Spec
  <1> QED
    BY <1>2 DEF DoneIsFinal
=============================================================================
