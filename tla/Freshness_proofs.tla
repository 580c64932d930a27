----------------------- MODULE Freshness_proofs -----------------------
(***************************************************************************)
(* What a change of the knowledge base does, from the document to the      *)
(* cached answer: proofs about DocumentIngest, for every set of handlers,  *)
(* every content and every bound, and about ChatCache, for every set of    *)
(* requests, writers and questions.                                        *)
(***************************************************************************)
EXTENDS DocumentIngest, ChatCache, TLAPS

-----------------------------------------------------------------------------
(* The lock of the job. *)

(* One handler at most holds the lock of the job, only while it is active,   *)
(* and a job that may still run has an attempt left.                         *)
LockInv ==
  /\ \A h \in Handler : handler[h].owns => job.state = "active"
  /\ \A g, h \in Handler : handler[g].owns /\ handler[h].owns => g = h
  /\ job.state \in {"waiting", "active"} => job.attemptsMade < Attempts

(* What an attempt that failed, a stall, an add and a completion leave of a   *)
(* job keeps it a job with an attempt left.                                   *)
LEMMA JobResults ==
  ASSUME TypeOK, LockInv
  PROVE  /\ NoJob \in Job /\ NoJob.state = "none" /\ NoJob.attemptsMade = 0
         /\ Added \in Job
         /\ Added.state \in {"waiting", "active"} => Added.attemptsMade < Attempts
         /\ job.state = "active" =>
              /\ AttemptFailed \in Job /\ Stalled \in Job
              /\ AttemptFailed.state = "waiting" => AttemptFailed.attemptsMade < Attempts
              /\ Stalled.state = "waiting" => Stalled.attemptsMade < Attempts
              /\ AttemptFailed.state \in {"waiting", "failed"}
              /\ Stalled.state \in {"waiting", "failed"}
  <1>1. NoJob \in Job /\ NoJob.state = "none" /\ NoJob.attemptsMade = 0
    BY IngestBounds DEF NoJob, Job, JobRecord
  <1>2. /\ Added \in Job
        /\ Added.state \in {"waiting", "active"} => Added.attemptsMade < Attempts
    BY IngestBounds, <1>1 DEF Added, TypeOK, LockInv, Job, NoJob, JobRecord, Enqueued, Found
  <1>0. /\ job \in Job /\ job.attemptsMade \in 0 .. Attempts /\ job.stalls \in 0 .. MaxStalls
        /\ Attempts \in Nat /\ MaxStalls \in Nat
    BY IngestBounds DEF TypeOK, Job, JobRecord
  <1>3. ASSUME job.state = "active"
        PROVE  /\ AttemptFailed \in Job
               /\ AttemptFailed.state = "waiting" => AttemptFailed.attemptsMade < Attempts
               /\ AttemptFailed.state \in {"waiting", "failed"}
    <2>1. job.attemptsMade < Attempts
      BY <1>3 DEF LockInv
    <2>2. PICK n \in 0 .. Attempts : n = job.attemptsMade + 1
      BY <1>0, <2>1
    <2>3. CASE n < Attempts
      <3>1. AttemptFailed = [job EXCEPT !.state = "waiting", !.attemptsMade = n]
        BY <2>2, <2>3 DEF AttemptFailed, FailedAttempt
      <3> QED
        BY <1>0, <2>3, <3>1 DEF Job, JobRecord
    <2>4. CASE ~(n < Attempts)
      <3>1. AttemptFailed = [job EXCEPT !.state = "failed", !.attemptsMade = n]
        BY <2>2, <2>4 DEF AttemptFailed, FailedAttempt
      <3> QED
        BY <1>0, <3>1 DEF Job, JobRecord
    <2> QED
      BY <2>3, <2>4
  <1>4. ASSUME job.state = "active"
        PROVE  /\ Stalled \in Job
               /\ Stalled.state = "waiting" => Stalled.attemptsMade < Attempts
               /\ Stalled.state \in {"waiting", "failed"}
    <2>1. job.attemptsMade < Attempts
      BY <1>4 DEF LockInv
    <2>2. CASE job.stalls < MaxStalls
      <3>1. PICK n \in 0 .. MaxStalls : n = job.stalls + 1
        BY <1>0, <2>2
      <3>2. Stalled = [job EXCEPT !.state = "waiting", !.stalls = n]
        BY <2>2, <3>1 DEF Stalled, StalledJob
      <3> QED
        BY <1>0, <2>1, <3>2 DEF Job, JobRecord
    <2>3. CASE ~(job.stalls < MaxStalls)
      <3>1. Stalled = [job EXCEPT !.state = "failed"]
        BY <2>3 DEF Stalled, StalledJob
      <3> QED
        BY <1>0, <3>1 DEF Job, JobRecord
    <2> QED
      BY <2>2, <2>3
  <1> QED
    BY <1>1, <1>2, <1>3, <1>4

LEMMA IdleExecution == Idle \in Execution /\ Idle.pc = "idle" /\ ~Idle.owns
                       /\ Idle.key = 1 /\ Idle.seen = {}
  BY IngestBounds DEF Idle, Execution, HandlerPc, Key

LEMMA StatusSetRow ==
  ASSUME TypeOK, NEW s \in Status
  PROVE  /\ StatusSet(s) \in Row /\ StatusSet(s).key = row.key
         /\ Present => StatusSet(s).status = s
         /\ ~Present => StatusSet(s) = row
  BY DEF TypeOK, StatusSet, Row, Present, Status

LEMMA LockInit == Init => TypeOK /\ LockInv
  <1> SUFFICES ASSUME Init PROVE TypeOK /\ LockInv
    OBVIOUS
  <1>1. job \in Job /\ job.state = "none"
    BY IngestBounds DEF Init, NoJob, Job, JobRecord
  <1>2. row \in Row
    BY IngestBounds DEF Init, Row, Key
  <1>3. handler \in [Handler -> Execution] /\ \A h \in Handler : ~handler[h].owns
    BY IdleExecution DEF Init
  <1>4. overruns \in 0 .. MaxOverruns /\ crashes \in 0 .. MaxCrashes
    BY IngestBounds DEF Init
  <1> QED
    BY <1>1, <1>2, <1>3, <1>4 DEF Init, TypeOK, LockInv

LEMMA LockNext == TypeOK /\ LockInv /\ [Next]_vars => TypeOK' /\ LockInv'
  <1> SUFFICES ASSUME TypeOK, LockInv, [Next]_vars PROVE TypeOK' /\ LockInv'
    OBVIOUS
  <1> USE IngestBounds
  <1>1. CASE Call
    <2>1. UNCHANGED handler
      BY <1>1 DEF Call, Create, Recrawl, LinkJob, LinkJobFails, AddJob, AddJobFails,
                  AddFailed
    <2>2. job' \in {job, Added}
      BY <1>1 DEF Call, Create, Recrawl, LinkJob, LinkJobFails, AddJob, AddJobFails,
                  AddFailed
    <2>3. Added.state = "active" => Added = job
      BY DEF Added, NoJob, Enqueued, Found
    <2>4. job.state = "active" => Added = job
      BY DEF Added, Enqueued, Found
    <2>5. LockInv'
      <3>1. job'.state \in {"waiting", "active"} => job'.attemptsMade < Attempts
        BY <2>2, JobResults DEF LockInv
      <3>2. \A h \in Handler : handler[h].owns => job' = job /\ job.state = "active"
        BY <2>2, <2>4 DEF LockInv
      <3>3. /\ \A h \in Handler : handler'[h].owns => job'.state = "active"
            /\ \A g, h \in Handler : handler'[g].owns /\ handler'[h].owns => g = h
        BY <2>1, <3>2 DEF LockInv
      <3> QED
        BY <3>1, <3>3 DEF LockInv
    <2>6. row' \in Row
      <3>0. row \in Row /\ row.key \in Key
        BY DEF TypeOK, Row
      <3>1. CASE Recrawl
        <4>1. row.key + 1 \in Key
          BY <3>0, <3>1 DEF Recrawl, Key
        <4>2. row' = [row EXCEPT !.status = "pending", !.key = row.key + 1]
          BY <3>1 DEF Recrawl
        <4> QED
          BY <3>0, <4>1, <4>2 DEF Row, Status, Open
      <3>2. CASE Create \/ LinkJob
        BY <3>0, <3>2 DEF Create, LinkJob, Row, Status, Open
      <3>3. CASE AddFailed
        BY <3>0, <3>3, StatusSetRow DEF AddFailed, Status
      <3>4. CASE LinkJobFails \/ AddJob \/ AddJobFails
        BY <3>0, <3>4 DEF LinkJobFails, AddJob, AddJobFails
      <3> QED
        BY <1>1, <3>1, <3>2, <3>3, <3>4 DEF Call
    <2>7. caller' \in {"idle", "link", "add", "addFailed", "uploadFailed"}
      BY <1>1 DEF Call, Create, Recrawl, LinkJob, LinkJobFails, AddJob, AddJobFails,
                  AddFailed
    <2>8. UNCHANGED <<origin, chunks, remover, recon, unbumped, excused, overruns, crashes>>
      BY <1>1 DEF Call, Create, Recrawl, LinkJob, LinkJobFails, AddJob, AddJobFails,
                  AddFailed, history
    <2> QED
      BY <2>1, <2>2, <2>5, <2>6, <2>7, <2>8, JobResults DEF TypeOK
  <1>2. CASE Remove
    <2>1. /\ UNCHANGED <<job, handler, origin, caller, recon, overruns, crashes>>
          /\ row' \in Row /\ chunks' \in SUBSET Chunk
          /\ remover' \in {"idle", "delete", "bump"}
          /\ unbumped' \in BOOLEAN /\ excused' \in BOOLEAN
      BY <1>2 DEF Remove, SelectToRemove, DeleteRow, DeleteRowFails, BumpRemoved,
                  TypeOK, Row, history
    <2> QED
      BY <2>1 DEF TypeOK, LockInv
  <1>3. CASE Reconcile
    <2>1. /\ UNCHANGED <<job, handler, origin, caller, chunks, remover, unbumped,
                         excused, overruns, crashes>>
          /\ row' \in Row /\ recon' \in {"down", "getJob", "update", "finished"}
      BY <1>3, StatusSetRow DEF Reconcile, Boot, ReconcileGetJob, ReconcileFail,
                  TypeOK, history, Status
    <2> QED
      BY <2>1 DEF TypeOK, LockInv
  <1>4. CASE Crash
    <2>1. /\ job' \in Job
          /\ job'.state \in {"waiting", "active"} => job' = job
      BY <1>4, JobResults DEF Crash, TypeOK, Job, NoJob, JobRecord
    <2>2. handler' = [h \in Handler |-> Idle]
      BY <1>4 DEF Crash
    <2>3. LockInv'
      BY <2>1, <2>2, IdleExecution DEF LockInv
    <2>4. handler' \in [Handler -> Execution]
      BY <2>2, IdleExecution
    <2> QED
      BY <1>4, <2>1, <2>3, <2>4 DEF Crash, TypeOK
  <1>5. CASE StallDead
    <2>1. /\ job' = Stalled /\ job.state = "active"
          /\ \A h \in Handler : ~handler[h].owns
          /\ UNCHANGED <<origin, row, chunks, handler, caller, remover, recon,
                         unbumped, excused, overruns, crashes>>
      BY <1>5 DEF StallDead, history
    <2> QED
      BY <2>1, JobResults DEF TypeOK, LockInv
  <1>6. ASSUME NEW h \in Handler, TakeJob(h) PROVE TypeOK' /\ LockInv'
    <2> DEFINE e == [Idle EXCEPT !.pc = "mark", !.owns = TRUE]
    <2>1. e \in Execution /\ e.owns
      BY IdleExecution DEF Idle, Execution, HandlerPc
    <2>2. handler' = [handler EXCEPT ![h] = e] /\ job' = [job EXCEPT !.state = "active"]
          /\ job.state = "waiting"
          /\ UNCHANGED <<origin, row, chunks, caller, remover, recon, unbumped,
                         excused, overruns, crashes>>
      BY <1>6 DEF TakeJob, history
    <2>3. job' \in Job /\ job'.state = "active" /\ job'.attemptsMade = job.attemptsMade
      BY <2>2 DEF TypeOK, Job, JobRecord
    <2>4. \A g \in Handler : ~handler[g].owns
      BY <2>2 DEF LockInv
    <2> HIDE DEF e
    <2> QED
      BY <2>1, <2>2, <2>3, <2>4 DEF TypeOK, LockInv
  <1>7. ASSUME NEW h \in Handler, TimeOut(h) \/ StallAlive(h) PROVE TypeOK' /\ LockInv'
    <2>1. /\ handler[h].owns /\ job' \in {AttemptFailed, Stalled}
          /\ handler' = [handler EXCEPT ![h] = [handler[h] EXCEPT !.owns = FALSE]]
          /\ overruns' \in 0 .. MaxOverruns
          /\ UNCHANGED <<origin, row, chunks, caller, remover, recon, unbumped,
                         excused, crashes>>
      BY <1>7 DEF TimeOut, StallAlive, TypeOK
    <2>2. job.state = "active" /\ \A g \in Handler : handler[g].owns => g = h
      BY <2>1 DEF LockInv
    <2>3. [handler[h] EXCEPT !.owns = FALSE] \in Execution
      BY DEF TypeOK, Execution
    <2>4. \A g \in Handler : ~handler'[g].owns
      BY <2>1, <2>2 DEF TypeOK, Execution
    <2> QED
      BY <2>1, <2>2, <2>3, <2>4, JobResults DEF TypeOK, LockInv
  <1>8. ASSUME NEW h \in Handler, Handle(h) PROVE TypeOK' /\ LockInv'
    <2>1. /\ UNCHANGED <<origin, caller, remover, recon, overruns, crashes>>
          /\ unbumped' \in BOOLEAN /\ excused' \in BOOLEAN
      BY <1>8 DEF Handle, MarkProcessing, SelectRow, RejectEarly, SelectChunks,
         DeleteChunks, InsertChunks, Insert, MarkDone, Bump, Fail, MarkFailed,
         MarkFailedFails, history, TypeOK
    <2>2. row' \in Row
      BY <1>8, StatusSetRow DEF Handle, MarkProcessing, SelectRow, RejectEarly,
         SelectChunks, DeleteChunks, InsertChunks, Insert, MarkDone, Bump, Fail,
         MarkFailed, MarkFailedFails, TypeOK, Status, Open
    <2>3. chunks' \in SUBSET Chunk
      <3>1. CASE InsertChunks(h)
        <4>1. PICK i \in Id : chunks' = chunks \cup
                 {[hash |-> x, id |-> i] : x \in Content[handler[h].key] \ SeenHashes(h)}
          BY <3>1 DEF InsertChunks, Insert
        <4>2. Content[handler[h].key] \subseteq Hash
          BY ContentAssumption DEF TypeOK, Execution
        <4> QED
          BY <4>1, <4>2 DEF TypeOK, Chunk
      <3>2. CASE ~InsertChunks(h)
        BY <1>8, <3>2 DEF Handle, MarkProcessing, SelectRow, RejectEarly, SelectChunks,
           DeleteChunks, MarkDone, Bump, Fail, MarkFailed, MarkFailedFails, TypeOK
      <3> QED
        BY <3>1, <3>2
    <2>4. CASE RejectEarly(h) \/ Bump(h) \/ MarkFailed(h) \/ MarkFailedFails(h)
      <3>1. handler' = [handler EXCEPT ![h] = Idle]
        BY <2>4 DEF RejectEarly, Bump, MarkFailed, MarkFailedFails, Throw
      <3>2. \/ ~handler[h].owns /\ job' = job
            \/ handler[h].owns /\ job' \in {AttemptFailed, NoJob}
        BY <2>4 DEF RejectEarly, Bump, MarkFailed, MarkFailedFails, Throw, Completed
      <3>3. handler[h].owns => job.state = "active"
        BY DEF LockInv
      <3>4. \A g \in Handler : handler'[g].owns => g # h /\ handler[g].owns
        BY <3>1, IdleExecution DEF TypeOK
      <3>5. handler' \in [Handler -> Execution]
        BY <3>1, IdleExecution DEF TypeOK
      <3>6. job' \in Job
        BY <3>2, <3>3, JobResults DEF TypeOK
      <3>7. LockInv'
        BY <3>2, <3>3, <3>4, JobResults DEF LockInv
      <3> QED
        BY <2>1, <2>2, <2>3, <3>5, <3>6, <3>7 DEF TypeOK
    <2>5. CASE ~(RejectEarly(h) \/ Bump(h) \/ MarkFailed(h) \/ MarkFailedFails(h))
      <3>1. UNCHANGED job
        BY <1>8, <2>5 DEF Handle, MarkProcessing, SelectRow, SelectChunks,
           DeleteChunks, InsertChunks, Insert, MarkDone, Fail
      <3> DEFINE r == handler[h]
      <3>0. r \in Execution /\ row.key \in Key
        BY DEF TypeOK, Row
      <3>2. PICK e \in Execution :
              handler' = [handler EXCEPT ![h] = e] /\ e.owns = handler[h].owns
        <4>1. CASE MarkProcessing(h) \/ MarkDone(h) \/ DeleteChunks(h)
          <5>1. PICK p \in HandlerPc :
                  handler' = [handler EXCEPT ![h] = [r EXCEPT !.pc = p]]
            BY <4>1 DEF MarkProcessing, MarkDone, DeleteChunks, TypeOK, HandlerPc
          <5> QED
            BY <3>0, <5>1 DEF Execution
        <4>2. CASE SelectRow(h)
          <5>1. handler' = [handler EXCEPT ![h] = [r EXCEPT !.pc = "load",
                                                              !.key = row.key]]
            BY <4>2 DEF SelectRow, TypeOK
          <5>2. [r EXCEPT !.pc = "load", !.key = row.key] \in Execution
            BY <3>0 DEF Execution, HandlerPc
          <5>3. [r EXCEPT !.pc = "load", !.key = row.key].owns = r.owns
            BY <3>0 DEF Execution
          <5> QED
            BY <5>1, <5>2, <5>3
        <4>3. CASE SelectChunks(h) \/ InsertChunks(h) \/ Fail(h)
          <5>0. chunks \in SUBSET Chunk
            BY DEF TypeOK
          <5>1. PICK p \in HandlerPc, s \in SUBSET Chunk :
                  handler' = [handler EXCEPT ![h] = [r EXCEPT !.pc = p, !.seen = s]]
            <6>1. CASE SelectChunks(h)
              BY <6>1 DEF SelectChunks, TypeOK, HandlerPc
            <6>2. CASE InsertChunks(h)
              BY <6>2 DEF InsertChunks, Insert, HandlerPc
            <6>3. CASE Fail(h)
              BY <6>3 DEF Fail, HandlerPc
            <6> QED
              BY <4>3, <6>1, <6>2, <6>3
          <5> QED
            BY <3>0, <5>1 DEF Execution
        <4> QED
          BY <1>8, <2>5, <4>1, <4>2, <4>3 DEF Handle
      <3> QED
        BY <2>1, <2>2, <2>3, <3>1, <3>2 DEF TypeOK, LockInv
    <2> QED
      BY <2>4, <2>5
  <1>9. CASE UNCHANGED vars
    BY <1>9 DEF vars, TypeOK, LockInv
  <1> QED
    BY <1>1, <1>2, <1>3, <1>4, <1>5, <1>6, <1>7, <1>8, <1>9 DEF Next

(* Type correctness: in every reachable state every variable has its type; in *)
(* particular a job never counts more attempts or stalls than Bull allows.    *)
THEOREM IngestTypeCorrect == Spec => []TypeOK
  <1>1. Spec => [](TypeOK /\ LockInv)
    BY LockInit, LockNext, PTL DEF Spec
  <1> QED
    BY <1>1, PTL

-----------------------------------------------------------------------------
(* What a step can do to the row and to the chunks. *)

(* Rows of chunks come only from InsertChunks, which needs the document; a    *)
(* present row goes only by DeleteRow, which takes the chunks with it.        *)
LEMMA ChunkSteps ==
  ASSUME TypeOK, [Next]_vars
  PROVE  \/ \E h \in Handler : InsertChunks(h)
         \/ DeleteRow
         \/ /\ chunks' \subseteq chunks
            /\ Present => Present'
            /\ ~Present => row' = row \/ Create
  <1>1. CASE Call
    BY <1>1, StatusSetRow DEF Call, Create, Recrawl, LinkJob, LinkJobFails, AddJob,
       AddJobFails, AddFailed, Present, Status, Open, TypeOK, Row
  <1>2. CASE Remove
    BY <1>2 DEF Remove, SelectToRemove, DeleteRowFails, BumpRemoved, Present
  <1>3. CASE Reconcile
    BY <1>3, StatusSetRow DEF Reconcile, Boot, ReconcileGetJob, ReconcileFail, Present,
       Status
  <1>4. CASE Crash \/ StallDead \/ UNCHANGED vars
    BY <1>4 DEF Crash, StallDead, vars, Present
  <1>5. ASSUME NEW h \in Handler, TakeJob(h) \/ TimeOut(h) \/ StallAlive(h)
        PROVE  UNCHANGED <<row, chunks>>
    BY <1>5 DEF TakeJob, TimeOut, StallAlive
  <1>6. ASSUME NEW h \in Handler, Handle(h), ~InsertChunks(h)
        PROVE  /\ chunks' \subseteq chunks
               /\ Present => Present'
               /\ ~Present => row' = row
    <2>1. chunks' \subseteq chunks
      BY <1>6 DEF Handle, MarkProcessing, SelectRow, RejectEarly, SelectChunks,
         DeleteChunks, MarkDone, Bump, Fail, MarkFailed, MarkFailedFails
    <2>2. row' = row \/ \E s \in Status : row' = StatusSet(s)
      BY <1>6 DEF Handle, MarkProcessing, SelectRow, RejectEarly, SelectChunks,
         DeleteChunks, MarkDone, Bump, Fail, MarkFailed, MarkFailedFails, Status, Open
    <2> QED
      BY <2>1, <2>2, StatusSetRow DEF Present
  <1> QED
    BY <1>1, <1>2, <1>3, <1>4, <1>5, <1>6 DEF Next, Present

(* No chunk of a deleted document comes back: an ingest that outlives the     *)
(* document it was started for writes nothing that retrieval could find.      *)
THEOREM DeletedUnretrievable == Spec => []NoChunksOfDeleted
  <1>1. Init => NoChunksOfDeleted
    BY DEF Init, NoChunksOfDeleted
  <1>2. TypeOK /\ NoChunksOfDeleted /\ [Next]_vars => NoChunksOfDeleted'
    <2> SUFFICES ASSUME TypeOK, NoChunksOfDeleted, [Next]_vars PROVE NoChunksOfDeleted'
      OBVIOUS
    <2>1. ASSUME NEW h \in Handler, InsertChunks(h) PROVE NoChunksOfDeleted'
      BY <2>1 DEF InsertChunks, Insert, NoChunksOfDeleted, Present
    <2>2. CASE DeleteRow
      BY <2>2 DEF DeleteRow, NoChunksOfDeleted
    <2>3. CASE /\ chunks' \subseteq chunks
               /\ Present => Present'
      BY <2>3 DEF NoChunksOfDeleted
    <2> QED
      BY <2>1, <2>2, <2>3, ChunkSteps
  <1> QED
    BY <1>1, <1>2, IngestTypeCorrect, PTL DEF Spec

-----------------------------------------------------------------------------
(* The announcement of chunk changes. *)

Announcing == {"insert", "done", "bump"}

(* A change of chunks that has not been announced to the answer cache always  *)
(* has a handler or a removal that is about to bump the version, unless a     *)
(* bump failed or an ingest failed or died after its change.                  *)
THEOREM AnnouncedChanges == Spec => []ChangesAnnounced
  <1>1. Init => ChangesAnnounced
    BY DEF Init, ChangesAnnounced
  <1>2. TypeOK /\ ChangesAnnounced /\ [Next]_vars => ChangesAnnounced'
    <2> SUFFICES ASSUME TypeOK, ChangesAnnounced, [Next]_vars PROVE ChangesAnnounced'
      OBVIOUS
    <2>1. CASE Call \/ Reconcile \/ StallDead \/ UNCHANGED vars
      <3>1. UNCHANGED <<unbumped, excused, remover, handler>>
        BY <2>1 DEF Call, Create, Recrawl, LinkJob, LinkJobFails, AddJob, AddJobFails,
           AddFailed, Reconcile, Boot, ReconcileGetJob, ReconcileFail, StallDead, vars
      <3> QED
        BY <3>1 DEF ChangesAnnounced
    <2>2. CASE Remove
      BY <2>2 DEF Remove, SelectToRemove, DeleteRow, DeleteRowFails, BumpRemoved,
         ChangesAnnounced, TypeOK
    <2>3. CASE Crash
      BY <2>3 DEF Crash, ChangesAnnounced
    <2>4. ASSUME NEW h \in Handler, TakeJob(h) \/ TimeOut(h) \/ StallAlive(h)
          PROVE  ChangesAnnounced'
      <3>1. UNCHANGED <<unbumped, excused, remover>>
        BY <2>4 DEF TakeJob, TimeOut, StallAlive
      <3>2. PICK e : handler' = [handler EXCEPT ![h] = e]
                     /\ (handler[h].pc \in Announcing => e.pc = handler[h].pc)
        <4>1. CASE TakeJob(h)
          BY <4>1 DEF TakeJob, Announcing
        <4>2. CASE TimeOut(h) \/ StallAlive(h)
          <5>1. handler' = [handler EXCEPT ![h] = [handler[h] EXCEPT !.owns = FALSE]]
            BY <4>2 DEF TimeOut, StallAlive, TypeOK
          <5>2. handler[h] \in Execution
            BY DEF TypeOK
          <5>3. [handler[h] EXCEPT !.owns = FALSE].pc = handler[h].pc
            BY <5>2 DEF Execution
          <5> QED
            BY <5>1, <5>3
        <4> QED
          BY <2>4, <4>1, <4>2
      <3>3. \A g \in Handler : handler[g].pc \in Announcing => handler'[g].pc = handler[g].pc
        BY <3>2 DEF TypeOK
      <3> QED
        BY <3>1, <3>3 DEF ChangesAnnounced, Announcing
    <2>5. ASSUME NEW h \in Handler, Handle(h) PROVE ChangesAnnounced'
      <3>0. UNCHANGED remover
        BY <2>5 DEF Handle, MarkProcessing, SelectRow, RejectEarly, SelectChunks,
           DeleteChunks, InsertChunks, Insert, MarkDone, Bump, Fail, MarkFailed,
           MarkFailedFails
      <3>1. CASE Bump(h)
        BY <3>1 DEF Bump, ChangesAnnounced
      <3>2. CASE DeleteChunks(h) \/ InsertChunks(h) \/ MarkDone(h)
        <4>1. handler'[h].pc \in Announcing
          BY <3>2 DEF DeleteChunks, InsertChunks, Insert, MarkDone, Announcing, TypeOK,
             Execution
        <4> QED
          BY <4>1 DEF ChangesAnnounced, Announcing
      <3>3. CASE Fail(h)
        <4>1. handler[h].pc \in Announcing => excused'
          BY <3>3 DEF Fail, Announcing
        <4>2. \A g \in Handler : g # h => handler'[g] = handler[g]
          BY <3>3 DEF Fail, TypeOK
        <4>3. UNCHANGED unbumped /\ (excused => excused')
          BY <3>3 DEF Fail
        <4> QED
          BY <3>0, <4>1, <4>2, <4>3 DEF ChangesAnnounced, Announcing
      <3>4. CASE ~(Bump(h) \/ DeleteChunks(h) \/ InsertChunks(h) \/ MarkDone(h) \/ Fail(h))
        <4>1. handler[h].pc \notin Announcing /\ UNCHANGED <<unbumped, excused>>
          BY <2>5, <3>4 DEF Handle, MarkProcessing, SelectRow, RejectEarly, SelectChunks,
             MarkFailed, MarkFailedFails, Announcing
        <4>2. \A g \in Handler : g # h => handler'[g] = handler[g]
          BY <2>5, <3>4 DEF Handle, MarkProcessing, SelectRow, RejectEarly, SelectChunks,
             MarkFailed, MarkFailedFails, Throw, TypeOK
        <4> QED
          BY <3>0, <4>1, <4>2 DEF ChangesAnnounced, Announcing
      <3> QED
        BY <3>1, <3>2, <3>3, <3>4
    <2> QED
      BY <2>1, <2>2, <2>3, <2>4, <2>5 DEF Next
  <1> QED
    BY <1>1, <1>2, IngestTypeCorrect, PTL DEF Spec

-----------------------------------------------------------------------------
(* Uploaded documents. *)

Target == Content[1]

(* Nothing is queued or running before the row exists. *)
AbsentInv ==
  row.status = "absent" =>
    caller = "idle" /\ job.state = "none" /\ \A h \in Handler : handler[h] = Idle

(* An uploaded document keeps its one storage key, so no handler ever deletes *)
(* a chunk of it: what a handler has seen stays, and what it adds completes   *)
(* the chunks of the file.                                                    *)
UploadInv ==
  origin = "upload" =>
    /\ row.key = 1 /\ \A h \in Handler : handler[h].key = 1
    /\ Hashes \subseteq Target
    /\ Present =>
         /\ \A h \in Handler : handler[h].seen \subseteq chunks
         /\ \A h \in Handler : handler[h].pc \in {"done", "bump"} => Target \subseteq Hashes
         /\ row.status = "done" => Target \subseteq Hashes

(* The chunks of a present upload only grow. *)
LEMMA UploadSteps ==
  ASSUME TypeOK, UploadInv, NoChunksOfDeleted, [Next]_vars, origin = "upload"
  PROVE  /\ origin' = "upload" /\ row'.key = 1
         /\ \A h \in Handler : handler'[h].key = 1
         /\ Present /\ Present' => chunks \subseteq chunks'
  <1>1. origin' = "upload"
    BY DEF Next, vars, Call, Create, Recrawl, LinkJob, LinkJobFails, AddJob,
       AddJobFails, AddFailed, Remove, SelectToRemove, DeleteRow, DeleteRowFails,
       BumpRemoved, Reconcile, Boot, ReconcileGetJob, ReconcileFail, Crash, StallDead,
       TakeJob, TimeOut, StallAlive, Handle, MarkProcessing, SelectRow, RejectEarly,
       SelectChunks, DeleteChunks, InsertChunks, Insert, MarkDone, Bump, Fail,
       MarkFailed, MarkFailedFails
  <1>2. row'.key = row.key
    <2>1. row' = row \/ (\E s \in Status : row' = StatusSet(s))
          \/ (\E s : row' = [row EXCEPT !.status = s])
          \/ (\E s : row' = [row EXCEPT !.status = s, !.linked = TRUE])
      BY DEF Next, vars, Call, Create, Recrawl, LinkJob, LinkJobFails, AddJob,
         AddJobFails, AddFailed, Remove, SelectToRemove, DeleteRow, DeleteRowFails,
         BumpRemoved, Reconcile, Boot, ReconcileGetJob, ReconcileFail, Crash, StallDead,
         TakeJob, TimeOut, StallAlive, Handle, MarkProcessing, SelectRow, RejectEarly,
         SelectChunks, DeleteChunks, InsertChunks, Insert, MarkDone, Bump, Fail,
         MarkFailed, MarkFailedFails, Status, Open
    <2>2. row \in Row
      BY DEF TypeOK
    <2> QED
      BY <2>1, <2>2, StatusSetRow DEF Row
  <1>3. \A h \in Handler : handler'[h].key = 1
    <2>1. CASE UNCHANGED handler
      BY <2>1 DEF UploadInv
    <2>2. CASE Crash
      BY <2>2, IdleExecution DEF Crash
    <2>3. ASSUME NEW h \in Handler,
                 TakeJob(h) \/ RejectEarly(h) \/ Bump(h) \/ MarkFailed(h) \/ MarkFailedFails(h)
          PROVE  \A g \in Handler : handler'[g].key = 1
      BY <2>3, IdleExecution DEF TakeJob, RejectEarly, Bump, MarkFailed,
         MarkFailedFails, Throw, TypeOK, UploadInv, Idle
    <2>4. ASSUME NEW h \in Handler, SelectRow(h)
          PROVE  \A g \in Handler : handler'[g].key = 1
      BY <2>4 DEF SelectRow, TypeOK, Execution, UploadInv
    <2>5. ASSUME NEW h \in Handler,
                 TimeOut(h) \/ StallAlive(h) \/ MarkProcessing(h) \/ SelectChunks(h)
                 \/ DeleteChunks(h) \/ InsertChunks(h) \/ MarkDone(h) \/ Fail(h)
          PROVE  \A g \in Handler : handler'[g].key = 1
      BY <2>5 DEF TimeOut, StallAlive, MarkProcessing, SelectChunks, DeleteChunks,
         InsertChunks, Insert, MarkDone, Fail, TypeOK, Execution, UploadInv
    <2>6. CASE Call \/ Remove \/ Reconcile \/ StallDead
      BY <2>6, <2>1 DEF Call, Create, Recrawl, LinkJob, LinkJobFails, AddJob,
         AddJobFails, AddFailed, Remove, SelectToRemove, DeleteRow, DeleteRowFails,
         BumpRemoved, Reconcile, Boot, ReconcileGetJob, ReconcileFail, StallDead
    <2> QED
      BY <2>1, <2>2, <2>3, <2>4, <2>5, <2>6 DEF Next, Handle, vars
  <1>4. ASSUME Present, Present' PROVE chunks \subseteq chunks'
    <2>1. ASSUME NEW h \in Handler, DeleteChunks(h) PROVE chunks' = chunks
      <3>1. handler[h].key = 1 /\ \A c \in handler[h].seen : c \in chunks
        BY <1>4 DEF UploadInv
      <3>2. \A c \in chunks : c.hash \in Target
        BY DEF UploadInv, Hashes
      <3> QED
        BY <2>1, <3>1, <3>2 DEF DeleteChunks, Target
    <2>2. ASSUME NEW h \in Handler, InsertChunks(h) PROVE chunks \subseteq chunks'
      BY <2>2 DEF InsertChunks, Insert
    <2>3. CASE DeleteRow
      BY <1>4, <2>3 DEF DeleteRow, Present, Status, Open, TypeOK, Row
    <2>4. chunks' = chunks \/ DeleteRow
          \/ \E h \in Handler : DeleteChunks(h) \/ InsertChunks(h)
      BY DEF Next, vars, Call, Create, Recrawl, LinkJob, LinkJobFails, AddJob,
         AddJobFails, AddFailed, Remove, SelectToRemove, DeleteRowFails,
         BumpRemoved, Reconcile, Boot, ReconcileGetJob, ReconcileFail, Crash, StallDead,
         TakeJob, TimeOut, StallAlive, Handle, MarkProcessing, SelectRow, RejectEarly,
         SelectChunks, MarkDone, Bump, Fail, MarkFailed, MarkFailedFails
    <2> QED
      BY <2>1, <2>2, <2>3, <2>4
  <1> QED
    BY <1>1, <1>2, <1>3, <1>4 DEF UploadInv

LEMMA AbsentNext == TypeOK /\ AbsentInv /\ [Next]_vars => AbsentInv'
  <1> SUFFICES ASSUME TypeOK, AbsentInv, [Next]_vars, row'.status = "absent"
               PROVE  AbsentInv'
    BY DEF AbsentInv
  <1>1. row.status = "absent"
    <2>1. row \in Row
      BY DEF TypeOK
    <2>2. row' = row \/ (\E s \in Status : row' = StatusSet(s))
          \/ (\E s \in Status \cup {"deleted"} : \/ row' = [row EXCEPT !.status = s]
                                 \/ row' = [row EXCEPT !.status = s, !.key = @ + 1]
                                 \/ row' = [row EXCEPT !.status = s, !.linked = TRUE])
      BY DEF Next, vars, Call, Create, Recrawl, LinkJob, LinkJobFails, AddJob,
         AddJobFails, AddFailed, Remove, SelectToRemove, DeleteRow, DeleteRowFails,
         BumpRemoved, Reconcile, Boot, ReconcileGetJob, ReconcileFail, Crash, StallDead,
         TakeJob, TimeOut, StallAlive, Handle, MarkProcessing, SelectRow, RejectEarly,
         SelectChunks, DeleteChunks, InsertChunks, Insert, MarkDone, Bump, Fail,
         MarkFailed, MarkFailedFails, Status, Open
    <2>3. \A s \in Status \cup {"deleted"} : s # "absent"
      BY DEF Status, Open
    <2>4. ASSUME NEW st \in Status, row' = StatusSet(st) PROVE row' = row
      <3>1. Present => row'.status = st
        BY <2>4, StatusSetRow
      <3>2. st # "absent"
        BY <2>3
      <3> QED
        BY <2>4, <3>1, <3>2, StatusSetRow
    <2>5. ASSUME NEW st \in Status \cup {"deleted"},
                 \/ row' = [row EXCEPT !.status = st]
                 \/ row' = [row EXCEPT !.status = st, !.key = @ + 1]
                 \/ row' = [row EXCEPT !.status = st, !.linked = TRUE]
          PROVE  FALSE
      <3>1. row'.status = st
        BY <2>1, <2>5 DEF Row
      <3> QED
        BY <2>3, <3>1
    <2> QED
      BY <2>2, <2>4, <2>5
  <1>2. ~Present /\ caller = "idle" /\ job.state = "none"
        /\ \A h \in Handler : handler[h] = Idle
    BY <1>1 DEF AbsentInv, Present, Status, Open
  <1>3. CASE Call
    BY <1>1, <1>2, <1>3 DEF Call, Create, Recrawl, LinkJob, LinkJobFails, AddJob,
       AddJobFails, AddFailed, TypeOK, Row
  <1>4. CASE Remove \/ Reconcile \/ UNCHANGED vars
    BY <1>2, <1>4 DEF Remove, SelectToRemove, DeleteRow, DeleteRowFails,
       BumpRemoved, Reconcile, Boot, ReconcileGetJob, ReconcileFail, vars, AbsentInv
  <1>5. CASE Crash
    BY <1>2, <1>5 DEF Crash, AbsentInv
  <1>6. CASE StallDead \/ \E h \in Handler : TakeJob(h) \/ TimeOut(h) \/ StallAlive(h)
    BY <1>2, <1>6, IdleExecution DEF StallDead, TakeJob, TimeOut, StallAlive
  <1>7. ASSUME NEW h \in Handler, Handle(h) PROVE FALSE
    BY <1>2, <1>7, IdleExecution DEF Handle, MarkProcessing, SelectRow, RejectEarly,
       SelectChunks, DeleteChunks, InsertChunks, Insert, MarkDone, Bump, Fail,
       MarkFailed, MarkFailedFails
  <1> QED
    BY <1>3, <1>4, <1>5, <1>6, <1>7 DEF Next

LEMMA UploadNext ==
  TypeOK /\ AbsentInv /\ NoChunksOfDeleted /\ UploadInv /\ [Next]_vars => UploadInv'
  <1> SUFFICES ASSUME TypeOK, AbsentInv, NoChunksOfDeleted, UploadInv, [Next]_vars,
                      origin' = "upload"
               PROVE  UploadInv'
    BY DEF UploadInv
  <1>0. origin = "upload"
    BY DEF Next, vars, Call, Create, Recrawl, LinkJob, LinkJobFails, AddJob,
       AddJobFails, AddFailed, Remove, SelectToRemove, DeleteRow, DeleteRowFails,
       BumpRemoved, Reconcile, Boot, ReconcileGetJob, ReconcileFail, Crash, StallDead,
       TakeJob, TimeOut, StallAlive, Handle, MarkProcessing, SelectRow, RejectEarly,
       SelectChunks, DeleteChunks, InsertChunks, Insert, MarkDone, Bump, Fail,
       MarkFailed, MarkFailedFails
  <1>1. ASSUME NEW h \in Handler, InsertChunks(h)
        PROVE  /\ Hashes' \subseteq Target
               /\ Present => Target \subseteq Hashes'
    <2>1. PICK i \in Id :
            chunks' = chunks \cup {[hash |-> x, id |-> i] : x \in Target \ SeenHashes(h)}
      BY <1>0, <1>1 DEF InsertChunks, Insert, UploadInv, Target
    <2>2. \A x : x \in Hashes' <=> x \in Hashes \/ x \in Target \ SeenHashes(h)
      <3>1. \A x : x \in Hashes' <=> \E c \in chunks' : c.hash = x
        BY DEF Hashes
      <3>2. \A x : x \in Hashes <=> \E c \in chunks : c.hash = x
        BY DEF Hashes
      <3>3. \A x : [hash |-> x, id |-> i].hash = x
        OBVIOUS
      <3> DEFINE new == {[hash |-> x, id |-> i] : x \in Target \ SeenHashes(h)}
      <3>4. \A x : (\E c \in new : c.hash = x) <=> x \in Target \ SeenHashes(h)
        BY <3>3
      <3>5. \A c : c \in chunks' <=> c \in chunks \/ c \in new
        BY <2>1
      <3> HIDE DEF new
      <3> QED
        BY <3>1, <3>2, <3>4, <3>5
    <2>3. Hashes \subseteq Target /\ (Present => SeenHashes(h) \subseteq Hashes)
      BY <1>0 DEF UploadInv, SeenHashes, Hashes
    <2> QED
      BY <2>2, <2>3
  <1>2. Hashes' \subseteq Target
    <2>1. CASE chunks' \subseteq chunks
      BY <1>0, <2>1 DEF UploadInv, Hashes
    <2>2. CASE DeleteRow
      BY <2>2 DEF DeleteRow, Hashes
    <2> QED
      BY <1>1, <2>1, <2>2, ChunkSteps
  <1>3. ASSUME Present', ~Present
        PROVE  /\ \A h \in Handler : handler'[h] = Idle
               /\ row'.status # "done"
    <2>1. Create
      BY <1>3, ChunkSteps DEF InsertChunks, Insert, DeleteRow, Present, Status, Open,
         TypeOK, Row
    <2> QED
      BY <2>1 DEF Create, AbsentInv, TypeOK, Row
  <1>4. ASSUME Present', Present
        PROVE  /\ \A h \in Handler : handler'[h].seen \subseteq chunks'
               /\ \A h \in Handler :
                    handler'[h].pc \in {"done", "bump"} => Target \subseteq Hashes'
               /\ row'.status = "done" => Target \subseteq Hashes'
    <2>1. chunks \subseteq chunks' /\ Hashes \subseteq Hashes'
      BY <1>0, <1>4, UploadSteps DEF Hashes
    <2>2. ASSUME NEW h \in Handler
          PROVE  /\ handler'[h].seen \subseteq chunks'
                 /\ handler'[h].pc \in {"done", "bump"} => Target \subseteq Hashes'
      <3> DEFINE Ok == /\ handler'[h].seen \subseteq handler[h].seen
                          \/ handler'[h].seen \subseteq chunks
                       /\ handler'[h].pc \in {"done", "bump"} =>
                            handler[h].pc \in {"done", "bump"} \/ InsertChunks(h)
      <3>1. ASSUME handler'[h] \in {handler[h], Idle} PROVE Ok
        BY <3>1, IdleExecution
      <3>2. ASSUME NEW g \in Handler,
                   TakeJob(g) \/ RejectEarly(g) \/ Bump(g) \/ MarkFailed(g) \/ MarkFailedFails(g)
            PROVE  Ok
        <4>1. CASE TakeJob(g)
          <5> DEFINE e == [Idle EXCEPT !.pc = "mark", !.owns = TRUE]
          <5>1. e.pc = "mark" /\ e.seen = {}
            BY DEF Idle
          <5>2. handler' = [handler EXCEPT ![g] = e]
            BY <4>1 DEF TakeJob
          <5>3. handler'[h] \in {handler[h], e}
            BY <5>2 DEF TypeOK
          <5> HIDE DEF e
          <5> QED
            BY <3>1, <5>1, <5>3
        <4>2. CASE RejectEarly(g) \/ Bump(g) \/ MarkFailed(g) \/ MarkFailedFails(g)
          <5>1. handler'[h] \in {handler[h], Idle}
            BY <4>2 DEF RejectEarly, Bump, MarkFailed, MarkFailedFails, Throw, TypeOK
          <5> QED
            BY <3>1, <5>1
        <4> QED
          BY <3>2, <4>1, <4>2
      <3>3. ASSUME NEW g \in Handler,
                   TimeOut(g) \/ StallAlive(g) \/ MarkProcessing(g) \/ SelectRow(g)
                   \/ SelectChunks(g) \/ DeleteChunks(g) \/ InsertChunks(g)
                   \/ MarkDone(g) \/ Fail(g)
            PROVE  Ok
        <4>1. CASE g # h
          <5>1. handler'[h] = handler[h]
            BY <3>3, <4>1 DEF TimeOut, StallAlive, MarkProcessing, SelectRow,
               SelectChunks, DeleteChunks, InsertChunks, Insert, MarkDone, Fail, TypeOK
          <5> QED
            BY <3>1, <5>1
        <4>2. CASE g = h
          <5>1. handler[h] \in Execution
            BY DEF TypeOK
          <5>2. CASE TimeOut(h) \/ StallAlive(h)
            BY <5>1, <5>2 DEF TimeOut, StallAlive, TypeOK, Execution
          <5>3. CASE MarkProcessing(h) \/ DeleteChunks(h) \/ MarkDone(h) \/ SelectRow(h)
            BY <5>1, <5>3 DEF MarkProcessing, DeleteChunks, MarkDone, SelectRow,
               TypeOK, Execution
          <5>4. CASE SelectChunks(h)
            BY <5>1, <5>4 DEF SelectChunks, TypeOK, Execution
          <5>5. CASE InsertChunks(h)
            BY <5>1, <5>5 DEF InsertChunks, Insert, TypeOK, Execution
          <5>6. CASE Fail(h)
            BY <5>1, <5>6 DEF Fail, TypeOK, Execution
          <5> QED
            BY <3>3, <4>2, <5>2, <5>3, <5>4, <5>5, <5>6
        <4> QED
          BY <4>1, <4>2
      <3>4. ASSUME Call \/ Remove \/ Reconcile \/ StallDead \/ UNCHANGED vars
            PROVE  Ok
        BY <3>1, <3>4 DEF Call, Create, Recrawl, LinkJob, LinkJobFails, AddJob,
           AddJobFails, AddFailed, Remove, SelectToRemove, DeleteRow, DeleteRowFails,
           BumpRemoved, Reconcile, Boot, ReconcileGetJob, ReconcileFail, StallDead, vars
      <3>5. ASSUME Crash PROVE Ok
        BY <3>1, <3>5 DEF Crash
      <3>6. Ok
        BY <3>2, <3>3, <3>4, <3>5 DEF Next, Handle
      <3>7. handler[h].seen \subseteq chunks
        BY <1>0, <1>4 DEF UploadInv
      <3>8. handler[h].pc \in {"done", "bump"} => Target \subseteq Hashes
        BY <1>0, <1>4 DEF UploadInv
      <3> QED
        BY <1>1, <1>4, <2>1, <3>6, <3>7, <3>8
    <2>3. row'.status = "done" => row.status = "done" \/ \E h \in Handler : MarkDone(h)
      <3>1. \/ row' = row \/ \E s \in Status \cup {"deleted"} : s # "done" /\ row'.status = s
            \/ \E h \in Handler : MarkDone(h)
        <4>1. row \in Row
          BY DEF TypeOK
        <4>2. ASSUME NEW st \in {"pending", "processing", "failed"}
              PROVE  /\ StatusSet(st) = row \/ StatusSet(st).status = st
                     /\ st \in Status /\ st # "done"
          BY StatusSetRow DEF Status, Open
        <4>3. CASE Call \/ Remove
          BY <4>1, <4>2, <4>3 DEF Call, Create, Recrawl, LinkJob, LinkJobFails,
             AddJob, AddJobFails, AddFailed, Remove, SelectToRemove, DeleteRow,
             DeleteRowFails, BumpRemoved, Row
        <4>4. CASE Reconcile
          BY <4>2, <4>4 DEF Reconcile, Boot, ReconcileGetJob, ReconcileFail
        <4>5. CASE Crash \/ StallDead \/ UNCHANGED vars
          BY <4>5 DEF Crash, StallDead, vars
        <4>6. ASSUME NEW h \in Handler,
                     TakeJob(h) \/ TimeOut(h) \/ StallAlive(h)
                     \/ (Handle(h) /\ ~MarkDone(h))
              PROVE  \/ row' = row
                     \/ \E s \in {"pending", "processing", "failed"} : row' = StatusSet(s)
          BY <4>6 DEF TakeJob, TimeOut, StallAlive, Handle, MarkProcessing, SelectRow,
             RejectEarly, SelectChunks, DeleteChunks, InsertChunks, Insert, Bump, Fail,
             MarkFailed, MarkFailedFails
        <4> QED
          BY <4>2, <4>3, <4>4, <4>5, <4>6 DEF Next
      <3> QED
        BY <3>1
    <2>4. (\E h \in Handler : MarkDone(h)) => Target \subseteq Hashes'
      BY <1>0, <1>4, <2>1 DEF MarkDone, UploadInv
    <2> QED
      BY <1>0, <1>4, <2>1, <2>2, <2>3, <2>4 DEF UploadInv
  <1> QED
    BY <1>0, <1>2, <1>3, <1>4, UploadSteps, IdleExecution DEF UploadInv

(* An uploaded document that says "done" is retrievable as exactly the chunks *)
(* of its file: no retry, timeout, overlap of handlers, crash or boot         *)
(* reconciliation leaves it "done" with a chunk missing or a foreign one.     *)
THEOREM UploadIndexed == Spec => []UploadDoneIsIndexed
  <1>1. Init => AbsentInv /\ UploadInv
    BY IdleExecution DEF Init, AbsentInv, UploadInv, Hashes, Present, Status, Open, NoJob
  <1>2. Spec => [](AbsentInv /\ UploadInv)
    BY <1>1, AbsentNext, UploadNext, IngestTypeCorrect, DeletedUnretrievable, PTL DEF Spec
  <1>3. UploadInv => UploadDoneIsIndexed
    BY DEF UploadInv, UploadDoneIsIndexed, Present, Status, Target
  <1> QED
    BY <1>2, <1>3, PTL
-----------------------------------------------------------------------------
(* The cache of answers (ChatCache).                                         *)

(* The inductive invariant. Each version number is given, in "floor", the    *)
(* corpus that its answers must reflect. The bumps only ever raise it, so a  *)
(* row is safe under the version it was captured for and a request may use   *)
(* any version read after it started.                                        *)

(* floor is a monotone history of the version key. *)
FloorInv ==
  /\ floor[0] = Nothing
  /\ \A v \in Version : v > version => floor[v] = Nothing
  /\ invalidated = floor[version]
  /\ Covers(corpus, invalidated)
  /\ \A u, v \in Version : u <= v /\ v <= version => Covers(floor[v], floor[u])

(* A healthy row was captured under a version already reached. *)
RowInv ==
  \A r \in rows :
    r.healthy => r.version <= version /\ Covers(r.based, floor[r.version])

Retrieving == {"readDocuments", "readTickets", "generated", "storeSet", "saveRow"}

(* A version in a request's hands was reached after the request started. *)
Reached(q, v) == v <= version /\ Covers(floor[v], req[q].since)

RequestInv(q) ==
  /\ Covers(invalidated, req[q].since)
  /\ req[q].boot => req[q].pc \in VersionCall /\ req[q].since = Nothing
  /\ req[q].pc = "semanticGet" => Reached(q, req[q].got)
  /\ req[q].pc \in Retrieving => Reached(q, req[q].captured)
  /\ req[q].pc \in Retrieving \ {"readDocuments"}
       => floor[req[q].captured]["documents"] <= req[q].based["documents"]
  /\ req[q].pc \in Retrieving \ {"readDocuments", "readTickets"}
       => Covers(req[q].based, floor[req[q].captured])
  /\ req[q].origin \in {"semantic", "miss"} => Covers(req[q].based, req[q].since)
  /\ req[q].origin # "none" => req[q].pc \in {"promoteVersion", "promoteSet", "done",
                                            "generated", "storeSet", "saveRow"}

RequestsInv == \A q \in Query : req[q].healthy => RequestInv(q)

IInv == CacheTypeOK /\ FloorInv /\ RowInv /\ RequestsInv

-----------------------------------------------------------------------------
(* Covers is a preorder on revisions. *)
LEMMA CoversReflexive == \A a \in Revision : Covers(a, a)
  BY BoundAssumption DEF Covers, Revision

LEMMA CoversTransitive ==
  ASSUME NEW a \in Revision, NEW b \in Revision, NEW c \in Revision,
         Covers(a, b), Covers(b, c)
  PROVE  Covers(a, c)
  BY BoundAssumption DEF Covers, Revision

LEMMA CoversNothing == Nothing \in Revision /\ \A a \in Revision : Covers(a, Nothing)
  BY BoundAssumption DEF Covers, Revision, Nothing

(* A version call always has a next phase. *)
LEMMA AfterVersionType == \A p \in VersionCall : AfterVersion(p) \in Phase
  BY DEF VersionCall, AfterVersion, Phase

LEMMA ReturnType ==
  ASSUME NEW r \in Request, r.pc \in VersionCall, NEW v \in Version
  PROVE  Return(r, v) \in Request /\ [Return(r, v) EXCEPT !.healthy = FALSE] \in Request
  BY AfterVersionType DEF Return, Request

LEMMA AskedType ==
  ASSUME NEW k \in Question, NEW b \in Revision
  PROVE  Asked(k, b) \in Request
  BY CoversNothing, BoundAssumption DEF Asked, Request, Phase, VersionCall, Version

LEMMA EndedType ==
  ASSUME NEW r \in Request PROVE Ended(r) \in Request /\ AfterSet(r) \in Request
  <1>1. 0 \in Version /\ "done" \in Phase /\ "saveRow" \in Phase
    BY BoundAssumption DEF Version, Phase
  <1>2. Ended(r) \in Request
    BY <1>1 DEF Ended, Request
  <1>3. [r EXCEPT !.pc = "saveRow", !.got = 0] \in Request
    BY <1>1 DEF Request
  <1> QED
    BY <1>2, <1>3 DEF AfterSet

-----------------------------------------------------------------------------
(* Every reachable state is well typed: the key, both layers, the corpus,    *)
(* the writers and every request stay within their sets.                     *)
LEMMA InitTypeOK == CacheInit => CacheTypeOK
  <1> SUFFICES ASSUME CacheInit PROVE CacheTypeOK
    OBVIOUS
  <1>1. AnyQuestion \in Question
    BY QuestionAssumption DEF AnyQuestion
  <1>2. Ended(Asked(AnyQuestion, Nothing)) \in Request
    BY <1>1, AskedType, EndedType, CoversNothing
  <1> QED
    BY <1>2, CoversNothing, BoundAssumption DEF CacheInit, CacheTypeOK, Version

LEMMA WriterTypeOK ==
  ASSUME CacheTypeOK, NEW w \in Writer, WriterStep(w) PROVE CacheTypeOK'
  <1>1. ASSUME NEW s \in Source, ChangeChunks(w, s) PROVE CacheTypeOK'
    <2>1. corpus' \in Revision
      BY <1>1, BoundAssumption DEF ChangeChunks, CacheTypeOK, Revision, Source
    <2> QED
      BY <1>1, <2>1 DEF ChangeChunks, CacheTypeOK
  <1>2. CASE BumpVersion(w)
    BY <1>2, BoundAssumption DEF BumpVersion, CacheTypeOK, Version
  <1>3. CASE LoseBump(w)
    BY <1>3 DEF LoseBump, CacheTypeOK
  <1> QED
    BY <1>1, <1>2, <1>3 DEF WriterStep

LEMMA QueryTypeOK ==
  ASSUME CacheTypeOK, NEW q \in Query, QueryStep(q) PROVE CacheTypeOK'
  <1> DEFINE r == req[q]
  <1>0. r \in Request /\ 1 \in Version
    BY BoundAssumption DEF CacheTypeOK, Version
  <1>1. CASE GetVersion(q)
    <2>1. [r EXCEPT !.boot = TRUE] \in Request
      BY <1>0 DEF Request
    <2>2. Return(r, version) \in Request
      BY <1>0, <1>1, ReturnType DEF GetVersion, CacheTypeOK
    <2> QED
      BY <1>1, <2>1, <2>2 DEF GetVersion, CacheTypeOK
  <1>2. CASE BootstrapVersion(q)
    <2>1. Return(r, 1) \in Request
      BY <1>0, <1>2, ReturnType DEF BootstrapVersion
    <2>2. version' \in Version
      BY <1>0, <1>2 DEF BootstrapVersion, CacheTypeOK
    <2> QED
      BY <1>2, <2>1, <2>2 DEF BootstrapVersion, CacheTypeOK
  <1>3. CASE GetVersionFails(q)
    <2>1. [Return(r, 1) EXCEPT !.healthy = FALSE] \in Request
      BY <1>0, <1>3, ReturnType DEF GetVersionFails
    <2> QED
      BY <1>3, <2>1 DEF GetVersionFails, CacheTypeOK
  <1>4. ASSUME NEW k \in Question, Ask(q, k) PROVE CacheTypeOK'
    <2>1. Asked(k, invalidated) \in Request
      BY AskedType DEF CacheTypeOK
    <2> QED
      BY <1>4, <2>1 DEF Ask, CacheTypeOK
  <1>5. CASE ExactHit(q)
    <2>1. PICK b \in exact[<<r.question, r.got>>] :
            req' = [req EXCEPT ![q] =
                      Ended([r EXCEPT !.origin = "exact", !.based = b])]
      BY <1>5 DEF ExactHit
    <2>2. b \in Revision
      BY <1>0, <2>1 DEF CacheTypeOK, Request
    <2>3. [r EXCEPT !.origin = "exact", !.based = b] \in Request
      BY <1>0, <2>2 DEF Request
    <2>4. Ended([r EXCEPT !.origin = "exact", !.based = b]) \in Request
      BY <2>3, EndedType
    <2> QED
      BY <1>5, <2>1, <2>4 DEF ExactHit, CacheTypeOK
  <1>6. CASE ExactMiss(q)
    <2>1. [r EXCEPT !.pc = "semanticVersion"] \in Request
      BY <1>0 DEF Request, Phase, VersionCall
    <2> QED
      BY <1>6, <2>1 DEF ExactMiss, CacheTypeOK
  <1>7. CASE SemanticHit(q)
    <2>1. PICK hit \in rows :
            req' = [req EXCEPT ![q] = [r EXCEPT !.pc = "promoteVersion",
                      !.origin = "semantic", !.based = hit.based,
                      !.healthy = r.healthy /\ hit.healthy]]
      BY <1>7 DEF SemanticHit
    <2>2. hit \in CachedRow
      BY DEF CacheTypeOK
    <2>3. (r.healthy /\ hit.healthy) \in BOOLEAN
      OBVIOUS
    <2>4. [r EXCEPT !.pc = "promoteVersion", !.origin = "semantic",
            !.based = hit.based, !.healthy = r.healthy /\ hit.healthy] \in Request
      BY <1>0, <2>2, <2>3 DEF Request, CachedRow, Phase, VersionCall
    <2> QED
      BY <1>7, <2>1, <2>4 DEF SemanticHit, CacheTypeOK
  <1>8. CASE SemanticMiss(q)
    <2>1. [r EXCEPT !.pc = "captureVersion"] \in Request
      BY <1>0 DEF Request, Phase, VersionCall
    <2> QED
      BY <1>8, <2>1 DEF SemanticMiss, CacheTypeOK
  <1>9. CASE ReadDocuments(q)
    <2>1. [r.based EXCEPT !["documents"] = corpus["documents"]] \in Revision
      BY <1>0 DEF CacheTypeOK, Request, Revision, Source
    <2>2. [r EXCEPT !.pc = "readTickets",
            !.based = [r.based EXCEPT !["documents"] = corpus["documents"]]] \in Request
      BY <1>0, <2>1 DEF Request, Phase
    <2> QED
      BY <1>9, <2>2 DEF ReadDocuments, CacheTypeOK
  <1>10. CASE ReadTickets(q)
    <2>1. [r.based EXCEPT !["tickets"] = corpus["tickets"]] \in Revision
      BY <1>0 DEF CacheTypeOK, Request, Revision, Source
    <2>2. [r EXCEPT !.pc = "generated", !.origin = "miss",
            !.based = [r.based EXCEPT !["tickets"] = corpus["tickets"]]] \in Request
      BY <1>0, <2>1 DEF Request, Phase, VersionCall
    <2> QED
      BY <1>10, <2>2 DEF ReadTickets, CacheTypeOK
  <1>11. CASE Rewrite(q)
    <2>1. [r EXCEPT !.pc = "readDocuments", !.origin = "none"] \in Request
      BY <1>0 DEF Request, Phase
    <2> QED
      BY <1>11, <2>1 DEF Rewrite, CacheTypeOK
  <1>12. CASE EndUncached(q)
    BY <1>0, <1>12, EndedType DEF EndUncached, CacheTypeOK
  <1>13. CASE SetExact(q)
    <2>1. {r.based} \in SUBSET Revision
      BY <1>0 DEF Request
    <2>2. exact' \in [Question \X Version -> SUBSET Revision]
      BY <1>13, <2>1 DEF SetExact, CacheTypeOK
    <2> QED
      BY <1>0, <1>13, <2>2, EndedType DEF SetExact, CacheTypeOK
  <1>14. CASE SetExactFails(q)
    BY <1>0, <1>14, EndedType DEF SetExactFails, CacheTypeOK
  <1>15. CASE SaveSemantic(q)
    <2>1. NewRow(r) \in CachedRow
      BY <1>0 DEF NewRow, CachedRow, Request
    <2> QED
      BY <1>0, <1>15, <2>1, EndedType DEF SaveSemantic, CacheTypeOK
  <1>16. CASE SaveSemanticFails(q)
    BY <1>0, <1>16, EndedType DEF SaveSemanticFails, CacheTypeOK
  <1> QED
    BY <1>1, <1>2, <1>3, <1>4, <1>5, <1>6, <1>7, <1>8, <1>9, <1>10, <1>11,
       <1>12, <1>13, <1>14, <1>15, <1>16 DEF QueryStep

LEMMA NextTypeOK == CacheTypeOK /\ [CacheNext]_cacheVars => CacheTypeOK'
  <1>1. CacheTypeOK /\ CacheNext => CacheTypeOK'
    BY WriterTypeOK, QueryTypeOK DEF CacheNext
  <1>2. CacheTypeOK /\ UNCHANGED cacheVars => CacheTypeOK'
    BY DEF CacheTypeOK, cacheVars
  <1> QED
    BY <1>1, <1>2

THEOREM TypeCorrect == CacheSpec => []CacheTypeOK
  BY InitTypeOK, NextTypeOK, PTL DEF CacheSpec

-----------------------------------------------------------------------------
(* What any step may do to the shared history: the key never goes back, the  *)
(* floor of a version already reached is fixed, and what has been committed  *)
(* or invalidated stays so.                                                  *)
Progress ==
  /\ version <= version'
  /\ \A v \in Version : v <= version => floor'[v] = floor[v]
  /\ Covers(invalidated', invalidated)
  /\ Covers(corpus', corpus)

LEMMA StillProgress ==
  ASSUME CacheTypeOK, UNCHANGED <<version, corpus, invalidated, floor>>
  PROVE  Progress
  BY CoversReflexive, BoundAssumption DEF CacheTypeOK, Progress, Version

LEMMA StillFloorInv ==
  ASSUME FloorInv, UNCHANGED <<version, corpus, invalidated, floor>>
  PROVE  FloorInv'
  BY DEF FloorInv, Covers

LEMMA WriterFloor ==
  ASSUME CacheTypeOK, FloorInv, NEW w \in Writer, WriterStep(w)
  PROVE  Progress /\ FloorInv'
  <1>1. ASSUME NEW s \in Source, ChangeChunks(w, s) PROVE Progress /\ FloorInv'
    <2>1. Covers(corpus', corpus)
      BY <1>1, BoundAssumption DEF ChangeChunks, CacheTypeOK, Revision, Covers
    <2>2. corpus' \in Revision /\ corpus \in Revision /\ invalidated \in Revision
      BY <1>1, WriterTypeOK DEF CacheTypeOK, WriterStep
    <2>3. Covers(corpus', invalidated)
      BY <2>1, <2>2, CoversTransitive DEF FloorInv
    <2>4. Progress
      BY <1>1, <2>1, CoversReflexive, BoundAssumption
         DEF ChangeChunks, Progress, CacheTypeOK, Version
    <2>5. FloorInv'
      BY <1>1, <2>3 DEF ChangeChunks, FloorInv, Covers
    <2> QED
      BY <2>4, <2>5
  <1>2. CASE BumpVersion(w)
    <2>1. /\ version \in Nat /\ version + 1 \in Version /\ version' = version + 1
          /\ floor' = [floor EXCEPT ![version + 1] = corpus]
          /\ invalidated' = corpus /\ corpus' = corpus
      BY <1>2, BoundAssumption DEF BumpVersion, CacheTypeOK, Version
    <2>2. \A v \in Version : v <= version => floor'[v] = floor[v]
      BY <2>1, BoundAssumption DEF CacheTypeOK, Version
    <2>3. floor'[version'] = corpus
      BY <2>1 DEF CacheTypeOK
    <2>4. Covers(corpus, corpus)
      BY CoversReflexive DEF CacheTypeOK
    <2>5. Progress
      BY <2>1, <2>2, <2>4 DEF Progress, FloorInv
    <2>6. \A u \in Version : u <= version' => Covers(floor'[version'], floor'[u])
      <3> SUFFICES ASSUME NEW u \in Version, u <= version
                   PROVE  Covers(corpus, floor[u])
        BY <2>1, <2>2, <2>3, <2>4, BoundAssumption DEF Version
      <3>1. Covers(floor[version], floor[u])
        BY BoundAssumption DEF FloorInv, CacheTypeOK, Version
      <3>2. floor[version] \in Revision /\ floor[u] \in Revision /\ corpus \in Revision
        BY DEF CacheTypeOK
      <3> QED
        BY <3>1, <3>2, CoversTransitive DEF FloorInv
    <2>7. \A u, v \in Version :
            u <= v /\ v <= version' => Covers(floor'[v], floor'[u])
      <3> SUFFICES ASSUME NEW u \in Version, NEW v \in Version, u <= v, v <= version'
                   PROVE  Covers(floor'[v], floor'[u])
        OBVIOUS
      <3>1. CASE v = version'
        BY <3>1, <2>6
      <3>2. CASE v # version'
        <4>1. v <= version /\ u <= version
          BY <2>1, <3>2, BoundAssumption DEF Version
        <4>2. Covers(floor[v], floor[u])
          BY <4>1 DEF FloorInv
        <4> QED
          BY <4>1, <4>2, <2>2
      <3> QED
        BY <3>1, <3>2
    <2>8. floor'[0] = Nothing
      BY <2>1, <2>2, BoundAssumption DEF FloorInv, Version
    <2>9. Covers(corpus', invalidated')
      BY <2>1, <2>4
    <2>10. invalidated' = floor'[version']
      BY <2>1, <2>3
    <2>11. \A v \in Version : v > version' => floor'[v] = Nothing
      BY <2>1, BoundAssumption DEF FloorInv, CacheTypeOK, Version
    <2>12. FloorInv'
      BY <2>7, <2>8, <2>9, <2>10, <2>11 DEF FloorInv, Covers
    <2> QED
      BY <2>5, <2>12
  <1>3. CASE LoseBump(w)
    BY <1>3, StillProgress, StillFloorInv DEF LoseBump
  <1> QED
    BY <1>1, <1>2, <1>3 DEF WriterStep

(* Requests touch the history only by creating the key with value 1. *)
LEMMA BootstrapFloor ==
  ASSUME CacheTypeOK, FloorInv, NEW q \in Query, BootstrapVersion(q)
  PROVE  Progress /\ FloorInv'
  <1>1. UNCHANGED <<corpus, invalidated, floor>>
    BY DEF BootstrapVersion
  <1>2. CASE version = 0
    <2>1. version' = 1 /\ 0 \in Version /\ 1 \in Version
      BY <1>2, BoundAssumption DEF BootstrapVersion, Version
    <2>2. floor[0] = Nothing /\ floor[1] = Nothing /\ invalidated = Nothing
      BY <1>2, <2>1 DEF FloorInv
    <2>3. Progress
      BY <1>1, <1>2, <2>1, CoversReflexive DEF Progress, CacheTypeOK
    <2>4. \A u, v \in Version : u <= v /\ v <= 1 => Covers(floor[v], floor[u])
      <3> SUFFICES ASSUME NEW u \in Version, NEW v \in Version, u <= v, v <= 1
                   PROVE  Covers(floor[v], floor[u])
        OBVIOUS
      <3>1. u \in {0, 1} /\ v \in {0, 1}
        BY BoundAssumption DEF Version
      <3> QED
        BY <3>1, <2>2, CoversNothing
    <2>5. \A v \in Version : v > 1 => floor[v] = Nothing
      BY <1>2, BoundAssumption DEF FloorInv, Version
    <2>6. Covers(corpus, invalidated)
      BY DEF FloorInv
    <2> QED
      BY <1>1, <2>1, <2>2, <2>3, <2>4, <2>5, <2>6 DEF FloorInv, Covers
  <1>3. CASE version # 0
    BY <1>1, <1>3, StillProgress, StillFloorInv DEF BootstrapVersion
  <1> QED
    BY <1>2, <1>3

LEMMA QueryFloor ==
  ASSUME CacheTypeOK, FloorInv, NEW q \in Query, QueryStep(q)
  PROVE  Progress /\ FloorInv'
  <1>1. CASE BootstrapVersion(q)
    BY <1>1, BootstrapFloor
  <1>2. CASE ~BootstrapVersion(q)
    <2>1. UNCHANGED <<version, corpus, invalidated, floor>>
      BY <1>2 DEF QueryStep, GetVersion, GetVersionFails, Ask, ExactHit, ExactMiss,
         SemanticHit, SemanticMiss, ReadDocuments, ReadTickets, Rewrite, EndUncached,
         SetExact, SetExactFails, SaveSemantic, SaveSemanticFails
    <2> QED
      BY <2>1, StillProgress, StillFloorInv
  <1> QED
    BY <1>1, <1>2

LEMMA NextFloor ==
  ASSUME CacheTypeOK, FloorInv, [CacheNext]_cacheVars
  PROVE  Progress /\ FloorInv'
  <1>1. CASE UNCHANGED cacheVars
    BY <1>1, StillProgress, StillFloorInv DEF cacheVars
  <1>2. CASE CacheNext
    BY <1>2, WriterFloor, QueryFloor DEF CacheNext
  <1> QED
    BY <1>1, <1>2

-----------------------------------------------------------------------------
(* A row or a request that a step leaves alone keeps its invariant, because  *)
(* Progress fixes the floors it relies on.                                   *)
LEMMA RowsStay ==
  ASSUME CacheTypeOK, CacheTypeOK', RowInv, Progress, NEW r \in rows, r.healthy
  PROVE  r.version <= version' /\ Covers(r.based, floor'[r.version])
  <1>1. r.version \in Version /\ r.version <= version
    BY DEF CacheTypeOK, CachedRow, RowInv
  <1>2. version \in Version /\ version' \in Version /\ version <= version'
    BY DEF CacheTypeOK, Progress
  <1>3. floor'[r.version] = floor[r.version]
    BY <1>1 DEF Progress
  <1> QED
    BY <1>1, <1>2, <1>3, BoundAssumption DEF RowInv, Version

LEMMA ReachedStays ==
  ASSUME CacheTypeOK, CacheTypeOK', Progress, NEW q \in Query, NEW v \in Version,
         req'[q].since = req[q].since, Reached(q, v)
  PROVE  Reached(q, v)'
  <1>1. version \in Version /\ version' \in Version /\ version <= version'
    BY DEF CacheTypeOK, Progress
  <1>2. floor'[v] = floor[v]
    BY DEF Progress, Reached
  <1>3. v <= version'
    BY <1>1, BoundAssumption DEF Version, Reached
  <1> QED
    BY <1>2, <1>3 DEF Reached, Covers

LEMMA SinceStays ==
  ASSUME CacheTypeOK, CacheTypeOK', Progress, NEW q \in Query,
         req'[q].since = req[q].since, Covers(invalidated, req[q].since)
  PROVE  Covers(invalidated', req'[q].since)
  <1>1. invalidated \in Revision /\ invalidated' \in Revision /\ req[q].since \in Revision
    BY DEF CacheTypeOK, Request
  <1> QED
    BY <1>1, CoversTransitive DEF Progress

LEMMA RequestStays ==
  ASSUME CacheTypeOK, CacheTypeOK', Progress, NEW q \in Query, RequestInv(q), req'[q] = req[q]
  PROVE  RequestInv(q)'
  <1>1. Covers(invalidated', req'[q].since)
    BY SinceStays DEF RequestInv
  <1>2. req[q].got \in Version /\ req[q].captured \in Version
    BY DEF CacheTypeOK, Request
  <1>3. req[q].pc = "semanticGet" => Reached(q, req[q].got)'
    BY <1>2, ReachedStays DEF RequestInv
  <1>4. req[q].pc \in Retrieving => Reached(q, req[q].captured)'
    BY <1>2, ReachedStays DEF RequestInv
  <1>5. req[q].pc \in Retrieving => floor'[req[q].captured] = floor[req[q].captured]
    BY <1>2 DEF RequestInv, Reached, Progress
  <1> QED
    BY <1>1, <1>3, <1>4, <1>5 DEF RequestInv, Covers, Retrieving

-----------------------------------------------------------------------------
(* Rows: only saveSemantic adds one, under the version captured before the   *)
(* chunks it is based on were read.                                          *)
LEMMA NextRows ==
  ASSUME IInv, CacheTypeOK', [CacheNext]_cacheVars PROVE RowInv'
  <1> USE DEF IInv
  <1>0. Progress
    BY NextFloor
  <1>1. SUFFICES ASSUME NEW r \in rows', r.healthy
                 PROVE  r.version <= version' /\ Covers(r.based, floor'[r.version])
    BY DEF RowInv
  <1>2. CASE r \in rows
    BY <1>0, <1>1, <1>2, RowsStay
  <1>3. CASE r \notin rows
    <2>1. PICK q \in Query : SaveSemantic(q)
      BY <1>3 DEF CacheNext, cacheVars, WriterStep, ChangeChunks, BumpVersion, LoseBump, QueryStep,
         GetVersion, BootstrapVersion, GetVersionFails, Ask, ExactHit, ExactMiss,
         SemanticHit, SemanticMiss, ReadDocuments, ReadTickets, Rewrite, EndUncached,
         SetExact, SetExactFails, SaveSemanticFails
    <2>2. r = NewRow(req[q])
      BY <1>3, <2>1 DEF SaveSemantic
    <2>3. /\ r.version = req[q].captured /\ r.based = req[q].based
          /\ req[q].healthy /\ req[q].pc = "saveRow"
      BY <1>1, <2>1, <2>2 DEF NewRow, SaveSemantic
    <2>4. req[q].captured <= version /\ Covers(req[q].based, floor[req[q].captured])
      BY <2>3 DEF RequestsInv, RequestInv, Reached, Retrieving
    <2> QED
      BY <2>1, <2>3, <2>4 DEF SaveSemantic
  <1> QED
    BY <1>2, <1>3

(* What a version call gives back keeps the request's invariant. *)
LEMMA ReturnKeeps ==
  ASSUME NEW q \in Query, NEW v \in Version, req[q] \in Request,
         req[q].pc \in VersionCall, RequestInv(q),
         version \in Nat, version' \in Nat, version <= version', v <= version',
         version \in Version, Covers(floor[v], req[q].since),
         req'[q] = Return(req[q], v), UNCHANGED <<floor, invalidated>>
  PROVE  RequestInv(q)'
  <1> DEFINE r == req[q]
             r2 == req'[q]
  <1>1. /\ r2.pc = AfterVersion(r.pc) /\ ~r2.boot /\ r2.got = v /\ r2.since = r.since
        /\ r2.based = r.based /\ r2.origin = r.origin
        /\ r2.captured = IF r.pc = "captureVersion" THEN v ELSE r.captured
    BY DEF Return, Request
  <1>2. CASE r.pc = "captureVersion"
    BY <1>1, <1>2 DEF RequestInv, AfterVersion, Retrieving, Reached
  <1>3. CASE r.pc = "generated"
    <2>1. r.captured <= version'
      BY <1>3, BoundAssumption DEF RequestInv, Reached, Retrieving, Request, Version
    <2> QED
      BY <1>1, <1>3, <2>1 DEF RequestInv, AfterVersion, Retrieving, Reached
  <1>4. CASE r.pc \in {"exactVersion", "semanticVersion", "promoteVersion"}
    BY <1>1, <1>4 DEF RequestInv, AfterVersion, Retrieving, Reached
  <1> QED
    BY <1>2, <1>3, <1>4 DEF VersionCall

(* Requests: the request that moves, one action at a time. *)
LEMMA MovingRequest ==
  ASSUME IInv, CacheTypeOK', Progress, NEW q \in Query, QueryStep(q), req'[q].healthy
  PROVE  RequestInv(q)'
  <1> USE DEF IInv
  <1> DEFINE r == req[q]
  <1>0. /\ r \in Request /\ req'[q] \in Request /\ version \in Version
        /\ version' \in Version /\ invalidated \in Revision /\ corpus \in Revision
        /\ 1 \in Version /\ \A v \in Version : floor[v] \in Revision
    BY BoundAssumption DEF CacheTypeOK, Version
  <1>1. CASE GetVersion(q)
    <2>1. RequestInv(q) /\ UNCHANGED <<version, floor, invalidated>>
      BY <1>1 DEF GetVersion, RequestsInv, Return, CacheTypeOK
    <2>2. CASE version = 0
      <3>1. req'[q] = [r EXCEPT !.boot = TRUE]
        BY <1>1, <2>2 DEF GetVersion, CacheTypeOK
      <3>2. r.since = Nothing
        BY <1>0, <2>1, <2>2, BoundAssumption
           DEF RequestInv, FloorInv, Covers, Nothing, Revision, Request
      <3> QED
        BY <1>0, <1>1, <2>1, <3>1, <3>2
           DEF GetVersion, RequestInv, Request, Reached, Covers
    <2>3. CASE version # 0
      <3>1. req'[q] = Return(r, version)
        BY <1>1, <2>3 DEF GetVersion, CacheTypeOK
      <3>2. /\ Covers(floor[version], r.since) /\ version \in Nat
            /\ version' = version /\ version <= version
        BY <1>0, <2>1, BoundAssumption DEF RequestInv, FloorInv, Version
      <3> QED
        BY <1>0, <1>1, <2>1, <3>1, <3>2, ReturnKeeps DEF GetVersion
    <2> QED
      BY <2>2, <2>3
  <1>2. CASE BootstrapVersion(q)
    <2>1. req'[q] = Return(r, 1) /\ UNCHANGED <<floor, invalidated>>
      BY <1>2 DEF BootstrapVersion, CacheTypeOK
    <2>2. RequestInv(q)
      BY <1>0, <2>1 DEF RequestsInv, Return, Request
    <2>3. /\ 1 <= version' /\ version <= version'
          /\ version \in Nat /\ version' \in Nat
      BY <1>0, <1>2, BoundAssumption DEF BootstrapVersion, Version
    <2>4. r.since = Nothing
      BY <1>2, <2>2 DEF RequestInv, BootstrapVersion
    <2>5. Covers(floor[1], r.since)
      BY <1>0, <2>4, CoversNothing
    <2> QED
      BY <1>0, <1>2, <2>1, <2>2, <2>3, <2>5, ReturnKeeps DEF BootstrapVersion
  <1>3. CASE GetVersionFails(q)
    BY <1>0, <1>3 DEF GetVersionFails, CacheTypeOK, Return, Request
  <1>4. ASSUME NEW k \in Question, Ask(q, k) PROVE RequestInv(q)'
    <2>1. req'[q] = Asked(k, invalidated) /\ UNCHANGED <<version, floor, invalidated>>
      BY <1>4 DEF Ask, CacheTypeOK
    <2> QED
      BY <1>0, <2>1, CoversReflexive DEF Asked, RequestInv, Retrieving
  <1>5. ASSUME ~GetVersion(q), ~BootstrapVersion(q), ~GetVersionFails(q),
               ~\E k \in Question : Ask(q, k)
        PROVE  /\ RequestInv(q) /\ req'[q].since = r.since
               /\ UNCHANGED <<version, corpus, floor, invalidated>>
    <2>1. UNCHANGED <<version, corpus, floor, invalidated>>
      BY <1>5 DEF QueryStep, ExactHit, ExactMiss, SemanticHit, SemanticMiss,
         ReadDocuments, ReadTickets, Rewrite, EndUncached, SetExact, SetExactFails,
         SaveSemantic, SaveSemanticFails
    <2>2. r.healthy /\ req'[q].since = r.since
      <3>1. CASE ExactHit(q)
        <4>1. PICK b : req'[q] = Ended([r EXCEPT !.origin = "exact", !.based = b])
          BY <3>1 DEF ExactHit, CacheTypeOK
        <4> QED
          BY <1>0, <4>1 DEF Ended, Request
      <3>2. CASE SemanticHit(q)
        <4>1. PICK hit : req'[q] = [r EXCEPT !.pc = "promoteVersion",
                 !.origin = "semantic", !.based = hit.based,
                 !.healthy = r.healthy /\ hit.healthy]
          BY <3>2 DEF SemanticHit, CacheTypeOK
        <4> QED
          BY <1>0, <4>1 DEF Request
      <3>3. CASE ExactMiss(q)
        <4>1. req'[q] = [r EXCEPT !.pc = "semanticVersion"]
          BY <3>3 DEF ExactMiss, CacheTypeOK
        <4> QED
          BY <1>0, <4>1 DEF Request
      <3>4. CASE SemanticMiss(q)
        <4>1. req'[q] = [r EXCEPT !.pc = "captureVersion"]
          BY <3>4 DEF SemanticMiss, CacheTypeOK
        <4> QED
          BY <1>0, <4>1 DEF Request
      <3>5. CASE ReadDocuments(q)
        <4>1. req'[q] = [r EXCEPT !.pc = "readTickets",
                         !.based = [r.based EXCEPT !["documents"] = corpus["documents"]]]
          BY <3>5 DEF ReadDocuments, CacheTypeOK
        <4> QED
          BY <1>0, <4>1 DEF Request
      <3>6. CASE ReadTickets(q)
        <4>1. req'[q] = [r EXCEPT !.pc = "generated", !.origin = "miss",
                         !.based = [r.based EXCEPT !["tickets"] = corpus["tickets"]]]
          BY <3>6 DEF ReadTickets, CacheTypeOK
        <4> QED
          BY <1>0, <4>1 DEF Request
      <3>7. CASE Rewrite(q)
        <4>1. req'[q] = [r EXCEPT !.pc = "readDocuments", !.origin = "none"]
          BY <3>7 DEF Rewrite, CacheTypeOK
        <4> QED
          BY <1>0, <4>1 DEF Request
      <3>8. CASE EndUncached(q)
        <4>1. req'[q] = Ended(r)
          BY <3>8 DEF EndUncached, CacheTypeOK
        <4> QED
          BY <1>0, <4>1 DEF Ended, Request
      <3>9. CASE SaveSemantic(q)
        <4>1. req'[q] = Ended(r)
          BY <3>9 DEF SaveSemantic, CacheTypeOK
        <4> QED
          BY <1>0, <4>1 DEF Ended, Request
      <3>10. CASE SaveSemanticFails(q)
        <4>1. req'[q] = Ended(r)
          BY <3>10 DEF SaveSemanticFails, CacheTypeOK
        <4> QED
          BY <1>0, <4>1 DEF Ended, Request
      <3>11. CASE SetExact(q)
        <4>1. req'[q] = AfterSet(r)
          BY <3>11 DEF SetExact, CacheTypeOK
        <4> QED
          BY <1>0, <4>1 DEF AfterSet, Ended, Request
      <3>12. CASE SetExactFails(q)
        <4>1. req'[q] = AfterSet(r)
          BY <3>12 DEF SetExactFails, CacheTypeOK
        <4> QED
          BY <1>0, <4>1 DEF AfterSet, Ended, Request
      <3> QED
        BY <1>5, <3>1, <3>2, <3>3, <3>4, <3>5, <3>6,
           <3>7, <3>8, <3>9, <3>10, <3>11, <3>12 DEF QueryStep
    <2> QED
      BY <2>1, <2>2 DEF RequestsInv
  <1> DEFINE Other == ~GetVersion(q) /\ ~BootstrapVersion(q) /\ ~GetVersionFails(q)
                      /\ ~\E k \in Question : Ask(q, k)
  <1>6. CASE Other /\ ExactHit(q)
    <2>1. PICK b : req'[q] = Ended([r EXCEPT !.origin = "exact", !.based = b])
      BY <1>6 DEF ExactHit, CacheTypeOK
    <2>2. req'[q].pc = "done" /\ req'[q].origin = "exact" /\ req'[q].boot = r.boot
      BY <1>0, <2>1 DEF Ended, Request
    <2>3. r.pc = "exactGet"
      BY <1>6 DEF ExactHit
    <2> QED
      BY <1>5, <1>6, <2>2, <2>3 DEF RequestInv, Retrieving, VersionCall
  <1>7. CASE Other /\ ExactMiss(q)
    <2>1. req'[q] = [r EXCEPT !.pc = "semanticVersion"]
      BY <1>7 DEF ExactMiss, CacheTypeOK
    <2> QED
      BY <1>0, <1>5, <1>7, <2>1 DEF ExactMiss, RequestInv, VersionCall, Retrieving, Request
  <1>8. CASE Other /\ SemanticHit(q)
    <2>1. PICK hit \in rows : /\ hit.version = r.got
                             /\ req'[q] = [r EXCEPT !.pc = "promoteVersion",
                                   !.origin = "semantic", !.based = hit.based,
                                   !.healthy = r.healthy /\ hit.healthy]
      BY <1>8 DEF SemanticHit, CacheTypeOK
    <2>2. hit.healthy /\ r.pc = "semanticGet"
      BY <1>0, <1>8, <2>1 DEF SemanticHit, Request
    <2>3. Covers(hit.based, floor[r.got]) /\ Covers(floor[r.got], r.since)
      BY <1>5, <1>8, <2>1, <2>2 DEF RowInv, RequestInv, Reached
    <2>4. hit.based \in Revision /\ floor[r.got] \in Revision /\ r.since \in Revision
      BY <1>0 DEF CacheTypeOK, CachedRow, Request
    <2>5. Covers(hit.based, r.since)
      BY <2>3, <2>4, CoversTransitive
    <2> QED
      BY <1>0, <1>5, <1>8, <2>1, <2>2, <2>5
         DEF RequestInv, VersionCall, Retrieving, Request
  <1>9. CASE Other /\ SemanticMiss(q)
    <2>1. req'[q] = [r EXCEPT !.pc = "captureVersion"]
      BY <1>9 DEF SemanticMiss, CacheTypeOK
    <2> QED
      BY <1>0, <1>5, <1>9, <2>1
         DEF SemanticMiss, RequestInv, VersionCall, Retrieving, Request
  <1>10. ASSUME Other, r.pc \in Retrieving
         PROVE  /\ r.captured \in Version /\ Reached(q, r.captured)
                /\ Covers(corpus, floor[r.captured])
    <2>1. r.captured \in Version /\ Reached(q, r.captured)
      BY <1>0, <1>5, <1>10 DEF RequestInv, Request
    <2>2. Covers(floor[version], floor[r.captured])
      BY <1>0, <2>1, BoundAssumption DEF FloorInv, Reached, Version
    <2> QED
      BY <1>0, <2>1, <2>2, CoversTransitive DEF FloorInv
  <1>11. CASE Other /\ ReadDocuments(q)
    <2>1. req'[q] = [r EXCEPT !.pc = "readTickets",
                       !.based = [r.based EXCEPT !["documents"] = corpus["documents"]]]
      BY <1>11 DEF ReadDocuments, CacheTypeOK
    <2>2. r.pc = "readDocuments" /\ r.pc \in Retrieving
      BY <1>11 DEF ReadDocuments, Retrieving
    <2>3. floor[r.captured]["documents"] <= req'[q].based["documents"]
      BY <1>0, <1>10, <1>11, <2>1, <2>2 DEF Covers, Source, Request, Revision
    <2> QED
      BY <1>0, <1>5, <1>10, <1>11, <2>1, <2>2, <2>3
         DEF RequestInv, VersionCall, Retrieving, Request, Reached
  <1>12. CASE Other /\ ReadTickets(q)
    <2>1. req'[q] = [r EXCEPT !.pc = "generated", !.origin = "miss",
                       !.based = [r.based EXCEPT !["tickets"] = corpus["tickets"]]]
      BY <1>12 DEF ReadTickets, CacheTypeOK
    <2>2. r.pc = "readTickets" /\ r.pc \in Retrieving
      BY <1>12 DEF ReadTickets, Retrieving
    <2>3. floor[r.captured]["documents"] <= r.based["documents"]
      BY <1>5, <1>12, <2>2 DEF RequestInv, Retrieving
    <2>4. Covers(req'[q].based, floor[r.captured])
      BY <1>0, <1>10, <1>12, <2>1, <2>2, <2>3 DEF Covers, Source, Request, Revision
    <2>5. Covers(req'[q].based, r.since)
      <3>1. req'[q].based \in Revision /\ r.since \in Revision
        BY <1>0 DEF Request
      <3> QED
        BY <1>0, <1>10, <1>12, <2>2, <2>4, <3>1, CoversTransitive DEF Reached
    <2>6. floor[r.captured]["documents"] <= req'[q].based["documents"]
      BY <2>4 DEF Covers, Source
    <2> QED
      BY <1>0, <1>5, <1>10, <1>12, <2>1, <2>2, <2>4, <2>5, <2>6
         DEF ReadTickets, RequestInv, VersionCall, Retrieving, Request, Reached
  <1>13. CASE Other /\ Rewrite(q)
    <2>1. req'[q] = [r EXCEPT !.pc = "readDocuments", !.origin = "none"]
      BY <1>13 DEF Rewrite, CacheTypeOK
    <2> QED
      BY <1>0, <1>5, <1>13, <2>1
         DEF Rewrite, RequestInv, VersionCall, Retrieving, Request, Reached
  <1>14. CASE Other /\ EndUncached(q)
    <2>1. req'[q] = Ended(r)
      BY <1>14 DEF EndUncached, CacheTypeOK
    <2> QED
      BY <1>0, <1>5, <1>14, <2>1
         DEF EndUncached, Ended, RequestInv, VersionCall, Retrieving, Request, Reached
  <1>15. CASE Other /\ (SetExact(q) \/ SetExactFails(q))
    <2>1. req'[q] = AfterSet(r) /\ r.pc \in {"promoteSet", "storeSet"}
      BY <1>15 DEF SetExact, SetExactFails, CacheTypeOK
    <2> QED
      BY <1>0, <1>5, <1>15, <2>1
         DEF AfterSet, Ended, RequestInv, VersionCall, Retrieving, Request, Reached
  <1>16. CASE Other /\ (SaveSemantic(q) \/ SaveSemanticFails(q))
    <2>1. req'[q] = Ended(r) /\ r.pc = "saveRow"
      BY <1>16 DEF SaveSemantic, SaveSemanticFails, CacheTypeOK
    <2> QED
      BY <1>0, <1>5, <1>16, <2>1
         DEF Ended, RequestInv, VersionCall, Retrieving, Request, Reached
  <1> QED
    BY <1>1, <1>2, <1>3, <1>4, <1>6, <1>7, <1>8, <1>9, <1>11,
       <1>12, <1>13, <1>14, <1>15, <1>16 DEF QueryStep

LEMMA NextRequests ==
  ASSUME IInv, CacheTypeOK', [CacheNext]_cacheVars PROVE RequestsInv'
  <1>0. Progress
    BY NextFloor DEF IInv
  <1>1. SUFFICES ASSUME NEW q \in Query, req'[q].healthy PROVE RequestInv(q)'
    BY DEF RequestsInv
  <1>2. CASE QueryStep(q)
    BY <1>0, <1>1, <1>2, MovingRequest
  <1>3. CASE ~QueryStep(q)
    <2>1. req'[q] = req[q]
      <3>1. ASSUME NEW p \in Query, p # q, QueryStep(p) PROVE req'[q] = req[q]
        BY <3>1 DEF IInv, CacheTypeOK, QueryStep, GetVersion, BootstrapVersion,
           GetVersionFails, Ask, ExactHit, ExactMiss, SemanticHit, SemanticMiss,
           ReadDocuments, ReadTickets, Rewrite, EndUncached, SetExact, SetExactFails,
           SaveSemantic, SaveSemanticFails
      <3>2. ASSUME NEW w \in Writer, WriterStep(w) PROVE req'[q] = req[q]
        BY <3>2 DEF WriterStep, ChangeChunks, BumpVersion, LoseBump
      <3> QED
        BY <1>3, <3>1, <3>2 DEF CacheNext, cacheVars
    <2> QED
      BY <1>0, <1>1, <2>1, RequestStays DEF IInv, RequestsInv
  <1> QED
    BY <1>2, <1>3

-----------------------------------------------------------------------------
LEMMA InitIInv == CacheInit => IInv
  <1> SUFFICES ASSUME CacheInit PROVE IInv
    OBVIOUS
  <1>1. CacheTypeOK
    BY InitTypeOK
  <1>2. FloorInv
    BY CoversNothing, BoundAssumption DEF CacheInit, FloorInv, Version
  <1>3. RowInv
    BY DEF CacheInit, RowInv
  <1>4. RequestsInv
    BY CoversNothing DEF CacheInit, RequestsInv, RequestInv, Ended, Asked, Retrieving
  <1> QED
    BY <1>1, <1>2, <1>3, <1>4 DEF IInv

LEMMA NextIInv == IInv /\ [CacheNext]_cacheVars => IInv'
  BY NextTypeOK, NextFloor, NextRows, NextRequests DEF IInv

THEOREM Inductive == CacheSpec => []IInv
  BY InitIInv, NextIInv, PTL DEF CacheSpec

(* An answer from the semantic layer, or from fresh retrieval, reflects every *)
(* change invalidated before the request started: CacheService.getVersion,    *)
(* getSemantic and saveSemantic as ChatService.answer uses them, for any      *)
(* number of requests, writers, questions and bumps.                          *)
THEOREM SemanticFreshness == CacheSpec => []SemanticAnswersFresh
  <1>1. IInv => SemanticAnswersFresh
    BY DEF IInv, RequestsInv, RequestInv, SemanticAnswersFresh
  <1> QED
    BY <1>1, Inductive, PTL

(* A successful bumpVersion leaves no row of an older corpus acceptable to    *)
(* getSemantic.                                                               *)
THEOREM WarmRows == CacheSpec => []WarmRowsFresh
  <1>1. IInv => WarmRowsFresh
    BY DEF IInv, RowInv, FloorInv, WarmRowsFresh
  <1> QED
    BY <1>1, Inductive, PTL
=============================================================================
