------------------------------ MODULE BullJob ------------------------------
(***************************************************************************)
(* One job of a Bull 4 queue, as the queues of the API use it: a job id    *)
(* made from the id of a row, a number of attempts, a timeout,             *)
(* removeOnComplete and no removeOnFail. Bull is a library; what is stated *)
(* here is what its callers rely on.                                       *)
(***************************************************************************)
EXTENDS Naturals

(* "none": never added, or removed on completion. "waiting" also stands for   *)
(* the back-off delay. "lost": Redis lost it.                                *)
JobRecord(attempts, maxStalls) ==
  [state : {"none", "waiting", "active", "failed", "lost"},
   attemptsMade : 0 .. attempts, stalls : 0 .. maxStalls]

NoJob == [state |-> "none", attemptsMade |-> 0, stalls |-> 0]

(* getJob finds waiting, active and failed jobs. *)
Found(j) == j.state \notin {"none", "lost"}

(* Queue.add does nothing when a job with this id exists, in whatever state:  *)
(* a completed job is removed, a failed one is kept.                          *)
Enqueued(j) == IF Found(j) THEN j ELSE [NoJob EXCEPT !.state = "waiting"]

(* An attempt failed or ran into its timeout: retried while attempts remain.  *)
FailedAttempt(j, attempts) ==
  [j EXCEPT !.state = IF j.attemptsMade + 1 < attempts THEN "waiting" ELSE "failed",
            !.attemptsMade = j.attemptsMade + 1]

(* The stalled-job check found the job's lock expired.                        *)
StalledJob(j, maxStalls) ==
  IF j.stalls < maxStalls
    THEN [j EXCEPT !.state = "waiting", !.stalls = j.stalls + 1]
    ELSE [j EXCEPT !.state = "failed"]
=============================================================================
