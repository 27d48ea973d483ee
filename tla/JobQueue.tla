------------------------------ MODULE JobQueue ------------------------------
(***************************************************************************)
(* The jobs table of app/jobs/queue.py: what enqueue, claim, requeue_stale,*)
(* succeed and fail do to its rows.  The table only ever grows; a row's id *)
(* is its index.  The module has the table and its operations; the worker, *)
(* the handlers and the requests that use it are in Lifecycle.             *)
(***************************************************************************)
EXTENDS Naturals, Sequences, InstanceStates

CONSTANTS Instances,    \* the server rows that can exist
          MaxAttempts   \* JOB_MAX_ATTEMPTS: failures before a job is dead

ASSUME MaxAttemptsAssumption == MaxAttempts \in Nat \ {0}

VARIABLE jobs           \* the table, in id order

JobTypes    == Verbs \cup { "create", "await_ready" }
JobStatuses == { "queued", "running", "failed", "succeeded", "dead" }

(***************************************************************************)
(* due: run_after has passed.  poll: payload["attempt"] of a readiness     *)
(* probe.  applied: how many Event rows with status "succeeded" the job's  *)
(* handler has committed, that is how often its effect was recorded.       *)
(***************************************************************************)
Job == [ type : JobTypes, inst : Instances, status : JobStatuses,
         attempts : Nat, due : BOOLEAN, poll : Nat, applied : Nat ]

NewJob(type, i, due, poll) ==
    [ type |-> type, inst |-> i, status |-> "queued", attempts |-> 0,
      due |-> due, poll |-> poll, applied |-> 0 ]

JobIds == 1 .. Len(jobs)

ACTIVE_JOB_STATUSES == { "queued", "running", "failed" }

Active(k) == jobs[k].status \in ACTIVE_JOB_STATUSES

(* The guard of enqueue(): some row of the instance is not settled yet. *)
HasActiveJob(i) == \E k \in JobIds : jobs[k].inst = i /\ Active(k)

(* Variant: a row that has succeeded is runnable again. *)
ClaimableSettled(k) == jobs[k].status \notin {"running", "dead"} /\ jobs[k].due

(***************************************************************************)
(* claim(): the oldest runnable row.                                       *)
(***************************************************************************)
Claimable(k) == jobs[k].status \in {"queued", "failed"} /\ jobs[k].due

OldestClaimable(k) ==
    Claimable(k) /\ \A j \in JobIds : Claimable(j) => k <= j

(* Variants: the recovery takes dead rows too, or (at startup, with the     *)
(* threshold of the periodic call) none.                                    *)
RequeuedDead(row) ==
    IF row.status \in {"running", "dead"} THEN [row EXCEPT !.status = "queued"] ELSE row

RequeueNothing == UNCHANGED jobs

(* requeue_stale(): every row a dead worker left running is queued again. *)
Requeued(row) == IF row.status = "running" THEN [row EXCEPT !.status = "queued"] ELSE row

RequeueStale == jobs' = [ k \in JobIds |-> Requeued(jobs[k]) ]

(***************************************************************************)
(* fail(): one more attempt; the last one kills the job, the others are    *)
(* retried once the backoff has passed.                                    *)
(***************************************************************************)
(* Variant: the attempt is not counted. *)
FailRowUncounted(k) ==
    jobs' = [jobs EXCEPT ![k].status = "failed", ![k].due = FALSE]

Exhausted(k) == jobs[k].attempts + 1 >= MaxAttempts

FailRow(k) ==
    jobs' = [jobs EXCEPT ![k].attempts = @ + 1,
                         ![k].status   = IF Exhausted(k) THEN "dead" ELSE "failed",
                         ![k].due      = IF Exhausted(k) THEN @ ELSE FALSE]

SetStatus(k, s) == jobs' = [jobs EXCEPT ![k].status = s]

(* run_after comes: a delayed row (backoff, readiness gap) is runnable. *)
BecomeDue(k) ==
    /\ jobs[k].status \in {"queued", "failed"}
    /\ ~jobs[k].due
    /\ jobs' = [jobs EXCEPT ![k].due = TRUE]

=============================================================================
