--------------------------- MODULE IngestionQueue ---------------------------
(***************************************************************************)
(* The ingestion_jobs table and everyone who moves its rows:               *)
(*                                                                         *)
(*   - the lease queue (backend/app/ingestion/queue.py), driven by worker  *)
(*     processes (ingestion/worker.py) that run several lanes under ONE    *)
(*     worker id; what the queue writes is fenced by worker id + attempt;  *)
(*   - the legacy loop (services/ingestion_jobs.py), which claims pending  *)
(*     rows without a lease and finishes them by id alone;                 *)
(*   - operators: requeue_stuck_jobs and retry_failed.                     *)
(*                                                                         *)
(* Each SQL statement is one step.  A lane that runs a handler is a        *)
(* process of its own: its lease may run out, its heartbeats may fail, and *)
(* it may still be running when the row is long someone else's.  lease is  *)
(* lease_until against now(); run_after (backoff) only delays a lease and  *)
(* is left out; payloads and scopes only choose whether the handler fails. *)
(***************************************************************************)
EXTENDS Integers, FiniteSets

CONSTANTS
  Jobs,           \* keys (job_type, idempotency_key) that are enqueued
  Workers,        \* worker ids of the lease queue's processes
  Lanes,          \* their lanes (concurrency per process)
  WorkerOf,       \* [Lanes -> Workers]
  Legacy,         \* calls of the legacy loop, named by their worker ids
  Nobody,         \* SQL NULL in claimed_by; the job of an idle lane
  MaxAttempts,    \* max_attempts of a job
  MaxReleases,    \* bound: hand-backs (release) of all jobs together
  MaxRetries      \* bound: operator steps (requeue, retry) together

ASSUME IngestionQueueAssumption ==
  /\ WorkerOf \in [Lanes -> Workers]
  /\ Legacy \cap Workers = {}
  /\ Nobody \notin Workers \cup Legacy \cup Lanes \cup Jobs
  /\ Lanes \cap Legacy = {}
  /\ MaxAttempts \in Nat \ {0}
  /\ MaxReleases \in Nat /\ MaxRetries \in Nat

VARIABLES
  job,       \* the ingestion_jobs rows
  lane,      \* what each lane runs: a job and the attempt it was given
  up,        \* each worker process: up, stopping or down
  legacy,    \* the job each legacy call runs
  taker,     \* history: the lane or legacy call that took the job last
  reused,    \* history: jobs an operator retried while a lane was running them
  spent,     \* history: leases of each job since it was enqueued or retried,
             \* those that were handed back not counted
  released,  \* how often release succeeded
  operated   \* how often an operator stepped in

histories == <<taker, reused, spent>>
vars == <<job, lane, up, legacy, histories, released, operated>>

Statuses == {"absent", "pending", "processing", "retryable_failed", "done",
             "failed"}
Settled == {"done", "failed"}
Leases == {"none", "live", "expired"}
Idle == [job |-> Nobody, attempt |-> 0]

TypeOK ==
  /\ job \in [Jobs -> [status : Statuses,
                       claimed_by : Workers \cup Legacy \cup {Nobody},
                       lease : Leases,
                       attempts : Nat]]
  /\ lane \in [Lanes -> [job : Jobs \cup {Nobody}, attempt : Nat]]
  /\ up \in [Workers -> {"up", "stopping", "down"}]
  /\ legacy \in [Legacy -> Jobs \cup {Nobody}]
  /\ taker \in [Jobs -> Lanes \cup Legacy \cup {Nobody}]
  /\ reused \subseteq Jobs
  /\ spent \in [Jobs -> Int]
  /\ released \in Nat
  /\ operated \in Nat

Init ==
  /\ job = [j \in Jobs |-> [status |-> "absent", claimed_by |-> Nobody,
                            lease |-> "none", attempts |-> 0]]
  /\ lane = [l \in Lanes |-> Idle]
  /\ up = [w \in Workers |-> "down"]
  /\ legacy = [g \in Legacy |-> Nobody]
  /\ taker = [j \in Jobs |-> Nobody]
  /\ reused = {}
  /\ spent = [j \in Jobs |-> 0]
  /\ released = 0
  /\ operated = 0

-----------------------------------------------------------------------------
(* The lease queue                                                         *)

\* enqueue: one row per (job_type, idempotency_key), whatever became of it.
Enqueue(j) ==
  /\ job[j].status = "absent"
  /\ job' = [job EXCEPT ![j].status = "pending"]
  /\ UNCHANGED <<lane, up, legacy, histories, released, operated>>

\* _LEASE_SQL: a pending job, a due retry, or one whose lease ran out.
Leasable(row) ==
  /\ row.attempts < MaxAttempts
  /\ \/ row.status \in {"pending", "retryable_failed"}
     \/ row.status = "processing" /\ row.lease = "expired"

\* mutant: taking over an expired lease does not count as an attempt
LeaseUncounted(l, j) ==
  /\ up[WorkerOf[l]] = "up"
  /\ lane[l] = Idle
  /\ Leasable(job[j])
  /\ LET n == job[j].attempts + (IF job[j].lease = "expired" THEN 0 ELSE 1)
     IN /\ job' = [job EXCEPT ![j] = [status |-> "processing",
                                      claimed_by |-> WorkerOf[l],
                                      lease |-> "live", attempts |-> n]]
        /\ lane' = [lane EXCEPT ![l] = [job |-> j, attempt |-> n]]
  /\ taker' = [taker EXCEPT ![j] = l]
  /\ spent' = [spent EXCEPT ![j] = @ + 1]
  /\ UNCHANGED <<up, legacy, reused, released, operated>>

\* An idle lane of a worker that is not stopping leases one job.
Lease(l, j) ==
  /\ up[WorkerOf[l]] = "up"
  /\ lane[l] = Idle
  /\ Leasable(job[j])
  /\ job' = [job EXCEPT ![j] = [status |-> "processing",
                                claimed_by |-> WorkerOf[l],
                                lease |-> "live",
                                attempts |-> job[j].attempts + 1]]
  /\ lane' = [lane EXCEPT ![l] = [job |-> j, attempt |-> job[j].attempts + 1]]
  /\ taker' = [taker EXCEPT ![j] = l]
  /\ spent' = [spent EXCEPT ![j] = @ + 1]
  /\ UNCHANGED <<up, legacy, reused, released, operated>>

\* mutant: the fence forgets the status
OwnsAnyStatus(l, j) ==
  /\ lane[l].job = j
  /\ job[j].claimed_by = WorkerOf[l]
  /\ job[j].attempts = lane[l].attempt

\* mutant: the fence is the worker id alone
OwnsByWorker(l, j) ==
  /\ lane[l].job = j
  /\ job[j].status = "processing"
  /\ job[j].claimed_by = WorkerOf[l]

\* _OWNED: the fence of everything a lane writes about its job.
Owns(l, j) ==
  /\ lane[l].job = j
  /\ job[j].status = "processing"
  /\ job[j].claimed_by = WorkerOf[l]
  /\ job[j].attempts = lane[l].attempt

\* What a lane's fenced UPDATE leaves: the new row, or the row as it is.
Fenced(l, j, row) == IF Owns(l, j) THEN row ELSE job[j]

\* _heartbeat: an owner extends its lease, even one that has run out; a lane
\* that finds it owns the job no longer cancels the handler and forgets it.
Heartbeat(l, j) ==
  /\ lane[l].job = j
  /\ job' = [job EXCEPT ![j] = Fenced(l, j, [@ EXCEPT !.lease = "live"])]
  /\ lane' = IF Owns(l, j) THEN lane ELSE [lane EXCEPT ![l] = Idle]
  /\ UNCHANGED <<up, legacy, histories, released, operated>>

\* The handler returned: complete, "lost" when fenced out.
Complete(l, j) ==
  /\ lane[l].job = j
  /\ job' = [job EXCEPT ![j] = Fenced(l, j, [@ EXCEPT !.status = "done",
                                                      !.lease = "none"])]
  /\ lane' = [lane EXCEPT ![l] = Idle]
  /\ UNCHANGED <<up, legacy, histories, released, operated>>

\* mutant: the retry is recorded under the name of the reply
FailMisnamed(l, j, retryable) ==
  /\ lane[l].job = j
  /\ job' = [job EXCEPT ![j] = Fenced(l, j, [@ EXCEPT !.status = "retry",
                                                      !.lease = "none"])]
  /\ lane' = [lane EXCEPT ![l] = Idle]
  /\ UNCHANGED <<up, legacy, histories, released, operated>>

\* The handler raised, was refused or timed out (then retryable): fail.
Fail(l, j, retryable) ==
  /\ lane[l].job = j
  /\ LET again == retryable /\ lane[l].attempt < MaxAttempts
         status == IF again THEN "retryable_failed" ELSE "failed"
     IN job' = [job EXCEPT ![j] = Fenced(l, j, [@ EXCEPT !.status = status,
                                                         !.lease = "none"])]
  /\ lane' = [lane EXCEPT ![l] = Idle]
  /\ UNCHANGED <<up, legacy, histories, released, operated>>

\* The handler ran into the model budget, or its task was cancelled by a
\* shutdown: release hands the job back together with the attempt.
Release(l, j) ==
  /\ lane[l].job = j
  /\ released < MaxReleases
  /\ job' = [job EXCEPT ![j] =
               Fenced(l, j, [@ EXCEPT !.status = "pending",
                                      !.lease = "none",
                                      !.claimed_by = Nobody,
                                      !.attempts = job[j].attempts - 1])]
  /\ lane' = [lane EXCEPT ![l] = Idle]
  /\ released' = released + 1
  /\ spent' = [spent EXCEPT ![j] = IF Owns(l, j) THEN @ - 1 ELSE @]
  /\ UNCHANGED <<up, legacy, taker, reused, operated>>

\* Time: a lease runs out, its lane dead, stuck, or cut off from the database.
LeaseExpires(j) ==
  /\ job[j].lease = "live"
  /\ job' = [job EXCEPT ![j].lease = "expired"]
  /\ UNCHANGED <<lane, up, legacy, histories, released, operated>>

-----------------------------------------------------------------------------
(* Worker processes                                                        *)

\* mutant: nobody reaps
ReapNone == job

\* reap_exhausted: an expired lease with no attempt left is a failure.
Reaped ==
  [j \in Jobs |->
     IF /\ job[j].status = "processing" /\ job[j].lease = "expired"
        /\ job[j].attempts >= MaxAttempts
     THEN [job[j] EXCEPT !.status = "failed", !.lease = "none"]
     ELSE job[j]]

\* run(): reap_exhausted, then the lanes.
Start(w) ==
  /\ up[w] = "down"
  /\ up' = [up EXCEPT ![w] = "up"]
  /\ job' = Reaped
  /\ UNCHANGED <<lane, legacy, histories, released, operated>>

\* stop.set(): a signal, or the credential is about to expire.  The lanes
\* finish the job in hand and take no other.
Stop(w) ==
  /\ up[w] = "up"
  /\ up' = [up EXCEPT ![w] = "stopping"]
  /\ UNCHANGED <<job, lane, legacy, histories, released, operated>>

\* The lanes have returned: reap_exhausted once more, then exit.
Finish(w) ==
  /\ up[w] = "stopping"
  /\ \A l \in Lanes : WorkerOf[l] = w => lane[l] = Idle
  /\ up' = [up EXCEPT ![w] = "down"]
  /\ job' = Reaped
  /\ UNCHANGED <<lane, legacy, histories, released, operated>>

\* The process dies with everything its lanes were doing.
Crash(w) ==
  /\ up[w] # "down"
  /\ up' = [up EXCEPT ![w] = "down"]
  /\ lane' = [l \in Lanes |-> IF WorkerOf[l] = w THEN Idle ELSE lane[l]]
  /\ UNCHANGED <<job, legacy, histories, released, operated>>

-----------------------------------------------------------------------------
(* The legacy loop and the operators                                       *)

\* claim_jobs: pending only; neither attempts nor lease_until is touched.
Claim(g, j) ==
  /\ legacy[g] = Nobody
  /\ job[j].status = "pending"
  /\ job' = [job EXCEPT ![j].status = "processing", ![j].claimed_by = g]
  /\ legacy' = [legacy EXCEPT ![g] = j]
  /\ taker' = [taker EXCEPT ![j] = g]
  /\ UNCHANGED <<lane, up, reused, spent, released, operated>>

\* _process_pending_jobs records the outcome WHERE id = $1.
ClaimEnds(g, j, status) ==
  /\ legacy[g] = j
  /\ job' = [job EXCEPT ![j].status = status,
                        ![j].attempts = job[j].attempts + 1]
  /\ legacy' = [legacy EXCEPT ![g] = Nobody]
  /\ UNCHANGED <<lane, up, histories, released, operated>>

\* The legacy process dies mid-job.
ClaimDies(g) ==
  /\ legacy[g] # Nobody
  /\ legacy' = [legacy EXCEPT ![g] = Nobody]
  /\ UNCHANGED <<job, lane, up, histories, released, operated>>

\* requeue_stuck_jobs: claimed long ago (no heartbeat moves claimed_at).
RequeueStuck(j) ==
  /\ operated < MaxRetries
  /\ job[j].status = "processing"
  /\ job' = [job EXCEPT ![j].status = "pending"]
  /\ operated' = operated + 1
  /\ UNCHANGED <<lane, up, legacy, histories, released>>

\* retry_failed: the operator's retry of failed jobs, which starts counting
\* again (reset_attempts is the default, and its caller leaves it at that) but
\* leaves claimed_by, and a lane that may still run the job, alone.
RetryFailed(j) ==
  /\ operated < MaxRetries
  /\ job[j].status \in {"failed", "retryable_failed"}
  /\ job' = [job EXCEPT ![j].status = "pending",
                        ![j].lease = "none",
                        ![j].attempts = 0]
  /\ operated' = operated + 1
  /\ reused' = IF \E l \in Lanes : lane[l].job = j THEN reused \cup {j}
                                                   ELSE reused
  /\ spent' = [spent EXCEPT ![j] = 0]
  /\ UNCHANGED <<lane, up, legacy, taker, released>>

-----------------------------------------------------------------------------

\* The next step of lane l with job j.
LaneStep(l, j) ==
  \/ Lease(l, j)
  \/ Heartbeat(l, j)
  \/ Complete(l, j)
  \/ \E retryable \in BOOLEAN : Fail(l, j, retryable)
  \/ Release(l, j)

LegacyStep(g, j) ==
  \/ Claim(g, j)
  \/ \E status \in Settled : ClaimEnds(g, j, status)

Next ==
  \/ \E j \in Jobs : Enqueue(j) \/ LeaseExpires(j)
  \/ \E l \in Lanes, j \in Jobs : LaneStep(l, j)
  \/ \E w \in Workers : Start(w) \/ Stop(w) \/ Finish(w) \/ Crash(w)
  \/ \E g \in Legacy, j \in Jobs : LegacyStep(g, j)
  \/ \E g \in Legacy : ClaimDies(g)
  \/ \E j \in Jobs : RequeueStuck(j) \/ RetryFailed(j)

\* A lease nobody will extend again.
Abandoned(j) == ~ \E l \in Lanes : Owns(l, j)

\* What the code's scheduling justifies: supervisors restart workers, which
\* stop for good reasons again and again (credential expiry, --once); a lane
\* polls as soon as its worker is up; a handler ends or times out; abandoned
\* leases run out; a legacy call that lives reaches the end of its batch.
Fairness ==
  /\ \A w \in Workers : WF_vars(Start(w)) /\ WF_vars(Stop(w))
                          /\ WF_vars(Finish(w))
  /\ \A j \in Jobs :
       /\ SF_vars(\E l \in Lanes : Lease(l, j))
       /\ WF_vars(LeaseExpires(j) /\ Abandoned(j))
  /\ \A l \in Lanes, j \in Jobs :
       WF_vars(Complete(l, j) \/ \E r \in BOOLEAN : Fail(l, j, r))
  /\ \A g \in Legacy, j \in Jobs :
       WF_vars(\E status \in Settled : ClaimEnds(g, j, status))

Spec == Init /\ [][Next]_vars
FairSpec == Spec /\ Fairness

-----------------------------------------------------------------------------
(* Properties                                                              *)

\* "A zombie can never overwrite the state a newer attempt wrote": a lane that
\* would pass the fence is the one that took the job last.
FenceIsExclusive ==
  \A l \in Lanes, j \in Jobs : Owns(l, j) => taker[j] = l

\* That holds as long as operators retry only jobs that no lane is running any
\* more, even among lanes that share a worker id, after leases ran out,
\* attempts were handed back and requeued jobs were taken by the legacy loop.
FencedUnlessReused ==
  \A l \in Lanes, j \in Jobs : Owns(l, j) => taker[j] = l \/ j \in reused

\* A crash loop ends: whatever lanes die or are cut off, whoever requeues the
\* job or finishes it without a fence, it is leased at most max_attempts times,
\* hand-backs aside, before an operator has to decide to retry it.
CrashLoopEnds == \A j \in Jobs : spent[j] <= MaxAttempts

\* A job that is settled stays as it is, late answers of zombies and of lanes
\* whose job was reaped included; only the operator's retry and the unfenced
\* write of the legacy loop may touch it.
SettledUnlessUnfenced ==
  [][\A j \in Jobs :
       job[j].status \in Settled /\ job'[j].status # job[j].status
         => \/ operated' = operated + 1
            \/ \E g \in Legacy : legacy[g] = j /\ legacy'[g] = Nobody]_vars

\* A job only a person can help: its legacy claimant died (no lease, so no
\* worker takes it over), or an operator put it back without an attempt left.
NeedsOperator(j) ==
  \/ /\ job[j].status = "processing" /\ job[j].lease = "none"
     /\ \A g \in Legacy : legacy[g] # j
  \/ job[j].status = "pending" /\ job[j].attempts >= MaxAttempts

\* Every enqueued job is settled in the end, through crashes, expired leases
\* and exhausted attempts, unless it waits for an operator.
EveryJobSettles ==
  \A j \in Jobs : job[j].status # "absent"
                    ~> job[j].status \in Settled \/ NeedsOperator(j)
=============================================================================
