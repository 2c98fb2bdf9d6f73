# TLA+ verification of kell / stealth-lab

This directory holds TLA+ modules that model parts of the backend
(`backend/app`, `backend/db`), TLC configurations that check them on small
instances, and proofs that TLAPS checks for every instance. Paths below are
relative to the repository root. `PROJECT.json` lists, in machine-readable
form, the components, the runs, the source lines each definition stands for,
the findings, the hazards and the theorems.

    tlc -workers 2 -config overlap.cfg MCDurableRun     # a run
    tlapm DurableRunProofs.tla                          # the proofs, and so
                                                        # for the other *Proofs

| Modules | Model | Proofs | Runs |
|---|---|---|---|
| `DurableRun`, `RunLifecycle` | one run and everyone who writes it; what a run promises | `DurableRunProofs`, `LifecycleProofs`, `ClaimProofs` | `overlap`, `reports`, `parked`, `orphans`, `stuck` |
| `IngestionQueue` | the job table with leasing workers and the legacy loop | `IngestionQueueProofs` | `leases`, `fence` |
| `SearchProjection`, `ProjectedView` | canonical rows, outbox and index; what readers of the index may rely on | `SearchProjectionProofs` | `projection`, `gap` |
| `GoalCommitments` | the Credit ledger, commitments and their settlement | `GoalCommitmentsProofs` | `bounties` |
| `Payments`, `SpendLedger` (extends it) | from payments to Credits and plans; provider calls that spend them | `SpendLedgerProofs` | `wallet`, `renewals` |
| | sums over finite sets, used by the two modules above | `SumProofs` | |

## 1. Inventory of the system

The backend is a Python service over PostgreSQL. Several processes (the MCP
server, the REST API, ingestion workers, cron jobs) work on the same tables;
what protocol there is between them lies in SQL statements, their WHERE
clauses, unique indexes and triggers. That is where the hard behaviour is.

| Component | State | Operations | Who else touches it | What makes it correct |
|---|---|---|---|---|
| **Durable runs** `execution/durable_run.py` | `execution_runs`, `execution_run_nodes`: status, driver lease, attempts, final fields | start, execute, resume, retry (forced), host report, finalize after verification | other drivers of the same run, hosts, verification, child runs | succeeded nodes are fixed; dependencies first; one driver; bounded retry; final fields agree; calls return |
| **Schema fences** `db/36, 37, 60, 75, 77` | triggers and CHECKs on those tables | reject illegal transitions | every writer | no writer relies on what it rejects |
| **Episodes** `execution/episode.py` | `episodes.end_ts`, outcome | open, close | closing enqueues an ingestion job | closed exactly when the run first ended |
| **Recursion guard** `execution/recursion_guard.py` | run trees, budgets | check limits, decide a failed child's strategy | creates runs, fails parents' nodes | budgets hold, a failed parent's node stays failed |
| **File intents** `execution/coordination.py` | leases on files per node | declare, release, find stale | nodes of all runs | live write claims do not overlap |
| **Verification** `services/verification.py` | `verification_results` | record, compute satisfaction | gates the end of a run | the gate sees the last evidence |
| **Ingestion queue** `ingestion/queue.py` | `ingestion_jobs`: status, lease, attempts | enqueue, lease, heartbeat, complete, fail, release, reap, retry | workers, the legacy loop | a job is finished by its holder; every job ends |
| **Legacy job loop** `services/ingestion_jobs.py` | the same table | claim, process, requeue | the leasing workers | as above, without fences |
| **Projection outbox** `services/search_projection.py` | `projection_outbox`, search indexes | enqueue, drain, retry, reindex | every writer of a canonical row | the index ends at the canonical state |
| **Credits and commitments** `economy/` | an append-only ledger | commit, withdraw, settle, reward, claw back | goal resolution, reviews | each commitment is settled once; balances hold |
| **Spend governance and wallet** `services/org_governance.py`, `wallet.py`, `plans.py`, `billing_reconcile.py` | holds and settlements, payments, plans | reserve, settle, fail, abandon, credit, activate, reconcile | provider calls, webhooks, a sweeper | budgets are never under-counted; a payment counts once and is not lost |
| **Delegate relay** `services/delegate.py` | tasks between agents | post, approve, claim, answer, cancel, revoke | people and their agents | a task is answered once, by who claimed it |
| Rooms, memory, retrieval, goals, procedures, publication, authn/authz, providers, MCP façade, debate, evaluation, local agent | rows and caches | single-statement writes, scoring, formatting, network | | not protocols of several steps |

How they interact: an MCP tool or the REST API rebuilds a compiled plan
(`execution/durable_resume.py`) and calls a driver; the driver calls nodes
back, which may start child runs; the run waits for verification results; its
end appends an `executions` row, closes its episode and enqueues a
consolidation job; the job changes canonical rows, whose projections go
through the outbox; a resolved goal settles the commitments made on it.

Two facts about this commit that bear on the models. Nothing under
`backend/app` calls `finalize_after_verification`, although
`durable_run.py:757` and `db/75` (lines 26-29) say `verify_completion` does:
a run held for verification stays held unless something outside calls it.
`report_node_progress`, `run_graph_durably` and `execute_run` are likewise
reached from tests and scripts only; the REST API reaches `resume_run` and
`retry_node`. All of them are modelled as callable at any time.

## 2. What is modelled

### `DurableRun`: one run and everyone who writes it

| Variable | Code |
|---|---|
| `run` | the `execution_runs` row: `status`, `worker_id` (`own`), whether `lease_expires_at` is past (`late`), `final_outcome`, which `executions` row `final_execution_id` names (`exec`, 0 for NULL) |
| `node` | the `execution_run_nodes` rows: `status`, `attempt_count`, `max_attempts`, `worker_id`, lease, `error_class` as retryable or not |
| `execs` | outcomes of the `executions` rows appended for the run, in order |
| `episode`, `verif` | the episode's close, what `compute_verification_satisfaction` finds |
| `drv` | for each driver call: where it is, and its Python locals (`nodes` as `rows` and `view`, `progressed`, `attempt`, the loop's rest as `todo`) |
| `host`, `ver` | the same for host reports and verifications |
| `ran`, `parked`, `ousted`, `endings` | history only, for the properties |

A step is one SQL statement or transaction, or one read; what a driver
computes between two of them joins the next step. `_drive` iterates over the
rows it loaded and checks dependencies on a possibly newer `nodes`, because a
reload inside the loop rebinds the name but not the iterator; hence `rows`
and `view`. Every driver call has a fresh worker id, as in
`durable_graph.py:99` and `api/runs.py:40`. A crash (`CrashWorker`) can strike
anywhere and writes nothing; `LoseWorker` is the `WorkerLost` exception. A
statement that a trigger rejects changes nothing, and its caller unwinds
through its `finally` — or, in `resume_run`'s pre-pass, without one.

| Code | Actions |
|---|---|
| `_claim_run`, `_release_run` | `CallDriver`, `ReleaseRun` |
| `resume_run` pre-pass | `LoadFailed`, `RearmFailed` |
| `retry_node` | `ReadTarget`, `RearmTarget`, `Reactivate` |
| `_drive` | `LoadRun`, `LoadNodes`, `RearmCrashed`, `ParkRun`, `ReloadNode`, `SkipNode`, `BlockNode`, `UnblockNode`, `EndPass` |
| `_run_one_node`, `_node_claim`, `_node_finish` | `StartNode`, `ClaimNode`, `ReadLostClaim`, `FinishNode`, `FailNode`, `LoseWorker` |
| `_finalize_inner`, `_persist_success_transition` | `DecideOutcome`, `HoldRun`, `SucceedRun`, `FailRun` |
| `report_node_progress` | `ReadReported`, `ClaimReported`, `FinishReported` |
| `_upsert_result`, `finalize_after_verification` | `RecordEvidence`, `ReadEvidence`, `ApplyEvidence` |
| `decide_child_failure_strategy` (fail_parent) | `FailParentNode` |
| the clock, the process | `RunLeaseExpires`, `NodeLeaseExpires`, `CrashWorker` |

Left out: the event log and telemetry, result payloads, error texts,
`cancelled` (nothing writes it), `resume_count`, usage counters, database
failures other than a rejected statement, and runs driven without a compiled
plan (no `executions` row is appended for them). `start_run` commits run,
nodes and episode in one transaction and is the initial state.

### `RunLifecycle`: what a run promises

The status machine of the run's row with workers, leases, attempts and
snapshots left out: nodes that succeeded stay so, a run is held or succeeds
only with all of them, a success is final, and a final outcome shows exactly
while the run is terminal. `DurableRun` implements it under the mapping
`status <- run.st`, `outcome <- run.outcome`,
`succeeded <- {n : node[n].st = "succeeded"}` (property `ImplementsLifecycle`).

### `IngestionQueue`: the job table, leases and the legacy loop

| Variable | Code |
|---|---|
| `job` | the `ingestion_jobs` rows: `status`, `claimed_by`, `lease_until` as none, live or expired, `attempts` |
| `lane` | what a lane of a worker process has in hand: a job and the attempt it was leased under |
| `up` | each worker process: up, stopping (SIGTERM, `--once`, expired credentials) or down |
| `legacy` | the job a call of the legacy loop is processing |
| `taker`, `reused`, `spent` | history: who took a job last, jobs retried while a lane was running them, leases since the job was enqueued or retried (hand-backs not counted) |
| `released`, `operated` | hand-backs and operator steps, both bounded |

| Code | Actions |
|---|---|
| `queue.enqueue`, `_LEASE_SQL` and `lease` | `Enqueue`, `Lease` (`Leasable`) |
| `heartbeat`, `complete`, `fail`, `release` (all fenced by `_OWNED`) | `Heartbeat`, `Complete`, `Fail`, `Release` (`Owns`, `Fenced`) |
| `reap_exhausted` | `Reaped`, a part of `Start` and `Finish`: `run` reaps before its lanes start and after they end |
| `worker.run`, `_lane`, `_heartbeat` | `Start`, `Stop`, `Finish`, `Crash`, and the lane's steps |
| `claim_jobs`, `_process_pending_jobs` | `Claim`, `ClaimEnds` (by id alone), `ClaimDies` |
| `requeue_stuck_jobs`, `retry_failed` | `RequeueStuck`, `RetryFailed` |
| the clock | `LeaseExpires` |

The lanes of a process share one worker id, and `release` gives an attempt
back, so that neither part of the fence (worker id, attempt) is unique; the
model keeps both. `retry_failed` starts the attempts over, as it does by default
and for its only caller. Whether a handler succeeds, fails or is handed back is a free
choice. Left out: `run_after` (backoff delays a lease, it never forbids one),
payloads, and the model budget, which only decides whether a job is released.

### `SearchProjection`: canonical rows, outbox and index

| Variable | Code |
|---|---|
| `canon`, `index` | per object, the version last committed and the one its projection shows |
| `pending`, `attempts`, `failed` | the object's `projection_outbox` entries |
| `writer` | a transaction on a canonical row (`sl_canonical_touch` fires in it), or a remote writer between its write and its enqueue |
| `drain` | a transaction of `drain_outbox`: the entries it locked and has still to do, the version it read, what it marked |
| `rebuild` | where `reindex` is |
| `crashes`, `repairs`, `excused` | bounds, and the history of the changes that were left without an entry |

| Code | Actions |
|---|---|
| trigger of `db/95`, `db/133` | `Write`, `Commit`, `Abort` |
| `_finish_remote_goal`, `capture_procedure` | `RemoteWrite`, `RemoteEnqueue`, `RemoteEnqueueFails`, `RemoteProject`, `RemoteGivesUp` |
| `drain_outbox`, `project_object` | `Take`, `Read`, `Apply`, `Refuse`, `CommitBatch`, `DrainerDies` |
| `retry_failed`, `reindex` | `RetryFailed`, `ReindexList`, `ReindexQueue`, `ReindexOrphans` |

The model's core is PostgreSQL's READ COMMITTED as this code uses it: what an
open transaction wrote is not seen; an INSERT into the outbox waits for a
transaction that *changed* the entry it conflicts with, but an entry that is
only *locked* (`FOR UPDATE SKIP LOCKED`) is a conflict at once, and
`DO NOTHING` then queues nothing (`Changing`). A projection is the number of
the version it was made from. An immediate projection reads and writes under
the advisory lock and is one step. Left out: `has_procedures`, search groups,
loss of the control connection, and `reindex`'s shard filter.

`ProjectedView` is what a reader of the index may rely on: for each object it
shows nothing or a committed version, and it never goes back. `canon` and
`index` map to themselves (property `ViewSpec`).

### `GoalCommitments`: the escrow of a Goal

| Variable | Code |
|---|---|
| `resolved` | Goals with `resolved_at` |
| `committed`, `settled`, `clawed` | rows of `credit_ledger_events`: commitments, their releases and payouts, clawbacks of those |
| `caller`, `settler` | calls of `commit` and `withdraw`; resolutions with the settlement that follows |
| `deaths` | a bound |

| Code | Actions |
|---|---|
| `commit` | `CommitCheck`, `CommitCount` (takes the advisory lock, `LockHeld`), `CommitInsert` |
| `withdraw` | `WithdrawCheck`, `WithdrawInsert` |
| `record_execution_outcome`, `_after_goal_resolution` | `Resolve`, `SettleDies` |
| `settle_goal_bounties` | `SettleList`, `SettleOne`, `SettleEnds` |
| `credits.clawback` | `Clawback` |

The unique index on `reversal_of_event_id` is `SettleOnce`: the second
settlement of a commitment does nothing, and a caller that hits the index
without `ON CONFLICT` ends in `SettleDies` or `CallDies`. Rewards under the
daily and weekly caps are only an `Opening` balance; the demand figures of
`commitments.py` are reads. `withdraw` does not look at the Goal's resolution:
`commitments.py:5` says a commitment is taken back before the Goal is resolved,
but a withdrawal may come between the resolution and its settlement, and then
the solver gets nothing for that commitment. The model has this; no property
forbids it.

### `Payments` and `SpendLedger`: money in, money out

| Variable | Code |
|---|---|
| `captured` | payments the gateway took |
| `credits` | `org_wallet_credits` rows per payment |
| `entitled`, `starts` | `plan_entitlements`, and when each one's period starts |
| `seen`, `acked` | `billing_webhook_events`; events answered 200 |
| `handler` | a webhook request or a pass of `reconcile` over one payment |
| `ledger` | `provider_call_ledger` rows |
| `call` | a provider call: where it is, what the provider charged |

| Code | Actions |
|---|---|
| the gateway (external) | `Capture` |
| `webhook_route`, `event_seen`, `mark_event`, `_activate_charge` | `Deliver`, `Redeliver`, `Reply` |
| `reconcile` | `Reconcile` |
| `credit_payment`, `plans.activate` | `CreditPack`, `CheckPlan`, `CreditIncluded`, `Entitle`, `HandlerFails` |
| `reserve_call` | `Reserve` (lock on the policy row, the sums), `Hold` |
| `_call_one`, `_start_one` in `providers/` | `Answer`, `Raise`, `Die` |
| `settle_call`, `fail_call`, `settle_abandoned` | `Settle`, `Raise`, `Sweep` |

Handlers of one payment may overlap and may stop after any transaction;
nothing but the unique indexes keeps them from repeating each other.
`SpendLedger` extends `Payments`: the wallet that `reserve_call` checks is the
sum of what `Payments` credited. Time is counted in plan periods, all payments
being made in the first, so that every later one is a renewal paid early; the
ledger's month and day are one each. Each payment has one webhook event; the
code acts on two (`payment.captured` and `order.paid`, or
`subscription.authenticated` and `charged`), each under an id of its own, and
what the second brings is a second handler of the same payment, which the model
has. The amounts match the order (others are answered 200 and left to people).
All ladder plans are one plan, where `activate` looks at entitlements of the
bought one only. `Reserve` is one step although its sums are four SELECTs: they
run under the lock on the policy row, so that no row is added between them,
payments only add, and a call that is settled meanwhile counts at its worst case
in the sums before and at its cost in those after.
The sweeper may find any reserved row: the age it asks for (30 minutes) makes
a live call unlikely, and the model does not rely on it. A stream takes the
same ledger steps as a call. Left out: `evaluate` of the policy and recorded
denials, grants and free credits, teams, accounts and referral codes that
`activate` makes sure of, the status rows of subscriptions.

## 3. What the runs check

The runs of `DurableRun` use `MCDurableRun`. Workers, hosts and verifiers are
interchangeable (symmetry, except where a liveness property is checked). `CHECK_DEADLOCK` is
off where a finished set of calls is a legitimate end.

| Run | Instance | Shows |
|---|---|---|
| `overlap` | 2 drivers (resume, retry, forced retry), chain of 2 nodes, the second side-effecting, 1 attempt (a forced retry grants the second), success, retryable failures and lost workers, 1 verification | `OwnedIffRunning`; `ClaimHolderExecutes` (the worker id is a sufficient fence); `DependenciesFirst` on stale views; `OneDriver`; `RetryBounded`; `SucceededNodeFixed`; across reactivations and late evidence `FinalFieldsAgree`, `SuccessMeansAllDone`, `EpisodeFollowsRun`, `ImplementsLifecycle` |
| `reports` | 2 drivers (execute), chain of 2, 1 host report, a child node, fairness | `OwnedIffRunning`, `FinalFieldsAgree` and `SucceededNodeFixed` when writers without the lease take part; `CallsReturn` |
| `parked` | 3 successive calls, 1 side-effecting node | finding: a parked node is rerun by a plain resume |
| `orphans` | 2 drivers, 1 verification | finding: an `executions` row is appended without the run ending |
| `stuck` | 2 drivers, 1 node, 1 attempt, fairness | finding: a call on an exhausted re-armed node never returns |
| `leases` | 1 job, a worker with 2 lanes, a worker with 1, 1 legacy call, 3 attempts, 2 hand-backs, 2 operator steps, fairness | `FencedUnlessReused`; `CrashLoopEnds`; `SettledUnlessUnfenced`; `EveryJobSettles` |
| `fence` | the same workers, 1 operator step, no legacy call, no hand-back | finding: after an operator's retry a lane cut off long ago passes the fence of a newer attempt |
| `projection` | a Procedure on K000 in the search database, a Goal on a remote shard, 1 writer, 2 drainers with batches of 2, 2 attempts, 1 crash, 1 repair, fairness | `GapsExcused`; `Converges`; `ViewSpec` |
| `gap` | the same with 2 writers, 1 drainer, no crash, no repair | finding: a change is left without an outbox entry |
| `bounties` | 2 commitments of one contributor who can afford one at a time, 2 callers, 2 resolutions, 1 death, clawbacks, fairness | `SettledOnce`; `NeverOverdrawn`; `RepairedByReplay` |
| `wallet` | 2 charges of one subscription, 1 pack, 2 handlers, 2 provider calls on a prepaid account, costs below and above the worst case | `PlanAfterCredit`; `AckedIsHonoured`; `WithinBudgets`; `PaidBefore`; `NeverUndercounted` |
| `renewals` | 2 orders for one plan, 2 handlers, no calls | finding: two payments activated at one time buy the same period |

**Bounds.** The protocols' races are between pairs: two drivers, or a driver
and one report, verification or failed child; a third party acts like the
second once more. In detail:

- *Runs.* Two nodes in a chain give a node that is ready, one that is blocked,
  and an order between them. In `overlap` a node has one attempt, so that it is
  exhausted at once, and a forced retry raises the limit to two: that gives a
  first attempt, a second and both kinds of exhaustion. In `reports` the parent
  of the chain is run by drivers and hosts, its successor by a child run that
  may fail. Evidence and host reports do not meet in one run of TLC (the product
  is too large); they do in the proofs. Each call is made once, so behaviours are finite up to the
  loops of `_drive`; nothing else is bounded, and there is no state constraint.
- *Queue.* Jobs do not touch each other, so one is enough. The fence is
  interesting between two lanes of one worker id and one of another, with a
  hand-back between two leases of the same attempt number; three attempts and
  two hand-backs leave room for it to happen twice. Legacy claims and operator
  steps can undo what the queue did, twice.
- *Projection.* The two objects take the two paths (trigger in the same
  database, best-effort enqueue from another one) and share batches, so that a
  failure of one is seen with the other in the batch. Two drainers race for
  locks; a crash, a failed attempt and a repair each can fall between any two
  steps. Two versions make "older" and "newer".
- *Commitments.* Two commitments of one balance make the check-then-act race
  of `commit`; two resolutions, one of which may die, make the replay.
- *Wallet.* Two handlers repeat or overtake each other on one payment, or
  activate it at the same time; with two charges one is the other's renewal, and
  the pack is what `reconcile` and the webhook both credit. Two calls race for
  one budget: one charge is too little for a call, the three payments are
  enough for two calls, the day's budget is not. Pilots (one per buyer, never
  renewed) and orders of plans that `reconcile` finds are the same steps with
  other constants; the proofs cover them, the instance does not.

**What conditions the properties state.**

- `OneDriver` and `RetryBounded` speak of calls whose run lease did not expire
  (`ousted`): the lease lasts 600 s, nothing renews it, and a node's callback
  may take longer, so overlaps are reachable; the other safety properties of
  runs hold with them. `CallsReturn` excepts the states of the `stuck` finding.
- `FenceIsExclusive` is what the queue promises; the code breaks it (finding 5).
  `FencedUnlessReused` says how far it holds: for every job that no operator
  retried while a lane was still running it, through expired leases, hand-backs,
  requeues and legacy claims.
- `CrashLoopEnds` counts what the row does not: leases since the job was
  enqueued or retried. A lease that is not counted in `attempts` breaks it.
- `SettledUnlessUnfenced` exempts the legacy loop's write by id;
  `EveryJobSettles` excepts a job whose legacy claimant died (it has no lease)
  and one an operator requeued without an attempt left (`NeedsOperator`).
- `GapsExcused` and `Converges` except objects in `excused`: a write coalesced
  with an entry whose drainer had read the row before (finding 4), a remote
  writer that died before its enqueue, a projection that `reindex` deleted
  because its object was not listed yet. Objects with a failed entry wait for
  `retry_failed`, which two failed entries of one object make fail for all: the
  model has this, and no property forbids it.
- `NeverOverdrawn` leaves clawbacks aside: a debt is what they are for.
  `RepairedByReplay` assumes what `db/119` does, that the Goal is
  resolved again.
- `WithinBudgets` and `PaidBefore` count a call that cost more than its worst
  case at the worst case: no check before the call could know better.
  `NeverUndercounted` leaves out calls that raised, whose hold is let go
  although the provider may have charged (`fail_call` records that cost as
  unknown).

**Fairness.** It says only that what is running goes on.

- *Runs.* Drivers that were called run on (asyncio tasks are scheduled and
  callbacks return), and a node lease that nobody renews runs out. No call,
  report, crash or evidence is forced to happen, and a host that began a report
  may never finish it. A crashed
  driver's steps are disabled, not unfairly postponed.
- *Queue.* Supervisors restart workers, which stop again and again for good
  reasons; lanes that are up poll, and since they are up again and again,
  leasing is strongly fair; a handler ends; a lease nobody can extend expires;
  a live legacy call reaches the end of its batch.
- *Projection.* Servers and workers drain for ever (`start_background_drain`);
  a transaction that is open ends, one way or the other; a `reindex` goes on.
- *Commitments.* A settlement that has begun goes on until it ends or dies.
- *Wallet.* None: there `AckedIsHonoured`, a safety property, says that the
  gateway does not stop calling before its payment has been honoured.

**Findings.** Each is a run TLC refutes by what the code does:

1. `parked` — `final-v1.md:240` and `db/36:42` promise that a crashed
   side-effecting node waits for `retry_node`; `_claim_run` reactivates a
   paused run for any resume, and the node, being `resumable`, is run again.
2. `orphans` — `durable_run.py:17-18` and `final-v1.md:247` promise at most,
   or exactly, one `executions` row per ending; the row is appended before a
   guarded UPDATE whose missing row does not roll it back.
3. `stuck` — `final-v1.md:243-244` promise bounded retry and that an exhausted
   node fails the run; a node lost on its last attempt is re-armed to
   `resumable` and the drive loop spins on it.
4. `gap` — `db/95:249-251` and `search_projection.py:16-19` promise that a
   change is pending until it is shown, "never a silent gap"; a write that
   commits between a drainer's read and the commit of its batch finds the old
   entry still pending, queues none, and the batch marks that entry applied.
5. `fence` — `queue.py:13-17` promises that a zombie never overwrites the state
   a newer attempt wrote. `retry_failed` resets attempts to 0 by default (line
   283; `ingestion/admin.py:242` leaves it at that), so numbers come again: a
   lane whose lease on attempt 1 ran out passes the fence of the first attempt
   after the retry, which another lane of the same worker holds.
6. `renewals` — `plans.py:365` promises that a person never loses days by
   renewing early. `activate` reads the end of the last period in one
   transaction (line 428) and writes the next in another, and nothing keeps two
   payments of one buyer apart: both buy the same period.

## 4. What is proved

For every value of the constants, from the assumption each module names
(`DurableRunAssumption`, `IngestionQueueAssumption`, ...) alone, with one
exception: `RetriesBounded` assumes `Hosts = {}` besides. The named assumptions
give the constants their types; that of `SpendLedger` says, too, that calls and
payments are finitely many, which is what a SUM over a table needs:

| Module | Theorem | Property |
|---|---|---|
| `DurableRunProofs` | `TypeCorrect` | `TypeOK` |
| | `OwnershipFollowsStatus` | `OwnedIffRunning` |
| | `SucceededNodesFixed` | `SucceededNodeFixed`, an action property |
| | `FinalFieldsAlwaysAgree` | `FinalFieldsAgree` |
| | `EpisodeAlwaysFollows` | `EpisodeFollowsRun` |
| `LifecycleProofs` | `AtMostOneDriver` | `OneDriver` |
| | `SuccessAlwaysComplete` | `SuccessMeansAllDone` |
| | `RunImplementsLifecycle` | `ImplementsLifecycle`, a refinement |
| `ClaimProofs` | `ClaimHolderAlwaysExecutes` | `ClaimHolderExecutes` |
| | `DependenciesAlwaysFirst` | `DependenciesFirst` |
| | `RetriesBounded` | `RetryBounded`, without host reports |
| `IngestionQueueProofs` | `TypeCorrect` | `TypeOK` |
| | `CrashLoopsEnd` | `CrashLoopEnds` |
| | `FenceHoldsUnlessReused` | `FencedUnlessReused` |
| | `SettledJobsStay` | `SettledUnlessUnfenced`, an action property |
| `SearchProjectionProofs` | `TypeCorrect` | `TypeOK` |
| | `ViewImplemented` | `ViewSpec`, a refinement |
| | `GapsAlwaysExcused` | `GapsExcused` |
| `GoalCommitmentsProofs` | `TypeCorrect` | `TypeOK` |
| | `AlwaysSettledOnce` | `SettledOnce` |
| | `CreditsSuffice` | `NeverOverdrawn` |
| `SpendLedgerProofs` | `PlansCredited` | `PlanAfterCredit` |
| | `AlwaysHonoured` | `AckedIsHonoured` |
| | `TypeCorrect` | `TypeOK` |
| | `ImplementsPayments` | `PaymentsSpec`: the payments' properties carry over |
| | `BudgetsNeverUndercount` | `NeverUndercounted` |
| | `BudgetsHold` | `WithinBudgets` |
| | `PaidFirst` | `PaidBefore` |

**Runs: the step lemmas.** Twenty-odd actions write the node rows, but only in a few
ways, so the proofs first reduce `Next` to them. `NodeStep`: a step keeps every
node row or writes exactly one, in one of the forms of `NodeWrite`, none of
which touches a succeeded row. `RunStep`: the run's row is kept, activated,
held or ended (`RunMoves`), and the executions row, episode and ending change
only with it. `DriverStep`, `CallerStep` and `HistoryStep` do the same for the
locals, `LeaseStep` for the run's lease, `OwnerStep` for a node's,
`ViewStep` for a driver's snapshot and `AttemptMove` for the attempts it
counts. Each invariant is then inductive over these
few forms.

**Runs: the strengthenings.** None of the invariants but `FinalFieldsAgree` and
`EpisodeFollowsRun` is inductive over the types alone, or as it stands:

- `OwnedIffRunning`: a lease that expires says nothing of a row without an
  owner, so it is proved with `IdleLease`, that an unowned row's flag is FALSE
  (`NodeInv`). `SucceededNodeFixed` follows: a succeeded row is unowned, so no
  result and no expiry can write it.
- `OneDriver` follows from `LeaseHeld`: a driver has the lease it took unless
  it was ousted, and an expired lease's holder has been.
- `SuccessMeansAllDone` needs the drivers between `_finalize`'s decision and
  its write: `DoneMeansAllDone` says of them, too, that all nodes are done. It
  survives other drivers' steps because successes stay (`SucceededStays`).
- `ImplementsLifecycle` uses both and `FinalFieldsAgree` (an activated run
  shows no outcome), and that no step writes a node's row and the run's.
- `DependenciesFirst` needs `ViewsSound`: a view may be stale, but a success it
  shows is one.
- `ClaimHolderExecutes` is inductive with the types. `CurrentNode` says that a
  driver at a node has one (`Min` of a non-empty set of naturals), which the
  type invariant carries as its last part; that is why `DriverTypeOK` has it.
- `RetryBounded` needs `AttemptsSound`. `_node_claim` writes the driver's own
  count into the row, so the count has to be the row's: a driver in a pass has
  the attempts of every node it still has to visit as its snapshot shows them
  (`SnapshotCurrent`) and of the node it works on as a local (`AttemptKnown`),
  and a limit that can only have been raised since. Each call of a callback is
  then counted in the row, within its limit (`AttemptsCounted`). Only another
  driver's claim could break this, and `LeaseHeld` says that while no driver
  was ousted there is none; a host report's claim, which needs no lease, breaks
  it, so `Hosts = {}` is assumed, as in the run that checks the property.

**Queue.** `HeldSound`: unless the job was retried under its feet, the attempt
in a lane's hand is at most its job's count, and equal to it only for the lane
that took the job last or while no worker claims the row. A hand-back takes the
count down to equality, but it clears `claimed_by`, and the next lease counts up
again: this is why the pair is a fence although neither half is. A retry that
finds no lane at work leaves nobody of whom `HeldSound` speaks; one that finds
a lane puts the job into `reused`. `HeldAttempts` keeps what lanes hold positive,
so that a hand-back leaves a natural number. `CrashLoopsEnd` needs
`SpentCounted`: leases are never ahead of the row's count, which the legacy loop
raises, too, but only `release` and a retry, which lower both, bring down.

**Projection.** `EntriesLocked`: an entry a drainer works on is pending, and
its alone. `WritesApart`: a transaction on K000 has its row alone, and has added
an entry only if none is pending. `SnapshotsSound`: the version a drainer is
about to show is not older than the one the index shows (which gives
`ViewSpec`), and it is the current one unless the change that came after is
accounted for (which gives `GapsExcused`).

**Sums.** The ledgers' properties are about SUM(amount), which the models take
from the community modules as a fold over a set. `SumProofs` reasons about it
without an induction rule. A row of n Credits is given n units, pairs of the
row and a number up to n, so that the number of units of a set obeys the same
equation as the sum (`UnitsFold`). If the two differed on some subset of a
finite set, they would on a smallest one; the equation, which takes one element
away, contradicts that (`SumCounts`). From the cardinality of units follow the
facts the ledgers use: a sum is a natural number (`SumNat`), adding a row adds
its amount (`SumAdd`, `SumEmpty`), sums are monotone in the rows
(`SumMonotone`), equal or covered where the amounts are (`SumSame`,
`SumCovered`), and changing one amount changes the sum by the difference
(`SumChange`).

**Commitments.** `CallsSound`: who is about to settle a commitment has read it,
and commitments stay; the rest of `SettledOnce` is `SettleOnce`'s.
`NeverOverdrawn` needs `Funds`: the ledger is finite, and between its balance
check and its INSERT a call of `commit` is the only one of its contributor and
can pay (`Counted`). A settlement in between only adds to what a contributor
has; a clawback is in no `Gross`.

**Payments and ledger.** `HandlersSound` says what a handler knows where it is:
the usage is credited when it comes to the entitlement, and what was paid is
there when it comes to the answer.
`HandlerMoves` reduces the handlers' steps to one lemma. For the ledger,
`CallsCovered`: from the moment a call is sent until it settles or raises, its
row is reserved or settled at the worst case, whoever settled it.

**Budgets.** A call that has passed `reserve_call`'s checks and has not inserted
its row is in no sum of the ledger, so `WithinBudgets` is not inductive.
`Pledge` counts such a call at its worst case all the same, and `PledgesFit`
says that the pledges keep to the month, the day and, for a prepaid account,
to what was paid. Only `Reserve` raises a pledge, and under the lock on the
policy row the sums it compares are all the pledges there are. `PaidBefore`
needs `CreditedOnce` besides: the wallet counts a payment once, and only after
the gateway took it, however often it is delivered.

The properties of the finding runs are refuted, not proved. Only model-checked:
liveness (`CallsReturn`, `EveryJobSettles`, `Converges`,
`RepairedByReplay`), because TLAPS proves no ENABLED. Every invariant and every
action property the passing runs check is a theorem.

## 5. Plan

Modelled, checked and proved about: runs, the queue, projections, commitments,
payments and spending. What would come next:

| Module | Composes | Question |
|---|---|---|
| `ChildRuns` | run trees and budgets (`recursion_guard.py`), `start_run` | how far can concurrent creations exceed a budget that is checked before the creation? |
| `FileIntents` | `coordination.py` with runs and their leases | can two nodes hold overlapping files? |
| `DelegateRelay` | `delegate.py`: tasks, agents, people | is a task answered once, and by its claimant? what becomes of a dead agent's task? |
| `Submissions` | `economy/submissions.py` on the ledger of `GoalCommitments` | is a review's reward paid once, and with the decision it is for? |

### Not modelled

- Run entry points, rooms, publication, shards, memory and claims, goals and
  procedures as such: single-statement writes, or callers of the protocols
  above; what they write to the outbox and to commitments is in those models.
- Extraction, retrieval, ranking, standing, screening, scoring, debate,
  evaluation and benchmarks: numeric or textual computations on data; they keep
  no state another actor races for.
- MCP server, provider clients, routing, local agent, front ends: façades,
  network and formatting.
- Authentication and authorisation: predicates over rows, row-level security.
- Moderation: decisions of people, single statements each.
