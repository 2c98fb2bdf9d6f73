----------------------------- MODULE DurableRun -----------------------------
(***************************************************************************)
(* One durable execution run (backend/app/execution/durable_run.py): its   *)
(* execution_runs row, its execution_run_nodes rows, and everyone who      *)
(* writes them.                                                            *)
(*                                                                         *)
(*   - drivers: calls of execute_run, resume_run and retry_node.  Each has *)
(*     a fresh worker id (durable_graph and api/runs generate one per      *)
(*     call), takes the run's lease and walks the graph over a snapshot;   *)
(*   - host reports: calls of report_node_progress, which need no lease;   *)
(*   - verification: evidence arrives, finalize_after_verification acts;   *)
(*   - a failed child run that fails its parent's node (recursion_guard).  *)
(*                                                                         *)
(* Every SQL statement or transaction is one step, so is every read; what  *)
(* a driver does between two of them is local and joins the next step.     *)
(* Leases are flags that time may turn (RunLeaseExpires, NodeLeaseExpires) *)
(* because nothing renews them.  A statement the database rejects (the     *)
(* terminal fence of migration 36, the transition fence of migration 75)   *)
(* leaves the row alone and makes its caller unwind.                       *)
(***************************************************************************)
EXTENDS Integers, FiniteSets, Sequences, FiniteSetsExt

CONSTANTS
  Nodes,          \* node_order values
  Deps,           \* [Nodes -> SUBSET Nodes], the graph's dependencies
  SideEffecting,  \* the nodes flagged side_effecting
  ChildNodes,     \* the nodes that stand for a child run
  MaxAttempts,    \* max_attempts a node starts with
  Workers,        \* driver calls, named by their worker ids
  Hosts,          \* report_node_progress calls
  Verifiers,      \* finalize_after_verification calls
  HostId,         \* the worker id a host report uses for a node
  None,           \* SQL NULL
  Operations,     \* which of the driver operations are called
  Results,        \* how a node's callback may end
  Evidence        \* how the required verification may stand at the start

ASSUME DurableRunAssumption ==
  /\ Nodes \subseteq Nat /\ IsFiniteSet(Nodes) /\ Nodes # {}
  /\ Deps \in [Nodes -> SUBSET Nodes]
  /\ SideEffecting \subseteq Nodes
  /\ ChildNodes \subseteq Nodes
  /\ MaxAttempts \in Nat \ {0}
  /\ None \notin Workers /\ HostId \notin Workers /\ HostId # None
  /\ Operations \subseteq {"execute", "resume", "retry", "force"}
  /\ Results \subseteq {"ok", "retryable", "fatal", "lost"}
  /\ Evidence \subseteq {"met", "unmet"}
  /\ None \notin {"success", "failure", "needs_rework",
                  "failed_verification"}

VARIABLES
  run,        \* the execution_runs row
  node,       \* the execution_run_nodes rows
  execs,      \* outcomes of the executions rows appended for the run
  episode,    \* outcome the run's episode was closed with, or None
  verif,      \* what compute_verification_satisfaction finds
  drv,        \* each driver's program counter and local variables
  host,       \* each host report's
  ver,        \* each verifier's
  ran,        \* history: how often drivers started each node's callback
  parked,     \* history: nodes parked and not decided on since
  ousted,     \* history: drivers whose run lease ended while they had it
  endings     \* history: how often the run became terminal

histories == <<ran, parked, ousted, endings>>
vars == <<run, node, execs, episode, verif, drv, host, ver, histories>>
-----------------------------------------------------------------------------
(* Rows and statuses *)

RunStatuses ==
  {"pending", "running", "paused", "awaiting_verification",
   "succeeded", "failed"}

NodeStatuses ==
  {"pending", "running", "succeeded", "failed", "blocked", "resumable"}

Outcomes == {"success", "failure", "needs_rework"}

\* The edges migration 75's trigger lets an UPDATE of the run take.
\* 'cancelled' is a legal target of each, but nothing in the code writes it.
StatusFence ==
  { <<"pending", "running">>,
    <<"running", "succeeded">>, <<"running", "failed">>,
    <<"running", "paused">>, <<"running", "awaiting_verification">>,
    <<"paused", "running">>,
    <<"failed", "running">>,
    <<"awaiting_verification", "succeeded">>,
    <<"awaiting_verification", "failed">> }

\* Migration 36's trigger: a succeeded node's status cannot be rewritten.
Unfenced(n) == FALSE    \* mutant: the trigger is missing

Fenced(n) == node[n].st = "succeeded"

FreshNode ==
  [st |-> "pending", att |-> 0, max |-> MaxAttempts, own |-> None,
   late |-> FALSE, ec |-> "none"]

\* A driver's local variables before they have been assigned, and again
\* when they are no longer read.
NewFrame ==
  [pc |-> "idle", op |-> "execute", todo |-> {}, prog |-> FALSE, att |-> 0,
   verdict |-> "failure", rows |-> [n \in Nodes |-> FreshNode],
   view |-> [n \in Nodes |-> "pending"]]

\* start_run inserts the run, its nodes and its open episode in one
\* transaction, so this is the first state anyone can see.
Init ==
  /\ run = [st |-> "pending", own |-> None, late |-> FALSE,
            outcome |-> None, exec |-> 0]
  /\ node = [n \in Nodes |-> FreshNode]
  /\ execs = << >>
  /\ episode = None
  /\ verif \in Evidence
  /\ drv = [w \in Workers |-> NewFrame]
  /\ host = [h \in Hosts |-> [pc |-> "idle", n |-> Min(Nodes), att |-> 0]]
  /\ ver = [v \in Verifiers |-> "idle"]
  /\ ran = [n \in Nodes |-> 0]
  /\ parked = {}
  /\ ousted = {}
  /\ endings = 0

StatusOnly(n, status) ==    \* mutant: the owner is forgotten
  [node EXCEPT ![n].st = status]

\* A lease matters only while its row is owned, so an unowned row's flag
\* is kept FALSE.
SetStatus(n, status) ==
  [node EXCEPT ![n].st = status, ![n].own = None, ![n].late = FALSE]

\* _mark: an unconditional UPDATE, whoever owns the row.
Mark(n, status) == node' = SetStatus(n, status)

ClaimableUnlessRunning(n, id) ==    \* mutant: NOT IN ('running')
  /\ node[n].st # "running"
  /\ node[n].own \in {None, id} \/ node[n].late

\* _node_claim: the UPDATE and its WHERE clause.
Claimable(n, id) ==
  /\ node[n].st \in {"pending", "failed", "resumable"}
  /\ node[n].own \in {None, id} \/ node[n].late

Claim(n, id, attempt) ==
  node' = [node EXCEPT ![n].st = "running", ![n].att = attempt,
                       ![n].own = id, ![n].late = FALSE]

AcceptKeepingOwner(n, id) ==    \* mutant: worker_id=NULL is forgotten
  node' = IF node[n].own = id THEN [node EXCEPT ![n].st = "succeeded"]
                              ELSE node

RejectKeepingOwner(n, id, class) ==    \* mutant: the same on a failure
  node' = IF node[n].own = id
            THEN [node EXCEPT ![n].st = "failed", ![n].ec = class]
            ELSE node

\* _node_finish: fenced by the worker id alone.
Accept(n, id) ==
  node' = IF node[n].own = id THEN SetStatus(n, "succeeded") ELSE node

Reject(n, id, class) ==
  node' = IF node[n].own = id
            THEN [SetStatus(n, "failed") EXCEPT ![n].ec = class]
            ELSE node

CloseOnSuccess(outcome) ==    \* mutant: a failing run forgets its episode
  episode' = IF episode = None /\ outcome = "success" THEN outcome
                                                      ELSE episode

\* _close_episode_and_enqueue_consolidation: only the first close counts.
CloseEpisode(outcome) ==
  episode' = IF episode = None THEN outcome ELSE episode

\* A write that clears the run's lease, whoever has it.
Oust(by) == ousted' = ousted \cup ({run.own} \ {by, None})

EndRunUnnamed(by, status, outcome, exec, closing) ==
                              \* mutant: final_execution_id is not written
  /\ run' = [run EXCEPT !.st = status, !.own = None, !.late = FALSE,
                        !.outcome = outcome]
  /\ Oust(by)
  /\ CloseEpisode(closing)
  /\ endings' = endings + 1

\* The run becomes terminal and names the executions row it ends with; its
\* episode is closed in the same transaction.
EndRun(by, status, outcome, exec, closing) ==
  /\ run' = [st |-> status, own |-> None, late |-> FALSE,
             outcome |-> outcome, exec |-> exec]
  /\ Oust(by)
  /\ CloseEpisode(closing)
  /\ endings' = endings + 1

Terminal == run.st \in {"succeeded", "failed"}
-----------------------------------------------------------------------------
(* Taking and giving back the run's lease *)

\* A driver moves on with the locals it has, or leaves them behind.
Goto(w, label) == drv' = [drv EXCEPT ![w].pc = label]
Leave(w, label) == drv' = [drv EXCEPT ![w] = [NewFrame EXCEPT !.pc = label]]

AnyLease(id) == TRUE    \* mutant: the WHERE clause's lease test is missing

\* _claim_run's lease test
LeaseFree(id) == run.own \in {None, id} \/ run.late

ActivatedKeepingOutcome(id) ==    \* mutant: the final fields are not cleared
  [run EXCEPT !.st = IF @ = "awaiting_verification" THEN @ ELSE "running",
              !.own = id, !.late = FALSE]

\* The row _claim_run leaves: a failed run loses its final fields.
Activated(id) ==
  [st |-> IF run.st = "awaiting_verification" THEN run.st ELSE "running",
   own |-> id, late |-> FALSE,
   outcome |-> IF run.st = "failed" THEN None ELSE run.outcome,
   exec |-> IF run.st = "failed" THEN 0 ELSE run.exec]

\* _claim_run and the start of execute_run, resume_run and retry_node.  A
\* call that finds a succeeded run, or another worker's live lease, returns
\* or raises without a write: no step.
CallDriver(w, op, n) ==
  /\ drv[w].pc = "idle"
  /\ run.st # "succeeded"
  /\ LeaseFree(w)
  /\ run' = Activated(w)
  /\ drv' = [drv EXCEPT
               ![w].pc = CASE op = "execute" -> "loadRun"
                           [] op = "resume" -> "loadFailed"
                           [] OTHER -> "readTarget",
               ![w].op = op,
               ![w].todo = IF op \in {"retry", "force"} THEN {n} ELSE {}]
  /\ UNCHANGED <<node, execs, episode, verif, host, ver, histories>>

\* _release_run, reached by the finally of every driver.
ReleaseRun(w) ==
  /\ drv[w].pc = "release"
  /\ run' = IF run.own = w /\ ~Terminal
              THEN [run EXCEPT !.own = None, !.late = FALSE]
              ELSE run
  /\ Leave(w, "done")
  /\ UNCHANGED <<node, execs, episode, verif, host, ver, histories>>

\* The process dies: nothing is written, the leases are left to run out.
CrashWorker(w) ==
  /\ drv[w].pc \notin {"idle", "done"}
  /\ Leave(w, "done")
  /\ UNCHANGED <<run, node, execs, episode, verif, host, ver, histories>>

\* RUN_LEASE_SECONDS pass; no driver renews the lease while it works.
RunLeaseExpires ==
  /\ run.own # None
  /\ ~run.late
  /\ run' = [run EXCEPT !.late = TRUE]
  /\ ousted' = ousted \cup {run.own}
  /\ UNCHANGED <<node, execs, episode, verif, drv, host, ver,
                 ran, parked, endings>>

\* NODE_LEASE_SECONDS pass since the node was claimed.
NodeLeaseExpires(n) ==
  /\ node[n].own # None
  /\ ~node[n].late
  /\ node' = [node EXCEPT ![n].late = TRUE]
  /\ UNCHANGED <<run, execs, episode, verif, drv, host, ver, histories>>
-----------------------------------------------------------------------------
(* resume_run: re-arm the failures that may be retried *)

\* The node a driver is at: the smallest it still has to visit.
Current(w) == Min(drv[w].todo)

OneMoreAttempt(row) == row.att <= row.max    \* mutant: off by one

AttemptsLeft(row) == row.att < row.max

MayRetry(n) ==
  /\ node[n].st = "failed"
  /\ node[n].ec = "retryable"
  /\ AttemptsLeft(node[n])

LoadFailedBlindly(w) ==    \* mutant: the loop is entered with nothing to do
  /\ drv[w].pc = "loadFailed"
  /\ drv' = [drv EXCEPT ![w].todo = {n \in Nodes : MayRetry(n)},
                        ![w].pc = "rearmFailed"]
  /\ UNCHANGED <<run, node, execs, episode, verif, host, ver, histories>>

LoadFailed(w) ==
  /\ drv[w].pc = "loadFailed"
  /\ LET again == {n \in Nodes : MayRetry(n)}
     IN  drv' = [drv EXCEPT ![w].todo = again,
                            ![w].pc = IF again = {} THEN "loadRun"
                                                    ELSE "rearmFailed"]
  /\ UNCHANGED <<run, node, execs, episode, verif, host, ver, histories>>

\* One _mark of the pre-pass.  It stands before resume_run's try, so a
\* rejected UPDATE leaves the run's lease taken.
RearmFailed(w) ==
  LET n == Current(w)
      left == drv[w].todo \ {n}
  IN
  /\ drv[w].pc = "rearmFailed"
  /\ IF Fenced(n)
       THEN UNCHANGED node /\ Leave(w, "done")
       ELSE /\ Mark(n, "resumable")
            /\ drv' = [drv EXCEPT ![w].todo = left,
                                  ![w].pc = IF left = {} THEN "loadRun"
                                                         ELSE "rearmFailed"]
  /\ UNCHANGED <<run, execs, episode, verif, host, ver, histories>>
-----------------------------------------------------------------------------
(* retry_node: an explicit decision on one node *)

ReadTarget(w) ==
  LET n == Current(w)
      retryable == \/ node[n].st \in {"failed", "resumable", "blocked"}
                   \/ drv[w].op = "force" /\ node[n].st # "succeeded"
  IN
  /\ drv[w].pc = "readTarget"
  /\ IF retryable THEN Goto(w, "rearmTarget") ELSE Leave(w, "release")
  /\ UNCHANGED <<run, node, execs, episode, verif, host, ver, histories>>

\* The node's UPDATE is keyed by its id only: it may take the node away
\* from a live claim.
RearmTarget(w) ==
  LET n == Current(w)
      bump == IF drv[w].op = "force" THEN 1 ELSE 0
  IN
  /\ drv[w].pc = "rearmTarget"
  /\ IF Fenced(n)
       THEN UNCHANGED <<node, parked>> /\ Leave(w, "release")
       ELSE /\ node' = [SetStatus(n, "resumable") EXCEPT ![n].max = @ + bump]
            /\ parked' = parked \ {n}
            /\ Leave(w, "reactivate")
  /\ UNCHANGED <<run, execs, episode, verif, host, ver,
                 ran, ousted, endings>>

Reactivate(w) ==
  /\ drv[w].pc = "reactivate"
  /\ run' = IF run.st \in {"paused", "failed", "pending"}
              THEN [run EXCEPT !.st = "running", !.outcome = None, !.exec = 0]
              ELSE run
  /\ Leave(w, "loadRun")
  /\ UNCHANGED <<node, execs, episode, verif, host, ver, histories>>
-----------------------------------------------------------------------------
(* _drive: one pass over a snapshot, again while a pass made progress *)

\* _load reads the run first and the nodes in a second statement.
LoadRun(w) ==
  /\ drv[w].pc = "loadRun"
  /\ Goto(w, IF Terminal THEN "final" ELSE "loadNodes")
  /\ UNCHANGED <<run, node, execs, episode, verif, host, ver, histories>>

Statuses == [n \in Nodes |-> node[n].st]

\* rows is the snapshot the loop iterates over, view the statuses its
\* dependency checks use: a reload inside the loop rebinds view only.
LoadNodes(w) ==
  /\ drv[w].pc = "loadNodes"
  /\ drv' = [drv EXCEPT ![w].rows = node, ![w].view = Statuses,
                        ![w].prog = FALSE,
                        ![w].todo = {n \in Nodes :
                                       node[n].st \notin {"succeeded", "failed"}},
                        ![w].pc = "visit"]
  /\ UNCHANGED <<run, node, execs, episode, verif, host, ver, histories>>

EndPass(w) ==
  /\ drv[w].pc = "visit"
  /\ drv[w].todo = {}
  /\ Leave(w, IF drv[w].prog THEN "loadRun" ELSE "final")
  /\ UNCHANGED <<run, node, execs, episode, verif, host, ver, histories>>

ReadyUnlessBlocked(n, view) ==    \* mutant: a running blocker is ignored
  \A d \in Deps[n] : view[d] \notin {"failed", "blocked"}

\* _ready and _blocked
Ready(n, view) == \A d \in Deps[n] : view[d] = "succeeded"
Blocked(n, view) == \E d \in Deps[n] : view[d] \in {"failed", "blocked"}

\* Whether the lease in the snapshot's row is over when the loop looks at
\* it.  The clock has not passed the lease of a claim that stands with its
\* lease ahead; of one that is gone from the table, or whose lease a lost
\* worker has since put into the past, the old lease may be over or not.
LateSeen(w, n) ==
  LET seen == drv[w].rows[n]
      stands == node[n].own = seen.own /\ node[n].att = seen.att
  IN  IF seen.st # "running" THEN {FALSE}
      ELSE IF seen.late THEN {TRUE}
      ELSE IF stands /\ ~node[n].late THEN {FALSE}
      ELSE BOOLEAN

Visiting(w, label) == drv[w].pc = label /\ drv[w].todo # {}

\* The loop's body after the crash check; before its readiness check.
AtGate(w) ==
  \/ Visiting(w, "gate")
  \/ Visiting(w, "visit") /\ FALSE \in LateSeen(w, Current(w))

AtEntry(w) ==
  LET n == Current(w)
  IN  \/ Visiting(w, "enter")
      \/ /\ AtGate(w)
         /\ drv[w].rows[n].st \notin {"failed", "blocked"}
         /\ ~Blocked(n, drv[w].view)

\* Leave the current node for the next one; progress is remembered.
NextNode(w, progress) ==
  drv' = [drv EXCEPT ![w].pc = "visit",
                     ![w].todo = @ \ {Current(w)},
                     ![w].rows[Current(w)] = FreshNode,
                     ![w].att = 0,
                     ![w].prog = @ \/ progress]

\* A crashed node that is pure is re-armed, one that has side effects is
\* re-armed and the run parked by a second transaction (ParkRun).
RearmCrashed(w) ==
  LET n == Current(w)
      safe == n \notin SideEffecting
  IN
  /\ Visiting(w, "visit")
  /\ TRUE \in LateSeen(w, n)
  /\ IF Fenced(n)
       THEN UNCHANGED <<node, parked>> /\ Leave(w, "release")
       ELSE /\ Mark(n, "resumable")
            /\ parked' = IF safe THEN parked ELSE parked \cup {n}
            /\ IF safe THEN Goto(w, "reloadCrashed") ELSE Leave(w, "parkRun")
  /\ UNCHANGED <<run, execs, episode, verif, host, ver,
                 ran, ousted, endings>>

ParkRun(w) ==
  /\ drv[w].pc = "parkRun"
  /\ run' = IF run.st = "running" THEN [run EXCEPT !.st = "paused"] ELSE run
  /\ Leave(w, "release")
  /\ UNCHANGED <<node, execs, episode, verif, host, ver, histories>>

\* The two reloads inside the loop; the code goes on from where it was.
ReloadNode(w) ==
  LET n == Current(w)
  IN
  /\ drv[w].pc \in {"reloadCrashed", "reloadUnblocked"}
  /\ drv' = [drv EXCEPT ![w].view = Statuses, ![w].rows[n] = node[n],
                        ![w].pc = IF @ = "reloadCrashed" THEN "gate"
                                                         ELSE "enter"]
  /\ UNCHANGED <<run, node, execs, episode, verif, host, ver, histories>>

\* A node that failed, is blocked already, or is not ready is passed over.
SkipNode(w) ==
  LET n == Current(w)
      seen == drv[w].rows[n]
  IN
  /\ \/ AtGate(w) /\ seen.st = "failed"
     \/ AtGate(w) /\ seen.st = "blocked" /\ Blocked(n, drv[w].view)
     \/ AtEntry(w) /\ ~Ready(n, drv[w].view)
  /\ NextNode(w, FALSE)
  /\ UNCHANGED <<run, node, execs, episode, verif, host, ver, histories>>

BlockNode(w) ==
  LET n == Current(w)
  IN
  /\ AtGate(w)
  /\ drv[w].rows[n].st \notin {"failed", "blocked"}
  /\ Blocked(n, drv[w].view)
  /\ IF Fenced(n)
       THEN UNCHANGED node /\ Leave(w, "release")
       ELSE Mark(n, "blocked") /\ NextNode(w, TRUE)
  /\ UNCHANGED <<run, execs, episode, verif, host, ver, histories>>

UnblockNode(w) ==
  LET n == Current(w)
  IN
  /\ AtGate(w)
  /\ drv[w].rows[n].st = "blocked"
  /\ ~Blocked(n, drv[w].view)
  /\ IF Fenced(n)
       THEN UNCHANGED node /\ Leave(w, "release")
       ELSE /\ Mark(n, "pending")
            /\ drv' = [drv EXCEPT ![w].pc = "reloadUnblocked",
                                  ![w].prog = TRUE]
  /\ UNCHANGED <<run, execs, episode, verif, host, ver, histories>>
-----------------------------------------------------------------------------
(* _run_one_node: claim, call back outside any transaction, record *)

\* The loop is entered while attempts remain in the snapshot's row.  With
\* none left it reports "failed" without a write, and the pass ends.
StartNode(w) ==
  LET n == Current(w)
      seen == drv[w].rows[n]
  IN
  /\ AtEntry(w)
  /\ Ready(n, drv[w].view)
  /\ IF AttemptsLeft(seen)
       THEN drv' = [drv EXCEPT ![w].att = seen.att, ![w].prog = TRUE,
                               ![w].pc = "claim"]
       ELSE Leave(w, "loadRun")
  /\ UNCHANGED <<run, node, execs, episode, verif, host, ver, histories>>

\* The attempt written is the driver's own count, not the row's plus one.
ClaimNode(w) ==
  LET n == Current(w)
      attempt == drv[w].att + 1
  IN
  /\ drv[w].pc = "claim"
  /\ IF Claimable(n, w)
       THEN /\ Claim(n, w, attempt)
            /\ ran' = [ran EXCEPT ![n] = @ + 1]
            /\ drv' = [drv EXCEPT ![w].att = attempt, ![w].pc = "exec"]
       ELSE UNCHANGED <<node, ran>> /\ Goto(w, "claimLost")
  /\ UNCHANGED <<run, execs, episode, verif, host, ver,
                 parked, ousted, endings>>

ReclaimLostNode(w) ==    \* mutant: a lost claim is tried again
  /\ drv[w].pc = "claimLost"
  /\ IF node[Current(w)].st = "succeeded" THEN NextNode(w, TRUE)
                                          ELSE Goto(w, "claim")
  /\ UNCHANGED <<run, node, execs, episode, verif, host, ver, histories>>

ReadLostClaim(w) ==
  /\ drv[w].pc = "claimLost"
  /\ IF node[Current(w)].st = "succeeded" THEN NextNode(w, TRUE)
                                          ELSE Leave(w, "loadRun")
  /\ UNCHANGED <<run, node, execs, episode, verif, host, ver, histories>>

\* The callback returned; its result counts if the claim still stands.
FinishNode(w) ==
  /\ drv[w].pc = "exec"
  /\ "ok" \in Results
  /\ Accept(Current(w), w)
  /\ NextNode(w, TRUE)
  /\ UNCHANGED <<run, execs, episode, verif, host, ver, histories>>

\* The callback raised: a retryable failure is retried at once while
\* attempts remain, any other ends the pass.
FailNode(w) ==
  LET n == Current(w)
  IN
  /\ drv[w].pc = "exec"
  /\ \E class \in Results \cap {"retryable", "fatal"} :
       /\ Reject(n, w, class)
       /\ IF class = "retryable" /\ drv[w].att < drv[w].rows[n].max
            THEN Goto(w, "claim")
            ELSE Leave(w, "loadRun")
  /\ UNCHANGED <<run, execs, episode, verif, host, ver, histories>>

\* WorkerLost: the node's lease is put in the past, whoever holds it, and
\* the driver unwinds.
LoseWorker(w) ==
  LET n == Current(w)
  IN
  /\ drv[w].pc = "exec"
  /\ "lost" \in Results
  /\ node' = [node EXCEPT ![n].late = (node[n].own # None)]
  /\ Leave(w, "release")
  /\ UNCHANGED <<run, execs, episode, verif, host, ver, histories>>
-----------------------------------------------------------------------------
(* _finalize: the run's outcome from its nodes *)

NodesIn(statuses) == {n \in Nodes : node[n].st \in statuses}

NoneFailed == NodesIn({"failed", "blocked"}) = {}    \* mutant

AllDone == NodesIn({"succeeded"}) = Nodes

\* The nodes are read, and if all succeeded the verification results are:
\* one step, for nodes that have succeeded stay so between the two reads.
\* The outcome is a local decision that later steps write.
DecideOutcome(w) ==
  /\ drv[w].pc = "final"
  /\ drv' = [drv EXCEPT
       ![w].pc = CASE AllDone ->
                        IF verif = "met" THEN "succeed" ELSE "hold"
                   [] NodesIn({"failed", "blocked"}) # {} -> "fail"
                   [] OTHER -> "release",
       ![w].verdict = IF NodesIn({"succeeded"}) # {} THEN "needs_rework"
                                                     ELSE "failure"]
  /\ UNCHANGED <<run, node, execs, episode, verif, host, ver, histories>>

HoldRun(w) ==
  /\ drv[w].pc = "hold"
  /\ IF run.st = "running"
       THEN /\ run' = [run EXCEPT !.st = "awaiting_verification",
                                 !.own = None, !.late = FALSE]
            /\ Oust(w)
       ELSE UNCHANGED <<run, ousted>>
  /\ Leave(w, "release")
  /\ UNCHANGED <<node, execs, episode, verif, host, ver,
                 ran, parked, endings>>

PersistUnguarded(by, from) ==    \* mutant: the status test is dropped
  /\ execs' = Append(execs, "success")
  /\ EndRun(by, "succeeded", "success", Len(execs) + 1, "success")

\* _persist_success_transition: the executions row is appended before the
\* guarded UPDATE and stays if that UPDATE finds no row.
PersistSuccess(by, from) ==
  /\ execs' = Append(execs, "success")
  /\ IF run.st = from
       THEN EndRun(by, "succeeded", "success", Len(execs) + 1, "success")
       ELSE UNCHANGED <<run, episode, ousted, endings>>

SucceedRun(w) ==
  /\ drv[w].pc = "succeed"
  /\ PersistSuccess(w, "running")
  /\ Leave(w, "release")
  /\ UNCHANGED <<node, verif, host, ver, ran, parked>>

\* The failing branch has the same order; an edge the transition fence
\* refuses rolls the appended row back.
FailRun(w) ==
  LET outcome == drv[w].verdict
  IN
  /\ drv[w].pc = "fail"
  /\ IF Terminal
       THEN /\ execs' = Append(execs, outcome)
            /\ UNCHANGED <<run, episode, ousted, endings>>
       ELSE IF <<run.st, "failed">> \in StatusFence
       THEN /\ execs' = Append(execs, outcome)
            /\ EndRun(w, "failed", outcome, Len(execs) + 1, outcome)
       ELSE UNCHANGED <<run, execs, episode, ousted, endings>>
  /\ Leave(w, "release")
  /\ UNCHANGED <<node, verif, host, ver, ran, parked>>
-----------------------------------------------------------------------------
(* report_node_progress: a host reports one node's outcome *)

GotoHost(h, label) == host' = [host EXCEPT ![h].pc = label]

ReadReported(h, n) ==
  /\ host[h].pc = "idle"
  /\ host' = [host EXCEPT ![h] = [pc |-> "claim", n |-> n,
                                  att |-> node[n].att + 1]]
  /\ UNCHANGED <<run, node, execs, episode, verif, drv, ver, histories>>

ClaimReported(h) ==
  LET n == host[h].n
  IN
  /\ host[h].pc = "claim"
  /\ IF Claimable(n, HostId)
       THEN Claim(n, HostId, host[h].att) /\ GotoHost(h, "finish")
       ELSE UNCHANGED node /\ GotoHost(h, "done")
  /\ UNCHANGED <<run, execs, episode, verif, drv, ver, histories>>

FinishReported(h) ==
  LET n == host[h].n
  IN
  /\ host[h].pc = "finish"
  /\ \/ Accept(n, HostId)
     \/ \E class \in {"retryable", "fatal"} : Reject(n, HostId, class)
  /\ GotoHost(h, "done")
  /\ UNCHANGED <<run, execs, episode, verif, drv, ver, histories>>
-----------------------------------------------------------------------------
(* Verification, and a child run that failed *)

\* A verification result is upserted: the last one recorded counts.
RecordEvidence ==
  /\ Verifiers # {}
  /\ verif' \in {"met", "failed"} \ {verif}
  /\ UNCHANGED <<run, node, execs, episode, drv, host, ver, histories>>

\* finalize_after_verification's reads; unmet evidence is a no-op.
ReadEvidence(v) ==
  /\ ver[v] = "idle"
  /\ run.st = "awaiting_verification"
  /\ verif \in {"met", "failed"}
  /\ ver' = [ver EXCEPT ![v] = verif]
  /\ UNCHANGED <<run, node, execs, episode, verif, drv, host, histories>>

\* Its write.  No executions row is appended for a failed verification.
ApplyEvidence(v) ==
  /\ \/ ver[v] = "met" /\ PersistSuccess(None, "awaiting_verification")
     \/ /\ ver[v] = "failed"
        /\ UNCHANGED execs
        /\ IF run.st = "awaiting_verification"
             THEN EndRun(None, "failed", "failure", run.exec,
                         "failed_verification")
             ELSE UNCHANGED <<run, episode, ousted, endings>>
  /\ ver' = [ver EXCEPT ![v] = "done"]
  /\ UNCHANGED <<node, verif, drv, host, ran, parked>>

\* decide_child_failure_strategy's fail_parent: budgets are exhausted and
\* the node's child run has failed.
FailParentNode(n) ==
  /\ node[n].st \notin {"succeeded", "failed"}
  /\ node' = [SetStatus(n, "failed") EXCEPT ![n].ec = "fatal"]
  /\ UNCHANGED <<run, execs, episode, verif, drv, host, ver, histories>>
-----------------------------------------------------------------------------
(* The whole *)

\* What a driver does by itself once it has been called.
Drive(w) ==
  \/ LoadFailed(w) \/ RearmFailed(w)
  \/ ReadTarget(w) \/ RearmTarget(w) \/ Reactivate(w)
  \/ LoadRun(w) \/ LoadNodes(w) \/ EndPass(w)
  \/ RearmCrashed(w) \/ ParkRun(w) \/ ReloadNode(w)
  \/ SkipNode(w) \/ BlockNode(w) \/ UnblockNode(w)
  \/ StartNode(w) \/ ClaimNode(w) \/ ReadLostClaim(w)
  \/ FinishNode(w) \/ FailNode(w) \/ LoseWorker(w)
  \/ DecideOutcome(w) \/ HoldRun(w) \/ SucceedRun(w) \/ FailRun(w)
  \/ ReleaseRun(w)

Report(h) == ClaimReported(h) \/ FinishReported(h)

Next ==
  \/ \E w \in Workers, op \in Operations, n \in Nodes : CallDriver(w, op, n)
  \/ \E w \in Workers : Drive(w)
  \/ \E w \in Workers : CrashWorker(w)
  \/ RunLeaseExpires
  \/ \E n \in Nodes : NodeLeaseExpires(n)
  \/ \E h \in Hosts, n \in Nodes : ReadReported(h, n)
  \/ \E h \in Hosts : Report(h)
  \/ RecordEvidence
  \/ \E v \in Verifiers : ReadEvidence(v) \/ ApplyEvidence(v)
  \/ \E n \in ChildNodes : FailParentNode(n)

Spec == Init /\ [][Next]_vars

\* A driver that has been called runs, and time passes.  Nobody has to call a
\* driver, to die, to report or to bring evidence.
Fairness ==
  /\ \A w \in Workers : WF_(drv[w])(Drive(w))
  /\ \A n \in Nodes : WF_(node[n])(NodeLeaseExpires(n))

FairSpec == Spec /\ Fairness
-----------------------------------------------------------------------------
(* Properties *)

NodeRows ==
  [st : NodeStatuses, att : Nat, max : Nat \ {0},
   own : Workers \cup {HostId, None}, late : BOOLEAN,
   ec : {"none", "retryable", "fatal"}]

DriverLabels ==
  {"idle", "loadFailed", "rearmFailed", "readTarget", "rearmTarget",
   "reactivate", "loadRun", "loadNodes", "visit", "gate", "enter",
   "reloadCrashed", "reloadUnblocked", "parkRun", "claim", "claimLost",
   "exec", "final", "hold", "succeed", "fail", "release", "done"}

\* Labels at which a driver is at a node it has not finished with.
AtNodeLabels ==
  {"rearmFailed", "readTarget", "rearmTarget", "gate", "enter",
   "reloadCrashed", "reloadUnblocked", "claim", "claimLost", "exec"}

Drivers ==
  [pc : DriverLabels, op : {"execute", "resume", "retry", "force"},
   todo : SUBSET Nodes, prog : BOOLEAN, att : Nat,
   verdict : {"failure", "needs_rework"},
   rows : [Nodes -> NodeRows], view : [Nodes -> NodeStatuses]]

RunTypeOK ==
  run \in [st : RunStatuses, own : Workers \cup {None}, late : BOOLEAN,
           outcome : Outcomes \cup {None}, exec : Nat]

NodeTypeOK == node \in [Nodes -> NodeRows]

\* A driver that is at a node has one.
DriverTypeOK ==
  /\ drv \in [Workers -> Drivers]
  /\ \A w \in Workers : drv[w].pc \in AtNodeLabels => drv[w].todo # {}

CallerTypeOK ==
  /\ host \in [Hosts -> [pc : {"idle", "claim", "finish", "done"},
                         n : Nodes, att : Nat]]
  /\ ver \in [Verifiers -> {"idle", "met", "failed", "done"}]

RecordTypeOK ==
  /\ execs \in Seq(Outcomes)
  /\ episode \in Outcomes \cup {"failed_verification", None}
  /\ verif \in {"met", "unmet", "failed"}
  /\ ran \in [Nodes -> Nat]
  /\ parked \subseteq Nodes
  /\ ousted \subseteq Workers
  /\ endings \in Nat

\* Every row and every local variable holds a value its column or its
\* variable may hold, and a driver that works on a node has one.
TypeOK ==
  /\ RunTypeOK
  /\ NodeTypeOK
  /\ DriverTypeOK
  /\ CallerTypeOK
  /\ RecordTypeOK

\* A node is owned exactly while it is running: _mark, _node_finish,
\* retry_node and fail_parent all release the owner with the status, so no
\* 'running' node is left without a lease that can expire, and no node is
\* armed while a claim on it is still accepted.
OwnedIffRunning ==
  \A n \in Nodes : node[n].own # None <=> node[n].st = "running"

\* A claim that still stands is that of the driver executing the node, under
\* the attempt the row records, or of a driver that has stopped: the worker
\* id is a sufficient fence for _node_finish.
ClaimHolderExecutes ==
  \A w \in Workers, n \in Nodes :
    node[n].own = w =>
      \/ drv[w].pc \in {"release", "done"}
      \/ drv[w].pc = "exec" /\ Current(w) = n /\ drv[w].att = node[n].att

\* Labels at which a driver is about to run, or runs, a node's callback.
RunningLabels == {"claim", "claimLost", "exec"}

\* A driver never runs a node before everything it depends on succeeded,
\* however old the snapshot it decides on is.
DependenciesFirst ==
  \A w \in Workers : drv[w].pc \in RunningLabels =>
    \A d \in Deps[Current(w)] : node[d].st = "succeeded"

Driving(w) == drv[w].pc \notin {"idle", "release", "done"}

\* Two calls drive one run at once only if the lease of one of them has
\* ended under it: a resume against a live lease is refused.
OneDriver ==
  \A w, v \in Workers :
    Driving(w) /\ Driving(v) /\ w # v => {w, v} \cap ousted # {}

\* The final fields agree with the status, with each other and with the
\* executions row they name (the CHECKs of migrations 37 and 77, and more).
FinalFieldsAgree ==
  /\ run.outcome # None <=> Terminal
  /\ run.outcome = "success" <=> run.st = "succeeded"
  /\ run.exec # 0 => Terminal
  /\ run.exec # 0 => run.exec <= Len(execs) /\ execs[run.exec] = run.outcome
  /\ run.st = "succeeded" => run.exec # 0

\* A run is held for verification, or succeeds, only with every node done.
SuccessMeansAllDone ==
  run.st \in {"awaiting_verification", "succeeded"} =>
    \A n \in Nodes : node[n].st = "succeeded"

\* A terminal run's episode is closed, and none is closed before.
EpisodeFollowsRun ==
  /\ Terminal => episode # None
  /\ episode # None <=> endings > 0

\* Drivers call a node back at most max_attempts times, as long as each
\* keeps its lease and no host report interferes.
RetryBounded ==
  ousted = {} => \A n \in Nodes : ran[n] <= node[n].max

\* Section 25: nothing rewrites a node that succeeded.
SucceededNodeFixed ==
  [][\A n \in Nodes : node[n].st = "succeeded" => node'[n] = node[n]]_vars

\* The run implements its abstract lifecycle.
Lifecycle == INSTANCE RunLifecycle WITH
  status <- run.st,
  outcome <- run.outcome,
  succeeded <- NodesIn({"succeeded"})

ImplementsLifecycle == Lifecycle!Spec

\* A node no driver will ever call again without a forced retry, though its
\* status asks for it.
Exhausted(n) ==
  node[n].st \in {"pending", "resumable"} /\ node[n].att >= node[n].max

\* Calls that were made return, unless an exhausted node keeps them: there is
\* always a later moment without a call under way (each is made only once).
CallsReturn ==
  []<>(\/ \A w \in Workers : ~Driving(w)
       \/ \E n \in Nodes : Exhausted(n))

\* "Retry is explicit and bounded": every call that was made returns.
EveryCallReturns == \A w \in Workers : Driving(w) ~> ~Driving(w)

\* "Parked ... call retry_node() with an explicit decision": as long as the
\* calls do not even overlap, only retry_node puts a parked node to work.
ParkedAwaitsDecision ==
  ousted = {} => \A n \in parked : node[n].st \notin {"running", "succeeded"}

\* "At most one immutable executions row is appended" each time a run ends:
\* as long as calls do not overlap, none is appended by another step.
OneExecutionPerEnding == ousted = {} => Len(execs) <= endings
=============================================================================
