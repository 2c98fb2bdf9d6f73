---------------------------- MODULE RunLifecycle ----------------------------
(***************************************************************************)
(* What one durable run promises to those who read its row: the status     *)
(* machine migrations 36, 60, 75 and 77 describe, with every detail of     *)
(* workers, leases, attempts and snapshots left out.                       *)
(*                                                                         *)
(*   - a node that has succeeded stays so;                                 *)
(*   - a run is held for verification, or succeeds, only when every node   *)
(*     has succeeded, and a run that succeeded never changes again;        *)
(*   - a final outcome is shown exactly while the run is terminal.         *)
(*                                                                         *)
(* DurableRun implements this specification (property Lifecycle there).    *)
(***************************************************************************)
CONSTANTS
  Nodes,      \* the nodes of the run's task graph
  None        \* SQL NULL

VARIABLES
  status,     \* execution_runs.status
  outcome,    \* execution_runs.final_outcome
  succeeded   \* the nodes whose status is 'succeeded'

lifecycleVars == <<status, outcome, succeeded>>

Init ==
  /\ status = "pending"
  /\ outcome = None
  /\ succeeded = {}

\* Some nodes' work is accepted; the run's own row does not change.
NodesSucceed ==
  /\ \E done \in SUBSET Nodes : succeeded' = succeeded \cup done
  /\ UNCHANGED <<status, outcome>>

\* A driver takes the run up: for the first time, after a park or a failure.
Activate ==
  /\ status \in {"pending", "paused", "failed"}
  /\ status' = "running"
  /\ outcome' = None
  /\ UNCHANGED succeeded

\* A side-effecting node crashed: the run waits for a decision.
Park ==
  /\ status = "running"
  /\ status' = "paused"
  /\ UNCHANGED <<outcome, succeeded>>

\* All the work is done, the required evidence is not.
HoldForVerification ==
  /\ status = "running"
  /\ succeeded = Nodes
  /\ status' = "awaiting_verification"
  /\ UNCHANGED <<outcome, succeeded>>

Succeed ==
  /\ status \in {"running", "awaiting_verification"}
  /\ succeeded = Nodes
  /\ status' = "succeeded"
  /\ outcome' = "success"
  /\ UNCHANGED succeeded

Fail ==
  /\ status \in {"running", "awaiting_verification"}
  /\ status' = "failed"
  /\ outcome' \in {"failure", "needs_rework"}
  /\ UNCHANGED succeeded

Next ==
  \/ NodesSucceed
  \/ Activate
  \/ Park
  \/ HoldForVerification
  \/ Succeed
  \/ Fail

Spec == Init /\ [][Next]_lifecycleVars
=============================================================================
