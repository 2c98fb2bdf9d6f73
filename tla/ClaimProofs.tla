----------------------------- MODULE ClaimProofs -----------------------------
(***************************************************************************)
(* Theorems about DurableRun that relate what a driver knows to the rows:  *)
(* the claim it holds (ClaimHolderExecutes), the snapshot it decides on    *)
(* (DependenciesFirst) and the attempts it counts (RetryBounded).  They    *)
(* rest on the step lemmas of DurableRunProofs, on DriveFrame and, for the *)
(* snapshot, on SucceededStays; for the attempts, on LeaseHeld as well.    *)
(***************************************************************************)
EXTENDS LifecycleProofs

(* A claim and its holder *)

\* A write that gives no node a new owner and counts no attempt.
NoClaim ==
  \A n \in Nodes :
    /\ node'[n].own \in {None, node[n].own}
    /\ node'[n].att = node[n].att
    /\ node[n].max <= node'[n].max

\* No write is one.
LEMMA IdleClaimsNothing ==
  ASSUME TypeOK, UNCHANGED node
  PROVE  NoClaim
<1>1. \A n \in Nodes : node[n].max \in Nat BY DEF TypeOK, NodeTypeOK, NodeRows
<1> QED BY <1>1 DEF NoClaim

\* _mark, retry_node, fail_parent and a failing _node_finish give none.
LEMMA ReleaseClaimsNothing ==
  ASSUME TypeOK, NEW m \in Nodes, NEW status, NEW class, NEW more \in Nat,
         \/ node' = SetStatus(m, status)
         \/ node' = [SetStatus(m, status) EXCEPT ![m].ec = class]
         \/ node' = [SetStatus(m, status) EXCEPT ![m].max = @ + more]
  PROVE  NoClaim
<1>1. \A n \in Nodes : node[n].max \in Nat /\ node[n].max <= node[n].max + more
  BY DEF TypeOK, NodeTypeOK, NodeRows
<1> QED BY <1>1 DEF TypeOK, NodeTypeOK, NodeRows, SetStatus, NoClaim

\* Nor does a result, which takes the claim away from the one who held it.
LEMMA FinishClaimsNothing ==
  ASSUME TypeOK, NEW m \in Nodes, NEW id, id # None,
         \/ Accept(m, id)
         \/ \E class \in {"retryable", "fatal"} : Reject(m, id, class)
  PROVE  NoClaim /\ node'[m].own # id
<1>1. CASE node[m].own = id
  BY <1>1
  DEF Accept, Reject, SetStatus, TypeOK, NodeTypeOK, NodeRows, NoClaim
<1>2. CASE node[m].own # id
  BY <1>2, IdleClaimsNothing DEF Accept, Reject
<1> QED BY <1>1, <1>2

\* A claim gives the node it takes to the one who claims it.
LEMMA ClaimClaims ==
  ASSUME TypeOK, NEW m \in Nodes, NEW id, NEW attempt, Claim(m, id, attempt)
  PROVE  /\ node'[m].own = id /\ node'[m].att = attempt
         /\ \A n \in Nodes \ {m} : node'[n] = node[n]
BY DEF Claim, TypeOK, NodeTypeOK, NodeRows

\* A driver comes to own a node only by its own claim.
LEMMA OwnerStep ==
  ASSUME TypeOK, [Next]_vars
  PROVE  \/ NoClaim
         \/ \E h \in Hosts, m \in Nodes, attempt \in Nat : Claim(m, HostId, attempt)
         \/ \E w \in Workers :
              /\ ClaimNode(w)
              /\ Claimable(Current(w), w)
<1>1. CASE UNCHANGED node BY <1>1, IdleClaimsNothing
<1>2. ASSUME NEW w \in Workers, RearmFailed(w) PROVE NoClaim
  <2>1. Current(w) \in Nodes
    BY <1>2, CurrentNode DEF RearmFailed, AtNodeLabels, TypeOK, DriverTypeOK
  <2>2. UNCHANGED node \/ node' = SetStatus(Current(w), "resumable")
    BY <1>2 DEF RearmFailed, Mark
  <2>3. CASE node' = SetStatus(Current(w), "resumable")
    BY <2>1, <2>3, ReleaseClaimsNothing
  <2> QED BY <2>2, <2>3, IdleClaimsNothing
<1>3. ASSUME NEW w \in Workers, RearmTarget(w) PROVE NoClaim
  <2> DEFINE bump == IF drv[w].op = "force" THEN 1 ELSE 0
  <2>1. Current(w) \in Nodes
    BY <1>3, CurrentNode DEF RearmTarget, AtNodeLabels, TypeOK, DriverTypeOK
  <2>2. \/ UNCHANGED node
        \/ node' = [SetStatus(Current(w), "resumable")
                      EXCEPT ![Current(w)].max = @ + bump]
    BY <1>3 DEF RearmTarget
  <2>3. bump \in Nat OBVIOUS
  <2> HIDE DEF bump
  <2>4. CASE node' = [SetStatus(Current(w), "resumable")
                        EXCEPT ![Current(w)].max = @ + bump]
    BY <2>1, <2>3, <2>4, ReleaseClaimsNothing
  <2> QED BY <2>2, <2>4, IdleClaimsNothing
<1>4. ASSUME NEW w \in Workers, RearmCrashed(w) \/ BlockNode(w) \/ UnblockNode(w)
      PROVE  NoClaim
  <2>1. Current(w) \in Nodes
    BY <1>4, CurrentNode
    DEF RearmCrashed, BlockNode, UnblockNode, AtGate, Visiting
  <2>2. UNCHANGED node \/ \E status \in NodeStatuses :
                            node' = SetStatus(Current(w), status)
    BY <1>4 DEF RearmCrashed, BlockNode, UnblockNode, Mark, NodeStatuses
  <2>3. ASSUME NEW status, node' = SetStatus(Current(w), status)
        PROVE  NoClaim
    BY <2>1, <2>3, ReleaseClaimsNothing
  <2> QED BY <2>2, <2>3, IdleClaimsNothing
<1>5. ASSUME NEW w \in Workers, ClaimNode(w), UNCHANGED node \/ ~Claimable(Current(w), w)
      PROVE  NoClaim
  BY <1>5, IdleClaimsNothing DEF ClaimNode
<1>6. ASSUME NEW w \in Workers, FinishNode(w) \/ FailNode(w) PROVE NoClaim
  <2>1. Current(w) \in Nodes
    BY <1>6, CurrentNode
    DEF FinishNode, FailNode, AtNodeLabels, TypeOK, DriverTypeOK
  <2>2. \/ Accept(Current(w), w)
        \/ \E class \in {"retryable", "fatal"} : Reject(Current(w), w, class)
    BY <1>6, Zenon DEF FinishNode, FailNode
  <2> QED BY <2>1, <2>2, FinishClaimsNothing, DurableRunAssumption
<1>7. ASSUME NEW w \in Workers, LoseWorker(w) PROVE NoClaim
  BY <1>7 DEF LoseWorker, NoClaim, TypeOK, NodeTypeOK, NodeRows
<1>8. ASSUME NEW h \in Hosts, ClaimReported(h)
      PROVE  NoClaim \/ \E m \in Nodes, attempt \in Nat : Claim(m, HostId, attempt)
  <2>1. host[h].n \in Nodes /\ host[h].att \in Nat BY DEF TypeOK, CallerTypeOK
  <2> QED BY <1>8, <2>1, IdleClaimsNothing DEF ClaimReported
<1>9. ASSUME NEW h \in Hosts, FinishReported(h) PROVE NoClaim
  <2>1. host[h].n \in Nodes /\ HostId # None
    BY DurableRunAssumption DEF TypeOK, CallerTypeOK
  <2>2. \/ Accept(host[h].n, HostId)
        \/ \E class \in {"retryable", "fatal"} : Reject(host[h].n, HostId, class)
    BY <1>9, Zenon DEF FinishReported
  <2> QED BY <2>1, <2>2, FinishClaimsNothing
<1>10. ASSUME NEW n \in Nodes, NodeLeaseExpires(n) PROVE NoClaim
  BY <1>10 DEF NodeLeaseExpires, NoClaim, TypeOK, NodeTypeOK, NodeRows
<1>11. ASSUME NEW n \in ChildNodes, FailParentNode(n) PROVE NoClaim
  <2>1. n \in Nodes BY DurableRunAssumption
  <2> QED BY <1>11, <2>1, ReleaseClaimsNothing DEF FailParentNode
<1> QED
  BY <1>1, <1>2, <1>3, <1>4, <1>5, <1>6, <1>7, <1>8, <1>9, <1>10, <1>11
  DEF Next, Drive, Report, vars, CallDriver, CrashWorker, RunLeaseExpires,
      LoadFailed, ReadTarget, Reactivate, LoadRun, LoadNodes, EndPass,
      ParkRun, ReloadNode, SkipNode, StartNode, ReadLostClaim, DecideOutcome,
      HoldRun, SucceedRun, FailRun, ReleaseRun, ReadReported, RecordEvidence,
      ReadEvidence, ApplyEvidence

\* A driver that executes a node, or has stopped, leaves that state only by
\* finishing the node or by stopping.
LEMMA HolderStep ==
  ASSUME TypeOK, [Next]_vars, NEW w \in Workers,
         drv[w].pc \in {"exec", "release", "done"}
  PROVE  \/ drv'[w] = drv[w]
         \/ drv'[w].pc \in {"release", "done"}
         \/ drv[w].pc = "exec" /\ (FinishNode(w) \/ FailNode(w))
<1> USE DEF TypeOK, DriverTypeOK
<1>0. CASE UNCHANGED drv BY <1>0
<1>1. ASSUME NEW v \in Workers, NEW op \in Operations, NEW n \in Nodes,
             CallDriver(v, op, n)
      PROVE  drv'[w] = drv[w]
  BY <1>1 DEF CallDriver
<1>2. ASSUME NEW v \in Workers, CrashWorker(v)
      PROVE  drv'[w] = drv[w] \/ drv'[w].pc = "done"
  BY <1>2 DEF CrashWorker, Leave, NewFrame
<1>3. ASSUME NEW v \in Workers \ {w}, Drive(v)
      PROVE  drv'[w] = drv[w]
  BY <1>3, DriveFrame
<1>4. CASE Drive(w)
  <2>1. FinishNode(w) \/ FailNode(w) \/ LoseWorker(w) \/ ReleaseRun(w)
    BY <1>4
    DEF Drive, LoadFailed, RearmFailed, ReadTarget, RearmTarget, Reactivate,
        LoadRun, LoadNodes, EndPass, RearmCrashed, ParkRun, ReloadNode,
        SkipNode, BlockNode, UnblockNode, StartNode, ClaimNode, ReadLostClaim,
        DecideOutcome, HoldRun, SucceedRun, FailRun, AtEntry, AtGate, Visiting
  <2>2. FinishNode(w) \/ FailNode(w) => drv[w].pc = "exec"
    BY DEF FinishNode, FailNode
  <2>3. LoseWorker(w) => drv'[w].pc = "release"
    BY DEF LoseWorker, Leave, NewFrame
  <2>4. ReleaseRun(w) => drv'[w].pc = "done"
    BY DEF ReleaseRun, Leave, NewFrame
  <2> QED BY <2>1, <2>2, <2>3, <2>4
<1> QED
  BY <1>0, <1>1, <1>2, <1>3, <1>4
  DEF Next, Report, vars, RunLeaseExpires, NodeLeaseExpires, ReadReported,
      ClaimReported, FinishReported, RecordEvidence, ReadEvidence,
      ApplyEvidence, FailParentNode

\* A claim that stood before the step and stands after it.
LEMMA StandingClaim ==
  ASSUME TypeOK, ClaimHolderExecutes, [Next]_vars,
         NEW w \in Workers, NEW n \in Nodes,
         node[n].own = w, node'[n].own = w, node'[n].att = node[n].att
  PROVE  \/ drv'[w].pc \in {"release", "done"}
         \/ drv'[w].pc = "exec" /\ Current(w)' = n /\ drv'[w].att = node'[n].att
<1>1. \/ drv[w].pc \in {"release", "done"}
      \/ drv[w].pc = "exec" /\ Current(w) = n /\ drv[w].att = node[n].att
  BY DEF ClaimHolderExecutes
<1>2. CASE drv'[w] = drv[w] BY <1>1, <1>2 DEF Current
<1>3. CASE drv[w].pc = "exec" /\ (FinishNode(w) \/ FailNode(w))
  <2>1. Current(w) = n BY <1>1, <1>3
  <2>2. \/ Accept(n, w)
        \/ \E class \in {"retryable", "fatal"} : Reject(n, w, class)
    BY <1>3, <2>1, Zenon DEF FinishNode, FailNode
  <2>3. node'[n].own # w
    BY <2>2, FinishClaimsNothing, DurableRunAssumption
  <2> QED BY <2>3
<1> QED BY <1>1, <1>2, <1>3, HolderStep

\* Another's claim cannot be a driver's, and a driver's own is executed.
LEMMA ClaimHolderStep ==
  ASSUME TypeOK, ClaimHolderExecutes, [Next]_vars
  PROVE  ClaimHolderExecutes'
<1> SUFFICES ASSUME NEW w \in Workers, NEW n \in Nodes, node'[n].own = w
             PROVE  \/ drv'[w].pc \in {"release", "done"}
                    \/ /\ drv'[w].pc = "exec"
                       /\ Current(w)' = n
                       /\ drv'[w].att = node'[n].att
  BY DEF ClaimHolderExecutes
<1>1. w # None /\ w # HostId BY DurableRunAssumption
<1>2. CASE node[n].own = w /\ node'[n].att = node[n].att
  BY <1>2, StandingClaim
<1>3. CASE NoClaim BY <1>1, <1>2, <1>3 DEF NoClaim
<1>4. ASSUME NEW h \in Hosts, NEW m \in Nodes, NEW attempt \in Nat,
             Claim(m, HostId, attempt)
      PROVE  node[n].own = w /\ node'[n].att = node[n].att
  BY <1>1, <1>4, ClaimClaims
<1>5. ASSUME NEW v \in Workers, ClaimNode(v), Claimable(Current(v), v)
      PROVE  \/ node[n].own = w /\ node'[n].att = node[n].att
             \/ drv'[w].pc = "exec" /\ Current(w)' = n /\ drv'[w].att = node'[n].att
  <2>1. Current(v) \in Nodes
    BY <1>5, CurrentNode DEF ClaimNode, AtNodeLabels, TypeOK, DriverTypeOK
  <2>2. Claim(Current(v), v, drv[v].att + 1) BY <1>5 DEF ClaimNode
  <2>3. CASE n # Current(v) BY <2>1, <2>2, <2>3, ClaimClaims
  <2>4. CASE n = Current(v)
    <3>1. v = w /\ node'[n].att = drv[w].att + 1
      BY <2>1, <2>2, <2>4, ClaimClaims
    <3>2. drv' = [drv EXCEPT ![w].att = drv[w].att + 1, ![w].pc = "exec"]
      BY <1>5, <3>1 DEF ClaimNode
    <3>3. drv'[w].pc = "exec" /\ drv'[w].att = drv[w].att + 1
          /\ drv'[w].todo = drv[w].todo
      BY <3>2 DEF TypeOK, DriverTypeOK, Drivers
    <3> QED BY <2>4, <3>1, <3>3 DEF Current
  <2> QED BY <2>3, <2>4
<1> QED BY <1>2, <1>3, <1>4, <1>5, OwnerStep

\* A claim that still stands is that of the driver executing the node under
\* the attempt the row records, or of one that has stopped: a driver whose
\* claim was taken over cannot pass _node_finish's worker-id fence.
THEOREM ClaimHolderAlwaysExecutes == Spec => []ClaimHolderExecutes
<1>1. Init => ClaimHolderExecutes
  BY DurableRunAssumption DEF Init, ClaimHolderExecutes, FreshNode
<1>2. TypeOK /\ ClaimHolderExecutes /\ [Next]_vars => ClaimHolderExecutes'
  BY ClaimHolderStep
<1> QED BY TypeCorrect, <1>1, <1>2, PTL DEF Spec

-----------------------------------------------------------------------------
(* What a snapshot says of the nodes that succeeded *)

\* A driver's view may be stale, but a success it shows is one.
ViewsSound ==
  \A w \in Workers, d \in Nodes :
    drv[w].view[d] = "succeeded" => node[d].st = "succeeded"

\* A step gives a driver a view of the rows as they are, none, or the one it
\* had; and it brings a driver to a node's callback only from the readiness
\* check, or leaves it at the same node.
ViewMoves(w) ==
  /\ drv'[w].view \in {drv[w].view, Statuses, NewFrame.view}
  /\ drv'[w].pc \in RunningLabels =>
       /\ drv'[w].todo = drv[w].todo
       /\ drv[w].pc \in RunningLabels \/ Ready(Current(w), drv[w].view)

\* Locals are dropped.
LEMMA ViewOfLeave ==
  ASSUME TypeOK, NEW w \in Workers, NEW label, label \notin RunningLabels,
         Leave(w, label)
  PROVE  ViewMoves(w)
BY DEF Leave, NewFrame, ViewMoves, TypeOK, DriverTypeOK

\* A label is changed without touching the node or the view.
LEMMA ViewOfGoto ==
  ASSUME TypeOK, NEW w \in Workers, NEW label,
         label \in RunningLabels => drv[w].pc \in RunningLabels,
         Goto(w, label)
  PROVE  ViewMoves(w)
BY DEF Goto, ViewMoves, TypeOK, DriverTypeOK, Drivers

\* The next node is only visited.
LEMMA ViewOfNextNode ==
  ASSUME TypeOK, NEW w \in Workers, NEW progress, NextNode(w, progress)
  PROVE  ViewMoves(w)
BY DEF NextNode, ViewMoves, RunningLabels, TypeOK, DriverTypeOK, Drivers

\* So it is for every step of a driver.
LEMMA ViewStep ==
  ASSUME TypeOK, NEW w \in Workers, Drive(w)
  PROVE  ViewMoves(w)
<1> USE DEF RunningLabels
<1>0. drv \in [Workers -> Drivers] BY DEF TypeOK, DriverTypeOK
<1>1. CASE LoadFailed(w)
  BY <1>0, <1>1 DEF LoadFailed, ViewMoves, Drivers
<1>2. CASE RearmFailed(w)
  <2>1. CASE Leave(w, "done") BY <2>1, ViewOfLeave
  <2>2. CASE ~Leave(w, "done")
    BY <1>0, <1>2, <2>2 DEF RearmFailed, ViewMoves, Drivers
  <2> QED BY <2>1, <2>2
<1>3. CASE LoadNodes(w)
  <2> DEFINE open == {n \in Nodes : node[n].st \notin {"succeeded", "failed"}}
             frame == [drv[w] EXCEPT !.rows = node, !.view = Statuses,
                         !.prog = FALSE, !.todo = open, !.pc = "visit"]
  <2>1. drv' = [drv EXCEPT ![w] = frame] BY <1>0, <1>3 DEF LoadNodes
  <2> HIDE DEF open
  <2>2. frame.pc = "visit" /\ frame.view = Statuses BY <1>0 DEF Drivers
  <2> QED BY <1>0, <2>1, <2>2 DEF ViewMoves
<1>4. CASE ReloadNode(w)
  <2>1. drv'[w].pc \in {"gate", "enter"} /\ drv'[w].view = Statuses
    BY <1>0, <1>4 DEF ReloadNode, Drivers
  <2> QED BY <2>1 DEF ViewMoves
<1>5. CASE UnblockNode(w)
  <2>1. CASE Leave(w, "release") BY <2>1, ViewOfLeave
  <2>2. CASE ~Leave(w, "release")
    BY <1>0, <1>5, <2>2 DEF UnblockNode, ViewMoves, Drivers
  <2> QED BY <2>1, <2>2
<1>6. CASE StartNode(w)
  <2>1. CASE Leave(w, "loadRun") BY <2>1, ViewOfLeave
  <2>2. CASE ~Leave(w, "loadRun")
    BY <1>0, <1>6, <2>2 DEF StartNode, ViewMoves, Drivers
  <2> QED BY <2>1, <2>2
<1>7. CASE ClaimNode(w)
  <2>1. CASE Goto(w, "claimLost") BY <1>7, <2>1, ViewOfGoto DEF ClaimNode
  <2>2. CASE ~Goto(w, "claimLost")
    BY <1>0, <1>7, <2>2 DEF ClaimNode, ViewMoves, Drivers
  <2> QED BY <2>1, <2>2
<1>8. CASE FailNode(w)
  BY <1>8, ViewOfGoto, ViewOfLeave DEF FailNode
<1>9. CASE DecideOutcome(w)
  BY <1>0, <1>9 DEF DecideOutcome, ViewMoves, Drivers
<1>10. CASE ReadTarget(w) \/ LoadRun(w) \/ RearmCrashed(w)
  BY <1>10, ViewOfGoto, ViewOfLeave DEF ReadTarget, LoadRun, RearmCrashed
<1>11. CASE RearmTarget(w) \/ Reactivate(w) \/ EndPass(w) \/ ParkRun(w)
              \/ LoseWorker(w) \/ HoldRun(w) \/ SucceedRun(w) \/ FailRun(w)
              \/ ReleaseRun(w)
  BY <1>11, ViewOfLeave
  DEF RearmTarget, Reactivate, EndPass, ParkRun, LoseWorker, HoldRun,
      SucceedRun, FailRun, ReleaseRun
<1>12. CASE SkipNode(w) \/ BlockNode(w) \/ ReadLostClaim(w) \/ FinishNode(w)
  BY <1>12, ViewOfNextNode, ViewOfLeave
  DEF SkipNode, BlockNode, ReadLostClaim, FinishNode
<1> QED
  BY <1>1, <1>2, <1>3, <1>4, <1>5, <1>6, <1>7, <1>8, <1>9, <1>10, <1>11, <1>12
  DEF Drive

\* The other steps leave a driver where it is, call it or stop it.
LEMMA ViewMove ==
  ASSUME TypeOK, [Next]_vars, NEW w \in Workers
  PROVE  drv'[w] = drv[w] \/ ViewMoves(w)
<1>1. CASE UNCHANGED drv BY <1>1
<1>2. ASSUME NEW v \in Workers, NEW op \in Operations, NEW n \in Nodes,
             CallDriver(v, op, n)
      PROVE  drv'[w] = drv[w] \/ ViewMoves(w)
  BY <1>2
  DEF CallDriver, ViewMoves, RunningLabels, TypeOK, DriverTypeOK, Drivers
<1>3. ASSUME NEW v \in Workers, CrashWorker(v)
      PROVE  drv'[w] = drv[w] \/ ViewMoves(w)
  <2>1. CASE v # w BY <1>3, <2>1 DEF CrashWorker, Leave
  <2>2. CASE v = w
    BY <1>3, <2>2, ViewOfLeave DEF CrashWorker, RunningLabels
  <2> QED BY <2>1, <2>2
<1>4. ASSUME NEW v \in Workers, Drive(v)
      PROVE  drv'[w] = drv[w] \/ ViewMoves(w)
  BY <1>4, DriveFrame, ViewStep
<1> QED
  BY <1>1, <1>2, <1>3, <1>4
  DEF Next, Report, vars, RunLeaseExpires, NodeLeaseExpires, ReadReported,
      ClaimReported, FinishReported, RecordEvidence, ReadEvidence,
      ApplyEvidence, FailParentNode

\* The inductive invariant about snapshots.
SnapshotInv == NodeInv /\ ViewsSound /\ DependenciesFirst

\* A fresh view is sound, an old one stays so, and what a driver found ready
\* on a sound view is ready.
LEMMA SnapshotStep ==
  ASSUME SnapshotInv, [Next]_vars
  PROVE  SnapshotInv'
<1>1. NodeInv /\ TypeOK BY DEF SnapshotInv, NodeInv
<1>2. NodeInv' BY <1>1, NodeInvStep
<1>3. \A d \in Nodes : node[d].st = "succeeded" => node'[d].st = "succeeded"
  BY <1>1, SucceededStays
<1>4. ASSUME NEW w \in Workers, NEW d \in Nodes,
             drv'[w].view[d] = "succeeded"
      PROVE  node'[d].st = "succeeded"
  <2>1. NewFrame.view[d] # "succeeded" BY DEF NewFrame
  <2>2. Statuses[d] = node[d].st BY DEF Statuses
  <2>3. drv'[w].view \in {drv[w].view, Statuses, NewFrame.view}
    BY <1>1, ViewMove DEF ViewMoves
  <2> QED BY <1>3, <1>4, <2>1, <2>2, <2>3 DEF SnapshotInv, ViewsSound
<1>5. ASSUME NEW w \in Workers, drv'[w].pc \in RunningLabels,
             NEW d \in Deps[Current(w)']
      PROVE  node'[d].st = "succeeded"
  <2>1. Current(w)' = Current(w) /\ drv'[w].todo = drv[w].todo
    BY <1>1, <1>5, ViewMove DEF ViewMoves, Current
  <2>2. Current(w) \in Nodes
    <3>1. drv'[w].todo # {}
      BY <1>2, <1>5
      DEF NodeInv, TypeOK, DriverTypeOK, RunningLabels, AtNodeLabels
    <3> QED BY <1>1, <2>1, <3>1, CurrentNode
  <2>3. d \in Nodes BY <1>5, <2>1, <2>2, DurableRunAssumption
  <2>4. drv[w].pc \in RunningLabels \/ Ready(Current(w), drv[w].view)
    BY <1>1, <1>5, ViewMove DEF ViewMoves
  <2>5. node[d].st = "succeeded"
    BY <1>5, <2>1, <2>3, <2>4
    DEF SnapshotInv, ViewsSound, DependenciesFirst, Ready
  <2> QED BY <1>3, <2>3, <2>5
<1>6. ViewsSound' BY <1>4 DEF ViewsSound
<1>7. DependenciesFirst' BY <1>5 DEF DependenciesFirst, Current
<1> QED BY <1>2, <1>6, <1>7 DEF SnapshotInv

\* A driver never calls a node back before everything it depends on has
\* succeeded, however old the snapshot it decided on: what a snapshot shows
\* as succeeded stays so, and nothing else lets a node start.
THEOREM DependenciesAlwaysFirst == Spec => []DependenciesFirst
<1>1. Init => SnapshotInv
  BY NodeInvInit
  DEF Init, SnapshotInv, ViewsSound, DependenciesFirst, NewFrame, RunningLabels
<1>2. SnapshotInv /\ [Next]_vars => SnapshotInv' BY SnapshotStep
<1>3. SnapshotInv => DependenciesFirst BY DEF SnapshotInv
<1> QED BY <1>1, <1>2, <1>3, PTL DEF Spec
-----------------------------------------------------------------------------
(* How often a node is called back *)

\* A step counts no attempt, or is a driver's claim.
LEMMA AttemptStep ==
  ASSUME TypeOK, Hosts = {}, [Next]_vars
  PROVE  \/ NoClaim /\ UNCHANGED ran
         \/ \E w \in Workers : ClaimNode(w) /\ Claimable(Current(w), w)
<1>1. \/ UNCHANGED ran
      \/ \E w \in Workers : ClaimNode(w) /\ Claimable(Current(w), w)
  <2>1. ASSUME NEW w \in Workers, ClaimNode(w), ~Claimable(Current(w), w)
        PROVE  UNCHANGED ran
    BY <2>1 DEF ClaimNode
  <2>2. ASSUME NEW w \in Workers, Drive(w)
        PROVE  UNCHANGED ran \/ ClaimNode(w)
    BY <2>2
    DEF Drive, histories, LoadFailed, RearmFailed, ReadTarget, RearmTarget,
        Reactivate, LoadRun, LoadNodes, EndPass, RearmCrashed, ParkRun,
        ReloadNode, SkipNode, BlockNode, UnblockNode, StartNode,
        ReadLostClaim, FinishNode, FailNode, LoseWorker, DecideOutcome,
        HoldRun, SucceedRun, FailRun, ReleaseRun
  <2> QED
    BY <2>1, <2>2
    DEF Next, Report, vars, histories, CallDriver, CrashWorker,
        RunLeaseExpires, NodeLeaseExpires, ReadReported, ClaimReported,
        FinishReported, RecordEvidence, ReadEvidence, ApplyEvidence,
        FailParentNode
<1> QED BY <1>1, OwnerStep

\* Labels at which a driver decides on the node it is at by its snapshot, and
\* those of a pass, at which the snapshot's other rows may still be used.
VisitLabels == {"visit", "gate", "enter", "reloadCrashed", "reloadUnblocked"}
PassLabels == VisitLabels \cup {"claim", "claimLost", "exec"}

\* What a driver's step makes of its snapshot and its attempt, except for
\* the claim it wins: it leaves the pass; it goes on in it with rows it had,
\* or read just now; it starts to claim the node it is at, for the first time
\* or again, while it believes there are attempts left; or it loses the claim.
AttemptMoves(w) ==
  \/ drv'[w].pc \notin PassLabels
  \/ /\ drv'[w].pc \in VisitLabels
     /\ \A n \in drv'[w].todo :
          \/ drv'[w].rows[n] = node[n]
          \/ /\ drv[w].pc \in PassLabels
             /\ n \in drv[w].todo
             /\ drv'[w].rows[n] = drv[w].rows[n]
             /\ drv[w].pc \in VisitLabels \/ n # Current(w)
  \/ /\ drv'[w].pc = "claim"
     /\ drv'[w].todo = drv[w].todo /\ drv'[w].rows = drv[w].rows
     /\ drv'[w].att < drv[w].rows[Current(w)].max
     /\ \/ drv[w].pc = "exec" /\ drv'[w].att = drv[w].att
        \/ /\ drv[w].pc \in VisitLabels
           /\ drv'[w].att = drv[w].rows[Current(w)].att
  \/ /\ drv[w].pc = "claim" /\ drv'[w].pc = "claimLost"
     /\ drv'[w].todo = drv[w].todo /\ drv'[w].rows = drv[w].rows

\* Locals are dropped.
LEMMA AttemptOfLeave ==
  ASSUME TypeOK, NEW w \in Workers, NEW label, label \notin PassLabels,
         Leave(w, label)
  PROVE  AttemptMoves(w)
BY DEF Leave, NewFrame, AttemptMoves, TypeOK, DriverTypeOK

\* The next node is visited with the rows that were read for the pass.
LEMMA AttemptOfNextNode ==
  ASSUME TypeOK, NEW w \in Workers, drv[w].pc \in PassLabels,
         NEW progress, NextNode(w, progress)
  PROVE  AttemptMoves(w)
<1> DEFINE m == Current(w)
<1>1. drv[w] \in Drivers BY DEF TypeOK, DriverTypeOK
<1>2. /\ drv'[w].pc = "visit"
      /\ drv'[w].todo = drv[w].todo \ {m}
      /\ drv'[w].rows = [drv[w].rows EXCEPT ![m] = FreshNode]
  BY <1>1 DEF NextNode, TypeOK, DriverTypeOK, Drivers
<1>3. ASSUME NEW n \in drv'[w].todo
      PROVE  /\ n \in drv[w].todo /\ n # m
             /\ drv'[w].rows[n] = drv[w].rows[n]
  <2>1. n \in drv[w].todo /\ n # m BY <1>2
  <2>2. n \in Nodes BY <1>1, <2>1 DEF Drivers
  <2> QED BY <1>1, <1>2, <2>1, <2>2 DEF Drivers
<1>4. drv'[w].pc \in VisitLabels BY <1>2 DEF VisitLabels
<1> QED BY <1>3, <1>4 DEF AttemptMoves

\* A label of the visit is changed without touching the rows.
LEMMA AttemptOfVisit ==
  ASSUME TypeOK, NEW w \in Workers, drv[w].pc \in VisitLabels,
         drv'[w].pc \in VisitLabels,
         drv'[w].todo = drv[w].todo, drv'[w].rows = drv[w].rows
  PROVE  AttemptMoves(w)
BY DEF AttemptMoves, PassLabels
\* So it is for every step of a driver but a claim that succeeds.
LEMMA AttemptOfDrive ==
  ASSUME TypeOK, NEW w \in Workers, Drive(w),
         ~(ClaimNode(w) /\ Claimable(Current(w), w))
  PROVE  AttemptMoves(w)
<1> USE DEF PassLabels, VisitLabels
<1>0. drv \in [Workers -> Drivers] /\ drv[w] \in Drivers
  BY DEF TypeOK, DriverTypeOK
<1>1. CASE LoadFailed(w)
  BY <1>0, <1>1 DEF LoadFailed, AttemptMoves, Drivers
<1>2. CASE RearmFailed(w)
  <2>1. CASE Leave(w, "done") BY <2>1, AttemptOfLeave
  <2>2. CASE ~Leave(w, "done")
    <3>1. drv'[w].pc \in {"loadRun", "rearmFailed"}
      BY <1>0, <1>2, <2>2 DEF RearmFailed, Drivers
    <3> QED BY <3>1 DEF AttemptMoves
  <2> QED BY <2>1, <2>2
<1>3. CASE LoadNodes(w)
  <2> DEFINE open == {n \in Nodes : node[n].st \notin {"succeeded", "failed"}}
             frame == [drv[w] EXCEPT !.rows = node, !.view = Statuses,
                         !.prog = FALSE, !.todo = open, !.pc = "visit"]
  <2>1. drv' = [drv EXCEPT ![w] = frame] BY <1>0, <1>3 DEF LoadNodes
  <2> HIDE DEF open
  <2>2. frame.pc = "visit" /\ frame.rows = node BY <1>0 DEF Drivers
  <2>3. drv'[w].pc = "visit" /\ drv'[w].rows = node BY <1>0, <2>1, <2>2
  <2> QED BY <2>3 DEF AttemptMoves
<1>4. CASE ReloadNode(w)
  <2> DEFINE m == Current(w)
             rows == [drv[w].rows EXCEPT ![m] = node[m]]
  <2>1. m \in Nodes
    BY <1>4, CurrentNode DEF ReloadNode, AtNodeLabels, TypeOK, DriverTypeOK
  <2>2. /\ drv[w].pc \in VisitLabels /\ drv'[w].pc \in VisitLabels
        /\ drv'[w].todo = drv[w].todo /\ drv'[w].rows = rows
    BY <1>0, <1>4 DEF ReloadNode, Drivers
  <2>3. ASSUME NEW n \in drv[w].todo
        PROVE  rows[n] = node[n] \/ rows[n] = drv[w].rows[n]
    BY <1>0, <2>1, <2>3 DEF Drivers
  <2> HIDE DEF rows
  <2> QED BY <2>2, <2>3 DEF AttemptMoves
<1>5. CASE UnblockNode(w)
  <2>1. CASE Leave(w, "release") BY <2>1, AttemptOfLeave
  <2>2. CASE ~Leave(w, "release")
    <3>1. drv[w].pc \in VisitLabels
      BY <1>5 DEF UnblockNode, AtGate, Visiting
    <3>2. drv' = [drv EXCEPT ![w].pc = "reloadUnblocked", ![w].prog = TRUE]
      BY <1>5, <2>2, Zenon DEF UnblockNode
    <3>3. /\ drv'[w].pc \in VisitLabels
          /\ drv'[w].todo = drv[w].todo /\ drv'[w].rows = drv[w].rows
      BY <1>0, <3>2 DEF Drivers
    <3> QED BY <3>1, <3>3, AttemptOfVisit
  <2> QED BY <2>1, <2>2
<1>6. CASE StartNode(w)
  <2>1. CASE Leave(w, "loadRun") BY <2>1, AttemptOfLeave
  <2>2. CASE ~Leave(w, "loadRun")
    <3>1. drv[w].pc \in VisitLabels
      BY <1>6 DEF StartNode, AtEntry, AtGate, Visiting
    <3>2. AttemptsLeft(drv[w].rows[Current(w)]) BY <1>6, <2>2 DEF StartNode
    <3>3. /\ drv'[w].pc = "claim"
          /\ drv'[w].todo = drv[w].todo /\ drv'[w].rows = drv[w].rows
          /\ drv'[w].att = drv[w].rows[Current(w)].att
      BY <1>0, <1>6, <3>2 DEF StartNode, Drivers
    <3> QED BY <3>1, <3>2, <3>3 DEF AttemptMoves, AttemptsLeft
  <2> QED BY <2>1, <2>2
<1>7. CASE ClaimNode(w)
  <2>1. drv[w].pc = "claim" /\ Goto(w, "claimLost") BY <1>7 DEF ClaimNode
  <2> QED BY <1>0, <2>1 DEF Goto, AttemptMoves, Drivers
<1>8. CASE FailNode(w)
  <2>1. CASE Leave(w, "loadRun") BY <2>1, AttemptOfLeave
  <2>2. CASE ~Leave(w, "loadRun")
    <3>1. /\ drv[w].pc = "exec" /\ Goto(w, "claim")
          /\ drv[w].att < drv[w].rows[Current(w)].max
      BY <1>8, <2>2 DEF FailNode
    <3> QED BY <1>0, <3>1 DEF Goto, AttemptMoves, Drivers
  <2> QED BY <2>1, <2>2
<1>9. CASE DecideOutcome(w)
  BY <1>0, <1>9 DEF DecideOutcome, AttemptMoves, Drivers
<1>10. CASE ReadTarget(w) \/ LoadRun(w)
  <2>1. \/ Leave(w, "release") \/ Goto(w, "rearmTarget") \/ Goto(w, "final")
        \/ Goto(w, "loadNodes")
    BY <1>10 DEF ReadTarget, LoadRun
  <2>2. ASSUME NEW label, label \notin PassLabels, Goto(w, label)
        PROVE  AttemptMoves(w)
    BY <1>0, <2>2 DEF Goto, AttemptMoves, Drivers
  <2> QED BY <2>1, <2>2, AttemptOfLeave
<1>11. CASE RearmCrashed(w)
  <2>1. CASE Goto(w, "reloadCrashed")
    <3>1. /\ drv[w].pc \in VisitLabels /\ drv'[w].pc \in VisitLabels
          /\ drv'[w].todo = drv[w].todo /\ drv'[w].rows = drv[w].rows
      BY <1>0, <1>11, <2>1 DEF RearmCrashed, Visiting, Goto, Drivers
    <3> QED BY <3>1, AttemptOfVisit
  <2>2. CASE Leave(w, "parkRun") \/ Leave(w, "release")
    BY <2>2, AttemptOfLeave
  <2> QED BY <1>11, <2>1, <2>2 DEF RearmCrashed
<1>12. CASE RearmTarget(w) \/ Reactivate(w) \/ EndPass(w) \/ ParkRun(w)
              \/ LoseWorker(w) \/ HoldRun(w) \/ SucceedRun(w) \/ FailRun(w)
              \/ ReleaseRun(w)
  BY <1>12, AttemptOfLeave
  DEF RearmTarget, Reactivate, EndPass, ParkRun, LoseWorker, HoldRun,
      SucceedRun, FailRun, ReleaseRun
<1>13. CASE SkipNode(w) \/ BlockNode(w) \/ ReadLostClaim(w) \/ FinishNode(w)
  <2>1. drv[w].pc \in PassLabels
    BY <1>13
    DEF SkipNode, BlockNode, ReadLostClaim, FinishNode, AtEntry, AtGate, Visiting
  <2>2. \/ \E progress \in BOOLEAN : NextNode(w, progress)
        \/ Leave(w, "loadRun") \/ Leave(w, "release")
    BY <1>13 DEF SkipNode, BlockNode, ReadLostClaim, FinishNode
  <2> QED BY <2>1, <2>2, AttemptOfLeave, AttemptOfNextNode
<1> QED
  BY <1>1, <1>2, <1>3, <1>4, <1>5, <1>6, <1>7, <1>8, <1>9, <1>10, <1>11,
     <1>12, <1>13
  DEF Drive

\* The steps of others leave a driver where it is, call it or stop it.
LEMMA AttemptMove ==
  ASSUME TypeOK, [Next]_vars, NEW w \in Workers
  PROVE  \/ drv'[w] = drv[w]
         \/ AttemptMoves(w)
         \/ ClaimNode(w) /\ Claimable(Current(w), w)
<1>1. CASE UNCHANGED drv BY <1>1
<1>2. ASSUME NEW v \in Workers, NEW op \in Operations, NEW n \in Nodes,
             CallDriver(v, op, n)
      PROVE  drv'[w] = drv[w] \/ AttemptMoves(w)
  <2>1. CASE v # w BY <1>2, <2>1 DEF CallDriver, TypeOK, DriverTypeOK
  <2>2. CASE v = w
    <3>1. drv'[w].pc \in {"loadRun", "loadFailed", "readTarget"}
      BY <1>2, <2>2 DEF CallDriver, TypeOK, DriverTypeOK, Drivers
    <3> QED BY <3>1 DEF AttemptMoves, PassLabels, VisitLabels
  <2> QED BY <2>1, <2>2
<1>3. ASSUME NEW v \in Workers, CrashWorker(v)
      PROVE  drv'[w] = drv[w] \/ AttemptMoves(w)
  <2>1. CASE v # w BY <1>3, <2>1 DEF CrashWorker, Leave
  <2>2. CASE v = w
    BY <1>3, <2>2, AttemptOfLeave DEF CrashWorker, PassLabels, VisitLabels
  <2> QED BY <2>1, <2>2
<1>4. ASSUME NEW v \in Workers, Drive(v)
      PROVE  \/ drv'[w] = drv[w]
             \/ AttemptMoves(w)
             \/ ClaimNode(w) /\ Claimable(Current(w), w)
  BY <1>4, DriveFrame, AttemptOfDrive
<1> QED
  BY <1>1, <1>2, <1>3, <1>4
  DEF Next, Report, vars, RunLeaseExpires, NodeLeaseExpires, ReadReported,
      ClaimReported, FinishReported, RecordEvidence, ReadEvidence,
      ApplyEvidence, FailParentNode
\* A lease that ended under a driver is remembered.
LEMMA OustedStays ==
  ASSUME TypeOK, [Next]_vars
  PROVE  ousted \subseteq ousted'
BY LeaseStep DEF LeaseKept, LeaseCleared, CallDriver, histories

\* What a snapshot says of the nodes still to be visited: the attempts that
\* were made (but for the node the driver works on), and no more than those
\* that may be made.
SnapshotCurrent(w) ==
  \A n \in drv[w].todo :
    /\ drv[w].rows[n].max <= node[n].max
    /\ drv[w].pc \in VisitLabels \/ n # Current(w)
         => drv[w].rows[n].att = node[n].att

\* What the driver knows of the node it works on.
AttemptKnown(w) ==
  /\ drv[w].pc \in {"claim", "exec"} => drv[w].att = node[Current(w)].att
  /\ drv[w].pc = "claim" => drv[w].att < drv[w].rows[Current(w)].max

\* Every call of a callback is counted in the node's row, within its limit.
AttemptsCounted ==
  \A n \in Nodes : ran[n] <= node[n].att /\ node[n].att <= node[n].max

\* The inductive invariant behind RetryBounded: the attempt a driver writes
\* is its own count, so the count has to be the row's.
AttemptsSound ==
  ousted = {} =>
    /\ AttemptsCounted
    /\ \A w \in Workers :
         drv[w].pc \in PassLabels => SnapshotCurrent(w) /\ AttemptKnown(w)

\* No row and no snapshot yet disagree.
LEMMA AttemptsInit ==
  ASSUME Init
  PROVE  AttemptsSound
BY DurableRunAssumption
DEF Init, AttemptsSound, AttemptsCounted, FreshNode, NewFrame, PassLabels,
    VisitLabels

\* While no attempt is counted a driver's knowledge stays right.
LEMMA KnowledgeStep ==
  ASSUME TypeOK, TypeOK', NoClaim, NEW w \in Workers,
         drv[w].pc \in PassLabels => SnapshotCurrent(w) /\ AttemptKnown(w),
         drv'[w].pc \in PassLabels,
         drv'[w] = drv[w] \/ AttemptMoves(w)
  PROVE  SnapshotCurrent(w)' /\ AttemptKnown(w)'
<1> USE DEF PassLabels, VisitLabels
<1>1. /\ node \in [Nodes -> NodeRows] /\ node' \in [Nodes -> NodeRows]
      /\ drv[w] \in Drivers /\ drv'[w] \in Drivers
  BY DEF TypeOK, NodeTypeOK, DriverTypeOK
<1>2. /\ drv[w].todo \subseteq Nodes
      /\ drv'[w].todo \subseteq Nodes
      /\ drv[w].rows \in [Nodes -> NodeRows]
  BY <1>1 DEF Drivers
<1>3. \A n \in Nodes : /\ node[n].max \in Nat /\ node'[n].max \in Nat
                       /\ drv[w].rows[n].max \in Nat
                       /\ node'[n].att = node[n].att
                       /\ node[n].max <= node'[n].max
  BY <1>1, <1>2 DEF NoClaim, NodeRows
<1>4. drv[w].pc \in {"claim", "claimLost", "exec"} => Current(w) \in Nodes
  BY CurrentNode DEF TypeOK, DriverTypeOK, AtNodeLabels
<1>5. CASE drv'[w] = drv[w]
  <2>1. Current(w)' = Current(w) BY <1>5 DEF Current
  <2>2. SnapshotCurrent(w) /\ AttemptKnown(w) BY <1>5
  <2>3. ASSUME NEW n \in drv[w].todo
        PROVE  /\ drv[w].rows[n].max <= node'[n].max
               /\ drv[w].pc \in VisitLabels \/ n # Current(w)
                    => drv[w].rows[n].att = node'[n].att
    <3>1. n \in Nodes BY <1>2
    <3>2. drv[w].rows[n].max <= node'[n].max
      BY <1>3, <2>2, <3>1 DEF SnapshotCurrent
    <3> QED BY <1>3, <2>2, <3>1, <3>2 DEF SnapshotCurrent
  <2>4. SnapshotCurrent(w)' BY <1>5, <2>1, <2>3 DEF SnapshotCurrent
  <2>5. AttemptKnown(w)' BY <1>3, <1>4, <1>5, <2>1, <2>2 DEF AttemptKnown
  <2> QED BY <2>4, <2>5
<1>6. CASE /\ drv'[w].pc \in VisitLabels
           /\ \A n \in drv'[w].todo :
                \/ drv'[w].rows[n] = node[n]
                \/ /\ drv[w].pc \in PassLabels
                   /\ n \in drv[w].todo
                   /\ drv'[w].rows[n] = drv[w].rows[n]
                   /\ drv[w].pc \in VisitLabels \/ n # Current(w)
  <2>1. ASSUME NEW n \in drv'[w].todo
        PROVE  /\ drv'[w].rows[n].max <= node'[n].max
               /\ drv'[w].rows[n].att = node'[n].att
    <3>1. n \in Nodes BY <1>2
    <3>2. CASE drv'[w].rows[n] = node[n] BY <1>3, <3>1, <3>2
    <3>3. CASE /\ drv[w].pc \in PassLabels
               /\ n \in drv[w].todo
               /\ drv'[w].rows[n] = drv[w].rows[n]
               /\ drv[w].pc \in VisitLabels \/ n # Current(w)
      <4>1. /\ drv[w].rows[n].max <= node[n].max
            /\ drv[w].rows[n].att = node[n].att
        BY <3>3 DEF SnapshotCurrent
      <4> QED BY <1>3, <3>1, <3>3, <4>1
    <3> QED BY <1>6, <3>2, <3>3
  <2>2. SnapshotCurrent(w)' BY <2>1 DEF SnapshotCurrent
  <2>3. AttemptKnown(w)' BY <1>6 DEF AttemptKnown
  <2> QED BY <2>2, <2>3
<1>7. CASE /\ drv'[w].pc \in {"claim", "claimLost"}
           /\ drv[w].pc \in PassLabels
           /\ drv'[w].todo = drv[w].todo /\ drv'[w].rows = drv[w].rows
           /\ drv'[w].pc = "claim" =>
                /\ drv'[w].att < drv[w].rows[Current(w)].max
                /\ \/ drv[w].pc = "exec" /\ drv'[w].att = drv[w].att
                   \/ /\ drv[w].pc \in VisitLabels
                      /\ drv'[w].att = drv[w].rows[Current(w)].att
  <2>1. Current(w)' = Current(w) BY <1>7 DEF Current
  <2>2. SnapshotCurrent(w) /\ AttemptKnown(w) BY <1>7
  <2>3. ASSUME NEW n \in drv[w].todo
        PROVE  /\ drv[w].rows[n].max <= node'[n].max
               /\ n # Current(w) => drv[w].rows[n].att = node'[n].att
    <3>1. n \in Nodes BY <1>2
    <3>2. drv[w].rows[n].max <= node'[n].max
      BY <1>3, <2>2, <3>1 DEF SnapshotCurrent
    <3> QED BY <1>3, <2>2, <3>1, <3>2 DEF SnapshotCurrent
  <2>4. SnapshotCurrent(w)' BY <1>7, <2>1, <2>3 DEF SnapshotCurrent
  <2>5. ASSUME drv'[w].pc = "claim"
        PROVE  drv'[w].att = node'[Current(w)].att
    <3>1. drv[w].todo # {}
      BY <1>7, <2>5 DEF TypeOK, DriverTypeOK, AtNodeLabels
    <3>2. Current(w) \in drv[w].todo /\ Current(w) \in Nodes
      BY <3>1, CurrentNode
    <3>3. drv'[w].att = node[Current(w)].att
      BY <1>7, <2>2, <2>5, <3>2 DEF SnapshotCurrent, AttemptKnown
    <3> QED BY <1>3, <3>2, <3>3
  <2>6. AttemptKnown(w)' BY <1>7, <2>1, <2>5 DEF AttemptKnown
  <2> QED BY <2>4, <2>6
<1> QED BY <1>5, <1>6, <1>7 DEF AttemptMoves
\* A claim counts the attempt it writes, in the row and in the driver's
\* knowledge, and nobody else drives then.
LEMMA ClaimCounts ==
  ASSUME NodeInv, LeaseHeld', ousted' = {}, NEW v \in Workers,
         TypeOK', ClaimNode(v), Claimable(Current(v), v),
         AttemptsCounted, SnapshotCurrent(v), AttemptKnown(v)
  PROVE  /\ AttemptsCounted'
         /\ \A w \in Workers :
              drv'[w].pc \in PassLabels
                => SnapshotCurrent(w)' /\ AttemptKnown(w)'
<1> DEFINE m == Current(v)
           rows == drv[v].rows
<1> USE DEF PassLabels, VisitLabels
<1>1. /\ TypeOK /\ node \in [Nodes -> NodeRows] /\ ran \in [Nodes -> Nat]
      /\ drv \in [Workers -> Drivers]
  BY DEF NodeInv, TypeOK, NodeTypeOK, DriverTypeOK, RecordTypeOK
<1>2. drv[v].pc = "claim" BY DEF ClaimNode
<1>3. m \in drv[v].todo /\ m \in Nodes /\ drv[v].todo \subseteq Nodes
  <2>1. drv[v].todo # {} BY <1>1, <1>2 DEF TypeOK, DriverTypeOK, AtNodeLabels
  <2> QED BY <1>1, <2>1, CurrentNode DEF Drivers
<1>4. /\ \A n \in Nodes : node[n].att \in Nat /\ node[n].max \in Nat
      /\ drv[v].att \in Nat
      /\ \A n \in Nodes : rows[n].max \in Nat
  BY <1>1 DEF NodeRows, Drivers
<1>5. /\ drv[v].att = node[m].att /\ drv[v].att < rows[m].max
      /\ rows[m].max <= node[m].max
  BY <1>2, <1>3 DEF AttemptKnown, SnapshotCurrent
<1>6. /\ node'[m].att = node[m].att + 1 /\ node'[m].max = node[m].max
      /\ \A n \in Nodes \ {m} : node'[n] = node[n]
  BY <1>1, <1>3, <1>5 DEF ClaimNode, Claim, NodeRows
<1>7. ran' = [ran EXCEPT ![m] = @ + 1] BY DEF ClaimNode
<1>8. /\ drv'[v].pc = "exec" /\ drv'[v].att = drv[v].att + 1
      /\ drv'[v].todo = drv[v].todo /\ drv'[v].rows = rows
  BY <1>1 DEF ClaimNode, Drivers
<1> HIDE DEF m, rows
<1>9. AttemptsCounted'
  BY <1>1, <1>3, <1>4, <1>5, <1>6, <1>7 DEF AttemptsCounted
<1>10. Current(v)' = m BY <1>8 DEF Current, m
<1>11. SnapshotCurrent(v)'
  <2>1. ASSUME NEW n \in drv[v].todo
        PROVE  /\ rows[n].max <= node'[n].max
               /\ n # m => rows[n].att = node'[n].att
    <3>1. n \in Nodes BY <1>3
    <3>2. /\ rows[n].max <= node[n].max
          /\ n # m => rows[n].att = node[n].att
      BY DEF SnapshotCurrent, m, rows
    <3> QED BY <1>3, <1>6, <3>1, <3>2
  <2> QED BY <1>8, <1>10, <2>1 DEF SnapshotCurrent
<1>12. AttemptKnown(v)' BY <1>5, <1>6, <1>8, <1>10 DEF AttemptKnown
<1>13. ASSUME NEW w \in Workers, w # v, drv'[w].pc \in PassLabels
       PROVE  FALSE
  <2>1. Driving(w)' /\ Driving(v)' BY <1>8, <1>13 DEF Driving
  <2>2. run'.own = w /\ run'.own = v BY <2>1 DEF LeaseHeld
  <2> QED BY <1>13, <2>2
<1> QED BY <1>9, <1>11, <1>12, <1>13

\* So every step keeps the invariant.
LEMMA AttemptsStep ==
  ASSUME NodeInv, LeaseHeld, AttemptsSound, Hosts = {}, [Next]_vars
  PROVE  AttemptsSound'
<1> SUFFICES ASSUME ousted' = {}
             PROVE  /\ AttemptsCounted'
                    /\ \A w \in Workers :
                         drv'[w].pc \in PassLabels
                           => SnapshotCurrent(w)' /\ AttemptKnown(w)'
  BY DEF AttemptsSound
<1>1. TypeOK /\ TypeOK' /\ LeaseHeld'
  BY TypeStep, LeaseHeldStep DEF NodeInv
<1>2. ousted = {} BY <1>1, OustedStays
<1>3. /\ AttemptsCounted
      /\ \A w \in Workers :
           drv[w].pc \in PassLabels => SnapshotCurrent(w) /\ AttemptKnown(w)
  BY <1>2 DEF AttemptsSound
<1>4. ASSUME NEW v \in Workers, ClaimNode(v), Claimable(Current(v), v)
      PROVE  /\ AttemptsCounted'
             /\ \A w \in Workers :
                  drv'[w].pc \in PassLabels
                    => SnapshotCurrent(w)' /\ AttemptKnown(w)'
  <2>1. drv[v].pc \in PassLabels BY <1>4 DEF ClaimNode, PassLabels
  <2>2. SnapshotCurrent(v) /\ AttemptKnown(v) BY <1>3, <2>1
  <2> QED BY <1>1, <1>3, <1>4, <2>2, ClaimCounts
<1>5. ASSUME ~ \E v \in Workers : ClaimNode(v) /\ Claimable(Current(v), v)
      PROVE  /\ AttemptsCounted'
             /\ \A w \in Workers :
                  drv'[w].pc \in PassLabels
                    => SnapshotCurrent(w)' /\ AttemptKnown(w)'
  <2>1. NoClaim /\ UNCHANGED ran BY <1>1, <1>5, AttemptStep
  <2>2. \A n \in Nodes : /\ node[n].max \in Nat /\ node'[n].max \in Nat
                         /\ node[n].att \in Nat /\ ran[n] \in Nat
    BY <1>1 DEF TypeOK, NodeTypeOK, NodeRows, RecordTypeOK
  <2>3. AttemptsCounted'
    BY <1>3, <2>1, <2>2 DEF NoClaim, AttemptsCounted
  <2>4. ASSUME NEW w \in Workers, drv'[w].pc \in PassLabels
        PROVE  SnapshotCurrent(w)' /\ AttemptKnown(w)'
    <3>1. drv'[w] = drv[w] \/ AttemptMoves(w) BY <1>1, <1>5, AttemptMove
    <3> QED BY <1>1, <1>3, <2>1, <2>4, <3>1, KnowledgeStep
  <2> QED BY <2>3, <2>4
<1> QED BY <1>4, <1>5

\* As long as every driver keeps its lease and no host reports on the run,
\* a node's callback is started at most max_attempts times, however often
\* the run is resumed, re-armed or crashes: the loop's own count, which
\* _node_claim writes into the row, is the row's.
THEOREM RetriesBounded ==
  ASSUME Hosts = {}
  PROVE  Spec => []RetryBounded
<1> DEFINE Inv == NodeInv /\ LeaseHeld /\ AttemptsSound
<1>1. Init => Inv
  BY NodeInvInit, AttemptsInit DEF Init, LeaseHeld, Driving, NewFrame
<1>2. Inv /\ [Next]_vars => Inv'
  BY NodeInvStep, LeaseHeldStep, AttemptsStep DEF NodeInv
<1>3. Inv => RetryBounded
  <2>1. ASSUME Inv, ousted = {}, NEW n \in Nodes PROVE ran[n] <= node[n].max
    <3>1. ran[n] \in Nat /\ node[n].att \in Nat /\ node[n].max \in Nat
      BY <2>1 DEF NodeInv, TypeOK, NodeTypeOK, NodeRows, RecordTypeOK
    <3>2. ran[n] <= node[n].att /\ node[n].att <= node[n].max
      BY <2>1 DEF AttemptsSound, AttemptsCounted
    <3> QED BY <3>1, <3>2
  <2> QED BY <2>1 DEF RetryBounded
<1> HIDE DEF Inv
<1> QED BY <1>1, <1>2, <1>3, PTL DEF Spec
=============================================================================
