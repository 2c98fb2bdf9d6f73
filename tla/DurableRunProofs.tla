-------------------------- MODULE DurableRunProofs --------------------------
(***************************************************************************)
(* Theorems about DurableRun, for every task graph, every number of        *)
(* drivers, host reports and verifications, and every attempt limit.       *)
(*                                                                         *)
(* The invariants look at the rows, and few actions write a row in a new   *)
(* way.  So the case analysis over the actions is made once: NodeStep says *)
(* what a step may make of a node's row, RunStep what it may make of the   *)
(* run's, DriverStep keeps the drivers' local variables in their types,    *)
(* and each theorem follows from these.                                    *)
(***************************************************************************)
EXTENDS DurableRun, WellFoundedInduction, TLAPS

\* A nonempty set of naturals contains its minimum.
LEMMA MinMember ==
  ASSUME NEW S, S \subseteq Nat, S # {}
  PROVE  Min(S) \in S
<1>1. PICK x \in S : \A y \in S : ~(<<y, x>> \in OpToRel(<, Nat))
  BY NatLessThanWellFounded, WFMin, Zenon
<1>2. ASSUME NEW y \in S, y < x PROVE FALSE
  <2>1. <<y, x>> \in Nat \X Nat OBVIOUS
  <2>2. <<y, x>> \in OpToRel(<, Nat) BY <1>2, <2>1, SMT DEF OpToRel
  <2> QED BY <1>1, <2>2
<1>3. \A y \in S : x =< y BY <1>2
<1> QED BY <1>3, Zenon DEF Min

\* The node a driver is at is one of the run's nodes.
LEMMA CurrentNode ==
  ASSUME TypeOK, NEW w \in Workers, drv[w].todo # {}
  PROVE  Current(w) \in drv[w].todo /\ Current(w) \in Nodes
<1>1. drv[w].todo \subseteq Nodes BY DEF TypeOK, DriverTypeOK, Drivers
<1>2. drv[w].todo \subseteq Nat BY <1>1, DurableRunAssumption
<1>3. Min(drv[w].todo) \in drv[w].todo BY <1>2, MinMember
<1> QED BY <1>1, <1>3 DEF Current

\* What start_run inserts for a node is a row.
LEMMA FreshNodeType == FreshNode \in NodeRows
BY DurableRunAssumption DEF FreshNode, NodeRows, NodeStatuses

\* Unassigned locals are locals.
LEMMA NewFrameType == NewFrame \in Drivers
BY FreshNodeType DEF NewFrame, Drivers, DriverLabels, NodeStatuses

-----------------------------------------------------------------------------
(* What a step may make of a node's row *)

\* The row released without having succeeded, claimed, succeeded under a
\* claim, failed under a claim, or with its lease run out.
NodeWrite(n, row) ==
  \/ /\ node[n].st # "succeeded"
     /\ row.st \notin {"running", "succeeded"}
     /\ row.own = None /\ ~row.late
  \/ /\ node[n].st \notin {"running", "succeeded"}
     /\ row.st = "running"
     /\ row.own # None
  \/ /\ node[n].own # None
     /\ row = [node[n] EXCEPT !.st = "succeeded", !.own = None, !.late = FALSE]
  \/ /\ node[n].own # None
     /\ row.st \notin {"running", "succeeded"}
     /\ row.own = None /\ ~row.late
  \/ row = [node[n] EXCEPT !.late = (node[n].own # None)]

\* A step leaves the nodes alone or writes one of them.
NodesKeptOr ==
  \/ UNCHANGED node
  \/ \E n \in Nodes, row \in NodeRows :
       node' = [node EXCEPT ![n] = row] /\ NodeWrite(n, row)

\* _mark, retry_node, fail_parent and a failing _node_finish release the
\* owner with the status they write.
LEMMA ReleaseNode ==
  ASSUME TypeOK, NEW n \in Nodes, NEW status \in NodeStatuses,
         status \notin {"running", "succeeded"},
         node[n].st # "succeeded" \/ node[n].own # None,
         NEW class \in {"none", "retryable", "fatal"},
         NEW more \in Nat,
         \/ node' = SetStatus(n, status)
         \/ node' = [SetStatus(n, status) EXCEPT ![n].ec = class]
         \/ node' = [SetStatus(n, status) EXCEPT ![n].max = @ + more]
  PROVE  NodesKeptOr
<1> DEFINE released == [node[n] EXCEPT !.st = status, !.own = None, !.late = FALSE]
<1>1. node[n] \in NodeRows BY DEF TypeOK, NodeTypeOK
<1>2. SetStatus(n, status) = [node EXCEPT ![n] = released]
  BY DEF TypeOK, NodeTypeOK, NodeRows, SetStatus
<1>3. released \in NodeRows BY <1>1 DEF NodeRows
<1>4. CASE node' = SetStatus(n, status)
  BY <1>2, <1>3, <1>4 DEF NodesKeptOr, NodeWrite, NodeRows
<1>5. CASE node' = [SetStatus(n, status) EXCEPT ![n].ec = class]
  <2> DEFINE row == [released EXCEPT !.ec = class]
  <2>1. row \in NodeRows BY <1>3 DEF NodeRows
  <2>2. node' = [node EXCEPT ![n] = row]
    BY <1>2, <1>3, <1>5 DEF TypeOK, NodeTypeOK, NodeRows
  <2> QED BY <2>1, <2>2 DEF NodesKeptOr, NodeWrite, NodeRows
<1>6. CASE node' = [SetStatus(n, status) EXCEPT ![n].max = @ + more]
  <2> DEFINE row == [released EXCEPT !.max = node[n].max + more]
  <2>0. node[n].max + more \in Nat \ {0} BY <1>1 DEF NodeRows
  <2>1. row \in NodeRows BY <1>3, <2>0 DEF NodeRows
  <2>2. SetStatus(n, status)[n].max = node[n].max
    BY <1>1, <1>2 DEF TypeOK, NodeTypeOK, NodeRows
  <2>3. node' = [node EXCEPT ![n] = row]
    BY <1>2, <1>3, <1>6, <2>2 DEF TypeOK, NodeTypeOK, NodeRows
  <2> QED BY <2>1, <2>3 DEF NodesKeptOr, NodeWrite, NodeRows
<1> QED BY <1>4, <1>5, <1>6

\* A result is accepted only under the claim it was computed for.
LEMMA AcceptWrites ==
  ASSUME TypeOK, NEW n \in Nodes, NEW id, id # None, Accept(n, id)
  PROVE  NodesKeptOr
<1>1. node[n] \in NodeRows BY DEF TypeOK, NodeTypeOK
<1>2. CASE node[n].own = id
  <2> DEFINE row == [node[n] EXCEPT !.st = "succeeded", !.own = None, !.late = FALSE]
  <2>1. row \in NodeRows BY <1>1 DEF NodeRows, NodeStatuses
  <2>2. node' = [node EXCEPT ![n] = row]
    BY <1>2 DEF Accept, SetStatus, TypeOK, NodeTypeOK, NodeRows
  <2> QED BY <1>2, <2>1, <2>2 DEF NodesKeptOr, NodeWrite
<1>3. CASE node[n].own # id BY <1>3 DEF Accept, NodesKeptOr
<1> QED BY <1>2, <1>3

\* So is an error.
LEMMA RejectWrites ==
  ASSUME TypeOK, NEW n \in Nodes, NEW id, id # None,
         NEW class \in {"retryable", "fatal"}, Reject(n, id, class)
  PROVE  NodesKeptOr
<1>1. CASE node[n].own = id
  <2>1. node' = [SetStatus(n, "failed") EXCEPT ![n].ec = class]
    BY <1>1 DEF Reject
  <2> QED BY <1>1, <2>1, ReleaseNode DEF NodeStatuses
<1>2. CASE node[n].own # id BY <1>2 DEF Reject, NodesKeptOr
<1> QED BY <1>1, <1>2

\* A claim takes a node that is neither running nor done.
LEMMA ClaimWrites ==
  ASSUME TypeOK, NEW n \in Nodes, NEW id \in Workers \cup {HostId},
         NEW attempt \in Nat, Claimable(n, id), Claim(n, id, attempt)
  PROVE  NodesKeptOr
<1> DEFINE row == [node[n] EXCEPT !.st = "running", !.att = attempt,
                                  !.own = id, !.late = FALSE]
<1>1. node[n] \in NodeRows BY DEF TypeOK, NodeTypeOK
<1>2. row \in NodeRows BY <1>1 DEF NodeRows, NodeStatuses
<1>3. node' = [node EXCEPT ![n] = row]
  BY DEF Claim, TypeOK, NodeTypeOK, NodeRows
<1>4. id # None BY DurableRunAssumption
<1>5. node[n].st \notin {"running", "succeeded"} BY DEF Claimable
<1>6. row.st = "running" /\ row.own = id BY <1>1 DEF NodeRows
<1> QED BY <1>2, <1>3, <1>4, <1>5, <1>6 DEF NodesKeptOr, NodeWrite

\* Time, and WorkerLost, touch the lease only.
LEMMA LeaseWrites ==
  ASSUME TypeOK, NEW n \in Nodes,
         node' = [node EXCEPT ![n].late = (node[n].own # None)]
  PROVE  NodesKeptOr
<1> DEFINE row == [node[n] EXCEPT !.late = (node[n].own # None)]
<1>1. node[n] \in NodeRows BY DEF TypeOK, NodeTypeOK
<1>2. row \in NodeRows BY <1>1 DEF NodeRows
<1>3. node' = [node EXCEPT ![n] = row] BY DEF TypeOK, NodeTypeOK, NodeRows
<1> QED BY <1>2, <1>3 DEF NodesKeptOr, NodeWrite

\* No other write of a node's row exists.
LEMMA NodeStep ==
  ASSUME TypeOK, [Next]_vars
  PROVE  NodesKeptOr
<1> USE DEF NodesKeptOr
<1>1. CASE UNCHANGED node BY <1>1
<1>2. ASSUME NEW w \in Workers, RearmFailed(w) PROVE NodesKeptOr
  <2>1. Current(w) \in Nodes
    BY <1>2, CurrentNode DEF RearmFailed, AtNodeLabels, TypeOK, DriverTypeOK
  <2>2. CASE Fenced(Current(w)) BY <1>2, <2>2 DEF RearmFailed
  <2>3. CASE ~Fenced(Current(w))
    BY <1>2, <2>1, <2>3, ReleaseNode DEF RearmFailed, Mark, Fenced, NodeStatuses
  <2> QED BY <2>2, <2>3
<1>3. ASSUME NEW w \in Workers, RearmTarget(w) PROVE NodesKeptOr
  <2> DEFINE n == Current(w)
             bump == IF drv[w].op = "force" THEN 1 ELSE 0
  <2>1. n \in Nodes
    BY <1>3, CurrentNode DEF RearmTarget, AtNodeLabels, TypeOK, DriverTypeOK
  <2>2. CASE Fenced(n) BY <1>3, <2>2 DEF RearmTarget
  <2>3. CASE ~Fenced(n)
    <3>1. bump \in Nat OBVIOUS
    <3>2. node' = [SetStatus(n, "resumable") EXCEPT ![n].max = @ + bump]
      BY <1>3, <2>3 DEF RearmTarget
    <3> QED BY <2>1, <2>3, <3>1, <3>2, ReleaseNode DEF Fenced, NodeStatuses
  <2> QED BY <2>2, <2>3
<1>4. ASSUME NEW w \in Workers, RearmCrashed(w) PROVE NodesKeptOr
  <2>1. Current(w) \in Nodes BY <1>4, CurrentNode DEF RearmCrashed, Visiting
  <2>2. CASE Fenced(Current(w)) BY <1>4, <2>2 DEF RearmCrashed
  <2>3. CASE ~Fenced(Current(w))
    BY <1>4, <2>1, <2>3, ReleaseNode DEF RearmCrashed, Mark, Fenced, NodeStatuses
  <2> QED BY <2>2, <2>3
<1>5. ASSUME NEW w \in Workers, BlockNode(w) PROVE NodesKeptOr
  <2>1. Current(w) \in Nodes BY <1>5, CurrentNode DEF BlockNode, AtGate, Visiting
  <2>2. CASE Fenced(Current(w)) BY <1>5, <2>2 DEF BlockNode
  <2>3. CASE ~Fenced(Current(w))
    BY <1>5, <2>1, <2>3, ReleaseNode DEF BlockNode, Mark, Fenced, NodeStatuses
  <2> QED BY <2>2, <2>3
<1>6. ASSUME NEW w \in Workers, UnblockNode(w) PROVE NodesKeptOr
  <2>1. Current(w) \in Nodes BY <1>6, CurrentNode DEF UnblockNode, AtGate, Visiting
  <2>2. CASE Fenced(Current(w)) BY <1>6, <2>2 DEF UnblockNode
  <2>3. CASE ~Fenced(Current(w))
    BY <1>6, <2>1, <2>3, ReleaseNode DEF UnblockNode, Mark, Fenced, NodeStatuses
  <2> QED BY <2>2, <2>3
<1>7. ASSUME NEW w \in Workers, ClaimNode(w) PROVE NodesKeptOr
  <2>1. Current(w) \in Nodes
    BY <1>7, CurrentNode DEF ClaimNode, AtNodeLabels, TypeOK, DriverTypeOK
  <2>2. drv[w].att + 1 \in Nat BY DEF TypeOK, DriverTypeOK, Drivers
  <2> QED BY <1>7, <2>1, <2>2, ClaimWrites DEF ClaimNode
<1>8. ASSUME NEW w \in Workers, FinishNode(w) PROVE NodesKeptOr
  <2>1. Current(w) \in Nodes
    BY <1>8, CurrentNode DEF FinishNode, AtNodeLabels, TypeOK, DriverTypeOK
  <2> QED BY <1>8, <2>1, AcceptWrites, DurableRunAssumption DEF FinishNode
<1>9. ASSUME NEW w \in Workers, FailNode(w) PROVE NodesKeptOr
  <2>1. Current(w) \in Nodes
    BY <1>9, CurrentNode DEF FailNode, AtNodeLabels, TypeOK, DriverTypeOK
  <2>2. PICK class \in {"retryable", "fatal"} : Reject(Current(w), w, class)
    BY <1>9, Zenon DEF FailNode
  <2> QED BY <2>1, <2>2, RejectWrites, DurableRunAssumption
<1>10. ASSUME NEW w \in Workers, LoseWorker(w) PROVE NodesKeptOr
  <2>1. Current(w) \in Nodes
    BY <1>10, CurrentNode DEF LoseWorker, AtNodeLabels, TypeOK, DriverTypeOK
  <2> QED BY <1>10, <2>1, LeaseWrites DEF LoseWorker
<1>11. ASSUME NEW h \in Hosts, ClaimReported(h) PROVE NodesKeptOr
  <2>1. host[h].n \in Nodes /\ host[h].att \in Nat BY DEF TypeOK, CallerTypeOK
  <2> QED BY <1>11, <2>1, ClaimWrites DEF ClaimReported
<1>12. ASSUME NEW h \in Hosts, FinishReported(h) PROVE NodesKeptOr
  <2> DEFINE n == host[h].n
  <2>1. n \in Nodes /\ HostId # None
    BY DurableRunAssumption DEF TypeOK, CallerTypeOK
  <2> HIDE DEF n
  <2>2. CASE Accept(n, HostId) BY <2>1, <2>2, AcceptWrites
  <2>3. ASSUME NEW class \in {"retryable", "fatal"},
               Reject(n, HostId, class)
        PROVE  NodesKeptOr
    BY <2>1, <2>3, RejectWrites
  <2>4. \/ Accept(n, HostId)
        \/ \E class \in {"retryable", "fatal"} : Reject(n, HostId, class)
    BY <1>12, Zenon DEF FinishReported, n
  <2> QED BY <2>2, <2>3, <2>4
<1>13. ASSUME NEW n \in Nodes, NodeLeaseExpires(n) PROVE NodesKeptOr
  <2>1. node' = [node EXCEPT ![n].late = (node[n].own # None)]
    BY <1>13 DEF NodeLeaseExpires
  <2> QED BY <2>1, LeaseWrites
<1>14. ASSUME NEW n \in ChildNodes, FailParentNode(n) PROVE NodesKeptOr
  <2>1. n \in Nodes BY DurableRunAssumption
  <2> QED BY <1>14, <2>1, ReleaseNode DEF FailParentNode, NodeStatuses
<1> QED
  BY <1>1, <1>2, <1>3, <1>4, <1>5, <1>6, <1>7, <1>8, <1>9, <1>10, <1>11,
     <1>12, <1>13, <1>14
  DEF Next, Drive, Report, vars, CallDriver, CrashWorker, RunLeaseExpires,
      LoadFailed, ReadTarget, Reactivate, LoadRun, LoadNodes, EndPass,
      ParkRun, ReloadNode, SkipNode, StartNode, ReadLostClaim, DecideOutcome,
      HoldRun, SucceedRun, FailRun, ReleaseRun, ReadReported, RecordEvidence,
      ReadEvidence, ApplyEvidence

-----------------------------------------------------------------------------
(* Drivers' local variables *)

\* One driver gets new locals.
LEMMA FrameStep ==
  ASSUME TypeOK, NEW w \in Workers, NEW frame \in Drivers,
         frame.pc \in AtNodeLabels => frame.todo # {},
         drv' = [drv EXCEPT ![w] = frame]
  PROVE  DriverTypeOK'
BY DEF TypeOK, DriverTypeOK

\* It keeps all but its program counter.
LEMMA GotoStep ==
  ASSUME TypeOK, NEW w \in Workers, NEW label \in DriverLabels,
         label \in AtNodeLabels => drv[w].todo # {},
         Goto(w, label)
  PROVE  DriverTypeOK'
<1> DEFINE frame == [drv[w] EXCEPT !.pc = label]
<1>1. drv[w] \in Drivers BY DEF TypeOK, DriverTypeOK
<1>2. frame \in Drivers BY <1>1 DEF Drivers
<1>3. frame.pc = label /\ frame.todo = drv[w].todo BY <1>1 DEF Drivers
<1>4. drv' = [drv EXCEPT ![w] = frame]
  BY DEF Goto, TypeOK, DriverTypeOK, Drivers
<1> QED BY <1>2, <1>3, <1>4, FrameStep

\* It drops them.
LEMMA LeaveStep ==
  ASSUME TypeOK, NEW w \in Workers, NEW label \in DriverLabels \ AtNodeLabels,
         Leave(w, label)
  PROVE  DriverTypeOK'
<1> DEFINE frame == [NewFrame EXCEPT !.pc = label]
<1>1. frame \in Drivers BY NewFrameType DEF Drivers
<1>2. frame.pc = label BY NewFrameType DEF Drivers
<1>3. drv' = [drv EXCEPT ![w] = frame] BY DEF Leave
<1> HIDE DEF frame
<1> QED BY <1>1, <1>2, <1>3, FrameStep

\* It goes on to the next node of the pass.
LEMMA NextNodeStep ==
  ASSUME TypeOK, NEW w \in Workers, NEW progress \in BOOLEAN,
         NextNode(w, progress)
  PROVE  DriverTypeOK'
<1> DEFINE n == Current(w)
           frame == [drv[w] EXCEPT !.pc = "visit", !.todo = drv[w].todo \ {n},
                                   !.rows = [drv[w].rows EXCEPT ![n] = FreshNode],
                                   !.att = 0, !.prog = drv[w].prog \/ progress]
<1>1. drv[w] \in Drivers BY DEF TypeOK, DriverTypeOK
<1>2. frame \in Drivers
  <2>1. [drv[w].rows EXCEPT ![n] = FreshNode] \in [Nodes -> NodeRows]
    BY <1>1, FreshNodeType DEF Drivers
  <2>2. "visit" \in DriverLabels BY DEF DriverLabels
  <2>3. drv[w].prog \/ progress \in BOOLEAN BY <1>1 DEF Drivers
  <2> HIDE DEF n
  <2> QED BY <1>1, <2>1, <2>2, <2>3 DEF Drivers
<1>3. frame.pc = "visit" BY <1>1 DEF Drivers
<1>4. drv' = [drv EXCEPT ![w] = frame]
  BY <1>1 DEF NextNode, TypeOK, DriverTypeOK, Drivers
<1> QED BY <1>2, <1>3, <1>4, FrameStep DEF AtNodeLabels

\* Every step keeps the drivers' locals in their types, and a driver that is
\* at a node has one.
LEMMA DriverStep ==
  ASSUME TypeOK, [Next]_vars
  PROVE  DriverTypeOK'
<1> USE DEF AtNodeLabels, DriverLabels
<1>0. CASE UNCHANGED drv BY <1>0 DEF TypeOK, DriverTypeOK
<1>1. \A w \in Workers : drv[w] \in Drivers BY DEF TypeOK, DriverTypeOK
<1>2. ASSUME NEW w \in Workers, NEW op \in Operations, NEW n \in Nodes,
             CallDriver(w, op, n)
      PROVE  DriverTypeOK'
  <2> DEFINE label == CASE op = "execute" -> "loadRun"
                        [] op = "resume" -> "loadFailed"
                        [] OTHER -> "readTarget"
             aim == IF op \in {"retry", "force"} THEN {n} ELSE {}
             frame == [drv[w] EXCEPT !.pc = label, !.op = op, !.todo = aim]
  <2>1. op \in {"execute", "resume", "retry", "force"} BY DurableRunAssumption
  <2>2. /\ label \in {"loadRun", "loadFailed", "readTarget"}
        /\ label = "readTarget" => aim = {n}
    BY <2>1
  <2>3. aim \in SUBSET Nodes OBVIOUS
  <2>4. drv' = [drv EXCEPT ![w] = frame]
    BY <1>1, <1>2 DEF CallDriver, TypeOK, DriverTypeOK, Drivers
  <2> HIDE DEF label, aim
  <2>5. frame \in Drivers BY <1>1, <2>1, <2>2, <2>3 DEF Drivers
  <2>6. frame.pc = label /\ frame.todo = aim BY <1>1 DEF Drivers
  <2> QED BY <2>2, <2>4, <2>5, <2>6, FrameStep
<1>3. ASSUME NEW w \in Workers, LoadFailed(w) PROVE DriverTypeOK'
  <2> DEFINE again == {n \in Nodes : MayRetry(n)}
             label == IF again = {} THEN "loadRun" ELSE "rearmFailed"
             frame == [drv[w] EXCEPT !.todo = again, !.pc = label]
  <2>1. drv' = [drv EXCEPT ![w] = frame]
    BY <1>1, <1>3 DEF LoadFailed, TypeOK, DriverTypeOK, Drivers
  <2>2. again \in SUBSET Nodes OBVIOUS
  <2>3. label \in DriverLabels /\ (label \in AtNodeLabels => again # {}) OBVIOUS
  <2> HIDE DEF again, label
  <2>4. frame \in Drivers BY <1>1, <2>2, <2>3 DEF Drivers
  <2>5. frame.pc = label /\ frame.todo = again BY <1>1 DEF Drivers
  <2> QED BY <2>1, <2>3, <2>4, <2>5, FrameStep
<1>4. ASSUME NEW w \in Workers, RearmFailed(w) PROVE DriverTypeOK'
  <2> DEFINE n == Current(w)
             left == drv[w].todo \ {n}
             label == IF left = {} THEN "loadRun" ELSE "rearmFailed"
             frame == [drv[w] EXCEPT !.todo = left, !.pc = label]
  <2>1. CASE Fenced(n) BY <1>4, <2>1, LeaveStep DEF RearmFailed
  <2>2. CASE ~Fenced(n)
    <3>1. drv' = [drv EXCEPT ![w] = frame]
      BY <1>1, <1>4, <2>2 DEF RearmFailed, TypeOK, DriverTypeOK, Drivers
    <3>2. left \in SUBSET Nodes BY <1>1 DEF Drivers
    <3>3. label \in DriverLabels /\ (label \in AtNodeLabels => left # {}) OBVIOUS
    <3> HIDE DEF left, label
    <3>4. frame \in Drivers BY <1>1, <3>2, <3>3 DEF Drivers
    <3>5. frame.pc = label /\ frame.todo = left BY <1>1 DEF Drivers
    <3> QED BY <3>1, <3>3, <3>4, <3>5, FrameStep
  <2> QED BY <2>1, <2>2
<1>5. ASSUME NEW w \in Workers, LoadNodes(w) PROVE DriverTypeOK'
  <2> DEFINE open == {n \in Nodes : node[n].st \notin {"succeeded", "failed"}}
             frame == [drv[w] EXCEPT !.rows = node, !.view = Statuses,
                         !.prog = FALSE, !.todo = open, !.pc = "visit"]
  <2>1. drv' = [drv EXCEPT ![w] = frame]
    BY <1>1, <1>5 DEF LoadNodes, TypeOK, DriverTypeOK, Drivers
  <2>2. open \in SUBSET Nodes OBVIOUS
  <2>3. node \in [Nodes -> NodeRows] BY DEF TypeOK, NodeTypeOK
  <2>4. Statuses \in [Nodes -> NodeStatuses] BY <2>3 DEF Statuses, NodeRows
  <2> HIDE DEF open
  <2>5. frame \in Drivers BY <1>1, <2>2, <2>3, <2>4 DEF Drivers
  <2>6. frame.pc = "visit" BY <1>1 DEF Drivers
  <2> QED BY <2>1, <2>5, <2>6, FrameStep
<1>6. ASSUME NEW w \in Workers, ReloadNode(w) PROVE DriverTypeOK'
  <2> DEFINE n == Current(w)
             label == IF drv[w].pc = "reloadCrashed" THEN "gate" ELSE "enter"
             rows == [drv[w].rows EXCEPT ![n] = node[n]]
             frame == [drv[w] EXCEPT !.view = Statuses, !.rows = rows, !.pc = label]
  <2>1. drv[w].todo # {} BY <1>6 DEF ReloadNode, TypeOK, DriverTypeOK
  <2>2. n \in Nodes BY <2>1, CurrentNode
  <2>3. drv' = [drv EXCEPT ![w] = frame]
    BY <1>1, <1>6 DEF ReloadNode, TypeOK, DriverTypeOK, Drivers
  <2>4. node \in [Nodes -> NodeRows] BY DEF TypeOK, NodeTypeOK
  <2>5. Statuses \in [Nodes -> NodeStatuses] BY <2>4 DEF Statuses, NodeRows
  <2>6. rows \in [Nodes -> NodeRows] BY <1>1, <2>2, <2>4 DEF Drivers
  <2>7. label \in DriverLabels OBVIOUS
  <2> HIDE DEF label, rows, n
  <2>8. frame \in Drivers BY <1>1, <2>5, <2>6, <2>7 DEF Drivers
  <2>9. frame.todo = drv[w].todo BY <1>1 DEF Drivers
  <2> QED BY <2>1, <2>3, <2>8, <2>9, FrameStep
<1>7. ASSUME NEW w \in Workers, UnblockNode(w) PROVE DriverTypeOK'
  <2> DEFINE frame == [drv[w] EXCEPT !.pc = "reloadUnblocked", !.prog = TRUE]
  <2>1. CASE Fenced(Current(w)) BY <1>7, <2>1, LeaveStep DEF UnblockNode
  <2>2. CASE ~Fenced(Current(w))
    <3>1. drv' = [drv EXCEPT ![w] = frame]
      BY <1>1, <1>7, <2>2 DEF UnblockNode, TypeOK, DriverTypeOK, Drivers
    <3>2. drv[w].todo # {} BY <1>7 DEF UnblockNode, AtGate, Visiting
    <3>3. frame \in Drivers BY <1>1 DEF Drivers
    <3>4. frame.todo = drv[w].todo BY <1>1 DEF Drivers
    <3> QED BY <3>1, <3>2, <3>3, <3>4, FrameStep
  <2> QED BY <2>1, <2>2
<1>8. ASSUME NEW w \in Workers, StartNode(w) PROVE DriverTypeOK'
  <2> DEFINE seen == drv[w].rows[Current(w)]
             frame == [drv[w] EXCEPT !.att = seen.att, !.prog = TRUE, !.pc = "claim"]
  <2>1. drv[w].todo # {} BY <1>8 DEF StartNode, AtEntry, AtGate, Visiting
  <2>2. seen \in NodeRows BY <1>1, <2>1, CurrentNode DEF Drivers
  <2>3. CASE AttemptsLeft(seen)
    <3>1. drv' = [drv EXCEPT ![w] = frame]
      BY <1>1, <1>8, <2>3 DEF StartNode, TypeOK, DriverTypeOK, Drivers
    <3>2. seen.att \in Nat BY <2>2 DEF NodeRows
    <3> HIDE DEF seen
    <3>3. frame \in Drivers BY <1>1, <3>2 DEF Drivers
    <3>4. frame.todo = drv[w].todo BY <1>1 DEF Drivers
    <3> QED BY <2>1, <3>1, <3>3, <3>4, FrameStep
  <2>4. CASE ~AttemptsLeft(seen) BY <1>8, <2>4, LeaveStep DEF StartNode
  <2> QED BY <2>3, <2>4
<1>9. ASSUME NEW w \in Workers, ClaimNode(w) PROVE DriverTypeOK'
  <2> DEFINE frame == [drv[w] EXCEPT !.att = drv[w].att + 1, !.pc = "exec"]
  <2>1. drv[w].todo # {} BY <1>9 DEF ClaimNode, TypeOK, DriverTypeOK
  <2>2. CASE Claimable(Current(w), w)
    <3>1. drv' = [drv EXCEPT ![w] = frame]
      BY <1>1, <1>9, <2>2 DEF ClaimNode, TypeOK, DriverTypeOK, Drivers
    <3>2. drv[w].att + 1 \in Nat BY <1>1 DEF Drivers
    <3>3. frame \in Drivers BY <1>1, <3>2 DEF Drivers
    <3>4. frame.todo = drv[w].todo BY <1>1 DEF Drivers
    <3> QED BY <2>1, <3>1, <3>3, <3>4, FrameStep
  <2>3. CASE ~Claimable(Current(w), w)
    BY <1>9, <2>1, <2>3, GotoStep DEF ClaimNode
  <2> QED BY <2>2, <2>3
<1>10. ASSUME NEW w \in Workers, DecideOutcome(w) PROVE DriverTypeOK'
  <2> DEFINE label == CASE AllDone -> IF verif = "met" THEN "succeed" ELSE "hold"
                        [] NodesIn({"failed", "blocked"}) # {} -> "fail"
                        [] OTHER -> "release"
             verdict == IF NodesIn({"succeeded"}) # {} THEN "needs_rework"
                                                       ELSE "failure"
             frame == [drv[w] EXCEPT !.pc = label, !.verdict = verdict]
  <2>1. drv' = [drv EXCEPT ![w].pc = label, ![w].verdict = verdict]
    BY <1>10, Zenon DEF DecideOutcome
  <2>2. label \in {"succeed", "hold", "fail", "release"} OBVIOUS
  <2>3. verdict \in {"failure", "needs_rework"} OBVIOUS
  <2> HIDE DEF label, verdict
  <2>4. frame \in Drivers BY <1>1, <2>2, <2>3 DEF Drivers
  <2>5. frame.pc = label BY <1>1 DEF Drivers
  <2>6. drv' = [drv EXCEPT ![w] = frame]
    BY <1>1, <2>1 DEF TypeOK, DriverTypeOK, Drivers
  <2> QED BY <2>2, <2>4, <2>5, <2>6, FrameStep
<1>11. ASSUME NEW w \in Workers,
              \/ ReleaseRun(w) \/ CrashWorker(w) \/ Reactivate(w) \/ EndPass(w)
              \/ ParkRun(w) \/ LoseWorker(w) \/ HoldRun(w) \/ SucceedRun(w)
              \/ FailRun(w)
       PROVE  DriverTypeOK'
  <2>1. \E label \in {"done", "loadRun", "final", "release"} : Leave(w, label)
    BY <1>11 DEF ReleaseRun, CrashWorker, Reactivate, EndPass, ParkRun,
                 LoseWorker, HoldRun, SucceedRun, FailRun
  <2> QED BY <2>1, LeaveStep
<1>12. ASSUME NEW w \in Workers, ReadTarget(w) PROVE DriverTypeOK'
  <2>1. drv[w].todo # {} BY <1>12 DEF ReadTarget, TypeOK, DriverTypeOK
  <2>2. Goto(w, "rearmTarget") \/ Leave(w, "release") BY <1>12 DEF ReadTarget
  <2> QED BY <2>1, <2>2, GotoStep, LeaveStep
<1>13. ASSUME NEW w \in Workers, RearmTarget(w) PROVE DriverTypeOK'
  BY <1>13, LeaveStep DEF RearmTarget
<1>14. ASSUME NEW w \in Workers, LoadRun(w) PROVE DriverTypeOK'
  <2>1. Goto(w, "final") \/ Goto(w, "loadNodes") BY <1>14 DEF LoadRun
  <2> QED BY <2>1, GotoStep
<1>15. ASSUME NEW w \in Workers, RearmCrashed(w) PROVE DriverTypeOK'
  <2>1. drv[w].todo # {} BY <1>15 DEF RearmCrashed, Visiting
  <2>2. \/ Goto(w, "reloadCrashed") \/ Leave(w, "parkRun") \/ Leave(w, "release")
    BY <1>15 DEF RearmCrashed
  <2> QED BY <2>1, <2>2, GotoStep, LeaveStep
<1>16. ASSUME NEW w \in Workers, SkipNode(w) PROVE DriverTypeOK'
  BY <1>16, NextNodeStep DEF SkipNode
<1>17. ASSUME NEW w \in Workers, BlockNode(w) PROVE DriverTypeOK'
  <2>1. NextNode(w, TRUE) \/ Leave(w, "release") BY <1>17 DEF BlockNode
  <2> QED BY <2>1, NextNodeStep, LeaveStep
<1>18. ASSUME NEW w \in Workers, ReadLostClaim(w) PROVE DriverTypeOK'
  <2>1. NextNode(w, TRUE) \/ Leave(w, "loadRun") BY <1>18 DEF ReadLostClaim
  <2> QED BY <2>1, NextNodeStep, LeaveStep
<1>19. ASSUME NEW w \in Workers, FinishNode(w) PROVE DriverTypeOK'
  BY <1>19, NextNodeStep DEF FinishNode
<1>20. ASSUME NEW w \in Workers, FailNode(w) PROVE DriverTypeOK'
  <2>1. drv[w].todo # {} BY <1>20 DEF FailNode, TypeOK, DriverTypeOK
  <2>2. Goto(w, "claim") \/ Leave(w, "loadRun") BY <1>20 DEF FailNode
  <2> QED BY <2>1, <2>2, GotoStep, LeaveStep
<1> QED
  BY <1>0, <1>2, <1>3, <1>4, <1>5, <1>6, <1>7, <1>8, <1>9, <1>10, <1>11,
     <1>12, <1>13, <1>14, <1>15, <1>16, <1>17, <1>18, <1>19, <1>20
  DEF Next, Drive, Report, vars, RunLeaseExpires, NodeLeaseExpires,
      ReadReported, ClaimReported, FinishReported, RecordEvidence,
      ReadEvidence, ApplyEvidence, FailParentNode

-----------------------------------------------------------------------------
(* What a step may make of the run's row *)

\* The values the run's row may have.
RunRows ==
  [st : RunStatuses, own : Workers \cup {None}, late : BOOLEAN,
   outcome : Outcomes \cup {None}, exec : Nat]

\* Only the lease changes; an executions row may be appended beside it.
RunKept ==
  /\ UNCHANGED <<episode, endings>>
  /\ UNCHANGED execs \/ \E outcome \in Outcomes : execs' = Append(execs, outcome)
  /\ \E id \in Workers \cup {None}, late \in BOOLEAN :
       run' = [run EXCEPT !.own = id, !.late = late]

\* _claim_run or retry_node makes the run run.
RunActivated ==
  /\ UNCHANGED <<episode, endings, execs>>
  /\ run.st \in {"pending", "paused", "failed"}
  /\ \E row \in RunRows :
       /\ run' = row
       /\ row.st = "running"
       /\ \/ row.outcome = None /\ row.exec = 0
          \/ /\ run.st # "failed"
             /\ row.outcome = run.outcome /\ row.exec = run.exec

\* The run is parked, or held for verification.
RunHeld ==
  /\ UNCHANGED <<episode, endings, execs>>
  /\ run.st = "running"
  /\ \E row \in RunRows :
       /\ run' = row
       /\ row.st \in {"paused", "awaiting_verification"}
       /\ row.outcome = run.outcome /\ row.exec = run.exec

\* The run becomes terminal.
RunEnded ==
  /\ \E closing \in Outcomes \cup {"failed_verification"} : CloseEpisode(closing)
  /\ endings' = endings + 1
  /\ run.st \in {"running", "awaiting_verification"}
  /\ \E row \in RunRows :
       /\ run' = row
       /\ row.st \in {"succeeded", "failed"}
       /\ row.st = "succeeded" <=> row.outcome = "success"
       /\ \/ /\ execs' = Append(execs, row.outcome)
             /\ row.exec = Len(execs) + 1
             /\ row.outcome \in Outcomes
          \/ /\ UNCHANGED execs
             /\ row.outcome = "failure"
             /\ row.exec = run.exec

RunMoves == RunKept \/ RunActivated \/ RunHeld \/ RunEnded

\* A step that writes no run row is a RunKept step.
LEMMA RunUnchanged ==
  ASSUME TypeOK, UNCHANGED <<run, episode, endings>>,
         UNCHANGED execs \/ \E outcome \in Outcomes : execs' = Append(execs, outcome)
  PROVE  RunMoves
<1>1. run = [run EXCEPT !.own = run.own, !.late = run.late]
  BY DEF TypeOK, RunTypeOK
<1>2. run.own \in Workers \cup {None} /\ run.late \in BOOLEAN
  BY DEF TypeOK, RunTypeOK
<1> QED BY <1>1, <1>2 DEF RunMoves, RunKept

\* EndRun, called with fields that agree, is a RunEnded step.
LEMMA EndWrites ==
  ASSUME TypeOK, NEW by, NEW status \in {"succeeded", "failed"},
         NEW outcome \in Outcomes, NEW exec \in Nat,
         NEW closing \in Outcomes \cup {"failed_verification"},
         EndRun(by, status, outcome, exec, closing),
         run.st \in {"running", "awaiting_verification"},
         status = "succeeded" <=> outcome = "success",
         \/ execs' = Append(execs, outcome) /\ exec = Len(execs) + 1
         \/ UNCHANGED execs /\ outcome = "failure" /\ exec = run.exec
  PROVE  RunMoves
<1> DEFINE row == [st |-> status, own |-> None, late |-> FALSE,
                   outcome |-> outcome, exec |-> exec]
<1>1. row \in RunRows BY DEF RunRows, RunStatuses
<1>2. run' = row /\ endings' = endings + 1 /\ CloseEpisode(closing) BY DEF EndRun
<1> QED BY <1>1, <1>2 DEF RunMoves, RunEnded

\* _persist_success_transition ends the run or only appends the row.
LEMMA PersistWrites ==
  ASSUME TypeOK, NEW by, NEW from \in {"running", "awaiting_verification"},
         PersistSuccess(by, from)
  PROVE  RunMoves
<1>1. execs' = Append(execs, "success") /\ "success" \in Outcomes
  BY DEF PersistSuccess, Outcomes
<1>2. CASE run.st = from
  <2>1. EndRun(by, "succeeded", "success", Len(execs) + 1, "success")
    BY <1>2 DEF PersistSuccess
  <2>2. Len(execs) + 1 \in Nat BY DEF TypeOK, RecordTypeOK
  <2> QED BY <1>1, <1>2, <2>1, <2>2, EndWrites
<1>3. CASE run.st # from
  BY <1>1, <1>3, RunUnchanged DEF PersistSuccess
<1> QED BY <1>2, <1>3

\* No other write of the run's row exists.
LEMMA RunStep ==
  ASSUME TypeOK, [Next]_vars
  PROVE  RunMoves
<1>0. CASE UNCHANGED <<run, execs, episode, endings>> BY <1>0, RunUnchanged
<1>1. run \in RunRows BY DEF TypeOK, RunTypeOK, RunRows
<1>2. ASSUME NEW w \in Workers, NEW op \in Operations, NEW n \in Nodes,
             CallDriver(w, op, n)
      PROVE  RunMoves
  <2>1. UNCHANGED <<episode, endings, execs>> /\ run' = Activated(w)
    BY <1>2 DEF CallDriver, histories
  <2>2. CASE run.st \in {"running", "awaiting_verification"}
    <3> DEFINE kept == [run EXCEPT !.own = w, !.late = FALSE]
    <3>1. /\ kept.st = run.st /\ kept.own = w /\ kept.late = FALSE
          /\ kept.outcome = run.outcome /\ kept.exec = run.exec
          /\ kept \in RunRows
      BY <1>1 DEF RunRows
    <3> HIDE DEF kept
    <3>2. kept = [st |-> kept.st, own |-> kept.own, late |-> kept.late,
                  outcome |-> kept.outcome, exec |-> kept.exec]
      BY <3>1 DEF RunRows
    <3>3. Activated(w) = [st |-> run.st, own |-> w, late |-> FALSE,
                          outcome |-> run.outcome, exec |-> run.exec]
      <4>1. (IF run.st = "awaiting_verification" THEN run.st ELSE "running")
              = run.st
        BY <2>2
      <4>2. (IF run.st = "failed" THEN None ELSE run.outcome) = run.outcome
        BY <2>2
      <4>3. (IF run.st = "failed" THEN 0 ELSE run.exec) = run.exec BY <2>2
      <4> QED BY <4>1, <4>2, <4>3, Zenon DEF Activated
    <3>4. run' = kept BY <2>1, <3>1, <3>2, <3>3
    <3> USE DEF kept
    <3> QED BY <2>1, <3>4 DEF RunMoves, RunKept
  <2>3. CASE run.st \in {"pending", "paused", "failed"}
    <3>1. Activated(w) \in RunRows
      BY <1>1, <2>3 DEF Activated, RunRows, RunStatuses
    <3>2. /\ Activated(w).st = "running"
          /\ Activated(w).outcome = IF run.st = "failed" THEN None ELSE run.outcome
          /\ Activated(w).exec = IF run.st = "failed" THEN 0 ELSE run.exec
      BY <2>3 DEF Activated
    <3> QED BY <2>1, <2>3, <3>1, <3>2 DEF RunMoves, RunActivated
  <2>4. run.st # "succeeded" BY <1>2 DEF CallDriver
  <2> QED BY <1>1, <2>2, <2>3, <2>4 DEF RunRows, RunStatuses
<1>3. ASSUME NEW w \in Workers, ReleaseRun(w) PROVE RunMoves
  <2>1. UNCHANGED <<episode, endings, execs>> BY <1>3 DEF ReleaseRun, histories
  <2>2. \/ UNCHANGED run
        \/ run' = [run EXCEPT !.own = None, !.late = FALSE]
    BY <1>3 DEF ReleaseRun
  <2> QED BY <2>1, <2>2, RunUnchanged DEF RunMoves, RunKept
<1>4. CASE RunLeaseExpires
  <2>1. run' = [run EXCEPT !.own = run.own, !.late = TRUE]
    BY <1>1, <1>4 DEF RunLeaseExpires, RunRows
  <2>2. run.own \in Workers \cup {None} BY <1>1 DEF RunRows
  <2> QED BY <1>4, <2>1, <2>2 DEF RunLeaseExpires, RunMoves, RunKept
<1>5. ASSUME NEW w \in Workers, Reactivate(w) PROVE RunMoves
  <2>1. UNCHANGED <<episode, endings, execs>> BY <1>5 DEF Reactivate, histories
  <2>2. CASE run.st \in {"paused", "failed", "pending"}
    <3> DEFINE row == [run EXCEPT !.st = "running", !.outcome = None, !.exec = 0]
    <3>1. run' = row BY <1>5, <2>2 DEF Reactivate
    <3>2. row \in RunRows /\ row.st = "running" /\ row.outcome = None /\ row.exec = 0
      BY <1>1 DEF RunRows, RunStatuses
    <3> QED BY <2>1, <2>2, <3>1, <3>2 DEF RunMoves, RunActivated
  <2>3. CASE run.st \notin {"paused", "failed", "pending"}
    BY <1>5, <2>1, <2>3, RunUnchanged DEF Reactivate
  <2> QED BY <2>2, <2>3
<1>6. ASSUME NEW w \in Workers, ParkRun(w) PROVE RunMoves
  <2>1. UNCHANGED <<episode, endings, execs>> BY <1>6 DEF ParkRun, histories
  <2>2. CASE run.st = "running"
    <3> DEFINE row == [run EXCEPT !.st = "paused"]
    <3>1. run' = row BY <1>6, <2>2 DEF ParkRun
    <3>2. /\ row \in RunRows /\ row.st = "paused"
          /\ row.outcome = run.outcome /\ row.exec = run.exec
      BY <1>1 DEF RunRows, RunStatuses
    <3> QED BY <2>1, <2>2, <3>1, <3>2 DEF RunMoves, RunHeld
  <2>3. CASE run.st # "running"
    BY <1>6, <2>1, <2>3, RunUnchanged DEF ParkRun
  <2> QED BY <2>2, <2>3
<1>7. ASSUME NEW w \in Workers, HoldRun(w) PROVE RunMoves
  <2>1. UNCHANGED <<episode, endings, execs>> BY <1>7 DEF HoldRun
  <2>2. CASE run.st = "running"
    <3> DEFINE row == [run EXCEPT !.st = "awaiting_verification", !.own = None,
                                  !.late = FALSE]
    <3>1. run' = row BY <1>7, <2>2 DEF HoldRun
    <3>2. /\ row \in RunRows /\ row.st = "awaiting_verification"
          /\ row.outcome = run.outcome /\ row.exec = run.exec
      BY <1>1 DEF RunRows, RunStatuses
    <3> QED BY <2>1, <2>2, <3>1, <3>2 DEF RunMoves, RunHeld
  <2>3. CASE run.st # "running"
    BY <1>7, <2>1, <2>3, RunUnchanged DEF HoldRun
  <2> QED BY <2>2, <2>3
<1>8. ASSUME NEW w \in Workers, SucceedRun(w) PROVE RunMoves
  BY <1>8, PersistWrites DEF SucceedRun
<1>9. ASSUME NEW w \in Workers, FailRun(w) PROVE RunMoves
  <2> DEFINE outcome == drv[w].verdict
  <2>1. outcome \in {"failure", "needs_rework"}
    BY DEF TypeOK, DriverTypeOK, Drivers
  <2>2. outcome \in Outcomes /\ outcome # "success" BY <2>1 DEF Outcomes
  <2>3. CASE Terminal
    BY <1>9, <2>2, <2>3, RunUnchanged DEF FailRun
  <2>4. CASE ~Terminal /\ <<run.st, "failed">> \in StatusFence
    <3>1. execs' = Append(execs, outcome)
          /\ EndRun(w, "failed", outcome, Len(execs) + 1, outcome)
      BY <1>9, <2>4 DEF FailRun
    <3>2. run.st \in {"running", "awaiting_verification"} BY <2>4 DEF StatusFence
    <3>3. Len(execs) + 1 \in Nat BY DEF TypeOK, RecordTypeOK
    <3> HIDE DEF outcome
    <3> QED BY <2>2, <3>1, <3>2, <3>3, EndWrites
  <2>5. CASE ~Terminal /\ <<run.st, "failed">> \notin StatusFence
    BY <1>9, <2>5, RunUnchanged DEF FailRun
  <2> QED BY <2>3, <2>4, <2>5
<1>10. ASSUME NEW v \in Verifiers, ApplyEvidence(v) PROVE RunMoves
  <2>1. CASE PersistSuccess(None, "awaiting_verification")
    BY <2>1, PersistWrites
  <2>2. CASE /\ UNCHANGED execs
             /\ run.st = "awaiting_verification"
             /\ EndRun(None, "failed", "failure", run.exec, "failed_verification")
    <3>1. run.exec \in Nat /\ "failure" \in Outcomes BY <1>1 DEF RunRows, Outcomes
    <3> QED BY <2>2, <3>1, EndWrites
  <2>3. CASE UNCHANGED <<run, execs, episode, endings>> BY <1>0, <2>3
  <2> QED BY <1>10, <2>1, <2>2, <2>3 DEF ApplyEvidence
<1> QED
  BY <1>0, <1>2, <1>3, <1>4, <1>5, <1>6, <1>7, <1>8, <1>9, <1>10
  DEF Next, Drive, Report, vars, histories, CrashWorker, NodeLeaseExpires,
      LoadFailed, RearmFailed, ReadTarget, RearmTarget, LoadRun, LoadNodes,
      EndPass, RearmCrashed, ReloadNode, SkipNode, BlockNode, UnblockNode,
      StartNode, ClaimNode, ReadLostClaim, FinishNode, FailNode, LoseWorker,
      DecideOutcome, ReadReported, ClaimReported, FinishReported,
      RecordEvidence, ReadEvidence, FailParentNode

-----------------------------------------------------------------------------
(* Type correctness *)

\* What start_run commits is well typed.
LEMMA TypeInit ==
  ASSUME Init
  PROVE  TypeOK
<1>1. RunTypeOK BY DEF Init, RunTypeOK, RunStatuses
<1>2. NodeTypeOK BY FreshNodeType DEF Init, NodeTypeOK
<1>3. DriverTypeOK
  BY NewFrameType DEF Init, DriverTypeOK, NewFrame, AtNodeLabels
<1>4. CallerTypeOK
  <2>1. Min(Nodes) \in Nodes BY MinMember, DurableRunAssumption
  <2> QED BY <2>1 DEF Init, CallerTypeOK
<1>5. RecordTypeOK
  BY DurableRunAssumption DEF Init, RecordTypeOK
<1> QED BY <1>1, <1>2, <1>3, <1>4, <1>5 DEF TypeOK

\* Host reports and verifications keep their locals in their types.
LEMMA CallerStep ==
  ASSUME TypeOK, [Next]_vars
  PROVE  CallerTypeOK'
<1>0. CASE UNCHANGED <<host, ver>> BY <1>0 DEF TypeOK, CallerTypeOK
<1>1. ASSUME NEW h \in Hosts, NEW n \in Nodes, ReadReported(h, n)
      PROVE  CallerTypeOK'
  <2>1. node[n].att + 1 \in Nat BY DEF TypeOK, NodeTypeOK, NodeRows
  <2> QED BY <1>1, <2>1 DEF ReadReported, TypeOK, CallerTypeOK
<1>2. ASSUME NEW h \in Hosts, ClaimReported(h) PROVE CallerTypeOK'
  <2>1. UNCHANGED ver /\ (GotoHost(h, "finish") \/ GotoHost(h, "done"))
    BY <1>2 DEF ClaimReported
  <2> QED BY <2>1 DEF GotoHost, TypeOK, CallerTypeOK
<1>3. ASSUME NEW h \in Hosts, FinishReported(h) PROVE CallerTypeOK'
  <2>1. UNCHANGED ver /\ GotoHost(h, "done") BY <1>3 DEF FinishReported
  <2> QED BY <2>1 DEF GotoHost, TypeOK, CallerTypeOK
<1>4. ASSUME NEW v \in Verifiers, ReadEvidence(v) PROVE CallerTypeOK'
  BY <1>4 DEF ReadEvidence, TypeOK, CallerTypeOK
<1>5. ASSUME NEW v \in Verifiers, ApplyEvidence(v) PROVE CallerTypeOK'
  BY <1>5 DEF ApplyEvidence, TypeOK, CallerTypeOK
<1>6. ASSUME NEW w \in Workers, Drive(w) PROVE UNCHANGED <<host, ver>>
  BY <1>6
  DEF Drive, LoadFailed, RearmFailed, ReadTarget, RearmTarget, Reactivate,
      LoadRun, LoadNodes, EndPass, RearmCrashed, ParkRun, ReloadNode, SkipNode,
      BlockNode, UnblockNode, StartNode, ClaimNode, ReadLostClaim, FinishNode,
      FailNode, LoseWorker, DecideOutcome, HoldRun, SucceedRun, FailRun,
      ReleaseRun
<1> QED
  BY <1>0, <1>1, <1>2, <1>3, <1>4, <1>5, <1>6
  DEF Next, Report, vars, CallDriver, CrashWorker, RunLeaseExpires,
      NodeLeaseExpires, RecordEvidence, FailParentNode

\* The evidence and the histories stay in their types.
LEMMA HistoryStep ==
  ASSUME TypeOK, [Next]_vars
  PROVE  /\ verif' \in {"met", "unmet", "failed"}
         /\ ran' \in [Nodes -> Nat]
         /\ parked' \subseteq Nodes
         /\ ousted' \subseteq Workers
<1> DEFINE Goal == /\ verif' \in {"met", "unmet", "failed"}
                   /\ ran' \in [Nodes -> Nat]
                   /\ parked' \subseteq Nodes
                   /\ ousted' \subseteq Workers
<1> USE DEF TypeOK, RecordTypeOK
<1>0. CASE UNCHANGED <<verif, ran, parked, ousted>> BY <1>0
<1>1. ousted \cup (({run.own} \ {None}) \cup {}) \subseteq Workers
  BY DEF RunTypeOK
<1>2. ASSUME NEW by, Oust(by) PROVE ousted' \subseteq Workers
  BY <1>1, <1>2 DEF Oust
<1>3. CASE RunLeaseExpires
  BY <1>1, <1>3 DEF RunLeaseExpires
<1>4. ASSUME NEW w \in Workers, RearmTarget(w) PROVE Goal
  BY <1>4 DEF RearmTarget
<1>5. ASSUME NEW w \in Workers, RearmCrashed(w) PROVE Goal
  <2>1. Current(w) \in Nodes BY <1>5, CurrentNode DEF RearmCrashed, Visiting
  <2> QED BY <1>5, <2>1 DEF RearmCrashed
<1>6. ASSUME NEW w \in Workers, ClaimNode(w) PROVE Goal
  <2>1. \/ UNCHANGED ran
        \/ ran' = [ran EXCEPT ![Current(w)] = @ + 1]
    BY <1>6 DEF ClaimNode
  <2> QED BY <1>6, <2>1 DEF ClaimNode
<1>7. ASSUME NEW w \in Workers, HoldRun(w) PROVE Goal
  BY <1>2, <1>7 DEF HoldRun
<1>8. ASSUME NEW by, NEW from, PersistSuccess(by, from)
      PROVE  ousted' \subseteq Workers
  BY <1>2, <1>8 DEF PersistSuccess, EndRun
<1>9. ASSUME NEW w \in Workers, SucceedRun(w) PROVE Goal
  BY <1>8, <1>9 DEF SucceedRun
<1>10. ASSUME NEW w \in Workers, FailRun(w) PROVE Goal
  BY <1>2, <1>10 DEF FailRun, EndRun
<1>11. ASSUME NEW v \in Verifiers, ApplyEvidence(v) PROVE Goal
  <2>1. \/ PersistSuccess(None, "awaiting_verification")
        \/ Oust(None) \/ UNCHANGED ousted
    BY <1>11 DEF ApplyEvidence, EndRun
  <2> QED BY <1>2, <1>8, <1>11, <2>1 DEF ApplyEvidence
<1>12. CASE RecordEvidence BY <1>12 DEF RecordEvidence, histories
<1> QED
  BY <1>0, <1>3, <1>4, <1>5, <1>6, <1>7, <1>9, <1>10, <1>11, <1>12
  DEF Next, Drive, Report, vars, histories, CallDriver, CrashWorker,
      NodeLeaseExpires, LoadFailed, RearmFailed, ReadTarget, Reactivate,
      LoadRun, LoadNodes, EndPass, ParkRun, ReloadNode, SkipNode, BlockNode,
      UnblockNode, StartNode, ReadLostClaim, FinishNode, FailNode, LoseWorker,
      DecideOutcome, ReleaseRun, ReadReported, ClaimReported, FinishReported,
      ReadEvidence, FailParentNode

\* Every step keeps every variable in its type.
LEMMA TypeStep ==
  ASSUME TypeOK, [Next]_vars
  PROVE  TypeOK'
<1>1. RunTypeOK'
  <2>1. RunMoves BY RunStep
  <2>2. run \in RunRows BY DEF TypeOK, RunTypeOK, RunRows
  <2>3. run' \in RunRows
    BY <2>1, <2>2
    DEF RunMoves, RunKept, RunActivated, RunHeld, RunEnded, RunRows
  <2> QED BY <2>3 DEF RunTypeOK, RunRows
<1>2. NodeTypeOK'
  BY NodeStep DEF NodesKeptOr, TypeOK, NodeTypeOK
<1>3. DriverTypeOK' BY DriverStep
<1>4. CallerTypeOK' BY CallerStep
<1>5. execs' \in Seq(Outcomes)
  <2>1. UNCHANGED execs \/ \E outcome \in Outcomes : execs' = Append(execs, outcome)
    BY RunStep DEF RunMoves, RunKept, RunActivated, RunHeld, RunEnded
  <2>2. execs \in Seq(Outcomes) BY DEF TypeOK, RecordTypeOK
  <2> QED BY <2>1, <2>2
<1>6. /\ episode' \in Outcomes \cup {"failed_verification", None}
      /\ endings' \in Nat
  <2>1. CASE UNCHANGED <<episode, endings>> BY <2>1 DEF TypeOK, RecordTypeOK
  <2>2. CASE RunEnded
    BY <2>2 DEF RunEnded, CloseEpisode, TypeOK, RecordTypeOK
  <2> QED BY <2>1, <2>2, RunStep DEF RunMoves, RunKept, RunActivated, RunHeld
<1> QED
  BY <1>1, <1>2, <1>3, <1>4, <1>5, <1>6, HistoryStep DEF TypeOK, RecordTypeOK

\* Every row and every local variable always holds a value of its type, and
\* a driver that works on a node has one (so Current is a node there).
THEOREM TypeCorrect == Spec => []TypeOK
<1>1. TypeOK /\ [Next]_vars => TypeOK' BY TypeStep
<1> QED BY TypeInit, <1>1, PTL DEF Spec

-----------------------------------------------------------------------------
(* Nodes: ownership, and what has succeeded stays so *)

\* The lease flag of a node nobody owns says nothing; the model keeps it
\* FALSE.
IdleLease == \A n \in Nodes : node[n].own = None => ~node[n].late

\* The inductive invariant about nodes.
NodeInv == TypeOK /\ OwnedIffRunning /\ IdleLease

\* It holds of fresh nodes.
LEMMA NodeInvInit ==
  ASSUME Init
  PROVE  NodeInv
BY TypeInit DEF Init, NodeInv, OwnedIffRunning, IdleLease, FreshNode

\* Each of the writes NodeStep lists keeps it.
LEMMA NodeInvStep ==
  ASSUME NodeInv, [Next]_vars
  PROVE  NodeInv'
<1>1. TypeOK' BY TypeStep DEF NodeInv
<1>2. CASE UNCHANGED node
  BY <1>1, <1>2 DEF NodeInv, OwnedIffRunning, IdleLease
<1>3. ASSUME NEW n \in Nodes, NEW row \in NodeRows,
             node' = [node EXCEPT ![n] = row], NodeWrite(n, row)
      PROVE  NodeInv'
  <2>1. node[n] \in NodeRows BY DEF NodeInv, TypeOK, NodeTypeOK
  <2>2. /\ row.own # None <=> row.st = "running"
        /\ row.own = None => ~row.late
    BY <1>3, <2>1 DEF NodeWrite, NodeInv, OwnedIffRunning, IdleLease, NodeRows
  <2>3. node'[n] = row /\ \A m \in Nodes \ {n} : node'[m] = node[m]
    BY <1>3 DEF NodeInv, TypeOK, NodeTypeOK
  <2> QED BY <1>1, <2>2, <2>3 DEF NodeInv, OwnedIffRunning, IdleLease
<1> QED BY <1>2, <1>3, NodeStep DEF NodesKeptOr, NodeInv

\* A node is owned exactly while it is running: no running node is left
\* without a lease that can expire, no re-armed one with a claim on it.
THEOREM OwnershipFollowsStatus == Spec => []OwnedIffRunning
<1>1. NodeInv /\ [Next]_vars => NodeInv' BY NodeInvStep
<1>2. NodeInv => OwnedIffRunning BY DEF NodeInv
<1> QED BY NodeInvInit, <1>1, <1>2, PTL DEF Spec

\* A succeeded node is unowned, so no write NodeStep lists changes it.
LEMMA SucceededStays ==
  ASSUME NodeInv, [Next]_vars, NEW n \in Nodes, node[n].st = "succeeded"
  PROVE  node'[n] = node[n]
<1>1. node[n].own = None /\ ~node[n].late
  BY DEF NodeInv, OwnedIffRunning, IdleLease, TypeOK, NodeTypeOK, NodeRows
<1>2. CASE UNCHANGED node BY <1>2
<1>3. ASSUME NEW m \in Nodes, NEW row \in NodeRows,
             node' = [node EXCEPT ![m] = row], NodeWrite(m, row)
      PROVE  node'[n] = node[n]
  <2>1. CASE m # n BY <1>3, <2>1 DEF NodeInv, TypeOK, NodeTypeOK
  <2>2. CASE m = n
    <3>1. node[n] \in NodeRows BY DEF NodeInv, TypeOK, NodeTypeOK
    <3>2. row = [node[n] EXCEPT !.late = FALSE]
      BY <1>1, <1>3, <2>2 DEF NodeWrite
    <3>3. row = node[n] BY <1>1, <3>1, <3>2 DEF NodeRows
    <3> QED BY <1>3, <2>2, <3>3 DEF NodeInv, TypeOK, NodeTypeOK
  <2> QED BY <2>1, <2>2
<1> QED BY <1>2, <1>3, NodeStep DEF NodesKeptOr, NodeInv

\* No driver, host report, failed child or clock ever rewrites a node that
\* succeeded, however stale what it read.
THEOREM SucceededNodesFixed == Spec => SucceededNodeFixed
<1>1. NodeInv /\ [Next]_vars => NodeInv' BY NodeInvStep
<1>2. NodeInv /\ [Next]_vars
        => [\A n \in Nodes : node[n].st = "succeeded" => node'[n] = node[n]]_vars
  BY SucceededStays
<1> QED BY NodeInvInit, <1>1, <1>2, PTL DEF Spec, SucceededNodeFixed

-----------------------------------------------------------------------------
(* The run: its final fields and its episode *)

\* The final fields are written together, by the writes RunStep lists.
LEMMA FinalFieldsStep ==
  ASSUME TypeOK, FinalFieldsAgree, [Next]_vars
  PROVE  FinalFieldsAgree'
<1>1. run \in RunRows /\ execs \in Seq(Outcomes)
  BY DEF TypeOK, RunTypeOK, RunRows, RecordTypeOK
<1>2. None \notin Outcomes BY DurableRunAssumption DEF Outcomes
<1>3. ASSUME NEW outcome \in Outcomes, execs' = Append(execs, outcome)
      PROVE  /\ Len(execs') = Len(execs) + 1
             /\ execs'[Len(execs) + 1] = outcome
             /\ \A i \in 1..Len(execs) : execs'[i] = execs[i]
  BY <1>1, <1>3
<1>4. CASE RunKept
  <2>1. /\ run'.st = run.st /\ run'.outcome = run.outcome /\ run'.exec = run.exec
    BY <1>1, <1>4 DEF RunKept, RunRows
  <2>2. UNCHANGED execs \/ \E outcome \in Outcomes : execs' = Append(execs, outcome)
    BY <1>4 DEF RunKept
  <2>3. run.exec # 0 => run.exec \in 1..Len(execs)
    BY <1>1 DEF FinalFieldsAgree, RunRows
  <2> QED BY <1>1, <1>3, <2>1, <2>2, <2>3 DEF FinalFieldsAgree, Terminal, RunRows
<1>5. CASE RunActivated
  BY <1>1, <1>2, <1>5 DEF RunActivated, FinalFieldsAgree, Terminal, Outcomes
<1>6. CASE RunHeld
  BY <1>1, <1>2, <1>6 DEF RunHeld, FinalFieldsAgree, Terminal, Outcomes
<1>7. CASE RunEnded
  <2>1. PICK row \in RunRows :
          /\ run' = row
          /\ row.st \in {"succeeded", "failed"}
          /\ row.st = "succeeded" <=> row.outcome = "success"
          /\ \/ /\ execs' = Append(execs, row.outcome)
                /\ row.exec = Len(execs) + 1
                /\ row.outcome \in Outcomes
             \/ /\ UNCHANGED execs
                /\ row.outcome = "failure"
                /\ row.exec = run.exec
    BY <1>7 DEF RunEnded
  <2>2. run.exec = 0 BY <1>1, <1>7 DEF RunEnded, FinalFieldsAgree, Terminal, RunRows
  <2>3. CASE /\ execs' = Append(execs, row.outcome)
             /\ row.exec = Len(execs) + 1
             /\ row.outcome \in Outcomes
    BY <1>1, <1>2, <1>3, <2>1, <2>3 DEF FinalFieldsAgree, Terminal
  <2>4. CASE UNCHANGED execs /\ row.outcome = "failure" /\ row.exec = run.exec
    BY <1>2, <2>1, <2>2, <2>4 DEF FinalFieldsAgree, Terminal, Outcomes
  <2> QED BY <2>1, <2>3, <2>4
<1> QED BY <1>4, <1>5, <1>6, <1>7, RunStep DEF RunMoves

\* A run shows an outcome exactly while it is terminal, and the executions
\* row it names is one that was appended and has that outcome.
THEOREM FinalFieldsAlwaysAgree == Spec => []FinalFieldsAgree
<1>1. Init => FinalFieldsAgree
  BY DurableRunAssumption DEF Init, FinalFieldsAgree, Terminal
<1>2. TypeOK /\ FinalFieldsAgree /\ [Next]_vars => FinalFieldsAgree'
  BY FinalFieldsStep
<1> QED BY TypeCorrect, <1>1, <1>2, PTL DEF Spec

\* The episode is closed by the step that ends the run, and only by it.
LEMMA EpisodeStep ==
  ASSUME TypeOK, EpisodeFollowsRun, [Next]_vars
  PROVE  EpisodeFollowsRun'
<1>1. run \in RunRows /\ endings \in Nat
  BY DEF TypeOK, RunTypeOK, RunRows, RecordTypeOK
<1>2. CASE RunKept
  <2>1. run'.st = run.st BY <1>1, <1>2 DEF RunKept, RunRows
  <2> QED BY <1>2, <2>1 DEF RunKept, EpisodeFollowsRun, Terminal
<1>3. CASE RunActivated BY <1>3 DEF RunActivated, EpisodeFollowsRun, Terminal
<1>4. CASE RunHeld BY <1>4 DEF RunHeld, EpisodeFollowsRun, Terminal
<1>5. CASE RunEnded
  <2>1. episode' # None
    BY <1>5, DurableRunAssumption DEF RunEnded, CloseEpisode, Outcomes
  <2>2. endings' > 0 BY <1>1, <1>5 DEF RunEnded
  <2> QED BY <2>1, <2>2 DEF EpisodeFollowsRun
<1> QED BY <1>2, <1>3, <1>4, <1>5, RunStep DEF RunMoves

\* A terminal run's episode is closed, and none is closed before its run
\* has ended.
THEOREM EpisodeAlwaysFollows == Spec => []EpisodeFollowsRun
<1>1. Init => EpisodeFollowsRun BY DEF Init, EpisodeFollowsRun, Terminal
<1>2. TypeOK /\ EpisodeFollowsRun /\ [Next]_vars => EpisodeFollowsRun'
  BY EpisodeStep
<1> QED BY TypeCorrect, <1>1, <1>2, PTL DEF Spec
=============================================================================
