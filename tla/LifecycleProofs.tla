-------------------------- MODULE LifecycleProofs --------------------------
(***************************************************************************)
(* Theorems about DurableRun that relate its parts: the run's lease and    *)
(* its drivers (OneDriver), its status and its nodes (SuccessMeansAllDone),*)
(* and the run and its abstract lifecycle (ImplementsLifecycle).  They     *)
(* rest on the step lemmas of DurableRunProofs.                            *)
(***************************************************************************)
EXTENDS DurableRunProofs

(* Who may be driving after a step *)

\* A driver's own step leaves the others' locals alone, and is taken by one
\* that drives, or gives the lease back.
LEMMA DriveFrame ==
  ASSUME TypeOK, NEW w \in Workers, Drive(w)
  PROVE  /\ \A v \in Workers \ {w} : drv'[v] = drv[v]
         /\ Driving(w) \/ ReleaseRun(w)
<1> USE DEF TypeOK, DriverTypeOK, Goto, Leave, NextNode, Driving
<1>1. CASE LoadFailed(w) BY <1>1 DEF LoadFailed
<1>2. CASE RearmFailed(w) BY <1>2 DEF RearmFailed
<1>3. CASE ReadTarget(w) BY <1>3 DEF ReadTarget
<1>4. CASE RearmTarget(w) BY <1>4 DEF RearmTarget
<1>5. CASE Reactivate(w) BY <1>5 DEF Reactivate
<1>6. CASE LoadRun(w) BY <1>6 DEF LoadRun
<1>7. CASE LoadNodes(w) BY <1>7 DEF LoadNodes
<1>8. CASE EndPass(w) BY <1>8 DEF EndPass
<1>9. CASE RearmCrashed(w) BY <1>9 DEF RearmCrashed, Visiting
<1>10. CASE ParkRun(w) BY <1>10 DEF ParkRun
<1>11. CASE ReloadNode(w) BY <1>11 DEF ReloadNode
<1>12. CASE SkipNode(w) BY <1>12 DEF SkipNode, AtEntry, AtGate, Visiting
<1>13. CASE BlockNode(w) BY <1>13 DEF BlockNode, AtGate, Visiting
<1>14. CASE UnblockNode(w) BY <1>14 DEF UnblockNode, AtGate, Visiting
<1>15. CASE StartNode(w) BY <1>15 DEF StartNode, AtEntry, AtGate, Visiting
<1>16. CASE ClaimNode(w) BY <1>16 DEF ClaimNode
<1>17. CASE ReadLostClaim(w) BY <1>17 DEF ReadLostClaim
<1>18. CASE FinishNode(w) BY <1>18 DEF FinishNode
<1>19. CASE FailNode(w) BY <1>19 DEF FailNode
<1>20. CASE LoseWorker(w) BY <1>20 DEF LoseWorker
<1>21. CASE DecideOutcome(w) BY <1>21 DEF DecideOutcome
<1>22. CASE HoldRun(w) BY <1>22 DEF HoldRun
<1>23. CASE SucceedRun(w) BY <1>23 DEF SucceedRun
<1>24. CASE FailRun(w) BY <1>24 DEF FailRun
<1>25. CASE ReleaseRun(w) BY <1>25 DEF ReleaseRun
<1> QED
  BY <1>1, <1>2, <1>3, <1>4, <1>5, <1>6, <1>7, <1>8, <1>9, <1>10, <1>11,
     <1>12, <1>13, <1>14, <1>15, <1>16, <1>17, <1>18, <1>19, <1>20, <1>21,
     <1>22, <1>23, <1>24, <1>25
  DEF Drive

\* A driver that drives after a step did so before it, or was just called.
LEMMA DrivingBefore ==
  ASSUME TypeOK, [Next]_vars, NEW v \in Workers, Driving(v)'
  PROVE  \/ Driving(v)
         \/ \E op \in Operations, n \in Nodes : CallDriver(v, op, n)
<1>0. CASE UNCHANGED drv BY <1>0 DEF Driving
<1>1. ASSUME NEW w \in Workers, NEW op \in Operations, NEW n \in Nodes,
             CallDriver(w, op, n)
      PROVE  Driving(v) \/ w = v
  BY <1>1 DEF CallDriver, Driving, TypeOK, DriverTypeOK
<1>2. ASSUME NEW w \in Workers, Drive(w)
      PROVE  Driving(v)
  <2>1. CASE v # w BY <1>2, <2>1, DriveFrame DEF Driving
  <2>2. CASE v = w
    <3>1. ~ReleaseRun(w)
      BY <2>2 DEF ReleaseRun, Leave, NewFrame, Driving, TypeOK, DriverTypeOK
    <3> QED BY <1>2, <2>2, <3>1, DriveFrame
  <2> QED BY <2>1, <2>2
<1>3. ASSUME NEW w \in Workers, CrashWorker(w)
      PROVE  Driving(v)
  BY <1>3 DEF CrashWorker, Leave, NewFrame, Driving, TypeOK, DriverTypeOK
<1> QED
  BY <1>0, <1>1, <1>2, <1>3
  DEF Next, Report, vars, RunLeaseExpires, NodeLeaseExpires, ReadReported,
      ClaimReported, FinishReported, RecordEvidence, ReadEvidence,
      ApplyEvidence, FailParentNode

-----------------------------------------------------------------------------
(* The run's lease *)

\* A driver has the lease it took, unless it was taken from it; a lease that
\* is over has been.
LeaseHeld ==
  /\ \A w \in Workers : Driving(w) /\ w \notin ousted => run.own = w
  /\ run.late => run.own \in ousted

\* The lease stays with its owner, who has not been ousted.
LeaseKept ==
  /\ ousted \subseteq ousted'
  /\ run'.own = run.own
  /\ run'.late => run.late \/ run.own \in ousted'

\* w, which no longer drives after the step, takes the lease from its owner.
LeaseCleared(w) ==
  /\ ousted \cup ({run.own} \ {w, None}) \subseteq ousted'
  /\ run'.own = None
  /\ ~run'.late

\* A run that ends clears the lease.
LEMMA EndClears ==
  ASSUME NEW by, NEW status, NEW outcome, NEW exec, NEW closing,
         EndRun(by, status, outcome, exec, closing)
  PROVE  LeaseCleared(by)
BY DEF EndRun, Oust, LeaseCleared

\* _persist_success_transition does so on either of its branches.
LEMMA PersistClears ==
  ASSUME NEW by, NEW from, PersistSuccess(by, from)
  PROVE  LeaseKept \/ LeaseCleared(by)
BY EndClears DEF PersistSuccess, LeaseKept

\* What a step may do to the lease: keep it, hand a free one to a driver
\* that is called, or clear it on behalf of a driver that stops or of nobody.
LEMMA LeaseStep ==
  ASSUME TypeOK, [Next]_vars
  PROVE  \/ LeaseKept
         \/ \E w \in Workers, op \in Operations, n \in Nodes :
              CallDriver(w, op, n)
         \/ \E w \in Workers : LeaseCleared(w) /\ ~Driving(w)'
         \/ LeaseCleared(None)
<1> USE DEF TypeOK, RunTypeOK, DriverTypeOK
<1>0. ASSUME UNCHANGED <<run, ousted>> PROVE LeaseKept BY <1>0 DEF LeaseKept
<1>1. ASSUME NEW w \in Workers, Leave(w, "release") PROVE ~Driving(w)'
  BY <1>1 DEF Leave, NewFrame, Driving
<1>2. ASSUME NEW w \in Workers, Leave(w, "done") PROVE ~Driving(w)'
  BY <1>2 DEF Leave, NewFrame, Driving
<1>3. ASSUME NEW w \in Workers, ReleaseRun(w)
      PROVE  LeaseKept \/ (LeaseCleared(w) /\ ~Driving(w)')
  BY <1>2, <1>3 DEF ReleaseRun, LeaseKept, LeaseCleared, histories
<1>4. CASE RunLeaseExpires
  BY <1>4 DEF RunLeaseExpires, LeaseKept
<1>5. ASSUME NEW w \in Workers, Reactivate(w) PROVE LeaseKept
  BY <1>5 DEF Reactivate, LeaseKept, histories
<1>6. ASSUME NEW w \in Workers, ParkRun(w) PROVE LeaseKept
  BY <1>6 DEF ParkRun, LeaseKept, histories
<1>7. ASSUME NEW w \in Workers, HoldRun(w)
      PROVE  LeaseKept \/ (LeaseCleared(w) /\ ~Driving(w)')
  BY <1>1, <1>7 DEF HoldRun, Oust, LeaseKept, LeaseCleared
<1>8. ASSUME NEW w \in Workers, SucceedRun(w)
      PROVE  LeaseKept \/ (LeaseCleared(w) /\ ~Driving(w)')
  BY <1>1, <1>8, PersistClears DEF SucceedRun
<1>9. ASSUME NEW w \in Workers, FailRun(w)
      PROVE  LeaseKept \/ (LeaseCleared(w) /\ ~Driving(w)')
  <2>1. \/ UNCHANGED <<run, ousted>>
        \/ EndRun(w, "failed", drv[w].verdict, Len(execs) + 1, drv[w].verdict)
    BY <1>9 DEF FailRun
  <2>2. Leave(w, "release") BY <1>9 DEF FailRun
  <2> QED BY <1>0, <1>1, <2>1, <2>2, EndClears
<1>10. ASSUME NEW v \in Verifiers, ApplyEvidence(v)
       PROVE  LeaseKept \/ LeaseCleared(None)
  <2>1. \/ UNCHANGED <<run, ousted>>
        \/ PersistSuccess(None, "awaiting_verification")
        \/ EndRun(None, "failed", "failure", run.exec, "failed_verification")
    BY <1>10 DEF ApplyEvidence
  <2> QED BY <1>0, <2>1, EndClears, PersistClears
<1> QED
  BY <1>0, <1>3, <1>4, <1>5, <1>6, <1>7, <1>8, <1>9, <1>10
  DEF Next, Drive, Report, vars, histories, CrashWorker, NodeLeaseExpires,
      LoadFailed, RearmFailed, ReadTarget, RearmTarget, LoadRun, LoadNodes,
      EndPass, RearmCrashed, ReloadNode, SkipNode, BlockNode, UnblockNode,
      StartNode, ClaimNode, ReadLostClaim, FinishNode, FailNode, LoseWorker,
      DecideOutcome, ReadReported, ClaimReported, FinishReported,
      RecordEvidence, ReadEvidence, FailParentNode

\* Each of these keeps LeaseHeld: only a call hands the lease out, and then
\* it was free, or over and its holder ousted.
LEMMA LeaseHeldStep ==
  ASSUME TypeOK, LeaseHeld, [Next]_vars
  PROVE  LeaseHeld'
<1>1. None \notin Workers BY DurableRunAssumption
<1>2. CASE LeaseKept
  <2>1. ASSUME NEW w \in Workers, Driving(w)', w \notin ousted'
        PROVE  run'.own = w
    <3>1. w \notin ousted BY <1>2, <2>1 DEF LeaseKept
    <3>2. CASE Driving(w) BY <1>2, <3>1, <3>2 DEF LeaseHeld, LeaseKept
    <3>3. ASSUME NEW op \in Operations, NEW n \in Nodes, CallDriver(w, op, n)
          PROVE  run'.own = w
      BY <3>3 DEF CallDriver, Activated
    <3> QED BY <2>1, <3>2, <3>3, DrivingBefore
  <2>2. run'.late => run'.own \in ousted'
    BY <1>2 DEF LeaseHeld, LeaseKept
  <2> QED BY <2>1, <2>2 DEF LeaseHeld
<1>3. ASSUME NEW w \in Workers, NEW op \in Operations, NEW n \in Nodes,
             CallDriver(w, op, n)
      PROVE  LeaseHeld'
  <2>1. run'.own = w /\ ~run'.late /\ ousted' = ousted /\ LeaseFree(w)
    BY <1>3 DEF CallDriver, Activated, histories
  <2>2. ASSUME NEW v \in Workers \ {w}, Driving(v)'
        PROVE  v \in ousted
    <3>1. Driving(v)
      BY <1>3, <2>2 DEF CallDriver, Driving, TypeOK, DriverTypeOK
    <3> QED BY <1>1, <2>1, <3>1 DEF LeaseFree, LeaseHeld
  <2> QED BY <2>1, <2>2 DEF LeaseHeld
<1>4. ASSUME NEW by \in Workers \cup {None}, LeaseCleared(by),
             by # None => ~Driving(by)'
      PROVE  LeaseHeld'
  <2>1. ASSUME NEW w \in Workers, Driving(w)'
        PROVE  w \in ousted'
    <3>1. w # by BY <1>1, <1>4, <2>1
    <3>2. ~ \E op \in Operations, n \in Nodes : CallDriver(w, op, n)
      <4> SUFFICES ASSUME NEW op \in Operations, NEW n \in Nodes,
                          CallDriver(w, op, n)
                   PROVE  FALSE
        OBVIOUS
      <4>1. run'.own = w BY DEF CallDriver, Activated
      <4>2. run'.own = None BY <1>4 DEF LeaseCleared
      <4> QED BY <1>1, <4>1, <4>2
    <3>3. Driving(w) BY <2>1, <3>2, DrivingBefore
    <3> QED BY <1>1, <1>4, <3>1, <3>3 DEF LeaseHeld, LeaseCleared
  <2> QED BY <1>4, <2>1 DEF LeaseHeld, LeaseCleared
<1> QED BY <1>1, <1>2, <1>3, <1>4, LeaseStep

\* Two calls drive one run at once only after the lease of one of them was
\* taken from it or ended under it: _claim_run refuses a live lease.
THEOREM AtMostOneDriver == Spec => []OneDriver
<1>1. Init => LeaseHeld
  BY DEF Init, LeaseHeld, Driving, NewFrame
<1>2. TypeOK /\ LeaseHeld /\ [Next]_vars => LeaseHeld' BY LeaseHeldStep
<1>3. LeaseHeld => OneDriver BY DEF LeaseHeld, OneDriver
<1> QED BY TypeCorrect, <1>1, <1>2, <1>3, PTL DEF Spec

-----------------------------------------------------------------------------
(* A run that is held or succeeds has every node done *)

\* The driver has found every node done, and will act on it.
DoneLabels == {"hold", "succeed"}

\* What a run's status, or a driver's decision, says of the nodes.
DoneMeansAllDone ==
  /\ \A w \in Workers : drv[w].pc \in DoneLabels => AllDone
  /\ run.st \in {"awaiting_verification", "succeeded"} => AllDone

\* When all nodes are done they stay done, however stale a driver is.
LEMMA AllDoneStays ==
  ASSUME NodeInv, [Next]_vars, AllDone
  PROVE  AllDone'
<1>1. \A n \in Nodes : node[n].st = "succeeded" BY DEF AllDone, NodesIn
<1>2. \A n \in Nodes : node'[n].st = "succeeded" BY <1>1, SucceededStays
<1> QED BY <1>2 DEF AllDone, NodesIn

\* A driver reaches these labels only from _finalize's reads.
LEMMA DecidedOnAllDone ==
  ASSUME TypeOK, [Next]_vars, NEW v \in Workers, drv'[v].pc \in DoneLabels
  PROVE  drv[v].pc \in DoneLabels \/ AllDone
<1> USE DEF TypeOK, DriverTypeOK, Drivers, DoneLabels
<1>0. CASE drv'[v] = drv[v] BY <1>0
<1>1. ASSUME NEW w \in Workers, NEW label, Leave(w, label),
             label \notin DoneLabels
      PROVE  drv'[v] = drv[v]
  BY <1>1 DEF Leave, NewFrame
<1>2. ASSUME NEW w \in Workers, NEW label, Goto(w, label),
             label \notin DoneLabels
      PROVE  drv'[v] = drv[v]
  BY <1>2 DEF Goto
<1>3. ASSUME NEW w \in Workers, NEW progress, NextNode(w, progress)
      PROVE  drv'[v] = drv[v]
  BY <1>3 DEF NextNode
<1>4. ASSUME NEW w \in Workers, NEW op \in Operations, NEW n \in Nodes,
             CallDriver(w, op, n)
      PROVE  drv'[v] = drv[v]
  BY <1>4 DEF CallDriver
<1>5. ASSUME NEW w \in Workers, LoadFailed(w) PROVE drv'[v] = drv[v]
  BY <1>5 DEF LoadFailed
<1>6. ASSUME NEW w \in Workers, RearmFailed(w) PROVE drv'[v] = drv[v]
  BY <1>1, <1>6 DEF RearmFailed
<1>7. ASSUME NEW w \in Workers, LoadNodes(w) PROVE drv'[v] = drv[v]
  <2> DEFINE open == {n \in Nodes : node[n].st \notin {"succeeded", "failed"}}
             frame == [drv[w] EXCEPT !.rows = node, !.view = Statuses,
                         !.prog = FALSE, !.todo = open, !.pc = "visit"]
  <2>1. drv' = [drv EXCEPT ![w] = frame] BY <1>7 DEF LoadNodes
  <2> HIDE DEF open
  <2>2. frame.pc = "visit" OBVIOUS
  <2> QED BY <2>1, <2>2
<1>8. ASSUME NEW w \in Workers, ReloadNode(w) PROVE drv'[v] = drv[v]
  <2>1. w # v => drv'[v] = drv[v] BY <1>8 DEF ReloadNode
  <2>2. drv'[w].pc \in {"gate", "enter"} BY <1>8 DEF ReloadNode
  <2> QED BY <2>1, <2>2
<1>9. ASSUME NEW w \in Workers, UnblockNode(w) PROVE drv'[v] = drv[v]
  BY <1>1, <1>9 DEF UnblockNode
<1>10. ASSUME NEW w \in Workers, StartNode(w) PROVE drv'[v] = drv[v]
  BY <1>1, <1>10 DEF StartNode
<1>11. ASSUME NEW w \in Workers, ClaimNode(w) PROVE drv'[v] = drv[v]
  BY <1>2, <1>11 DEF ClaimNode
<1>12. ASSUME NEW w \in Workers, DecideOutcome(w)
       PROVE  drv'[v] = drv[v] \/ AllDone
  BY <1>12 DEF DecideOutcome
<1>13. ASSUME NEW w \in Workers, ReadTarget(w) \/ LoadRun(w)
       PROVE  drv'[v] = drv[v]
  BY <1>1, <1>2, <1>13 DEF ReadTarget, LoadRun
<1>14. ASSUME NEW w \in Workers,
              RearmTarget(w) \/ Reactivate(w) \/ EndPass(w) \/ RearmCrashed(w)
       PROVE  drv'[v] = drv[v]
  BY <1>1, <1>2, <1>14 DEF RearmTarget, Reactivate, EndPass, RearmCrashed
<1>15. ASSUME NEW w \in Workers,
              ParkRun(w) \/ LoseWorker(w) \/ HoldRun(w) \/ SucceedRun(w)
                \/ FailRun(w) \/ ReleaseRun(w) \/ CrashWorker(w)
       PROVE  drv'[v] = drv[v]
  BY <1>1, <1>15
  DEF ParkRun, LoseWorker, HoldRun, SucceedRun, FailRun, ReleaseRun, CrashWorker
<1>16. ASSUME NEW w \in Workers,
              SkipNode(w) \/ BlockNode(w) \/ ReadLostClaim(w) \/ FinishNode(w)
                \/ FailNode(w)
       PROVE  drv'[v] = drv[v]
  BY <1>1, <1>2, <1>3, <1>16
  DEF SkipNode, BlockNode, ReadLostClaim, FinishNode, FailNode
<1> QED
  BY <1>0, <1>4, <1>5, <1>6, <1>7, <1>8, <1>9, <1>10, <1>11, <1>12, <1>13,
     <1>14, <1>15, <1>16
  DEF Next, Drive, Report, vars, RunLeaseExpires, NodeLeaseExpires,
      ReadReported, ClaimReported, FinishReported, RecordEvidence,
      ReadEvidence, ApplyEvidence, FailParentNode

\* A run comes to be held, or to have succeeded, only by the write that such
\* a driver makes, or from the one by the other.
LEMMA WonOnAllDone ==
  ASSUME TypeOK, [Next]_vars,
         run'.st \in {"awaiting_verification", "succeeded"}
  PROVE  \/ run.st \in {"awaiting_verification", "succeeded"}
         \/ \E w \in Workers : drv[w].pc \in DoneLabels
<1> DEFINE Goal == \/ run.st \in {"awaiting_verification", "succeeded"}
                   \/ \E w \in Workers : drv[w].pc \in DoneLabels
<1> USE DEF TypeOK, RunTypeOK, DoneLabels
<1>0. CASE run'.st = run.st BY <1>0
<1>1. ASSUME NEW w \in Workers, NEW op \in Operations, NEW n \in Nodes,
             CallDriver(w, op, n)
      PROVE  Goal
  BY <1>1 DEF CallDriver, Activated
<1>2. ASSUME NEW w \in Workers, ReleaseRun(w) PROVE Goal
  BY <1>2 DEF ReleaseRun
<1>3. CASE RunLeaseExpires BY <1>3 DEF RunLeaseExpires
<1>4. ASSUME NEW w \in Workers, Reactivate(w) PROVE Goal
  BY <1>4 DEF Reactivate
<1>5. ASSUME NEW w \in Workers, ParkRun(w) PROVE Goal
  BY <1>5 DEF ParkRun
<1>6. ASSUME NEW w \in Workers, HoldRun(w) PROVE Goal BY <1>6 DEF HoldRun
<1>7. ASSUME NEW w \in Workers, SucceedRun(w) PROVE Goal
  BY <1>7 DEF SucceedRun
<1>8. ASSUME NEW w \in Workers, FailRun(w) PROVE Goal
  BY <1>8 DEF FailRun, EndRun
<1>9. ASSUME NEW v \in Verifiers, ApplyEvidence(v) PROVE Goal
  BY <1>9 DEF ApplyEvidence, PersistSuccess, EndRun
<1> QED
  BY <1>0, <1>1, <1>2, <1>3, <1>4, <1>5, <1>6, <1>7, <1>8, <1>9
  DEF Next, Drive, Report, vars, histories, CrashWorker, NodeLeaseExpires,
      LoadFailed, RearmFailed, ReadTarget, RearmTarget, LoadRun, LoadNodes,
      EndPass, RearmCrashed, ReloadNode, SkipNode, BlockNode, UnblockNode,
      StartNode, ClaimNode, ReadLostClaim, FinishNode, FailNode, LoseWorker,
      DecideOutcome, ReadReported, ClaimReported, FinishReported,
      RecordEvidence, ReadEvidence, FailParentNode

\* The invariant about the run's nodes and the run together.
LifecycleInv == NodeInv /\ DoneMeansAllDone /\ FinalFieldsAgree

\* It holds of a run that start_run has committed.
LEMMA LifecycleInvInit ==
  ASSUME Init
  PROVE  LifecycleInv
<1>1. DoneMeansAllDone
  BY DEF Init, DoneMeansAllDone, DoneLabels, NewFrame
<1>2. FinalFieldsAgree
  BY DurableRunAssumption DEF Init, FinalFieldsAgree, Terminal
<1> QED BY <1>1, <1>2, NodeInvInit DEF LifecycleInv

\* A step gives a driver or the run such a label only with all nodes done,
\* and they stay so.
LEMMA LifecycleInvStep ==
  ASSUME LifecycleInv, [Next]_vars
  PROVE  LifecycleInv'
<1>1. TypeOK /\ NodeInv BY DEF LifecycleInv, NodeInv
<1>2. NodeInv' BY <1>1, NodeInvStep
<1>3. FinalFieldsAgree' BY <1>1, FinalFieldsStep DEF LifecycleInv
<1>4. ASSUME NEW w \in Workers, drv'[w].pc \in DoneLabels
      PROVE  AllDone'
  BY <1>1, <1>4, DecidedOnAllDone, AllDoneStays
  DEF LifecycleInv, DoneMeansAllDone
<1>5. ASSUME run'.st \in {"awaiting_verification", "succeeded"}
      PROVE  AllDone'
  BY <1>1, <1>5, WonOnAllDone, AllDoneStays
  DEF LifecycleInv, DoneMeansAllDone
<1> QED BY <1>2, <1>3, <1>4, <1>5 DEF LifecycleInv, DoneMeansAllDone

\* A run is held for verification, or succeeds, only when every node has
\* succeeded: the decision of _finalize is stale when it is written, but
\* nothing takes a success back in between.
THEOREM SuccessAlwaysComplete == Spec => []SuccessMeansAllDone
<1>1. LifecycleInv /\ [Next]_vars => LifecycleInv' BY LifecycleInvStep
<1>2. LifecycleInv => SuccessMeansAllDone
  BY DEF LifecycleInv, DoneMeansAllDone, SuccessMeansAllDone, AllDone, NodesIn
<1> QED BY LifecycleInvInit, <1>1, <1>2, PTL DEF Spec

-----------------------------------------------------------------------------
(* The run implements its abstract lifecycle *)

\* No step writes both a node's row and the run's.
LEMMA OneTableAtATime ==
  ASSUME [Next]_vars
  PROVE  UNCHANGED node \/ UNCHANGED run
<1>1. ASSUME NEW w \in Workers, Drive(w)
      PROVE  UNCHANGED node \/ UNCHANGED run
  <2>1. CASE UNCHANGED node BY <2>1
  <2>2. CASE UNCHANGED run BY <2>2
  <2> QED
    BY <1>1, <2>1, <2>2
    DEF Drive, LoadFailed, RearmFailed, ReadTarget, RearmTarget, Reactivate,
        LoadRun, LoadNodes, EndPass, RearmCrashed, ParkRun, ReloadNode,
        SkipNode, BlockNode, UnblockNode, StartNode, ClaimNode, ReadLostClaim,
        FinishNode, FailNode, LoseWorker, DecideOutcome, HoldRun, SucceedRun,
        FailRun, ReleaseRun
<1>2. ASSUME NEW h \in Hosts, Report(h)
      PROVE  UNCHANGED run
  BY <1>2 DEF Report, ClaimReported, FinishReported
<1>3. ASSUME NEW v \in Verifiers, ReadEvidence(v) \/ ApplyEvidence(v)
      PROVE  UNCHANGED node
  BY <1>3 DEF ReadEvidence, ApplyEvidence
<1> QED
  BY <1>1, <1>2, <1>3
  DEF Next, vars, CallDriver, CrashWorker, RunLeaseExpires, NodeLeaseExpires,
      ReadReported, RecordEvidence, FailParentNode

\* A step that writes no run row lets some nodes succeed, or none.
LEMMA NodesRefine ==
  ASSUME LifecycleInv, [Next]_vars, UNCHANGED run
  PROVE  [Lifecycle!Next]_(Lifecycle!lifecycleVars)
<1> DEFINE done == NodesIn({"succeeded"})'
<1>1. done \in SUBSET Nodes BY DEF NodesIn
<1>2. NodesIn({"succeeded"}) \subseteq done
  BY SucceededStays DEF NodesIn, LifecycleInv
<1>3. done = NodesIn({"succeeded"}) \cup done BY <1>2
<1>4. Lifecycle!NodesSucceed
  BY <1>1, <1>3 DEF Lifecycle!NodesSucceed
<1> QED BY <1>4 DEF Lifecycle!Next

\* A step that writes it takes an edge of the abstract status machine, or
\* touches the lease only.
LEMMA RunRefines ==
  ASSUME LifecycleInv, [Next]_vars, UNCHANGED node
  PROVE  [Lifecycle!Next]_(Lifecycle!lifecycleVars)
<1>1. /\ TypeOK
      /\ run \in RunRows
      /\ FinalFieldsAgree
  BY DEF LifecycleInv, NodeInv, TypeOK, RunTypeOK, RunRows
<1>2. NodesIn({"succeeded"})' = NodesIn({"succeeded"}) BY DEF NodesIn
<1>3. ASSUME run'.st \in {"awaiting_verification", "succeeded"}
      PROVE  NodesIn({"succeeded"}) = Nodes
  BY <1>2, <1>3, LifecycleInvStep
  DEF LifecycleInv, DoneMeansAllDone, AllDone
<1>4. CASE RunKept
  <2>1. run'.st = run.st /\ run'.outcome = run.outcome
    BY <1>1, <1>4 DEF RunKept, RunRows
  <2> QED BY <1>2, <2>1 DEF Lifecycle!lifecycleVars
<1>5. CASE RunActivated
  <2>1. Lifecycle!Activate
    BY <1>1, <1>2, <1>5
    DEF RunActivated, Lifecycle!Activate, FinalFieldsAgree, Terminal
  <2> QED BY <2>1 DEF Lifecycle!Next
<1>6. CASE RunHeld
  <2>1. Lifecycle!Park \/ Lifecycle!HoldForVerification
    BY <1>2, <1>3, <1>6
    DEF RunHeld, Lifecycle!Park, Lifecycle!HoldForVerification
  <2> QED BY <2>1 DEF Lifecycle!Next
<1>7. CASE RunEnded
  <2>1. /\ run.st \in {"running", "awaiting_verification"}
        /\ run'.st \in {"succeeded", "failed"}
        /\ run'.st = "succeeded" <=> run'.outcome = "success"
        /\ run'.outcome \in Outcomes
    BY <1>7 DEF RunEnded, Outcomes
  <2>2. CASE run'.st = "succeeded"
    BY <1>2, <1>3, <2>1, <2>2 DEF Lifecycle!Succeed, Lifecycle!Next
  <2>3. CASE run'.st = "failed"
    BY <1>2, <2>1, <2>3 DEF Lifecycle!Fail, Lifecycle!Next, Outcomes
  <2> QED BY <2>1, <2>2, <2>3
<1> QED BY <1>1, <1>4, <1>5, <1>6, <1>7, RunStep DEF RunMoves

\* Every behaviour of the run, with its workers, leases and snapshots, is
\* one of the abstract lifecycle.
THEOREM RunImplementsLifecycle == Spec => ImplementsLifecycle
<1>1. Init => Lifecycle!Init
  BY DEF Init, Lifecycle!Init, NodesIn, FreshNode
<1>2. LifecycleInv /\ [Next]_vars => [Lifecycle!Next]_(Lifecycle!lifecycleVars)
  BY OneTableAtATime, NodesRefine, RunRefines
<1>3. LifecycleInv /\ [Next]_vars => LifecycleInv' BY LifecycleInvStep
<1> QED
  BY LifecycleInvInit, <1>1, <1>2, <1>3, PTL
  DEF Spec, ImplementsLifecycle, Lifecycle!Spec
=============================================================================
