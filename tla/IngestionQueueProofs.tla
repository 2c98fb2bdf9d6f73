------------------------ MODULE IngestionQueueProofs ------------------------
(***************************************************************************)
(* Proofs about IngestionQueue for any number of jobs, workers, lanes,     *)
(* legacy calls, attempts, releases and operator steps.                    *)
(*                                                                         *)
(* HeldSound is the strengthening for the fence: the attempt of a lane is  *)
(* at least 1 and at most its job's, and it is the job's only for the lane *)
(* that took the job last, or while no worker claims it.  A release gives  *)
(* the number back, so that "less than" becomes "at most", but it clears   *)
(* claimed_by; the next lease counts up again.  Of a job an operator       *)
(* retried under a lane's feet it says nothing.  SpentCounted is the       *)
(* strengthening for the crash loop: attempts counts every lease that was  *)
(* not handed back.                                                        *)
(***************************************************************************)
EXTENDS IngestionQueue, TLAPS

\* The attempts of the lanes against those of the rows.
HeldAttempts ==
  \A l \in Lanes : /\ lane[l].attempt \in 0 .. MaxAttempts
                   /\ lane[l].job # Nobody => lane[l].attempt # 0

HeldSound ==
  \A l \in Lanes, j \in Jobs : lane[l].job = j /\ j \notin reused =>
    /\ lane[l].attempt <= job[j].attempts
    /\ \/ lane[l].attempt < job[j].attempts
       \/ taker[j] = l
       \/ job[j].claimed_by \notin Workers

TypeInv == TypeOK /\ HeldAttempts

Rows == [status : Statuses, claimed_by : Workers \cup Legacy \cup {Nobody},
         lease : Leases, attempts : Nat]

-----------------------------------------------------------------------------
(* What a step does                                                        *)

\* The rows, and what remains to be shown when a step's rows are known.
LEMMA RowsTyped == ASSUME TypeInv PROVE job \in [Jobs -> Rows]
BY DEF TypeInv, TypeOK, Rows

\* A fenced write leaves a row, if what it would write is one.
LEMMA FencedRows ==
  ASSUME TypeInv, NEW l \in Lanes, NEW j \in Jobs, NEW row \in Rows,
         job' = [job EXCEPT ![j] = Fenced(l, j, row)]
  PROVE  job' \in [Jobs -> Rows]
<1>1. Fenced(l, j, row) \in Rows BY RowsTyped DEF Fenced
<1> QED BY <1>1, RowsTyped

\* The attempt of an owner is the row's, and a positive number.
LEMMA OwnerAttempt ==
  ASSUME TypeInv, NEW l \in Lanes, NEW j \in Jobs, Owns(l, j)
  PROVE  /\ job[j].attempts = lane[l].attempt
         /\ lane[l].attempt \in 1 .. MaxAttempts
BY IngestionQueueAssumption DEF TypeInv, TypeOK, HeldAttempts, Owns

\* The reaper writes rows.
LEMMA ReapedRows == ASSUME TypeInv PROVE Reaped \in [Jobs -> Rows]
<1> SUFFICES ASSUME NEW j \in Jobs PROVE Reaped[j] \in Rows
  BY DEF Reaped
<1>1. [job[j] EXCEPT !.status = "failed", !.lease = "none"] \in Rows
  BY RowsTyped DEF Rows, Statuses, Leases
<1> QED BY <1>1, RowsTyped DEF Reaped

\* A lane becomes idle, and nothing else but rows changes.
LEMMA IdleTypes ==
  ASSUME TypeInv, NEW l \in Lanes, job' \in [Jobs -> Rows],
         lane' \in {lane, [lane EXCEPT ![l] = Idle]},
         UNCHANGED <<up, legacy, taker, reused, operated>>, released' \in Nat,
         spent' \in [Jobs -> Int]
  PROVE  TypeInv'
<1>1. TypeOK'
  <2>1. Idle \in [job : Jobs \cup {Nobody}, attempt : Nat] BY DEF Idle
  <2>2. lane' \in [Lanes -> [job : Jobs \cup {Nobody}, attempt : Nat]]
    BY <2>1 DEF TypeInv, TypeOK
  <2> QED BY <2>2 DEF TypeInv, TypeOK, Rows
<1>2. \A k \in Lanes : lane'[k] \in {lane[k], Idle} BY DEF TypeInv, TypeOK
<1>3. HeldAttempts'
  BY <1>2, IngestionQueueAssumption DEF TypeInv, HeldAttempts, Idle
<1> QED BY <1>1, <1>3 DEF TypeInv

\* Every step of a queue lane keeps the types.
LEMMA LaneTypes ==
  ASSUME TypeInv, NEW l \in Lanes, NEW j \in Jobs, LaneStep(l, j)
  PROVE  TypeInv'
<1> USE RowsTyped
<1>1. CASE Lease(l, j)
  <2> DEFINE n == job[j].attempts + 1
  <2>1. n \in 1 .. MaxAttempts /\ n \in Nat
    BY <1>1, IngestionQueueAssumption DEF Lease, Leasable, Rows
  <2> HIDE DEF n
  <2>2. [status |-> "processing", claimed_by |-> WorkerOf[l],
         lease |-> "live", attempts |-> n] \in Rows
    BY <2>1, IngestionQueueAssumption DEF Rows, Statuses, Leases
  <2>3. job' \in [Jobs -> Rows] BY <1>1, <2>2 DEF Lease, n
  <2>4. lane' = [lane EXCEPT ![l] = [job |-> j, attempt |-> n]]
    BY <1>1 DEF Lease, n
  <2> QED BY <1>1, <2>1, <2>3, <2>4, IngestionQueueAssumption
          DEF Lease, Rows, TypeInv, TypeOK, HeldAttempts
<1>2. CASE Heartbeat(l, j)
  <2>1. [job[j] EXCEPT !.lease = "live"] \in Rows BY DEF Rows, Leases
  <2>2. job' \in [Jobs -> Rows] BY <1>2, <2>1, FencedRows DEF Heartbeat
  <2>3. released' \in Nat /\ spent' \in [Jobs -> Int]
    BY <1>2 DEF Heartbeat, histories, TypeInv, TypeOK
  <2> QED BY <1>2, <2>2, <2>3, IdleTypes DEF Heartbeat, histories
<1>3. CASE Complete(l, j)
  <2>1. [job[j] EXCEPT !.status = "done", !.lease = "none"] \in Rows
    BY DEF Rows, Statuses, Leases
  <2>2. job' \in [Jobs -> Rows] BY <1>3, <2>1, FencedRows DEF Complete
  <2>3. released' \in Nat /\ spent' \in [Jobs -> Int]
    BY <1>3 DEF Complete, histories, TypeInv, TypeOK
  <2> QED BY <1>3, <2>2, <2>3, IdleTypes DEF Complete, histories
<1>4. ASSUME NEW retryable \in BOOLEAN, Fail(l, j, retryable) PROVE TypeInv'
  <2> DEFINE again == retryable /\ lane[l].attempt < MaxAttempts
             status == IF again THEN "retryable_failed" ELSE "failed"
             row == [job[j] EXCEPT !.status = status, !.lease = "none"]
  <2>1. job' = [job EXCEPT ![j] = Fenced(l, j, row)] BY <1>4 DEF Fail
  <2>2. row \in Rows
    <3>1. status \in Statuses BY DEF Statuses
    <3> HIDE DEF status
    <3> QED BY <3>1 DEF Rows, Leases
  <2> HIDE DEF row
  <2>4. job' \in [Jobs -> Rows] BY <2>1, <2>2, FencedRows
  <2>3. released' \in Nat /\ spent' \in [Jobs -> Int]
    BY <1>4 DEF Fail, histories, TypeInv, TypeOK
  <2> QED BY <1>4, <2>3, <2>4, IdleTypes DEF Fail, histories
<1>5. CASE Release(l, j)
  <2> DEFINE row == [job[j] EXCEPT !.status = "pending", !.lease = "none",
                                   !.claimed_by = Nobody,
                                   !.attempts = job[j].attempts - 1]
  <2>1. job' = [job EXCEPT ![j] = Fenced(l, j, row)] BY <1>5 DEF Release
  <2>2. job' \in [Jobs -> Rows]
    <3>1. ASSUME Owns(l, j) PROVE job' \in [Jobs -> Rows]
      <4>1. job[j].attempts - 1 \in Nat BY <3>1, OwnerAttempt
      <4>2. row \in Rows BY <4>1 DEF Rows, Statuses, Leases
      <4> QED BY <2>1, <4>2, FencedRows
    <3>2. ASSUME ~ Owns(l, j) PROVE job' \in [Jobs -> Rows]
      BY <2>1, <3>2 DEF Fenced
    <3> QED BY <3>1, <3>2
  <2>3. released' \in Nat /\ spent' \in [Jobs -> Int]
    BY <1>5 DEF Release, histories, TypeInv, TypeOK
  <2> QED BY <1>5, <2>2, <2>3, IdleTypes DEF Release
<1> QED BY <1>1, <1>2, <1>3, <1>4, <1>5 DEF LaneStep

\* So do the processes, the clock, the legacy loop and the operators.
LEMMA OtherTypes ==
  ASSUME TypeInv,
         \/ \E j \in Jobs : \/ Enqueue(j) \/ LeaseExpires(j)
                            \/ RequeueStuck(j) \/ RetryFailed(j)
         \/ \E w \in Workers : Start(w) \/ Stop(w) \/ Finish(w) \/ Crash(w)
         \/ \E g \in Legacy, j \in Jobs : LegacyStep(g, j)
         \/ \E g \in Legacy : ClaimDies(g)
  PROVE  TypeInv'
<1> USE RowsTyped
<1>1. ASSUME NEW j \in Jobs,
             Enqueue(j) \/ LeaseExpires(j) \/ RequeueStuck(j) \/ RetryFailed(j)
      PROVE  TypeInv'
  <2>1. job' \in [Jobs -> Rows]
    <3>1. CASE Enqueue(j) BY <3>1 DEF Enqueue, Rows, Statuses
    <3>2. CASE LeaseExpires(j) BY <3>2 DEF LeaseExpires, Rows, Leases
    <3>3. CASE RequeueStuck(j) BY <3>3 DEF RequeueStuck, Rows, Statuses
    <3>4. CASE RetryFailed(j)
      <4>1. [job[j] EXCEPT !.status = "pending", !.lease = "none",
                           !.attempts = 0] \in Rows
        BY DEF Rows, Statuses, Leases
      <4>2. job' = [job EXCEPT ![j] = [@ EXCEPT !.status = "pending",
                                                !.lease = "none",
                                                !.attempts = 0]]
        BY <3>4 DEF RetryFailed
      <4> QED BY <4>1, <4>2
    <3> QED BY <1>1, <3>1, <3>2, <3>3, <3>4
  <2>2. /\ UNCHANGED <<lane, up, legacy, taker, released>>
        /\ operated' \in Nat
        /\ reused' \subseteq Jobs /\ spent' \in [Jobs -> Int]
    <3>0. operated \in Nat /\ reused \subseteq Jobs /\ spent \in [Jobs -> Int]
      BY DEF TypeInv, TypeOK
    <3>1. CASE Enqueue(j) BY <3>0, <3>1 DEF Enqueue, histories
    <3>2. CASE LeaseExpires(j) BY <3>0, <3>2 DEF LeaseExpires, histories
    <3>3. CASE RequeueStuck(j) BY <3>0, <3>3 DEF RequeueStuck, histories
    <3>4. CASE RetryFailed(j)
      <4>1. /\ UNCHANGED <<lane, up, legacy, taker, released>>
            /\ operated' = operated + 1
            /\ reused' \in {reused, reused \cup {j}}
            /\ spent' = [spent EXCEPT ![j] = 0]
        BY <3>4 DEF RetryFailed
      <4> QED BY <3>0, <4>1
    <3> QED BY <1>1, <3>1, <3>2, <3>3, <3>4
  <2>3. TypeOK' BY <2>1, <2>2 DEF TypeInv, TypeOK, Rows
  <2>4. HeldAttempts' BY <2>2 DEF TypeInv, HeldAttempts
  <2> QED BY <2>3, <2>4 DEF TypeInv
<1>2. ASSUME NEW w \in Workers, Start(w) \/ Stop(w) \/ Finish(w) \/ Crash(w)
      PROVE  TypeInv'
  <2>1. job' \in [Jobs -> Rows]
    BY <1>2, ReapedRows DEF Start, Stop, Finish, Crash
  <2>2. /\ UNCHANGED <<legacy, taker, reused, spent, released, operated>>
        /\ up' \in [Workers -> {"up", "stopping", "down"}]
    BY <1>2 DEF Start, Stop, Finish, Crash, histories, TypeInv, TypeOK
  <2>3. \A l \in Lanes : lane'[l] \in {lane[l], Idle}
    BY <1>2 DEF Start, Stop, Finish, Crash, TypeInv, TypeOK
  <2>4. lane' \in [Lanes -> [job : Jobs \cup {Nobody}, attempt : Nat]]
    BY <1>2 DEF Start, Stop, Finish, Crash, TypeInv, TypeOK, Idle
  <2>5. TypeOK' BY <2>1, <2>2, <2>4 DEF TypeInv, TypeOK, Rows
  <2>6. HeldAttempts'
    BY <2>3, IngestionQueueAssumption DEF TypeInv, HeldAttempts, Idle
  <2> QED BY <2>5, <2>6 DEF TypeInv
<1>3. ASSUME NEW g \in Legacy, NEW j \in Jobs, LegacyStep(g, j)
      PROVE  TypeInv'
  <2>1. job' \in [Jobs -> Rows]
    <3>1. CASE Claim(g, j) BY <3>1 DEF Claim, Rows, Statuses
    <3>2. ASSUME NEW status \in Settled, ClaimEnds(g, j, status)
          PROVE  job' \in [Jobs -> Rows]
      BY <3>2 DEF ClaimEnds, Rows, Statuses, Settled
    <3> QED BY <1>3, <3>1, <3>2 DEF LegacyStep
  <2>2. /\ UNCHANGED <<lane, up, reused, spent, released, operated>>
        /\ legacy' \in [Legacy -> Jobs \cup {Nobody}]
        /\ taker' \in [Jobs -> Lanes \cup Legacy \cup {Nobody}]
    <3>1. /\ legacy \in [Legacy -> Jobs \cup {Nobody}]
          /\ taker \in [Jobs -> Lanes \cup Legacy \cup {Nobody}]
      BY DEF TypeInv, TypeOK
    <3>2. CASE Claim(g, j) BY <3>1, <3>2 DEF Claim
    <3>3. CASE \E status \in Settled : ClaimEnds(g, j, status)
      BY <3>1, <3>3 DEF ClaimEnds, histories
    <3> QED BY <1>3, <3>2, <3>3 DEF LegacyStep
  <2>3. TypeOK' BY <2>1, <2>2 DEF TypeInv, TypeOK, Rows
  <2>4. HeldAttempts' BY <2>2 DEF TypeInv, HeldAttempts
  <2> QED BY <2>3, <2>4 DEF TypeInv
<1>4. ASSUME NEW g \in Legacy, ClaimDies(g) PROVE TypeInv'
  BY <1>4 DEF ClaimDies, histories, TypeInv, TypeOK, HeldAttempts
<1> QED BY <1>1, <1>2, <1>3, <1>4

LEMMA TypesKept == ASSUME TypeInv, [Next]_vars PROVE TypeInv'
<1>1. CASE UNCHANGED vars
  BY <1>1 DEF vars, histories, TypeInv, TypeOK, HeldAttempts
<1>2. CASE Next BY <1>2, LaneTypes, OtherTypes DEF Next
<1> QED BY <1>1, <1>2

LEMMA TypesAtFirst == ASSUME Init PROVE TypeInv
BY IngestionQueueAssumption
   DEF Init, TypeInv, TypeOK, HeldAttempts, Statuses, Leases, Idle

LEMMA TypesAlways == Spec => []TypeInv
<1>1. Init => TypeInv BY TypesAtFirst
<1>2. TypeInv /\ [Next]_vars => TypeInv' BY TypesKept
<1> QED BY <1>1, <1>2, PTL DEF Spec

\* Rows, lanes and processes keep their types; that attempts stay natural
\* numbers, although release counts down, is due to its fence.
THEOREM TypeCorrect == Spec => []TypeOK
<1>1. TypeInv => TypeOK BY DEF TypeInv
<1> QED BY <1>1, TypesAlways, PTL

-----------------------------------------------------------------------------
(* What a step leaves                                                      *)

\* What most steps do with a job: no lane gets a job, attempts stay or rise, no
\* lease is counted, and the job is taken by nobody or by the legacy loop.
Kept(j) ==
  /\ UNCHANGED <<reused, spent>>
  /\ \A l \in Lanes : lane'[l] \in {lane[l], Idle}
  /\ job[j].attempts <= job'[j].attempts
  /\ \/ taker'[j] = taker[j] /\ job'[j].claimed_by = job[j].claimed_by
     \/ job'[j].claimed_by \notin Workers

\* Those are all but a lease, a hand-back and the operator's retry.
LEMMA OthersKeep ==
  ASSUME TypeInv, [Next]_vars, NEW j \in Jobs,
         ~ \E k \in Lanes, i \in Jobs : Lease(k, i) \/ Release(k, i),
         ~ \E i \in Jobs : RetryFailed(i)
  PROVE  Kept(j)
<1> job \in [Jobs -> Rows] /\ j \in Jobs BY RowsTyped
<1> USE DEF Kept
<1>0. job[j].attempts \in Nat BY DEF Rows
<1>1. ASSUME UNCHANGED vars PROVE Kept(j) BY <1>0, <1>1 DEF vars, histories
<1>2. ASSUME NEW k \in Lanes, NEW i \in Jobs,
             \/ Heartbeat(k, i) \/ Complete(k, i)
             \/ \E retryable \in BOOLEAN : Fail(k, i, retryable)
      PROVE  Kept(j)
  <2>1. /\ job'[j].attempts = job[j].attempts
        /\ job'[j].claimed_by = job[j].claimed_by
    <3>1. CASE Heartbeat(k, i) BY <3>1 DEF Heartbeat, Fenced, Rows
    <3>2. CASE Complete(k, i) BY <3>2 DEF Complete, Fenced, Rows
    <3>3. ASSUME NEW retryable \in BOOLEAN, Fail(k, i, retryable)
          PROVE  /\ job'[j].attempts = job[j].attempts
                 /\ job'[j].claimed_by = job[j].claimed_by
      BY <3>3 DEF Fail, Fenced, Rows
    <3> QED BY <1>2, <3>1, <3>2, <3>3
  <2>2. UNCHANGED histories /\ \A l \in Lanes : lane'[l] \in {lane[l], Idle}
    BY <1>2 DEF Heartbeat, Complete, Fail, TypeInv, TypeOK
  <2> QED BY <1>0, <2>1, <2>2 DEF histories
<1>3. ASSUME NEW i \in Jobs,
             Enqueue(i) \/ LeaseExpires(i) \/ RequeueStuck(i)
      PROVE  Kept(j)
  <2>1. /\ job'[j].attempts = job[j].attempts
        /\ job'[j].claimed_by = job[j].claimed_by
    BY <1>3 DEF Enqueue, LeaseExpires, RequeueStuck, Rows
  <2>2. UNCHANGED <<histories, lane>>
    BY <1>3 DEF Enqueue, LeaseExpires, RequeueStuck
  <2> QED BY <1>0, <2>1, <2>2 DEF histories
<1>4. ASSUME NEW w \in Workers, Start(w) \/ Stop(w) \/ Finish(w) \/ Crash(w)
      PROVE  Kept(j)
  <2>1. /\ job'[j].attempts = job[j].attempts
        /\ job'[j].claimed_by = job[j].claimed_by
    <3>1. job' \in {job, Reaped} BY <1>4 DEF Start, Stop, Finish, Crash
    <3> QED BY <3>1 DEF Reaped, Rows
  <2>2. UNCHANGED histories /\ \A l \in Lanes : lane'[l] \in {lane[l], Idle}
    BY <1>4 DEF Start, Stop, Finish, Crash
  <2> QED BY <1>0, <2>1, <2>2 DEF histories
<1>5. ASSUME NEW g \in Legacy, NEW i \in Jobs, Claim(g, i) PROVE Kept(j)
  <2>1. /\ job'[j].attempts = job[j].attempts
        /\ UNCHANGED lane
    BY <1>5 DEF Claim, Rows
  <2>2. CASE i = j
    BY <1>0, <1>5, <2>1, <2>2, IngestionQueueAssumption DEF Claim, Rows
  <2>3. CASE i # j
    BY <1>0, <1>5, <2>1, <2>3 DEF Claim, TypeInv, TypeOK
  <2> QED BY <2>2, <2>3
<1>6. ASSUME NEW g \in Legacy, NEW i \in Jobs, NEW status \in Settled,
             ClaimEnds(g, i, status)
      PROVE  Kept(j)
  <2>1. /\ job'[j].attempts \in {job[j].attempts, job[j].attempts + 1}
        /\ job'[j].claimed_by = job[j].claimed_by
    BY <1>6 DEF ClaimEnds, Rows
  <2>2. UNCHANGED <<histories, lane>> BY <1>6 DEF ClaimEnds
  <2> QED BY <1>0, <2>1, <2>2 DEF histories
<1>7. ASSUME NEW g \in Legacy, ClaimDies(g) PROVE Kept(j)
  BY <1>0, <1>7 DEF ClaimDies, histories
<1> QED
  BY <1>1, <1>2, <1>3, <1>4, <1>5, <1>6, <1>7
  DEF Next, LaneStep, LegacyStep

-----------------------------------------------------------------------------
(* The crash loop                                                          *)

\* The attempts of a row count at least the leases that were not handed back.
SpentCounted ==
  \A j \in Jobs : spent[j] <= job[j].attempts /\ spent[j] <= MaxAttempts

\* A step that leaves or raises the attempts and counts no lease.
LEMMA SpentKept ==
  ASSUME TypeInv, TypeInv', SpentCounted,
         \A j \in Jobs : /\ spent'[j] = spent[j]
                         /\ job[j].attempts <= job'[j].attempts
  PROVE  SpentCounted'
<1> SUFFICES ASSUME NEW j \in Jobs
             PROVE  spent[j] <= job'[j].attempts /\ spent[j] <= MaxAttempts
  BY DEF SpentCounted
<1> QED BY DEF SpentCounted, TypeInv, TypeOK

\* A lease counts in both and a hand-back in neither; the operator's retry
\* counts both from zero.
LEMMA SpentAlong ==
  ASSUME TypeInv, SpentCounted, [Next]_vars
  PROVE  SpentCounted'
<1> TypeInv' BY TypesKept
<1> job \in [Jobs -> Rows] BY RowsTyped
<1>0. \A j \in Jobs : job[j].attempts \in Nat BY DEF Rows
<1>1. ASSUME NEW k \in Lanes, NEW i \in Jobs, Lease(k, i) PROVE SpentCounted'
  <2> SUFFICES ASSUME NEW j \in Jobs
               PROVE  spent'[j] <= job'[j].attempts /\ spent'[j] <= MaxAttempts
    BY DEF SpentCounted
  <2>1. spent \in [Jobs -> Int] BY DEF TypeInv, TypeOK
  <2> QED BY <1>0, <1>1, <2>1, IngestionQueueAssumption
          DEF Lease, Leasable, SpentCounted
<1>2. ASSUME NEW k \in Lanes, NEW i \in Jobs, Release(k, i) PROVE SpentCounted'
  <2> SUFFICES ASSUME NEW j \in Jobs
               PROVE  spent'[j] <= job'[j].attempts /\ spent'[j] <= MaxAttempts
    BY DEF SpentCounted
  <2>1. spent \in [Jobs -> Int] BY DEF TypeInv, TypeOK
  <2> QED BY <1>0, <1>2, <2>1, IngestionQueueAssumption
          DEF Release, Fenced, SpentCounted, Rows
<1>3. ASSUME NEW i \in Jobs, RetryFailed(i) PROVE SpentCounted'
  <2> SUFFICES ASSUME NEW j \in Jobs
               PROVE  spent'[j] <= job'[j].attempts /\ spent'[j] <= MaxAttempts
    BY DEF SpentCounted
  <2>1. spent \in [Jobs -> Int] BY DEF TypeInv, TypeOK
  <2> QED BY <1>0, <1>3, <2>1, IngestionQueueAssumption
          DEF RetryFailed, SpentCounted, Rows
<1>4. CASE /\ ~ \E k \in Lanes, i \in Jobs : Lease(k, i) \/ Release(k, i)
           /\ ~ \E i \in Jobs : RetryFailed(i)
  <2>1. \A j \in Jobs : Kept(j) BY <1>4, OthersKeep
  <2> QED BY <2>1, SpentKept DEF Kept
<1> QED BY <1>1, <1>2, <1>3, <1>4

\* However lanes die, lose their leases or come back as zombies, and however
\* often the job is requeued or finished without a fence: it is leased at most
\* max_attempts times, hand-backs aside, until an operator retries it.
THEOREM CrashLoopsEnd == Spec => []CrashLoopEnds
<1>1. Init => SpentCounted
  BY IngestionQueueAssumption DEF Init, SpentCounted
<1>2. TypeInv /\ SpentCounted /\ [Next]_vars => SpentCounted' BY SpentAlong
<1>3. SpentCounted => CrashLoopEnds BY DEF SpentCounted, CrashLoopEnds
<1> QED BY <1>1, <1>2, <1>3, TypesAlways, PTL DEF Spec

-----------------------------------------------------------------------------
(* The fence                                                               *)

\* What HeldSound says of one lane with one job.
SoundFor(l, j) ==
  lane[l].job = j /\ j \notin reused =>
    /\ lane[l].attempt <= job[j].attempts
    /\ \/ lane[l].attempt < job[j].attempts
       \/ taker[j] = l
       \/ job[j].claimed_by \notin Workers

\* It survives a step that gives the lane no job, leaves or raises the job's
\* attempts, and neither takes the job for another nor names a worker anew.
LEMMA SoundKept ==
  ASSUME TypeInv, TypeInv', NEW l \in Lanes, NEW j \in Jobs, SoundFor(l, j),
         lane'[l] \in {lane[l], Idle}, UNCHANGED reused,
         job[j].attempts <= job'[j].attempts,
         \/ taker'[j] = taker[j] /\ job'[j].claimed_by = job[j].claimed_by
         \/ job'[j].claimed_by \notin Workers
  PROVE  SoundFor(l, j)'
<1>1. j # Nobody BY IngestionQueueAssumption
<1> QED BY <1>1 DEF TypeInv, TypeOK, SoundFor, Idle

\* A lease counts up: what every other lane holds is now less.
LEMMA LeaseSound ==
  ASSUME TypeInv, TypeInv', HeldSound, NEW k \in Lanes, NEW i \in Jobs,
         Lease(k, i)
  PROVE  HeldSound'
<1> SUFFICES ASSUME NEW l \in Lanes, NEW j \in Jobs PROVE SoundFor(l, j)'
  BY DEF HeldSound, SoundFor
<1>1. SoundFor(l, j) BY DEF HeldSound, SoundFor
<1>2. CASE j # i
  BY <1>1, <1>2 DEF Lease, SoundFor, TypeInv, TypeOK
<1>3. CASE j = i /\ l = k
  BY <1>3 DEF Lease, SoundFor, TypeInv, TypeOK
<1>4. CASE j = i /\ l # k
  BY <1>1, <1>4 DEF Lease, SoundFor, TypeInv, TypeOK
<1> QED BY <1>2, <1>3, <1>4

\* A release counts down, but the lane owned the job: the attempts of all
\* other lanes were less, and claimed_by is cleared.
LEMMA ReleaseSound ==
  ASSUME TypeInv, TypeInv', HeldSound, NEW k \in Lanes, NEW i \in Jobs,
         Release(k, i)
  PROVE  HeldSound'
<1> SUFFICES ASSUME NEW l \in Lanes, NEW j \in Jobs PROVE SoundFor(l, j)'
  BY DEF HeldSound, SoundFor
<1>1. SoundFor(l, j) /\ SoundFor(k, i) BY DEF HeldSound, SoundFor
<1>2. lane'[l] \in {lane[l], Idle} BY DEF Release, TypeInv, TypeOK
<1>3. CASE Owns(k, i) /\ j = i
  <2>1. /\ job'[i].attempts = job[i].attempts - 1
        /\ job'[i].claimed_by = Nobody
    BY <1>3 DEF Release, Fenced, TypeInv, TypeOK
  <2>2. l = k => lane'[l].job # j
    BY IngestionQueueAssumption DEF Release, TypeInv, TypeOK, Idle
  <2>3. l # k /\ lane[l].job = j /\ j \notin reused
          => lane[l].attempt < job[j].attempts
    <3>1. lane[k].job = j /\ lane[k].attempt = job[j].attempts
          /\ job[j].claimed_by \in Workers
      BY <1>3, IngestionQueueAssumption DEF Owns
    <3> QED BY <1>1, <1>3, <3>1 DEF SoundFor, TypeInv, TypeOK
  <2>6. reused' = reused BY DEF Release
  <2>4. Nobody \notin Workers BY IngestionQueueAssumption
  <2>5. l # k => lane'[l] = lane[l] BY DEF Release, TypeInv, TypeOK
  <2> QED BY <1>3, <2>1, <2>2, <2>3, <2>4, <2>5, <2>6
          DEF SoundFor, TypeInv, TypeOK
<1>4. CASE ~ Owns(k, i) \/ j # i
  <2>1. job'[j] = job[j] BY <1>4 DEF Release, Fenced, TypeInv, TypeOK
  <2>2. UNCHANGED <<taker, reused>> BY DEF Release
  <2>3. job[j].attempts <= job'[j].attempts BY <2>1 DEF TypeInv, TypeOK
  <2> QED BY <1>1, <1>2, <2>1, <2>2, <2>3, SoundKept
<1> QED BY <1>3, <1>4

\* An operator's retry makes the numbers start again, but only of a job that no
\* lane runs or that is exempt from now on.
LEMMA RetrySound ==
  ASSUME TypeInv, TypeInv', HeldSound, NEW i \in Jobs, RetryFailed(i)
  PROVE  HeldSound'
<1> SUFFICES ASSUME NEW l \in Lanes, NEW j \in Jobs PROVE SoundFor(l, j)'
  BY DEF HeldSound, SoundFor
<1>1. SoundFor(l, j) BY DEF HeldSound, SoundFor
<1>2. CASE j = i
  <2>1. lane'[l].job = j => j \in reused' BY <1>2 DEF RetryFailed
  <2> QED BY <2>1 DEF SoundFor
<1>3. CASE j # i
  <2>1. job'[j] = job[j] /\ reused \subseteq reused'
    BY <1>3 DEF RetryFailed, TypeInv, TypeOK
  <2>2. UNCHANGED <<lane, taker>> BY DEF RetryFailed
  <2> QED BY <1>1, <2>1, <2>2 DEF SoundFor
<1> QED BY <1>2, <1>3

LEMMA SoundAlong ==
  ASSUME TypeInv, HeldSound, [Next]_vars
  PROVE  HeldSound'
<1> TypeInv' BY TypesKept
<1>1. CASE \E k \in Lanes, i \in Jobs : Lease(k, i) BY <1>1, LeaseSound
<1>2. CASE \E k \in Lanes, i \in Jobs : Release(k, i) BY <1>2, ReleaseSound
<1>3. CASE \E i \in Jobs : RetryFailed(i) BY <1>3, RetrySound
<1>4. CASE /\ ~ \E k \in Lanes, i \in Jobs : Lease(k, i) \/ Release(k, i)
           /\ ~ \E i \in Jobs : RetryFailed(i)
  <2> SUFFICES ASSUME NEW l \in Lanes, NEW j \in Jobs PROVE SoundFor(l, j)'
    BY DEF HeldSound, SoundFor
  <2>1. Kept(j) BY <1>4, OthersKeep
  <2>2. SoundFor(l, j) BY DEF HeldSound, SoundFor
  <2> QED BY <2>1, <2>2, SoundKept DEF Kept
<1> QED BY <1>1, <1>2, <1>3, <1>4

LEMMA SoundIsExclusive ==
  ASSUME TypeInv, HeldSound
  PROVE  FencedUnlessReused
<1> SUFFICES ASSUME NEW l \in Lanes, NEW j \in Jobs, Owns(l, j), j \notin reused
             PROVE  taker[j] = l
  BY DEF FencedUnlessReused
<1> QED BY OwnerAttempt, IngestionQueueAssumption
        DEF Owns, HeldSound, TypeInv, TypeOK

\* The pair worker id and attempt, which lanes of one process share the first
\* part of and release reuses the second part of, fences out everyone but the
\* lane that took the job last, of every job that was not retried by an operator
\* while a lane was still running it (for those, see the run 'fence').
THEOREM FenceHoldsUnlessReused == Spec => []FencedUnlessReused
<1>1. Init => HeldSound
  BY IngestionQueueAssumption DEF Init, HeldSound, Idle
<1>2. TypeInv /\ HeldSound /\ [Next]_vars => HeldSound' BY SoundAlong
<1>3. TypeInv /\ HeldSound => FencedUnlessReused BY SoundIsExclusive
<1> QED BY <1>1, <1>2, <1>3, TypesAlways, PTL DEF Spec

-----------------------------------------------------------------------------
(* Settled jobs                                                            *)

\* A settled job's status is changed by an operator or by the legacy call that
\* claimed it once.
LEMMA SettledStep ==
  ASSUME TypeInv, [Next]_vars, NEW j \in Jobs, job[j].status \in Settled,
         job'[j].status # job[j].status
  PROVE  \/ operated' = operated + 1
         \/ \E g \in Legacy : legacy[g] = j /\ legacy'[g] = Nobody
<1> job \in [Jobs -> Rows] BY RowsTyped
<1> USE DEF Rows
<1>1. ~ UNCHANGED vars BY DEF vars
<1>2. ASSUME NEW k \in Lanes, NEW i \in Jobs, LaneStep(k, i) PROVE FALSE
  <2>1. ~ Lease(k, i) BY DEF Lease, Leasable, Settled
  <2>2. ~ Heartbeat(k, i) BY DEF Heartbeat, Fenced
  <2>3. ~ Complete(k, i) BY DEF Complete, Fenced, Owns, Settled
  <2>4. ASSUME NEW retryable \in BOOLEAN, Fail(k, i, retryable) PROVE FALSE
    BY <2>4 DEF Fail, Fenced, Owns, Settled
  <2>5. ~ Release(k, i) BY DEF Release, Fenced, Owns, Settled
  <2> QED BY <1>2, <2>1, <2>2, <2>3, <2>4, <2>5 DEF LaneStep
<1>3. ASSUME NEW i \in Jobs, Enqueue(i) \/ LeaseExpires(i) PROVE FALSE
  BY <1>3 DEF Enqueue, LeaseExpires, Settled
<1>4. ASSUME NEW w \in Workers, Start(w) \/ Stop(w) \/ Finish(w) \/ Crash(w)
      PROVE  FALSE
  BY <1>4 DEF Start, Stop, Finish, Crash, Reaped, Settled
<1>5. ASSUME NEW i \in Jobs, RequeueStuck(i) \/ RetryFailed(i)
      PROVE  operated' = operated + 1
  BY <1>5 DEF RequeueStuck, RetryFailed
<1>6. ASSUME NEW g \in Legacy, NEW i \in Jobs, LegacyStep(g, i)
      PROVE  legacy[g] = j /\ legacy'[g] = Nobody
  <2>1. ~ Claim(g, i) BY DEF Claim, Settled
  <2>2. ASSUME NEW status \in Settled, ClaimEnds(g, i, status)
        PROVE  legacy[g] = j /\ legacy'[g] = Nobody
    BY <2>2 DEF ClaimEnds, TypeInv, TypeOK
  <2> QED BY <1>6, <2>1, <2>2 DEF LegacyStep
<1>7. ASSUME NEW g \in Legacy, ClaimDies(g) PROVE FALSE BY <1>7 DEF ClaimDies
<1> QED BY <1>1, <1>2, <1>3, <1>4, <1>5, <1>6, <1>7 DEF Next

\* No lane, zombie or reaped, and no reaper changes a job that is settled.
THEOREM SettledJobsStay == Spec => SettledUnlessUnfenced
<1>1. TypeInv /\ [Next]_vars =>
        [\A j \in Jobs :
           job[j].status \in Settled /\ job'[j].status # job[j].status
             => \/ operated' = operated + 1
                \/ \E g \in Legacy : legacy[g] = j /\ legacy'[g] = Nobody]_vars
  BY SettledStep
<1> QED BY <1>1, TypesAlways, PTL DEF Spec, SettledUnlessUnfenced
=============================================================================
