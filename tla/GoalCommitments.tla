-------------------------- MODULE GoalCommitments ---------------------------
(***************************************************************************)
(* Credit commitments to Goals, the escrow bounty                          *)
(* (backend/app/economy/commitments.py, migration 119), on the append-only *)
(* Credit ledger (economy/credits.py): commit, withdraw, the settlement    *)
(* that follows a Goal's resolution (services/procedures.py), clawback.    *)
(*                                                                         *)
(* The Goal and the ledger are in different databases, so every call reads *)
(* here and writes there in separate steps; commit alone holds the         *)
(* contributor's advisory lock from its balance check to its INSERT.  A    *)
(* ledger row is never changed: balances are sums over the rows.           *)
(***************************************************************************)
EXTENDS Integers, FiniteSets, FiniteSetsExt

CONSTANTS
  Goals,         \* the Goals commitments are made on
  Contributors,  \* people with a Credit balance
  Keys,          \* commitments, named by their idempotency keys
  By,            \* [Keys -> Contributors], who commits
  On,            \* [Keys -> Goals], to which Goal
  Credits,       \* [Keys -> Nat], how much
  Opening,       \* [Contributors -> Nat], Credits earned before
  Callers,       \* calls of commit and withdraw
  Settlers,      \* calls that resolve a Goal and settle its bounties
  None,          \* no key, no Goal, no contributor
  MaxDeaths      \* bound: settlers that die or fail before the end

ASSUME GoalCommitmentsAssumption ==
  /\ By \in [Keys -> Contributors] /\ On \in [Keys -> Goals]
  /\ Credits \in [Keys -> Nat \ {0}]
  /\ Opening \in [Contributors -> Nat]
  /\ None \notin Keys \cup Goals \cup Contributors
  /\ MaxDeaths \in Nat

VARIABLES
  resolved,   \* the Goals whose resolved_at is set
  committed,  \* the keys with a goal_commitment row
  settled,    \* the goal_commitment_release and bounty_payout rows
  clawed,     \* the settlement rows with a clawback row
  caller,     \* each commit or withdraw call
  settler,    \* each resolution
  deaths      \* how many settlers died

vars == <<resolved, committed, settled, clawed, caller, settler, deaths>>

\* A settlement row: the commitment it reverses, who gets the Credits, why.
Settlements ==
  [key : Keys, to : Contributors,
   why : {"withdrawn", "resolved", "self_dealing", "no_contributor"}]

NoCall == [pc |-> "idle", key |-> None]
NoSettle == [pc |-> "idle", goal |-> None, solver |-> None, todo |-> {}]

TypeOK ==
  /\ resolved \subseteq Goals
  /\ committed \subseteq Keys
  /\ settled \subseteq Settlements /\ clawed \subseteq settled
  /\ caller \in [Callers -> [pc : {"idle", "checked", "counted", "releasing"},
                             key : Keys \cup {None}]]
  /\ settler \in [Settlers -> [pc : {"idle", "due", "listed"},
                               goal : Goals \cup {None},
                               solver : Contributors \cup {None},
                               todo : SUBSET Keys]]
  /\ deaths \in Nat

Init ==
  /\ resolved = {} /\ committed = {} /\ settled = {} /\ clawed = {}
  /\ caller = [c \in Callers |-> NoCall]
  /\ settler = [s \in Settlers |-> NoSettle]
  /\ deaths = 0

-----------------------------------------------------------------------------
(* The ledger                                                              *)

SettledKeys == {e.key : e \in settled}
OpenKeys == committed \ SettledKeys

\* SUM(amount) over commitments, and over settlements or their clawbacks.
Total(keys) == SumFunctionOnSet(Credits, keys)
Paid(rows) == SumFunctionOnSet([e \in rows |-> Credits[e.key]], rows)

\* What a contributor's rows come to, clawbacks aside and included.
Gross(c) ==
  Opening[c] - Total({k \in committed : By[k] = c})
    + Paid({e \in settled : e.to = c})
Balance(c) == Gross(c) - Paid({e \in clawed : e.to = c})

\* mutant: no unique index, no ON CONFLICT
SettleTwice(k, to, why) ==
  settled \cup {[key |-> k, to |-> to, why |-> why]}

\* INSERT ... ON CONFLICT (reversal_of_event_id) DO NOTHING.
SettleOnce(k, to, why) ==
  IF k \in SettledKeys THEN settled
  ELSE settled \cup {[key |-> k, to |-> to, why |-> why]}

-----------------------------------------------------------------------------
(* commit                                                                  *)

\* The canonical Goal is read: not resolved.
CommitCheck(c, k) ==
  /\ caller[c].pc = "idle"
  /\ On[k] \notin resolved
  /\ caller' = [caller EXCEPT ![c] = [pc |-> "checked", key |-> k]]
  /\ UNCHANGED <<resolved, committed, settled, clawed, settler, deaths>>

\* The per-contributor advisory lock of every Credit writer.
LockHeld(p) ==
  \E c \in Callers : caller[c].pc = "counted" /\ By[caller[c].key] = p

\* mutant: the balance is read without the lock
CommitCountUnlocked(c) ==
  LET k == caller[c].key IN
  /\ caller[c].pc = "checked"
  /\ caller' = [caller EXCEPT ![c] =
                  IF k \notin committed /\ Balance(By[k]) >= Credits[k]
                  THEN [@ EXCEPT !.pc = "counted"] ELSE NoCall]
  /\ UNCHANGED <<resolved, committed, settled, clawed, settler, deaths>>

\* Under the lock: a repeated key is the same commitment (return it), and
\* without the balance the call is refused.
CommitCount(c) ==
  LET k == caller[c].key IN
  /\ caller[c].pc = "checked"
  /\ ~ LockHeld(By[k])
  /\ caller' = [caller EXCEPT ![c] =
                  IF k \notin committed /\ Balance(By[k]) >= Credits[k]
                  THEN [@ EXCEPT !.pc = "counted"] ELSE NoCall]
  /\ UNCHANGED <<resolved, committed, settled, clawed, settler, deaths>>

\* INSERT the negative row; COMMIT lets the lock go.
CommitInsert(c) ==
  /\ caller[c].pc = "counted"
  /\ committed' = committed \cup {caller[c].key}
  /\ caller' = [caller EXCEPT ![c] = NoCall]
  /\ UNCHANGED <<resolved, settled, clawed, settler, deaths>>

-----------------------------------------------------------------------------
(* withdraw                                                                *)

\* The commitment is read: it exists and is not settled.
WithdrawCheck(c, k) ==
  /\ caller[c].pc = "idle"
  /\ k \in OpenKeys
  /\ caller' = [caller EXCEPT ![c] = [pc |-> "releasing", key |-> k]]
  /\ UNCHANGED <<resolved, committed, settled, clawed, settler, deaths>>

\* The release, or nothing when someone settled it first.
WithdrawInsert(c) ==
  LET k == caller[c].key IN
  /\ caller[c].pc = "releasing"
  /\ settled' = SettleOnce(k, By[k], "withdrawn")
  /\ caller' = [caller EXCEPT ![c] = NoCall]
  /\ UNCHANGED <<resolved, committed, clawed, settler, deaths>>

\* The client goes away between two steps.
CallDies(c) ==
  /\ caller[c].pc # "idle"
  /\ caller' = [caller EXCEPT ![c] = NoCall]
  /\ UNCHANGED <<resolved, committed, settled, clawed, settler, deaths>>

-----------------------------------------------------------------------------
(* Resolution and settlement                                               *)

\* A verified outcome sets goals.resolved_at (again), and commits.
Resolve(s, g) ==
  /\ settler[s].pc = "idle"
  /\ resolved' = resolved \cup {g}
  /\ settler' = [settler EXCEPT ![s] = [NoSettle EXCEPT !.pc = "due",
                                                        !.goal = g]]
  /\ UNCHANGED <<committed, settled, clawed, caller, deaths>>

\* settle_goal_bounties: who contributed the Procedure, if a person did, and
\* the open commitments on the Goal.
SettleList(s, solver) ==
  /\ settler[s].pc = "due"
  /\ settler' = [settler EXCEPT
       ![s].pc = "listed",
       ![s].solver = solver,
       ![s].todo = {k \in OpenKeys : On[k] = settler[s].goal}]
  /\ UNCHANGED <<resolved, committed, settled, clawed, caller, deaths>>

\* One commitment: paid to the solver, or back to the committer.
SettleOne(s, k) ==
  LET solver == settler[s].solver
      pay == solver # None /\ solver # By[k]
      why == IF pay THEN "resolved"
             ELSE IF solver # None THEN "self_dealing" ELSE "no_contributor"
  IN
  /\ settler[s].pc = "listed" /\ k \in settler[s].todo
  /\ settled' = SettleOnce(k, IF pay THEN solver ELSE By[k], why)
  /\ settler' = [settler EXCEPT ![s].todo = @ \ {k}]
  /\ UNCHANGED <<resolved, committed, clawed, caller, deaths>>

\* mutant: the settlement stops after its first commitment
SettleFirst(s) ==
  /\ settler[s].pc = "listed"
  /\ settler' = [settler EXCEPT ![s] = NoSettle]
  /\ UNCHANGED <<resolved, committed, settled, clawed, caller, deaths>>

SettleEnds(s) ==
  /\ settler[s].pc = "listed" /\ settler[s].todo = {}
  /\ settler' = [settler EXCEPT ![s] = NoSettle]
  /\ UNCHANGED <<resolved, committed, settled, clawed, caller, deaths>>

\* The process dies after the resolution, or an INSERT raises and the rest
\* of the settlement is skipped ("bounty settlement failed").
SettleDies(s) ==
  /\ settler[s].pc # "idle"
  /\ deaths < MaxDeaths
  /\ settler' = [settler EXCEPT ![s] = NoSettle]
  /\ deaths' = deaths + 1
  /\ UNCHANGED <<resolved, committed, settled, clawed, caller>>

\* mutant: any row can be clawed back
ClawbackAny(e) ==
  /\ \E k \in committed :
       clawed' = clawed \cup {[key |-> k, to |-> By[k], why |-> "clawback"]}
  /\ UNCHANGED <<resolved, committed, settled, caller, settler, deaths>>

\* An administrator claws a settlement back, once (a commitment itself cannot
\* be: a clawback row is negative).
Clawback(e) ==
  /\ e \in settled \ clawed
  /\ clawed' = clawed \cup {e}
  /\ UNCHANGED <<resolved, committed, settled, caller, settler, deaths>>

-----------------------------------------------------------------------------

CallerStep(c) ==
  \/ \E k \in Keys : CommitCheck(c, k) \/ WithdrawCheck(c, k)
  \/ CommitCount(c) \/ CommitInsert(c) \/ WithdrawInsert(c) \/ CallDies(c)

SettlerStep(s) ==
  \/ \E g \in Goals : Resolve(s, g)
  \/ \E solver \in Contributors \cup {None} : SettleList(s, solver)
  \/ \E k \in Keys : SettleOne(s, k)
  \/ SettleEnds(s)
  \/ SettleDies(s)

Next ==
  \/ \E c \in Callers : CallerStep(c)
  \/ \E s \in Settlers : SettlerStep(s)
  \/ \E e \in settled : Clawback(e)

\* A settlement that has begun goes on until it ends or dies.
Fairness ==
  \A s \in Settlers :
    WF_vars((\E solver \in Contributors \cup {None} : SettleList(s, solver))
              \/ (\E k \in Keys : SettleOne(s, k)) \/ SettleEnds(s))

Spec == Init /\ [][Next]_vars
FairSpec == Spec /\ Fairness

-----------------------------------------------------------------------------
(* Properties                                                              *)

\* Exactly once: however withdrawals, settlements, replays and clawbacks
\* race, a commitment has at most one settlement row, and only if it exists.
SettledOnce ==
  /\ SettledKeys \subseteq committed
  /\ \A e, f \in settled : e.key = f.key => e = f

\* Nobody commits Credits they do not have, with calls of one contributor
\* racing: leaving clawbacks aside no balance is ever negative.
NeverOverdrawn == \A c \in Contributors : Gross(c) >= 0

\* "A lost call is repaired by the next resolution of the Goal": if a Goal is
\* resolved again and again, every commitment on it, a late one and one whose
\* settlement died included, is settled in the end.
RepairedByReplay ==
  \A k \in Keys :
    []<>(\E s \in Settlers : settler[s].pc = "due" /\ settler[s].goal = On[k])
      => [](k \in committed => <>(k \in SettledKeys))
=============================================================================
