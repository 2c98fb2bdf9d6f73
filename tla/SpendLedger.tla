----------------------------- MODULE SpendLedger -----------------------------
(***************************************************************************)
(* Governed provider calls and the ledger they spend from                  *)
(* (backend/app/services/org_governance.py, migration 136; callers in      *)
(* providers/service.py and providers/chat.py), together with the payments *)
(* that fill the prepaid wallet the ledger is checked against.             *)
(*                                                                         *)
(* A call holds its worst case, is sent, and settles what it cost or, if   *)
(* it raised, lets the hold go.  Callers die in between; the sweeper       *)
(* closes what looks abandoned, and may do so under a slow call's feet.    *)
(* The model covers one month and one day; failing over to another         *)
(* endpoint is another call.                                               *)
(***************************************************************************)
EXTENDS Payments, FiniteSetsExt

CONSTANTS
  Calls,      \* provider calls
  Actors,
  ActorOf,    \* [Calls -> Actors]
  AccountOf,  \* [Calls -> Accounts], who pays
  Worst,      \* [Calls -> Nat], the worst case that is held
  Costs,      \* what a call may cost; a provider may exceed the worst case
  Prepaid,    \* accounts with wallet_required
  Monthly,    \* [Accounts -> Nat], budget of an account
  Daily       \* [Accounts -> Nat], budget of each of its actors

ASSUME SpendLedgerAssumption ==
  /\ IsFiniteSet(Calls) /\ IsFiniteSet(PaymentIds)
  /\ ActorOf \in [Calls -> Actors] /\ AccountOf \in [Calls -> Accounts]
  /\ Worst \in [Calls -> Nat] /\ Costs \subseteq Nat \ {0}
  /\ Prepaid \subseteq Accounts
  /\ Monthly \in [Accounts -> Nat] /\ Daily \in [Accounts -> Nat]

VARIABLES
  ledger,  \* the provider_call_ledger rows
  call     \* each call: where it is, what the provider charged for it

spendVars == <<ledger, call>>
vars == <<payVars, spendVars>>

TypeOK ==
  /\ PaymentsTypeOK
  /\ ledger \in [Calls -> [status : {"none", "reserved", "settled", "failed"},
                           cost : Nat]]
  /\ call \in [Calls -> [pc : {"idle", "checked", "sent", "answered", "raised",
                               "over", "dead"},
                         bill : Nat]]

Init ==
  /\ PaymentsInit
  /\ ledger = [c \in Calls |-> [status |-> "none", cost |-> 0]]
  /\ call = [c \in Calls |-> [pc |-> "idle", bill |-> 0]]

-----------------------------------------------------------------------------
(* reserve_call                                                            *)

\* What a row counts for: its cost, or the worst case it still holds.
Held(c) ==
  CASE ledger[c].status = "settled"  -> ledger[c].cost
    [] ledger[c].status = "reserved" -> Worst[c]
    [] OTHER                         -> 0

SpentBy(S) == SumFunctionOnSet([c \in Calls |-> Held(c)], S)
CallsOf(a) == {c \in Calls : AccountOf[c] = a}
PaymentsTo(a) == {p \in PaymentIds : WalletOf[p] = a}
Bought(a) ==
  SumFunctionOnSet([p \in PaymentIds |-> credits[p] * Credit[p]], PaymentsTo(a))

\* The month's budget, the actor's budget of the day, the wallet.
Affordable(c) ==
  LET a == AccountOf[c] IN
  /\ Monthly[a] > 0 /\ Daily[a] > 0
  /\ SpentBy(CallsOf(a)) + Worst[c] <= Monthly[a]
  /\ SpentBy({d \in CallsOf(a) : ActorOf[d] = ActorOf[c]}) + Worst[c] <= Daily[a]
  /\ a \in Prepaid => Bought(a) - SpentBy(CallsOf(a)) >= Worst[c]

\* mutant: the policy row is read without FOR UPDATE
ReserveUnlocked(c) ==
  /\ call[c].pc = "idle"
  /\ Affordable(c)
  /\ call' = [call EXCEPT ![c].pc = "checked"]
  /\ UNCHANGED <<payVars, ledger>>

\* SELECT ... FOR UPDATE on the account's policy row, held to the commit; then
\* the sums, a SELECT each but one step here: under the lock no row is added,
\* payments only add, and what settles meanwhile is counted at its worst case
\* by the SELECTs before and at its cost after.  A refused call is not sent.
Reserve(c) ==
  /\ call[c].pc = "idle"
  /\ \A d \in CallsOf(AccountOf[c]) : call[d].pc # "checked"
  /\ Affordable(c)
  /\ call' = [call EXCEPT ![c].pc = "checked"]
  /\ UNCHANGED <<payVars, ledger>>

\* INSERT the reserved row and commit: the call may be sent.
Hold(c) ==
  /\ call[c].pc = "checked"
  /\ ledger' = [ledger EXCEPT ![c].status = "reserved"]
  /\ call' = [call EXCEPT ![c].pc = "sent"]
  /\ UNCHANGED payVars

-----------------------------------------------------------------------------
(* The call                                                                *)

\* The provider answers, and charges.
Answer(c, cost) ==
  /\ call[c].pc = "sent"
  /\ call' = [call EXCEPT ![c] = [pc |-> "answered", bill |-> cost]]
  /\ UNCHANGED <<payVars, ledger>>

\* A row leaves 'reserved' once: WHERE status = 'reserved', and the trigger.
Close(c, status, cost) ==
  IF ledger[c].status = "reserved"
  THEN [ledger EXCEPT ![c] = [status |-> status, cost |-> cost]] ELSE ledger

\* settle_call: the cost or, when the answer does not tell, the worst case.  When
\* the row is reserved no more it stays, and the result is withheld.
Settle(c, known) ==
  /\ call[c].pc = "answered"
  /\ ledger' = Close(c, "settled", IF known THEN call[c].bill ELSE Worst[c])
  /\ call' = [call EXCEPT ![c].pc = "over"]
  /\ UNCHANGED payVars

\* The call raised (refused, timed out, cancelled; a stream without a byte):
\* fail_call lets the hold go, whether the provider charged or not.
Raise(c, cost) ==
  /\ call[c].pc = "sent"
  /\ ledger' = Close(c, "failed", 0)
  /\ call' = [call EXCEPT ![c] = [pc |-> "raised", bill |-> cost]]
  /\ UNCHANGED payVars

\* The process dies in the middle; a request already sent may be charged.
Die(c, cost) ==
  /\ call[c].pc \in {"checked", "sent", "answered"}
  /\ cost > 0 => call[c].pc = "sent"
  /\ call' = [call EXCEPT ![c] = [pc |-> "dead", bill |-> @.bill + cost]]
  /\ UNCHANGED <<payVars, ledger>>

\* mutant: the sweeper fails what it finds
SweepFailed(a) ==
  /\ \E S \in SUBSET {c \in CallsOf(a) : ledger[c].status = "reserved"} :
       /\ S # {}
       /\ ledger' = [c \in Calls |-> IF c \in S THEN [status |-> "failed", cost |-> 0]
                                     ELSE ledger[c]]
  /\ UNCHANGED <<payVars, call>>

\* settle_abandoned: reservations that are old enough are settled at their
\* worst case, those of a call that is merely slow included.
Sweep(a) ==
  /\ \E S \in SUBSET {c \in CallsOf(a) : ledger[c].status = "reserved"} :
       /\ S # {}
       /\ ledger' = [c \in Calls |-> IF c \in S THEN [status |-> "settled",
                                                      cost |-> Worst[c]]
                                     ELSE ledger[c]]
  /\ UNCHANGED <<payVars, call>>

-----------------------------------------------------------------------------

CallStep(c) ==
  \/ Reserve(c) \/ Hold(c)
  \/ \E cost \in Costs : Answer(c, cost)
  \/ \E known \in BOOLEAN : Settle(c, known)
  \/ \E cost \in Costs \cup {0} : Raise(c, cost) \/ Die(c, cost)

Next ==
  \/ PaymentsNext /\ UNCHANGED spendVars
  \/ \E c \in Calls : CallStep(c)
  \/ \E a \in Accounts : Sweep(a)

Spec == Init /\ [][Next]_vars

-----------------------------------------------------------------------------
(* Properties                                                              *)

\* What a row counts for within its worst case: a provider that reports more
\* is charged for more, but no check could have foreseen it.
Foreseen(c) == IF Held(c) <= Worst[c] THEN Held(c) ELSE Worst[c]
ForeseenBy(S) == SumFunctionOnSet([c \in Calls |-> Foreseen(c)], S)

\* Concurrent calls, sweeps and failures never take an account past its
\* month's budget, or an actor past the day's.
WithinBudgets ==
  \A a \in Accounts :
    /\ ForeseenBy(CallsOf(a)) <= Monthly[a]
    /\ \A actor \in Actors :
         ForeseenBy({c \in CallsOf(a) : ActorOf[c] = actor}) <= Daily[a]

\* Nobody spends what was not paid: with webhooks, redeliveries and reconcile
\* crediting one payment at a time, a prepaid account's calls never hold or
\* cost more than the payments the gateway took for it.
PaidBefore ==
  \A a \in Prepaid :
    ForeseenBy(CallsOf(a)) <= SumFunctionOnSet(Credit, captured \cap PaymentsTo(a))

\* "Budgets never under-count": what the provider charged for is held, or
\* settled at what it cost (at most the worst case), whoever settles it and
\* whoever died; only a call that raised is let go.
NeverUndercounted ==
  \A c \in Calls :
    call[c].bill > 0 /\ call[c].pc # "raised" =>
      \/ ledger[c].status = "reserved"
      \/ /\ ledger[c].status = "settled"
         /\ ledger[c].cost >= call[c].bill \/ ledger[c].cost >= Worst[c]
=============================================================================
