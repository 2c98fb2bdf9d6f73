------------------------------ MODULE Payments ------------------------------
(***************************************************************************)
(* From a captured payment to Credits in a wallet and a plan:              *)
(*                                                                         *)
(*   - the gateway's webhook (backend/app/mcp_server/billing_routes.py,    *)
(*     services/wallet.py) and its redeliveries, subscription charges      *)
(*     (services/subscriptions.py) included;                               *)
(*   - reconcile (services/billing_reconcile.py), which asks for payments  *)
(*     whose webhook never arrived;                                        *)
(*   - plans.activate, which both run: several transactions, each of them  *)
(*     idempotent, the entitlement row last.                               *)
(*                                                                         *)
(* Any number of them may work on one payment at a time, and each may stop *)
(* after any transaction.  Time is counted in periods of a plan; all       *)
(* payments are made in the first, the case in which renewals queue up.    *)
(* Orders are recorded before they can be paid and are constants; accounts *)
(* and teams that activate makes sure of are taken to exist.               *)
(***************************************************************************)
EXTENDS Integers, FiniteSets

CONSTANTS
  PaymentIds,   \* the gateway's payment ids; each has one webhook event
  Packs,        \* those for Credits alone: no plan
  Pilots,       \* those for the Pilot, one per buyer; the rest: a ladder plan
  Charges,      \* charges of a subscription, on no order of ours
  Accounts,     \* wallets: of people and of teams
  BuyerOf,      \* [PaymentIds -> Accounts]
  WalletOf,     \* [PaymentIds -> Accounts], the buyer's or the new team's
  Credit,       \* [PaymentIds -> Nat], what it adds to the wallet
  Handlers,     \* webhook requests and reconcile passes in flight
  NoPayment

ASSUME PaymentsAssumption ==
  /\ Packs \subseteq PaymentIds
  /\ Pilots \subseteq PaymentIds \ Packs
  /\ Charges \subseteq PaymentIds \ (Packs \cup Pilots)
  /\ BuyerOf \in [PaymentIds -> Accounts]
  /\ WalletOf \in [PaymentIds -> Accounts]
  /\ Credit \in [PaymentIds -> Nat \ {0}]
  /\ NoPayment \notin PaymentIds

VARIABLES
  captured,  \* payments the gateway has taken
  credits,   \* per payment, its org_wallet_credits rows
  entitled,  \* payments with a plan_entitlements row
  starts,    \* when that plan's period starts
  seen,      \* payments whose event is in billing_webhook_events
  acked,     \* payments whose event was answered 200
  handler    \* each handler: where it is, its payment, the start it computed

payVars == <<captured, credits, entitled, starts, seen, acked, handler>>

Rest == [pc |-> "idle", pay |-> NoPayment, hook |-> FALSE, start |-> 0]

PaymentsTypeOK ==
  /\ captured \subseteq PaymentIds
  /\ credits \in [PaymentIds -> Nat]
  /\ entitled \subseteq PaymentIds \ Packs
  /\ starts \in [PaymentIds -> Nat]
  /\ seen \subseteq PaymentIds /\ acked \subseteq PaymentIds
  /\ handler \in [Handlers -> [pc : {"idle", "due", "credit", "entitle", "reply"},
                               pay : PaymentIds \cup {NoPayment},
                               hook : BOOLEAN, start : Nat]]
  /\ \A h \in Handlers : handler[h].pc # "idle" => handler[h].pay \in captured

PaymentsInit ==
  /\ captured = {} /\ entitled = {} /\ seen = {} /\ acked = {}
  /\ credits = [p \in PaymentIds |-> 0]
  /\ starts = [p \in PaymentIds |-> 0]
  /\ handler = [h \in Handlers |-> Rest]

-----------------------------------------------------------------------------
(* The gateway                                                             *)

\* The gateway takes the money, for an order or a mandate.
Capture(p) ==
  /\ p \notin captured
  /\ captured' = captured \cup {p}
  /\ UNCHANGED <<credits, entitled, starts, seen, acked, handler>>

\* mutant: the event is marked when it arrives
DeliverMarked(h, p) ==
  /\ p \in captured \ acked /\ p \notin seen
  /\ handler[h].pc = "idle"
  /\ seen' = seen \cup {p}
  /\ handler' = [handler EXCEPT ![h] = [Rest EXCEPT !.pc = "due", !.pay = p,
                                                    !.hook = TRUE]]
  /\ UNCHANGED <<captured, credits, entitled, starts, acked>>

\* The webhook is called, again and again until it has answered 200; an event
\* that is not marked as processed is worked on (event_seen).  A payment may
\* have a second event with an id of its own (order.paid beside
\* payment.captured, subscription.authenticated beside charged): what that adds,
\* another handler at work on the payment, a second delivery of the one event
\* and Reconcile add as well.
Deliver(h, p) ==
  /\ p \in captured \ acked /\ p \notin seen
  /\ handler[h].pc = "idle"
  /\ handler' = [handler EXCEPT ![h] = [Rest EXCEPT !.pc = "due", !.pay = p,
                                                    !.hook = TRUE]]
  /\ UNCHANGED <<captured, credits, entitled, starts, seen, acked>>

\* A redelivery of work already done is acknowledged.
Redeliver(p) ==
  /\ p \in captured \ acked /\ p \in seen
  /\ acked' = acked \cup {p}
  /\ UNCHANGED <<captured, credits, entitled, starts, seen, handler>>

\* mutant: an order is taken for a payment
ReconcileUnpaid(h, p) ==
  /\ p \notin Charges /\ p \notin entitled
  /\ handler[h].pc = "idle"
  /\ handler' = [handler EXCEPT ![h] = [Rest EXCEPT !.pc = "due", !.pay = p]]
  /\ UNCHANGED <<captured, credits, entitled, starts, seen, acked>>

\* reconcile finds a captured payment on an order of ours without a plan.
Reconcile(h, p) ==
  /\ p \in captured \ Charges /\ p \notin entitled
  /\ handler[h].pc = "idle"
  /\ handler' = [handler EXCEPT ![h] = [Rest EXCEPT !.pc = "due", !.pay = p]]
  /\ UNCHANGED <<captured, credits, entitled, starts, seen, acked>>

-----------------------------------------------------------------------------
(* credit_payment and plans.activate                                       *)

At(h, pc) == handler[h].pc = pc
Goes(h, pc) == handler' = [handler EXCEPT ![h].pc = pc]

\* mutant: no unique payment_ref
AddCreditAgain(p) == credits' = [credits EXCEPT ![p] = @ + 1]

\* A wallet row: INSERT ... ON CONFLICT (payment_ref) DO NOTHING.
AddCredit(p) == credits' = [credits EXCEPT ![p] = 1]

\* One buyer's payments for the Pilot, or for a plan of the ladder: the code
\* tells those plans apart, the payments here are for one of them.
SamePlan(p, q) ==
  /\ BuyerOf[p] = BuyerOf[q]
  /\ p \in Pilots <=> q \in Pilots

\* period_end: a period starts at once, or when the last of the plan ends.
PeriodStarts(p) ==
  LET times == {0} \cup {starts[q] + 1 : q \in {r \in entitled : SamePlan(p, r)}}
  IN {t \in times : \A u \in times : u <= t}

\* activate: a plan already started is nothing to do; otherwise the period is
\* computed from what is there now.
CheckPlan(h) ==
  LET p == handler[h].pay IN
  /\ At(h, "due") /\ p \notin Packs
  /\ \/ /\ p \in entitled
        /\ Goes(h, "reply")
     \/ /\ p \notin entitled
        /\ \E t \in PeriodStarts(p) :
             handler' = [handler EXCEPT ![h].pc = "credit", ![h].start = t]
  /\ UNCHANGED <<captured, credits, entitled, starts, seen, acked>>

\* credit_payment: all that a pack needs.
CreditPack(h) ==
  /\ At(h, "due") /\ handler[h].pay \in Packs
  /\ AddCredit(handler[h].pay)
  /\ Goes(h, "reply")
  /\ UNCHANGED <<captured, entitled, starts, seen, acked>>

\* mutant: a plan's usage is credited after its entitlement
CreditLater(h) ==
  /\ At(h, "credit")
  /\ Goes(h, "entitle")
  /\ UNCHANGED <<captured, credits, entitled, starts, seen, acked>>

\* activate: the usage that comes with the plan.
CreditIncluded(h) ==
  /\ At(h, "credit")
  /\ AddCredit(handler[h].pay)
  /\ Goes(h, "entitle")
  /\ UNCHANGED <<captured, entitled, starts, seen, acked>>

\* The unique indexes on payment_ref and on the buyers of a Pilot.
Refused(p) ==
  \/ p \in entitled
  \/ p \in Pilots /\ \E q \in entitled : SamePlan(p, q)

\* activate: INSERT the entitlement ... ON CONFLICT DO NOTHING.
Entitle(h) ==
  LET p == handler[h].pay IN
  /\ At(h, "entitle")
  /\ IF Refused(p) THEN UNCHANGED <<entitled, starts>>
     ELSE /\ entitled' = entitled \cup {p}
          /\ starts' = [starts EXCEPT ![p] = handler[h].start]
  /\ handler' = [handler EXCEPT ![h].pc = "reply", ![h].start = 0]
  /\ UNCHANGED <<captured, credits, seen, acked>>

\* mark_event, whose failure is swallowed, and the answer 200, which may be
\* lost; reconcile has neither.
Reply(h, marked, answered) ==
  LET p == handler[h].pay IN
  /\ At(h, "reply")
  /\ seen' = IF handler[h].hook /\ marked THEN seen \cup {p} ELSE seen
  /\ acked' = IF handler[h].hook /\ answered THEN acked \cup {p} ELSE acked
  /\ handler' = [handler EXCEPT ![h] = Rest]
  /\ UNCHANGED <<captured, credits, entitled, starts>>

\* The process dies, or a statement raises: 500, and the gateway calls again.
HandlerFails(h) ==
  /\ ~ At(h, "idle")
  /\ handler' = [handler EXCEPT ![h] = Rest]
  /\ UNCHANGED <<captured, credits, entitled, starts, seen, acked>>

-----------------------------------------------------------------------------

HandlerStep(h) ==
  \/ CheckPlan(h) \/ CreditPack(h) \/ CreditIncluded(h) \/ Entitle(h)
  \/ \E marked, answered \in BOOLEAN : Reply(h, marked, answered)

PaymentsNext ==
  \/ \E p \in PaymentIds : Capture(p) \/ Redeliver(p)
  \/ \E h \in Handlers, p \in PaymentIds : Deliver(h, p) \/ Reconcile(h, p)
  \/ \E h \in Handlers : HandlerStep(h) \/ HandlerFails(h)

PaymentsSpec == PaymentsInit /\ [][PaymentsNext]_payVars

-----------------------------------------------------------------------------
(* Properties                                                              *)

\* Wherever a handler dies, and whichever of two takes over: there is no plan
\* without the usage it includes ("the entitlement row written LAST").
PlanAfterCredit == \A p \in entitled : credits[p] > 0

\* "A renewal starts when the current period ends, so a person never loses days
\* by renewing early": no two payments buy the same period of a plan.
PeriodsApart ==
  \A p, q \in entitled :
    p # q /\ SamePlan(p, q) => starts[p] # starts[q]

\* What a payment buys is there; a second Pilot of one buyer is left to people.
Honoured(p) ==
  /\ credits[p] > 0
  /\ \/ p \in Packs \cup entitled
     \/ p \in Pilots /\ \E q \in entitled : SamePlan(p, q)

\* "Only AFTER its work succeeded, so a failed delivery is retried": a payment
\* whose event is marked or answered 200, so that the gateway never calls
\* again, has been honoured, whoever died or overtook whom on the way.
AckedIsHonoured == \A p \in seen \cup acked : Honoured(p)
=============================================================================
