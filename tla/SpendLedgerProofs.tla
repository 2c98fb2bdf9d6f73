-------------------------- MODULE SpendLedgerProofs --------------------------
(***************************************************************************)
(* Proofs about SpendLedger, and the payments it spends, for any calls,    *)
(* accounts, payments, plans, handlers and prices.                         *)
(*                                                                         *)
(* Payments.  The strengthening says what each handler knows where it is:  *)
(* usage is credited before it writes the entitlement, what was paid is    *)
(* there before it answers (HandlersSound).                                *)
(*                                                                         *)
(* Ledger.  It leaves the payments alone, so that Spec implements          *)
(* PaymentsSpec and keeps its properties.  CallsCovered is the             *)
(* strengthening: from the moment a call is sent until it is settled or    *)
(* raises, its row is reserved or settled at its worst case.               *)
(*                                                                         *)
(* Budgets.  A call that has passed the checks and has not inserted its    *)
(* row is in no sum of the ledger: PledgesFit counts its worst case all    *)
(* the same.  Only Reserve raises a pledge, and under the lock what it has *)
(* summed up is all there is.                                              *)
(***************************************************************************)
EXTENDS SpendLedger, SumProofs

-----------------------------------------------------------------------------
(* Payments                                                                *)

HandlerRows == [pc : {"idle", "due", "credit", "entitle", "reply"},
                pay : PaymentIds \cup {NoPayment},
                hook : BOOLEAN, start : Nat]

Activating == {"credit", "entitle"}

\* Honoured after the step.
HonouredThen(p) ==
  /\ credits'[p] > 0
  /\ \/ p \in Packs \cup entitled'
     \/ p \in Pilots /\ \E q \in entitled' : SamePlan(p, q)

HandlersSound ==
  \A h \in Handlers :
    /\ handler[h].pc \in Activating => handler[h].pay \notin Packs
    /\ handler[h].pc = "entitle" => credits[handler[h].pay] > 0
    /\ handler[h].pc = "reply" => Honoured(handler[h].pay)

PayInv ==
  /\ PaymentsTypeOK /\ HandlersSound /\ PlanAfterCredit /\ AckedIsHonoured

-----------------------------------------------------------------------------
(* What steps keep                                                         *)

LEMMA HandlerTyped ==
  ASSUME PayInv, NEW h \in Handlers
  PROVE  /\ handler \in [Handlers -> HandlerRows]
         /\ handler[h].pc \in {"idle", "due", "credit", "entitle", "reply"}
         /\ handler[h].pc # "idle" => /\ handler[h].pay \in captured
                                      /\ handler[h].pay \in PaymentIds
BY DEF PayInv, PaymentsTypeOK, HandlerRows

\* What is honoured stays so: credits and entitlements are never taken away.
LEMMA HonouredStays ==
  ASSUME PayInv, credits' \in [PaymentIds -> Nat],
         \A p \in PaymentIds : credits[p] > 0 => credits'[p] > 0,
         entitled \subseteq entitled', NEW p \in PaymentIds, Honoured(p)
  PROVE  HonouredThen(p)
BY DEF Honoured, HonouredThen, SamePlan

\* A step of one handler that writes no entitlement keeps the invariant, if
\* what the handler knows afterwards is right.
LEMMA HandlerMoves ==
  ASSUME PayInv, NEW h \in Handlers, NEW row \in HandlerRows,
         handler' = [handler EXCEPT ![h] = row],
         UNCHANGED <<captured, entitled, starts>>,
         credits' \in [PaymentIds -> Nat],
         \A p \in PaymentIds : credits[p] > 0 => credits'[p] > 0,
         row.pc # "idle" => row.pay \in captured,
         row.pc \in Activating => row.pay \notin Packs,
         row.pc = "entitle" => credits'[row.pay] > 0,
         row.pc = "reply" => HonouredThen(row.pay),
         \A p \in (seen' \cup acked') \ (seen \cup acked) :
           p \in PaymentIds /\ HonouredThen(p)
  PROVE  PayInv'
<1>1. \A g \in Handlers : handler'[g] = IF g = h THEN row ELSE handler[g]
  BY HandlerTyped
<1>2. \A p \in PaymentIds : Honoured(p) => HonouredThen(p) BY HonouredStays
<1>3. PaymentsTypeOK'
  <2>1. handler' \in [Handlers -> HandlerRows] BY HandlerTyped
  <2>2. \A g \in Handlers : handler'[g].pc # "idle" => handler'[g].pay \in captured'
    BY <1>1, HandlerTyped
  <2>3. seen' \subseteq PaymentIds /\ acked' \subseteq PaymentIds
    BY DEF PayInv, PaymentsTypeOK
  <2> QED BY <2>1, <2>2, <2>3 DEF PayInv, PaymentsTypeOK, HandlerRows
<1>4. HandlersSound'
  <2> SUFFICES ASSUME NEW g \in Handlers
               PROVE  /\ handler'[g].pc \in Activating => handler'[g].pay \notin Packs
                      /\ handler'[g].pc = "entitle" => credits'[handler'[g].pay] > 0
                      /\ handler'[g].pc = "reply" => HonouredThen(handler'[g].pay)
    BY DEF HandlersSound, Honoured, HonouredThen, SamePlan, Activating
  <2>1. CASE g = h BY <1>1, <2>1
  <2>2. CASE g # h
    <3>1. handler'[g] = handler[g] BY <1>1, <2>2
    <3>2. /\ handler[g].pc \in Activating => handler[g].pay \notin Packs
          /\ handler[g].pc = "entitle" => credits[handler[g].pay] > 0
          /\ handler[g].pc = "reply" => Honoured(handler[g].pay)
      BY DEF PayInv, HandlersSound
    <3>3. handler[g].pc # "idle" => handler[g].pay \in PaymentIds BY HandlerTyped
    <3> QED BY <1>2, <3>1, <3>2, <3>3
  <2> QED BY <2>1, <2>2
<1>5. PlanAfterCredit' BY DEF PayInv, PaymentsTypeOK, PlanAfterCredit
<1>6. AckedIsHonoured' BY <1>2
  DEF PayInv, PaymentsTypeOK, AckedIsHonoured, Honoured, HonouredThen, SamePlan
<1> QED BY <1>3, <1>4, <1>5, <1>6 DEF PayInv

-----------------------------------------------------------------------------
(* Steps                                                                   *)

LEMMA CaptureKeeps ==
  ASSUME PayInv, NEW p \in PaymentIds, Capture(p) PROVE PayInv'
<1>1. PaymentsTypeOK' BY DEF PayInv, PaymentsTypeOK, Capture
<1> QED BY <1>1 DEF PayInv, Capture, HandlersSound,
                   PlanAfterCredit, AckedIsHonoured, Honoured, SamePlan

LEMMA RedeliverKeeps ==
  ASSUME PayInv, NEW p \in PaymentIds, Redeliver(p) PROVE PayInv'
<1>1. PaymentsTypeOK' BY DEF PayInv, PaymentsTypeOK, Redeliver
<1>2. AckedIsHonoured'
  BY DEF PayInv, PaymentsTypeOK, Redeliver, AckedIsHonoured, Honoured, SamePlan
<1> QED BY <1>1, <1>2
        DEF PayInv, Redeliver, HandlersSound, PlanAfterCredit, Honoured, SamePlan

\* A handler takes a payment on.
LEMMA StartKeeps ==
  ASSUME PayInv, NEW h \in Handlers, NEW p \in PaymentIds,
         Deliver(h, p) \/ Reconcile(h, p)
  PROVE  PayInv'
<1>1. PICK row \in HandlerRows :
        /\ row.pc = "due" /\ row.pay = p
        /\ handler' = [handler EXCEPT ![h] = row]
  BY DEF Deliver, Reconcile, Rest, HandlerRows
<1>2. /\ UNCHANGED <<captured, credits, entitled, starts, seen, acked>>
      /\ p \in captured
  BY DEF Deliver, Reconcile
<1>3. credits' \in [PaymentIds -> Nat]
  BY <1>2 DEF PayInv, PaymentsTypeOK
<1> QED BY <1>1, <1>2, <1>3, HandlerMoves DEF Activating

\* It rests again.
LEMMA RestKeeps ==
  ASSUME PayInv, NEW h \in Handlers, HandlerFails(h)
  PROVE  PayInv'
<1>1. Rest \in HandlerRows /\ Rest.pc = "idle" BY DEF Rest, HandlerRows
<1>2. credits' \in [PaymentIds -> Nat]
  BY DEF HandlerFails, PayInv, PaymentsTypeOK
<1> QED BY <1>1, <1>2, HandlerMoves DEF HandlerFails, Activating

LEMMA ReplyKeeps ==
  ASSUME PayInv, NEW h \in Handlers, NEW marked \in BOOLEAN,
         NEW answered \in BOOLEAN, Reply(h, marked, answered)
  PROVE  PayInv'
<1> DEFINE p == handler[h].pay
<1>1. Rest \in HandlerRows /\ Rest.pc = "idle" BY DEF Rest, HandlerRows
<1>2. /\ UNCHANGED <<captured, credits, entitled, starts>>
      /\ handler' = [handler EXCEPT ![h] = Rest]
  BY DEF Reply
<1>3. credits' \in [PaymentIds -> Nat]
  BY <1>2 DEF PayInv, PaymentsTypeOK
<1>4. p \in PaymentIds /\ Honoured(p)
  BY HandlerTyped DEF Reply, At, PayInv, HandlersSound
<1>5. HonouredThen(p) BY <1>2, <1>3, <1>4, HonouredStays
<1>6. \A q \in (seen' \cup acked') \ (seen \cup acked) : q = p BY DEF Reply
<1> HIDE DEF p
<1> QED BY <1>1, <1>2, <1>3, <1>4, <1>5, <1>6, HandlerMoves DEF Activating

\* The usage of a pack or a plan is credited.
LEMMA CreditKeeps ==
  ASSUME PayInv, NEW h \in Handlers, CreditPack(h) \/ CreditIncluded(h)
  PROVE  PayInv'
<1> DEFINE p == handler[h].pay
<1>1. p \in PaymentIds /\ p \in captured
  BY HandlerTyped DEF CreditPack, CreditIncluded, At
<1>2. /\ credits' \in [PaymentIds -> Nat] /\ credits'[p] > 0
      /\ \A q \in PaymentIds : credits[q] > 0 => credits'[q] > 0
  BY <1>1 DEF CreditPack, CreditIncluded, AddCredit, PayInv, PaymentsTypeOK
<1>3. UNCHANGED <<captured, entitled, starts, seen, acked>>
  BY DEF CreditPack, CreditIncluded
<1>4. CASE CreditPack(h)
  <2> DEFINE row == [handler[h] EXCEPT !.pc = "reply"]
  <2>1. row \in HandlerRows /\ row.pc = "reply" /\ row.pay = p
    BY HandlerTyped DEF HandlerRows
  <2>2. handler' = [handler EXCEPT ![h] = row] BY <1>4 DEF CreditPack, Goes
  <2>3. HonouredThen(row.pay) BY <1>2, <1>4, <2>1 DEF CreditPack, HonouredThen
  <2> HIDE DEF row, p
  <2> QED BY <1>1, <1>2, <1>3, <2>1, <2>2, <2>3, HandlerMoves DEF Activating
<1>5. CASE CreditIncluded(h)
  <2> DEFINE row == [handler[h] EXCEPT !.pc = "entitle"]
  <2>1. row \in HandlerRows /\ row.pc = "entitle" /\ row.pay = p
    BY HandlerTyped DEF HandlerRows
  <2>2. handler' = [handler EXCEPT ![h] = row] BY <1>5 DEF CreditIncluded, Goes
  <2>3. handler[h].pc \in Activating BY <1>5 DEF CreditIncluded, At, Activating
  <2>4. p \notin Packs BY <2>3 DEF PayInv, HandlersSound
  <2>5. \A q \in (seen' \cup acked') \ (seen \cup acked) :
          q \in PaymentIds /\ HonouredThen(q)
    BY <1>3
  <2> HIDE DEF row, p
  <2> QED BY <1>1, <1>2, <1>3, <2>1, <2>2, <2>4, <2>5, HandlerMoves
<1> QED BY <1>4, <1>5

\* The start is computed, or the plan has started already.
LEMMA CheckKeeps ==
  ASSUME PayInv, NEW h \in Handlers, CheckPlan(h)
  PROVE  PayInv'
<1> DEFINE p == handler[h].pay
<1>1. p \in PaymentIds /\ p \in captured /\ p \notin Packs
  BY HandlerTyped DEF CheckPlan, At
<1>2. /\ UNCHANGED <<captured, credits, entitled, starts, seen, acked>>
      /\ credits' \in [PaymentIds -> Nat]
  BY DEF CheckPlan, PayInv, PaymentsTypeOK
<1>3. CASE p \in entitled /\ Goes(h, "reply")
  <2> DEFINE row == [handler[h] EXCEPT !.pc = "reply"]
  <2>1. row \in HandlerRows /\ row.pc = "reply" /\ row.pay = p
    BY HandlerTyped DEF HandlerRows
  <2>2. handler' = [handler EXCEPT ![h] = row] BY <1>3 DEF Goes
  <2>3. HonouredThen(row.pay)
    BY <1>2, <1>3, <2>1 DEF PayInv, PlanAfterCredit, HonouredThen
  <2> HIDE DEF row, p
  <2> QED BY <1>1, <1>2, <2>1, <2>2, <2>3, HandlerMoves DEF Activating
<1>4. ASSUME NEW t \in PeriodStarts(p),
             handler' = [handler EXCEPT ![h].pc = "credit", ![h].start = t]
      PROVE  PayInv'
  <2> DEFINE row == [handler[h] EXCEPT !.pc = "credit", !.start = t]
  <2>1. t \in Nat
    <3>1. \A q \in entitled : starts[q] \in Nat BY DEF PayInv, PaymentsTypeOK
    <3> QED BY <3>1 DEF PeriodStarts
  <2>2. row \in HandlerRows /\ row.pc = "credit" /\ row.pay = p
    BY <2>1, HandlerTyped DEF HandlerRows
  <2>3. handler' = [handler EXCEPT ![h] = row] BY <1>4
  <2> HIDE DEF row, p
  <2> QED BY <1>1, <1>2, <2>2, <2>3, HandlerMoves
<1> QED BY <1>3, <1>4 DEF CheckPlan

\* The entitlement is written, or refused.
LEMMA EntitleKeeps ==
  ASSUME PayInv, NEW h \in Handlers, Entitle(h)
  PROVE  PayInv'
<1> DEFINE p == handler[h].pay
           row == [handler[h] EXCEPT !.pc = "reply", !.start = 0]
<1>1. /\ p \in PaymentIds /\ p \in captured /\ p \notin Packs
      /\ handler[h].pc = "entitle" /\ credits[p] > 0
  BY HandlerTyped DEF Entitle, At, PayInv, HandlersSound, Activating
<1>2. row \in HandlerRows /\ row.pc = "reply" /\ row.pay = p
  BY HandlerTyped DEF HandlerRows
<1>3. /\ handler' = [handler EXCEPT ![h] = row]
      /\ UNCHANGED <<captured, credits, seen, acked>>
  BY DEF Entitle
<1>4. credits' \in [PaymentIds -> Nat]
  BY <1>3 DEF PayInv, PaymentsTypeOK
<1>5. CASE Refused(p)
  <2>1. UNCHANGED <<entitled, starts>> BY <1>5 DEF Entitle
  <2>2. HonouredThen(row.pay)
    BY <1>1, <1>2, <1>3, <1>5, <2>1 DEF Refused, HonouredThen, SamePlan
  <2> HIDE DEF row, p
  <2> QED BY <1>1, <1>2, <1>3, <1>4, <2>1, <2>2, HandlerMoves DEF Activating
<1>6. CASE ~ Refused(p)
  <2>1. /\ entitled' = entitled \cup {p}
        /\ starts' = [starts EXCEPT ![p] = handler[h].start]
    BY <1>6 DEF Entitle
  <2>2. \A g \in Handlers : handler'[g] = IF g = h THEN row ELSE handler[g]
    BY <1>3, HandlerTyped
  <2>3. starts' \in [PaymentIds -> Nat]
    BY <1>1, <2>1, HandlerTyped DEF PayInv, PaymentsTypeOK, HandlerRows
  <2>4. \A q \in PaymentIds : Honoured(q) => HonouredThen(q)
    BY <1>3, <1>4, <2>1, HonouredStays
  <2>5. HonouredThen(p) BY <1>1, <1>3, <2>1 DEF HonouredThen
  <2>6. PaymentsTypeOK'
    <3>1. handler' \in [Handlers -> HandlerRows] BY <1>2, <1>3, HandlerTyped
    <3>2. \A g \in Handlers : handler'[g].pc # "idle" => handler'[g].pay \in captured'
      BY <1>1, <1>2, <1>3, <2>2, HandlerTyped
    <3>3. entitled' \subseteq PaymentIds \ Packs
      BY <1>1, <2>1 DEF PayInv, PaymentsTypeOK
    <3> QED BY <1>3, <1>4, <2>3, <3>1, <3>2, <3>3
            DEF PayInv, PaymentsTypeOK, HandlerRows
  <2>7. HandlersSound'
    <3> SUFFICES ASSUME NEW g \in Handlers
                 PROVE  /\ handler'[g].pc \in Activating => handler'[g].pay \notin Packs
                        /\ handler'[g].pc = "entitle" => credits'[handler'[g].pay] > 0
                        /\ handler'[g].pc = "reply" => HonouredThen(handler'[g].pay)
      BY DEF HandlersSound, Honoured, HonouredThen, SamePlan, Activating
    <3>1. CASE g = h BY <1>2, <2>2, <2>5, <3>1 DEF Activating
    <3>2. CASE g # h
      BY <1>3, <2>2, <2>4, <3>2, HandlerTyped DEF PayInv, HandlersSound
    <3> QED BY <3>1, <3>2
  <2> HIDE DEF row, p
  <2>8. PlanAfterCredit'
    BY <1>1, <1>3, <2>1 DEF PayInv, PlanAfterCredit
  <2>9. AckedIsHonoured'
    BY <1>3, <2>4 DEF PayInv, PaymentsTypeOK, AckedIsHonoured, Honoured,
                      HonouredThen, SamePlan
  <2> QED BY <2>6, <2>7, <2>8, <2>9 DEF PayInv
<1> QED BY <1>5, <1>6

\* The invariant holds.
LEMMA PayInvHolds == PaymentsSpec => []PayInv
<1>1. PaymentsInit => PayInv
  BY PaymentsAssumption
  DEF PaymentsInit, PayInv, PaymentsTypeOK, HandlersSound, PlanAfterCredit,
      AckedIsHonoured, Rest, Activating
<1>2. PayInv /\ [PaymentsNext]_payVars => PayInv'
  <2> SUFFICES ASSUME PayInv, [PaymentsNext]_payVars PROVE PayInv' OBVIOUS
  <2>1. ASSUME NEW p \in PaymentIds, Capture(p) \/ Redeliver(p) PROVE PayInv'
    BY <2>1, CaptureKeeps, RedeliverKeeps
  <2>2. ASSUME NEW h \in Handlers, NEW p \in PaymentIds,
               Deliver(h, p) \/ Reconcile(h, p)
        PROVE  PayInv'
    BY <2>2, StartKeeps
  <2>3. ASSUME NEW h \in Handlers, HandlerStep(h) \/ HandlerFails(h) PROVE PayInv'
    BY <2>3, CheckKeeps, CreditKeeps, EntitleKeeps, ReplyKeeps, RestKeeps
    DEF HandlerStep
  <2>4. CASE UNCHANGED payVars
    BY <2>4 DEF payVars, PayInv, PaymentsTypeOK, HandlersSound, PlanAfterCredit,
                AckedIsHonoured, Honoured, SamePlan
  <2> QED BY <2>1, <2>2, <2>3, <2>4 DEF PaymentsNext
<1> QED BY <1>1, <1>2, PTL DEF PaymentsSpec

\* Rows and handlers keep their types, and nobody works on a payment
\* that was not made.
THEOREM PaymentTypes == PaymentsSpec => []PaymentsTypeOK
BY PayInvHolds, PTL DEF PayInv

\* A plan has its usage, wherever and however often activate was cut short.
THEOREM PlansCredited == PaymentsSpec => []PlanAfterCredit
BY PayInvHolds, PTL DEF PayInv

\* The gateway stops calling only when what was paid is there.
THEOREM AlwaysHonoured == PaymentsSpec => []AckedIsHonoured
BY PayInvHolds, PTL DEF PayInv

-----------------------------------------------------------------------------
(* Ledger                                                                  *)

LedgerRows == [status : {"none", "reserved", "settled", "failed"}, cost : Nat]

CallRows == [pc : {"idle", "checked", "sent", "answered", "raised", "over", "dead"},
             bill : Nat]

SpendTypeOK == ledger \in [Calls -> LedgerRows] /\ call \in [Calls -> CallRows]

Covered(c) ==
  \/ ledger[c].status = "reserved"
  \/ ledger[c].status = "settled" /\ ledger[c].cost >= Worst[c]

\* What the ledger has on a call, by where the call is.
CallCovered(c) ==
  /\ call[c].pc \in {"idle", "checked"} =>
       ledger[c].status = "none" /\ call[c].bill = 0
  /\ call[c].pc = "sent" => call[c].bill = 0
  /\ call[c].pc \in {"sent", "answered"} => Covered(c)
  /\ call[c].pc = "dead" /\ call[c].bill > 0 => Covered(c)
  /\ call[c].pc = "over" =>
       \/ Covered(c)
       \/ ledger[c].status = "settled" /\ ledger[c].cost >= call[c].bill

CallsCovered == \A c \in Calls : CallCovered(c)

SpendInv == SpendTypeOK /\ CallsCovered

-----------------------------------------------------------------------------
(* One call at a time                                                      *)

LEMMA SpendTyped ==
  ASSUME SpendInv, NEW c \in Calls
  PROVE  /\ ledger[c] \in LedgerRows /\ call[c] \in CallRows
         /\ ledger[c].cost \in Nat /\ call[c].bill \in Nat /\ Worst[c] \in Nat
         /\ CallCovered(c)
BY SpendLedgerAssumption
DEF SpendInv, SpendTypeOK, CallsCovered, LedgerRows, CallRows

\* A step on one call keeps the invariant if it does so for that call.
LEMMA CallMoves ==
  ASSUME SpendInv, NEW c \in Calls, NEW lrow \in LedgerRows, NEW crow \in CallRows,
         ledger' = [ledger EXCEPT ![c] = lrow],
         call' = [call EXCEPT ![c] = crow],
         ledger'[c] = lrow /\ call'[c] = crow => CallCovered(c)'
  PROVE  SpendInv'
<1>1. SpendTypeOK' BY DEF SpendInv, SpendTypeOK
<1>2. ledger'[c] = lrow /\ call'[c] = crow BY DEF SpendInv, SpendTypeOK
<1>3. ASSUME NEW d \in Calls, d # c PROVE CallCovered(d)'
  <2>1. ledger'[d] = ledger[d] /\ call'[d] = call[d]
    BY <1>3 DEF SpendInv, SpendTypeOK
  <2> QED BY <2>1, SpendTyped DEF CallCovered, Covered
<1> QED BY <1>1, <1>2, <1>3 DEF SpendInv, CallsCovered

LEMMA CallKeeps ==
  ASSUME SpendInv, NEW c \in Calls, CallStep(c)
  PROVE  SpendInv'
<1>1. CASE Reserve(c)
  <2> DEFINE crow == [call[c] EXCEPT !.pc = "checked"]
  <2>1. /\ crow \in CallRows
        /\ crow.pc = "checked" /\ crow.bill = call[c].bill
    BY SpendTyped DEF CallRows
  <2>2. call' = [call EXCEPT ![c] = crow]
    BY <1>1 DEF Reserve, SpendInv, SpendTypeOK
  <2>3. ledger' = [ledger EXCEPT ![c] = ledger[c]] /\ call[c].pc = "idle"
    BY <1>1 DEF Reserve, SpendInv, SpendTypeOK
  <2>4. call'[c] = crow /\ ledger'[c] = ledger[c] => CallCovered(c)'
    BY <2>1, <2>3, SpendTyped DEF CallCovered, Covered
  <2> HIDE DEF crow
  <2> QED BY <2>1, <2>2, <2>3, <2>4, SpendTyped, CallMoves
<1>2. CASE Hold(c)
  <2> DEFINE crow == [call[c] EXCEPT !.pc = "sent"]
             lrow == [ledger[c] EXCEPT !.status = "reserved"]
  <2>1. /\ crow \in CallRows /\ lrow \in LedgerRows
        /\ crow.pc = "sent" /\ crow.bill = call[c].bill
        /\ lrow.status = "reserved"
    BY SpendTyped DEF CallRows, LedgerRows
  <2>2. call' = [call EXCEPT ![c] = crow]
    BY <1>2 DEF Hold, SpendInv, SpendTypeOK
  <2>3. ledger' = [ledger EXCEPT ![c] = lrow] /\ call[c].pc = "checked"
    BY <1>2 DEF Hold, SpendInv, SpendTypeOK
  <2>4. call'[c] = crow /\ ledger'[c] = lrow => CallCovered(c)'
    BY <2>1, <2>3, SpendTyped DEF CallCovered, Covered
  <2> HIDE DEF crow, lrow
  <2> QED BY <2>1, <2>2, <2>3, <2>4, CallMoves
<1>3. ASSUME NEW cost \in Costs, Answer(c, cost) PROVE SpendInv'
  <2> DEFINE crow == [pc |-> "answered", bill |-> cost]
  <2>1. crow \in CallRows BY SpendLedgerAssumption DEF CallRows
  <2>2. call' = [call EXCEPT ![c] = crow] BY <1>3 DEF Answer
  <2>3. ledger' = [ledger EXCEPT ![c] = ledger[c]] /\ call[c].pc = "sent"
    BY <1>3 DEF Answer, SpendInv, SpendTypeOK
  <2>4. call'[c] = crow /\ ledger'[c] = ledger[c] => CallCovered(c)'
    BY <2>3, SpendTyped DEF CallCovered, Covered
  <2> HIDE DEF crow
  <2> QED BY <2>1, <2>2, <2>3, <2>4, SpendTyped, CallMoves
<1>4. ASSUME NEW known \in BOOLEAN, Settle(c, known) PROVE SpendInv'
  <2> DEFINE crow == [call[c] EXCEPT !.pc = "over"]
             cost == IF known THEN call[c].bill ELSE Worst[c]
             lrow == IF ledger[c].status = "reserved"
                     THEN [status |-> "settled", cost |-> cost] ELSE ledger[c]
  <2>1. /\ crow \in CallRows /\ lrow \in LedgerRows
        /\ crow.pc = "over" /\ crow.bill = call[c].bill
    BY SpendTyped DEF CallRows, LedgerRows
  <2>2. call' = [call EXCEPT ![c] = crow]
    BY <1>4 DEF Settle, SpendInv, SpendTypeOK
  <2>3. ledger' = [ledger EXCEPT ![c] = lrow] /\ call[c].pc = "answered"
    BY <1>4 DEF Settle, Close, SpendInv, SpendTypeOK
  <2>4. call'[c] = crow /\ ledger'[c] = lrow => CallCovered(c)'
    BY <2>1, <2>3, SpendTyped DEF CallCovered, Covered
  <2> HIDE DEF crow, lrow
  <2> QED BY <2>1, <2>2, <2>3, <2>4, CallMoves
<1>5. ASSUME NEW cost \in Costs \cup {0}, Raise(c, cost) PROVE SpendInv'
  <2> DEFINE crow == [pc |-> "raised", bill |-> cost]
             lrow == IF ledger[c].status = "reserved"
                     THEN [status |-> "failed", cost |-> 0] ELSE ledger[c]
  <2>1. crow \in CallRows /\ lrow \in LedgerRows
    BY SpendTyped, SpendLedgerAssumption DEF CallRows, LedgerRows
  <2>2. call' = [call EXCEPT ![c] = crow] BY <1>5 DEF Raise
  <2>3. ledger' = [ledger EXCEPT ![c] = lrow]
    BY <1>5 DEF Raise, Close, SpendInv, SpendTypeOK
  <2>4. call'[c] = crow /\ ledger'[c] = lrow => CallCovered(c)'
    BY DEF CallCovered, Covered
  <2> HIDE DEF crow, lrow
  <2> QED BY <2>1, <2>2, <2>3, <2>4, CallMoves
<1>6. ASSUME NEW cost \in Costs \cup {0}, Die(c, cost) PROVE SpendInv'
  <2> DEFINE crow == [pc |-> "dead", bill |-> call[c].bill + cost]
  <2>1. cost \in Nat BY SpendLedgerAssumption
  <2>1a. crow \in CallRows BY <2>1, SpendTyped DEF CallRows
  <2>2. call' = [call EXCEPT ![c] = crow] BY <1>6 DEF Die, SpendInv, SpendTypeOK
  <2>3. /\ ledger' = [ledger EXCEPT ![c] = ledger[c]]
        /\ call[c].pc \in {"checked", "sent", "answered"}
        /\ cost > 0 => call[c].pc = "sent"
    BY <1>6 DEF Die, SpendInv, SpendTypeOK
  <2>4. call'[c] = crow /\ ledger'[c] = ledger[c] => CallCovered(c)'
    BY <2>1, <2>3, SpendTyped DEF CallCovered, Covered
  <2> HIDE DEF crow
  <2> QED BY <2>1a, <2>2, <2>3, <2>4, SpendTyped, CallMoves
<1> QED BY <1>1, <1>2, <1>3, <1>4, <1>5, <1>6 DEF CallStep

\* The sweeper settles rows at their worst case.
LEMMA SweepKeeps ==
  ASSUME SpendInv, NEW a \in Accounts, Sweep(a)
  PROVE  SpendInv'
<1>1. PICK S \in SUBSET {c \in CallsOf(a) : ledger[c].status = "reserved"} :
        ledger' = [c \in Calls |-> IF c \in S THEN [status |-> "settled",
                                                    cost |-> Worst[c]]
                                   ELSE ledger[c]]
  BY DEF Sweep
<1>2. UNCHANGED call BY DEF Sweep
<1>3. \A c \in Calls :
        /\ ledger'[c] \in LedgerRows
        /\ \/ /\ ledger'[c].status = "settled" /\ ledger'[c].cost = Worst[c]
              /\ ledger[c].status = "reserved"
           \/ ledger'[c] = ledger[c]
  BY <1>1, SpendTyped DEF LedgerRows
<1>4. SpendTypeOK' BY <1>1, <1>2, <1>3 DEF SpendInv, SpendTypeOK
<1>5. CallsCovered'
  <2> SUFFICES ASSUME NEW c \in Calls PROVE CallCovered(c)' BY DEF CallsCovered
  <2> QED BY <1>2, <1>3, SpendTyped DEF CallCovered, Covered
<1> QED BY <1>4, <1>5 DEF SpendInv

-----------------------------------------------------------------------------
(* Budgets                                                                 *)

\* A payment is credited once, and only when the gateway has taken it.
CreditedOnce ==
  \A p \in PaymentIds :
    credits[p] \in {0, 1} /\ (credits[p] > 0 => p \in captured)

LEMMA CreditedKept ==
  ASSUME PayInv, CreditedOnce, [PaymentsNext]_payVars
  PROVE  CreditedOnce'
<1>1. captured \subseteq captured'
  BY DEF PaymentsNext, payVars, Capture, Redeliver, Deliver, Reconcile, HandlerStep,
         CheckPlan, CreditPack, CreditIncluded, Entitle, Reply, HandlerFails
<1>2. CASE UNCHANGED credits BY <1>1, <1>2 DEF CreditedOnce
<1>3. CASE ~ UNCHANGED credits
  <2>1. PICK h \in Handlers : CreditPack(h) \/ CreditIncluded(h)
    BY <1>3
    DEF PaymentsNext, payVars, Capture, Redeliver, Deliver, Reconcile, HandlerStep,
        CheckPlan, Entitle, Reply, HandlerFails
  <2> DEFINE p == handler[h].pay
  <2>2. p \in captured /\ p \in PaymentIds
    BY <2>1, HandlerTyped DEF CreditPack, CreditIncluded, At
  <2>3. credits' = [credits EXCEPT ![p] = 1] /\ credits \in [PaymentIds -> Nat]
    BY <2>1 DEF CreditPack, CreditIncluded, AddCredit, PayInv, PaymentsTypeOK
  <2> HIDE DEF p
  <2> QED BY <1>1, <2>2, <2>3 DEF CreditedOnce
<1> QED BY <1>2, <1>3

\* What a call may come to: the worst case once it has passed the checks.
Pledge == [c \in Calls |-> IF call[c].pc = "checked" THEN Worst[c] ELSE Foreseen(c)]
PledgedBy(S) == SumFunctionOnSet(Pledge, S)

ActorsCalls(a, actor) == {c \in CallsOf(a) : ActorOf[c] = actor}
PaidTo(a) == SumFunctionOnSet(Credit, captured \cap PaymentsTo(a))

PledgesFit ==
  \A a \in Accounts :
    /\ PledgedBy(CallsOf(a)) <= Monthly[a]
    /\ \A actor \in Actors : PledgedBy(ActorsCalls(a, actor)) <= Daily[a]
    /\ a \in Prepaid => PledgedBy(CallsOf(a)) <= PaidTo(a)

\* One call: its pledge covers what its row counts for.
LEMMA PledgeIs ==
  ASSUME SpendInv, NEW c \in Calls
  PROVE  /\ Held(c) \in Nat /\ Foreseen(c) \in Nat /\ Worst[c] \in Nat
         /\ Pledge[c] \in Nat
         /\ Foreseen(c) <= Held(c) /\ Foreseen(c) <= Worst[c]
         /\ Foreseen(c) <= Pledge[c] /\ Pledge[c] <= Worst[c]
         /\ call[c].pc # "checked" => Pledge[c] = Foreseen(c)
         /\ call[c].pc = "checked" => Pledge[c] = Worst[c]
         /\ ledger[c].status = "none" => Foreseen(c) = 0
         /\ ledger[c].status = "reserved" => Pledge[c] = Worst[c]
<1>1. ledger[c].status \in {"none", "reserved", "settled", "failed"}
  BY SpendTyped DEF LedgerRows
<1>2. Held(c) \in Nat /\ Worst[c] \in Nat BY <1>1, SpendTyped DEF Held
<1>3. ledger[c].status = "none" => Held(c) = 0 BY DEF Held
<1>4. ledger[c].status = "reserved" => Held(c) = Worst[c] BY DEF Held
<1>5. Pledge[c] = IF call[c].pc = "checked" THEN Worst[c] ELSE Foreseen(c)
  BY DEF Pledge
<1>6. Foreseen(c) = IF Held(c) <= Worst[c] THEN Held(c) ELSE Worst[c]
  BY DEF Foreseen
<1> QED BY <1>2, <1>3, <1>4, <1>5, <1>6

\* The sums, of any of an account's calls.
LEMMA PledgesNat ==
  ASSUME SpendInv, NEW S \in SUBSET Calls
  PROVE  /\ IsFiniteSet(S)
         /\ PledgedBy(S) \in Nat /\ SpentBy(S) \in Nat /\ ForeseenBy(S) \in Nat
         /\ ForeseenBy(S) <= PledgedBy(S)
         /\ (\A c \in S : call[c].pc # "checked") => PledgedBy(S) <= SpentBy(S)
<1> DEFINE foreseen == [c \in Calls |-> Foreseen(c)]
           held == [c \in Calls |-> Held(c)]
<1>1. IsFiniteSet(S) BY FS_Subset, SpendLedgerAssumption
<1>2. \A c \in S : /\ Pledge[c] \in Nat /\ foreseen[c] \in Nat /\ held[c] \in Nat
                   /\ foreseen[c] <= Pledge[c]
                   /\ call[c].pc # "checked" => Pledge[c] <= held[c]
  BY PledgeIs
<1>3. SpentBy(S) = SumFunctionOnSet(held, S) BY DEF SpentBy
<1>4. ForeseenBy(S) = SumFunctionOnSet(foreseen, S) BY DEF ForeseenBy
<1> HIDE DEF foreseen, held
<1>5. /\ PledgedBy(S) \in Nat /\ SpentBy(S) \in Nat /\ ForeseenBy(S) \in Nat
  BY <1>1, <1>2, <1>3, <1>4, SumNat DEF PledgedBy
<1>6. ForeseenBy(S) <= PledgedBy(S)
  BY <1>1, <1>2, <1>4, SumMonotone DEF PledgedBy
<1>7. ASSUME \A c \in S : call[c].pc # "checked" PROVE PledgedBy(S) <= SpentBy(S)
  BY <1>1, <1>2, <1>3, <1>7, SumMonotone DEF PledgedBy
<1> QED BY <1>1, <1>5, <1>6, <1>7

\* What was paid only grows.
LEMMA PaidGrows ==
  ASSUME captured \subseteq captured', captured' \subseteq PaymentIds, NEW a
  PROVE  /\ PaidTo(a) \in Nat /\ PaidTo(a)' \in Nat
         /\ PaidTo(a) <= PaidTo(a)'
<1> DEFINE before == captured \cap PaymentsTo(a)
           after == captured' \cap PaymentsTo(a)
<1>1. before \in SUBSET after /\ after \subseteq PaymentIds OBVIOUS
<1>2. IsFiniteSet(after) /\ IsFiniteSet(before)
  BY <1>1, FS_Subset, SpendLedgerAssumption
<1>3. \A p \in after : Credit[p] \in Nat BY <1>1, PaymentsAssumption
<1>4. PaidTo(a) = SumFunctionOnSet(Credit, before) BY DEF PaidTo
<1>5. PaidTo(a)' = SumFunctionOnSet(Credit, after) BY DEF PaidTo, PaymentsTo
<1> HIDE DEF before, after
<1> QED BY <1>1, <1>2, <1>3, <1>4, <1>5, SumNat, SumMonotone

LEMMA PaidNat ==
  ASSUME captured \subseteq PaymentIds, NEW a
  PROVE  PaidTo(a) \in Nat
<1> DEFINE paid == captured \cap PaymentsTo(a)
<1>1. IsFiniteSet(paid) BY FS_Subset, SpendLedgerAssumption
<1>2. \A p \in paid : Credit[p] \in Nat BY PaymentsAssumption
<1>3. PaidTo(a) = SumFunctionOnSet(Credit, paid) BY DEF PaidTo
<1> HIDE DEF paid
<1> QED BY <1>1, <1>2, <1>3, SumNat

\* The wallet's rows never come to more.
LEMMA BoughtIsPaid ==
  ASSUME PaymentsTypeOK, CreditedOnce, NEW a
  PROVE  Bought(a) \in Nat /\ Bought(a) <= PaidTo(a)
<1> DEFINE rows == [p \in PaymentIds |-> credits[p] * Credit[p]]
           paid == captured \cap PaymentsTo(a)
<1>1. PaymentsTo(a) \subseteq PaymentIds /\ paid \subseteq PaymentIds
  BY DEF PaymentsTo
<1>2. IsFiniteSet(PaymentsTo(a)) /\ IsFiniteSet(paid)
  BY <1>1, FS_Subset, SpendLedgerAssumption
<1>3. ASSUME NEW p \in PaymentsTo(a)
      PROVE  /\ rows[p] \in Nat
             /\ rows[p] = 0 \/ (p \in paid /\ rows[p] <= Credit[p])
  <2>1. p \in PaymentIds /\ Credit[p] \in Nat BY <1>1, PaymentsAssumption
  <2>2. CASE credits[p] = 0
    <3>1. rows[p] = 0 * Credit[p] BY <2>1, <2>2
    <3> QED BY <2>1, <3>1
  <2>3. CASE credits[p] = 1
    <3>1. rows[p] = 1 * Credit[p] BY <2>1, <2>3
    <3>2. p \in captured BY <2>1, <2>3 DEF CreditedOnce
    <3> QED BY <2>1, <3>1, <3>2
  <2> QED BY <2>1, <2>2, <2>3 DEF CreditedOnce
<1>4. \A p \in paid : Credit[p] \in Nat BY <1>1, PaymentsAssumption
<1>5. Bought(a) = SumFunctionOnSet(rows, PaymentsTo(a)) BY DEF Bought
<1>6. PaidTo(a) = SumFunctionOnSet(Credit, paid) BY DEF PaidTo
<1> HIDE DEF rows, paid
<1>7. Bought(a) \in Nat BY <1>2, <1>3, <1>5, SumNat
<1>8. Bought(a) <= PaidTo(a) BY <1>2, <1>3, <1>4, <1>5, <1>6, SumCovered
<1> QED BY <1>7, <1>8

-----------------------------------------------------------------------------

\* PledgeIs, for the state after a step as well.
LEMMA PledgeTyped ==
  SpendInv => \A c \in Calls : Pledge[c] \in Nat /\ Pledge[c] <= Worst[c]
BY PledgeIs

LEMMA PledgeThen ==
  ASSUME SpendInv'
  PROVE  \A c \in Calls : Pledge'[c] \in Nat /\ Pledge'[c] <= Worst[c]
<1>1. SpendInv' => (\A c \in Calls : Pledge[c] \in Nat /\ Pledge[c] <= Worst[c])'
  BY PledgeTyped, PTL
<1> QED BY <1>1

\* Pledges that are lowered still fit.
LEMMA LowerFits ==
  ASSUME SpendInv, SpendInv', PledgesFit,
         captured \subseteq captured', captured' \subseteq PaymentIds,
         \A c \in Calls : Pledge'[c] <= Pledge[c]
  PROVE  PledgesFit'
<1>1. ASSUME NEW S \in SUBSET Calls
      PROVE  /\ PledgedBy(S)' \in Nat /\ PledgedBy(S) \in Nat
             /\ PledgedBy(S)' <= PledgedBy(S)
  <2>1. IsFiniteSet(S) /\ PledgedBy(S) \in Nat BY PledgesNat
  <2>2. \A c \in S : /\ Pledge[c] \in Nat /\ Pledge'[c] \in Nat
                     /\ Pledge'[c] <= Pledge[c]
    BY PledgeIs, PledgeThen
  <2>3. PledgedBy(S)' = SumFunctionOnSet(Pledge', S) BY DEF PledgedBy
  <2>4. SumFunctionOnSet(Pledge', S) \in Nat BY <2>1, <2>2, SumNat
  <2>5. SumFunctionOnSet(Pledge', S) <= SumFunctionOnSet(Pledge, S)
    BY <2>1, <2>2, SumMonotone
  <2> QED BY <2>1, <2>3, <2>4, <2>5 DEF PledgedBy
<1> SUFFICES ASSUME NEW a \in Accounts
             PROVE  /\ PledgedBy(CallsOf(a))' <= Monthly[a]
                    /\ \A actor \in Actors : PledgedBy(ActorsCalls(a, actor))' <= Daily[a]
                    /\ a \in Prepaid => PledgedBy(CallsOf(a))' <= PaidTo(a)'
  BY DEF PledgesFit
<1>2. CallsOf(a) \in SUBSET Calls BY DEF CallsOf
<1>3. \A actor \in Actors : ActorsCalls(a, actor) \in SUBSET Calls
  BY DEF CallsOf, ActorsCalls
<1>4. Monthly[a] \in Nat /\ Daily[a] \in Nat BY SpendLedgerAssumption
<1>5. PledgedBy(CallsOf(a))' <= Monthly[a] BY <1>1, <1>2, <1>4 DEF PledgesFit
<1>6. ASSUME NEW actor \in Actors
      PROVE  PledgedBy(ActorsCalls(a, actor))' <= Daily[a]
  BY <1>1, <1>3, <1>4 DEF PledgesFit
<1>7. ASSUME a \in Prepaid PROVE PledgedBy(CallsOf(a))' <= PaidTo(a)'
  BY <1>1, <1>2, <1>7, PaidGrows DEF PledgesFit
<1> QED BY <1>5, <1>6, <1>7

\* A pledge is not raised when its row stays as it is, unless its call is
\* checked just now, or when it was the worst case already.
LEMMA NotRaised ==
  ASSUME SpendInv, SpendInv', NEW c \in Calls,
         \/ /\ ledger'[c] = ledger[c]
            /\ call'[c].pc = "checked" => call[c].pc = "checked"
         \/ Pledge[c] = Worst[c]
  PROVE  Pledge'[c] <= Pledge[c]
<1>1. CASE Pledge[c] = Worst[c] BY <1>1, PledgeThen
<1>2. CASE /\ ledger'[c] = ledger[c]
           /\ call'[c].pc = "checked" => call[c].pc = "checked"
  <2>1. Held(c)' = Held(c) BY <1>2 DEF Held
  <2>2. Foreseen(c)' = Foreseen(c) BY <2>1 DEF Foreseen
  <2>3. Pledge'[c] = IF call'[c].pc = "checked" THEN Worst[c] ELSE Foreseen(c)
    BY <2>2 DEF Pledge
  <2> QED BY <1>2, <2>3, PledgeIs
<1> QED BY <1>1, <1>2

\* Whatever is not a reservation.
LEMMA OthersLower ==
  ASSUME SpendInv, SpendInv', [Next]_vars, NEW d \in Calls,
         \A c \in Calls : ~ Reserve(c)
  PROVE  Pledge'[d] <= Pledge[d]
<1>1. \A c \in Calls :
        /\ ledger[c].status = "reserved" => Pledge[c] = Worst[c]
        /\ call[c].pc = "checked" => Pledge[c] = Worst[c]
  BY PledgeIs
<1>2. ledger \in [Calls -> LedgerRows] /\ call \in [Calls -> CallRows]
  BY DEF SpendInv, SpendTypeOK
<1>3. ASSUME NEW c \in Calls, CallStep(c) PROVE Pledge'[d] <= Pledge[d]
  <2>1. CASE d # c
    <3>1. ledger'[d] = ledger[d] /\ call'[d] = call[d]
      BY <1>2, <1>3, <2>1
      DEF CallStep, Reserve, Hold, Answer, Settle, Raise, Die, Close
    <3> QED BY <3>1, NotRaised
  <2>2. CASE d = c
    <3>1. CASE Hold(c) BY <1>1, <2>2, <3>1, NotRaised DEF Hold
    <3>2. ASSUME NEW cost \in Costs \cup {0}, Answer(c, cost) \/ Die(c, cost)
          PROVE  Pledge'[d] <= Pledge[d]
      BY <1>2, <2>2, <3>2, NotRaised DEF Answer, Die
    <3>3. ASSUME NEW known \in BOOLEAN, NEW cost \in Costs \cup {0},
                 Settle(c, known) \/ Raise(c, cost)
          PROVE  Pledge'[d] <= Pledge[d]
      <4>1. call'[c].pc # "checked"
        BY <1>2, <3>3, SpendTyped DEF Settle, Raise, CallRows
      <4>2. ledger[c].status # "reserved" => ledger'[c] = ledger[c]
        BY <3>3 DEF Settle, Raise, Close
      <4> QED BY <1>1, <2>2, <4>1, <4>2, NotRaised
    <3> QED BY <1>3, <3>1, <3>2, <3>3 DEF CallStep
  <2> QED BY <2>1, <2>2
<1>4. ASSUME NEW a \in Accounts, Sweep(a) PROVE Pledge'[d] <= Pledge[d]
  <2>1. call' = call BY <1>4 DEF Sweep
  <2>2. ledger[d].status # "reserved" => ledger'[d] = ledger[d]
    BY <1>4 DEF Sweep
  <2> QED BY <1>1, <2>1, <2>2, NotRaised
<1>5. CASE UNCHANGED spendVars BY <1>5, NotRaised DEF spendVars
<1> QED BY <1>3, <1>4, <1>5 DEF Next, vars

\* The lock shows a reservation all that its account has pledged.
LEMMA ReserveFits ==
  ASSUME PaymentsTypeOK, CreditedOnce, SpendInv, SpendInv', PledgesFit,
         NEW c \in Calls, Reserve(c)
  PROVE  PledgesFit'
<1> DEFINE a == AccountOf[c]
           n == Worst[c]
<1>1. a \in Accounts /\ ActorOf[c] \in Actors /\ n \in Nat
  BY SpendLedgerAssumption
<1>2. ledger[c].status = "none" /\ call[c].pc = "idle"
  BY SpendTyped DEF Reserve, CallCovered
<1>3. /\ ledger' = ledger /\ captured' = captured
      /\ \A d \in Calls \ {c} : call'[d] = call[d]
      /\ call'[c].pc = "checked"
  BY SpendTyped DEF Reserve, payVars, SpendInv, SpendTypeOK, CallRows
<1>4. \A d \in Calls : Held(d)' = Held(d) BY <1>3 DEF Held
<1>5. \A d \in Calls : Foreseen(d)' = Foreseen(d) BY <1>4 DEF Foreseen
<1>6. \A d \in Calls : Pledge'[d] = IF d = c THEN n ELSE Pledge[d]
  BY <1>3, <1>5 DEF Pledge
<1>7. Pledge[c] = 0 BY <1>2, PledgeIs
<1> HIDE DEF a, n
<1>8. ASSUME NEW S \in SUBSET Calls
      PROVE  /\ c \notin S => PledgedBy(S)' = PledgedBy(S)
             /\ c \in S => PledgedBy(S)' = PledgedBy(S) + n
  <2>1. PledgedBy(S)' = SumFunctionOnSet(Pledge', S) BY DEF PledgedBy
  <2>2. IsFiniteSet(S) /\ PledgedBy(S) \in Nat BY PledgesNat
  <2>3. \A d \in S : Pledge[d] \in Nat /\ Pledge'[d] \in Nat
    BY PledgeIs, PledgeThen
  <2>4. CASE c \notin S
    <3>1. \A d \in S : Pledge'[d] = Pledge[d] BY <1>6, <2>4
    <3>2. SumFunctionOnSet(Pledge', S) = SumFunctionOnSet(Pledge, S)
      BY <2>2, <2>3, <3>1, SumSame
    <3> QED BY <2>1, <2>4, <3>2 DEF PledgedBy
  <2>5. CASE c \in S
    <3>1. \A d \in S \ {c} : Pledge'[d] = Pledge[d] BY <1>6
    <3>2. SumFunctionOnSet(Pledge', S)
            = SumFunctionOnSet(Pledge, S) - Pledge[c] + Pledge'[c]
      BY <2>2, <2>3, <2>5, <3>1, SumChange
    <3>3. Pledge'[c] = n BY <1>6
    <3> QED BY <1>1, <1>7, <2>1, <2>2, <2>5, <3>2, <3>3 DEF PledgedBy
  <2> QED BY <2>4, <2>5
<1>9. /\ CallsOf(a) \in SUBSET Calls /\ c \in CallsOf(a)
      /\ \A b \in Accounts \ {a} : CallsOf(b) \in SUBSET Calls /\ c \notin CallsOf(b)
      /\ \A b \in Accounts, actor \in Actors :
           /\ ActorsCalls(b, actor) \in SUBSET CallsOf(b)
           /\ c \in ActorsCalls(b, actor) <=> b = a /\ actor = ActorOf[c]
  BY DEF CallsOf, ActorsCalls, a
<1>10. \A S \in SUBSET CallsOf(a) :
         /\ PledgedBy(S) <= SpentBy(S)
         /\ PledgedBy(S) \in Nat /\ SpentBy(S) \in Nat
  <2>1. \A d \in CallsOf(a) : call[d].pc # "checked" BY DEF Reserve, a
  <2> QED BY <1>9, <2>1, PledgesNat
<1>11. /\ SpentBy(CallsOf(a)) + n <= Monthly[a]
       /\ SpentBy(ActorsCalls(a, ActorOf[c])) + n <= Daily[a]
       /\ a \in Prepaid => Bought(a) - SpentBy(CallsOf(a)) >= n
  BY DEF Reserve, Affordable, ActorsCalls, a, n
<1>12. Monthly[a] \in Nat /\ Daily[a] \in Nat BY <1>1, SpendLedgerAssumption
<1>13. PaidTo(a)' = PaidTo(a) /\ PaidTo(a) \in Nat
  <2>1. captured \subseteq PaymentIds BY DEF PaymentsTypeOK
  <2> QED BY <1>3, <2>1, PaidGrows DEF PaidTo, PaymentsTo
<1>14. Bought(a) \in Nat /\ Bought(a) <= PaidTo(a) BY BoughtIsPaid
<1> SUFFICES ASSUME NEW b \in Accounts
             PROVE  /\ PledgedBy(CallsOf(b))' <= Monthly[b]
                    /\ \A actor \in Actors : PledgedBy(ActorsCalls(b, actor))' <= Daily[b]
                    /\ b \in Prepaid => PledgedBy(CallsOf(b))' <= PaidTo(b)'
  BY DEF PledgesFit
<1>15. CASE b # a
  <2>1. /\ PledgedBy(CallsOf(b))' = PledgedBy(CallsOf(b))
        /\ \A actor \in Actors :
             PledgedBy(ActorsCalls(b, actor))' = PledgedBy(ActorsCalls(b, actor))
    BY <1>8, <1>9, <1>15
  <2>2. PaidTo(b)' = PaidTo(b) BY <1>3 DEF PaidTo, PaymentsTo
  <2> QED BY <2>1, <2>2 DEF PledgesFit
<1>16. CASE b = a
  <2>1. PledgedBy(CallsOf(a))' = PledgedBy(CallsOf(a)) + n BY <1>8, <1>9
  <2>2. PledgedBy(CallsOf(a)) <= SpentBy(CallsOf(a)) BY <1>9, <1>10
  <2>3. PledgedBy(CallsOf(a)) \in Nat /\ SpentBy(CallsOf(a)) \in Nat
    BY <1>9, <1>10
  <2>4. PledgedBy(CallsOf(a))' <= Monthly[a]
    BY <1>1, <1>11, <1>12, <2>1, <2>2, <2>3
  <2>5. ASSUME a \in Prepaid PROVE PledgedBy(CallsOf(a))' <= PaidTo(a)'
    BY <1>1, <1>11, <1>13, <1>14, <2>1, <2>2, <2>3, <2>5
  <2>6. ASSUME NEW actor \in Actors
        PROVE  PledgedBy(ActorsCalls(a, actor))' <= Daily[a]
    <3> DEFINE S == ActorsCalls(a, actor)
    <3>1. S \in SUBSET CallsOf(a) /\ S \in SUBSET Calls BY <1>1, <1>9
    <3>2. CASE actor = ActorOf[c]
      <4>1. PledgedBy(S)' = PledgedBy(S) + n BY <1>1, <1>8, <1>9, <3>1, <3>2
      <4>2. /\ PledgedBy(S) <= SpentBy(S)
            /\ PledgedBy(S) \in Nat /\ SpentBy(S) \in Nat
        BY <1>10, <3>1
      <4>3. SpentBy(S) + n <= Daily[a] BY <1>11, <3>2
      <4> QED BY <1>1, <1>12, <4>1, <4>2, <4>3
    <3>3. CASE actor # ActorOf[c]
      <4>1. PledgedBy(S)' = PledgedBy(S) BY <1>1, <1>8, <1>9, <3>1, <3>3
      <4> QED BY <1>1, <4>1 DEF PledgesFit
    <3> QED BY <3>2, <3>3
  <2> QED BY <1>16, <2>4, <2>5, <2>6
<1> QED BY <1>15, <1>16

-----------------------------------------------------------------------------
(* Theorems                                                                *)

LEMMA SpendInvHolds == Spec => []SpendInv
<1>1. Init => SpendInv
  BY DEF Init, SpendInv, SpendTypeOK, CallsCovered, CallCovered, Covered,
         LedgerRows, CallRows
<1>2. SpendInv /\ [Next]_vars => SpendInv'
  <2> SUFFICES ASSUME SpendInv, [Next]_vars PROVE SpendInv' OBVIOUS
  <2>1. ASSUME UNCHANGED spendVars PROVE SpendInv'
    BY <2>1 DEF spendVars, SpendInv, SpendTypeOK, CallsCovered, CallCovered, Covered
  <2> QED BY <2>1, CallKeeps, SweepKeeps DEF Next, vars
<1> QED BY <1>1, <1>2, PTL DEF Spec

\* Calls, sweeps and settlements do nothing to the payments: for them, the
\* ledger's steps stutter.
THEOREM ImplementsPayments == Spec => PaymentsSpec
<1>1. Init => PaymentsInit BY DEF Init
<1>2. [Next]_vars => [PaymentsNext]_payVars
  BY DEF Next, vars, CallStep, Reserve, Hold, Answer, Settle, Raise, Die, Sweep
<1> QED BY <1>1, <1>2, PTL DEF Spec, PaymentsSpec

\* Rows and calls, payments and handlers keep their types.
THEOREM TypeCorrect == Spec => []TypeOK
<1>1. PaymentsTypeOK /\ SpendInv => TypeOK
  BY DEF TypeOK, SpendInv, SpendTypeOK, LedgerRows, CallRows
<1> QED BY <1>1, SpendInvHolds, ImplementsPayments, PaymentTypes, PTL

\* With calls spending what they add, payments keep their promises: no plan
\* without its usage, nothing acknowledged and lost.
THEOREM PaymentsKeepPromises ==
  Spec => [](PlanAfterCredit /\ AckedIsHonoured)
BY ImplementsPayments, PlansCredited, AlwaysHonoured, PTL

\* "Budgets never under-count": whoever settles a call the provider charged
\* for, the caller late or the sweeper early, and wherever the caller died.
THEOREM BudgetsNeverUndercount == Spec => []NeverUndercounted
<1>1. SpendInv => NeverUndercounted
  <2> SUFFICES ASSUME SpendInv, NEW c \in Calls, call[c].bill > 0,
                      call[c].pc # "raised"
               PROVE  \/ ledger[c].status = "reserved"
                      \/ /\ ledger[c].status = "settled"
                         /\ ledger[c].cost >= call[c].bill \/ ledger[c].cost >= Worst[c]
    BY DEF NeverUndercounted
  <2>1. call[c].pc \in {"idle", "checked", "sent", "answered", "over", "dead"}
    BY SpendTyped DEF CallRows
  <2> QED BY <2>1, SpendTyped DEF CallCovered, Covered
<1> QED BY <1>1, SpendInvHolds, PTL

LEMMA PledgesFitAlways == Spec => []PledgesFit
<1>1. PayInv /\ PayInv' /\ CreditedOnce /\ [PaymentsNext]_payVars => CreditedOnce'
  BY CreditedKept
<1>2. PaymentsInit => CreditedOnce BY DEF PaymentsInit, CreditedOnce
<1>3. PaymentsSpec => [](PayInv /\ CreditedOnce)
  BY <1>1, <1>2, PayInvHolds, PTL DEF PaymentsSpec
<1>4. Init /\ SpendInv => PledgesFit
  <2> SUFFICES ASSUME Init, SpendInv PROVE PledgesFit OBVIOUS
  <2>1. \A c \in Calls : Pledge[c] = 0
    <3> SUFFICES ASSUME NEW c \in Calls PROVE Pledge[c] = 0 OBVIOUS
    <3>1. ledger[c].status = "none" /\ call[c].pc = "idle" BY DEF Init
    <3> QED BY <3>1, PledgeIs
  <2>2. ASSUME NEW S \in SUBSET Calls PROVE PledgedBy(S) <= 0
    <3>1. IsFiniteSet(S) /\ IsFiniteSet({})
      BY FS_Subset, FS_EmptySet, SpendLedgerAssumption
    <3>2. \A c \in S : Pledge[c] \in Nat /\ Pledge[c] = 0 BY <2>1
    <3>3. SumFunctionOnSet(Pledge, S) <= SumFunctionOnSet(Pledge, {})
      BY <3>1, <3>2, SumCovered
    <3> QED BY <3>3, SumEmpty DEF PledgedBy
  <2> SUFFICES ASSUME NEW a \in Accounts
               PROVE  /\ PledgedBy(CallsOf(a)) <= Monthly[a]
                      /\ \A actor \in Actors : PledgedBy(ActorsCalls(a, actor)) <= Daily[a]
                      /\ a \in Prepaid => PledgedBy(CallsOf(a)) <= PaidTo(a)
    BY DEF PledgesFit
  <2>4. /\ CallsOf(a) \in SUBSET Calls
        /\ \A actor \in Actors : ActorsCalls(a, actor) \in SUBSET Calls
    BY DEF CallsOf, ActorsCalls
  <2>5. Monthly[a] \in Nat /\ Daily[a] \in Nat BY SpendLedgerAssumption
  <2>6. PaidTo(a) \in Nat
    <3>1. captured \cap PaymentsTo(a) = {} BY DEF Init, PaymentsInit
    <3> QED BY <3>1, SumEmpty DEF PaidTo
  <2>7. \A S \in SUBSET Calls : PledgedBy(S) \in Nat BY PledgesNat
  <2> QED BY <2>2, <2>4, <2>5, <2>6, <2>7
<1>5. /\ PayInv /\ PayInv' /\ CreditedOnce /\ SpendInv /\ SpendInv'
      /\ PledgesFit /\ [Next]_vars
      => PledgesFit'
  <2> SUFFICES ASSUME PayInv, PayInv', CreditedOnce, SpendInv, SpendInv',
                      PledgesFit, [Next]_vars
               PROVE  PledgesFit'
    OBVIOUS
  <2>1. captured \subseteq captured' /\ captured' \subseteq PaymentIds
    <3>1. [PaymentsNext]_payVars
      BY DEF Next, vars, CallStep, Reserve, Hold, Answer, Settle, Raise, Die, Sweep
    <3>2. captured \subseteq captured'
      BY <3>1
      DEF PaymentsNext, payVars, Capture, Redeliver, Deliver, Reconcile, HandlerStep,
          CheckPlan, CreditPack, CreditIncluded, Entitle, Reply, HandlerFails
    <3> QED BY <3>2 DEF PayInv, PaymentsTypeOK
  <2>2. CASE \E c \in Calls : Reserve(c) BY <2>2, ReserveFits DEF PayInv
  <2>3. CASE \A c \in Calls : ~ Reserve(c)
    BY <2>1, <2>3, OthersLower, LowerFits
  <2> QED BY <2>2, <2>3
<1> QED BY <1>3, <1>4, <1>5, SpendInvHolds, ImplementsPayments, PTL DEF Spec

\* What a row counts for, it has pledged.
LEMMA ForeseenFits ==
  ASSUME SpendInv, PledgesFit, NEW a \in Accounts
  PROVE  /\ ForeseenBy(CallsOf(a)) <= Monthly[a]
         /\ \A actor \in Actors : ForeseenBy(ActorsCalls(a, actor)) <= Daily[a]
         /\ ForeseenBy(CallsOf(a)) <= PledgedBy(CallsOf(a))
         /\ ForeseenBy(CallsOf(a)) \in Nat /\ PledgedBy(CallsOf(a)) \in Nat
<1>1. /\ CallsOf(a) \in SUBSET Calls
      /\ \A actor \in Actors : ActorsCalls(a, actor) \in SUBSET Calls
  BY DEF CallsOf, ActorsCalls
<1>2. Monthly[a] \in Nat /\ Daily[a] \in Nat BY SpendLedgerAssumption
<1>3. \A S \in SUBSET Calls : /\ ForeseenBy(S) \in Nat /\ PledgedBy(S) \in Nat
                              /\ ForeseenBy(S) <= PledgedBy(S)
  BY PledgesNat
<1>4. ASSUME NEW actor \in Actors PROVE ForeseenBy(ActorsCalls(a, actor)) <= Daily[a]
  <2>1. PledgedBy(ActorsCalls(a, actor)) <= Daily[a] BY DEF PledgesFit
  <2> QED BY <1>1, <1>2, <1>3, <2>1
<1>5. PledgedBy(CallsOf(a)) <= Monthly[a] BY DEF PledgesFit
<1> QED BY <1>1, <1>2, <1>3, <1>4, <1>5

\* For any number of calls, accounts and actors: reservations, settlements,
\* sweeps and deaths, however they interleave, keep to both budgets.
THEOREM BudgetsHold == Spec => []WithinBudgets
<1>1. SpendInv /\ PledgesFit => WithinBudgets
  BY ForeseenFits DEF WithinBudgets, ActorsCalls
<1> QED BY <1>1, SpendInvHolds, PledgesFitAlways, PTL

\* A wallet is never spent beyond what was paid into it, however webhooks,
\* redeliveries and reconcile race with the calls it pays for.
THEOREM PaidFirst == Spec => []PaidBefore
<1>1. PaymentsTypeOK /\ SpendInv /\ PledgesFit => PaidBefore
  <2> SUFFICES ASSUME PaymentsTypeOK, SpendInv, PledgesFit, NEW a \in Prepaid
               PROVE  ForeseenBy(CallsOf(a)) <= PaidTo(a)
    BY DEF PaidBefore, PaidTo
  <2>1. a \in Accounts BY SpendLedgerAssumption
  <2>2. PledgedBy(CallsOf(a)) <= PaidTo(a) BY <2>1 DEF PledgesFit
  <2>3. PaidTo(a) \in Nat BY PaidNat DEF PaymentsTypeOK
  <2> QED BY <2>1, <2>2, <2>3, ForeseenFits
<1> QED
  BY <1>1, SpendInvHolds, PledgesFitAlways, ImplementsPayments, PaymentTypes, PTL
=============================================================================
