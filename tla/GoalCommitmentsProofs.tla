----------------------- MODULE GoalCommitmentsProofs -----------------------
(***************************************************************************)
(* Proofs about GoalCommitments for any commitments, callers and settlers. *)
(*                                                                         *)
(* CallsSound is the first strengthening: whoever is about to settle a     *)
(* commitment has read it, so that it exists, and commitments stay.  That  *)
(* a second settlement does nothing is then SettleOnce's.                  *)
(*                                                                         *)
(* Funds is the second: between its balance check and its INSERT a call    *)
(* is the only one of its contributor, who can afford it.  Settlements     *)
(* only add, and clawbacks, which the check counts, are in no Gross.       *)
(***************************************************************************)
EXTENDS GoalCommitments, SumProofs

Calls == [pc : {"idle", "checked", "counted", "releasing"},
          key : Keys \cup {None}]

Settles == [pc : {"idle", "due", "listed"}, goal : Goals \cup {None},
            solver : Contributors \cup {None}, todo : SUBSET Keys]

\* What a call or a settlement works on exists.
CallsSound ==
  /\ \A c \in Callers :
       /\ caller[c].pc # "idle" => caller[c].key \in Keys
       /\ caller[c].pc = "releasing" => caller[c].key \in committed
  /\ \A s \in Settlers : settler[s].todo \subseteq committed

Inv == TypeOK /\ CallsSound /\ SettledOnce

-----------------------------------------------------------------------------
(* Settling                                                                *)

\* A settlement adds a row for a commitment that had none, or nothing.
LEMMA SettleOnceSound ==
  ASSUME Inv, NEW k \in committed, NEW to \in Contributors,
         NEW why \in {"withdrawn", "resolved", "self_dealing", "no_contributor"},
         settled' = SettleOnce(k, to, why), UNCHANGED <<committed, clawed>>
  PROVE  /\ settled' \subseteq Settlements /\ clawed' \subseteq settled'
         /\ SettledOnce'
<1> DEFINE row == [key |-> k, to |-> to, why |-> why]
<1>1. k \in Keys BY DEF Inv, TypeOK
<1>2. row \in Settlements BY <1>1 DEF Settlements
<1>3. row.key = k OBVIOUS
<1>4. CASE k \in SettledKeys
  BY <1>4 DEF SettleOnce, Inv, TypeOK, SettledOnce, SettledKeys
<1>5. CASE k \notin SettledKeys
  <2>1. settled' = settled \cup {row} BY <1>5 DEF SettleOnce
  <2>2. \A e \in settled : e.key # row.key
    BY <1>3, <1>5 DEF SettledKeys
  <2> HIDE DEF row
  <2>3. settled' \subseteq Settlements /\ clawed' \subseteq settled'
    BY <1>2, <2>1 DEF Inv, TypeOK
  <2>4. \A e, f \in settled' : e.key = f.key => e = f
    BY <2>1, <2>2 DEF Inv, SettledOnce
  <2>5. SettledKeys' \subseteq committed'
    BY <1>3, <2>1 DEF Inv, SettledOnce, SettledKeys
  <2> QED BY <2>3, <2>4, <2>5 DEF SettledOnce
<1> QED BY <1>4, <1>5

\* Steps that leave the ledger alone, or only add a commitment.
LEMMA LedgerKept ==
  ASSUME Inv, UNCHANGED <<settled, clawed>>, committed \subseteq committed'
  PROVE  SettledOnce'
BY DEF Inv, SettledOnce, SettledKeys

-----------------------------------------------------------------------------
(* Steps                                                                   *)

LEMMA CallersTyped ==
  ASSUME Inv, NEW c \in Callers
  PROVE  /\ caller \in [Callers -> Calls]
         /\ caller[c].pc \in {"idle", "checked", "counted", "releasing"}
BY DEF Inv, TypeOK, Calls

\* What a caller may change, one call at a time.
LEMMA CallerParts ==
  ASSUME Inv, NEW c \in Callers, NEW row \in Calls,
         caller' = [caller EXCEPT ![c] = row],
         row.pc # "idle" => row.key \in Keys,
         row.pc = "releasing" => row.key \in committed,
         committed' \subseteq Keys, committed \subseteq committed',
         settled' \subseteq Settlements, clawed' \subseteq settled',
         UNCHANGED <<resolved, settler, deaths>>
  PROVE  TypeOK' /\ CallsSound'
<1>1. caller' \in [Callers -> Calls] BY CallersTyped
<1>2. TypeOK' BY <1>1 DEF Inv, TypeOK, Calls
<1>3. \A b \in Callers : caller'[b] = IF b = c THEN row ELSE caller[b]
  BY CallersTyped
<1>4. CallsSound' BY <1>3 DEF Inv, CallsSound
<1> QED BY <1>2, <1>4

LEMMA CallerKeeps ==
  ASSUME Inv, NEW c \in Callers, CallerStep(c)
  PROVE  Inv'
<1> USE GoalCommitmentsAssumption
<1>t. /\ committed \subseteq Keys /\ settled \subseteq Settlements
      /\ clawed \subseteq settled
  BY DEF Inv, TypeOK
<1>i. NoCall \in Calls /\ NoCall.pc = "idle" BY DEF NoCall, Calls
<1>1. ASSUME NEW k \in Keys, CommitCheck(c, k) PROVE Inv'
  <2> DEFINE row == [pc |-> "checked", key |-> k]
  <2>1. row \in Calls /\ row.pc = "checked" /\ row.key = k BY DEF Calls
  <2>2. /\ caller' = [caller EXCEPT ![c] = row]
        /\ UNCHANGED <<resolved, committed, settled, clawed, settler, deaths>>
    BY <1>1 DEF CommitCheck
  <2> HIDE DEF row
  <2>3. TypeOK' /\ CallsSound' BY <1>t, <2>1, <2>2, CallerParts
  <2> QED BY <2>2, <2>3, LedgerKept DEF Inv
<1>2. ASSUME NEW k \in Keys, WithdrawCheck(c, k) PROVE Inv'
  <2> DEFINE row == [pc |-> "releasing", key |-> k]
  <2>1. row \in Calls /\ row.pc = "releasing" /\ row.key = k BY DEF Calls
  <2>2. /\ caller' = [caller EXCEPT ![c] = row]
        /\ UNCHANGED <<resolved, committed, settled, clawed, settler, deaths>>
        /\ k \in committed
    BY <1>2 DEF WithdrawCheck, OpenKeys
  <2> HIDE DEF row
  <2>3. TypeOK' /\ CallsSound' BY <1>t, <2>1, <2>2, CallerParts
  <2> QED BY <2>2, <2>3, LedgerKept DEF Inv
<1>3. CASE CommitCount(c)
  <2> DEFINE row == [caller[c] EXCEPT !.pc = "counted"]
  <2>1. caller[c] \in Calls /\ caller[c].key \in Keys
    BY <1>3, CallersTyped DEF CommitCount, Inv, CallsSound
  <2>2. row \in Calls /\ row.pc = "counted" /\ row.key \in Keys
    BY <2>1 DEF Calls
  <2>3. /\ \/ caller' = [caller EXCEPT ![c] = row]
           \/ caller' = [caller EXCEPT ![c] = NoCall]
        /\ UNCHANGED <<resolved, committed, settled, clawed, settler, deaths>>
    BY <1>3 DEF CommitCount
  <2> HIDE DEF row
  <2>4. TypeOK' /\ CallsSound' BY <1>t, <1>i, <2>2, <2>3, CallerParts
  <2> QED BY <2>3, <2>4, LedgerKept DEF Inv
<1>4. CASE CommitInsert(c)
  <2>1. caller[c].key \in Keys BY <1>4 DEF CommitInsert, Inv, CallsSound
  <2>2. /\ caller' = [caller EXCEPT ![c] = NoCall]
        /\ committed' = committed \cup {caller[c].key}
        /\ UNCHANGED <<resolved, settled, clawed, settler, deaths>>
    BY <1>4 DEF CommitInsert
  <2>3. TypeOK' /\ CallsSound' BY <1>t, <1>i, <2>1, <2>2, CallerParts
  <2> QED BY <2>2, <2>3, LedgerKept DEF Inv
<1>5. CASE WithdrawInsert(c)
  <2> DEFINE k == caller[c].key
  <2>1. k \in committed BY <1>5 DEF WithdrawInsert, Inv, CallsSound
  <2>2. k \in Keys /\ By[k] \in Contributors BY <1>t, <2>1
  <2>3. /\ caller' = [caller EXCEPT ![c] = NoCall]
        /\ settled' = SettleOnce(k, By[k], "withdrawn")
        /\ UNCHANGED <<resolved, committed, clawed, settler, deaths>>
    BY <1>5 DEF WithdrawInsert
  <2>4. /\ settled' \subseteq Settlements /\ clawed' \subseteq settled'
        /\ SettledOnce'
    BY <2>1, <2>2, <2>3, SettleOnceSound
  <2>5. TypeOK' /\ CallsSound' BY <1>t, <1>i, <2>3, <2>4, CallerParts
  <2> QED BY <2>4, <2>5 DEF Inv
<1>6. CASE CallDies(c)
  <2>1. /\ caller' = [caller EXCEPT ![c] = NoCall]
        /\ UNCHANGED <<resolved, committed, settled, clawed, settler, deaths>>
    BY <1>6 DEF CallDies
  <2>2. TypeOK' /\ CallsSound' BY <1>t, <1>i, <2>1, CallerParts
  <2> QED BY <2>1, <2>2, LedgerKept DEF Inv
<1> QED BY <1>1, <1>2, <1>3, <1>4, <1>5, <1>6 DEF CallerStep

LEMMA SettlersTyped ==
  ASSUME Inv, NEW s \in Settlers
  PROVE  /\ settler \in [Settlers -> Settles]
         /\ settler[s] \in Settles /\ settler[s].todo \subseteq committed
BY DEF Inv, TypeOK, CallsSound, Settles

\* What a settler may change, one settlement at a time.
LEMMA SettlerParts ==
  ASSUME Inv, NEW s \in Settlers, NEW row \in Settles,
         settler' = [settler EXCEPT ![s] = row], row.todo \subseteq committed,
         resolved' \subseteq Goals, deaths' \in Nat,
         settled' \subseteq Settlements, clawed' \subseteq settled',
         UNCHANGED <<committed, caller>>
  PROVE  TypeOK' /\ CallsSound'
<1>1. settler' \in [Settlers -> Settles] BY SettlersTyped
<1>2. TypeOK' BY <1>1 DEF Inv, TypeOK, Settles
<1>3. \A r \in Settlers : settler'[r] = IF r = s THEN row ELSE settler[r]
  BY SettlersTyped
<1>4. CallsSound' BY <1>3 DEF Inv, CallsSound
<1> QED BY <1>2, <1>4

LEMMA SettlerKeeps ==
  ASSUME Inv, NEW s \in Settlers, SettlerStep(s)
  PROVE  Inv'
<1> USE GoalCommitmentsAssumption
<1>t. /\ committed \subseteq Keys /\ settled \subseteq Settlements
      /\ clawed \subseteq settled /\ resolved \subseteq Goals /\ deaths \in Nat
  BY DEF Inv, TypeOK
<1>i. NoSettle \in Settles /\ NoSettle.todo = {} BY DEF NoSettle, Settles
<1>r. /\ settler[s] \in Settles /\ settler \in [Settlers -> Settles]
      /\ settler[s].todo \subseteq committed
  BY SettlersTyped
<1>1. ASSUME NEW g \in Goals, Resolve(s, g) PROVE Inv'
  <2> DEFINE row == [NoSettle EXCEPT !.pc = "due", !.goal = g]
  <2>1. row \in Settles /\ row.todo = {} BY <1>i DEF Settles
  <2>2. /\ settler' = [settler EXCEPT ![s] = row]
        /\ resolved' = resolved \cup {g}
        /\ UNCHANGED <<committed, settled, clawed, caller, deaths>>
    BY <1>1 DEF Resolve
  <2> HIDE DEF row
  <2>3. TypeOK' /\ CallsSound' BY <1>t, <2>1, <2>2, SettlerParts
  <2> QED BY <2>2, <2>3, LedgerKept DEF Inv
<1>2. ASSUME NEW solver \in Contributors \cup {None}, SettleList(s, solver)
      PROVE  Inv'
  <2> DEFINE todo == {k \in OpenKeys : On[k] = settler[s].goal}
             row == [settler[s] EXCEPT !.pc = "listed", !.solver = solver,
                                       !.todo = todo]
  <2>1. todo \subseteq committed BY DEF OpenKeys
  <2>2. todo \in SUBSET Keys BY <1>t, <2>1
  <2>3. /\ settler' = [settler EXCEPT ![s].pc = "listed",
                                      ![s].solver = solver, ![s].todo = todo]
        /\ UNCHANGED <<resolved, committed, settled, clawed, caller, deaths>>
    BY <1>2 DEF SettleList
  <2> HIDE DEF todo
  <2>4. row \in Settles /\ row.todo = todo BY <1>r, <2>2 DEF Settles
  <2>5. settler' = [settler EXCEPT ![s] = row] BY <1>r, <2>3
  <2> HIDE DEF row
  <2>6. TypeOK' /\ CallsSound' BY <1>t, <2>1, <2>3, <2>4, <2>5, SettlerParts
  <2> QED BY <2>3, <2>6, LedgerKept DEF Inv
<1>3. ASSUME NEW k \in Keys, SettleOne(s, k) PROVE Inv'
  <2> DEFINE row == [settler[s] EXCEPT !.todo = settler[s].todo \ {k}]
  <2>1. /\ settler' = [settler EXCEPT ![s].todo = settler[s].todo \ {k}]
        /\ k \in committed
        /\ UNCHANGED <<resolved, committed, clawed, caller, deaths>>
    BY <1>3, <1>r DEF SettleOne
  <2>2. PICK to \in Contributors,
             why \in {"resolved", "self_dealing", "no_contributor"} :
          settled' = SettleOnce(k, to, why)
    <3>1. By[k] \in Contributors /\ settler[s].solver \in Contributors \cup {None}
      BY <1>r DEF Settles
    <3> QED BY <1>3, <3>1 DEF SettleOne
  <2>3. /\ settled' \subseteq Settlements /\ clawed' \subseteq settled'
        /\ SettledOnce'
    BY <2>1, <2>2, SettleOnceSound
  <2>4. row \in Settles /\ row.todo \subseteq committed
    BY <1>r DEF Settles
  <2>5. settler' = [settler EXCEPT ![s] = row] BY <1>r, <2>1
  <2> HIDE DEF row
  <2>6. TypeOK' /\ CallsSound' BY <1>t, <2>1, <2>3, <2>4, <2>5, SettlerParts
  <2> QED BY <2>3, <2>6 DEF Inv
<1>4. CASE SettleEnds(s) \/ SettleDies(s)
  <2>1. /\ settler' = [settler EXCEPT ![s] = NoSettle]
        /\ UNCHANGED <<resolved, committed, settled, clawed, caller>>
        /\ deaths' \in Nat
    BY <1>4, <1>t DEF SettleEnds, SettleDies
  <2>2. TypeOK' /\ CallsSound' BY <1>t, <1>i, <2>1, SettlerParts
  <2> QED BY <2>1, <2>2, LedgerKept DEF Inv
<1> QED BY <1>1, <1>2, <1>3, <1>4 DEF SettlerStep

LEMMA InvKept == ASSUME Inv, [Next]_vars PROVE Inv'
<1>1. CASE UNCHANGED vars
  BY <1>1 DEF vars, Inv, TypeOK, CallsSound, SettledOnce, SettledKeys
<1>2. ASSUME NEW e \in settled, Clawback(e) PROVE Inv'
  <2>1. /\ UNCHANGED <<resolved, committed, settled, caller, settler, deaths>>
        /\ clawed' \subseteq settled
    BY <1>2 DEF Clawback, Inv, TypeOK
  <2> QED BY <2>1 DEF Inv, TypeOK, CallsSound, SettledOnce, SettledKeys
<1> QED BY <1>1, <1>2, CallerKeeps, SettlerKeeps DEF Next

LEMMA InvAlways == Spec => []Inv
<1>1. Init => Inv
  <2> SUFFICES ASSUME Init PROVE Inv OBVIOUS
  <2>1. TypeOK BY DEF Init, TypeOK, NoCall, NoSettle
  <2>2. CallsSound /\ SettledOnce
    BY DEF Init, CallsSound, SettledOnce, SettledKeys, NoCall, NoSettle
  <2> QED BY <2>1, <2>2 DEF Inv
<1>2. Inv /\ [Next]_vars => Inv' BY InvKept
<1> QED BY <1>1, <1>2, PTL DEF Spec

-----------------------------------------------------------------------------
(* Credits                                                                 *)

Finite == IsFiniteSet(committed) /\ IsFiniteSet(settled)

\* A call that has checked the balance can pay, and nobody else spends it.
Counted ==
  \A c \in Callers : caller[c].pc = "counted" =>
    /\ Gross(By[caller[c].key]) >= Credits[caller[c].key]
    /\ \A d \in Callers : /\ caller[d].pc = "counted"
                          /\ By[caller[d].key] = By[caller[c].key]
                          => d = c

Funds == Finite /\ Counted /\ NeverOverdrawn

\* The commitments, and the settlements, of one contributor.
OwnKeys(p, keys) == {k \in keys : By[k] = p}
OwnRows(p, rows) == {e \in rows : e.to = p}

\* Their sums are numbers.
LEMMA TotalNat ==
  ASSUME NEW keys \in SUBSET Keys, IsFiniteSet(keys), NEW p
  PROVE  Total(OwnKeys(p, keys)) \in Nat
<1>1. OwnKeys(p, keys) \subseteq keys BY DEF OwnKeys
<1>2. IsFiniteSet(OwnKeys(p, keys)) BY <1>1, FS_Subset
<1>3. \A k \in OwnKeys(p, keys) : Credits[k] \in Nat
  BY <1>1, GoalCommitmentsAssumption
<1> QED BY <1>2, <1>3, SumNat DEF Total

LEMMA PaidNat ==
  ASSUME NEW rows \in SUBSET Settlements, IsFiniteSet(rows), NEW p
  PROVE  Paid(OwnRows(p, rows)) \in Nat
<1> DEFINE own == OwnRows(p, rows)
           amount == [e \in own |-> Credits[e.key]]
<1>1. own \subseteq rows BY DEF OwnRows
<1>2. IsFiniteSet(own) BY <1>1, FS_Subset
<1>3. \A e \in own : amount[e] \in Nat
  BY <1>1, GoalCommitmentsAssumption DEF Settlements
<1> HIDE DEF own
<1>4. SumFunctionOnSet(amount, own) \in Nat BY <1>2, <1>3, SumNat
<1> QED BY <1>4 DEF Paid, own

\* More settlements, more Credits.
LEMMA PaidMore ==
  ASSUME NEW rows \in SUBSET Settlements, IsFiniteSet(rows),
         NEW less \in SUBSET rows, NEW p
  PROVE  Paid(OwnRows(p, less)) <= Paid(OwnRows(p, rows))
<1> DEFINE few == OwnRows(p, less)
           own == OwnRows(p, rows)
           f == [e \in few |-> Credits[e.key]]
           g == [e \in own |-> Credits[e.key]]
<1>1. few \in SUBSET own /\ own \subseteq rows BY DEF OwnRows
<1>2. IsFiniteSet(own) BY <1>1, FS_Subset
<1>3. /\ \A e \in few : f[e] \in Nat /\ f[e] <= g[e]
      /\ \A e \in own : g[e] \in Nat
  BY <1>1, GoalCommitmentsAssumption DEF Settlements
<1> HIDE DEF few, own, f, g
<1>4. SumFunctionOnSet(f, few) <= SumFunctionOnSet(g, own)
  BY <1>1, <1>2, <1>3, SumMonotone
<1> QED BY <1>4 DEF Paid, few, own, f, g

\* What a contributor has, by the rows there are.
Worth(p, keys, rows) ==
  Opening[p] - Total(OwnKeys(p, keys)) + Paid(OwnRows(p, rows))

LEMMA GrossIs == ASSUME NEW p PROVE Gross(p) = Worth(p, committed, settled)
BY DEF Gross, Worth, OwnKeys, OwnRows

LEMMA WorthInt ==
  ASSUME NEW p \in Contributors,
         NEW keys \in SUBSET Keys, IsFiniteSet(keys),
         NEW rows \in SUBSET Settlements, IsFiniteSet(rows)
  PROVE  Worth(p, keys, rows) \in Int
<1>1. /\ Total(OwnKeys(p, keys)) \in Nat /\ Paid(OwnRows(p, rows)) \in Nat
      /\ Opening[p] \in Nat
  BY TotalNat, PaidNat, GoalCommitmentsAssumption
<1> QED BY <1>1 DEF Worth

\* A commitment takes from its contributor what it is worth.
LEMMA WorthCommitted ==
  ASSUME NEW p \in Contributors, NEW k \in Keys,
         NEW keys \in SUBSET Keys, IsFiniteSet(keys), k \notin keys,
         NEW rows \in SUBSET Settlements, IsFiniteSet(rows)
  PROVE  Worth(p, keys \cup {k}, rows)
           = IF p = By[k] THEN Worth(p, keys, rows) - Credits[k]
             ELSE Worth(p, keys, rows)
<1> DEFINE own == OwnKeys(p, keys)
<1>1. IsFiniteSet(own) /\ own \subseteq Keys /\ k \notin own
  BY FS_Subset DEF OwnKeys
<1>2. /\ Total(own) \in Nat /\ Paid(OwnRows(p, rows)) \in Nat
      /\ Opening[p] \in Nat /\ Credits[k] \in Nat
  BY TotalNat, PaidNat, GoalCommitmentsAssumption
<1>3. CASE p = By[k]
  <2>1. OwnKeys(p, keys \cup {k}) = own \cup {k} BY <1>3 DEF OwnKeys
  <2> HIDE DEF own
  <2>2. Total(own \cup {k}) = Total(own) + Credits[k]
    BY <1>1, SumAdd, GoalCommitmentsAssumption DEF Total
  <2>3. /\ Worth(p, keys \cup {k}, rows)
             = Opening[p] - Total(own \cup {k}) + Paid(OwnRows(p, rows))
        /\ Worth(p, keys, rows) = Opening[p] - Total(own) + Paid(OwnRows(p, rows))
    BY <2>1 DEF Worth, own
  <2>4. Worth(p, keys \cup {k}, rows) = Worth(p, keys, rows) - Credits[k]
    BY <1>2, <2>2, <2>3
  <2> QED BY <1>3, <2>4
<1>4. CASE p # By[k]
  <2>1. OwnKeys(p, keys \cup {k}) = own BY <1>4 DEF OwnKeys
  <2> QED BY <1>4, <2>1 DEF Worth
<1> QED BY <1>3, <1>4

\* The invariant, in terms of Worth.
CountedBy(calls, keys, rows) ==
  \A c \in Callers : calls[c].pc = "counted" =>
    /\ Worth(By[calls[c].key], keys, rows) >= Credits[calls[c].key]
    /\ \A d \in Callers : /\ calls[d].pc = "counted"
                          /\ By[calls[d].key] = By[calls[c].key]
                          => d = c

LEMMA FundsAre ==
  /\ Counted <=> CountedBy(caller, committed, settled)
  /\ Counted' <=> CountedBy(caller', committed', settled')
  /\ NeverOverdrawn <=> \A p \in Contributors : Worth(p, committed, settled) >= 0
  /\ NeverOverdrawn' <=>
       \A p \in Contributors : Worth(p, committed', settled') >= 0
BY DEF Counted, CountedBy, NeverOverdrawn, Gross, Worth, OwnKeys, OwnRows, Total, Paid

\* The check counts clawbacks and is stricter than it would have to be.
LEMMA BalanceBelowWorth ==
  ASSUME Inv, Finite, NEW p \in Contributors
  PROVE  Balance(p) <= Worth(p, committed, settled) /\ Balance(p) \in Int
<1>1. Worth(p, committed, settled) \in Int
  BY WorthInt DEF Inv, TypeOK, Finite
<1>2. IsFiniteSet(clawed) /\ clawed \subseteq Settlements
  BY FS_Subset DEF Inv, TypeOK, Finite
<1>3. Paid(OwnRows(p, clawed)) \in Nat BY <1>2, PaidNat
<1>4. Balance(p) = Worth(p, committed, settled) - Paid(OwnRows(p, clawed))
  BY GrossIs DEF Balance, OwnRows
<1> QED BY <1>1, <1>3, <1>4

-----------------------------------------------------------------------------

\* Settlements pay and refund, and calls that go on or end were counted
\* before: nobody's Credits run out.
LEMMA FundsGrow ==
  ASSUME Inv, Funds, UNCHANGED committed, settled \subseteq settled',
         settled' \subseteq Settlements, IsFiniteSet(settled'),
         \A c \in Callers : caller'[c].pc = "counted" => caller'[c] = caller[c]
  PROVE  Funds'
<1>1. ASSUME NEW p \in Contributors
      PROVE  /\ Worth(p, committed, settled) \in Int
             /\ Worth(p, committed, settled') \in Int
             /\ Worth(p, committed, settled') >= Worth(p, committed, settled)
  <2>1. Paid(OwnRows(p, settled)) <= Paid(OwnRows(p, settled')) BY PaidMore
  <2>2. /\ Total(OwnKeys(p, committed)) \in Nat /\ Opening[p] \in Nat
        /\ Paid(OwnRows(p, settled)) \in Nat /\ Paid(OwnRows(p, settled')) \in Nat
    BY TotalNat, PaidNat, GoalCommitmentsAssumption DEF Inv, TypeOK, Funds, Finite
  <2> QED BY <2>1, <2>2 DEF Worth
<1>2. Finite' BY DEF Funds, Finite
<1>3. NeverOverdrawn' BY <1>1, FundsAre DEF Funds
<1>4. CountedBy(caller', committed, settled')
  <2> SUFFICES ASSUME NEW c \in Callers, caller'[c].pc = "counted"
               PROVE  /\ Worth(By[caller'[c].key], committed, settled')
                           >= Credits[caller'[c].key]
                      /\ \A d \in Callers :
                           /\ caller'[d].pc = "counted"
                           /\ By[caller'[d].key] = By[caller'[c].key]
                           => d = c
    BY DEF CountedBy
  <2>1. caller'[c] = caller[c] /\ caller[c].pc = "counted" OBVIOUS
  <2>2. /\ By[caller[c].key] \in Contributors
        /\ Credits[caller[c].key] \in Nat
    BY <2>1, GoalCommitmentsAssumption DEF Inv, CallsSound
  <2>3. /\ Worth(By[caller[c].key], committed, settled) >= Credits[caller[c].key]
        /\ \A d \in Callers : /\ caller[d].pc = "counted"
                              /\ By[caller[d].key] = By[caller[c].key]
                              => d = c
    BY <2>1, FundsAre DEF Funds, CountedBy
  <2>4. Worth(By[caller[c].key], committed, settled') >= Credits[caller[c].key]
    BY <1>1, <2>2, <2>3
  <2> QED BY <2>1, <2>3, <2>4
<1> QED BY <1>2, <1>3, <1>4, FundsAre DEF Funds

\* The lock is taken and the balance is enough.
LEMMA CountKeepsFunds ==
  ASSUME Inv, Funds, NEW c \in Callers, CommitCount(c)
  PROVE  Funds'
<1> DEFINE k == caller[c].key
<1>1. k \in Keys /\ By[k] \in Contributors /\ Credits[k] \in Nat
  BY GoalCommitmentsAssumption DEF CommitCount, Inv, CallsSound
<1>2. UNCHANGED <<committed, settled>> /\ ~ LockHeld(By[k]) BY DEF CommitCount
<1>3. caller \in [Callers -> Calls] BY CallersTyped
<1>4. CASE k \notin committed /\ Balance(By[k]) >= Credits[k]
  <2>1. caller' = [caller EXCEPT ![c] = [caller[c] EXCEPT !.pc = "counted"]]
    BY <1>4 DEF CommitCount
  <2>2. /\ \A d \in Callers \ {c} : caller'[d] = caller[d]
        /\ caller'[c].pc = "counted" /\ caller'[c].key = k
    BY <1>3, <2>1 DEF Calls
  <2>3. Worth(By[k], committed, settled) >= Credits[k]
    <3> DEFINE p == By[k]
    <3> HIDE DEF p
    <3>1. /\ Balance(p) <= Worth(p, committed, settled) /\ Balance(p) \in Int
          /\ Worth(p, committed, settled) \in Int
      BY <1>1, BalanceBelowWorth, WorthInt DEF Inv, TypeOK, Funds, Finite, p
    <3>2. Balance(p) >= Credits[k] BY <1>4 DEF p
    <3>3. Worth(p, committed, settled) >= Credits[k] BY <1>1, <3>1, <3>2
    <3> QED BY <3>3 DEF p
  <2>4. CountedBy(caller', committed, settled)
    BY <1>2, <2>2, <2>3, FundsAre DEF Funds, CountedBy, LockHeld
  <2> QED BY <1>2, <2>4, FundsAre DEF Funds, Finite
<1>5. CASE ~ (k \notin committed /\ Balance(By[k]) >= Credits[k])
  <2>1. caller' = [caller EXCEPT ![c] = NoCall] BY <1>5 DEF CommitCount
  <2>2. \A d \in Callers : caller'[d].pc = "counted" => caller'[d] = caller[d]
    BY <1>3, <2>1 DEF NoCall
  <2> QED BY <1>2, <2>2, FundsGrow DEF Inv, TypeOK, Funds, Finite
<1> QED BY <1>4, <1>5

\* The Credits checked for are spent, by nobody else.
LEMMA InsertKeepsFunds ==
  ASSUME Inv, Funds, NEW c \in Callers, CommitInsert(c)
  PROVE  Funds'
<1> DEFINE k == caller[c].key
<1>1. /\ caller[c].pc = "counted"
      /\ k \in Keys /\ By[k] \in Contributors /\ Credits[k] \in Nat
  BY GoalCommitmentsAssumption DEF CommitInsert, Inv, CallsSound
<1>2. committed' = committed \cup {k} /\ UNCHANGED settled BY DEF CommitInsert
<1>3. \A d \in Callers : caller'[d].pc = "counted" => d # c /\ caller'[d] = caller[d]
  BY CallersTyped DEF CommitInsert, NoCall
<1>4. committed \subseteq Keys /\ IsFiniteSet(committed) /\ IsFiniteSet(settled)
  BY DEF Inv, TypeOK, Funds, Finite
<1>5. IsFiniteSet(committed') /\ committed' \subseteq Keys
  BY <1>1, <1>2, <1>4, FS_AddElement
<1> HIDE DEF k
<1>6. ASSUME NEW p \in Contributors
      PROVE  /\ p # By[k] => Worth(p, committed', settled) = Worth(p, committed, settled)
             /\ Worth(p, committed', settled) >= Worth(p, committed, settled) - Credits[k]
  <2>1. Worth(p, committed, settled) \in Int BY <1>4, WorthInt DEF Inv, TypeOK
  <2>2. CASE k \in committed
    <3>1. committed' = committed BY <1>2, <2>2
    <3> QED BY <1>1, <2>1, <3>1
  <2>3. CASE k \notin committed
    BY <1>1, <1>2, <1>4, <2>1, <2>3, WorthCommitted DEF Inv, TypeOK
  <2> QED BY <2>2, <2>3
<1>7. \A p \in Contributors : /\ Worth(p, committed, settled) \in Int
                              /\ Worth(p, committed', settled) \in Int
  BY <1>4, <1>5, WorthInt DEF Inv, TypeOK
<1>8. Worth(By[k], committed, settled) >= Credits[k]
  BY <1>1, FundsAre DEF Funds, CountedBy, k
<1>9. ASSUME NEW p \in Contributors PROVE Worth(p, committed', settled) >= 0
  <2>1. CASE p = By[k] BY <1>1, <1>6, <1>7, <1>8, <2>1
  <2>2. CASE p # By[k] BY <1>6, <2>2, FundsAre DEF Funds
  <2> QED BY <2>1, <2>2
<1>10. CountedBy(caller', committed', settled)
  <2> SUFFICES ASSUME NEW d \in Callers, caller'[d].pc = "counted"
               PROVE  /\ Worth(By[caller'[d].key], committed', settled)
                           >= Credits[caller'[d].key]
                      /\ \A e \in Callers :
                           /\ caller'[e].pc = "counted"
                           /\ By[caller'[e].key] = By[caller'[d].key]
                           => e = d
    BY DEF CountedBy
  <2>1. d # c /\ caller'[d] = caller[d] /\ caller[d].pc = "counted" BY <1>3
  <2>2. By[caller[d].key] \in Contributors
    BY <2>1, GoalCommitmentsAssumption DEF Inv, CallsSound
  <2>3. /\ Worth(By[caller[d].key], committed, settled) >= Credits[caller[d].key]
        /\ \A e \in Callers : /\ caller[e].pc = "counted"
                              /\ By[caller[e].key] = By[caller[d].key]
                              => e = d
    BY <2>1, FundsAre DEF Funds, CountedBy
  <2>4. By[caller[d].key] # By[k] BY <1>1, <2>1, <2>3 DEF k
  <2>5. Worth(By[caller[d].key], committed', settled)
          = Worth(By[caller[d].key], committed, settled)
    BY <1>6, <2>2, <2>4
  <2> QED BY <1>3, <2>1, <2>3, <2>5
<1> QED BY <1>2, <1>4, <1>5, <1>9, <1>10, FundsAre DEF Funds, Finite

-----------------------------------------------------------------------------

\* What a settlement does to the rows.
LEMMA SettleOnceAdds ==
  ASSUME NEW k, NEW to, NEW why, settled' = SettleOnce(k, to, why)
  PROVE  /\ settled \subseteq settled'
         /\ IsFiniteSet(settled) => IsFiniteSet(settled')
BY FS_AddElement DEF SettleOnce

LEMMA FundsKept == ASSUME Inv, Funds, [Next]_vars PROVE Funds'
<1> DEFINE adds == /\ UNCHANGED committed
                   /\ settled \subseteq settled' /\ IsFiniteSet(settled')
           goes == \A c \in Callers : caller'[c].pc = "counted" => caller'[c] = caller[c]
<1>0. settled' \subseteq Settlements BY InvKept DEF Inv, TypeOK
<1>1. adds /\ goes => Funds' BY <1>0, FundsGrow
<1>2. caller \in [Callers -> Calls] BY DEF Inv, TypeOK, Calls
<1>3. IsFiniteSet(settled) BY DEF Funds, Finite
<1>4. ASSUME NEW c \in Callers, NEW k \in Keys, CommitCheck(c, k) \/ WithdrawCheck(c, k)
      PROVE  Funds'
  <2>1. adds /\ goes BY <1>2, <1>3, <1>4 DEF CommitCheck, WithdrawCheck
  <2> QED BY <1>1, <2>1
<1>5. ASSUME NEW c \in Callers, CommitCount(c) \/ CommitInsert(c) PROVE Funds'
  BY <1>5, CountKeepsFunds, InsertKeepsFunds
<1>6. ASSUME NEW c \in Callers, WithdrawInsert(c) PROVE Funds'
  <2>1. goes BY <1>2, <1>6 DEF WithdrawInsert, NoCall
  <2>2. adds BY <1>3, <1>6, SettleOnceAdds DEF WithdrawInsert
  <2> QED BY <1>1, <2>1, <2>2
<1>7. ASSUME NEW c \in Callers, CallDies(c) PROVE Funds'
  <2>1. adds /\ goes BY <1>2, <1>3, <1>7 DEF CallDies, NoCall
  <2> QED BY <1>1, <2>1
<1>8. ASSUME NEW s \in Settlers, NEW k \in Keys, SettleOne(s, k) PROVE Funds'
  <2>1. goes BY <1>8 DEF SettleOne
  <2>2. adds BY <1>3, <1>8, SettleOnceAdds DEF SettleOne
  <2> QED BY <1>1, <2>1, <2>2
<1>9. ASSUME NEW s \in Settlers, ~ \E k \in Keys : SettleOne(s, k), SettlerStep(s)
      PROVE  Funds'
  <2>1. adds /\ goes
    BY <1>3, <1>9 DEF SettlerStep, Resolve, SettleList, SettleEnds, SettleDies
  <2> QED BY <1>1, <2>1
<1>10. CASE UNCHANGED vars \/ \E e \in settled : Clawback(e)
  <2>1. adds /\ goes BY <1>3, <1>10 DEF vars, Clawback
  <2> QED BY <1>1, <2>1
<1> QED BY <1>4, <1>5, <1>6, <1>7, <1>8, <1>9, <1>10 DEF Next, CallerStep

\* At first everybody has what was earned before.
LEMMA WorthFirst ==
  ASSUME NEW p \in Contributors
  PROVE  Worth(p, {}, {}) = Opening[p] /\ Opening[p] \in Nat
<1>1. /\ OwnKeys(p, {}) = {} /\ OwnRows(p, {}) = {}
      /\ [e \in {} |-> Credits[e.key]] = [e \in {} |-> 0]
  BY DEF OwnKeys, OwnRows
<1>2. Total({}) = 0 /\ Paid({}) = 0 BY SumEmpty DEF Total, Paid
<1>3. Worth(p, {}, {}) = Opening[p] - 0 + 0 BY <1>1, <1>2 DEF Worth
<1>4. Opening[p] \in Nat BY GoalCommitmentsAssumption
<1> QED BY <1>3, <1>4

LEMMA FundsHold == Spec => []Funds
<1>1. Init => Funds
  <2> SUFFICES ASSUME Init PROVE Funds OBVIOUS
  <2>1. IsFiniteSet({}) BY FS_EmptySet
  <2>2. Finite BY <2>1 DEF Init, Finite
  <2>3. Counted BY DEF Init, Counted, NoCall
  <2>4. ASSUME NEW p \in Contributors PROVE Gross(p) >= 0
    BY WorthFirst, GrossIs DEF Init
  <2> QED BY <2>2, <2>3, <2>4 DEF Funds, NeverOverdrawn
<1>2. Inv /\ Funds /\ [Next]_vars => Funds' BY FundsKept
<1> QED BY <1>1, <1>2, InvAlways, PTL DEF Spec

-----------------------------------------------------------------------------
(* Theorems                                                                *)

\* Goals, ledger rows and calls keep their types, and only settlements are
\* clawed back.
THEOREM TypeCorrect == Spec => []TypeOK
<1>1. Inv => TypeOK BY DEF Inv
<1> QED BY <1>1, InvAlways, PTL

\* Exactly once, for any number of callers and settlers: a commitment never
\* gets a second settlement, and none is settled that was not committed.
THEOREM AlwaysSettledOnce == Spec => []SettledOnce
<1>1. Inv => SettledOnce BY DEF Inv
<1> QED BY <1>1, InvAlways, PTL

\* No interleaving of one contributor's calls with settlements takes a balance
\* below zero: what the check under the lock has seen is there at the INSERT.
THEOREM CreditsSuffice == Spec => []NeverOverdrawn
<1>1. Funds => NeverOverdrawn BY DEF Funds
<1> QED BY <1>1, FundsHold, PTL
=============================================================================
