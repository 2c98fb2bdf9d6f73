---------------------------- MODULE MCSpendLedger ----------------------------
(***************************************************************************)
(* Small instances of SpendLedger and Payments for TLC.                    *)
(***************************************************************************)
EXTENDS SpendLedger, TLC

CONSTANTS ann, charge1, charge2, pack

\* Handlers are interchangeable, so are the calls of one actor and the charges
\* of one subscription.
Symmetry == Permutations(Handlers) \cup Permutations(Calls)
              \cup Permutations({charge1, charge2})

OneBuyer == [p \in PaymentIds |-> ann]
PackOfTwo == [p \in PaymentIds |-> IF p \in Packs THEN 2 ELSE 1]
OneActor == [c \in Calls |-> ann]
TwoEach == [c \in Calls |-> 2]
Three == [x \in Accounts |-> 3]
Four == [x \in Accounts |-> 4]
=============================================================================
