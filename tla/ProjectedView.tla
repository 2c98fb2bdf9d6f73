--------------------------- MODULE ProjectedView ----------------------------
(***************************************************************************)
(* What readers of a search index may rely on: it shows, for each object,  *)
(* a committed version or nothing, and it never goes back to an older one. *)
(***************************************************************************)
EXTENDS Integers

CONSTANT Objects

VARIABLES canon, index

Init ==
  /\ canon = [o \in Objects |-> 0]
  /\ index = [o \in Objects |-> 0]

\* A canonical row gets its next version.
Publish(o) ==
  /\ canon' = [canon EXCEPT ![o] = @ + 1]
  /\ index' = index

\* Projections are brought forward, or removed.
Refresh ==
  /\ index' \in [Objects -> Nat]
  /\ \A o \in Objects : \/ index'[o] = 0
                        \/ (index[o] <= index'[o] /\ index'[o] <= canon[o])
  /\ canon' = canon

Next == Refresh \/ \E o \in Objects : Publish(o)

Spec == Init /\ [][Next]_<<canon, index>>
=============================================================================
