---------------------------- MODULE MCDurableRun ----------------------------
(***************************************************************************)
(* Small instances of DurableRun for TLC.                                  *)
(***************************************************************************)
EXTENDS DurableRun, TLC

\* Calls of drivers are interchangeable, so are reports and verifications.
Symmetry == Permutations(Workers) \cup Permutations(Hosts)
              \cup Permutations(Verifiers)

\* A chain: each node depends on the one before it.
Chain == [n \in Nodes |-> {m \in Nodes : m = n - 1}]

NoNodes == {}
OneNode == {1}
TwoNodes == {1, 2}
SecondNode == {2}
=============================================================================
