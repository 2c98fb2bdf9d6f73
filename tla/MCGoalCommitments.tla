------------------------- MODULE MCGoalCommitments --------------------------
(***************************************************************************)
(* Small instances of GoalCommitments for TLC.                             *)
(***************************************************************************)
EXTENDS GoalCommitments, TLC

CONSTANTS alice, bob, k1, k2

\* Alice has the Credits for one of her two commitments only.
AliceTwice == (k1 :> alice) @@ (k2 :> alice)
OneGoal == [k \in Keys |-> CHOOSE g \in Goals : TRUE]
OneCredit == [k \in Keys |-> 1]
OneEach == [c \in Contributors |-> 1]
=============================================================================
