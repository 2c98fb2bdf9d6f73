------------------------- MODULE MCSearchProjection -------------------------
(***************************************************************************)
(* Small instances of SearchProjection for TLC.                            *)
(***************************************************************************)
EXTENDS SearchProjection, TLC

CONSTANTS procedure, goal

\* How often each object is written.
GoalTwice == (procedure :> 1) @@ (goal :> 2)
ProcedureTwice == (procedure :> 2) @@ (goal :> 1)
=============================================================================
