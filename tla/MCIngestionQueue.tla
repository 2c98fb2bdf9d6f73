-------------------------- MODULE MCIngestionQueue --------------------------
(***************************************************************************)
(* Small instances of IngestionQueue for TLC.                              *)
(***************************************************************************)
EXTENDS IngestionQueue, TLC

CONSTANTS w1, w2, a1, a2, b1

\* Worker w1 runs two lanes, worker w2 one.
TwoAndOne == (a1 :> w1) @@ (a2 :> w1) @@ (b1 :> w2)
=============================================================================
