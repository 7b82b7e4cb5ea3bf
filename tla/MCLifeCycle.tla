------------------------------ MODULE MCLifeCycle ------------------------------
(***************************************************************************)
(* The screen for TLC; only the number of generations has to be bounded.   *)
(***************************************************************************)
EXTENDS LifeCycle
=============================================================================
