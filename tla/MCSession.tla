----------------------------- MODULE MCSession ------------------------------
(***************************************************************************)
(* The poll loop on its session for TLC: the shortest times for which a    *)
(* poll overruns the ticker and calls take time.                           *)
(***************************************************************************)
EXTENDS Session
=============================================================================
