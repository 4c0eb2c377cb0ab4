----------------------------- MODULE MCPollLoop -----------------------------
(***************************************************************************)
(* The poll loop for TLC.  Ages and counts saturate in the specification,  *)
(* so the state space is finite and no constraint is needed.               *)
(***************************************************************************)
EXTENDS PollLoop
=============================================================================
