---------------------------- MODULE MCSupervisor ----------------------------
(***************************************************************************)
(* The supervisor for TLC.  The module adds nothing: the state space is    *)
(* finite as it stands (no counter is kept beyond the attempt budget).     *)
(***************************************************************************)
EXTENDS Supervisor
=============================================================================
