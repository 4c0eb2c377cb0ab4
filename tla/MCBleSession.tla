---------------------------- MODULE MCBleSession ----------------------------
(***************************************************************************)
(* The BLE session for TLC: two requests, the probe's opcode and one other *)
(* (so a command can meet the answers to another one of its own opcode, of *)
(* the other and of the probe), and the smallest queue that can overflow   *)
(* with an answer already in it.  The requests are not declared symmetric, *)
(* since the run checks liveness.                                          *)
(***************************************************************************)
EXTENDS BleSession
=============================================================================
