----------------------------- MODULE MCProcesses -----------------------------
(***************************************************************************)
(* Processes for TLC.                                                      *)
(***************************************************************************)
EXTENDS Processes

CONSTANTS boot, init, a, b, d

==============================================================================
