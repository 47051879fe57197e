---------------------------- MODULE MCKernelLock ----------------------------
(***************************************************************************)
(* KernelLock for TLC.                                                     *)
(***************************************************************************)
EXTENDS KernelLock

==============================================================================
