------------------------------- MODULE MCUblk -------------------------------
(***************************************************************************)
(* Ublk for TLC.                                                           *)
(***************************************************************************)
EXTENDS Ublk

=============================================================================
