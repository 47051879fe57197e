------------------------------- MODULE MCPipe -------------------------------
(***************************************************************************)
(* Pipe for TLC.                                                           *)
(***************************************************************************)
EXTENDS Pipe, TLC

\* A message that fits, and one longer than the ring.
ShortAndLong == {<<0>>, <<0, 1, 1, 0>>}

ASSUME HoldersAssumption == CarefulHolders /\ OnePollerEach

==============================================================================
