--------------------------- MODULE MCSvcRegistry ---------------------------
(***************************************************************************)
(* SvcRegistry for TLC.                                                    *)
(***************************************************************************)
EXTENDS SvcRegistry

==============================================================================
