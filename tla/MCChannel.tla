----------------------------- MODULE MCChannel -----------------------------
(***************************************************************************)
(* Channel for TLC: one client with room for both objects, one server with *)
(* room for one of them, and nobody else with room for any.                *)
(***************************************************************************)
EXTENDS Channel

CONSTANTS c1, s1

Rooms == [p \in Threads |-> IF p = c1 THEN 0 ELSE IF p = s1 THEN 1 ELSE 2]

==============================================================================
