----------------------------- MODULE MCScheduler -----------------------------
(***************************************************************************)
(* Scheduler for TLC: a small machine.                                     *)
(***************************************************************************)
EXTENDS Scheduler

CONSTANTS idle, init, kt, u2

\* Two bands in use out of two; the idle thread is in the lowest.
Bands == [t \in Threads |-> CASE t = idle -> 1 [] t = u2 -> 3 [] OTHER -> 0]

Slices == [t \in Threads |-> IF t = init THEN 2 ELSE 1]

OnlyInit == <<init>>

==============================================================================
