--------------------------- MODULE MCKernelEvent ---------------------------
(***************************************************************************)
(* KernelEvent for TLC: who waits for what.                                *)
(***************************************************************************)
EXTENDS KernelEvent, TLC

CONSTANTS a, b, c, e1, e2

\* Waits that overlap: two threads share e1, one of them with e2 beside it, and
\* a third waits for both in the other order, or for e2 alone.
Overlapping ==
    [t \in Threads |-> CASE t = a -> {<<e1>>}
                         [] t = b -> {<<e1>>, <<e1, e2>>}
                         [] t = c -> {<<e2, e1>>, <<e2>>}]
Polls == [t \in Threads |-> IF t = c THEN {e2} ELSE {e1}]

==============================================================================
