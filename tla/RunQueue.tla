------------------------------- MODULE RunQueue -------------------------------
(***************************************************************************)
(* src/src/kernel/sched/queue.zig: the intrusive FIFO and the priority     *)
(* array built from it.  A priority array is a record rq:                  *)
(*                                                                         *)
(*   rq.level[p]   Levels.levels[p], the head of the list first            *)
(*   rq.bitmap     the levels whose bit is set                             *)
(*                                                                         *)
(* Lists are threaded through the node's one `next`, so which nodes are on *)
(* some list (the nodes whose `queued` is set) is an argument of its own,  *)
(* shared by every list a node may be on.                                  *)
(***************************************************************************)
EXTENDS Naturals, Sequences

CONSTANT LevelCount     \* Levels.LEVELS (32 in the kernel)

ASSUME LevelCountAssumption == LevelCount \in Nat \ {0}

Levels == 0..(LevelCount - 1)

RunQueues(Nodes) == [level : [Levels -> Seq(Nodes)], bitmap : SUBSET Levels]

EmptyRunQueue == [level |-> [p \in Levels |-> <<>>], bitmap |-> {}]

\* A priority above the last level is clamped.
LevelOf(priority) == IF priority < LevelCount THEN priority ELSE LevelCount - 1

\* Levels.push over Fifo.push: a node on any list is refused, and the level is
\* claimed only when something went on it.
Push(rq, queued, n, priority) ==
    LET p == LevelOf(priority) IN
    IF n \in queued THEN rq
    ELSE [level  |-> [rq.level EXCEPT ![p] = Append(@, n)],
          bitmap |-> rq.bitmap \cup {p}]

\* The level Levels.pop looks at: the lowest bit that is set (@ctz).
TopLevel(rq) == CHOOSE p \in rq.bitmap : \A q \in rq.bitmap : p <= q

PopsNothing(rq) == rq.bitmap = {} \/ rq.level[TopLevel(rq)] = <<>>

\* Levels.pop: the node it answers with, when it answers with one, and the
\* array it leaves.
Popped(rq) == Head(rq.level[TopLevel(rq)])

Pop(rq) ==
    IF rq.bitmap = {} THEN rq
    ELSE LET p == TopLevel(rq)
             rest == IF rq.level[p] = <<>> THEN <<>> ELSE Tail(rq.level[p])
         IN  [level  |-> [rq.level EXCEPT ![p] = rest],
              bitmap |-> IF rest = <<>> THEN rq.bitmap \ {p} ELSE rq.bitmap]

==============================================================================
