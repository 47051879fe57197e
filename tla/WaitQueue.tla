------------------------------ MODULE WaitQueue ------------------------------
(***************************************************************************)
(* Blocking, from src/src/kernel/wait.zig and the two primitives of        *)
(* src/src/kernel/sched.zig it stands on (blockCurrent, unblock).          *)
(*                                                                         *)
(* The kernel runs on one core and every operation here is made with       *)
(* interrupts off, so the only place a blocking call can be interleaved    *)
(* with another thread is inside blockOn, between putting the waiters on   *)
(* the queues and being scheduled again.  A model of a blocking call is    *)
(* therefore one action up to Block and one action from Leave on.          *)
(*                                                                         *)
(* The waiting state of a set of threads on a set of queues is a record w: *)
(*                                                                         *)
(*   w.queue[q]   the threads with a waiter node on q, oldest first        *)
(*                (the source links the newest at the head and wakes from  *)
(*                the tail)                                                *)
(*   w.state[t]   "ready" (ready or running), "blocked" (no deadline) or   *)
(*                "sleeping" (blocked with a deadline, on the sleeper      *)
(*                list too)                                                *)
(*   w.woken[t]   the queues that have fired for t since it blocked: the   *)
(*                woken flags of its waiter nodes                          *)
(*                                                                         *)
(* A woken thread keeps its waiter nodes on its OTHER queues until it runs *)
(* again and leaves them, which is what makes a second wake land on it.    *)
(***************************************************************************)
EXTENDS Naturals, Sequences

RunStates == {"ready", "blocked", "sleeping"}

WaitRecords(Threads, Queues) ==
    [queue : [Queues -> Seq(Threads)],
     state : [Threads -> RunStates],
     woken : [Threads -> SUBSET Queues]]

\* Nobody waits on anything.
NoWaits(Threads, Queues) ==
    [queue |-> [q \in Queues |-> <<>>],
     state |-> [t \in Threads |-> "ready"],
     woken |-> [t \in Threads |-> {}]]

Ready(w, t) == w.state[t] = "ready"

Queued(w, q, t) == \E i \in 1..Len(w.queue[q]) : w.queue[q][i] = t

\* Queue.remove: a thread has at most one waiter node on a queue.
Without(s, t) ==
    IF \E i \in 1..Len(s) : s[i] = t
    THEN LET at == CHOOSE i \in 1..Len(s) : s[i] = t
         IN  SubSeq(s, 1, at - 1) \o SubSeq(s, at + 1, Len(s))
    ELSE s

\* Queue.wakeOne: the longest-waiting thread leaves q and is made runnable.
WakeOne(w, q) ==
    IF w.queue[q] = <<>> THEN w
    ELSE LET t == Head(w.queue[q])
         IN  [queue |-> [w.queue EXCEPT ![q] = Tail(@)],
              state |-> [w.state EXCEPT ![t] = "ready"],
              woken |-> [w.woken EXCEPT ![t] = @ \cup {q}]]

\* Queue.wakeAll, for each queue of Q.
WakeEach(w, Q) ==
    [queue |-> [q \in DOMAIN w.queue |-> IF q \in Q THEN <<>> ELSE w.queue[q]],
     state |-> [t \in DOMAIN w.state |->
                   IF \E q \in Q : Queued(w, q, t) THEN "ready" ELSE w.state[t]],
     woken |-> [t \in DOMAIN w.woken |-> w.woken[t] \cup {q \in Q : Queued(w, q, t)}]]

WakeAll(w, q) == WakeEach(w, {q})

\* sched.unblock, as the timer (wakeSleepers) and kill use it: no queue fired.
Unblock(w, t) ==
    [queue |-> w.queue, state |-> [w.state EXCEPT ![t] = "ready"], woken |-> w.woken]

\* The first half of blockOn: a waiter node on every queue of Q, then
\* sched.blockCurrent.
Block(w, t, Q, deadline) ==
    [queue |-> [q \in DOMAIN w.queue |->
                   IF q \in Q THEN Append(w.queue[q], t) ELSE w.queue[q]],
     state |-> [w.state EXCEPT ![t] = IF deadline THEN "sleeping" ELSE "blocked"],
     woken |-> [w.woken EXCEPT ![t] = {}]]

\* The second half of blockOn: every queue is left before anything else.
Leave(w, t) ==
    [queue |-> [q \in DOMAIN w.queue |-> Without(w.queue[q], t)],
     state |-> w.state,
     woken |-> [w.woken EXCEPT ![t] = {}]]

\* What blockOn answers to a thread that has just left its queues: a queue
\* fired and nobody has asked the thread to end, or error.TimedOut.
Fired(w, t, killed) == w.woken[t] # {} /\ t \notin killed

==============================================================================
