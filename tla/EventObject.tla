----------------------------- MODULE EventObject -----------------------------
(***************************************************************************)
(* The event object of src/src/kernel/event.zig as data: a saturating      *)
(* count beside a wait queue.  Channels, pipes, interrupt lines and child  *)
(* exits all embed one, so its operations are functions of a record ev:    *)
(*                                                                         *)
(*   ev.count[e]   Event.count, the signals nobody has consumed            *)
(*   ev.wait       the waiting state over the events' queues (WaitQueue)   *)
(***************************************************************************)
EXTENDS WaitQueue

CONSTANT MaxCount       \* where Event.count saturates (2^32 - 1 in the code)

ASSUME MaxCountAssumption == MaxCount \in Nat \ {0}

EventRecords(Threads, Events) ==
    [count : [Events -> 0..MaxCount], wait : WaitRecords(Threads, Events)]

\* Nothing signalled, nobody waiting.
QuietEvents(Threads, Events) ==
    [count |-> [e \in Events |-> 0], wait |-> NoWaits(Threads, Events)]

\* A plausible slip: only the first signal wakes anybody.
SignalOnEdge(ev, e) ==
    [count |-> [ev.count EXCEPT ![e] = IF @ = MaxCount THEN @ ELSE @ + 1],
     wait  |-> IF ev.count[e] = 0 THEN WakeOne(ev.wait, e) ELSE ev.wait]

\* A plausible slip: the count is left for the next caller and nobody is woken.
SignalSilently(ev, e) ==
    [ev EXCEPT !.count[e] = IF @ = MaxCount THEN @ ELSE @ + 1]

\* Event.signalLocked
SignalLocked(ev, e) ==
    [count |-> [ev.count EXCEPT ![e] = IF @ = MaxCount THEN @ ELSE @ + 1],
     wait  |-> WakeOne(ev.wait, e)]

\* One signal is consumed: the decrement of waitOne, poll and waitMany.
Consume(ev, e) ==
    [count |-> [ev.count EXCEPT ![e] = @ - 1], wait |-> ev.wait]

\* A waiter that stays blocked until one of the events of Q fires.
BlockOn(ev, t, Q, deadline) ==
    [count |-> ev.count, wait |-> Block(ev.wait, t, Q, deadline)]

==============================================================================
