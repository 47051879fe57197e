------------------------------ MODULE KernelLock ------------------------------
(***************************************************************************)
(* src/src/kernel/lock.zig: one operation at a time on a shared resource.  *)
(* vfs.Mount and bcache.Cache each hold one across waits for the medium.   *)
(*                                                                         *)
(* Any number of threads call hold and release; the thread inside may be   *)
(* off the CPU for as long as the medium takes.  sched.kill may mark a     *)
(* thread of Killable at any moment: the mark wakes it, and a wait it is   *)
(* in, or starts, ends with error.Ending.                                  *)
(***************************************************************************)
EXTENDS WaitQueue, FiniteSets

CONSTANTS Threads,      \* the threads that use the lock
          Killable      \* those that sched.kill may be called on

ASSUME KillableAssumption == Killable \subseteq Threads

VARIABLES held,         \* Lock.held
          wait,         \* Lock.waiting, and who is blocked on it
          pc,           \* where each thread is
          killed,       \* Thread.killed
          lostTurn      \* history: the thread release chose has left a free lock
                        \* without taking it, and nobody has taken it since

vars == <<held, wait, pc, killed, lostTurn>>

TheQueue == {"waiting"}

\* outside: not using the lock; waiting: blocked in hold; inside: between
\* hold and release; ended: hold answered error.Ending and the thread unwinds.
Places == {"outside", "waiting", "inside", "ended"}

Init ==
    /\ held = FALSE
    /\ wait = NoWaits(Threads, TheQueue)
    /\ pc = [t \in Threads |-> "outside"]
    /\ killed = {}
    /\ lostTurn = FALSE

-----------------------------------------------------------------------------
(***************************************************************************)
(* The loop of hold, entered afresh or after a wake, with interrupts off.  *)
(***************************************************************************)
HoldLoop(t, w) ==
    \/ /\ ~held
       /\ held' = TRUE
       /\ pc' = [pc EXCEPT ![t] = "inside"]
       /\ wait' = w
       /\ lostTurn' = FALSE
    \/ /\ held /\ t \notin killed
       /\ pc' = [pc EXCEPT ![t] = "waiting"]
       /\ wait' = Block(w, t, TheQueue, FALSE)
       /\ UNCHANGED <<held, lostTurn>>
    \/ /\ held /\ t \in killed
       /\ pc' = [pc EXCEPT ![t] = "ended"]
       /\ wait' = w
       /\ UNCHANGED <<held, lostTurn>>

Hold(t) ==
    /\ pc[t] = "outside"
    /\ HoldLoop(t, wait)
    /\ UNCHANGED killed

\* A plausible slip: `if` where hold has `while`.
HoldAgainUnchecked(t) ==
    /\ pc[t] = "waiting" /\ Ready(wait, t)
    /\ wait' = Leave(wait, t)
    /\ IF Fired(wait, t, killed)
       THEN held' = TRUE /\ pc' = [pc EXCEPT ![t] = "inside"]
       ELSE UNCHANGED held /\ pc' = [pc EXCEPT ![t] = "ended"]
    /\ UNCHANGED <<killed, lostTurn>>

\* release has woken t, which has not looked yet.
Chosen(t) == wait.woken[t] # {}

\* Back from blockOn.
HoldAgain(t) ==
    /\ pc[t] = "waiting" /\ Ready(wait, t)
    /\ \/ /\ Fired(wait, t, killed)
          /\ HoldLoop(t, Leave(wait, t))
       \/ /\ ~Fired(wait, t, killed)
          /\ wait' = Leave(wait, t)
          /\ pc' = [pc EXCEPT ![t] = "ended"]
          /\ lostTurn' = (lostTurn \/ (Chosen(t) /\ ~held))
          /\ UNCHANGED held
    /\ UNCHANGED killed

\* A plausible slip: the lock is let go and nobody is told.
ReleaseSilently(t) ==
    /\ pc[t] = "inside"
    /\ held' = FALSE
    /\ pc' = [pc EXCEPT ![t] = "outside"]
    /\ UNCHANGED <<wait, killed, lostTurn>>

Release(t) ==
    /\ pc[t] = "inside"
    /\ held' = FALSE
    /\ wait' = WakeOne(wait, "waiting")
    /\ pc' = [pc EXCEPT ![t] = "outside"]
    /\ UNCHANGED <<killed, lostTurn>>

\* sched.kill: mark, and wake from whatever it waits on.
Kill(t) ==
    /\ t \in Killable \ killed
    /\ killed' = killed \cup {t}
    /\ wait' = Unblock(wait, t)
    /\ UNCHANGED <<held, pc, lostTurn>>

Next == \E t \in Threads : Hold(t) \/ HoldAgain(t) \/ Release(t) \/ Kill(t)

\* A thread that is runnable is scheduled, and a holder finishes: nothing
\* obliges a thread to come back for the lock, or anyone to be killed.
Fairness == \A t \in Threads : WF_vars(HoldAgain(t)) /\ WF_vars(Release(t))

Spec == Init /\ [][Next]_vars /\ Fairness

-----------------------------------------------------------------------------
TypeOK ==
    /\ held \in BOOLEAN
    /\ wait \in WaitRecords(Threads, TheQueue)
    /\ pc \in [Threads -> Places]
    /\ killed \in SUBSET Killable
    /\ lostTurn \in BOOLEAN

\* Two threads are never between hold and release at once, however a barging
\* thread, a wake and a kill interleave (lock.zig:23-42).
MutualExclusion ==
    \A s, t \in Threads : pc[s] = "inside" /\ pc[t] = "inside" => s = t

Waiters == {t \in Threads : pc[t] = "waiting"}

\* A thread waits only while somebody has the lock or the waiter release chose is
\* on its way to look again: a free lock with everyone asleep never wakes anybody.
\* It holds through bargers and through kills of every waiter but one: the one
\* release has just chosen, killed before it runs, leaves a free lock with the
\* only wakeup (lock.zig:30-32), and the next hold and release put that right.
NoStrandedWaiter ==
    ~lostTurn /\ Waiters # {} /\ ~held => \E t \in Waiters : Chosen(t) /\ Ready(wait, t)

\* A lock that is free and wanted is taken again, whoever is killed, unless the
\* turn is lost with the waiter that release chose.
FreeLockIsTaken ==
    (Waiters # {} /\ ~held) ~> (held \/ Waiters = {} \/ lostTurn)

==============================================================================
