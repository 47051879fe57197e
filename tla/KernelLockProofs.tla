--------------------------- MODULE KernelLockProofs ---------------------------
(***************************************************************************)
(* KernelLock for any number of threads: its type, mutual exclusion, and   *)
(* that a waiter is left asleep on a free lock only where the waiter that  *)
(* was chosen has been killed.                                             *)
(***************************************************************************)
EXTENDS KernelLock, WaitQueueProofs

\* Every variable of the lock keeps its type.
THEOREM TypeCorrect == Spec => []TypeOK
<1>1. Init => TypeOK
  BY NoWaitsType DEF Init, TypeOK, Places
<1>2. TypeOK /\ [Next]_vars => TypeOK'
  <2> SUFFICES ASSUME TypeOK, [Next]_vars PROVE TypeOK'
    OBVIOUS
  <2> USE DEF TypeOK, Places
  <2>1. ASSUME NEW t \in Threads, NEW w \in WaitRecords(Threads, TheQueue),
               HoldLoop(t, w)
        PROVE  /\ held' \in BOOLEAN /\ lostTurn' \in BOOLEAN /\ pc' \in [Threads -> Places]
               /\ wait' \in WaitRecords(Threads, TheQueue)
    <3>1. Block(w, t, TheQueue, FALSE) \in WaitRecords(Threads, TheQueue)
      BY BlockType
    <3> QED
      BY <2>1, <3>1 DEF HoldLoop
  <2>2. ASSUME NEW t \in Threads, Hold(t) PROVE TypeOK'
    BY <2>1, <2>2 DEF Hold
  <2>3. ASSUME NEW t \in Threads, HoldAgain(t) PROVE TypeOK'
    <3>1. Leave(wait, t) \in WaitRecords(Threads, TheQueue)
      BY LeaveType
    <3> QED
      BY <2>1, <2>3, <3>1 DEF HoldAgain
  <2>4. ASSUME NEW t \in Threads, Release(t) PROVE TypeOK'
    <3>1. WakeOne(wait, "waiting") \in WaitRecords(Threads, TheQueue)
      BY WakeOneType DEF TheQueue
    <3> QED
      BY <2>4, <3>1 DEF Release
  <2>5. ASSUME NEW t \in Threads, Kill(t) PROVE TypeOK'
    <3>1. Unblock(wait, t) \in WaitRecords(Threads, TheQueue)
      BY UnblockType
    <3> QED
      BY <2>5, <3>1 DEF Kill
  <2>6. CASE UNCHANGED vars
    BY <2>6 DEF vars
  <2> QED
    BY <2>2, <2>3, <2>4, <2>5, <2>6 DEF Next
<1> QED
  BY <1>1, <1>2, PTL DEF Spec

-----------------------------------------------------------------------------
\* The lock is marked held for as long as anybody is inside: the half of the
\* lock's meaning that MutualExclusion needs and does not state.
InsideMeansHeld == \A t \in Threads : pc[t] = "inside" => held

\* Two threads are never between hold and release at once (lock.zig:23-42).
THEOREM MutualExclusionHolds == Spec => []MutualExclusion
<1>1. Init => InsideMeansHeld /\ MutualExclusion
  BY DEF Init, InsideMeansHeld, MutualExclusion
<1>2. TypeOK /\ InsideMeansHeld /\ MutualExclusion /\ [Next]_vars
        => InsideMeansHeld' /\ MutualExclusion'
  <2> SUFFICES ASSUME TypeOK, InsideMeansHeld, MutualExclusion, [Next]_vars
               PROVE  InsideMeansHeld' /\ MutualExclusion'
    OBVIOUS
  <2> USE DEF InsideMeansHeld, MutualExclusion
  <2>1. pc \in [Threads -> Places] /\ held \in BOOLEAN
    BY DEF TypeOK
  <2>2. ASSUME NEW t \in Threads, NEW w, HoldLoop(t, w)
        PROVE  InsideMeansHeld' /\ MutualExclusion'
    <3>1. CASE ~held /\ held' = TRUE /\ pc' = [pc EXCEPT ![t] = "inside"]
      <4>1. \A s \in Threads : pc[s] # "inside"
        BY <3>1
      <4> QED
        BY <2>1, <3>1, <4>1
    <3>2. CASE pc' = [pc EXCEPT ![t] = "waiting"] /\ UNCHANGED held
      BY <2>1, <3>2
    <3>3. CASE pc' = [pc EXCEPT ![t] = "ended"] /\ UNCHANGED held
      BY <2>1, <3>3
    <3> QED
      BY <2>2, <3>1, <3>2, <3>3 DEF HoldLoop
  <2>3. ASSUME NEW t \in Threads, Hold(t)
        PROVE  InsideMeansHeld' /\ MutualExclusion'
    BY <2>2, <2>3 DEF Hold
  <2>4. ASSUME NEW t \in Threads, HoldAgain(t)
        PROVE  InsideMeansHeld' /\ MutualExclusion'
    <3>1. CASE HoldLoop(t, Leave(wait, t))
      BY <2>2, <3>1
    <3>2. CASE pc' = [pc EXCEPT ![t] = "ended"] /\ UNCHANGED held
      BY <2>1, <3>2
    <3> QED
      BY <2>4, <3>1, <3>2 DEF HoldAgain
  <2>5. ASSUME NEW t \in Threads, Release(t)
        PROVE  InsideMeansHeld' /\ MutualExclusion'
    BY <2>1, <2>5 DEF Release
  <2>6. ASSUME NEW t \in Threads, Kill(t)
        PROVE  InsideMeansHeld' /\ MutualExclusion'
    BY <2>6 DEF Kill
  <2>7. CASE UNCHANGED vars
    BY <2>7 DEF vars
  <2> QED
    BY <2>3, <2>4, <2>5, <2>6, <2>7 DEF Next
<1> QED
  BY <1>1, <1>2, TypeCorrect, PTL DEF Spec

-----------------------------------------------------------------------------
\* A node for each thread asleep in hold, and for one that was killed there; the
\* thread that release chose has none and is awake.
WaitersAreKnown ==
    /\ OneNodeEach(wait)
    /\ \A t \in Threads :
          /\ Queued(wait, "waiting", t) <=> t \in Waiters /\ ~Chosen(t)
          /\ t \in Waiters /\ Chosen(t) => Ready(wait, t)

\* What is proved inductive.
HandOver == TypeOK /\ WaitersAreKnown /\ NoStrandedWaiter

\* The parts of the waiting state.
LEMMA WaitTypes ==
    ASSUME TypeOK
    PROVE  /\ wait \in WaitRecords(Threads, TheQueue) /\ "waiting" \in TheQueue
           /\ wait.woken \in [Threads -> SUBSET TheQueue]
           /\ wait.state \in [Threads -> RunStates]
           /\ pc \in [Threads -> Places] /\ held \in BOOLEAN /\ lostTurn \in BOOLEAN
BY DEF TypeOK, WaitRecords, TheQueue

\* The waiting state w is the one at hand, with thread t off the queue.
OffQueue(t, w) ==
    /\ w \in WaitRecords(Threads, TheQueue) /\ OneNodeEach(w)
    /\ \A s \in Threads : Queued(w, "waiting", s) <=> Queued(wait, "waiting", s) /\ s # t
    /\ \A s \in Threads \ {t} : w.woken[s] = wait.woken[s] /\ w.state[s] = wait.state[s]

\* A thread that is no waiter is off the queue, and blockOn takes one that is
\* coming back off it.
LEMMA ComesOff ==
    ASSUME TypeOK, WaitersAreKnown, NEW t \in Threads, NEW w,
           (w = wait /\ t \notin Waiters) \/ w = Leave(wait, t)
    PROVE  OffQueue(t, w)
<1>1. /\ wait \in WaitRecords(Threads, TheQueue) /\ OneNodeEach(wait) /\ "waiting" \in TheQueue
      /\ wait.woken \in [Threads -> SUBSET TheQueue]
  BY WaitTypes DEF WaitersAreKnown
<1>2. CASE w = wait /\ t \notin Waiters
  BY <1>1, <1>2 DEF OffQueue, WaitersAreKnown
<1>3. CASE w = Leave(wait, t)
  <2>1. w \in WaitRecords(Threads, TheQueue)
    BY <1>1, <1>3, LeaveType
  <2>2. OneNodeEach(w) /\ \A s : Queued(w, "waiting", s) <=> Queued(wait, "waiting", s) /\ s # t
    BY <1>1, <1>3, LeaveMembers
  <2>3. w.state = wait.state /\ w.woken = [wait.woken EXCEPT ![t] = {}]
    BY <1>3 DEF Leave
  <2> QED
    BY <1>1, <2>1, <2>2, <2>3 DEF OffQueue
<1> QED
  BY <1>2, <1>3

\* A thread that leaves the waiters, or was none, leaves the others as they were.
LEMMA LeavingIsKnown ==
    ASSUME TypeOK, WaitersAreKnown, NEW t \in Threads, OffQueue(t, wait'),
           NEW p \in Places \ {"waiting"}, pc' = [pc EXCEPT ![t] = p]
    PROVE  /\ WaitersAreKnown'
           /\ Waiters' = Waiters \ {t}
           /\ \A s \in Waiters' : Chosen(s)' = Chosen(s) /\ Ready(wait, s)' = Ready(wait, s)
<1>1. Waiters' = Waiters \ {t} /\ Waiters \subseteq Threads
  BY WaitTypes DEF Waiters
<1>2. \A s \in Threads \ {t} : Chosen(s)' = Chosen(s) /\ Ready(wait, s)' = Ready(wait, s)
  BY DEF OffQueue, Chosen, Ready
<1>3. ASSUME NEW s \in Threads
      PROVE  /\ Queued(wait', "waiting", s) <=> s \in Waiters' /\ ~Chosen(s)'
             /\ s \in Waiters' /\ Chosen(s)' => Ready(wait', s)
  BY <1>1, <1>2 DEF OffQueue, WaitersAreKnown
<1>4. WaitersAreKnown'
  BY <1>3 DEF WaitersAreKnown, OffQueue
<1> QED
  BY <1>1, <1>2, <1>4

\* The loop of hold: the lock is taken, or the thread waits beside a holder.
LEMMA HoldLoopKeeps ==
    ASSUME HandOver, TypeOK', NEW t \in Threads, NEW w, OffQueue(t, w), HoldLoop(t, w)
    PROVE  HandOver'
<1>1. CASE held' = TRUE /\ pc' = [pc EXCEPT ![t] = "inside"] /\ wait' = w
  <2>1. WaitersAreKnown'
    BY <1>1, LeavingIsKnown DEF HandOver, Places
  <2> QED
    BY <1>1, <2>1 DEF HandOver, NoStrandedWaiter
<1>2. CASE held /\ held' = held /\ pc' = [pc EXCEPT ![t] = "ended"] /\ wait' = w
  <2>1. WaitersAreKnown'
    BY <1>2, LeavingIsKnown DEF HandOver, Places
  <2> QED
    BY <1>2, <2>1 DEF HandOver, NoStrandedWaiter
<1>3. CASE /\ held /\ held' = held /\ pc' = [pc EXCEPT ![t] = "waiting"]
           /\ wait' = Block(w, t, TheQueue, FALSE)
  <2>1. Waiters' = Waiters \cup {t}
    BY <1>3, WaitTypes DEF HandOver, Waiters
  <2>2. /\ w \in WaitRecords(Threads, TheQueue) /\ OneNodeEach(w)
        /\ \A q \in TheQueue : ~Queued(w, q, t)
    BY DEF OffQueue, TheQueue
  <2>3. PICK x : x = Block(w, t, TheQueue, FALSE)
    OBVIOUS
  <2>4. OneNodeEach(x) /\ \A s : Queued(x, "waiting", s) <=> Queued(w, "waiting", s) \/ s = t
    <3>1. PICK d \in BOOLEAN : d = FALSE
      OBVIOUS
    <3>2. x = Block(w, t, TheQueue, d) /\ "waiting" \in TheQueue
      BY <2>3, <3>1 DEF TheQueue
    <3>3. /\ OneNodeEach(x)
          /\ \A q \in TheQueue : \A s : Queued(x, q, s) <=> Queued(w, q, s) \/ (q \in TheQueue /\ s = t)
      BY <2>2, <3>2, BlockMembers
    <3> QED
      BY <3>2, <3>3
  <2>5. /\ x.woken = [w.woken EXCEPT ![t] = {}] /\ x.state = [w.state EXCEPT ![t] = "blocked"]
        /\ w.woken \in [Threads -> SUBSET TheQueue] /\ w.state \in [Threads -> RunStates]
    BY <2>2, <2>3 DEF Block, WaitRecords
  <2>6. /\ \A s \in Threads \ {t} : x.woken[s] = wait.woken[s] /\ x.state[s] = wait.state[s]
        /\ x.woken[t] = {}
    BY <2>5 DEF OffQueue
  <2>7. ASSUME NEW s \in Threads
        PROVE  /\ Queued(x, "waiting", s) <=> s \in Waiters' /\ x.woken[s] = {}
               /\ s \in Waiters' /\ x.woken[s] # {} => Ready(x, s)
    <3>1. CASE s = t
      BY <2>1, <2>4, <2>6, <3>1
    <3>2. CASE s # t
      BY <2>1, <2>4, <2>6, <3>2 DEF OffQueue, HandOver, WaitersAreKnown, Chosen, Ready
    <3> QED
      BY <3>1, <3>2
  <2>8. wait' = x
    BY <1>3, <2>3
  <2>9. WaitersAreKnown'
    BY <2>4, <2>7, <2>8 DEF WaitersAreKnown, Chosen
  <2> QED
    BY <1>3, <2>9 DEF HandOver, NoStrandedWaiter
<1> QED
  BY <1>1, <1>2, <1>3 DEF HoldLoop

\* A killed waiter that leaves takes only its own turn, and that is noted.
LEMMA EndingKeeps ==
    ASSUME HandOver, TypeOK', NEW t \in Threads, OffQueue(t, wait'), UNCHANGED held,
           pc' = [pc EXCEPT ![t] = "ended"], lostTurn' = (lostTurn \/ (Chosen(t) /\ ~held))
    PROVE  HandOver'
<1>1. /\ WaitersAreKnown' /\ Waiters' = Waiters \ {t}
      /\ \A s \in Waiters' : Chosen(s)' = Chosen(s) /\ Ready(wait, s)' = Ready(wait, s)
  BY LeavingIsKnown DEF HandOver, Places
<1>2. ASSUME ~lostTurn', Waiters' # {}, ~held'
      PROVE  \E s \in Waiters' : Chosen(s)' /\ Ready(wait, s)'
  <2>1. ~lostTurn /\ ~held /\ ~Chosen(t) /\ Waiters # {}
    BY <1>1, <1>2
  <2>2. PICK s \in Waiters : Chosen(s) /\ Ready(wait, s)
    BY <2>1 DEF HandOver, NoStrandedWaiter
  <2> QED
    BY <1>1, <2>1, <2>2
<1> QED
  BY <1>1, <1>2 DEF HandOver, NoStrandedWaiter

\* release chooses a waiter whenever one has a node there; where none has, all of
\* them have been chosen before.
LEMMA ReleaseKeeps ==
    ASSUME HandOver, TypeOK', NEW t \in Threads, Release(t)
    PROVE  HandOver'
<1>1. /\ wait \in WaitRecords(Threads, TheQueue) /\ OneNodeEach(wait) /\ "waiting" \in TheQueue
      /\ wait.woken \in [Threads -> SUBSET TheQueue] /\ wait.state \in [Threads -> RunStates]
      /\ Waiters \subseteq Threads
  BY WaitTypes DEF HandOver, WaitersAreKnown, Waiters
<1>2. Waiters' = Waiters
  BY WaitTypes DEF HandOver, Release, Waiters
<1>3. PICK x : x = WakeOne(wait, "waiting") /\ wait' = x
  BY DEF Release
<1>4. CASE (\A s : ~Queued(wait, "waiting", s)) /\ x = wait
  <2>1. \A s \in Waiters : Chosen(s) /\ Ready(wait, s)
    BY <1>1, <1>4 DEF HandOver, WaitersAreKnown
  <2>2. WaitersAreKnown'
    BY <1>2, <1>3, <1>4 DEF HandOver, WaitersAreKnown, Chosen
  <2> QED
    BY <1>2, <1>3, <1>4, <2>1, <2>2 DEF HandOver, NoStrandedWaiter, Chosen, Ready
<1>5. ASSUME NEW first \in Threads, Woke(wait, x, TheQueue, "waiting", first) PROVE HandOver'
  <2>1. /\ first \in Waiters
        /\ \A s \in Threads : Queued(x, "waiting", s) <=> Queued(wait, "waiting", s) /\ s # first
        /\ "waiting" \in x.woken[first] /\ Ready(x, first)
        /\ \A s \in Threads \ {first} : x.woken[s] = wait.woken[s] /\ x.state[s] = wait.state[s]
    BY <1>1, <1>5 DEF Woke, HandOver, WaitersAreKnown, Ready
  <2>2. ASSUME NEW s \in Threads
        PROVE  /\ Queued(x, "waiting", s) <=> s \in Waiters /\ x.woken[s] = {}
               /\ s \in Waiters /\ x.woken[s] # {} => Ready(x, s)
    <3>1. CASE s = first
      BY <2>1, <3>1
    <3>2. CASE s # first
      BY <2>1, <3>2 DEF HandOver, WaitersAreKnown, Chosen, Ready
    <3> QED
      BY <3>1, <3>2
  <2>3. OneNodeEach(x)
    BY <1>1, <1>3, WakeOneMembers
  <2>4. WaitersAreKnown'
    BY <1>2, <1>3, <2>2, <2>3 DEF WaitersAreKnown, Chosen
  <2>5. Chosen(first)' /\ Ready(wait, first)'
    BY <1>3, <2>1 DEF Chosen, Ready
  <2> QED
    BY <1>2, <2>1, <2>4, <2>5 DEF HandOver, NoStrandedWaiter
<1> QED
  BY <1>1, <1>3, <1>4, <1>5, WakeOneMembers

\* A kill wakes its thread and chooses nobody.
LEMMA KillKeeps ==
    ASSUME HandOver, TypeOK', NEW t \in Threads, Kill(t)
    PROVE  HandOver'
<1>1. /\ wait \in WaitRecords(Threads, TheQueue) /\ OneNodeEach(wait)
      /\ wait.state \in [Threads -> RunStates] /\ Waiters \subseteq Threads
  BY WaitTypes DEF HandOver, WaitersAreKnown, Waiters
<1>2. PICK x : x = Unblock(wait, t) /\ wait' = x
  BY DEF Kill
<1>3. OneNodeEach(x) /\ \A s : Queued(x, "waiting", s) <=> Queued(wait, "waiting", s)
  BY <1>1, <1>2, UnblockMembers
<1>4. x.woken = wait.woken /\ \A s \in Threads : Ready(wait, s) => Ready(x, s)
  BY <1>1, <1>2 DEF Unblock, Ready
<1>5. Waiters' = Waiters /\ held' = held /\ lostTurn' = lostTurn
  BY DEF Kill, Waiters
<1>6. WaitersAreKnown'
  BY <1>2, <1>3, <1>4, <1>5 DEF HandOver, WaitersAreKnown, Chosen
<1>7. NoStrandedWaiter'
  BY <1>1, <1>2, <1>4, <1>5 DEF HandOver, NoStrandedWaiter, Chosen
<1> QED
  BY <1>6, <1>7 DEF HandOver

\* Release always finds somebody to wake if anybody sleeps, and the one it
\* wakes looks again (lock.zig:23-42): a waiter is left asleep on a free lock
\* only where the one that was chosen has been killed before it looked.
THEOREM NoStrandedWaiterHolds == Spec => []NoStrandedWaiter
<1>1. Init => WaitersAreKnown /\ NoStrandedWaiter
  <2> SUFFICES ASSUME Init PROVE WaitersAreKnown /\ NoStrandedWaiter
    OBVIOUS
  <2>1. Waiters = {}
    BY DEF Init, Waiters
  <2>2. wait = NoWaits(Threads, TheQueue) /\ wait.queue["waiting"] = <<>>
    BY DEF Init, NoWaits, TheQueue
  <2>3. OneNodeEach(wait)
    BY <2>2, EmptySeq DEF NoWaits, OneNodeEach, NoTwice
  <2>4. \A t \in Threads : ~Queued(wait, "waiting", t)
    BY <2>2, EmptySeq DEF Queued
  <2> QED
    BY <2>1, <2>3, <2>4 DEF WaitersAreKnown, NoStrandedWaiter
<1>2. TypeOK /\ TypeOK' /\ (WaitersAreKnown /\ NoStrandedWaiter) /\ [Next]_vars
        => (WaitersAreKnown /\ NoStrandedWaiter)'
  <2> SUFFICES ASSUME HandOver, TypeOK', [Next]_vars PROVE HandOver'
    BY DEF HandOver
  <2>1. ASSUME NEW t \in Threads, Hold(t) PROVE HandOver'
    <3>1. OffQueue(t, wait)
      BY <2>1, ComesOff DEF Hold, HandOver, Waiters
    <3> QED
      BY <2>1, <3>1, HoldLoopKeeps DEF Hold
  <2>2. ASSUME NEW t \in Threads, HoldAgain(t) PROVE HandOver'
    <3>1. OffQueue(t, Leave(wait, t))
      BY ComesOff DEF HandOver
    <3>2. CASE HoldLoop(t, Leave(wait, t))
      BY <3>1, <3>2, HoldLoopKeeps
    <3>3. CASE /\ wait' = Leave(wait, t) /\ pc' = [pc EXCEPT ![t] = "ended"] /\ UNCHANGED held
               /\ lostTurn' = (lostTurn \/ (Chosen(t) /\ ~held))
      BY <3>1, <3>3, EndingKeeps
    <3> QED
      BY <2>2, <3>2, <3>3 DEF HoldAgain
  <2>3. ASSUME NEW t \in Threads, Release(t) PROVE HandOver'
    BY <2>3, ReleaseKeeps
  <2>4. ASSUME NEW t \in Threads, Kill(t) PROVE HandOver'
    BY <2>4, KillKeeps
  <2>5. CASE UNCHANGED vars
    BY <2>5 DEF vars, HandOver, WaitersAreKnown, NoStrandedWaiter, Waiters, Chosen
  <2> QED
    BY <2>1, <2>2, <2>3, <2>4, <2>5 DEF Next
<1> QED
  BY <1>1, <1>2, TypeCorrect, PTL DEF Spec

==============================================================================
