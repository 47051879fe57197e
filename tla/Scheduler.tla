------------------------------ MODULE Scheduler ------------------------------
(***************************************************************************)
(* src/src/kernel/sched.zig: which thread runs, and every list a thread    *)
(* can be on.                                                              *)
(*                                                                         *)
(* One core.  Each action is one interrupts-off section: a call of the     *)
(* thread that runs, or an interrupt taken by it.  The scheduler's globals *)
(* and the threads' scheduling fields are one record s, because schedule() *)
(* is a sequence of steps (collect, put back, wake sleepers, pick, load)   *)
(* each of which starts from what the one before left.                     *)
(*                                                                         *)
(* Who waits for what is left to WaitQueue and who is whose parent to      *)
(* Processes: here any waiting thread may be woken at any moment, and the  *)
(* thread that runs may collect any corpse.                                *)
(***************************************************************************)
EXTENDS RunQueue, SequencesExt

CONSTANTS Threads,          \* slots for thread structures, the idle thread's too
          Idle,             \* idle_thread
          InitThread,       \* the thread setInit names
          KernelThreads,    \* those that never enter user mode
          Priority,         \* Thread.priority
          SliceFor,         \* sliceFor, by thread
          Killers,          \* those with the kill and power capabilities
          Boot,             \* the threads spawned before start, in order
          Nobody

ASSUME SchedulerAssumption ==
    /\ Nobody \notin Threads
    /\ Idle \in KernelThreads /\ KernelThreads \subseteq Threads
    /\ InitThread \in Threads \ KernelThreads
    /\ Killers \subseteq Threads
    /\ Priority \in [Threads -> Nat]
    /\ SliceFor \in [Threads -> Nat \ {0}]
    /\ Boot \in Seq(Threads \ {Idle})

VARIABLES s,            \* the scheduler
          awaited,      \* the threads whose status somebody means to collect
          killed,       \* Thread.killed
          making        \* the child each thread has created and not yet published

vars == <<s, awaited, killed, making>>

ThreadStates == {"none", "ready", "running", "blocked", "sleeping", "dead"}
Kernel == "kernel"      \* the address space kernel threads share

Waiting(t) == s.state[t] \in {"blocked", "sleeping"}
Alive(t) == s.state[t] \notin {"none", "dead"}
Dead == {t \in Threads : s.state[t] = "dead"}
Unpublished(u) == \E t \in Threads : making[t] = u

-----------------------------------------------------------------------------
(***************************************************************************)
(* The lists.  pushList stops the machine when the thread is on one.       *)
(***************************************************************************)
PushSleeper(x, t) ==
    [x EXCEPT !.sleepers = <<t>> \o @, !.queued = @ \cup {t},
              !.panic = @ \/ t \in x.queued]

PushCorpse(x, t) ==
    [x EXCEPT !.toReap = <<t>> \o @, !.queued = @ \cup {t},
              !.panic = @ \/ t \in x.queued]

PushOn(x, a, t) ==
    [x EXCEPT !.array[a] = Push(@, x.queued, t, Priority[t]),
              !.queued = @ \cup {t}]

PushActive(x, t) == PushOn(x, x.active, t)
PushExpired(x, t) == PushOn(x, 1 - x.active, t)

\* removeFromList, on the sleepers
RemoveSleeper(x, t) ==
    IF Contains(x.sleepers, t)
    THEN [x EXCEPT !.sleepers = Remove(@, t), !.queued = @ \ {t}, !.due = @ \ {t}]
    ELSE x

\* A plausible slip: the sleeper list is left to the next tick.
UnblockKeepingSleeper(x, t) ==
    IF x.state[t] \notin {"blocked", "sleeping"} THEN x
    ELSE [PushActive([x EXCEPT !.state[t] = "ready"], t) EXCEPT !.resched = TRUE]

\* unblock: a no-op for a thread that is not waiting.
Unblock(x, t) ==
    IF x.state[t] \notin {"blocked", "sleeping"} THEN x
    ELSE [PushActive([RemoveSleeper(x, t) EXCEPT !.state[t] = "ready"], t)
             EXCEPT !.resched = TRUE]

\* A plausible slip: the list is taken for one sorted by deadline.
WakeSleepersInOrder(x) ==
    LET n  == CHOOSE i \in 0..Len(x.sleepers) :
                /\ \A j \in 1..i : x.sleepers[j] \in x.due
                /\ i = Len(x.sleepers) \/ x.sleepers[i + 1] \notin x.due
        go == SubSeq(x.sleepers, 1, n)
    IN  FoldLeft(PushActive,
                 [x EXCEPT !.sleepers = SubSeq(@, n + 1, Len(@)),
                           !.queued = @ \ Range(go),
                           !.due = @ \ Range(go),
                           !.state = [t \in Threads |->
                               IF t \in Range(go) THEN "ready" ELSE @[t]]],
                 go)

\* wakeSleepers: every sleeper whose deadline has passed, in list order.
WakeSleepers(x) ==
    LET up == SelectSeq(x.sleepers, LAMBDA t : t \in x.due)
    IN  FoldLeft(PushActive,
                 [x EXCEPT !.sleepers = SelectSeq(@, LAMBDA t : t \notin x.due),
                           !.queued = @ \ Range(up),
                           !.due = @ \ Range(up),
                           !.state = [t \in Threads |->
                               IF t \in Range(up) THEN "ready" ELSE @[t]]],
                 up)

\* reap: off the collection list, out of the registry, its stack and its page
\* directory freed; underfoot records that the CPU was standing on one of them.
Reap(x, t) ==
    [x EXCEPT !.state[t] = "none", !.toReap = Remove(@, t), !.queued = @ \ {t},
              !.space[t] = Kernel,
              !.underfoot = @ \/ t = x.current \/ t = x.loaded]

\* A plausible slip: the thread that is exiting frees itself.
CollectAllCorpses(x) == FoldLeft(Reap, x, x.toReap)

\* collectCorpses: all but the thread whose stack this runs on.
CollectCorpses(x) ==
    FoldLeft(Reap, x, SelectSeq(x.toReap, LAMBDA t : t # x.current))

-----------------------------------------------------------------------------
(***************************************************************************)
(* schedule()                                                              *)
(***************************************************************************)
\* A plausible slip: a thread out of slice goes back to the current epoch.
PutBackInEpoch(x) ==
    LET t == x.current IN
    IF t = Nobody \/ x.state[t] \notin {"running", "ready"} THEN x
    ELSE PushActive([x EXCEPT !.state[t] = "ready",
                              !.slice[t] = IF @ = 0 THEN SliceFor[t] ELSE @], t)

\* The outgoing thread: out of slice, to the expired array, refilled.
PutBack(x) ==
    LET t == x.current IN
    IF t = Nobody \/ x.state[t] \notin {"running", "ready"} THEN x
    ELSE IF x.slice[t] = 0
         THEN PushExpired([x EXCEPT !.state[t] = "ready", !.slice[t] = SliceFor[t]], t)
         ELSE PushActive([x EXCEPT !.state[t] = "ready"], t)

\* Epoch boundary: the arrays swap when the active one has nothing to pop.
SwapIfEmpty(x) ==
    IF PopsNothing(x.array[x.active])
    THEN [x EXCEPT !.array[x.active] = Pop(@), !.active = 1 - @]
    ELSE x

SwitchTo(x, t) ==
    [x EXCEPT !.state[t] = "running", !.current = t,
              !.loaded = IF t = x.current THEN @ ELSE x.space[t]]

\* The next thread, or the idle thread when neither array has one.
PickNext(x) ==
    LET rq == x.array[x.active] IN
    IF PopsNothing(rq)
    THEN SwitchTo([x EXCEPT !.array[x.active] = Pop(rq)], Idle)
    ELSE SwitchTo([x EXCEPT !.array[x.active] = Pop(rq), !.queued = @ \ {Popped(rq)}],
                  Popped(rq))

\* Collect, put back, wake, pick, in that order.  Each intermediate scheduler
\* is the one member of a set, so that TLC computes it once.
Schedule(x) ==
    \E collected \in {CollectCorpses([x EXCEPT !.resched = FALSE])} :
    \E back \in {PutBack(collected)} :
    \E woken \in {SwapIfEmpty(WakeSleepers(back))} :
        s' = PickNext(woken)

-----------------------------------------------------------------------------
\* What create leaves: registered, ready, on no list, in the kernel's space.
Fresh(x, t) ==
    [x EXCEPT !.state[t] = "ready", !.slice[t] = SliceFor[t], !.space[t] = Kernel]

\* Before start: the idle thread and the boot threads exist, nothing runs.
Init ==
    /\ s = FoldLeft(LAMBDA x, t : PushActive(Fresh(x, t), t),
              [state    |-> [t \in Threads |-> IF t = Idle THEN "ready" ELSE "none"],
               queued   |-> {},
               array    |-> [a \in 0..1 |-> EmptyRunQueue],
               active   |-> 0,
               sleepers |-> <<>>,
               toReap   |-> <<>>,
               due      |-> {},
               slice    |-> SliceFor,
               space    |-> [t \in Threads |-> Kernel],
               loaded   |-> Kernel,
               current  |-> Nobody,
               resched  |-> FALSE,
               panic    |-> FALSE,
               underfoot |-> FALSE], Boot)
    /\ awaited = {} /\ killed = {} /\ making = [t \in Threads |-> Nobody]

Start ==
    /\ s.current = Nobody
    /\ Schedule(s)
    /\ UNCHANGED <<awaited, killed, making>>

Runs(t) == s.current = t

\* The idle thread calls nothing, and exec.start publishes the child it has
\* created before anything else; only an interrupt comes between.
Calls(t) == Runs(t) /\ t # Idle /\ making[t] = Nobody

(***************************************************************************)
(* What the running thread calls.                                          *)
(***************************************************************************)
\* spawn: a free slot becomes a thread of the kernel's own.
Spawn(t, u) ==
    /\ Calls(t) /\ u \in KernelThreads /\ s.state[u] = "none"
    /\ s' = PushActive(Fresh(s, u), u)
    /\ awaited' = awaited \ {u} /\ killed' = killed \ {u}
    /\ UNCHANGED making

\* createAwaited: a free slot becomes a process, runnable once published.
CreateAwaited(t, u) ==
    /\ Calls(t) /\ u \notin KernelThreads \cup {InitThread} /\ s.state[u] = "none"
    /\ s' = Fresh(s, u)
    /\ awaited' = awaited \cup {u} /\ killed' = killed \ {u}
    /\ making' = [making EXCEPT ![t] = u]

Publish(t) ==
    /\ Runs(t) /\ making[t] # Nobody
    /\ s' = PushActive(s, making[t])
    /\ making' = [making EXCEPT ![t] = Nobody]
    /\ UNCHANGED <<awaited, killed>>

\* childEntry and enterUserMode: the thread takes an address space of its own.
EnterUserMode(t) ==
    /\ Calls(t) /\ t \notin KernelThreads /\ s.space[t] = Kernel
    /\ s' = [s EXCEPT !.space[t] = t, !.loaded = t]
    /\ UNCHANGED <<awaited, killed, making>>

Yield(t) ==
    /\ Calls(t)
    /\ Schedule([s EXCEPT !.state[t] = "ready"])
    /\ UNCHANGED <<awaited, killed, making>>

\* blockCurrent without a deadline.
BlockCurrent(t) ==
    /\ Calls(t)
    /\ Schedule([s EXCEPT !.state[t] = "blocked"])
    /\ UNCHANGED <<awaited, killed, making>>

\* sleepUntil, and blockCurrent with a deadline; the deadline may have passed
\* by the time schedule reads the clock.
SleepUntil(t, passed) ==
    /\ Calls(t)
    /\ Schedule(PushSleeper(
                [s EXCEPT !.state[t] = "sleeping",
                          !.due = IF passed THEN @ \cup {t} ELSE @ \ {t}], t))
    /\ UNCHANGED <<awaited, killed, making>>

\* A wake by the thread that runs: the switch waits for the next interrupt.
Wake(t, u) ==
    /\ Calls(t) /\ Waiting(u)
    /\ s' = Unblock(s, u)
    /\ UNCHANGED <<awaited, killed, making>>

\* kill: refused for init, for the idle thread and for one with no address
\* space; every thread create makes has one.
Kill(t, u) ==
    /\ Calls(t) /\ t \in Killers /\ Alive(u)
    /\ u \notin {InitThread, Idle}
    /\ killed' = killed \cup {u}
    /\ s' = Unblock(s, u)
    /\ UNCHANGED <<awaited, making>>

\* killSweep, over the live threads in some registry order.
KillSweep(t) ==
    /\ Calls(t) /\ t \in Killers
    /\ LET swept == {u \in Threads \ {t, Idle} : Alive(u)}
       IN  /\ killed' = killed \cup swept
           /\ \E order \in SetToSeqs(swept \ killed) : s' = FoldLeft(Unblock, s, order)
    /\ UNCHANGED <<awaited, making>>

\* waitChild and waitFor, taking the status of a corpse.
Collect(t, u) ==
    /\ Calls(t) /\ u \in Dead
    /\ s' = Reap(s, u)
    /\ awaited' = awaited \ {u}
    /\ UNCHANGED <<killed, making>>

\* waitFor, given up by a killed parent.
Abandon(t, u) ==
    /\ Calls(t) /\ t \in killed /\ u \in awaited /\ Alive(u) /\ ~Unpublished(u)
    /\ awaited' = awaited \ {u}
    /\ UNCHANGED <<s, killed, making>>

\* exitWith: dead, queued for collection unless awaited, whoever waits woken.
Exited(x, t, wakes) ==
    LET dead == [x EXCEPT !.state[t] = "dead"] IN
    FoldLeft(Unblock, IF t \in awaited THEN dead ELSE PushCorpse(dead, t), wakes)

\* Whom a wake may reach; t itself stands for nobody, being past waking.
Woken(t) == {t} \cup {u \in Threads : Waiting(u)}

\* exitWith from the point where the thread is retired.  The parent may be
\* waiting, and init, which adopts the children; without an init the orphans
\* are nobody's, and those already dead are freed.
ExitWith(t, x) ==
    /\ t # Idle
    /\ \/ \E parent, adopter \in Woken(t) :
            /\ Schedule(Exited(x, t, <<parent, adopter>>))
            /\ UNCHANGED awaited
       \/ \E parent \in Woken(t), orphans \in SUBSET (Threads \ {t, Idle, InitThread}) :
            /\ \A u \in orphans : ~Unpublished(u)
            /\ Schedule(FoldLeft(Reap, Exited(x, t, <<parent>>),
                                      SetToSeq(orphans \cap Dead)))
            /\ awaited' = awaited \ orphans
    /\ UNCHANGED <<killed, making>>

Exit(t) == Calls(t) /\ ExitWith(t, s)

(***************************************************************************)
(* Interrupts, taken by the thread that runs.                              *)
(***************************************************************************)
OnTick(x) ==
    LET t == x.current
        left == IF x.slice[t] > 0 THEN x.slice[t] - 1 ELSE 0
    IN  [x EXCEPT !.slice[t] = left,
                  !.resched = @ \/ left = 0 \/ x.sleepers # <<>>]

\* onInterruptExit
InterruptExit(t, x, fromUser) ==
    \/ /\ fromUser /\ t \in killed
       /\ ExitWith(t, x)
    \/ /\ ~(fromUser /\ t \in killed)
       /\ IF x.resched THEN Schedule(x) ELSE s' = x
       /\ UNCHANGED <<awaited, killed, making>>

\* What the interrupt may have found: ring 3 takes a space of one's own, and a
\* thread part way through a spawn is in the kernel.
FromUser(t) ==
    IF s.space[t] = Kernel \/ making[t] # Nobody THEN {FALSE} ELSE BOOLEAN

Tick ==
    \E t \in Threads : Runs(t) /\ \E fromUser \in FromUser(t) :
        InterruptExit(t, OnTick(s), fromUser)

\* A device interrupt whose handler wakes a thread.
Interrupt(u) ==
    /\ Waiting(u)
    /\ \E t \in Threads : Runs(t) /\ \E fromUser \in FromUser(t) :
        InterruptExit(t, Unblock(s, u), fromUser)

\* A sleeper's deadline goes by.
Elapse(t) ==
    /\ s.state[t] = "sleeping" /\ t \notin s.due
    /\ s' = [s EXCEPT !.due = @ \cup {t}]
    /\ UNCHANGED <<awaited, killed, making>>

Next ==
    \/ Start \/ Tick
    \/ \E t \in Threads :
        \/ Publish(t) \/ EnterUserMode(t) \/ Yield(t) \/ BlockCurrent(t)
        \/ \E passed \in BOOLEAN : SleepUntil(t, passed)
        \/ KillSweep(t) \/ Exit(t) \/ Interrupt(t) \/ Elapse(t)
        \/ \E u \in Threads :
            \/ Spawn(t, u) \/ CreateAwaited(t, u) \/ Wake(t, u) \/ Kill(t, u)
            \/ Collect(t, u) \/ Abandon(t, u)

\* The timer goes on ticking and the boot reaches start.
Fairness == WF_vars(Start) /\ WF_vars(Tick)

Spec == Init /\ [][Next]_vars /\ Fairness

\* Nothing new happens to a thread: none begins to wait and none is made.
OnlyComputing ==
    \A t \in Threads : /\ Waiting(t)' => Waiting(t)
                       /\ Alive(t)' => Alive(t)

-----------------------------------------------------------------------------
TypeOK ==
    /\ s \in [state : [Threads -> ThreadStates], queued : SUBSET Threads,
              array : [0..1 -> RunQueues(Threads)], active : 0..1,
              sleepers : Seq(Threads), toReap : Seq(Threads), due : SUBSET Threads,
              slice : [Threads -> Nat], space : [Threads -> Threads \cup {Kernel}],
              loaded : Threads \cup {Kernel}, current : Threads \cup {Nobody},
              resched : BOOLEAN, panic : BOOLEAN, underfoot : BOOLEAN]
    /\ \A t \in Threads : s.slice[t] <= SliceFor[t]
    /\ awaited \subseteq Threads /\ killed \subseteq Threads
    /\ making \in [Threads -> Threads \cup {Nobody}]

Times(q, t) == Cardinality({i \in 1..Len(q) : q[i] = t})

InArray(t) == MapThenSumSet(LAMBDA a :
                  MapThenSumSet(LAMBDA p : Times(s.array[a].level[p], t), Levels), 0..1)

\* A thread is on at most one of the run queues, the sleeper list and the reap
\* list, `queued` says whether it is on one, and the stop in pushList is never
\* reached (sched.zig:58-85, thread.zig:94-102).
OneListAtATime ==
    /\ ~s.panic
    /\ \A t \in Threads :
          InArray(t) + Times(s.sleepers, t) + Times(s.toReap, t)
              = IF t \in s.queued THEN 1 ELSE 0

\* The bitmap advertises exactly the levels that have a thread, so a pop finds
\* one whenever there is one (queue.zig:77-104).
BitmapIsExact ==
    \A a \in 0..1, p \in Levels :
        p \in s.array[a].bitmap <=> s.array[a].level[p] # <<>>

\* No thread drops out of the scheduler's sight: one that is ready is on a run
\* queue (unless its maker has yet to publish it), one that sleeps until a
\* deadline is on the sleeper list.
NoLostThread ==
    \A t \in Threads \ {Idle} :
        /\ s.state[t] = "ready" /\ ~Unpublished(t) => InArray(t) = 1
        /\ s.state[t] = "sleeping" => Times(s.sleepers, t) = 1

\* The intrusive lists stay what schedule, wakeSleepers and reap take them for,
\* in whatever order timeouts, wakes, kills and deaths touch them, and a thread
\* that is to run again is on one.
ListsAreSound == TypeOK /\ OneListAtATime /\ BitmapIsExact /\ NoLostThread

\* What has been freed is nowhere, and what has died is not run again: no list,
\* not the CPU, and not the page directory that is loaded; and nothing is freed
\* while the CPU stands on it (sched.zig:212-271, 610-627, 652-659).
FreedIsForgotten ==
    /\ ~s.underfoot
    /\ \A t \in Threads :
        /\ s.state[t] = "none" =>
              /\ Times(s.toReap, t) = 0
              /\ s.loaded # t
        /\ s.state[t] \in {"none", "dead"} =>
              InArray(t) = 0 /\ Times(s.sleepers, t) = 0 /\ s.current # t
    /\ s.current # Nobody => s.loaded = s.space[s.current]

Owed(t) ==
    \/ s.state[t] = "sleeping" /\ t \in s.due
    \/ t \in Dead /\ t \notin awaited

\* A sleeper whose deadline has passed is made runnable and a corpse that nobody
\* awaits is freed, whoever has the CPU (sched.zig:508-526, 616-627).
NothingStaysOwed == \A t \in Threads \ {Idle} : []<>~Owed(t)

\* Once no thread begins to wait and none is made, none stays ready for ever:
\* each gets the CPU whatever the priorities and whoever gives way or is woken
\* meanwhile, as an epoch ends when every slice is spent (sched.zig:3-7).
EveryoneRuns ==
    <>[][OnlyComputing]_vars =>
        \A t \in Threads \ {Idle} : []<>(s.state[t] # "ready" \/ Unpublished(t))

==============================================================================
