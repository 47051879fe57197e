----------------------------- MODULE KernelEvent -----------------------------
(***************************************************************************)
(* src/src/kernel/event.zig: signal, poll, waitOne and waitMany, called by *)
(* any number of threads on any number of events.                          *)
(*                                                                         *)
(* WaitsOf[t] is the set of argument lists t may call waitMany with; a     *)
(* list of one is waitOne.  A wait may have a deadline, ahead or already   *)
(* passed; sched.kill may end it.                                          *)
(***************************************************************************)
EXTENDS EventObject, FiniteSets

CONSTANTS Threads, Events,
          WaitsOf,      \* [Threads -> sets of sequences of distinct events]
          PollsOf,      \* [Threads -> sets of events t may poll]
          Killable      \* the threads sched.kill may be called on

ASSUME KillableAssumption == IsFiniteSet(Threads) /\ Killable \subseteq Threads
ASSUME WaitsOfAssumption ==
    /\ WaitsOf \in [Threads -> SUBSET Seq(Events)]
    /\ \A t \in Threads : \A s \in WaitsOf[t] :
           Len(s) > 0 /\ \A i, j \in 1..Len(s) : s[i] = s[j] => i = j
ASSUME PollsOfAssumption == PollsOf \in [Threads -> SUBSET Events]

VARIABLES ev,           \* the events and who is blocked on them
          waitsFor,     \* the events of the waitMany a thread is blocked in, or <<>>
          deadline,     \* its deadline: "none", "ahead" or "passed"
          killed,       \* Thread.killed
          leftBehind    \* history: the signalled events a woken thread has come
                        \* back from without taking their signal

vars == <<ev, waitsFor, deadline, killed, leftBehind>>

Deadlines == {"none", "ahead", "passed"}

Waiting(t) == waitsFor[t] # <<>>
EventsOf(s) == {s[i] : i \in 1..Len(s)}
Asleep(t) == Waiting(t) /\ ~Ready(ev.wait, t)

Init ==
    /\ ev = QuietEvents(Threads, Events)
    /\ waitsFor = [t \in Threads |-> <<>>]
    /\ deadline = [t \in Threads |-> "none"]
    /\ killed = {}
    /\ leftBehind = {}

-----------------------------------------------------------------------------
\* The index of the event waitMany answers with: the lowest that is signalled.
FirstSignalled(s) ==
    CHOOSE i \in 1..Len(s) :
        /\ ev.count[s[i]] > 0
        /\ \A j \in 1..(i - 1) : ev.count[s[j]] = 0

AnySignalled(s) == \E i \in 1..Len(s) : ev.count[s[i]] > 0

Returned(t) ==
    /\ waitsFor' = [waitsFor EXCEPT ![t] = <<>>]
    /\ deadline' = [deadline EXCEPT ![t] = "none"]

\* t is back from its wait with the signals of taken.  What woke it besides is
\* left behind: waitMany wakes nobody in its place (event.zig:91-105), so the
\* next to ask finds the signal, and a thread already asleep for it does not.
\* A signal is no longer behind once its event holds none.
ComesBack(t, taken) ==
    leftBehind' = {e \in leftBehind \cup (ev.wait.woken[t] \ taken) : ev'.count[e] > 0}

\* The loop of waitMany (and waitOne), entered or re-entered with interrupts
\* off; w is the waiting state as the caller finds it, d its deadline.
WaitLoop(t, w, s, d) ==
    \/ /\ AnySignalled(s)
       /\ ev' = Consume([ev EXCEPT !.wait = w], s[FirstSignalled(s)])
       /\ Returned(t)
       /\ ComesBack(t, {s[FirstSignalled(s)]})
    \/ /\ ~AnySignalled(s) /\ (t \in killed \/ d = "passed")
       /\ ev' = [ev EXCEPT !.wait = w]
       /\ Returned(t)
       /\ ComesBack(t, {})
    \/ /\ ~AnySignalled(s) /\ t \notin killed /\ d # "passed"
       /\ ev' = BlockOn([ev EXCEPT !.wait = w], t, EventsOf(s), d = "ahead")
       /\ waitsFor' = [waitsFor EXCEPT ![t] = s]
       /\ deadline' = [deadline EXCEPT ![t] = d]
       /\ ComesBack(t, {})

WaitMany(t, s, d) ==
    /\ ~Waiting(t)
    /\ s \in WaitsOf[t]
    /\ WaitLoop(t, ev.wait, s, d)
    /\ UNCHANGED killed

\* A plausible slip: a deadline that has passed is looked at before the events.
WaitManyAgainLate(t) ==
    /\ Waiting(t) /\ Ready(ev.wait, t)
    /\ \/ /\ Fired(ev.wait, t, killed) /\ deadline[t] # "passed"
          /\ WaitLoop(t, Leave(ev.wait, t), waitsFor[t], deadline[t])
       \/ /\ ~Fired(ev.wait, t, killed) \/ deadline[t] = "passed"
          /\ ev' = [ev EXCEPT !.wait = Leave(@, t)]
          /\ Returned(t)
          /\ ComesBack(t, {})
    /\ UNCHANGED killed

\* Back from blockOn: look again, or error.TimedOut.
WaitManyAgain(t) ==
    /\ Waiting(t) /\ Ready(ev.wait, t)
    /\ \/ /\ Fired(ev.wait, t, killed)
          /\ WaitLoop(t, Leave(ev.wait, t), waitsFor[t], deadline[t])
       \/ /\ ~Fired(ev.wait, t, killed)
          /\ ev' = [ev EXCEPT !.wait = Leave(@, t)]
          /\ Returned(t)
          /\ ComesBack(t, {})
    /\ UNCHANGED killed

\* Event.signal, by a thread or by an interrupt.
Signal(e) ==
    /\ ev' = SignalLocked(ev, e)
    /\ UNCHANGED <<waitsFor, deadline, killed, leftBehind>>

\* Event.poll; a poll of an unsignalled event changes nothing.
Poll(t, e) ==
    /\ ~Waiting(t) /\ e \in PollsOf[t]
    /\ ev.count[e] > 0
    /\ ev' = Consume(ev, e)
    /\ leftBehind' = {f \in leftBehind : ev'.count[f] > 0}
    /\ UNCHANGED <<waitsFor, deadline, killed>>

\* The deadline of a wait goes by and the tick wakes the sleeper.
Expire(t) ==
    /\ deadline[t] = "ahead"
    /\ deadline' = [deadline EXCEPT ![t] = "passed"]
    /\ ev' = [ev EXCEPT !.wait = Unblock(@, t)]
    /\ UNCHANGED <<waitsFor, killed, leftBehind>>

\* sched.kill
Kill(t) ==
    /\ t \in Killable \ killed
    /\ killed' = killed \cup {t}
    /\ ev' = [ev EXCEPT !.wait = Unblock(@, t)]
    /\ UNCHANGED <<waitsFor, deadline, leftBehind>>

Next ==
    \/ \E e \in Events : Signal(e)
    \/ \E t \in Threads :
        \/ \E s \in WaitsOf[t], d \in Deadlines : WaitMany(t, s, d)
        \/ WaitManyAgain(t)
        \/ \E e \in Events : Poll(t, e)
        \/ Expire(t)
        \/ Kill(t)

\* A runnable thread is scheduled and the clock goes on.
Fairness == \A t \in Threads : WF_vars(WaitManyAgain(t)) /\ WF_vars(Expire(t))

Spec == Init /\ [][Next]_vars /\ Fairness

-----------------------------------------------------------------------------
TypeOK ==
    /\ ev \in EventRecords(Threads, Events)
    /\ waitsFor \in [Threads -> Seq(Events)]
    /\ deadline \in [Threads -> Deadlines]
    /\ killed \in SUBSET Killable
    /\ leftBehind \in SUBSET Events

\* As long as anybody sleeps on an event, every signal it holds has a woken
\* thread on its way to take it: no signal is left on an event beside a thread
\* asleep for it (event.zig:3-8, and the lost-wakeup rule of wait.zig:21-26).
\* One thing alone undoes this, whatever waits are made together and whoever is
\* killed: a thread woken for the event that came back with another event's
\* signal, or was being ended.  And a count stops at its limit and does not
\* come round to nothing (event.zig:52-54).
NoLostWakeup ==
    /\ TypeOK
    /\ \A t \in Threads, e \in Events :
          Asleep(t) /\ e \in EventsOf(waitsFor[t]) /\ e \notin leftBehind
              => ev.count[e] <= Cardinality({u \in Threads : e \in ev.wait.woken[u]})

\* waitMany answers TimedOut to a thread nobody is ending only when every
\* signal its events hold is another woken thread's to take or was left behind
\* by one: a deadline racing a signal is decided for the signal
\* (event.zig:93-105, wait.zig:138-146).
TimeoutIsHonest ==
    [][\A t \in Threads \ killed :
          Waiting(t) /\ waitsFor'[t] = <<>> /\ ev'.count = ev.count
              => \A e \in EventsOf(waitsFor[t]) \ leftBehind :
                     ev.count[e] <= Cardinality({u \in Threads \ {t} : e \in ev.wait.woken[u]})]_vars

\* A signalled event with a thread in a wait for it does not stay so: that
\* thread returns, another one has taken the signal (event.zig:93-105), or
\* has been woken for it and gone without it.
SignalReachesWaiter ==
    \A t \in Threads, e \in Events :
        (Waiting(t) /\ e \in EventsOf(waitsFor[t]) /\ ev.count[e] > 0)
            ~> (~Waiting(t) \/ e \notin EventsOf(waitsFor[t]) \/ ev.count[e] = 0 \/ e \in leftBehind)

==============================================================================
