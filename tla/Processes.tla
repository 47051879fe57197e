------------------------------ MODULE Processes ------------------------------
(***************************************************************************)
(* Parents and children: the life cycle half of src/src/kernel/sched.zig   *)
(* (createAwaited, exitWith, orphanChildren, waitChild, waitFor, kill,     *)
(* reap), the child event a process may watch, and the supervising loop of *)
(* src/src/user/init.zig that relies on all of it.                         *)
(*                                                                         *)
(* Every call is one interrupts-off section up to the point where it       *)
(* blocks (WaitQueue).  A process is in user code, inside one of the two   *)
(* waits, or in the supervising loop's waitMany.                           *)
(***************************************************************************)
EXTENDS EventObject

CONSTANTS Procs,            \* slots for threads
          InitProc,         \* init_id
          BootThread,       \* the kernel thread init is a child of, or Nobody
          Supervisors,      \* processes that run the supervising loop
          Killable,         \* processes a kill may be aimed at
          Asked,            \* the ids sys_wait is given
          Nobody

ASSUME ProcessAssumption ==
    /\ Nobody \notin Procs
    /\ InitProc \in Procs /\ BootThread \in (Procs \cup {Nobody}) \ {InitProc}
    /\ Supervisors \subseteq Procs /\ Killable \subseteq Procs
    /\ Asked \subseteq Procs \cup {Nobody}

VARIABLES life,         \* none, live (running, ready, waiting), dead
          parent,       \* Thread.parent_id; Nobody is 0
          awaited,      \* Thread.awaited
          toReap,       \* the collection list
          killed,       \* Thread.killed
          ev,           \* the wait queues and the child events
          doing         \* the call each process is in

vars == <<life, parent, awaited, toReap, killed, ev, doing>>

ExitQueue(p) == <<"exit_queue", p>>
ChildExit(p) == <<"child_exit", p>>
ChildEvent(p) == <<"child_event", p>>

Queues == {ExitQueue(p) : p \in Procs} \cup {ChildExit(p) : p \in Procs}
Events == {ChildEvent(p) : p \in Procs}

\* user: not in a call; waitFor: waiting for `child`; waitChild: waiting for
\* the child with that id, or for any when it is 0 (Nobody), with a deadline or
\* for ever; waitMany: the supervising loop between two rounds of collecting.
Calls == [op : {"user", "waitMany"}, child : {Nobody}]
            \cup [op : {"waitFor"}, child : Procs]
            \cup [op : {"waitChild"}, child : Procs \cup {Nobody}, timed : BOOLEAN]
User == [op |-> "user", child |-> Nobody]

Live(p) == life[p] = "live"
Children(p) == {c \in Procs \ {p} : life[c] # "none" /\ parent[c] = p}
DeadChildren(p) == {c \in Children(p) : life[c] = "dead"}
\* Those the call p is in asks for.
Wanted(p) == {c \in Children(p) : doing[p].child \in {c, Nobody}}
DeadWanted(p) == {c \in DeadChildren(p) : doing[p].child \in {c, Nobody}}
In(p, op) == Live(p) /\ doing[p].op = op
Resumed(p, op) == In(p, op) /\ Ready(ev.wait, p)
Asleep(p, op) == In(p, op) /\ ~Ready(ev.wait, p)

Init ==
    /\ life = [p \in Procs |-> IF p \in {InitProc, BootThread} THEN "live" ELSE "none"]
    /\ parent = [p \in Procs |-> IF p = InitProc THEN BootThread ELSE Nobody]
    /\ awaited = {} /\ toReap = {} /\ killed = {}
    /\ ev = [count |-> [e \in Events |-> 0], wait |-> NoWaits(Procs, Queues \cup Events)]
    /\ doing = [p \in Procs |-> User]

Sets(p, call) == doing' = [doing EXCEPT ![p] = call]

-----------------------------------------------------------------------------
\* reap, on a set of corpses.
Reap(C) ==
    /\ life' = [p \in Procs |-> IF p \in C THEN "none" ELSE life[p]]
    /\ toReap' = toReap \ C

\* collectCorpses, at the top of some later schedule.
CollectCorpse(c) ==
    /\ c \in toReap
    /\ Reap({c})
    /\ UNCHANGED <<parent, awaited, killed, ev, doing>>

(***************************************************************************)
(* spawnAsync, and spawn up to its call of waitFor: the child may have run *)
(* and ended before the parent gets there.                                 *)
(***************************************************************************)
Spawn(p, c, sync) ==
    /\ In(p, "user") /\ p # BootThread
    /\ life[c] = "none" /\ c \notin {InitProc, BootThread}
    /\ life' = [life EXCEPT ![c] = "live"]
    /\ parent' = [parent EXCEPT ![c] = p]
    /\ awaited' = awaited \cup {c}
    /\ killed' = killed \ {c}
    /\ doing' = [doing EXCEPT ![c] = User,
                              ![p] = IF sync THEN [op |-> "waitFor", child |-> c] ELSE User]
    /\ ev' = [ev EXCEPT !.count = [@ EXCEPT ![ChildEvent(c)] = 0]]
    /\ UNCHANGED toReap

\* A plausible slip: blockOn's refusal is taken for a wake.
WaitForUnchecked(p) ==
    /\ Resumed(p, "waitFor")
    /\ LET kid == doing[p].child IN
        \/ /\ life[kid] = "dead"
           /\ Reap({kid})
           /\ awaited' = awaited \ {kid}
           /\ ev' = [ev EXCEPT !.wait = Leave(@, p)]
           /\ Sets(p, User)
        \/ /\ life[kid] # "dead"
           /\ ev' = IF p \in killed THEN [ev EXCEPT !.wait = Leave(@, p)]
                    ELSE [ev EXCEPT !.wait = Block(Leave(@, p), p, {ExitQueue(kid)}, FALSE)]
           /\ UNCHANGED <<life, toReap, awaited, doing>>
    /\ UNCHANGED <<parent, killed>>

\* waitFor, at its first look or after a wake.
WaitFor(p) ==
    /\ Resumed(p, "waitFor")
    /\ LET kid == doing[p].child IN
        \/ /\ life[kid] = "dead"
           /\ Reap({kid})
           /\ awaited' = awaited \ {kid}
           /\ ev' = [ev EXCEPT !.wait = Leave(@, p)]
           /\ Sets(p, User)
        \/ /\ life[kid] # "dead" /\ p \in killed
           /\ awaited' = awaited \ {kid}
           /\ ev' = [ev EXCEPT !.wait = Leave(@, p)]
           /\ Sets(p, User)
           /\ UNCHANGED <<life, toReap>>
        \/ /\ life[kid] # "dead" /\ p \notin killed
           /\ ev' = [ev EXCEPT !.wait = Block(Leave(@, p), p, {ExitQueue(kid)}, FALSE)]
           /\ UNCHANGED <<life, toReap, awaited, doing>>
    /\ UNCHANGED <<parent, killed>>

\* The status of a dead child is taken and the child freed.
CollectOne(p) ==
    \E c \in DeadWanted(p) :
        /\ Reap({c})
        /\ awaited' = awaited \ {c}
        /\ ev' = [ev EXCEPT !.wait = Leave(@, p)]
        /\ Sets(p, User)

\* sys_wait by a process in user code.
WaitChild(p, id, timed) ==
    /\ Resumed(p, "user") /\ p \notin Supervisors /\ p # BootThread
    /\ Sets(p, [op |-> "waitChild", child |-> id, timed |-> timed])
    /\ UNCHANGED <<life, parent, awaited, toReap, killed, ev>>

\* waitChild has not been in blockOn yet.
FirstPass(p) == ev.wait.woken[p] = {} /\ ~Queued(ev.wait, ChildExit(p), p)

\* One pass of waitChild, at first or after a wake: take a corpse; answer
\* NoChildren, or TimedOut because blockOn refuses (a kill, or a deadline that
\* has passed, as POLL always has); or block.
WaitChildLook(p) ==
    /\ Resumed(p, "waitChild")
    /\ FirstPass(p) \/ Fired(ev.wait, p, killed)
    /\ \/ CollectOne(p)
       \/ /\ DeadWanted(p) = {}
          /\ Wanted(p) = {} \/ p \in killed \/ doing[p].timed
          /\ ev' = [ev EXCEPT !.wait = Leave(@, p)]
          /\ Sets(p, User)
          /\ UNCHANGED <<life, toReap, awaited>>
       \/ /\ DeadWanted(p) = {}
          /\ Wanted(p) # {} /\ p \notin killed
          /\ ev' = [ev EXCEPT !.wait = Block(Leave(@, p), p, {ChildExit(p)}, doing[p].timed)]
          /\ UNCHANGED <<life, toReap, awaited, doing>>
    /\ UNCHANGED <<parent, killed>>

\* Back from blockOn with TimedOut: waitChild returns without another look.
WaitChildTimesOut(p) ==
    /\ Resumed(p, "waitChild")
    /\ ~FirstPass(p) /\ ~Fired(ev.wait, p, killed)
    /\ ev' = [ev EXCEPT !.wait = Leave(@, p)]
    /\ Sets(p, User)
    /\ UNCHANGED <<life, parent, awaited, toReap, killed>>

\* wakeSleepers: the deadline of a wait for a child passes.
Expire(p) ==
    /\ ev.wait.state[p] = "sleeping"
    /\ ev' = [ev EXCEPT !.wait = Unblock(@, p)]
    /\ UNCHANGED <<life, parent, awaited, toReap, killed, doing>>

(***************************************************************************)
(* The supervising loop: collect() until a poll finds nobody, then         *)
(* waitMany on the child event, for ever.                                  *)
(***************************************************************************)
SuperviseCollect(p) ==
    /\ p \in Supervisors /\ In(p, "user")
    /\ \/ CollectOne(p)
       \/ /\ DeadWanted(p) = {}
          /\ Sets(p, [op |-> "waitMany", child |-> Nobody])
          /\ UNCHANGED <<life, toReap, awaited, ev>>
    /\ UNCHANGED <<parent, killed>>

SuperviseWait(p) ==
    /\ Resumed(p, "waitMany")
    /\ \/ /\ ev.count[ChildEvent(p)] > 0
          /\ ev' = Consume([ev EXCEPT !.wait = Leave(@, p)], ChildEvent(p))
          /\ Sets(p, User)
       \/ /\ ev.count[ChildEvent(p)] = 0 /\ p \in killed
          /\ ev' = [ev EXCEPT !.wait = Leave(@, p)]
          /\ Sets(p, User)
       \/ /\ ev.count[ChildEvent(p)] = 0 /\ p \notin killed
          /\ ev' = BlockOn([ev EXCEPT !.wait = Leave(@, p)], p, {ChildEvent(p)}, FALSE)
          /\ UNCHANGED doing
    /\ UNCHANGED <<life, parent, awaited, toReap, killed>>

-----------------------------------------------------------------------------
(***************************************************************************)
(* exitWith, from where the thread is retired to its last schedule.        *)
(***************************************************************************)
AdopterFor(p) == IF p # InitProc /\ Live(InitProc) THEN InitProc ELSE Nobody

\* The children orphanChildren walks: init is never adopted.
Orphans(p) == {c \in Procs \ {p, InitProc} : life[c] # "none" /\ parent[c] = p}

\* A plausible slip: the waiter is left to the tick.
WokenByExitOfChildOnly(e, p) ==
    IF parent[p] = Nobody THEN e
    ELSE LET up == [e EXCEPT !.wait = WakeAll(@, ChildExit(parent[p]))]
         IN  IF parent[p] \in Supervisors THEN SignalLocked(up, ChildEvent(parent[p])) ELSE up

\* A plausible slip: the event is forgotten.
WokenByExitUnsignalled(e, p) ==
    LET out == [e EXCEPT !.wait = WakeAll(@, ExitQueue(p))] IN
    IF parent[p] = Nobody THEN out
    ELSE [out EXCEPT !.wait = WakeAll(@, ChildExit(parent[p]))]

\* exit_queue, then the parent's queue and, when the parent watches, its event.
WokenByExit(e, p) ==
    LET out == [e EXCEPT !.wait = WakeAll(@, ExitQueue(p))] IN
    IF parent[p] = Nobody THEN out
    ELSE LET up == [out EXCEPT !.wait = WakeAll(@, ChildExit(parent[p]))]
         IN  IF parent[p] \in Supervisors THEN SignalLocked(up, ChildEvent(parent[p])) ELSE up

\* orphanChildren, as far as it wakes: once for each child already dead.
Adopt(e, p) ==
    IF AdopterFor(p) # Nobody /\ \E c \in Orphans(p) : life[c] = "dead"
    THEN [e EXCEPT !.wait = WakeAll(@, ChildExit(AdopterFor(p)))]
    ELSE e

\* A plausible slip: orphans with nobody to adopt them keep their mark.
StillAwaited(p) == awaited

\* Who is still awaited afterwards: orphans nobody adopts are not.
AwaitedAfter(p) == IF AdopterFor(p) = Nobody THEN awaited \ Orphans(p) ELSE awaited

\* A plausible slip: the corpse is queued for collection, awaited or not.
QueuedAnyway(p) == {p}

\* Queued for collection unless somebody means to take the status.
QueuedForReap(p) == IF p \in awaited THEN {} ELSE {p}

ExitWith(p) ==
    LET freed == IF AdopterFor(p) = Nobody
                 THEN {c \in Orphans(p) : life[c] = "dead"} \ AwaitedAfter(p) ELSE {}
    IN  /\ life' = [q \in Procs |-> IF q = p THEN "dead"
                                    ELSE IF q \in freed THEN "none" ELSE life[q]]
        /\ toReap' = (toReap \cup QueuedForReap(p)) \ freed
        /\ awaited' = AwaitedAfter(p)
        /\ parent' = [c \in Procs |-> IF c \in Orphans(p) THEN AdopterFor(p) ELSE parent[c]]
        /\ ev' = Adopt(WokenByExit(ev, p), p)
        /\ Sets(p, User)
        /\ UNCHANGED killed

\* A process ends by itself, or at its return to userspace once it is killed.
Exit(p) == In(p, "user") /\ (p \notin Supervisors \/ p \in killed) /\ ExitWith(p)

\* sched.kill: init is refused.
Kill(p) ==
    /\ p \in Killable \ killed /\ Live(p) /\ p # InitProc
    /\ killed' = killed \cup {p}
    /\ ev' = [ev EXCEPT !.wait = Unblock(@, p)]
    /\ UNCHANGED <<life, parent, awaited, toReap, doing>>

Next ==
    \E p \in Procs :
        \/ CollectCorpse(p) \/ Exit(p) \/ Kill(p)
        \/ \E c \in Procs, sync \in BOOLEAN : Spawn(p, c, sync)
        \/ \E id \in Asked, timed \in BOOLEAN : WaitChild(p, id, timed)
        \/ WaitFor(p) \/ WaitChildLook(p) \/ WaitChildTimesOut(p) \/ Expire(p)
        \/ SuperviseCollect(p) \/ SuperviseWait(p)

\* A runnable thread is scheduled; a killed one ends when it reaches user code.
Fairness ==
    \A p \in Procs :
        /\ WF_vars(WaitFor(p)) /\ WF_vars(WaitChildLook(p)) /\ WF_vars(WaitChildTimesOut(p))
        /\ WF_vars(SuperviseCollect(p)) /\ WF_vars(SuperviseWait(p))
        /\ SF_vars(Exit(p) /\ p \in killed)

Spec == Init /\ [][Next]_vars /\ Fairness

-----------------------------------------------------------------------------
TypeOK ==
    /\ life \in [Procs -> {"none", "live", "dead"}]
    /\ parent \in [Procs -> Procs \cup {Nobody}]
    /\ awaited \subseteq Procs /\ killed \subseteq Procs
    /\ toReap \subseteq {p \in Procs : life[p] = "dead"}
    /\ ev \in [count : [Events -> 0..MaxCount], wait : WaitRecords(Procs, Queues \cup Events)]
    /\ doing \in [Procs -> Calls]

\* A parent inside waitFor looks through a pointer to its child after every
\* wake: the child is still there, dead or alive, and still its own
\* (sched.zig:364-387).
WaitedForChildExists ==
    \A p \in Procs : In(p, "waitFor") =>
        life[doing[p].child] # "none" /\ parent[doing[p].child] = p

\* Nobody sleeps through an exit: a parent asleep in waitFor has a child that
\* still lives, and one asleep in waitChild has no corpse it asked for, adopted
\* ones included (sched.zig:256-265, 305-312).
NobodySleepsOnACorpse ==
    \A p \in Procs :
        /\ Asleep(p, "waitFor") => Live(doing[p].child)
        /\ Asleep(p, "waitChild") => DeadWanted(p) = {}

\* A wait for a child is for a child that is there and can still end it.
NobodySleepsInVain == WaitedForChildExists /\ NobodySleepsOnACorpse

\* The supervising loop is told of every corpse it has to collect: the child
\* event carries "the same news" as the queue (sched.zig:256-264,
\* thread.zig:162).  That is of its own children: init also adopts, and an
\* adopted corpse is announced on the queue alone (sched.zig:308-312).
SupervisorIsTold ==
    \A p \in Supervisors \ {InitProc} :
        Asleep(p, "waitMany") => DeadChildren(p) = {}

\* Every corpse has somebody who can free it: the scheduler, or a parent that
\* still lives; and no child but init is left with a parent that is gone
\* (sched.zig:273-294).
NoUncollectableCorpse ==
    \A c \in Procs :
        /\ life[c] = "dead" => c \in toReap \/ (c \in awaited /\ parent[c] # Nobody)
        /\ life[c] # "none" /\ c # InitProc /\ parent[c] # Nobody => Live(parent[c])

\* Going from parent to parent always ends: of the processes that are there no
\* set holds the parent of each of its members, so nobody is its own ancestor,
\* which every walk of the tree relies on (sched.zig:302-305, 864-878).
NoParentCycle ==
    \A S \in SUBSET {p \in Procs : life[p] # "none"} :
        S # {} => \E p \in S : parent[p] \notin S

\* The process tree stays one through every death and adoption, with somebody
\* to bury each of its dead.
TreeIsSound == TypeOK /\ NoParentCycle /\ NoUncollectableCorpse

\* A process that has been killed ends, whatever it waits for: none stays there
\* with the mark for ever (a mark is taken away only when the slot is reused).
KilledProcessEnds == \A p \in Procs \ {BootThread} : []<>~(Live(p) /\ p \in killed)

\* A parent that waits for a child that is dead gets its status: it does not
\* stay in waitFor beside the corpse for ever.
StatusIsTaken ==
    \A p \in Procs : []<>~(In(p, "waitFor") /\ life[doing[p].child] = "dead")

==============================================================================
