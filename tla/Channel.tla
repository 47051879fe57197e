------------------------------- MODULE Channel -------------------------------
(***************************************************************************)
(* src/src/kernel/channel.zig and the system calls over it in              *)
(* src/src/kernel/syscall/ipc.zig: synchronous call and reply between      *)
(* client processes and the threads that hold the serving end, with the    *)
(* handles a message carries and the references they stand for.            *)
(*                                                                         *)
(* A call record lives on the blocked client's stack, so a client stands   *)
(* for its record and a client that is not in a call must not be reachable *)
(* from the channel.  Servers are not trusted to answer a token once, or   *)
(* in time: Reply takes any token a server still remembers.                *)
(***************************************************************************)
EXTENDS EventObject, FiniteSets, FiniteSetsExt

CONSTANTS Clients, Servers,
          Objects,          \* kernel objects a handle may name
          Owner,            \* the client that holds a handle to each at first
          TableSize,        \* handles one process may hold (MAX_HANDLES of handle.zig)
          Others,           \* of those, how many each holds to anything else
          MaxInflight,      \* MAX_INFLIGHT
          MaxGeneration,    \* the largest Token.Generation (2^24 - 1 in the code)
          Memory,           \* how many tokens servers remember
          Killable,         \* the threads sched.kill may be called on
          Timed             \* the threads that may wait with a deadline

Threads == Clients \cup Servers

ASSUME ChannelAssumption ==
    /\ Clients \cap Servers = {} /\ Owner \in Clients
    /\ IsFiniteSet(Threads) /\ IsFiniteSet(Objects)
    /\ {"none", "ready", "recv"} \cap Clients = {}
    /\ Killable \cup Timed \subseteq Threads
    /\ TableSize \in Nat \ {0} /\ Others \in [Threads -> Nat]
    /\ Cardinality(Objects) + Others[Owner] <= TableSize
    /\ MaxInflight \in Nat \ {0} /\ MaxGeneration \in Nat \ {0}
    /\ Memory \in 0..MaxGeneration

VARIABLES pending,          \* Channel.pending, oldest first
          inflight,         \* Channel.inflight
          nextGeneration,   \* Channel.next_generation
          serving,          \* Channel.serving
          ev,               \* ready, recv_queue and each record's queue
          record,           \* the Call on each client's stack
          doing,            \* what each server is blocked in
          deadline,         \* of the wait each thread is in: "none", "ahead" or "passed"
          remembered,       \* the last tokens handed out, oldest first
          table,            \* handles per process and object
          refs,             \* RefCount.count of each object
          ends,             \* the servers whose serving handle is open
          killed,
          missed            \* history: some call still queued has been missed (Misses)

channel == <<pending, inflight, nextGeneration, serving>>
vars == <<channel, ev, record, doing, deadline, remembered, table, refs, ends, killed, missed>>

Slots == 0..(MaxInflight - 1)
Queues == {"ready", "recv"} \cup Clients

NoCall == [call |-> "none", generation |-> 0]
NoRecord == [live |-> FALSE, done |-> FALSE, failed |-> FALSE,
             request |-> {}, reply |-> {}, taken |-> {}]

\* What a server may be blocked in, and "due": wait_many has answered and recv
\* has not been called since.
Doings == {"idle", "recv", "ready", "due"}

Deadlines == {"none", "ahead", "passed"}

Init ==
    /\ pending = <<>>
    /\ inflight = [s \in Slots |-> NoCall]
    /\ nextGeneration = 1
    /\ serving = TRUE
    /\ ev = QuietEvents(Threads, Queues)
    /\ record = [c \in Clients |-> NoRecord]
    /\ doing = [s \in Servers |-> "idle"]
    /\ deadline = [t \in Threads |-> "none"]
    /\ remembered = <<>>
    /\ table = [p \in Threads |-> [o \in Objects |-> IF p = Owner THEN 1 ELSE 0]]
    /\ refs = [o \in Objects |-> 1]
    /\ ends = Servers
    /\ killed = {}
    /\ missed = FALSE

-----------------------------------------------------------------------------
(* References and handle tables *)

Held(r, S) == [o \in Objects |-> IF o \in S THEN r[o] + 1 ELSE r[o]]
Dropped(r, S) == [o \in Objects |-> IF o \in S THEN r[o] - 1 ELSE r[o]]

\* The handles of a process, and the handles to an object: the k-th of each
\* process that has so many.
Used(p) == Cardinality({h \in Objects \X (1..TableSize) : h[2] <= table[p][h[1]]})
HandlesTo(o) == {h \in Threads \X (1..TableSize) : h[2] <= table[h[1]][o]}
Fits(p, S) == Others[p] + Used(p) + Cardinality(S) <= TableSize

\* A plausible slip: the handle that did not fit is released with those after it.
DeliverReleasingTwice(p, S, r) ==
    \/ /\ Fits(p, S)
       /\ table' = [table EXCEPT ![p] = Held(@, S)]
       /\ refs' = r
    \/ \E installed \in SUBSET S : \E refused \in S \ installed :
          /\ Others[p] + Used(p) + Cardinality(installed) = TableSize
          /\ table' = [table EXCEPT ![p] = Dropped(Held(@, installed), installed)]
          /\ refs' = Dropped(Dropped(Dropped(r, {refused}), installed), S \ installed)

\* deliverHandles, over the references r and a message's handles S in some order:
\* they are installed one by one until all are, or until the table is full.  The
\* one that is then refused is released by installHandle, those installed before
\* it are closed again and those after it are released.
DeliverHandles(p, S, r) ==
    \/ /\ Fits(p, S)
       /\ table' = [table EXCEPT ![p] = Held(@, S)]
       /\ refs' = r
    \/ \E installed \in SUBSET S : \E refused \in S \ installed :
          /\ Others[p] + Used(p) + Cardinality(installed) = TableSize
          /\ table' = [table EXCEPT ![p] = Dropped(Held(@, installed), installed)]
          /\ refs' = Dropped(Dropped(Dropped(r, {refused}), installed), S \ (installed \cup {refused}))

HandlesOf(p) == {o \in Objects : table[p][o] > 0}

(* The lists a call is on *)

\* Channel.refreshReady
RefreshReady(e, p) ==
    IF p = <<>> THEN [count |-> [e.count EXCEPT !["ready"] = 0], wait |-> e.wait]
    ELSE IF e.count["ready"] = 0 THEN SignalLocked(e, "ready") ELSE e

\* dropInflight
Cleared(c) == [s \in Slots |-> IF inflight[s].call = c THEN NoCall ELSE inflight[s]]

\* Tokens handed out for c's call no longer name a call.
Stale(c) ==
    [i \in 1..Len(remembered) |->
        IF remembered[i].client = c THEN [remembered[i] EXCEPT !.live = FALSE]
                                    ELSE remembered[i]]

FreeSlots == {s \in Slots : inflight[s] = NoCall}

(***************************************************************************)
(* History: a call stays queued that nobody is told of again.  It takes a  *)
(* server that has been told of it, and one that leaves recv while the     *)
(* reply table is full is such a server, to go away without it; or a slot  *)
(* to come free other than by a reply.  It is over when no call is queued. *)
(***************************************************************************)
Misses(gone) == missed' = (pending' # <<>> /\ (missed \/ gone))

Woken(e, w) == [count |-> e.count, wait |-> w]
Awake(e, q) == Woken(e, WakeOne(e.wait, q))
Left(t) == Woken(ev, Leave(ev.wait, t))

-----------------------------------------------------------------------------
(* The client: sys_call and channel.call *)

\* A plausible slip: the call is queued and only a thread in recv is told.
AnnounceToRecv(e, p) == Awake(e, "recv")

\* pushPending's refresh of ready, and the wake of a thread in recv.
Announce(e, p) == Awake(RefreshReady(e, p), "recv")

\* References are taken twice, for the system call's own array and for the
\* message; the record is queued, servers are told, and the caller blocks.  A
\* call on a channel nobody serves, or by a thread that may not wait, leaves
\* the references as it found them.
Call(c, S, d) ==
    /\ ~record[c].live /\ S \subseteq HandlesOf(c) /\ (d # "none" => c \in Timed)
    /\ LET mayWait == c \notin killed /\ d # "passed"
       IN  \/ /\ serving /\ mayWait
              /\ pending' = Append(pending, c)
              /\ ev' = BlockOn(Announce(ev, pending'), c, {c}, d = "ahead")
              /\ record' = [record EXCEPT ![c] = [NoRecord EXCEPT !.live = TRUE,
                                                      !.request = S, !.taken = S]]
              /\ refs' = Held(Held(refs, S), S)
              /\ deadline' = [deadline EXCEPT ![c] = d]
           \/ /\ serving /\ ~mayWait
              /\ ev' = RefreshReady(Announce(ev, Append(pending, c)), pending)
              /\ UNCHANGED <<pending, record, refs, deadline>>
           \/ /\ ~serving
              /\ UNCHANGED <<pending, ev, record, refs, deadline>>
    /\ Misses(FALSE)
    /\ UNCHANGED <<inflight, nextGeneration, serving, doing, remembered, table, ends, killed>>

\* A plausible slip: a call that gives up is taken off the queue and not out of
\* the slot a server may answer it through.
GiveUpKeepingSlot(c) ==
    /\ pending' = Without(pending, c)
    /\ UNCHANGED inflight
    /\ ev' = IF pending' # pending THEN RefreshReady(Left(c), pending') ELSE Left(c)
    /\ refs' = Dropped(Dropped(refs, record[c].request), record[c].taken)
    /\ record' = [record EXCEPT ![c] = NoRecord]
    /\ remembered' = Stale(c)
    /\ Misses(\E s \in Slots : inflight[s].call = c)
    /\ UNCHANGED table

\* blockOn answered error.TimedOut: the record leaves every list, what the
\* request still owns goes back, and the frame goes out of scope.
GiveUp(c) ==
    /\ pending' = Without(pending, c)
    /\ inflight' = Cleared(c)
    /\ ev' = IF pending' # pending THEN RefreshReady(Left(c), pending') ELSE Left(c)
    /\ refs' = Dropped(Dropped(refs, record[c].request), record[c].taken)
    /\ record' = [record EXCEPT ![c] = NoRecord]
    /\ remembered' = Stale(c)
    /\ Misses(\E s \in Slots : inflight[s].call = c)
    /\ UNCHANGED table

\* The server went away: both messages are discarded.
Fail(c) ==
    /\ refs' = Dropped(Dropped(Dropped(refs, record[c].request), record[c].reply),
                       record[c].taken)
    /\ record' = [record EXCEPT ![c] = NoRecord]
    /\ ev' = Left(c)
    /\ UNCHANGED <<pending, inflight, remembered, table, missed>>

\* The reply is taken and its handles installed.
TakeAnswer(c) ==
    /\ DeliverHandles(c, record[c].reply, Dropped(refs, record[c].taken))
    /\ record' = [record EXCEPT ![c] = NoRecord]
    /\ ev' = Left(c)
    /\ UNCHANGED <<pending, inflight, remembered, missed>>

CallAgain(c) ==
    /\ record[c].live /\ Ready(ev.wait, c)
    /\ \/ ~Fired(ev.wait, c, killed) /\ GiveUp(c)
       \/ Fired(ev.wait, c, killed) /\ record[c].failed /\ Fail(c)
       \/ Fired(ev.wait, c, killed) /\ ~record[c].failed /\ TakeAnswer(c)
    /\ deadline' = [deadline EXCEPT ![c] = "none"]
    /\ UNCHANGED <<nextGeneration, serving, doing, ends, killed>>

-----------------------------------------------------------------------------
(* The server: sys_recv, sys_reply, wait_many on the serving end, close *)

\* next_generation +%= 1, skipping zero.
NextGeneration(g) == IF g = MaxGeneration THEN 1 ELSE g + 1

\* The servers' memory of a token newly handed out.
Remember(r, token) ==
    LET all == Append(r, token)
    IN  IF Len(all) > Memory THEN Tail(all) ELSE all

\* recv takes the oldest call into the first free slot, hands out a token and
\* takes the request over; sys_recv installs what it carries.
TakeCall(s, e) ==
    LET slot == Min(FreeSlots)
        c == Head(pending)
        S == record[c].request
    IN  /\ pending' = Tail(pending)
        /\ inflight' = [inflight EXCEPT ![slot] = [call |-> c, generation |-> nextGeneration]]
        /\ nextGeneration' = NextGeneration(nextGeneration)
        /\ remembered' = Remember(remembered, [slot |-> slot, generation |-> nextGeneration,
                                               client |-> c, live |-> TRUE])
        /\ ev' = RefreshReady(e, pending')
        /\ record' = [record EXCEPT ![c].request = {}]
        /\ DeliverHandles(s, S, refs)
        /\ Misses(FALSE)

Quiet == UNCHANGED <<channel, record, remembered, table, refs>>

\* blockOn, entered with interrupts off: the server sleeps, or its deadline has
\* passed or it is being ended and the call answers at once.
ServerSleeps(s, e, q, d) ==
    \/ /\ s \notin killed /\ d # "passed"
       /\ ev' = BlockOn(e, s, {q}, d = "ahead")
       /\ doing' = [doing EXCEPT ![s] = q]
       /\ deadline' = [deadline EXCEPT ![s] = d]
    \/ /\ s \in killed \/ d = "passed"
       /\ ev' = e
       /\ doing' = [doing EXCEPT ![s] = "idle"]
       /\ deadline' = [deadline EXCEPT ![s] = "none"]

\* The loop of recv.
RecvLoop(s, e, d) ==
    \/ /\ FreeSlots # {} /\ pending # <<>>
       /\ TakeCall(s, e)
       /\ doing' = [doing EXCEPT ![s] = "idle"]
       /\ deadline' = [deadline EXCEPT ![s] = "none"]
       /\ UNCHANGED serving
    \/ /\ FreeSlots = {} \/ pending = <<>>
       /\ ServerSleeps(s, e, "recv", d)
       /\ Quiet
       /\ Misses(s \in killed \/ d = "passed")

\* The loop of waitMany over the channel's ready event.
ReadyLoop(s, e, d) ==
    /\ \/ /\ e.count["ready"] > 0
          /\ ev' = Consume(e, "ready")
          /\ doing' = [doing EXCEPT ![s] = "due"]
          /\ deadline' = [deadline EXCEPT ![s] = "none"]
       \/ /\ e.count["ready"] = 0
          /\ ServerSleeps(s, e, "ready", d)
    /\ Quiet
    /\ UNCHANGED missed

AtWork(s) == s \in ends /\ doing[s] \in {"idle", "due"}

Recv(s, d) ==
    /\ AtWork(s) /\ (d # "none" => s \in Timed)
    /\ RecvLoop(s, ev, d)
    /\ UNCHANGED <<ends, killed>>

\* A server waits for its channel to become ready once it has received what
\* the last answer was about.
WaitReady(s, d) ==
    /\ s \in ends /\ doing[s] = "idle" /\ (d # "none" => s \in Timed)
    /\ ReadyLoop(s, ev, d)
    /\ UNCHANGED <<ends, killed>>

ServerAgain(s) ==
    /\ doing[s] \in {"recv", "ready"} /\ Ready(ev.wait, s)
    /\ \/ /\ Fired(ev.wait, s, killed) /\ doing[s] = "recv"
          /\ RecvLoop(s, Left(s), deadline[s])
       \/ /\ Fired(ev.wait, s, killed) /\ doing[s] = "ready"
          /\ ReadyLoop(s, Left(s), deadline[s])
       \/ /\ ~Fired(ev.wait, s, killed)
          /\ ev' = Left(s)
          /\ doing' = [doing EXCEPT ![s] = "idle"]
          /\ deadline' = [deadline EXCEPT ![s] = "none"]
          /\ Quiet
          /\ Misses(doing[s] = "recv" \/ ev.wait.woken[s] # {})
    /\ UNCHANGED <<ends, killed>>

\* reply: a token is answered if the slot it names holds the turn it names,
\* and is error.BadToken, the handles given back, if not.
Reply(s, token, S) ==
    /\ AtWork(s) /\ S \subseteq HandlesOf(s)
    /\ LET taken == inflight[token.slot]
           c == taken.call
       IN  /\ taken # NoCall /\ taken.generation = token.generation
           /\ record' = [record EXCEPT ![c].reply = S, ![c].done = TRUE]
           /\ refs' = Held(refs, S)
           /\ inflight' = [inflight EXCEPT ![token.slot] = NoCall]
           /\ ev' = Woken(ev, WakeAll(WakeOne(ev.wait, "recv"), c))
           /\ remembered' = Stale(c)
    /\ UNCHANGED <<pending, nextGeneration, serving, doing, deadline, table, ends, killed, missed>>

\* The calls stopServing answers for: every one queued or taken.
Outstanding ==
    {c \in Clients : \/ \E i \in 1..Len(pending) : pending[i] = c
                     \/ \E s \in Slots : inflight[s].call = c}

\* A plausible slip: the calls a server has taken are forgotten, not failed.
FailedByStopping(c) == \E i \in 1..Len(pending) : pending[i] = c

FailedByStop(c) == c \in Outstanding

\* The events after popPending has emptied the queue: every pop refreshes ready.
Drained(e) ==
    IF pending = <<>> THEN e
    ELSE RefreshReady(IF Len(pending) > 1 THEN RefreshReady(e, pending) ELSE e, <<>>)

\* The serving handle closes (or its process ends): stopServing, then release.
CloseServing(s) ==
    /\ AtWork(s)
    /\ ends' = ends \ {s}
    /\ serving' = FALSE
    /\ pending' = <<>>
    /\ inflight' = [i \in Slots |-> NoCall]
    /\ record' = [c \in Clients |->
                     IF FailedByStop(c)
                     THEN [record[c] EXCEPT !.failed = TRUE, !.done = TRUE]
                     ELSE record[c]]
    /\ remembered' = [i \in 1..Len(remembered) |-> [remembered[i] EXCEPT !.live = FALSE]]
    /\ ev' = LET e == Drained(ev)
             IN  Woken(e, WakeEach(e.wait, {"recv"} \cup {c \in Clients : FailedByStop(c)}))
    /\ doing' = [doing EXCEPT ![s] = "idle"]
    /\ missed' = FALSE
    /\ UNCHANGED <<nextGeneration, deadline, table, refs, killed>>

-----------------------------------------------------------------------------
(* The rest of the system *)

\* A process closes a handle it was given.
CloseHandle(p, o) ==
    /\ table[p][o] > 0
    /\ IF p \in Clients THEN ~record[p].live ELSE AtWork(p)
    /\ table' = [table EXCEPT ![p][o] = @ - 1]
    /\ refs' = Dropped(refs, {o})
    /\ UNCHANGED <<channel, ev, record, doing, deadline, remembered, ends, killed, missed>>

\* A deadline goes by and the tick wakes the sleeper.
Expire(t) ==
    /\ deadline[t] = "ahead"
    /\ deadline' = [deadline EXCEPT ![t] = "passed"]
    /\ ev' = Woken(ev, Unblock(ev.wait, t))
    /\ UNCHANGED <<channel, record, doing, remembered, table, refs, ends, killed, missed>>

\* sched.kill
Kill(t) ==
    /\ t \in Killable \ killed
    /\ killed' = killed \cup {t}
    /\ ev' = Woken(ev, Unblock(ev.wait, t))
    /\ UNCHANGED <<channel, record, doing, deadline, remembered, table, refs, ends, missed>>

Tokens == {remembered[i] : i \in 1..Len(remembered)}

ClientStep(c) ==
    \/ \E S \in SUBSET Objects, d \in Deadlines : Call(c, S, d)
    \/ CallAgain(c)

ServerStep(s) ==
    \/ \E d \in Deadlines : Recv(s, d) \/ WaitReady(s, d)
    \/ ServerAgain(s)
    \/ \E token \in Tokens, S \in SUBSET Objects : Reply(s, token, S)
    \/ CloseServing(s)

Next ==
    \/ \E c \in Clients : ClientStep(c)
    \/ \E s \in Servers : ServerStep(s)
    \/ \E t \in Threads : Expire(t) \/ Kill(t) \/ \E o \in Objects : CloseHandle(t, o)

\* A caller that is runnable is scheduled: nothing more is asked of the clock,
\* and nothing of the servers.
Fairness == \A c \in Clients : WF_vars(CallAgain(c))

Spec == Init /\ [][Next]_vars /\ Fairness

-----------------------------------------------------------------------------
CallRecords ==
    [live : BOOLEAN, done : BOOLEAN, failed : BOOLEAN,
     request : SUBSET Objects, reply : SUBSET Objects, taken : SUBSET Objects]

TypeOK ==
    /\ pending \in Seq(Clients)
    /\ inflight \in [Slots -> [call : Clients, generation : 1..MaxGeneration] \cup {NoCall}]
    /\ nextGeneration \in 1..MaxGeneration
    /\ serving \in BOOLEAN
    /\ ev \in EventRecords(Threads, Queues)
    /\ record \in [Clients -> CallRecords]
    /\ doing \in [Servers -> Doings]
    /\ deadline \in [Threads -> Deadlines]
    /\ remembered \in Seq([slot : Slots, generation : 1..MaxGeneration,
                           client : Clients, live : BOOLEAN])
    /\ table \in [Threads -> [Objects -> 0..TableSize]]
    /\ refs \in [Objects -> Nat]
    /\ ends \subseteq Servers /\ killed \subseteq Killable
    /\ missed \in BOOLEAN

\* Nothing the channel can reach names a call record whose frame has gone, or
\* one already answered: a reply never writes through a dead stack frame
\* (channel.zig:11-21, 255-257).
NoDanglingCall ==
    \A c \in Outstanding : record[c].live /\ ~record[c].done

\* A client asleep in call is on exactly one list of a channel that is being
\* served: whoever serves can still answer it, and a server that goes away
\* leaves nobody asleep behind it (channel.zig:383-408).
SleepingCallerIsReachable ==
    \A c \in Clients :
        record[c].live /\ ~Ready(ev.wait, c) =>
            /\ serving
            /\ Cardinality({i \in 1..Len(pending) : pending[i] = c})
                 + Cardinality({s \in Slots : inflight[s].call = c}) = 1

\* A token answers the call it was handed out for and no other: once that call
\* has been answered, withdrawn or failed, the token names nothing, even when
\* its slot has been taken again (channel.zig:17-21, 160, 222-228).
TokenNamesItsCall ==
    \A i \in 1..Len(remembered) :
        LET t == remembered[i]
        IN  t.live <=> inflight[t.slot] = [call |-> t.client, generation |-> t.generation]

\* The channel's lists, the callers' frames and the servers' tokens name each
\* other: no list names a frame that has gone, no caller sleeps that no list
\* names, and no token names a call it was not handed out for.
ListsMatchCallers ==
    TypeOK /\ NoDanglingCall /\ SleepingCallerIsReachable /\ TokenNamesItsCall

\* Every reference an object counts is held by a handle, a system call's array
\* or a message, and the other way round: nothing is leaked and nothing is
\* freed under a holder, whichever way a call ends (channel.zig:84-112,
\* ipc.zig:293-296, 323-326).  That is until a caller is killed: one killed
\* between the answer and its own next step drops the answer's handles.
ReferencesBalance ==
    killed \cap Clients = {} => \A o \in Objects :
        refs[o] = Cardinality(HandlesTo(o))
                    + Cardinality({c \in Clients : o \in record[c].request})
                    + Cardinality({c \in Clients : o \in record[c].reply})
                    + Cardinality({c \in Clients : o \in record[c].taken})

ServerAsleep(s) == doing[s] \in {"recv", "ready"} /\ ~Ready(ev.wait, s)

\* A server does not sleep through a call there is a slot for, whether it waits
\* in recv or in wait_many: some server is woken, or told, and on its way
\* (channel.zig:143-151, 312-314, 354).  That is also when the calls have found
\* the reply table full and a reply has freed a slot, with any number of servers;
\* it is not when the call has been missed, by a server told of it that gives up
\* or is killed, or by a caller killed in a slot of its own.
CallIsHeard ==
    \A s \in Servers :
        ServerAsleep(s) /\ pending # <<>> /\ FreeSlots # {} /\ ~missed
            => \E u \in Servers : ev.wait.woken[u] # {} \/ doing[u] = "due"

\* Once the serving end has closed every caller comes back (channel.zig:385-387).
StopReleasesCallers ==
    \A c \in Clients : []<>(serving \/ ~record[c].live)

==============================================================================
