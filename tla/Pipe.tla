-------------------------------- MODULE Pipe --------------------------------
(***************************************************************************)
(* src/src/kernel/pipe.zig: one pipe and the processes that hold its ends. *)
(*                                                                         *)
(* A member of Readers or Writers is a process holding, or about to be     *)
(* given, a handle to that end (a process with both ends is a member of    *)
(* each).  It may read or write, pass a copy of its handle to a child, and *)
(* close; those of Pollers also wait_many on their end's event.  A process *)
(* uses the end after wait_many answers, and closes it once a call has     *)
(* answered end of file or error.Broken; one of Careless may do neither.   *)
(***************************************************************************)
EXTENDS EventObject, FiniteSets

CONSTANTS Readers, Writers, FirstReader, FirstWriter,
          Pollers, Careless, Killable,
          Bytes,
          Capacity,         \* CAPACITY, 4096 in the code
          Messages,         \* what a writer may write: sequences of Bytes
          MaxRead           \* the largest buffer a reader passes

Threads == Readers \cup Writers

ASSUME PipeAssumption ==
    /\ Readers \cap Writers = {} /\ FirstReader \in Readers /\ FirstWriter \in Writers
    /\ Killable \cup Careless \cup Pollers \subseteq Threads
    /\ Capacity \in Nat \ {0} /\ MaxRead \in Nat \ {0}
    /\ Messages \subseteq Seq(Bytes) /\ Bytes # {}
    /\ IsFiniteSet(Threads)

VARIABLES buf, head, len,   \* the ring
          open,             \* the threads whose handle is open: readers, writers and refs
          ev,               \* readable and writable, and who is blocked on them
          op,               \* the call each thread is in
          killed

vars == <<buf, head, len, open, ev, op, killed>>
ring == <<buf, head, len>>

Ends == {"readable", "writable"}
EndOf(t) == IF t \in Readers THEN "readable" ELSE "writable"
OpenIn(o, S) == Cardinality(o \cap S)

Idle == [call |-> "idle"]
Due == [call |-> "due"]         \* wait_many has answered, the end is not used yet
Over == [call |-> "over"]       \* a call has answered end of file or error.Broken
Await == [call |-> "await"]     \* in wait_many
Reading(n) == [call |-> "read", size |-> n]
Writing(s) == [call |-> "write", rest |-> s]

-----------------------------------------------------------------------------
\* Pipe.readableNow, and its counterpart in rearm.
ReadableNow(n, o) == n > 0 \/ OpenIn(o, Writers) = 0
WritableNow(n, o) == n < Capacity \/ OpenIn(o, Readers) = 0

\* Half of rearm: one event brought into line with its level.
Level(e, name, on) ==
    IF ~on THEN [count |-> [e.count EXCEPT ![name] = 0], wait |-> e.wait]
    ELSE IF e.count[name] = 0 THEN SignalLocked(e, name) ELSE e

\* A plausible slip: rearm sets the events and never takes a stale one back.
RearmNeverClears(e, n, o) ==
    LET Up(x, name, on) == IF on /\ x.count[name] = 0 THEN SignalLocked(x, name) ELSE x
    IN  Up(Up(e, "readable", ReadableNow(n, o)), "writable", WritableNow(n, o))

\* Pipe.rearm, for a ring of n bytes and open handles o.
Rearm(e, n, o) ==
    Level(Level(e, "readable", ReadableNow(n, o)), "writable", WritableNow(n, o))

\* create: one reader, one writer, and rearm.
Init ==
    /\ buf = [i \in 0..(Capacity - 1) |-> CHOOSE b \in Bytes : TRUE]
    /\ head = 0 /\ len = 0
    /\ open = {FirstReader, FirstWriter}
    /\ ev = Rearm(QuietEvents(Threads, Ends), 0, {FirstReader, FirstWriter})
    /\ op = [t \in Threads |-> Idle]
    /\ killed = {}

\* blockOn, entered with interrupts off: the thread sleeps, or is being ended
\* and the call answers at once.
Sleep(t, e, call) ==
    \/ /\ t \notin killed
       /\ ev' = BlockOn(e, t, {EndOf(t)}, FALSE)
       /\ op' = [op EXCEPT ![t] = call]
    \/ /\ t \in killed
       /\ ev' = e
       /\ op' = [op EXCEPT ![t] = Over]

Answer(t, outcome) == op' = [op EXCEPT ![t] = outcome]

\* read's copy out of the ring.
TakeFromRing(n) ==
    /\ head' = (head + n) % Capacity
    /\ len' = len - n
    /\ UNCHANGED buf

\* A plausible slip: the new bytes go where the oldest are.
PutInRingAtHead(s) ==
    /\ buf' = [i \in DOMAIN buf |->
                  LET at == (i + Capacity - head) % Capacity
                  IN  IF at < Len(s) THEN s[at + 1] ELSE buf[i]]
    /\ len' = len + Len(s)
    /\ UNCHANGED head

\* write's copy into the ring.
PutInRing(s) ==
    /\ buf' = [i \in DOMAIN buf |->
                  LET at == (i + Capacity - ((head + len) % Capacity)) % Capacity
                  IN  IF at < Len(s) THEN s[at + 1] ELSE buf[i]]
    /\ len' = len + Len(s)
    /\ UNCHANGED head

Least(m, n) == IF m < n THEN m ELSE n

\* The loop of read from its test on; e is the events as the caller finds them.
ReadLoop(t, e, size) ==
    \/ /\ len > 0
       /\ LET n == Least(size, len)
          IN  TakeFromRing(n) /\ ev' = Rearm(e, len - n, open)
       /\ Answer(t, Idle)
    \/ /\ len = 0 /\ OpenIn(open, Writers) = 0      \* end of file
       /\ ev' = e
       /\ Answer(t, Over) /\ UNCHANGED ring
    \/ /\ len = 0 /\ OpenIn(open, Writers) > 0
       /\ Sleep(t, e, Reading(size)) /\ UNCHANGED ring

\* The loop of write: what fits goes in, and the rest waits for room.
WriteLoop(t, e, s) ==
    \/ /\ OpenIn(open, Readers) = 0                 \* short, or error.Broken
       /\ ev' = e
       /\ Answer(t, Over) /\ UNCHANGED ring
    \/ /\ OpenIn(open, Readers) > 0 /\ len = Capacity
       /\ Sleep(t, e, Writing(s)) /\ UNCHANGED ring
    \/ /\ OpenIn(open, Readers) > 0 /\ len < Capacity
       /\ LET n == Least(Len(s), Capacity - len)
              after == Rearm(e, len + n, open)
          IN  /\ PutInRing(SubSeq(s, 1, n))
              /\ IF n = Len(s)
                 THEN Answer(t, Idle) /\ ev' = after
                 ELSE Sleep(t, after, Writing(SubSeq(s, n + 1, Len(s))))

\* waitMany on the end's own event.
AwaitLoop(t, e) ==
    /\ \/ /\ e.count[EndOf(t)] > 0
          /\ ev' = Consume(e, EndOf(t))
          /\ op' = [op EXCEPT ![t] = Due]
       \/ /\ e.count[EndOf(t)] = 0
          /\ Sleep(t, e, Await)
    /\ UNCHANGED ring

-----------------------------------------------------------------------------
\* A handle that is open and not in use: what a system call starts from.
Free(t) == t \in open /\ op[t] \in {Idle, Due, Over}
MayUse(t) == Free(t) /\ (op[t] = Over => t \in Careless \ killed)

Read(t, n) ==
    /\ MayUse(t) /\ t \in Readers
    /\ ReadLoop(t, ev, n)
    /\ UNCHANGED <<open, killed>>

Write(t, s) ==
    /\ MayUse(t) /\ t \in Writers
    /\ WriteLoop(t, ev, s)
    /\ UNCHANGED <<open, killed>>

WaitMany(t) ==
    /\ MayUse(t) /\ t \in Pollers /\ (op[t] = Due => t \in Careless)
    /\ AwaitLoop(t, ev)
    /\ UNCHANGED <<open, killed>>

\* Back from blockOn, in whichever call.
Again(t) ==
    /\ op[t].call \in {"read", "write", "await"} /\ Ready(ev.wait, t)
    /\ LET e == [ev EXCEPT !.wait = Leave(@, t)]
       IN  \/ /\ ~Fired(ev.wait, t, killed)
              /\ ev' = e
              /\ Answer(t, Over) /\ UNCHANGED ring
           \/ /\ Fired(ev.wait, t, killed)
              /\ \/ op[t].call = "read" /\ ReadLoop(t, e, op[t].size)
                 \/ op[t].call = "write" /\ WriteLoop(t, e, op[t].rest)
                 \/ op[t].call = "await" /\ AwaitLoop(t, e)
    /\ UNCHANGED <<open, killed>>

\* retain: a child is given a copy of the handle at spawn.
Retain(t, u) ==
    /\ MayUse(t) /\ u \in Threads \ open /\ EndOf(u) = EndOf(t) /\ u \notin killed
    /\ open' = open \cup {u}
    /\ ev' = Rearm(ev, len, open')
    /\ UNCHANGED <<ring, op, killed>>

\* A plausible slip: the events are brought into line and the sleepers left.
ReleaseQuietly(t) ==
    /\ Free(t)
    /\ open' = open \ {t}
    /\ ev' = Rearm(ev, len, open')
    /\ op' = [op EXCEPT ![t] = Idle]
    /\ UNCHANGED <<ring, killed>>

\* release: rearm, then everybody asleep on either end looks again.
Release(t) ==
    /\ Free(t)
    /\ open' = open \ {t}
    /\ ev' = LET e == Rearm(ev, len, open')
             IN  [e EXCEPT !.wait = WakeEach(@, Ends)]
    /\ op' = [op EXCEPT ![t] = Idle]
    /\ UNCHANGED <<ring, killed>>

\* sched.kill
Kill(t) ==
    /\ t \in (Killable \cap open) \ killed
    /\ killed' = killed \cup {t}
    /\ ev' = [ev EXCEPT !.wait = Unblock(@, t)]
    /\ UNCHANGED <<ring, open, op>>

Next ==
    \E t \in Threads :
        \/ \E n \in 1..MaxRead : Read(t, n)
        \/ \E s \in Messages : Write(t, s)
        \/ WaitMany(t)
        \/ Again(t)
        \/ \E u \in Threads : Retain(t, u)
        \/ Release(t)
        \/ Kill(t)

\* A runnable thread is scheduled.
Fairness == \A t \in Threads : WF_vars(Again(t))

Spec == Init /\ [][Next]_vars /\ Fairness

-----------------------------------------------------------------------------
Calls == {Idle, Due, Over, Await} \cup {Reading(n) : n \in 1..MaxRead}

TypeOK ==
    /\ buf \in [0..(Capacity - 1) -> Bytes]
    /\ head \in 0..(Capacity - 1) /\ len \in 0..Capacity
    /\ open \subseteq Threads /\ killed \subseteq Killable
    /\ ev \in EventRecords(Threads, Ends) /\ DOMAIN op = Threads
    /\ \A t \in Threads :
           op[t] \in Calls \/ (op[t].call = "write" /\ op[t].rest \in Seq(Bytes))

\* The bytes in the ring, oldest first.
Content == [i \in 1..len |-> buf[(head + i - 1) % Capacity]]

Stream == INSTANCE ByteStream WITH content <- Content

\* However reads and writes wrap around the ring, block, resume and are cut
\* short, the pipe is a bounded first-in first-out stream (pipe.zig:75-124).
ImplementsByteStream == Stream!Spec

Asleep(t) == op[t].call \in {"read", "write", "await"} /\ ~Ready(ev.wait, t)

\* The condition the thread's end waits for.
LevelOf(t) ==
    IF t \in Readers THEN ReadableNow(len, open) ELSE WritableNow(len, open)

Holders(end) == {t \in open : EndOf(t) = end}

\* How the holders have to behave for the pipe to go on: a thread wait_many has
\* answered uses the end before it waits again, and one that has seen the end of
\* file closes.
CarefulHolders == Careless = {}

\* No two threads poll the same end: an event's count is one thread's to take.
OnePollerEach == \A t, u \in Pollers : EndOf(t) = EndOf(u) => t = u

\* A pipe that could go on never has everybody at that end asleep: while there
\* are bytes, room, or nobody left on the other side, some holder of the end is
\* out of its call or woken to look again (pipe.zig:42-47, 57-69, 75-131).
SomebodyGoesOn ==
    \A t \in Threads :
        Asleep(t) /\ LevelOf(t) => \E u \in Holders(EndOf(t)) : ~Asleep(u)

\* Nobody sleeps in read once the last writer has closed, nor in write once the
\* last reader has, however many share the end: the close reaches every sleeper
\* and not only the one rearm wakes (pipe.zig:158-163).
EndReachesEveryone ==
    \A t \in Threads :
        Asleep(t) => OpenIn(open, IF t \in Readers THEN Writers ELSE Readers) > 0

\* The ring's places stay inside it and no end is left asleep, by the bytes and
\* the room there are or by the last close of the other end.
NoStrandedEnd == TypeOK /\ SomebodyGoesOn /\ EndReachesEveryone

IsInCall(t) == op[t].call \in {"read", "write", "await"}
OtherGone(t) == OpenIn(open, IF t \in Readers THEN Writers ELSE Readers) = 0
Alone(t) == Holders(EndOf(t)) = {t}

\* A call comes back.  Once the last handle of the other end is closed everyone
\* in read, write or wait_many returns, however many share the end and whichever
\* of them was woken first; and the only holder of an end goes on with the bytes
\* or the room there are: it returns, or has used them up (pipe.zig:75-131,
\* 158-163).
CallsComeBack ==
    \A t \in Threads :
        /\ (IsInCall(t) /\ OtherGone(t)) ~> ~IsInCall(t)
        /\ (IsInCall(t) /\ Alone(t) /\ LevelOf(t)) ~> ~(IsInCall(t) /\ Alone(t) /\ LevelOf(t))

==============================================================================
