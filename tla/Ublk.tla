-------------------------------- MODULE Ublk --------------------------------
(***************************************************************************)
(* src/src/kernel/ublk.zig: block volumes whose driver is a process.  A    *)
(* server attaches a volume, takes requests and answers them through the   *)
(* system calls of src/src/kernel/syscall/driver.zig, in the manner of     *)
(* src/src/user/usbd/volume.zig; callers are threads inside a filesystem   *)
(* that read and write it, the volume-scan thread among them.              *)
(*                                                                         *)
(* System calls run with interrupts on, so each action is one stretch with *)
(* interrupts off (or one store) and anything may come between two.  A     *)
(* caller holds a pointer to the volume and not an incarnation of it, so   *)
(* it may come onto any volume that is live.                               *)
(***************************************************************************)
EXTENDS EventObject, FiniteSets, FiniteSetsExt

CONSTANTS Callers, Servers,
          Volumes,          \* MAX_VOLUMES, as the indexes 0..n
          Depth,            \* DEPTH
          MaxGeneration,    \* the largest Slot.generation (2^14 - 1 in the code)
          Segments,         \* names for the data areas attach creates
          Killable,         \* the callers sched.kill may be called on
          Late,             \* servers that may answer a tag they have answered
          Attachments,      \* bound: how often a volume is attached in a run
          None

ASSUME UblkAssumption ==
    /\ IsFiniteSet(Callers) /\ Callers \cap Servers = {} /\ Killable \subseteq Callers /\ Late \subseteq Servers
    /\ Volumes \subseteq Nat /\ Depth \in Nat \ {0} /\ MaxGeneration \in Nat \ {0}
    /\ None \notin Segments \cup Servers \cup Nat
    /\ Attachments \in Nat

VARIABLES vol,          \* the volumes
          held,         \* the segments (and doorbells) volumes have a reference to
          scans,        \* volume-scan threads that have not run yet, per index
          unwrapped,    \* one has taken `published.?` of a volume without it
          caller,       \* where each caller is
          server,       \* where each server is
          ev,           \* the doorbells, and every queue
          deadline,     \* of the wait each caller is in
          killed,
          lostRoom,     \* history: where a killed claimer took a wakeup with it
          attached      \* how many attaches there have been

vars == <<vol, held, scans, unwrapped, caller, server, ev, deadline, killed, lostRoom, attached>>

Slots == 0..(Depth - 1)
Threads == Callers \cup Servers
Room(i) == <<"room", i>>
SlotQueue(i, k) == <<"slot", i, k>>
Doorbell(i) == <<"doorbell", i>>
Bells == {Doorbell(i) : i \in Volumes}
QueuesOf(i) == {Room(i), Doorbell(i)} \cup {SlotQueue(i, k) : k \in Slots}
Queues == UNION {QueuesOf(i) : i \in Volumes}

\* answer: "none", "asked" (the server answered this very claim), "gone" (the
\* volume was torn down) or "stale" (an answer meant for another claim).
FreeSlotRecord == [state |-> "free", generation |-> 0, answer |-> "none"]
NoVolume == [live |-> FALSE, server |-> None, data |-> None, published |-> FALSE,
             users |-> 0, slots |-> [k \in Slots |-> FreeSlotRecord]]

Outside == [at |-> "outside", vol |-> None, slot |-> None]
NoRequest == [slot |-> None, generation |-> 0, data |-> None]
Off == [at |-> "off", vol |-> None, hand |-> NoRequest, last |-> NoRequest]

Init ==
    /\ vol = [i \in Volumes |-> NoVolume]
    /\ held = {}
    /\ scans = [i \in Volumes |-> 0]
    /\ unwrapped = FALSE
    /\ caller = [c \in Callers |-> Outside]
    /\ server = [p \in Servers |-> Off]
    /\ ev = [count |-> [b \in Bells |-> 0], wait |-> NoWaits(Threads, Queues)]
    /\ deadline = [c \in Callers |-> "none"]
    /\ killed = {}
    /\ lostRoom = {}
    /\ attached = 0

Waits(e, w) == [count |-> e.count, wait |-> w]
WakesOne(e, q) == Waits(e, WakeOne(e.wait, q))
Left(t) == Waits(ev, Leave(ev.wait, t))
Ended(e, t) == Waits(e, Unblock(Leave(e.wait, t), t))
InState(i, k, state) == [vol EXCEPT ![i].slots[k].state = state]
Goes(p, at) == server' = [server EXCEPT ![p].at = at]
Owns(p) == server[p].vol # None /\ vol[server[p].vol].live /\ vol[server[p].vol].server = p

-----------------------------------------------------------------------------
(* The server: attach *)

FreeVolumes == {i \in Volumes : ~vol[i].live /\ vol[i].users = 0}

\* attach, as far as freeVolume: the index is chosen and nothing marks it.
AttachPick(p) ==
    /\ server[p].at = "off" /\ FreeVolumes # {} /\ attached < Attachments
    /\ server' = [server EXCEPT ![p].at = "picked", ![p].vol = Min(FreeVolumes)]
    /\ attached' = attached + 1
    /\ UNCHANGED <<vol, held, scans, unwrapped, caller, ev, deadline, killed, lostRoom>>

\* The rest of attach, a fresh data area and doorbell in hand: the whole record
\* is written, queues included.
AttachFill(p, data) ==
    /\ server[p].at = "picked" /\ data \in Segments \ held
    /\ LET i == server[p].vol IN
        /\ vol' = [vol EXCEPT ![i] = [NoVolume EXCEPT !.live = TRUE, !.server = p, !.data = data]]
        /\ ev' = [count |-> [ev.count EXCEPT ![Doorbell(i)] = 0],
                  wait  |-> [queue |-> [q \in Queues |-> IF q \in QueuesOf(i) THEN <<>>
                                                         ELSE ev.wait.queue[q]],
                             state |-> ev.wait.state, woken |-> ev.wait.woken]]
    /\ held' = held \cup {data}
    /\ lostRoom' = lostRoom \ {server[p].vol}
    /\ Goes(p, "filled")
    /\ UNCHANGED <<scans, unwrapped, caller, deadline, killed, attached>>

\* createDma or event.create has failed.
AttachFail(p) ==
    /\ server[p].at = "picked"
    /\ server' = [server EXCEPT ![p] = [Off EXCEPT !.last = server[p].last]]
    /\ UNCHANGED <<vol, held, scans, unwrapped, caller, ev, deadline, killed, lostRoom, attached>>

\* handOver has found room for both handles; publish, if the volume is still
\* the server's, registers the device and starts the scan of it.  The server
\* goes back to its event loop.
Publish(p) ==
    /\ server[p].at = "filled"
    /\ IF Owns(p)
       THEN /\ vol' = [vol EXCEPT ![server[p].vol].published = TRUE]
            /\ scans' = [scans EXCEPT ![server[p].vol] = @ + 1]
       ELSE UNCHANGED <<vol, scans>>
    /\ Goes(p, "idle")
    /\ UNCHANGED <<held, unwrapped, caller, ev, deadline, killed, lostRoom, attached>>

\* survey gets the CPU; its reads of the medium are a caller's.
Survey(i) ==
    /\ scans[i] > 0
    /\ scans' = [scans EXCEPT ![i] = @ - 1]
    /\ unwrapped' = (unwrapped \/ (vol[i].live /\ ~vol[i].published))
    /\ UNCHANGED <<vol, held, caller, server, ev, deadline, killed, lostRoom, attached>>

-----------------------------------------------------------------------------
(* The server: requests *)

Offered(i) == {k \in Slots : vol[i].slots[k].state = "offered"}

\* next: the lowest slot that is offered, under a tag of its claim.
NextRequest(p) ==
    /\ server[p].at = "serving" /\ Owns(p)
    /\ LET i == server[p].vol
           k == Min(Offered(i))
       IN  /\ Offered(i) # {}
           /\ vol' = InState(i, k, "taken")
           /\ server' = [server EXCEPT
                  ![p].at = "carrying",
                  ![p].hand = [slot |-> k, generation |-> vol[i].slots[k].generation,
                               data |-> vol[i].data]]
    /\ UNCHANGED <<held, scans, unwrapped, caller, ev, deadline, killed, lostRoom, attached>>

\* next has nothing: serve is over, and the server on its way to waitMany.
NextIsNone(p) ==
    /\ server[p].at = "serving" /\ Owns(p) /\ Offered(server[p].vol) = {}
    /\ Goes(p, "idle")
    /\ UNCHANGED <<vol, held, scans, unwrapped, caller, ev, deadline, killed, lostRoom, attached>>

\* A plausible slip: the wait does not look at what was rung before it.
WaitDoorbellDeaf(p) ==
    /\ server[p].at = "idle" /\ Owns(p)
    /\ ev' = BlockOn(ev, p, {Doorbell(server[p].vol)}, FALSE)
    /\ Goes(p, "waiting")
    /\ UNCHANGED <<vol, held, scans, unwrapped, caller, deadline, killed, lostRoom, attached>>

\* waitMany, by when anything may have been offered: the doorbell is taken, or
\* slept on.
WaitDoorbell(p) ==
    /\ server[p].at = "idle" /\ Owns(p)
    /\ LET bell == Doorbell(server[p].vol) IN
        \/ /\ ev.count[bell] > 0
           /\ ev' = Consume(ev, bell)
           /\ Goes(p, "serving")
        \/ /\ ev.count[bell] = 0
           /\ ev' = BlockOn(ev, p, {bell}, FALSE)
           /\ Goes(p, "waiting")
    /\ UNCHANGED <<vol, held, scans, unwrapped, caller, deadline, killed, lostRoom, attached>>

DoorbellRang(p) ==
    /\ server[p].at = "waiting" /\ Ready(ev.wait, p)
    /\ LET bell == Doorbell(server[p].vol) IN
        \/ /\ ev.count[bell] > 0
           /\ ev' = Consume(Left(p), bell)
           /\ Goes(p, "serving")
        \/ /\ ev.count[bell] = 0
           /\ ev' = BlockOn(Left(p), p, {bell}, FALSE)
           /\ UNCHANGED server
    /\ UNCHANGED <<vol, held, scans, unwrapped, caller, deadline, killed, lostRoom, attached>>

\* slotToAnswer
Answerable(i, tag) ==
    /\ vol[i].slots[tag.slot].generation = tag.generation
    /\ vol[i].slots[tag.slot].state \in {"taken", "abandoned"}

\* done, for a tag the server has: it answers the claim the tag names, frees
\* the slot of a caller that has given up, or is dropped.
Answer(i, tag, kind) ==
    \/ /\ Answerable(i, tag) /\ vol[i].slots[tag.slot].state = "abandoned"
       /\ vol' = InState(i, tag.slot, "free")
       /\ ev' = WakesOne(ev, Room(i))
    \/ /\ Answerable(i, tag) /\ vol[i].slots[tag.slot].state = "taken"
       /\ vol' = [vol EXCEPT ![i].slots[tag.slot].state = "done",
                             ![i].slots[tag.slot].answer = kind]
       /\ ev' = WakesOne(ev, SlotQueue(i, tag.slot))
    \/ /\ ~Answerable(i, tag)
       /\ UNCHANGED <<vol, ev>>

Done(p) ==
    /\ server[p].at = "carrying" /\ Owns(p)
    /\ Answer(server[p].vol, server[p].hand, "asked")
    /\ server' = [server EXCEPT ![p].at = "serving", ![p].hand = NoRequest,
                                ![p].last = server[p].hand]
    /\ UNCHANGED <<held, scans, unwrapped, caller, deadline, killed, lostRoom, attached>>

\* The same answer once more, whatever the server is at by now.
DoneAgain(p) ==
    /\ p \in Late /\ server[p].at \in {"serving", "carrying", "idle"} /\ Owns(p)
    /\ server[p].last # NoRequest
    /\ Answer(server[p].vol, server[p].last, "stale")
    /\ UNCHANGED <<held, scans, unwrapped, caller, server, deadline, killed, lostRoom, attached>>

-----------------------------------------------------------------------------
(* The server: detach *)

\* What detach makes of a slot: whoever waits is told the medium has gone.
TornDown(slot) ==
    IF slot.state \in {"free", "done"} THEN slot
    ELSE [slot EXCEPT !.state = "done", !.answer = "gone"]

\* A plausible slip: detach lets go whoever is still on the volume.
LetGoAnyway(v) == [v EXCEPT !.data = None]

\* letGo: by detach when nobody is on the volume, else by the last to leave.
LetGoIfEmpty(v) == IF ~v.live /\ v.users = 0 THEN [v EXCEPT !.data = None] ELSE v

Holding(v) == {v[i].data : i \in Volumes} \ {None}

\* detach, also at the server's exit (dropVolumes).
Detach(p) ==
    /\ server[p].at \notin {"off", "picked"}
    /\ LET i == server[p].vol
           down == [vol[i] EXCEPT !.live = FALSE, !.published = FALSE,
                        !.slots = [k \in Slots |-> TornDown(@[k])]]
           told == {SlotQueue(i, k) : k \in {j \in Slots : TornDown(vol[i].slots[j]) # vol[i].slots[j]}}
       IN  IF Owns(p)
           THEN /\ vol' = [vol EXCEPT ![i] = LetGoIfEmpty(down)]
                /\ held' = held \ (Holding(vol) \ Holding(vol'))
                /\ ev' = Ended(Waits(ev, WakeEach(ev.wait, told \cup {Room(i)})), p)
           ELSE /\ ev' = Ended(ev, p)
                /\ UNCHANGED <<vol, held>>
    /\ server' = [server EXCEPT ![p] = [Off EXCEPT !.last = server[p].last]]
    /\ UNCHANGED <<scans, unwrapped, caller, deadline, killed, lostRoom, attached>>

-----------------------------------------------------------------------------
(* The filesystem's side *)

Moves(c, at) == caller' = [caller EXCEPT ![c].at = at]

\* enter: refused once the volume has gone.
Enter(c, i) ==
    /\ caller[c].at = "outside" /\ vol[i].live
    /\ vol' = [vol EXCEPT ![i].users = @ + 1]
    /\ caller' = [caller EXCEPT ![c] = [at |-> "entered", vol |-> i, slot |-> None]]
    /\ UNCHANGED <<held, scans, unwrapped, server, ev, deadline, killed, lostRoom, attached>>

FreeSlots(i) == {k \in Slots : vol[i].slots[k].state = "free"}

\* A plausible slip: a slot taken again keeps the tag it had.
SameGeneration(g) == g

\* generation +% 1
NextGeneration(g) == (g + 1) % (MaxGeneration + 1)

\* Assumption: no server answers a tag so late that its slot's generation has
\* come round again since (16384 claims).
Forgotten(i, k) ==
    [p \in Servers |->
        IF server[p].vol = i /\ server[p].last.slot = k
        THEN [server[p] EXCEPT !.last = NoRequest] ELSE server[p]]

\* blockOn, for a caller: refused to one that is being ended, or late.
Sleeps(c, e, q, d, at) ==
    \/ /\ c \notin killed /\ d = "ahead"
       /\ ev' = BlockOn(e, c, {q}, TRUE)
       /\ deadline' = [deadline EXCEPT ![c] = d]
       /\ Moves(c, at)
    \/ /\ c \in killed \/ d = "passed"
       /\ ev' = e
       /\ deadline' = [deadline EXCEPT ![c] = "none"]
       /\ Moves(c, IF at = "room" THEN "leaving" ELSE "failed")

\* The loop of claim; each round has a patience of its own.
ClaimLoop(c, e) ==
    LET i == caller[c].vol IN
    \/ /\ vol[i].live /\ FreeSlots(i) # {}
       /\ LET k == Min(FreeSlots(i))
              g == NextGeneration(vol[i].slots[k].generation)
          IN  /\ vol' = [vol EXCEPT ![i].slots[k] =
                             [state |-> "claimed", generation |-> g, answer |-> "none"]]
              /\ caller' = [caller EXCEPT ![c].at = "claimed", ![c].slot = k]
              /\ server' = IF g < vol[i].slots[k].generation THEN Forgotten(i, k) ELSE server
              /\ lostRoom' = IF FreeSlots(i) = {k} THEN lostRoom \ {i} ELSE lostRoom
       /\ ev' = e
       /\ deadline' = [deadline EXCEPT ![c] = "none"]
    \/ /\ vol[i].live /\ FreeSlots(i) = {}
       /\ Sleeps(c, e, Room(i), "ahead", "room")
       /\ UNCHANGED <<vol, server, lostRoom>>
    \/ /\ ~vol[i].live                                  \* error.IoError
       /\ ev' = e
       /\ deadline' = [deadline EXCEPT ![c] = "none"]
       /\ Moves(c, "leaving")
       /\ UNCHANGED <<vol, server, lostRoom>>

Claim(c) ==
    /\ caller[c].at = "entered"
    /\ ClaimLoop(c, ev)
    /\ UNCHANGED <<held, scans, unwrapped, killed, attached>>

\* A plausible slip: a caller that gives up on a slot does not leave.
ClaimAgainStaying(c) ==
    /\ caller[c].at = "room" /\ Ready(ev.wait, c)
    /\ \/ /\ Fired(ev.wait, c, killed)
          /\ ClaimLoop(c, Left(c))
       \/ /\ ~Fired(ev.wait, c, killed)
          /\ ev' = Left(c)
          /\ deadline' = [deadline EXCEPT ![c] = "none"]
          /\ caller' = [caller EXCEPT ![c] = Outside]
          /\ UNCHANGED <<vol, server, lostRoom>>
    /\ UNCHANGED <<held, scans, unwrapped, killed, attached>>

\* Back from blockOn: round again, or out.  One that was woken for a slot and
\* killed goes out as well, and wakes nobody in its place.
ClaimAgain(c) ==
    /\ caller[c].at = "room" /\ Ready(ev.wait, c)
    /\ \/ /\ Fired(ev.wait, c, killed)
          /\ ClaimLoop(c, Left(c))
       \/ /\ ~Fired(ev.wait, c, killed)                 \* error.Timeout
          /\ ev' = Left(c)
          /\ deadline' = [deadline EXCEPT ![c] = "none"]
          /\ Moves(c, "leaving")
          /\ lostRoom' = IF Room(caller[c].vol) \in ev.wait.woken[c]
                                /\ FreeSlots(caller[c].vol) # {}
                          THEN lostRoom \cup {caller[c].vol} ELSE lostRoom
          /\ UNCHANGED <<vol, server>>
    /\ UNCHANGED <<held, scans, unwrapped, killed, attached>>

SlotOf(c) == vol[caller[c].vol].slots[caller[c].slot]

\* The look at `live` in run's loop.
Gone(c) == ~vol[caller[c].vol].live

\* The loop of run, for a slot in state `now`.
RunLoop(c, e, now, d) ==
    LET i == caller[c].vol IN
    \/ /\ now = "done"
       /\ ev' = e
       /\ deadline' = [deadline EXCEPT ![c] = "none"]
       /\ Moves(c, IF SlotOf(c).answer = "gone" THEN "failed" ELSE "answered")
    \/ /\ now # "done" /\ Gone(c)
       /\ ev' = e
       /\ deadline' = [deadline EXCEPT ![c] = "none"]
       /\ Moves(c, "failed")
    \/ /\ now # "done" /\ ~Gone(c)
       /\ Sleeps(c, e, SlotQueue(i, caller[c].slot), d, "running")

\* The doorbell rings once the request is offered.
Rung(e, i) == SignalLocked(e, Doorbell(i))

\* run, the request and what it writes being in place.
Run(c) ==
    /\ caller[c].at = "claimed"
    /\ vol' = InState(caller[c].vol, caller[c].slot, "offered")
    /\ RunLoop(c, Rung(ev, caller[c].vol), "offered", "ahead")
    /\ UNCHANGED <<held, scans, unwrapped, server, killed, lostRoom, attached>>

RunAgain(c) ==
    /\ caller[c].at = "running" /\ Ready(ev.wait, c)
    /\ \/ /\ Fired(ev.wait, c, killed)
          /\ RunLoop(c, Left(c), SlotOf(c).state, deadline[c])
       \/ /\ ~Fired(ev.wait, c, killed)                 \* error.Timeout
          /\ ev' = Left(c)
          /\ deadline' = [deadline EXCEPT ![c] = "none"]
          /\ Moves(c, "failed")
    /\ UNCHANGED <<vol, held, scans, unwrapped, server, killed, lostRoom, attached>>

\* What freeSlot makes of a slot.
GivenBack(state) == IF state = "taken" THEN "abandoned" ELSE "free"

\* freeSlot, what was read having been copied out; then the next piece of the
\* transfer, or out.
FreeSlot(c, more) ==
    /\ caller[c].at \in {"answered", "failed"} /\ (more => caller[c].at = "answered")
    /\ LET i == caller[c].vol
           now == GivenBack(SlotOf(c).state)
       IN  /\ vol' = InState(i, caller[c].slot, now)
           /\ ev' = IF now = "free" THEN WakesOne(ev, Room(i)) ELSE ev
    /\ caller' = [caller EXCEPT ![c].at = IF more THEN "entered" ELSE "leaving",
                                ![c].slot = None]
    /\ UNCHANGED <<held, scans, unwrapped, server, deadline, killed, lostRoom, attached>>

\* leave: the last one off a volume that has gone lets its resources go.
LeaveVolume(c) ==
    /\ caller[c].at = "leaving"
    /\ LET i == caller[c].vol IN
        vol' = [vol EXCEPT ![i] = LetGoIfEmpty([vol[i] EXCEPT !.users = @ - 1])]
    /\ held' = held \ (Holding(vol) \ Holding(vol'))
    /\ caller' = [caller EXCEPT ![c] = Outside]
    /\ UNCHANGED <<scans, unwrapped, server, ev, deadline, killed, lostRoom, attached>>

\* A caller's patience runs out and the tick wakes it.
Expire(c) ==
    /\ deadline[c] = "ahead"
    /\ deadline' = [deadline EXCEPT ![c] = "passed"]
    /\ ev' = Waits(ev, Unblock(ev.wait, c))
    /\ UNCHANGED <<vol, held, scans, unwrapped, caller, server, killed, lostRoom, attached>>

\* sched.kill
Kill(c) ==
    /\ c \in Killable \ killed
    /\ killed' = killed \cup {c}
    /\ ev' = Waits(ev, Unblock(ev.wait, c))
    /\ UNCHANGED <<vol, held, scans, unwrapped, caller, server, deadline, lostRoom, attached>>

CallerStep(c) ==
    \/ \E i \in Volumes : Enter(c, i)
    \/ Claim(c) \/ ClaimAgain(c) \/ Run(c) \/ RunAgain(c)
    \/ \E more \in BOOLEAN : FreeSlot(c, more)
    \/ LeaveVolume(c) \/ Expire(c) \/ Kill(c)

ServerStep(p) ==
    \/ AttachPick(p) \/ AttachFail(p) \/ Publish(p)
    \/ \E data \in Segments : AttachFill(p, data)
    \/ NextRequest(p) \/ NextIsNone(p) \/ WaitDoorbell(p) \/ DoorbellRang(p)
    \/ Done(p) \/ DoneAgain(p) \/ Detach(p)

Next ==
    \/ \E c \in Callers : CallerStep(c)
    \/ \E p \in Servers : ServerStep(p)
    \/ \E i \in Volumes : Survey(i)

\* A runnable thread is scheduled and the clock goes on; that a server answers
\* is not promised.
Fairness ==
    /\ \A c \in Callers :
        WF_vars(Claim(c) \/ ClaimAgain(c) \/ Run(c) \/ RunAgain(c)
                  \/ FreeSlot(c, FALSE) \/ LeaveVolume(c) \/ Expire(c))
    /\ \A p \in Servers : WF_vars(DoorbellRang(p))

Spec == Init /\ [][Next]_vars /\ Fairness

-----------------------------------------------------------------------------
SlotStates == {"free", "claimed", "offered", "taken", "done", "abandoned"}
CallerPlaces == {"outside", "entered", "room", "claimed", "running", "answered",
                 "failed", "leaving"}
ServerPlaces == {"off", "picked", "filled", "idle", "serving", "waiting", "carrying"}

Requests == [slot : Slots, generation : 0..MaxGeneration, data : Segments] \cup {NoRequest}

\* Hypothesis of the proofs: no two servers are inside attach with the same
\* index.  freeVolume marks nothing (ublk.zig:204), so the kernel does not ensure
\* it (item 10 of section 5 of the README); usbd does, being one event loop.
AttachesApart ==
    \A p, q \in Servers :
        server[p].at = "picked" /\ server[q].at = "picked" /\ server[p].vol = server[q].vol => p = q

TypeOK ==
    /\ vol \in [Volumes -> [live : BOOLEAN, server : Servers \cup {None},
                            data : Segments \cup {None}, published : BOOLEAN,
                            users : 0..Cardinality(Callers),
                            slots : [Slots -> [state : SlotStates,
                                               generation : 0..MaxGeneration,
                                               answer : {"none", "asked", "gone", "stale"}]]]]
    /\ held \subseteq Segments /\ unwrapped \in BOOLEAN
    /\ scans \in [Volumes -> 0..Attachments] /\ attached \in 0..Attachments
    /\ caller \in [Callers -> [at : CallerPlaces, vol : Volumes \cup {None},
                               slot : Slots \cup {None}]]
    /\ server \in [Servers -> [at : ServerPlaces, vol : Volumes \cup {None},
                               hand : Requests, last : Requests]]
    /\ ev.count \in [Bells -> 0..MaxCount]
    /\ ev.wait \in WaitRecords(Threads, Queues)
    /\ deadline \in [Callers -> {"none", "ahead", "passed"}]
    /\ killed \subseteq Killable /\ lostRoom \subseteq Volumes

HasSlot(c) == caller[c].slot # None

\* Two callers never have the same slot, and while the server is still at work
\* on a slot's memory nobody but the caller that asked has that slot, however
\* long ago it gave up waiting (ublk.zig:84-96, 516-531).  The second is within
\* one attachment, see AnswerIsItsOwn.
SlotMemoryIsNotShared ==
    /\ \A c, d \in Callers :
          HasSlot(c) /\ HasSlot(d) /\ caller[c].vol = caller[d].vol
              /\ caller[c].slot = caller[d].slot => c = d
    /\ attached <= 1 => \A p \in Servers, c \in Callers :
          /\ server[p].at = "carrying" /\ HasSlot(c)
          /\ caller[c].slot = server[p].hand.slot
          /\ vol[caller[c].vol].data = server[p].hand.data
          => SlotOf(c).generation = server[p].hand.generation

\* No request is answered with what was meant for another: an answer that
\* arrives late "is recognised as stale rather than mistaken for the one now
\* using it" (ublk.zig:97-103, 246-257).  That is within one attachment: the
\* next one starts the generations afresh (ublk.zig:214).
AnswerIsItsOwn ==
    attached <= 1 => \A i \in Volumes, k \in Slots : vol[i].slots[k].answer # "stale"

\* The shared area and the doorbell are there for as long as anyone is inside a
\* transfer, and gone once a volume that was torn down has nobody on it
\* (ublk.zig:158-162, 414-417, 562-577).
ResourcesOutliveUsers ==
    \A i \in Volumes :
        /\ vol[i].users = Cardinality({c \in Callers : caller[c].vol = i})
        /\ vol[i].data # None <=> vol[i].live \/ vol[i].users > 0
        /\ vol[i].data # None => vol[i].data \in held

\* Every area a volume was given is still some volume's, or has been let go.
NoAreaIsLost == held = Holding(vol)

\* An area is let go when the last user has left a volume that is gone, neither
\* sooner nor never.
AreaIsFreedOnce == ResourcesOutliveUsers /\ NoAreaIsLost

InWait(c) == caller[c].at \in {"room", "running"} /\ ~Ready(ev.wait, c)

\* Nobody is left waiting out a deadline on a volume whose server has gone,
\* not even one that had claimed and not yet offered when it went
\* (ublk.zig:387-402, 545-550).
NobodyWaitsOnTheGone ==
    \A c \in Callers : InWait(c) => vol[caller[c].vol].live

\* A caller waits for a slot only while every slot is busy or one woken for room
\* is on its way (ublk.zig:493: "waiting for one if every slot is busy"), unless
\* a claimer that freeSlot woke was killed and took the wakeup with it
\* (ublk.zig:510, 530): then until the slots have all been taken once more.
NoStrandedClaimer ==
    \A c \in Callers :
        /\ caller[c].at = "room" /\ InWait(c)
        /\ FreeSlots(caller[c].vol) # {} /\ caller[c].vol \notin lostRoom
        => \E d \in Callers : Room(caller[c].vol) \in ev.wait.woken[d]

\* The server does not sleep on a doorbell beside a request it has been offered.
OfferIsHeard ==
    \A p \in Servers :
        server[p].at = "waiting" /\ ~Ready(ev.wait, p) /\ Owns(p)
            => Offered(server[p].vol) = {}

\* The volume-scan thread finds the device it was started for, though the
\* volume may have gone before it first ran: `volume.published.?`
\* (ublk.zig:317-318).  That too is within one attachment: a scan that runs
\* between the next attach and its publish finds a live volume and no device.
ScanFindsItsDevice == attached <= 1 => ~unwrapped

\* Slots have one user each, the scan has a device and the area is freed once,
\* however slow the server and however often it comes and goes.
VolumeIsSound ==
    TypeOK /\ SlotMemoryIsNotShared /\ ScanFindsItsDevice /\ AreaIsFreedOnce

\* Nobody sleeps on a volume but for what somebody else is to do: a claimer for
\* a busy slot, a caller for a server that is there, a server for an offer.
NobodyIsStranded == NobodyWaitsOnTheGone /\ NoStrandedClaimer /\ OfferIsHeard

\* Everyone on a volume that has gone gets off it, and the index is free again.
GoneIsLeft == \A i \in Volumes : ~vol[i].live ~> (vol[i].users = 0)

=============================================================================
