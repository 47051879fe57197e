------------------------------ MODULE UblkProofs ------------------------------
(***************************************************************************)
(* Ublk for any number of callers, servers, volumes and slots: slots and   *)
(* areas have one owner, no answer is taken for another's, and nobody      *)
(* sleeps but for what somebody else is to do.                             *)
(***************************************************************************)
EXTENDS Ublk, WaitQueueProofs, FiniteSetTheorems

-----------------------------------------------------------------------------
(* The inductive invariant, in parts that are operators of rigid values. *)

SlotRecords == [state : SlotStates, generation : 0..MaxGeneration,
                answer : {"none", "asked", "gone", "stale"}]
VolumeRecords == [live : BOOLEAN, server : Servers \cup {None},
                  data : Segments \cup {None}, published : BOOLEAN,
                  users : Nat, slots : [Slots -> SlotRecords]]
CallerRecords == [at : CallerPlaces, vol : Volumes \cup {None}, slot : Slots \cup {None}]
ServerRecords == [at : ServerPlaces, vol : Volumes \cup {None},
                  hand : Requests, last : Requests]

VolumesTyped(v) == v \in [Volumes -> VolumeRecords]
CallersTyped(cl) == cl \in [Callers -> CallerRecords]
ServersTyped(sv) == sv \in [Servers -> ServerRecords]

\* A caller is on a volume from enter to leave, and has a slot of it from claim
\* to freeSlot.
PlacesOK(cl) ==
    \A c \in Callers :
        /\ cl[c].vol = None <=> cl[c].at = "outside"
        /\ cl[c].slot = None <=> cl[c].at \notin {"claimed", "running", "answered", "failed"}

UsersOf(cl, i) == {c \in Callers : cl[c].vol = i}

\* A volume counts its users, and has an area while it is live or used.
UsersOK(v, cl) ==
    \A i \in Volumes :
        /\ v[i].users = Cardinality(UsersOf(cl, i))
        /\ v[i].data # None <=> v[i].live \/ v[i].users > 0

\* The areas held are those of the volumes, one each.
AreasOK(v, hd) ==
    /\ hd = {v[i].data : i \in Volumes} \ {None}
    /\ \A i, j \in Volumes : v[i].data = v[j].data /\ v[i].data # None => i = j

Serving == {"filled", "idle", "serving", "waiting", "carrying"}

\* Where a server hears of an offer by its doorbell alone.
Listening == {"filled", "idle", "waiting"}

\* A server in attach has an unused index, one past it the volume, and a request
\* in hand is in the volume's area.
OwnersOK(v, sv) ==
    \A p \in Servers :
        /\ sv[p].vol = None <=> sv[p].at = "off"
        /\ sv[p].at = "picked" => ~v[sv[p].vol].live /\ v[sv[p].vol].users = 0
        /\ sv[p].at \in Serving => v[sv[p].vol].live /\ v[sv[p].vol].server = p
        /\ sv[p].at = "carrying" =>
              sv[p].hand # NoRequest /\ sv[p].hand.data = v[sv[p].vol].data

\* Every publish has an attach of its own before it, and the scan of a first
\* attachment finds the device or no volume.
ScansOK(v, sv, sc, uw, n) ==
    /\ uw \in BOOLEAN /\ n \in 0..Attachments /\ sc \in [Volumes -> Nat]
    /\ \A i \in Volumes : sc[i] <= n
    /\ \A p \in Servers :
          /\ sv[p].at # "off" => n # 0
          /\ sv[p].at \in {"picked", "filled"} => sc[sv[p].vol] < n
    /\ n <= 1 => ~uw /\ \A i \in Volumes : sc[i] > 0 /\ v[i].live => v[i].published

\* A slot that a caller has is nobody else's, and busy as the caller's place says.
SlotsOK(v, cl) ==
    /\ \A c, d \in Callers :
          cl[c].slot # None /\ cl[d].slot # None /\ cl[c].vol = cl[d].vol
              /\ cl[c].slot = cl[d].slot => c = d
    /\ \A c \in Callers : cl[c].slot # None =>
          LET s == v[cl[c].vol].slots[cl[c].slot] IN
          /\ s.state \notin {"free", "abandoned"}
          /\ cl[c].at = "claimed" => s.state = "claimed" \/ ~v[cl[c].vol].live
          /\ cl[c].at = "running" => s.state # "claimed"

\* Within a first attachment: the tag a server carries names a slot it has
\* taken, the tag it answered last one that has been answered or claimed anew.
TagsOK(v, sv, n) ==
    n <= 1 =>
        /\ \A i \in Volumes, k \in Slots : v[i].slots[k].answer # "stale"
        /\ \A p \in Servers :
              /\ n = 0 \/ sv[p].at = "picked" => sv[p].last = NoRequest
              /\ sv[p].at = "carrying" =>
                    LET s == v[sv[p].vol].slots[sv[p].hand.slot] IN
                    /\ s.generation = sv[p].hand.generation
                    /\ s.state \in {"taken", "abandoned"}
              /\ sv[p].at \in Serving /\ sv[p].last # NoRequest =>
                    LET s == v[sv[p].vol].slots[sv[p].last.slot] IN
                    /\ sv[p].last.generation <= s.generation
                    /\ sv[p].last.generation = s.generation => s.state \in {"free", "done"}

\* The queues each thread may be on.
QueuesFor(cl, sv) ==
    [t \in Threads |->
        IF t \in Callers
        THEN IF cl[t].at = "room" THEN {Room(cl[t].vol)}
             ELSE IF cl[t].at = "running" THEN {SlotQueue(cl[t].vol, cl[t].slot)} ELSE {}
        ELSE IF sv[t].at = "waiting" THEN {Doorbell(sv[t].vol)} ELSE {}]

\* Nodes and flags are where their threads wait, never both, and whoever sleeps
\* has a node.
WaitOK(w, Q) ==
    /\ w \in WaitRecords(Threads, Queues) /\ OneNodeEach(w)
    /\ \A t \in Threads :
          /\ \A q \in Queues : Queued(w, q, t) => q \in Q[t] /\ q \notin w.woken[t]
          /\ w.woken[t] \subseteq Q[t]
          /\ ~Ready(w, t) => \E q \in Queues : Queued(w, q, t)

\* Callers sleep on live volumes and not on answers; a server sleeps only while
\* its doorbell is down, and from where `next` found nothing to the end of the
\* wait it is down only while nothing is offered.
SleepOK(v, w, n, cl, sv) ==
    /\ \A c \in Callers :
          ~Ready(w, c) =>
              /\ v[cl[c].vol].live
              /\ cl[c].at = "running" => v[cl[c].vol].slots[cl[c].slot].state # "done"
    /\ \A p \in Servers : sv[p].at \in Listening =>
          /\ ~Ready(w, p) => n[Doorbell(sv[p].vol)] = 0
          /\ n[Doorbell(sv[p].vol)] = 0 =>
                \A k \in Slots : v[sv[p].vol].slots[k].state # "offered"

FreeIn(v, i) == {k \in Slots : v[i].slots[k].state = "free"}
WokenFor(w, i) == {c \in Callers : Room(i) \in w.woken[c]}
Claimers(w, i) == {c \in Callers : Queued(w, Room(i), c)}

\* While somebody waits for room, and no killed claimer took a wakeup with it, a
\* woken claimer is coming for each free slot.
RoomAt(w, i, n) == Claimers(w, i) # {} => n <= Cardinality(WokenFor(w, i))
RoomOK(v, w, ls) ==
    \A i \in Volumes : v[i].live /\ i \notin ls => RoomAt(w, i, Cardinality(FreeIn(v, i)))

\* What concerns slots, callers, servers and their waits.
Core(v, cl, sv, w, n, a) ==
    /\ VolumesTyped(v) /\ CallersTyped(cl) /\ ServersTyped(sv) /\ n \in [Bells -> 0..MaxCount]
    /\ PlacesOK(cl) /\ UsersOK(v, cl) /\ OwnersOK(v, sv) /\ SlotsOK(v, cl) /\ TagsOK(v, sv, a)
    /\ WaitOK(w, QueuesFor(cl, sv)) /\ SleepOK(v, w, n, cl, sv)

IInv ==
    /\ Core(vol, caller, server, ev.wait, ev.count, attached)
    /\ AreasOK(vol, held)
    /\ ScansOK(vol, server, scans, unwrapped, attached)
    /\ RoomOK(vol, ev.wait, lostRoom)
    /\ deadline \in [Callers -> {"none", "ahead", "passed"}] /\ killed \subseteq Killable /\ lostRoom \subseteq Volumes

-----------------------------------------------------------------------------
(* Names and sets. *)

\* The threads are callers and servers, and None is no index.
LEMMA Basics ==
    /\ \A c \in Callers : c \in Threads /\ c \notin Servers
    /\ \A p \in Servers : p \in Threads /\ p \notin Callers
    /\ \A t \in Threads : t \in Callers \/ t \in Servers
    /\ None \notin Volumes /\ None \notin Slots /\ None \notin Segments /\ None \notin Servers
    /\ Slots \subseteq Nat /\ Volumes \subseteq Nat /\ IsFiniteSet(Slots)
<1>1. Slots \subseteq Nat
  BY UblkAssumption DEF Slots
<1>2. IsFiniteSet(Slots)
  BY UblkAssumption, FS_Interval DEF Slots
<1> QED
  BY <1>1, <1>2, UblkAssumption DEF Threads

\* The queues are different from one another.
LEMMA Names ==
    /\ \A i \in Volumes : Room(i) \in Queues /\ Doorbell(i) \in Queues /\ Doorbell(i) \in Bells
    /\ \A i \in Volumes, k \in Slots : SlotQueue(i, k) \in Queues
    /\ \A i, j : Room(i) = Room(j) => i = j
    /\ \A i, j : Doorbell(i) = Doorbell(j) => i = j
    /\ \A i, j, k, l : SlotQueue(i, k) = SlotQueue(j, l) => i = j /\ k = l
    /\ \A i, j, k : Room(i) # Doorbell(j) /\ Room(i) # SlotQueue(j, k)
                    /\ Doorbell(i) # SlotQueue(j, k)
<1>1. /\ \A i \in Volumes : Room(i) \in Queues /\ Doorbell(i) \in Queues /\ Doorbell(i) \in Bells
      /\ \A i \in Volumes, k \in Slots : SlotQueue(i, k) \in Queues
  BY DEF Queues, QueuesOf, Bells
<1>2. /\ \A i, j : Room(i) = Room(j) => i = j
      /\ \A i, j : Doorbell(i) = Doorbell(j) => i = j
  BY DEF Room, Doorbell
<1>3. \A i, j, k, l : SlotQueue(i, k) = SlotQueue(j, l) => i = j /\ k = l
  BY DEF SlotQueue
<1>4. \A i, j, k : Room(i)[1] = "room" /\ Doorbell(i)[1] = "doorbell" /\ SlotQueue(j, k)[1] = "slot"
  BY DEF Room, Doorbell, SlotQueue
<1>5. \A i, j, k : Room(i) # Doorbell(j) /\ Room(i) # SlotQueue(j, k)
                    /\ Doorbell(i) # SlotQueue(j, k)
  BY <1>4
<1> QED
  BY <1>1, <1>2, <1>3, <1>5

\* The queues of a volume.
LEMMA QueuesOfVolume ==
    ASSUME NEW i \in Volumes, NEW q \in QueuesOf(i)
    PROVE  /\ q \in Queues
           /\ q = Room(i) \/ q = Doorbell(i) \/ \E k \in Slots : q = SlotQueue(i, k)
BY DEF Queues, QueuesOf

\* The least of a set of numbers is one of them.
LEMMA MinIsMember ==
    ASSUME NEW T \in SUBSET Nat, T # {}
    PROVE  Min(T) \in T
<1>1. \E x \in T : \A y \in T : x <= y
  BY LeastExists
<1> QED
  BY <1>1 DEF Min

-----------------------------------------------------------------------------
(* The waits, for any choice of the queues each thread may be on. *)

\* Thread t runs and has no node anywhere.
Clean(w, t) == Ready(w, t) /\ w.woken[t] = {} /\ \A q \in Queues : ~Queued(w, q, t)

\* Whoever runs before runs after.
Wakes(w, x) == \A t \in Threads : Ready(w, t) => Ready(x, t)

LEMMA WaitTypes ==
    ASSUME NEW w \in WaitRecords(Threads, Queues)
    PROVE  /\ w.queue \in [Queues -> Seq(Threads)]
           /\ w.state \in [Threads -> RunStates]
           /\ w.woken \in [Threads -> SUBSET Queues]
BY DEF WaitRecords

\* A thread that may be on no queue is on none, and runs.
LEMMA NowhereIsClean ==
    ASSUME NEW w, NEW Q, WaitOK(w, Q), NEW t \in Threads, Q[t] = {}
    PROVE  Clean(w, t)
BY DEF WaitOK, Clean

\* x is w, nobody being on queue q, or w with one thread of it taken off.
WokeOne(w, x, Q, q) ==
    \/ x = w /\ \A t : ~Queued(w, q, t)
    \/ \E t \in Threads :
          /\ Queued(w, q, t) /\ q \in Q[t] /\ q \notin w.woken[t] /\ Ready(x, t)
          /\ x.woken = [w.woken EXCEPT ![t] = @ \cup {q}]
          /\ \A p \in Queues : \A u : Queued(x, p, u) <=> Queued(w, p, u) /\ ~(p = q /\ u = t)

LEMMA WakingOne ==
    ASSUME NEW w, NEW Q, WaitOK(w, Q), NEW q \in Queues
    PROVE  /\ WaitOK(WakeOne(w, q), Q) /\ Wakes(w, WakeOne(w, q))
           /\ WokeOne(w, WakeOne(w, q), Q, q)
<1>1. w \in WaitRecords(Threads, Queues) /\ OneNodeEach(w)
  BY DEF WaitOK
<1>2. PICK x : x = WakeOne(w, q)
  OBVIOUS
<1>3. x \in WaitRecords(Threads, Queues) /\ OneNodeEach(x)
  BY <1>1, <1>2, WakeOneType, WakeOneMembers
<1>4. (x = w /\ \A t : ~Queued(w, q, t)) \/ \E t \in Threads : Woke(w, x, Queues, q, t)
  BY <1>1, <1>2, WakeOneMembers
<1>5. CASE x = w /\ \A t : ~Queued(w, q, t)
  BY <1>2, <1>5 DEF Wakes, WokeOne
<1>6. ASSUME NEW t \in Threads, Woke(w, x, Queues, q, t)
      PROVE  /\ WaitOK(x, Q) /\ Wakes(w, x)
             /\ Queued(w, q, t) /\ q \in Q[t] /\ q \notin w.woken[t] /\ Ready(x, t)
             /\ x.woken = [w.woken EXCEPT ![t] = @ \cup {q}]
             /\ \A p \in Queues : \A u : Queued(x, p, u) <=> Queued(w, p, u) /\ ~(p = q /\ u = t)
  <2>1. /\ w.state \in [Threads -> RunStates] /\ w.woken \in [Threads -> SUBSET Queues]
    BY <1>1, WaitTypes
  <2>2. /\ Queued(w, q, t) /\ x.woken = [w.woken EXCEPT ![t] = @ \cup {q}]
        /\ \A p \in Queues : \A u : Queued(x, p, u) <=> Queued(w, p, u) /\ ~(p = q /\ u = t)
        /\ x.state[t] = "ready" /\ x.woken[t] = w.woken[t] \cup {q}
        /\ \A u \in Threads : u # t => x.state[u] = w.state[u] /\ x.woken[u] = w.woken[u]
    BY <1>6, <2>1 DEF Woke
  <2>3. q \in Q[t] /\ q \notin w.woken[t]
    BY <2>2 DEF WaitOK
  <2>4. Wakes(w, x) /\ Ready(x, t)
    BY <2>2 DEF Wakes, Ready
  <2>5. ASSUME NEW u \in Threads
        PROVE  /\ \A p \in Queues : Queued(x, p, u) => p \in Q[u] /\ p \notin x.woken[u]
               /\ x.woken[u] \subseteq Q[u]
               /\ ~Ready(x, u) => \E p \in Queues : Queued(x, p, u)
    <3>1. /\ \A p \in Queues : Queued(w, p, u) => p \in Q[u] /\ p \notin w.woken[u]
          /\ w.woken[u] \subseteq Q[u]
          /\ ~Ready(w, u) => \E p \in Queues : Queued(w, p, u)
      BY DEF WaitOK
    <3>2. CASE u = t
      BY <2>2, <2>3, <2>4, <3>1, <3>2
    <3>3. CASE u # t
      <4>1. x.state[u] = w.state[u] /\ x.woken[u] = w.woken[u]
        BY <2>2, <3>3
      <4>2. \A p \in Queues : Queued(x, p, u) <=> Queued(w, p, u)
        BY <2>2, <3>3
      <4> QED
        BY <3>1, <4>1, <4>2 DEF Ready
    <3> QED
      BY <3>2, <3>3
  <2>6. WaitOK(x, Q)
    BY <1>3, <2>5 DEF WaitOK
  <2> QED
    BY <2>2, <2>3, <2>4, <2>6
<1> QED
  BY <1>2, <1>4, <1>5, <1>6 DEF WokeOne

\* x is w with everybody on the queues of T taken off them.
WokeEach(w, x, T) ==
    /\ \A t \in Threads, q \in T : Queued(w, q, t) => Ready(x, t)
    /\ \A t \in Threads : x.woken[t] = w.woken[t] \cup {q \in T : Queued(w, q, t)}
    /\ \A q \in Queues : \A u : Queued(x, q, u) <=> Queued(w, q, u) /\ q \notin T

\* x is w with thread t off every queue.
TakenOff(w, x, t) ==
    /\ \A u \in Threads : u # t => x.woken[u] = w.woken[u]
    /\ \A q \in Queues : \A u : Queued(x, q, u) <=> Queued(w, q, u) /\ u # t

\* wakeAll of a set of queues: everyone on one of them runs.
LEMMA WakingEach ==
    ASSUME NEW w, NEW Q, WaitOK(w, Q), NEW T \in SUBSET Queues
    PROVE  /\ WaitOK(WakeEach(w, T), Q)
           /\ Wakes(w, WakeEach(w, T)) /\ WokeEach(w, WakeEach(w, T), T)
<1>1. w \in WaitRecords(Threads, Queues) /\ OneNodeEach(w)
  BY DEF WaitOK
<1>2. PICK x : x = WakeEach(w, T)
  OBVIOUS
<1>3. x \in WaitRecords(Threads, Queues) /\ OneNodeEach(x)
  BY <1>1, <1>2, WakeEachType, WakeEachMembers
<1>4. \A q \in Queues : \A u : Queued(x, q, u) <=> Queued(w, q, u) /\ q \notin T
  BY <1>1, <1>2, WakeEachMembers
<1>5. /\ w.state \in [Threads -> RunStates] /\ w.woken \in [Threads -> SUBSET Queues]
  BY <1>1, WaitTypes
<1>6. /\ \A t \in Threads : x.state[t] = IF \E q \in T : Queued(w, q, t) THEN "ready" ELSE w.state[t]
      /\ \A t \in Threads : x.woken[t] = w.woken[t] \cup {q \in T : Queued(w, q, t)}
  BY <1>2, <1>5 DEF WakeEach
<1>7. Wakes(w, x)
  BY <1>6 DEF Wakes, Ready
<1>8. \A t \in Threads, q \in T : Queued(w, q, t) => Ready(x, t)
  BY <1>6 DEF Ready
<1>9. ASSUME NEW u \in Threads
      PROVE  /\ \A p \in Queues : Queued(x, p, u) => p \in Q[u] /\ p \notin x.woken[u]
             /\ x.woken[u] \subseteq Q[u]
             /\ ~Ready(x, u) => \E p \in Queues : Queued(x, p, u)
  <2>1. /\ \A p \in Queues : Queued(w, p, u) => p \in Q[u] /\ p \notin w.woken[u]
        /\ w.woken[u] \subseteq Q[u]
        /\ ~Ready(w, u) => \E p \in Queues : Queued(w, p, u)
    BY DEF WaitOK
  <2>2. \A p \in Queues : Queued(x, p, u) => p \in Q[u] /\ p \notin x.woken[u]
    BY <1>4, <1>6, <2>1
  <2>3. x.woken[u] \subseteq Q[u]
    BY <1>6, <2>1
  <2>4. ASSUME ~Ready(x, u) PROVE \E p \in Queues : Queued(x, p, u)
    <3>1. ~Ready(w, u) /\ \A q \in T : ~Queued(w, q, u)
      BY <1>7, <1>8, <2>4 DEF Wakes
    <3> QED
      BY <1>4, <2>1, <3>1
  <2> QED
    BY <2>2, <2>3, <2>4
<1>10. WaitOK(x, Q)
  BY <1>3, <1>9 DEF WaitOK
<1> QED
  BY <1>2, <1>4, <1>6, <1>7, <1>8, <1>10 DEF WokeEach

\* unblock: a thread is made to run and nothing else.
LEMMA Unblocking ==
    ASSUME NEW w, NEW Q, WaitOK(w, Q), NEW t \in Threads
    PROVE  /\ WaitOK(Unblock(w, t), Q)
           /\ Wakes(w, Unblock(w, t))
           /\ Unblock(w, t).woken = w.woken
           /\ \A q, u : Queued(Unblock(w, t), q, u) <=> Queued(w, q, u)
<1>1. w \in WaitRecords(Threads, Queues) /\ OneNodeEach(w)
  BY DEF WaitOK
<1>2. PICK x : x = Unblock(w, t)
  OBVIOUS
<1>3. x \in WaitRecords(Threads, Queues) /\ OneNodeEach(x)
  BY <1>1, <1>2, UnblockType, UnblockMembers
<1>4. \A q, u : Queued(x, q, u) <=> Queued(w, q, u)
  BY <1>1, <1>2, UnblockMembers
<1>5. x.woken = w.woken /\ x.state = [w.state EXCEPT ![t] = "ready"]
  BY <1>2 DEF Unblock
<1>6. Wakes(w, x)
  BY <1>1, <1>5, WaitTypes DEF Wakes, Ready
<1>7. WaitOK(x, Q)
  BY <1>3, <1>4, <1>5, <1>6 DEF WaitOK, Wakes
<1> QED
  BY <1>2, <1>4, <1>5, <1>6, <1>7

\* Back from blockOn: a thread that runs is taken off its queues.
LEMMA Leaving ==
    ASSUME NEW w, NEW Q, WaitOK(w, Q), NEW t \in Threads, Ready(w, t)
    PROVE  /\ WaitOK(Leave(w, t), Q) /\ Clean(Leave(w, t), t)
           /\ Wakes(w, Leave(w, t)) /\ TakenOff(w, Leave(w, t), t)
<1>1. w \in WaitRecords(Threads, Queues) /\ OneNodeEach(w)
  BY DEF WaitOK
<1>2. PICK x : x = Leave(w, t)
  OBVIOUS
<1>3. x \in WaitRecords(Threads, Queues) /\ OneNodeEach(x)
  BY <1>1, <1>2, LeaveType, LeaveMembers
<1>4. \A q \in Queues : \A u : Queued(x, q, u) <=> Queued(w, q, u) /\ u # t
  BY <1>1, <1>2, LeaveMembers
<1>5. x.state = w.state /\ x.woken = [w.woken EXCEPT ![t] = {}]
  BY <1>2 DEF Leave
<1>6. x.woken[t] = {} /\ \A u \in Threads : u # t => x.woken[u] = w.woken[u]
  BY <1>1, <1>5, WaitTypes
<1>7. Clean(x, t) /\ Wakes(w, x)
  BY <1>4, <1>5, <1>6 DEF Clean, Wakes, Ready
<1>8. ASSUME NEW u \in Threads
      PROVE  /\ \A p \in Queues : Queued(x, p, u) => p \in Q[u] /\ p \notin x.woken[u]
             /\ x.woken[u] \subseteq Q[u]
             /\ ~Ready(x, u) => \E p \in Queues : Queued(x, p, u)
  <2>1. CASE u = t
    BY <1>7, <2>1 DEF Clean
  <2>2. CASE u # t
    BY <1>4, <1>5, <1>6, <2>2 DEF WaitOK, Ready
  <2> QED
    BY <2>1, <2>2
<1>9. WaitOK(x, Q)
  BY <1>3, <1>8 DEF WaitOK
<1> QED
  BY <1>2, <1>4, <1>6, <1>7, <1>9 DEF TakenOff

\* The end of a thread's wait by another's hand.
LEMMA Ending ==
    ASSUME NEW w, NEW Q, WaitOK(w, Q), NEW t \in Threads
    PROVE  /\ WaitOK(Unblock(Leave(w, t), t), Q) /\ Clean(Unblock(Leave(w, t), t), t)
           /\ Wakes(w, Unblock(Leave(w, t), t)) /\ TakenOff(w, Unblock(Leave(w, t), t), t)
<1>1. w \in WaitRecords(Threads, Queues) /\ OneNodeEach(w)
  BY DEF WaitOK
<1>2. PICK y : y = Leave(w, t)
  OBVIOUS
<1>3. PICK x : x = Unblock(y, t)
  OBVIOUS
<1>4. y \in WaitRecords(Threads, Queues) /\ OneNodeEach(y)
  BY <1>1, <1>2, LeaveType, LeaveMembers
<1>5. x \in WaitRecords(Threads, Queues) /\ OneNodeEach(x)
  BY <1>3, <1>4, UnblockType, UnblockMembers
<1>6. \A q \in Queues : \A u : Queued(x, q, u) <=> Queued(w, q, u) /\ u # t
  <2>1. \A q \in Queues : \A u : Queued(y, q, u) <=> Queued(w, q, u) /\ u # t
    BY <1>1, <1>2, LeaveMembers
  <2>2. \A q, u : Queued(x, q, u) <=> Queued(y, q, u)
    BY <1>3, <1>4, UnblockMembers
  <2> QED
    BY <2>1, <2>2
<1>7. x.state = [w.state EXCEPT ![t] = "ready"] /\ x.woken = [w.woken EXCEPT ![t] = {}]
  BY <1>2, <1>3 DEF Leave, Unblock
<1>8. /\ x.woken[t] = {} /\ x.state[t] = "ready"
      /\ \A u \in Threads : u # t => x.woken[u] = w.woken[u] /\ x.state[u] = w.state[u]
  BY <1>1, <1>7, WaitTypes
<1>9. Clean(x, t) /\ Wakes(w, x)
  BY <1>6, <1>8 DEF Clean, Wakes, Ready
<1>10. ASSUME NEW u \in Threads
      PROVE  /\ \A p \in Queues : Queued(x, p, u) => p \in Q[u] /\ p \notin x.woken[u]
             /\ x.woken[u] \subseteq Q[u]
             /\ ~Ready(x, u) => \E p \in Queues : Queued(x, p, u)
  <2>1. CASE u = t
    BY <1>9, <2>1 DEF Clean
  <2>2. CASE u # t
    BY <1>6, <1>8, <2>2 DEF WaitOK, Ready
  <2> QED
    BY <2>1, <2>2
<1>11. WaitOK(x, Q)
  BY <1>5, <1>10 DEF WaitOK
<1> QED
  BY <1>2, <1>3, <1>6, <1>8, <1>9, <1>11 DEF TakenOff

\* Where a thread that is on no queue may wait is of no matter.
LEMMA Moving ==
    ASSUME NEW w, NEW Q, WaitOK(w, Q), NEW t \in Threads, Clean(w, t),
           NEW R, \A u \in Threads : u # t => R[u] = Q[u]
    PROVE  WaitOK(w, R)
<1>1. ASSUME NEW u \in Threads
      PROVE  /\ \A p \in Queues : Queued(w, p, u) => p \in R[u] /\ p \notin w.woken[u]
             /\ w.woken[u] \subseteq R[u]
             /\ ~Ready(w, u) => \E p \in Queues : Queued(w, p, u)
  <2>1. CASE u = t
    BY <2>1 DEF Clean
  <2>2. CASE u # t
    BY <2>2 DEF WaitOK
  <2> QED
    BY <2>1, <2>2
<1> QED
  BY <1>1 DEF WaitOK

\* x is w with thread t asleep on queue q.
Asleep(w, x, t, q) ==
    /\ ~Ready(x, t)
    /\ \A u \in Threads : u # t => (Ready(x, u) <=> Ready(w, u))
    /\ x.woken = w.woken
    /\ \A p \in Queues : \A u : Queued(x, p, u) <=> Queued(w, p, u) \/ (p = q /\ u = t)

\* blockOn: a thread that is on no queue goes to sleep on one.
LEMMA Blocking ==
    ASSUME NEW w, NEW Q, WaitOK(w, Q), NEW t \in Threads, Clean(w, t),
           NEW q \in Queues, NEW d \in BOOLEAN,
           NEW R, R[t] = {q}, \A u \in Threads : u # t => R[u] = Q[u]
    PROVE  WaitOK(Block(w, t, {q}, d), R) /\ Asleep(w, Block(w, t, {q}, d), t, q)
<1>1. w \in WaitRecords(Threads, Queues) /\ OneNodeEach(w)
  BY DEF WaitOK
<1>2. PICK x : x = Block(w, t, {q}, d)
  OBVIOUS
<1>3. \A p \in Queues : ~Queued(w, p, t)
  BY DEF Clean
<1>4. x \in WaitRecords(Threads, Queues) /\ OneNodeEach(x)
  BY <1>1, <1>2, <1>3, BlockType, BlockMembers
<1>5. \A p \in Queues : \A u : Queued(x, p, u) <=> Queued(w, p, u) \/ (p = q /\ u = t)
  <2>1. \A p \in Queues : \A u : Queued(x, p, u) <=> Queued(w, p, u) \/ (p \in {q} /\ u = t)
    BY <1>1, <1>2, <1>3, BlockMembers
  <2> QED
    BY <2>1
<1>6. /\ x.woken = [w.woken EXCEPT ![t] = {}]
      /\ x.state[t] # "ready" /\ \A u \in Threads : u # t => x.state[u] = w.state[u]
  BY <1>1, <1>2, WaitTypes DEF Block
<1>7. x.woken = w.woken
  BY <1>1, <1>6, WaitTypes DEF Clean
<1>8. ~Ready(x, t) /\ \A u \in Threads : u # t => (Ready(x, u) <=> Ready(w, u))
  BY <1>6 DEF Ready
<1>9. ASSUME NEW u \in Threads
      PROVE  /\ \A p \in Queues : Queued(x, p, u) => p \in R[u] /\ p \notin x.woken[u]
             /\ x.woken[u] \subseteq R[u]
             /\ ~Ready(x, u) => \E p \in Queues : Queued(x, p, u)
  <2>1. CASE u = t
    BY <1>3, <1>5, <1>7, <2>1 DEF Clean
  <2>2. CASE u # t
    BY <1>5, <1>7, <1>8, <2>2 DEF WaitOK
  <2> QED
    BY <2>1, <2>2
<1>10. WaitOK(x, R)
  BY <1>4, <1>9 DEF WaitOK
<1> QED
  BY <1>2, <1>5, <1>7, <1>8, <1>10 DEF Asleep

-----------------------------------------------------------------------------
(* Who waits where. *)

\* A caller waits on its volume's queue for room or on its slot's, a server on
\* its volume's doorbell.
LEMMA WhoWaits ==
    ASSUME NEW w, NEW cl, NEW sv, CallersTyped(cl), ServersTyped(sv), PlacesOK(cl),
           WaitOK(w, QueuesFor(cl, sv))
    PROVE  /\ \A c \in Callers : \A i \in Volumes :
                 Queued(w, Room(i), c) \/ Room(i) \in w.woken[c] => cl[c].at = "room" /\ cl[c].vol = i
           /\ \A c \in Callers : \A i \in Volumes, k \in Slots :
                 Queued(w, SlotQueue(i, k), c) =>
                     cl[c].at = "running" /\ cl[c].vol = i /\ cl[c].slot = k
           /\ \A p \in Servers : \A i \in Volumes :
                 Queued(w, Doorbell(i), p) => sv[p].at = "waiting" /\ sv[p].vol = i
           /\ \A c \in Callers : ~Ready(w, c) =>
                 \/ cl[c].at = "room" /\ Queued(w, Room(cl[c].vol), c)
                 \/ cl[c].at = "running" /\ Queued(w, SlotQueue(cl[c].vol, cl[c].slot), c)
           /\ \A p \in Servers : ~Ready(w, p) =>
                 sv[p].at = "waiting" /\ Queued(w, Doorbell(sv[p].vol), p)
           /\ \A p \in Servers : \A i \in Volumes :
                 ~Queued(w, Room(i), p) /\ \A k \in Slots : ~Queued(w, SlotQueue(i, k), p)
           /\ \A c \in Callers : \A i \in Volumes : ~Queued(w, Doorbell(i), c)
<1> DEFINE Q == QueuesFor(cl, sv)
<1>1. \A c \in Callers :
         Q[c] = IF cl[c].at = "room" THEN {Room(cl[c].vol)}
                ELSE IF cl[c].at = "running" THEN {SlotQueue(cl[c].vol, cl[c].slot)} ELSE {}
  BY Basics DEF QueuesFor
<1>2. \A p \in Servers : Q[p] = IF sv[p].at = "waiting" THEN {Doorbell(sv[p].vol)} ELSE {}
  BY Basics DEF QueuesFor
<1>3. \A t \in Threads :
          /\ \A q \in Queues : Queued(w, q, t) => q \in Q[t]
          /\ w.woken[t] \subseteq Q[t]
          /\ ~Ready(w, t) => \E q \in Queues : Queued(w, q, t)
  BY DEF WaitOK
<1> HIDE DEF Q
<1>4. ASSUME NEW c \in Callers
      PROVE  /\ \A i \in Volumes : Queued(w, Room(i), c) \/ Room(i) \in w.woken[c]
                    => cl[c].at = "room" /\ cl[c].vol = i
             /\ \A i \in Volumes, k \in Slots : Queued(w, SlotQueue(i, k), c) =>
                     cl[c].at = "running" /\ cl[c].vol = i /\ cl[c].slot = k
             /\ ~Ready(w, c) =>
                 \/ cl[c].at = "room" /\ Queued(w, Room(cl[c].vol), c)
                 \/ cl[c].at = "running" /\ Queued(w, SlotQueue(cl[c].vol, cl[c].slot), c)
             /\ \A i \in Volumes : ~Queued(w, Doorbell(i), c)
  <2>1. /\ \A q \in Queues : Queued(w, q, c) => q \in Q[c]
        /\ w.woken[c] \subseteq Q[c]
        /\ ~Ready(w, c) => \E q \in Queues : Queued(w, q, c)
    BY <1>3, Basics
  <2>2. CASE cl[c].at = "room"
    <3>1. Q[c] = {Room(cl[c].vol)}
      BY <1>1, <2>2
    <3> QED
      BY <2>1, <2>2, <3>1, Names
  <2>3. CASE cl[c].at = "running"
    <3>1. Q[c] = {SlotQueue(cl[c].vol, cl[c].slot)}
      BY <1>1, <2>3
    <3> QED
      BY <2>1, <2>3, <3>1, Names
  <2>4. CASE cl[c].at \notin {"room", "running"}
    <3>1. Q[c] = {}
      BY <1>1, <2>4
    <3> QED
      BY <2>1, <3>1, Names
  <2> QED
    BY <2>2, <2>3, <2>4
<1>5. ASSUME NEW p \in Servers
      PROVE  /\ \A i \in Volumes : Queued(w, Doorbell(i), p) => sv[p].at = "waiting" /\ sv[p].vol = i
             /\ ~Ready(w, p) => sv[p].at = "waiting" /\ Queued(w, Doorbell(sv[p].vol), p)
             /\ \A i \in Volumes :
                    ~Queued(w, Room(i), p) /\ \A k \in Slots : ~Queued(w, SlotQueue(i, k), p)
  <2>1. /\ \A q \in Queues : Queued(w, q, p) => q \in Q[p]
        /\ ~Ready(w, p) => \E q \in Queues : Queued(w, q, p)
    BY <1>3, Basics
  <2>2. CASE sv[p].at = "waiting"
    <3>1. Q[p] = {Doorbell(sv[p].vol)}
      BY <1>2, <2>2
    <3> QED
      BY <2>1, <2>2, <3>1, Names
  <2>3. CASE sv[p].at # "waiting"
    <3>1. Q[p] = {}
      BY <1>2, <2>3
    <3> QED
      BY <2>1, <3>1, Names
  <2> QED
    BY <2>2, <2>3
<1> QED
  BY <1>4, <1>5

\* What QueuesFor is of one thread, and of what it depends.
LEMMA QueuesForCaller ==
    ASSUME NEW cl, NEW sv, NEW c \in Callers
    PROVE  /\ cl[c].at = "room" => QueuesFor(cl, sv)[c] = {Room(cl[c].vol)}
           /\ cl[c].at = "running" => QueuesFor(cl, sv)[c] = {SlotQueue(cl[c].vol, cl[c].slot)}
           /\ cl[c].at \notin {"room", "running"} => QueuesFor(cl, sv)[c] = {}
BY Basics DEF QueuesFor

LEMMA QueuesForServer ==
    ASSUME NEW cl, NEW sv, NEW p \in Servers
    PROVE  /\ sv[p].at = "waiting" => QueuesFor(cl, sv)[p] = {Doorbell(sv[p].vol)}
           /\ sv[p].at # "waiting" => QueuesFor(cl, sv)[p] = {}
BY Basics DEF QueuesFor

LEMMA QueuesForOthers ==
    ASSUME NEW cl, NEW sv, NEW cx, NEW sx, NEW t \in Threads,
           t \in Callers => cx[t] = cl[t],
           t \in Servers => sx[t].at = sv[t].at /\ sx[t].vol = sv[t].vol
    PROVE  QueuesFor(cx, sx)[t] = QueuesFor(cl, sv)[t]
<1>1. CASE t \in Callers
  BY <1>1 DEF QueuesFor
<1>2. CASE t \in Servers
  BY <1>2, Basics DEF QueuesFor
<1> QED
  BY <1>1, <1>2, Basics

-----------------------------------------------------------------------------
(* Steps of the waits and of callers that leave the volumes alone. *)

\* Wakes and nodes that go leave the rest as it was.
LEMMA CoreWakes ==
    ASSUME NEW v, NEW cl, NEW sv, NEW w, NEW n, NEW a, Core(v, cl, sv, w, n, a),
           NEW x, WaitOK(x, QueuesFor(cl, sv)), Wakes(w, x)
    PROVE  Core(v, cl, sv, x, n, a)
<1>1. SleepOK(v, x, n, cl, sv)
  <2>1. SleepOK(v, w, n, cl, sv)
    BY DEF Core
  <2> QED
    BY <2>1, Basics DEF SleepOK, Wakes
<1> QED
  BY <1>1 DEF Core

\* cx is cl with caller c at another place.
Moved(cl, cx, c, at, i, k) ==
    /\ CallersTyped(cx)
    /\ cx[c].at = at /\ cx[c].vol = i /\ cx[c].slot = k
    /\ \A d \in Callers : d # c => cx[d] = cl[d]

LEMMA Moves1 ==
    ASSUME NEW cl, CallersTyped(cl), NEW c \in Callers, NEW at \in CallerPlaces
    PROVE  Moved(cl, [cl EXCEPT ![c].at = at], c, at, cl[c].vol, cl[c].slot)
BY DEF Moved, CallersTyped, CallerRecords

LEMMA Moves2 ==
    ASSUME NEW cl, CallersTyped(cl), NEW c \in Callers, NEW at \in CallerPlaces,
           NEW k \in Slots \cup {None}
    PROVE  Moved(cl, [cl EXCEPT ![c].at = at, ![c].slot = k], c, at, cl[c].vol, k)
BY DEF Moved, CallersTyped, CallerRecords

LEMMA Moves3 ==
    ASSUME NEW cl, CallersTyped(cl), NEW c \in Callers, NEW at \in CallerPlaces,
           NEW i \in Volumes \cup {None}, NEW k \in Slots \cup {None}
    PROVE  Moved(cl, [cl EXCEPT ![c] = [at |-> at, vol |-> i, slot |-> k]], c, at, i, k)
BY DEF Moved, CallersTyped, CallerRecords

HasOne == {"claimed", "running", "answered", "failed"}

\* The users of the volumes are the same as long as nobody enters or leaves.
LEMMA SameUsers ==
    ASSUME NEW cl, NEW cx, NEW c \in Callers, NEW at, NEW k, Moved(cl, cx, c, at, cl[c].vol, k),
           NEW i
    PROVE  UsersOf(cx, i) = UsersOf(cl, i)
<1>1. \A d \in Callers : cx[d].vol = cl[d].vol
  BY DEF Moved
<1> QED
  BY <1>1 DEF UsersOf

\* A caller on no queue goes on with the slot it has, or without one.
LEMMA CallerGoes ==
    ASSUME NEW v, NEW cl, NEW sv, NEW w, NEW n, NEW a, Core(v, cl, sv, w, n, a),
           NEW c \in Callers, cl[c].at # "outside", Clean(w, c),
           NEW cx, NEW at, Moved(cl, cx, c, at, cl[c].vol, cl[c].slot),
           \/ cl[c].slot # None /\ at \in {"answered", "failed"}
           \/ cl[c].slot = None /\ at \in {"entered", "leaving"}
    PROVE  Core(v, cx, sv, w, n, a)
<1>1. CallersTyped(cl) /\ CallersTyped(cx) /\ PlacesOK(cl)
  BY DEF Core, Moved
<1>2. PlacesOK(cx)
  <2> SUFFICES ASSUME NEW d \in Callers
               PROVE  /\ cx[d].vol = None <=> cx[d].at = "outside"
                      /\ cx[d].slot = None <=> cx[d].at \notin HasOne
    BY DEF PlacesOK, HasOne
  <2>1. CASE d = c
    BY <1>1, <2>1 DEF Moved, PlacesOK, HasOne
  <2>2. CASE d # c
    BY <1>1, <2>2 DEF Moved, PlacesOK, HasOne
  <2> QED
    BY <2>1, <2>2
<1>3. UsersOK(v, cx)
  BY SameUsers, ZenonT(60) DEF Core, UsersOK
<1>4. SlotsOK(v, cx)
  <2>1. SlotsOK(v, cl)
    BY DEF Core
  <2>2. \A d \in Callers : cx[d].vol = cl[d].vol /\ cx[d].slot = cl[d].slot
    BY DEF Moved
  <2>3. \A d \in Callers : cx[d].at = cl[d].at \/ cx[d].at \notin {"claimed", "running"}
    BY DEF Moved
  <2> QED
    BY <2>1, <2>2, <2>3 DEF SlotsOK
<1>5. \A t \in Threads : t # c => QueuesFor(cx, sv)[t] = QueuesFor(cl, sv)[t]
  <2> SUFFICES ASSUME NEW t \in Threads, t # c
               PROVE  QueuesFor(cx, sv)[t] = QueuesFor(cl, sv)[t]
    OBVIOUS
  <2>1. t \in Callers => cx[t] = cl[t]
    BY DEF Moved
  <2> QED
    BY <2>1, QueuesForOthers
<1>6. WaitOK(w, QueuesFor(cx, sv))
  BY <1>5, Moving, Basics DEF Core
<1>7. SleepOK(v, w, n, cx, sv)
  <2>1. SleepOK(v, w, n, cl, sv) /\ Ready(w, c)
    BY DEF Core, Clean
  <2> QED
    BY <2>1 DEF SleepOK, Moved
<1> QED
  BY <1>1, <1>2, <1>3, <1>4, <1>6, <1>7 DEF Core

\* A caller on no queue goes to sleep for room, or for the answer to its request.
LEMMA CallerSleeps ==
    ASSUME NEW v, NEW cl, NEW sv, NEW w, NEW n, NEW a, Core(v, cl, sv, w, n, a),
           NEW c \in Callers, cl[c].at # "outside", Clean(w, c), v[cl[c].vol].live,
           NEW cx, NEW at, Moved(cl, cx, c, at, cl[c].vol, cl[c].slot), NEW q, NEW d \in BOOLEAN,
           \/ cl[c].slot = None /\ at = "room" /\ q = Room(cl[c].vol)
           \/ /\ cl[c].slot # None /\ at = "running" /\ q = SlotQueue(cl[c].vol, cl[c].slot)
              /\ v[cl[c].vol].slots[cl[c].slot].state \notin {"claimed", "done"}
    PROVE  /\ Core(v, cx, sv, Block(w, c, {q}, d), n, a)
           /\ Asleep(w, Block(w, c, {q}, d), c, q)
<1>1. CallersTyped(cl) /\ CallersTyped(cx) /\ PlacesOK(cl)
  BY DEF Core, Moved
<1>2. PlacesOK(cx)
  <2> SUFFICES ASSUME NEW e \in Callers
               PROVE  /\ cx[e].vol = None <=> cx[e].at = "outside"
                      /\ cx[e].slot = None <=> cx[e].at \notin HasOne
    BY DEF PlacesOK, HasOne
  <2>1. CASE e = c
    BY <1>1, <2>1 DEF Moved, PlacesOK, HasOne
  <2>2. CASE e # c
    BY <1>1, <2>2 DEF Moved, PlacesOK, HasOne
  <2> QED
    BY <2>1, <2>2
<1>3. UsersOK(v, cx)
  BY SameUsers, ZenonT(60) DEF Core, UsersOK
<1>4. SlotsOK(v, cx)
  <2>1. SlotsOK(v, cl)
    BY DEF Core
  <2>2. \A e \in Callers : cx[e].vol = cl[e].vol /\ cx[e].slot = cl[e].slot
    BY DEF Moved
  <2>3. \A e \in Callers : e # c => cx[e].at = cl[e].at
    BY DEF Moved
  <2>4. cx[c].at # "claimed"
        /\ (cx[c].at = "running" => v[cl[c].vol].slots[cl[c].slot].state # "claimed")
    BY DEF Moved
  <2>5. ASSUME NEW e \in Callers, cx[e].slot # None
        PROVE  /\ v[cx[e].vol].slots[cx[e].slot].state \notin {"free", "abandoned"}
               /\ cx[e].at = "claimed" =>
                    v[cx[e].vol].slots[cx[e].slot].state = "claimed" \/ ~v[cx[e].vol].live
               /\ cx[e].at = "running" => v[cx[e].vol].slots[cx[e].slot].state # "claimed"
    <3>1. CASE e = c
      BY <2>1, <2>2, <2>4, <2>5, <3>1, ZenonT(60) DEF SlotsOK
    <3>2. CASE e # c
      BY <2>1, <2>2, <2>3, <2>5, <3>2, ZenonT(60) DEF SlotsOK
    <3> QED
      BY <3>1, <3>2, SMTT(60)
  <2>6. \A e, f \in Callers :
          cx[e].slot # None /\ cx[f].slot # None /\ cx[e].vol = cx[f].vol
              /\ cx[e].slot = cx[f].slot => e = f
    BY <2>1, <2>2, ZenonT(60) DEF SlotsOK
  <2> QED
    BY <2>5, <2>6, Zenon DEF SlotsOK
<1>5. \A t \in Threads : t # c => QueuesFor(cx, sv)[t] = QueuesFor(cl, sv)[t]
  <2> SUFFICES ASSUME NEW t \in Threads, t # c
               PROVE  QueuesFor(cx, sv)[t] = QueuesFor(cl, sv)[t]
    OBVIOUS
  <2>1. t \in Callers => cx[t] = cl[t]
    BY DEF Moved
  <2> QED
    BY <2>1, QueuesForOthers
<1>6. QueuesFor(cx, sv)[c] = {q}
  BY QueuesForCaller DEF Moved
<1>7. q \in Queues
  BY <1>1, Names DEF PlacesOK, CallersTyped, CallerRecords
<1>8. WaitOK(w, QueuesFor(cl, sv)) /\ c \in Threads
  BY Basics DEF Core
<1>9. PICK x : x = Block(w, c, {q}, d)
  OBVIOUS
<1>10. WaitOK(x, QueuesFor(cx, sv)) /\ Asleep(w, x, c, q)
  <2>1. PICK Q : Q = QueuesFor(cl, sv)
    OBVIOUS
  <2>2. PICK R : R = QueuesFor(cx, sv)
    OBVIOUS
  <2>3. WaitOK(w, Q) /\ R[c] = {q} /\ \A u \in Threads : u # c => R[u] = Q[u]
    BY <1>5, <1>6, <1>8, <2>1, <2>2
  <2>4. WaitOK(x, R) /\ Asleep(w, x, c, q)
    BY <1>7, <1>8, <1>9, <2>3, Blocking
  <2> QED
    BY <2>2, <2>4
<1>11. SleepOK(v, x, n, cx, sv)
  <2>1. SleepOK(v, w, n, cl, sv)
    BY DEF Core
  <2>2. ASSUME NEW e \in Callers, ~Ready(x, e)
        PROVE  /\ v[cx[e].vol].live
               /\ cx[e].at = "running" => v[cx[e].vol].slots[cx[e].slot].state # "done"
    <3>1. CASE e = c
      BY <3>1, SMTT(60) DEF Moved
    <3>2. CASE e # c
      BY <1>10, <2>1, <2>2, <3>2, Basics, ZenonT(60) DEF SleepOK, Moved, Asleep
    <3> QED
      BY <3>1, <3>2
  <2>3. \A p \in Servers : Ready(x, p) <=> Ready(w, p)
    BY <1>10, Basics DEF Asleep
  <2> QED
    BY <2>1, <2>2, <2>3, Zenon DEF SleepOK
<1>12. Core(v, cx, sv, x, n, a)
  BY <1>1, <1>2, <1>3, <1>4, <1>10, <1>11 DEF Core
<1> QED
  BY <1>9, <1>10, <1>12

-----------------------------------------------------------------------------
(* Who waits for room and who was woken for it. *)

LEMMA WokenCount ==
    ASSUME NEW w, NEW i
    PROVE  IsFiniteSet(WokenFor(w, i)) /\ Cardinality(WokenFor(w, i)) \in Nat
<1>1. WokenFor(w, i) \subseteq Callers
  BY DEF WokenFor
<1> QED
  BY <1>1, UblkAssumption, FS_Subset, FS_CardinalityType

LEMMA FreeCount ==
    ASSUME NEW v, NEW i
    PROVE  IsFiniteSet(FreeIn(v, i)) /\ Cardinality(FreeIn(v, i)) \in Nat
<1>1. FreeIn(v, i) \subseteq Slots
  BY DEF FreeIn
<1> QED
  BY <1>1, Basics, FS_Subset, FS_CardinalityType

\* Nobody need be coming where no slot is free.
LEMMA RoomNone ==
    ASSUME NEW w, NEW i
    PROVE  RoomAt(w, i, 0)
BY WokenCount DEF RoomAt

\* Fewer may wait, and fewer slots be free.
LEMMA RoomKept ==
    ASSUME NEW w, NEW x, NEW i, NEW n \in Nat, NEW m \in Nat, RoomAt(w, i, n), m <= n,
           Claimers(x, i) \subseteq Claimers(w, i), WokenFor(x, i) = WokenFor(w, i)
    PROVE  RoomAt(x, i, m)
<1>1. Cardinality(WokenFor(w, i)) \in Nat
  BY WokenCount
<1> QED
  BY <1>1 DEF RoomAt

\* wakeOne for room brings one caller for one more slot.
LEMMA RoomWoken ==
    ASSUME NEW w, NEW x, NEW cl, NEW sv, NEW i \in Volumes, NEW n \in Nat,
           CallersTyped(cl), ServersTyped(sv), PlacesOK(cl),
           WaitOK(w, QueuesFor(cl, sv)), WokeOne(w, x, QueuesFor(cl, sv), Room(i)),
           RoomAt(w, i, n)
    PROVE  RoomAt(x, i, n + 1)
<1>1. CASE x = w /\ \A t : ~Queued(w, Room(i), t)
  BY <1>1 DEF RoomAt, Claimers
<1>2. ASSUME NEW t \in Threads,
             Queued(w, Room(i), t), Room(i) \notin w.woken[t],
             x.woken = [w.woken EXCEPT ![t] = @ \cup {Room(i)}]
      PROVE  RoomAt(x, i, n + 1)
  <2>1. t \in Callers
    BY <1>2, WhoWaits, Basics
  <2>2. w.woken \in [Threads -> SUBSET Queues]
    BY WaitTypes DEF WaitOK
  <2>3. \A c \in Callers : c \in Threads
    BY Basics
  <2>4. x.woken[t] = w.woken[t] \cup {Room(i)}
        /\ \A c \in Threads : c # t => x.woken[c] = w.woken[c]
    BY <1>2, <2>2
  <2>5. WokenFor(x, i) = WokenFor(w, i) \cup {t} /\ t \notin WokenFor(w, i)
    BY <1>2, <2>1, <2>3, <2>4 DEF WokenFor
  <2>6. Cardinality(WokenFor(x, i)) = Cardinality(WokenFor(w, i)) + 1
    BY <2>5, WokenCount, FS_AddElement
  <2>7. t \in Claimers(w, i)
    BY <1>2, <2>1 DEF Claimers
  <2>8. n <= Cardinality(WokenFor(w, i))
    BY <2>7 DEF RoomAt
  <2> QED
    BY <2>6, <2>8, WokenCount DEF RoomAt
<1> QED
  BY <1>1, <1>2 DEF WokeOne

\* wakeOne on another queue brings nobody for room.
LEMMA RoomWokenElsewhere ==
    ASSUME NEW w, NEW x, NEW Q, WaitOK(w, Q), NEW q, WokeOne(w, x, Q, q),
           NEW i \in Volumes, q # Room(i)
    PROVE  Claimers(x, i) = Claimers(w, i) /\ WokenFor(x, i) = WokenFor(w, i)
<1>1. w.woken \in [Threads -> SUBSET Queues]
  BY WaitTypes DEF WaitOK
<1>2. \A c \in Callers : c \in Threads
  BY Basics
<1>3. Room(i) \in Queues
  BY Names
<1>4. ASSUME NEW t \in Threads, x.woken = [w.woken EXCEPT ![t] = @ \cup {q}],
             \A p \in Queues : \A u : Queued(x, p, u) <=> Queued(w, p, u) /\ ~(p = q /\ u = t)
      PROVE  Claimers(x, i) = Claimers(w, i) /\ WokenFor(x, i) = WokenFor(w, i)
  <2>1. \A c \in Callers : Queued(x, Room(i), c) <=> Queued(w, Room(i), c)
    BY <1>3, <1>4
  <2>2. \A c \in Callers : Room(i) \in x.woken[c] <=> Room(i) \in w.woken[c]
    BY <1>1, <1>2, <1>4
  <2> QED
    BY <2>1, <2>2 DEF Claimers, WokenFor
<1> QED
  BY <1>4 DEF WokeOne

\* A thread that leaves takes its wakeup with it, if it had one.
LEMMA RoomLeft ==
    ASSUME NEW w, NEW x, NEW t, TakenOff(w, x, t), x.woken[t] = {}, NEW i \in Volumes
    PROVE  /\ Claimers(x, i) = Claimers(w, i) \ {t}
           /\ WokenFor(x, i) = WokenFor(w, i) \ {t}
<1>1. \A c \in Callers : c \in Threads
  BY Basics
<1>2. Room(i) \in Queues
  BY Names
<1> QED
  BY <1>1, <1>2 DEF TakenOff, Claimers, WokenFor

\* One that takes a slot and goes leaves enough for the others.
LEMMA RoomTaken ==
    ASSUME NEW w, NEW x, NEW i, NEW t, NEW n \in Nat, RoomAt(w, i, n + 1),
           Claimers(x, i) \subseteq Claimers(w, i), WokenFor(x, i) = WokenFor(w, i) \ {t}
    PROVE  RoomAt(x, i, n)
<1>1. IsFiniteSet(WokenFor(w, i)) /\ Cardinality(WokenFor(w, i)) \in Nat
  BY WokenCount
<1>2. Cardinality(WokenFor(x, i)) = IF t \in WokenFor(w, i) THEN Cardinality(WokenFor(w, i)) - 1
                                    ELSE Cardinality(WokenFor(w, i))
  BY <1>1, FS_RemoveElement
<1>3. Claimers(x, i) # {} => n + 1 <= Cardinality(WokenFor(w, i))
  BY DEF RoomAt
<1> QED
  BY <1>1, <1>2, <1>3 DEF RoomAt

\* A thread asleep on another queue is no matter to room.
LEMMA RoomAsleep ==
    ASSUME NEW w, NEW x, NEW t, NEW q, Asleep(w, x, t, q), NEW i \in Volumes,
           q # Room(i) \/ t \notin Callers
    PROVE  Claimers(x, i) = Claimers(w, i) /\ WokenFor(x, i) = WokenFor(w, i)
<1>1. Room(i) \in Queues
  BY Names
<1> QED
  BY <1>1 DEF Asleep, Claimers, WokenFor

-----------------------------------------------------------------------------
(* A slot changes. *)

\* The volumes of x are those of v but for their slots.
SameHeads(v, x) ==
    \A i \in Volumes :
        /\ x[i].live = v[i].live /\ x[i].server = v[i].server /\ x[i].data = v[i].data
        /\ x[i].published = v[i].published /\ x[i].users = v[i].users

\* x is v with slot k of volume i become s.
Turned(v, x, i, k, s) ==
    /\ VolumesTyped(x) /\ SameHeads(v, x)
    /\ x[i].slots[k] = s
    /\ \A j \in Volumes, l \in Slots : j # i \/ l # k => x[j].slots[l] = v[j].slots[l]

LEMMA SlotTyped ==
    ASSUME NEW v, VolumesTyped(v), NEW i \in Volumes, NEW k \in Slots
    PROVE  /\ v[i] \in VolumeRecords /\ v[i].slots \in [Slots -> SlotRecords]
           /\ v[i].slots[k] \in SlotRecords
           /\ v[i].slots[k].state \in SlotStates
           /\ v[i].slots[k].generation \in 0..MaxGeneration
           /\ v[i].slots[k].answer \in {"none", "asked", "gone", "stale"}
BY DEF VolumesTyped, VolumeRecords, SlotRecords

\* A volume's record with other slots.
LEMMA TurnsSlots ==
    ASSUME NEW v, VolumesTyped(v), NEW i \in Volumes, NEW k \in Slots, NEW s \in SlotRecords,
           NEW x, x = [v EXCEPT ![i].slots[k] = s]
    PROVE  Turned(v, x, i, k, s)
<1>1. PICK r : r = [v[i].slots EXCEPT ![k] = s]
  OBVIOUS
<1>2. v[i] \in VolumeRecords /\ v[i].slots \in [Slots -> SlotRecords]
  BY DEF VolumesTyped, VolumeRecords
<1>3. r \in [Slots -> SlotRecords] /\ r[k] = s /\ \A l \in Slots : l # k => r[l] = v[i].slots[l]
  BY <1>1, <1>2
<1>4. PICK y : y = [v[i] EXCEPT !.slots = r]
  OBVIOUS
<1>5. /\ y \in VolumeRecords /\ y.slots = r /\ y.live = v[i].live /\ y.server = v[i].server
      /\ y.data = v[i].data /\ y.published = v[i].published /\ y.users = v[i].users
  BY <1>2, <1>3, <1>4 DEF VolumeRecords
<1>6. x = [v EXCEPT ![i] = y]
  BY <1>1, <1>4
<1>7. VolumesTyped(x) /\ x[i] = y /\ \A j \in Volumes : j # i => x[j] = v[j]
  BY <1>5, <1>6 DEF VolumesTyped
<1>8. SameHeads(v, x)
  <2> SUFFICES ASSUME NEW j \in Volumes
               PROVE  /\ x[j].live = v[j].live /\ x[j].server = v[j].server /\ x[j].data = v[j].data
                      /\ x[j].published = v[j].published /\ x[j].users = v[j].users
    BY DEF SameHeads
  <2>1. CASE j = i
    BY <1>5, <1>7, <2>1
  <2>2. CASE j # i
    BY <1>7, <2>2
  <2> QED
    BY <2>1, <2>2
<1>9. x[i].slots[k] = s
  BY <1>3, <1>5, <1>7
<1>10. ASSUME NEW j \in Volumes, NEW l \in Slots, j # i \/ l # k
       PROVE  x[j].slots[l] = v[j].slots[l]
  <2>1. CASE j = i
    BY <1>3, <1>5, <1>7, <1>10, <2>1
  <2>2. CASE j # i
    BY <1>7, <2>2
  <2> QED
    BY <2>1, <2>2
<1> QED
  BY <1>7, <1>8, <1>9, <1>10 DEF Turned

LEMMA TurnsState ==
    ASSUME NEW v, VolumesTyped(v), NEW i \in Volumes, NEW k \in Slots, NEW state \in SlotStates,
           NEW x, x = [v EXCEPT ![i].slots[k].state = state]
    PROVE  \E s \in SlotRecords :
              /\ s.state = state /\ s.generation = v[i].slots[k].generation
              /\ s.answer = v[i].slots[k].answer /\ Turned(v, x, i, k, s)
<1>1. v[i].slots[k] \in SlotRecords
  BY SlotTyped
<1>2. PICK s : s = [v[i].slots[k] EXCEPT !.state = state]
  OBVIOUS
<1>3. /\ s \in SlotRecords /\ s.state = state /\ s.generation = v[i].slots[k].generation
      /\ s.answer = v[i].slots[k].answer
  BY <1>1, <1>2 DEF SlotRecords
<1>4. x = [v EXCEPT ![i].slots[k] = s]
  BY <1>2
<1> QED
  BY <1>3, <1>4, TurnsSlots

\* x is v with slot k of volume i answered.
AnsweredAs(v, x, i, k, kind) ==
    x = [v EXCEPT ![i].slots[k].state = "done", ![i].slots[k].answer = kind]

LEMMA TurnsAnswered ==
    ASSUME NEW v, VolumesTyped(v), NEW i \in Volumes, NEW k \in Slots,
           NEW kind \in {"asked", "stale"}, NEW x, AnsweredAs(v, x, i, k, kind)
    PROVE  \E s \in SlotRecords :
              /\ s.state = "done" /\ s.generation = v[i].slots[k].generation
              /\ s.answer = kind /\ Turned(v, x, i, k, s)
<1>1. v[i] \in VolumeRecords /\ v[i].slots \in [Slots -> SlotRecords]
      /\ v[i].slots[k] \in SlotRecords
  BY SlotTyped
<1>2. PICK y : y = [v EXCEPT ![i].slots[k].state = "done"]
  OBVIOUS
<1>3. PICK r \in SlotRecords :
              /\ r.state = "done" /\ r.generation = v[i].slots[k].generation
              /\ r.answer = v[i].slots[k].answer /\ Turned(v, y, i, k, r)
  <2>1. "done" \in SlotStates
    BY DEF SlotStates
  <2> QED
    BY <1>2, <2>1, TurnsState, Zenon
<1>4. PICK s : s = [r EXCEPT !.answer = kind]
  OBVIOUS
<1>5. s \in SlotRecords /\ s.state = "done" /\ s.generation = r.generation /\ s.answer = kind
  BY <1>3, <1>4 DEF SlotRecords
<1>6. y[i].slots[k] = r
  BY <1>3 DEF Turned
<1>7. x = [y EXCEPT ![i].slots[k] = s]
  <2>1. x = [y EXCEPT ![i].slots[k].answer = kind]
    BY <1>2 DEF AnsweredAs
  <2> QED
    BY <1>4, <1>6, <2>1
<1>8. Turned(y, x, i, k, s)
  <2>1. VolumesTyped(y)
    BY <1>3 DEF Turned
  <2> QED
    BY <1>5, <1>7, <2>1, TurnsSlots
<1>9. Turned(v, x, i, k, s)
  <2>1. SameHeads(v, x)
    <3>1. SameHeads(v, y) /\ SameHeads(y, x)
      BY <1>3, <1>8 DEF Turned
    <3> QED
      BY <3>1, ZenonT(60) DEF SameHeads
  <2>2. \A j \in Volumes, l \in Slots : j # i \/ l # k => x[j].slots[l] = v[j].slots[l]
    <3> SUFFICES ASSUME NEW j \in Volumes, NEW l \in Slots, j # i \/ l # k
                 PROVE  x[j].slots[l] = v[j].slots[l]
      OBVIOUS
    <3>1. y[j].slots[l] = v[j].slots[l]
      BY <1>3 DEF Turned
    <3>2. x[j].slots[l] = y[j].slots[l]
      BY <1>8 DEF Turned
    <3> QED
      BY <3>1, <3>2
  <2> QED
    BY <1>8, <2>1, <2>2 DEF Turned
<1> QED
  BY <1>3, <1>5, <1>9

\* What does not depend on slots.
LEMMA HeadsKeep ==
    ASSUME NEW v, NEW x, SameHeads(v, x)
    PROVE  /\ \A cl : UsersOK(v, cl) => UsersOK(x, cl)
           /\ \A sv : ServersTyped(sv) /\ OwnersOK(v, sv) => OwnersOK(x, sv)
           /\ \A hd : AreasOK(v, hd) => AreasOK(x, hd)
           /\ \A sv, sc, uw, n : ScansOK(v, sv, sc, uw, n) => ScansOK(x, sv, sc, uw, n)
<1>1. \A cl : UsersOK(v, cl) => UsersOK(x, cl)
  BY DEF SameHeads, UsersOK
<1>2. ASSUME NEW sv, ServersTyped(sv), OwnersOK(v, sv) PROVE OwnersOK(x, sv)
  <2>1. \A p \in Servers : sv[p].vol \in Volumes \/ sv[p].vol = None
    BY <1>2 DEF ServersTyped, ServerRecords
  <2> QED
    BY <1>2, <2>1 DEF SameHeads, OwnersOK, Serving
<1>3. ASSUME NEW hd, AreasOK(v, hd) PROVE AreasOK(x, hd)
  <2>1. {x[i].data : i \in Volumes} = {v[i].data : i \in Volumes}
    BY DEF SameHeads
  <2> QED
    BY <1>3, <2>1 DEF SameHeads, AreasOK
<1>4. ASSUME NEW sv, NEW sc, NEW uw, NEW n, ScansOK(v, sv, sc, uw, n)
      PROVE  ScansOK(x, sv, sc, uw, n)
  BY <1>4 DEF SameHeads, ScansOK
<1> QED
  BY <1>1, <1>2, <1>3, <1>4

\* A slot that fits where its caller is.
Fits(s, at, live) ==
    /\ s.state \notin {"free", "abandoned"}
    /\ at = "claimed" => s.state = "claimed" \/ ~live
    /\ at = "running" => s.state # "claimed"

FitsCallers(s, cl, i, k, live) ==
    \A c \in Callers : cl[c].vol = i /\ cl[c].slot = k => Fits(s, cl[c].at, live)

LEMMA SlotsTurn ==
    ASSUME NEW v, NEW x, NEW cl, NEW i \in Volumes, NEW k \in Slots, NEW s,
           CallersTyped(cl), PlacesOK(cl), SlotsOK(v, cl), Turned(v, x, i, k, s),
           FitsCallers(s, cl, i, k, v[i].live)
    PROVE  SlotsOK(x, cl)
<1> USE DEF FitsCallers
<1>1. \A c, d \in Callers :
          cl[c].slot # None /\ cl[d].slot # None /\ cl[c].vol = cl[d].vol
              /\ cl[c].slot = cl[d].slot => c = d
  BY DEF SlotsOK
<1>2. ASSUME NEW c \in Callers, cl[c].slot # None
      PROVE  Fits(x[cl[c].vol].slots[cl[c].slot], cl[c].at, x[cl[c].vol].live)
  <2>1. cl[c].vol \in Volumes /\ cl[c].slot \in Slots
    BY <1>2 DEF PlacesOK, CallersTyped, CallerRecords
  <2>2. Fits(v[cl[c].vol].slots[cl[c].slot], cl[c].at, v[cl[c].vol].live)
    BY <1>2 DEF SlotsOK, Fits
  <2>3. x[cl[c].vol].live = v[cl[c].vol].live
    BY <2>1 DEF Turned, SameHeads
  <2>4. CASE cl[c].vol = i /\ cl[c].slot = k
    BY <2>3, <2>4 DEF Turned
  <2>5. CASE ~(cl[c].vol = i /\ cl[c].slot = k)
    BY <2>1, <2>2, <2>3, <2>5, SMTT(60) DEF Turned
  <2> QED
    BY <2>4, <2>5
<1> QED
  BY <1>1, <1>2 DEF SlotsOK, Fits

\* A slot in state s that fits the tags a server may still answer.
FitsTags(s, r, k) ==
    /\ r.at = "carrying" /\ r.hand.slot = k =>
          s.generation = r.hand.generation /\ s.state \in {"taken", "abandoned"}
    /\ r.last # NoRequest /\ r.last.slot = k =>
          /\ r.last.generation <= s.generation
          /\ r.last.generation = s.generation => s.state \in {"free", "done"}

LEMMA TagsTurn ==
    ASSUME NEW v, NEW x, NEW sv, NEW a, NEW i \in Volumes, NEW k \in Slots, NEW s,
           ServersTyped(sv), OwnersOK(v, sv), TagsOK(v, sv, a), Turned(v, x, i, k, s),
           a <= 1 => s.answer # "stale",
           a <= 1 => \A p \in Servers :
               sv[p].at \in Serving /\ sv[p].vol = i => FitsTags(s, sv[p], k)
    PROVE  TagsOK(x, sv, a)
<1> SUFFICES ASSUME a <= 1
             PROVE  /\ \A j \in Volumes, l \in Slots : x[j].slots[l].answer # "stale"
                    /\ \A p \in Servers :
                          /\ a = 0 \/ sv[p].at = "picked" => sv[p].last = NoRequest
                          /\ sv[p].at = "carrying" =>
                                LET u == x[sv[p].vol].slots[sv[p].hand.slot] IN
                                /\ u.generation = sv[p].hand.generation
                                /\ u.state \in {"taken", "abandoned"}
                          /\ sv[p].at \in Serving /\ sv[p].last # NoRequest =>
                                LET u == x[sv[p].vol].slots[sv[p].last.slot] IN
                                /\ sv[p].last.generation <= u.generation
                                /\ sv[p].last.generation = u.generation => u.state \in {"free", "done"}
  BY ZenonT(60) DEF TagsOK
<1>1. \A j \in Volumes, l \in Slots : x[j].slots[l].answer # "stale"
  BY SMTT(60) DEF TagsOK, Turned
<1>2. ASSUME NEW p \in Servers
      PROVE  /\ a = 0 \/ sv[p].at = "picked" => sv[p].last = NoRequest
             /\ sv[p].at = "carrying" =>
                   LET u == x[sv[p].vol].slots[sv[p].hand.slot] IN
                   /\ u.generation = sv[p].hand.generation
                   /\ u.state \in {"taken", "abandoned"}
             /\ sv[p].at \in Serving /\ sv[p].last # NoRequest =>
                   LET u == x[sv[p].vol].slots[sv[p].last.slot] IN
                   /\ sv[p].last.generation <= u.generation
                   /\ sv[p].last.generation = u.generation => u.state \in {"free", "done"}
  <2>1. a = 0 \/ sv[p].at = "picked" => sv[p].last = NoRequest
    BY DEF TagsOK
  <2>2. sv[p].at # "off" => sv[p].vol \in Volumes
    BY DEF OwnersOK, ServersTyped, ServerRecords
  <2>3. /\ sv[p].hand # NoRequest => sv[p].hand.slot \in Slots
        /\ sv[p].last # NoRequest => sv[p].last.slot \in Slots
    BY DEF ServersTyped, ServerRecords, Requests
  <2>4. ASSUME sv[p].at = "carrying"
        PROVE  LET u == x[sv[p].vol].slots[sv[p].hand.slot] IN
               /\ u.generation = sv[p].hand.generation
               /\ u.state \in {"taken", "abandoned"}
    <3>1. sv[p].vol \in Volumes /\ sv[p].hand.slot \in Slots
      BY <2>2, <2>3, <2>4 DEF OwnersOK
    <3>2. CASE sv[p].vol = i /\ sv[p].hand.slot = k
      BY <2>4, <3>2, SMTT(60) DEF FitsTags, Turned, Serving
    <3>3. CASE ~(sv[p].vol = i /\ sv[p].hand.slot = k)
      <4>1. x[sv[p].vol].slots[sv[p].hand.slot] = v[sv[p].vol].slots[sv[p].hand.slot]
        BY <3>1, <3>3, SMTT(60) DEF Turned
      <4> QED
        BY <2>4, <4>1, Zenon DEF TagsOK
    <3> QED
      BY <3>2, <3>3
  <2>5. ASSUME sv[p].at \in Serving, sv[p].last # NoRequest
        PROVE  LET u == x[sv[p].vol].slots[sv[p].last.slot] IN
               /\ sv[p].last.generation <= u.generation
               /\ sv[p].last.generation = u.generation => u.state \in {"free", "done"}
    <3>1. sv[p].vol \in Volumes /\ sv[p].last.slot \in Slots
      BY <2>2, <2>3, <2>5 DEF Serving
    <3>2. CASE sv[p].vol = i /\ sv[p].last.slot = k
      BY <2>5, <3>2, SMTT(60) DEF FitsTags, Turned
    <3>3. CASE ~(sv[p].vol = i /\ sv[p].last.slot = k)
      <4>1. x[sv[p].vol].slots[sv[p].last.slot] = v[sv[p].vol].slots[sv[p].last.slot]
        BY <3>1, <3>3 DEF Turned
      <4> QED
        BY <2>5, <4>1, Zenon DEF TagsOK
    <3> QED
      BY <3>2, <3>3
  <2> QED
    BY <2>1, <2>4, <2>5
<1> QED
  BY <1>1, <1>2, SMTT(60)

\* Nobody is asleep for a slot that was answered, and the doorbell is up
\* when one is offered.
LEMMA SleepTurn ==
    ASSUME NEW v, NEW x, NEW w, NEW n, NEW cl, NEW sv, NEW i \in Volumes, NEW k \in Slots, NEW s,
           CallersTyped(cl), PlacesOK(cl), ServersTyped(sv), OwnersOK(v, sv),
           WaitOK(w, QueuesFor(cl, sv)),
           SleepOK(v, w, n, cl, sv), Turned(v, x, i, k, s),
           s.state = "done" => \A c \in Callers : ~Queued(w, SlotQueue(i, k), c),
           s.state = "offered" =>
               \A p \in Servers : sv[p].at \in Listening /\ sv[p].vol = i => n[Doorbell(i)] # 0
    PROVE  SleepOK(x, w, n, cl, sv)
<1>1. ASSUME NEW c \in Callers, ~Ready(w, c)
      PROVE  /\ x[cl[c].vol].live
             /\ cl[c].at = "running" => x[cl[c].vol].slots[cl[c].slot].state # "done"
  <2>1. /\ v[cl[c].vol].live
        /\ cl[c].at = "running" => v[cl[c].vol].slots[cl[c].slot].state # "done"
    BY <1>1 DEF SleepOK
  <2>2. \/ cl[c].at = "room" /\ Queued(w, Room(cl[c].vol), c)
        \/ cl[c].at = "running" /\ Queued(w, SlotQueue(cl[c].vol, cl[c].slot), c)
    BY <1>1, WhoWaits
  <2>3. cl[c].vol \in Volumes
    BY <2>2 DEF PlacesOK, CallersTyped, CallerRecords
  <2>4. x[cl[c].vol].live
    BY <2>1, <2>3 DEF Turned, SameHeads
  <2>5. ASSUME cl[c].at = "running" PROVE x[cl[c].vol].slots[cl[c].slot].state # "done"
    <3>1. cl[c].slot \in Slots
      BY <2>5 DEF PlacesOK, CallersTyped, CallerRecords
    <3>2. CASE cl[c].vol = i /\ cl[c].slot = k
      BY <2>2, <2>5, <3>2 DEF Turned
    <3>3. CASE ~(cl[c].vol = i /\ cl[c].slot = k)
      BY <2>1, <2>3, <2>5, <3>1, <3>3 DEF Turned
    <3> QED
      BY <3>2, <3>3
  <2> QED
    BY <2>4, <2>5
<1>2. ASSUME NEW p \in Servers, sv[p].at \in Listening
      PROVE  /\ ~Ready(w, p) => n[Doorbell(sv[p].vol)] = 0
             /\ n[Doorbell(sv[p].vol)] = 0 =>
                   \A l \in Slots : x[sv[p].vol].slots[l].state # "offered"
  <2>1. sv[p].vol \in Volumes
    BY <1>2 DEF OwnersOK, ServersTyped, ServerRecords, Listening
  <2>2. /\ ~Ready(w, p) => n[Doorbell(sv[p].vol)] = 0
        /\ n[Doorbell(sv[p].vol)] = 0 =>
                   \A l \in Slots : v[sv[p].vol].slots[l].state # "offered"
    BY <1>2 DEF SleepOK
  <2>3. ASSUME n[Doorbell(sv[p].vol)] = 0, NEW l \in Slots
        PROVE  x[sv[p].vol].slots[l].state # "offered"
    <3>1. CASE sv[p].vol = i /\ l = k
      BY <1>2, <2>3, <3>1 DEF Turned
    <3>2. CASE ~(sv[p].vol = i /\ l = k)
      BY <2>1, <2>2, <2>3, <3>2 DEF Turned
    <3> QED
      BY <3>1, <3>2
  <2> QED
    BY <2>2, <2>3
<1> QED
  BY <1>1, <1>2 DEF SleepOK

\* The free slots, when one slot changes.
LEMMA FreeTurn ==
    ASSUME NEW v, NEW x, NEW i \in Volumes, NEW k \in Slots, NEW s, Turned(v, x, i, k, s)
    PROVE  /\ \A j \in Volumes : j # i => FreeIn(x, j) = FreeIn(v, j)
           /\ s.state # "free" => FreeIn(x, i) \subseteq FreeIn(v, i)
           /\ s.state # "free" /\ v[i].slots[k].state # "free" => FreeIn(x, i) = FreeIn(v, i)
           /\ s.state = "free" /\ v[i].slots[k].state # "free" =>
                 Cardinality(FreeIn(x, i)) = Cardinality(FreeIn(v, i)) + 1
           /\ s.state # "free" /\ v[i].slots[k].state = "free" =>
                 Cardinality(FreeIn(v, i)) = Cardinality(FreeIn(x, i)) + 1
<1>1. \A j \in Volumes : j # i => FreeIn(x, j) = FreeIn(v, j)
  BY DEF Turned, FreeIn
<1>2. s.state # "free" => FreeIn(x, i) = FreeIn(v, i) \ {k}
  BY DEF Turned, FreeIn
<1>3. s.state = "free" => FreeIn(x, i) = FreeIn(v, i) \cup {k}
  BY DEF Turned, FreeIn
<1>4. k \in FreeIn(v, i) <=> v[i].slots[k].state = "free"
  BY DEF FreeIn
<1>5. IsFiniteSet(FreeIn(v, i)) /\ Cardinality(FreeIn(v, i)) \in Nat
  BY FreeCount
<1>6. /\ Cardinality(FreeIn(v, i) \ {k}) =
             IF k \in FreeIn(v, i) THEN Cardinality(FreeIn(v, i)) - 1 ELSE Cardinality(FreeIn(v, i))
      /\ Cardinality(FreeIn(v, i) \cup {k}) =
             IF k \in FreeIn(v, i) THEN Cardinality(FreeIn(v, i)) ELSE Cardinality(FreeIn(v, i)) + 1
  BY <1>5, FS_AddElement, FS_RemoveElement
<1>7. ASSUME s.state = "free", v[i].slots[k].state # "free"
      PROVE  Cardinality(FreeIn(x, i)) = Cardinality(FreeIn(v, i)) + 1
  BY <1>3, <1>4, <1>6, <1>7
<1>8. ASSUME s.state # "free", v[i].slots[k].state = "free"
      PROVE  Cardinality(FreeIn(v, i)) = Cardinality(FreeIn(x, i)) + 1
  <2>1. Cardinality(FreeIn(x, i)) = Cardinality(FreeIn(v, i)) - 1
    BY <1>2, <1>4, <1>6, <1>8
  <2> QED
    BY <1>5, <2>1
<1>9. s.state # "free" => FreeIn(x, i) \subseteq FreeIn(v, i)
  BY <1>2
<1>10. s.state # "free" /\ v[i].slots[k].state # "free" => FreeIn(x, i) = FreeIn(v, i)
  BY <1>2, <1>4
<1> QED
  BY <1>1, <1>7, <1>8, <1>9, <1>10

-----------------------------------------------------------------------------
(* On and off a volume. *)

\* The volumes of x are those of v but for their users and areas.
SameButUse(v, x) ==
    /\ VolumesTyped(x)
    /\ \A j \in Volumes :
          /\ x[j].live = v[j].live /\ x[j].server = v[j].server
          /\ x[j].published = v[j].published /\ x[j].slots = v[j].slots

LEMMA UseKeeps ==
    ASSUME NEW v, NEW x, SameButUse(v, x)
    PROVE  /\ \A cl : CallersTyped(cl) /\ PlacesOK(cl) /\ SlotsOK(v, cl) => SlotsOK(x, cl)
           /\ \A sv, a : ServersTyped(sv) /\ OwnersOK(v, sv) /\ TagsOK(v, sv, a) => TagsOK(x, sv, a)
           /\ \A w, ls : RoomOK(v, w, ls) => RoomOK(x, w, ls)
           /\ \A sv, sc, uw, n : ScansOK(v, sv, sc, uw, n) => ScansOK(x, sv, sc, uw, n)
<1>1. ASSUME NEW cl, CallersTyped(cl), PlacesOK(cl), SlotsOK(v, cl) PROVE SlotsOK(x, cl)
  <2>1. \A c \in Callers : cl[c].slot # None => cl[c].vol \in Volumes
    BY <1>1 DEF PlacesOK, CallersTyped, CallerRecords
  <2> QED
    BY <1>1, <2>1, SMTT(60) DEF SlotsOK, SameButUse
<1>2. ASSUME NEW sv, NEW a, ServersTyped(sv), OwnersOK(v, sv), TagsOK(v, sv, a)
      PROVE  TagsOK(x, sv, a)
  <2>1. \A p \in Servers : sv[p].at # "off" => sv[p].vol \in Volumes
    BY <1>2 DEF OwnersOK, ServersTyped, ServerRecords
  <2>2. \A p \in Servers : sv[p].at # "off" => x[sv[p].vol].slots = v[sv[p].vol].slots
    BY <2>1 DEF SameButUse
  <2>3. \A j \in Volumes : x[j].slots = v[j].slots
    BY DEF SameButUse
  <2> QED
    BY <1>2, <2>2, <2>3 DEF TagsOK, Serving
<1>3. ASSUME NEW w, NEW ls, RoomOK(v, w, ls) PROVE RoomOK(x, w, ls)
  <2>1. \A j \in Volumes : FreeIn(x, j) = FreeIn(v, j)
    BY DEF SameButUse, FreeIn
  <2> QED
    BY <1>3, <2>1 DEF RoomOK, SameButUse
<1>4. \A sv, sc, uw, n : ScansOK(v, sv, sc, uw, n) => ScansOK(x, sv, sc, uw, n)
  BY DEF SameButUse, ScansOK
<1> QED
  BY <1>1, <1>2, <1>3, <1>4

LEMMA OnAndOff ==
    ASSUME NEW v, NEW cl, NEW sv, NEW w, NEW n, NEW a, Core(v, cl, sv, w, n, a),
           NEW c \in Callers, cl[c].slot = None, Clean(w, c),
           NEW cx, NEW at, NEW i, Moved(cl, cx, c, at, i, None),
           at \in {"outside", "entered"}, i = None <=> at = "outside",
           NEW x, SameButUse(v, x), UsersOK(x, cx), OwnersOK(x, sv)
    PROVE  Core(x, cx, sv, w, n, a)
<1>1. /\ CallersTyped(cl) /\ CallersTyped(cx) /\ PlacesOK(cl) /\ ServersTyped(sv)
      /\ OwnersOK(v, sv) /\ SlotsOK(v, cl) /\ TagsOK(v, sv, a) /\ SleepOK(v, w, n, cl, sv)
      /\ WaitOK(w, QueuesFor(cl, sv))
  BY DEF Core, Moved
<1>2. PlacesOK(cx)
  <2> SUFFICES ASSUME NEW e \in Callers
               PROVE  /\ cx[e].vol = None <=> cx[e].at = "outside"
                      /\ cx[e].slot = None <=> cx[e].at \notin HasOne
    BY DEF PlacesOK, HasOne
  <2>1. CASE e = c
    BY <2>1 DEF Moved, HasOne
  <2>2. CASE e # c
    BY <1>1, <2>2 DEF Moved, PlacesOK, HasOne
  <2> QED
    BY <2>1, <2>2
<1>3. SlotsOK(v, cx)
  <2>1. \A d \in Callers : cx[d].slot # None => cx[d] = cl[d]
    BY DEF Moved
  <2> QED
    BY <1>1, <2>1 DEF SlotsOK
<1>4. SlotsOK(x, cx) /\ TagsOK(x, sv, a)
  BY <1>1, <1>2, <1>3, UseKeeps
<1>5. WaitOK(w, QueuesFor(cx, sv))
  <2>1. PICK Q : Q = QueuesFor(cl, sv)
    OBVIOUS
  <2>2. PICK R : R = QueuesFor(cx, sv)
    OBVIOUS
  <2>3. ASSUME NEW t \in Threads, t # c PROVE R[t] = Q[t]
    <3>1. t \in Callers => cx[t] = cl[t]
      BY <2>3 DEF Moved
    <3>2. QueuesFor(cx, sv)[t] = QueuesFor(cl, sv)[t]
      BY <3>1, QueuesForOthers
    <3> QED
      BY <2>1, <2>2, <3>2
  <2> QED
    BY <1>1, <2>1, <2>2, <2>3, Moving, Basics
<1>6. SleepOK(x, w, n, cx, sv)
  <2>1. ASSUME NEW e \in Callers, ~Ready(w, e)
        PROVE  /\ x[cx[e].vol].live
               /\ cx[e].at = "running" => x[cx[e].vol].slots[cx[e].slot].state # "done"
    <3>1. e # c
      BY <2>1 DEF Clean
    <3>2. cx[e] = cl[e]
      BY <3>1 DEF Moved
    <3>3. /\ v[cl[e].vol].live
          /\ cl[e].at = "running" => v[cl[e].vol].slots[cl[e].slot].state # "done"
      BY <1>1, <2>1 DEF SleepOK
    <3>4. cl[e].vol \in Volumes
      BY <1>1, <2>1, WhoWaits DEF PlacesOK, CallersTyped, CallerRecords
    <3> QED
      BY <3>2, <3>3, <3>4 DEF SameButUse
  <2>2. ASSUME NEW p \in Servers, sv[p].at \in Listening
        PROVE  x[sv[p].vol].slots = v[sv[p].vol].slots
    <3>1. sv[p].vol \in Volumes
      BY <1>1, <2>2 DEF OwnersOK, ServersTyped, ServerRecords, Listening
    <3> QED
      BY <3>1 DEF SameButUse
  <2> QED
    BY <1>1, <2>1, <2>2 DEF SleepOK
<1> QED
  BY <1>1, <1>2, <1>4, <1>5, <1>6 DEF Core, SameButUse

\* A caller that waits on no queue is on none, and runs.
LEMMA CallerIsClean ==
    ASSUME NEW v, NEW cl, NEW sv, NEW w, NEW n, NEW a, Core(v, cl, sv, w, n, a),
           NEW c \in Callers, cl[c].at \notin {"room", "running"}
    PROVE  Clean(w, c)
<1>1. PICK Q : Q = QueuesFor(cl, sv)
  OBVIOUS
<1>2. Q[c] = {}
  BY <1>1, QueuesForCaller
<1> QED
  BY <1>1, <1>2, NowhereIsClean, Basics DEF Core

LEMMA ServerIsClean ==
    ASSUME NEW v, NEW cl, NEW sv, NEW w, NEW n, NEW a, Core(v, cl, sv, w, n, a),
           NEW p \in Servers, sv[p].at # "waiting"
    PROVE  Clean(w, p)
<1>1. PICK Q : Q = QueuesFor(cl, sv)
  OBVIOUS
<1>2. Q[p] = {}
  BY <1>1, QueuesForServer
<1> QED
  BY <1>1, <1>2, NowhereIsClean, Basics DEF Core

LEMMA UsersCount ==
    ASSUME NEW cl, NEW i
    PROVE  IsFiniteSet(UsersOf(cl, i)) /\ Cardinality(UsersOf(cl, i)) \in 0..Cardinality(Callers)
<1>1. UsersOf(cl, i) \subseteq Callers
  BY DEF UsersOf
<1> QED
  BY <1>1, UblkAssumption, FS_Subset, FS_CardinalityType

LEMMA EnterKeeps ==
    ASSUME IInv, NEW c \in Callers, NEW i \in Volumes, Enter(c, i)
    PROVE  IInv'
<1>1. PICK v, cl, sv, w, n, a : /\ v = vol /\ cl = caller /\ sv = server
                                /\ w = ev.wait /\ n = ev.count /\ a = attached
  OBVIOUS
<1>2. PICK x, cx : x = vol' /\ cx = caller'
  OBVIOUS
<1>3. Core(v, cl, sv, w, n, a) /\ AreasOK(v, held)
  BY <1>1 DEF IInv
<1>4. /\ cl[c].at = "outside" /\ v[i].live
      /\ x = [v EXCEPT ![i].users = @ + 1]
      /\ cx = [cl EXCEPT ![c] = [at |-> "entered", vol |-> i, slot |-> None]]
  BY <1>1, <1>2 DEF Enter
<1>5. Moved(cl, cx, c, "entered", i, None)
  BY <1>3, <1>4, Moves3 DEF Core, CallerPlaces
<1>6. v \in [Volumes -> VolumeRecords]
  BY <1>3 DEF Core, VolumesTyped
<1>7. /\ x \in [Volumes -> VolumeRecords] /\ x[i].users = v[i].users + 1
      /\ \A j \in Volumes : j # i => x[j] = v[j]
      /\ \A j \in Volumes :
          /\ x[j].live = v[j].live /\ x[j].server = v[j].server /\ x[j].data = v[j].data
          /\ x[j].published = v[j].published /\ x[j].slots = v[j].slots
  BY <1>4, <1>6 DEF VolumeRecords
<1>8. SameButUse(v, x)
  BY <1>7 DEF SameButUse, VolumesTyped
<1>9. UsersOK(v, cl) /\ OwnersOK(v, sv) /\ PlacesOK(cl)
  BY <1>3 DEF Core
<1>10. cl[c].vol = None /\ cl[c].slot = None
  BY <1>4, <1>9 DEF PlacesOK
<1>11. UsersOK(x, cx)
  <2>1. ASSUME NEW j \in Volumes, j # i PROVE UsersOf(cx, j) = UsersOf(cl, j)
    BY <1>5, <1>10, <2>1, Basics DEF UsersOf, Moved
  <2>2. UsersOf(cx, i) = UsersOf(cl, i) \cup {c} /\ c \notin UsersOf(cl, i)
    BY <1>5, <1>10, Basics DEF UsersOf, Moved
  <2>3. Cardinality(UsersOf(cx, i)) = Cardinality(UsersOf(cl, i)) + 1
    BY <2>2, UsersCount, FS_AddElement
  <2>4. v[i].data # None
    BY <1>4, <1>9 DEF UsersOK
  <2> SUFFICES ASSUME NEW j \in Volumes
               PROVE  /\ x[j].users = Cardinality(UsersOf(cx, j))
                      /\ x[j].data # None <=> x[j].live \/ x[j].users > 0
    BY DEF UsersOK
  <2>5. CASE j = i
    BY <1>4, <1>7, <1>9, <2>3, <2>4, <2>5 DEF UsersOK
  <2>6. CASE j # i
    BY <1>7, <1>9, <2>1, <2>6 DEF UsersOK
  <2> QED
    BY <2>5, <2>6
<1>12. OwnersOK(x, sv)
  <2>1. \A p \in Servers : sv[p].at # "off" => sv[p].vol \in Volumes
    BY <1>3, <1>9 DEF Core, OwnersOK, ServersTyped, ServerRecords
  <2>2. \A p \in Servers : sv[p].at = "picked" => sv[p].vol # i
    BY <1>4, <1>9 DEF OwnersOK
  <2> QED
    BY <1>7, <1>9, <2>1, <2>2 DEF OwnersOK, Serving
<1>13. Core(x, cx, sv, w, n, a)
  <2>1. Clean(w, c)
    BY <1>3, <1>4, CallerIsClean
  <2>2. i # None
    BY Basics
  <2> QED
    BY <1>3, <1>5, <1>8, <1>10, <1>11, <1>12, <2>1, <2>2, OnAndOff
<1>14. AreasOK(x, held)
  <2>1. {x[j].data : j \in Volumes} = {v[j].data : j \in Volumes}
    BY <1>7
  <2> QED
    BY <1>3, <1>7, <2>1 DEF AreasOK
<1>15. /\ ScansOK(x, sv, scans, unwrapped, a) /\ RoomOK(x, w, lostRoom)
  BY <1>1, <1>8, UseKeeps DEF IInv
<1>16. /\ held' = held /\ scans' = scans /\ unwrapped' = unwrapped /\ server' = sv
       /\ ev'.wait = w /\ ev'.count = n /\ deadline' = deadline /\ killed' = killed /\ lostRoom' = lostRoom /\ attached' = a
  BY <1>1 DEF Enter
<1> QED
  BY <1>2, <1>13, <1>14, <1>15, <1>16 DEF IInv

LEMMA LeaveVolumeKeeps ==
    ASSUME IInv, NEW c \in Callers, LeaveVolume(c)
    PROVE  IInv'
<1>1. PICK v, cl, sv, w, n, a, hd : /\ v = vol /\ cl = caller /\ sv = server /\ hd = held
                                    /\ w = ev.wait /\ n = ev.count /\ a = attached
  OBVIOUS
<1>2. PICK x, cx, hx : x = vol' /\ cx = caller' /\ hx = held'
  OBVIOUS
<1>3. Core(v, cl, sv, w, n, a) /\ AreasOK(v, hd)
  BY <1>1 DEF IInv
<1>4. PICK i, y : i = cl[c].vol /\ y = [v[i] EXCEPT !.users = @ - 1]
  OBVIOUS
<1>5. /\ cl[c].at = "leaving"
      /\ x = [v EXCEPT ![i] = LetGoIfEmpty(y)]
      /\ hx = hd \ (Holding(v) \ Holding(x))
      /\ cx = [cl EXCEPT ![c] = [at |-> "outside", vol |-> None, slot |-> None]]
  <2>1. vol' = [vol EXCEPT ![caller[c].vol] = LetGoIfEmpty([vol[caller[c].vol] EXCEPT !.users = @ - 1])]
    BY DEF LeaveVolume
  <2>2. x = [v EXCEPT ![i] = LetGoIfEmpty(y)]
    BY <1>1, <1>2, <1>4, <2>1
  <2> QED
    BY <1>1, <1>2, <2>2 DEF LeaveVolume, Outside
<1>6. UsersOK(v, cl) /\ OwnersOK(v, sv) /\ PlacesOK(cl) /\ CallersTyped(cl) /\ ServersTyped(sv)
      /\ v \in [Volumes -> VolumeRecords]
  BY <1>3 DEF Core, VolumesTyped
<1>7. cl[c].slot = None /\ i \in Volumes
  BY <1>4, <1>5, <1>6 DEF PlacesOK, CallersTyped, CallerRecords
<1>8. Moved(cl, cx, c, "outside", None, None)
  BY <1>5, <1>6, Moves3 DEF CallerPlaces
<1>9. c \in UsersOf(cl, i)
  BY <1>4 DEF UsersOf
<1>10. UsersOf(cx, i) = UsersOf(cl, i) \ {c} /\ \A j \in Volumes : j # i => UsersOf(cx, j) = UsersOf(cl, j)
  BY <1>4, <1>7, <1>8, Basics DEF UsersOf, Moved
<1>11. /\ Cardinality(UsersOf(cx, i)) = Cardinality(UsersOf(cl, i)) - 1
       /\ Cardinality(UsersOf(cl, i)) \in Nat /\ Cardinality(UsersOf(cx, i)) \in Nat
  BY <1>9, <1>10, UsersCount, FS_RemoveElement, FS_CardinalityType
<1>12. v[i].users = Cardinality(UsersOf(cl, i)) /\ v[i].users > 0
  BY <1>6, <1>7, <1>11 DEF UsersOK
<1>13. /\ x \in [Volumes -> VolumeRecords] /\ x[i].users = v[i].users - 1
       /\ \A j \in Volumes : j # i => x[j] = v[j]
       /\ \A j \in Volumes :
           /\ x[j].live = v[j].live /\ x[j].server = v[j].server
           /\ x[j].published = v[j].published /\ x[j].slots = v[j].slots
       /\ x[i].data = IF ~v[i].live /\ x[i].users = 0 THEN None ELSE v[i].data
  <2>1. v[i] \in VolumeRecords /\ v[i].users \in Nat
    BY <1>6, <1>7 DEF VolumeRecords
  <2>2. v[i].users - 1 \in Nat
    BY <1>12, <2>1
  <2>3. /\ y \in VolumeRecords /\ y.users = v[i].users - 1 /\ y.live = v[i].live
        /\ y.server = v[i].server /\ y.data = v[i].data
        /\ y.published = v[i].published /\ y.slots = v[i].slots
    BY <1>4, <2>1, <2>2 DEF VolumeRecords
  <2>4. PICK z : z = LetGoIfEmpty(y)
    OBVIOUS
  <2>5. /\ z \in VolumeRecords /\ z.users = y.users /\ z.live = y.live
        /\ z.server = y.server /\ z.data = IF ~y.live /\ y.users = 0 THEN None ELSE y.data
        /\ z.published = y.published /\ z.slots = y.slots
    BY <2>3, <2>4 DEF VolumeRecords, LetGoIfEmpty
  <2>6. x = [v EXCEPT ![i] = z]
    BY <1>5, <2>4
  <2>7. x \in [Volumes -> VolumeRecords] /\ x[i] = z /\ \A j \in Volumes : j # i => x[j] = v[j]
    BY <1>6, <1>7, <2>5, <2>6
  <2>8. \A j \in Volumes :
           /\ x[j].live = v[j].live /\ x[j].server = v[j].server
           /\ x[j].published = v[j].published /\ x[j].slots = v[j].slots
    BY <2>3, <2>5, <2>7
  <2> QED
    BY <2>3, <2>5, <2>7, <2>8
<1>14. SameButUse(v, x)
  BY <1>13 DEF SameButUse, VolumesTyped
<1>15. v[i].data # None
  BY <1>6, <1>7, <1>12 DEF UsersOK
<1>16. UsersOK(x, cx)
  <2> SUFFICES ASSUME NEW j \in Volumes
               PROVE  /\ x[j].users = Cardinality(UsersOf(cx, j))
                      /\ x[j].data # None <=> x[j].live \/ x[j].users > 0
    BY DEF UsersOK
  <2>1. CASE j = i
    BY <1>11, <1>12, <1>13, <1>15, <2>1
  <2>2. CASE j # i
    BY <1>6, <1>10, <1>13, <2>2 DEF UsersOK
  <2> QED
    BY <2>1, <2>2
<1>17. OwnersOK(x, sv)
  <2> SUFFICES ASSUME NEW p \in Servers
               PROVE  /\ sv[p].vol = None <=> sv[p].at = "off"
                      /\ sv[p].at = "picked" => ~x[sv[p].vol].live /\ x[sv[p].vol].users = 0
                      /\ sv[p].at \in Serving => x[sv[p].vol].live /\ x[sv[p].vol].server = p
                      /\ sv[p].at = "carrying" =>
                            sv[p].hand # NoRequest /\ sv[p].hand.data = x[sv[p].vol].data
    BY DEF OwnersOK
  <2>1. /\ sv[p].vol = None <=> sv[p].at = "off"
        /\ sv[p].at = "picked" => ~v[sv[p].vol].live /\ v[sv[p].vol].users = 0
        /\ sv[p].at \in Serving => v[sv[p].vol].live /\ v[sv[p].vol].server = p
        /\ sv[p].at = "carrying" => sv[p].hand # NoRequest /\ sv[p].hand.data = v[sv[p].vol].data
    BY <1>6 DEF OwnersOK
  <2>2. sv[p].at # "off" => sv[p].vol \in Volumes
    BY <1>6, <2>1 DEF ServersTyped, ServerRecords
  <2>3. CASE sv[p].vol = i
    BY <1>12, <1>13, <2>1, <2>2, <2>3 DEF Serving
  <2>4. CASE sv[p].vol # i
    BY <1>13, <2>1, <2>2, <2>4 DEF Serving
  <2> QED
    BY <2>3, <2>4
<1>18. Core(x, cx, sv, w, n, a)
  <2>1. Clean(w, c)
    BY <1>3, <1>5, CallerIsClean
  <2> QED
    BY <1>3, <1>7, <1>8, <1>14, <1>16, <1>17, <2>1, OnAndOff
<1>19. AreasOK(x, hx)
  <2>1. \A j \in Volumes : x[j].data # None => x[j].data = v[j].data
    BY <1>13
  <2>2. Holding(x) \subseteq Holding(v)
    BY <2>1 DEF Holding
  <2>3. hd = Holding(v)
    BY <1>3 DEF AreasOK, Holding
  <2>4. hx = Holding(x)
    BY <1>5, <2>2, <2>3
  <2> QED
    BY <1>3, <2>1, <2>4 DEF AreasOK, Holding
<1>20. /\ ScansOK(x, sv, scans, unwrapped, a) /\ RoomOK(x, w, lostRoom)
  BY <1>1, <1>14, UseKeeps DEF IInv
<1>21. /\ scans' = scans /\ unwrapped' = unwrapped /\ server' = sv
       /\ ev'.wait = w /\ ev'.count = n /\ deadline' = deadline /\ killed' = killed /\ lostRoom' = lostRoom /\ attached' = a
  BY <1>1 DEF LeaveVolume
<1> QED
  BY <1>2, <1>18, <1>19, <1>20, <1>21 DEF IInv

LEMMA SurveyKeeps ==
    ASSUME IInv, NEW i \in Volumes, Survey(i)
    PROVE  IInv'
<1>1. ScansOK(vol, server, scans, unwrapped, attached)
  BY DEF IInv
<1>2. scans[i] > 0 /\ scans' = [scans EXCEPT ![i] = @ - 1]
      /\ unwrapped' = (unwrapped \/ (vol[i].live /\ ~vol[i].published))
  BY DEF Survey
<1>3. scans \in [Volumes -> Nat] /\ attached \in Nat
  BY <1>1, UblkAssumption DEF ScansOK
<1>4. scans' \in [Volumes -> Nat] /\ \A j \in Volumes : scans'[j] <= scans[j]
  BY <1>2, <1>3
<1>5. attached <= 1 => ~unwrapped'
  BY <1>1, <1>2 DEF ScansOK
<1>6. \A p \in Servers : server[p].at \in {"picked", "filled"} => server[p].vol \in Volumes
  BY DEF IInv, Core, OwnersOK, ServersTyped, ServerRecords
<1>7. unwrapped' \in BOOLEAN
  BY <1>2
<1>8. ScansOK(vol, server, scans', unwrapped', attached)
  <2>1. attached \in 0..Attachments /\ \A j \in Volumes : scans'[j] <= attached
    BY <1>1, <1>3, <1>4 DEF ScansOK
  <2>2. \A p \in Servers :
          /\ server[p].at # "off" => attached # 0
          /\ server[p].at \in {"picked", "filled"} => scans'[server[p].vol] < attached
    BY <1>1, <1>3, <1>4, <1>6 DEF ScansOK
  <2>3. attached <= 1 => \A j \in Volumes : scans'[j] > 0 /\ vol[j].live => vol[j].published
    BY <1>1, <1>3, <1>4 DEF ScansOK
  <2> QED
    BY <1>4, <1>5, <1>7, <2>1, <2>2, <2>3 DEF ScansOK
<1> QED
  BY <1>8 DEF IInv, Survey

\* The tick or a kill makes a caller run where it is.
LEMMA UnblockKeeps ==
    ASSUME NEW v, NEW cl, NEW sv, NEW w, NEW n, NEW a, Core(v, cl, sv, w, n, a),
           NEW ls, RoomOK(v, w, ls), NEW c \in Callers
    PROVE  Core(v, cl, sv, Unblock(w, c), n, a) /\ RoomOK(v, Unblock(w, c), ls)
<1>1. PICK x, Q : x = Unblock(w, c) /\ Q = QueuesFor(cl, sv)
  OBVIOUS
<1>2. /\ WaitOK(x, Q) /\ Wakes(w, x) /\ x.woken = w.woken
      /\ \A q, u : Queued(x, q, u) <=> Queued(w, q, u)
  BY <1>1, Unblocking, Basics DEF Core
<1>3. \A i \in Volumes : Claimers(x, i) = Claimers(w, i) /\ WokenFor(x, i) = WokenFor(w, i)
  BY <1>2 DEF Claimers, WokenFor
<1>4. RoomOK(v, x, ls)
  BY <1>3 DEF RoomOK, RoomAt
<1> QED
  BY <1>1, <1>2, <1>4, CoreWakes

LEMMA ExpireKeeps ==
    ASSUME IInv, NEW c \in Callers, Expire(c)
    PROVE  IInv'
<1>1. /\ Core(vol, caller, server, Unblock(ev.wait, c), ev.count, attached)
      /\ RoomOK(vol, Unblock(ev.wait, c), lostRoom)
  BY UnblockKeeps DEF IInv
<1>2. ev'.wait = Unblock(ev.wait, c) /\ ev'.count = ev.count
  BY DEF Expire, Waits
<1>3. deadline' \in [Callers -> {"none", "ahead", "passed"}]
  BY DEF Expire, IInv
<1> QED
  BY <1>1, <1>2, <1>3 DEF IInv, Expire

LEMMA KillKeeps ==
    ASSUME IInv, NEW c \in Callers, Kill(c)
    PROVE  IInv'
<1>1. /\ Core(vol, caller, server, Unblock(ev.wait, c), ev.count, attached)
      /\ RoomOK(vol, Unblock(ev.wait, c), lostRoom)
  BY UnblockKeeps DEF IInv
<1>2. ev'.wait = Unblock(ev.wait, c) /\ ev'.count = ev.count
  BY DEF Kill, Waits
<1>3. killed' \subseteq Killable
  BY DEF Kill, IInv
<1> QED
  BY <1>1, <1>2, <1>3 DEF IInv, Kill

-----------------------------------------------------------------------------
(* Claims. *)

\* A slot changes into one that fits its caller, the tags about and the sleepers.
LEMMA CoreTurn ==
    ASSUME NEW v, NEW cl, NEW sv, NEW w, NEW n, NEW a, Core(v, cl, sv, w, n, a),
           NEW i \in Volumes, NEW k \in Slots, NEW s, NEW x, Turned(v, x, i, k, s),
           FitsCallers(s, cl, i, k, v[i].live),
           a <= 1 => s.answer # "stale",
           a <= 1 => \A p \in Servers :
               sv[p].at \in Serving /\ sv[p].vol = i => FitsTags(s, sv[p], k),
           s.state = "done" => \A c \in Callers : ~Queued(w, SlotQueue(i, k), c),
           s.state = "offered" =>
               \A p \in Servers : sv[p].at \in Listening /\ sv[p].vol = i => n[Doorbell(i)] # 0
    PROVE  Core(x, cl, sv, w, n, a)
<1>1. /\ CallersTyped(cl) /\ ServersTyped(sv) /\ PlacesOK(cl) /\ UsersOK(v, cl) /\ OwnersOK(v, sv)
      /\ SlotsOK(v, cl) /\ TagsOK(v, sv, a) /\ WaitOK(w, QueuesFor(cl, sv))
      /\ SleepOK(v, w, n, cl, sv) /\ n \in [Bells -> 0..MaxCount]
  BY DEF Core
<1>2. SameHeads(v, x) /\ VolumesTyped(x)
  BY DEF Turned
<1>3. UsersOK(x, cl) /\ OwnersOK(x, sv)
  BY <1>1, <1>2, HeadsKeep
<1>4. SlotsOK(x, cl)
  BY <1>1, SlotsTurn
<1>5. TagsOK(x, sv, a)
  BY <1>1, TagsTurn
<1>6. SleepOK(x, w, n, cl, sv)
  BY <1>1, SleepTurn
<1> QED
  BY <1>1, <1>2, <1>3, <1>4, <1>5, <1>6 DEF Core

\* The servers are where they were, some of them without the last tag.
Forgets(sv, sx) ==
    /\ ServersTyped(sx)
    /\ \A p \in Servers :
          /\ sx[p].at = sv[p].at /\ sx[p].vol = sv[p].vol /\ sx[p].hand = sv[p].hand
          /\ sx[p].last \in {sv[p].last, NoRequest}

LEMMA SameQueues ==
    ASSUME NEW cl, NEW sv, NEW sx,
           \A p \in Servers : sx[p].at = sv[p].at /\ sx[p].vol = sv[p].vol
    PROVE  QueuesFor(cl, sx) = QueuesFor(cl, sv)
<1>1. \A t \in Threads : t \notin Callers => sx[t].at = sv[t].at /\ sx[t].vol = sv[t].vol
  BY Basics
<1> QED
  BY <1>1 DEF QueuesFor

LEMMA CoreForgets ==
    ASSUME NEW v, NEW cl, NEW sv, NEW w, NEW n, NEW a, Core(v, cl, sv, w, n, a),
           NEW sx, Forgets(sv, sx)
    PROVE  Core(v, cl, sx, w, n, a)
<1>1. OwnersOK(v, sx)
  BY SMTT(60) DEF Core, OwnersOK, Forgets, Serving
<1>2. TagsOK(v, sx, a)
  <2> SUFFICES ASSUME a <= 1, NEW p \in Servers
               PROVE  /\ a = 0 \/ sx[p].at = "picked" => sx[p].last = NoRequest
                      /\ sx[p].at = "carrying" =>
                            LET u == v[sx[p].vol].slots[sx[p].hand.slot] IN
                            /\ u.generation = sx[p].hand.generation
                            /\ u.state \in {"taken", "abandoned"}
                      /\ sx[p].at \in Serving /\ sx[p].last # NoRequest =>
                            LET u == v[sx[p].vol].slots[sx[p].last.slot] IN
                            /\ sx[p].last.generation <= u.generation
                            /\ sx[p].last.generation = u.generation => u.state \in {"free", "done"}
    BY Zenon DEF TagsOK, Core
  <2>1. TagsOK(v, sv, a)
    BY DEF Core
  <2> QED
    BY <2>1, ZenonT(60) DEF TagsOK, Forgets
<1>3. WaitOK(w, QueuesFor(cl, sx))
  <2>1. QueuesFor(cl, sx) = QueuesFor(cl, sv)
    BY SameQueues DEF Forgets
  <2> QED
    BY <2>1 DEF Core
<1>4. SleepOK(v, w, n, cl, sx)
  BY DEF Core, SleepOK, Forgets
<1> QED
  BY <1>1, <1>2, <1>3, <1>4 DEF Core, Forgets

\* The next generation is one more, or less.
LEMMA Generations ==
    ASSUME NEW g \in 0..MaxGeneration
    PROVE  /\ NextGeneration(g) \in 0..MaxGeneration
           /\ NextGeneration(g) = g + 1 \/ NextGeneration(g) < g
<1>1. MaxGeneration \in Nat \ {0}
  BY UblkAssumption
<1>2. CASE g < MaxGeneration
  <2>1. (g + 1) % (MaxGeneration + 1) = g + 1
    BY <1>1, <1>2
  <2> QED
    BY <1>1, <1>2, <2>1 DEF NextGeneration
<1>3. CASE g = MaxGeneration
  <2>1. (g + 1) % (MaxGeneration + 1) = 0
    BY <1>1, <1>3
  <2> QED
    BY <1>1, <1>3, <2>1 DEF NextGeneration
<1> QED
  BY <1>1, <1>2, <1>3

\* A caller on no queue has a slot that nobody has.
LEMMA CallerClaims ==
    ASSUME NEW v, NEW cl, NEW sv, NEW w, NEW n, NEW a, Core(v, cl, sv, w, n, a),
           NEW c \in Callers, cl[c].at # "outside", Clean(w, c), cl[c].slot = None,
           NEW k \in Slots, \A d \in Callers : ~(cl[d].vol = cl[c].vol /\ cl[d].slot = k),
           v[cl[c].vol].slots[k].state = "claimed",
           NEW cx, Moved(cl, cx, c, "claimed", cl[c].vol, k)
    PROVE  Core(v, cx, sv, w, n, a)
<1>1. /\ CallersTyped(cl) /\ CallersTyped(cx) /\ PlacesOK(cl) /\ SlotsOK(v, cl)
      /\ WaitOK(w, QueuesFor(cl, sv)) /\ k # None
  BY Basics DEF Core, Moved
<1>2. PlacesOK(cx)
  <2> SUFFICES ASSUME NEW d \in Callers
               PROVE  /\ cx[d].vol = None <=> cx[d].at = "outside"
                      /\ cx[d].slot = None <=> cx[d].at \notin HasOne
    BY DEF PlacesOK, HasOne
  <2>1. CASE d = c
    BY <1>1, <2>1 DEF Moved, PlacesOK, HasOne
  <2>2. CASE d # c
    BY <1>1, <2>2 DEF Moved, PlacesOK, HasOne
  <2> QED
    BY <2>1, <2>2
<1>3. UsersOK(v, cx)
  BY SameUsers DEF Core, UsersOK
<1>4. SlotsOK(v, cx)
  <2>1. ASSUME NEW d \in Callers, d # c, cx[d].slot # None, cx[d].vol = cx[c].vol
        PROVE  cx[d].slot # cx[c].slot
    BY <2>1 DEF Moved
  <2>2. ASSUME NEW d \in Callers, NEW e \in Callers,
               cx[d].slot # None, cx[e].slot # None, cx[d].vol = cx[e].vol, cx[d].slot = cx[e].slot
        PROVE  d = e
    <3>1. CASE d = c \/ e = c
      BY <2>1, <2>2, <3>1
    <3>2. CASE d # c /\ e # c
      BY <1>1, <2>2, <3>2 DEF Moved, SlotsOK
    <3> QED
      BY <3>1, <3>2
  <2>3. ASSUME NEW e \in Callers, cx[e].slot # None
        PROVE  /\ v[cx[e].vol].slots[cx[e].slot].state \notin {"free", "abandoned"}
               /\ cx[e].at = "claimed" =>
                    v[cx[e].vol].slots[cx[e].slot].state = "claimed" \/ ~v[cx[e].vol].live
               /\ cx[e].at = "running" => v[cx[e].vol].slots[cx[e].slot].state # "claimed"
    <3>1. CASE e = c
      BY <3>1 DEF Moved
    <3>2. CASE e # c
      BY <1>1, <2>3, <3>2 DEF Moved, SlotsOK
    <3> QED
      BY <3>1, <3>2
  <2> QED
    BY <2>2, <2>3 DEF SlotsOK
<1>5. WaitOK(w, QueuesFor(cx, sv))
  <2>1. PICK Q : Q = QueuesFor(cl, sv)
    OBVIOUS
  <2>2. PICK R : R = QueuesFor(cx, sv)
    OBVIOUS
  <2>3. ASSUME NEW t \in Threads, t # c PROVE R[t] = Q[t]
    <3>1. t \in Callers => cx[t] = cl[t]
      BY <2>3 DEF Moved
    <3>2. QueuesFor(cx, sv)[t] = QueuesFor(cl, sv)[t]
      BY <3>1, QueuesForOthers
    <3> QED
      BY <2>1, <2>2, <3>2
  <2> QED
    BY <1>1, <2>1, <2>2, <2>3, Moving, Basics
<1>6. SleepOK(v, w, n, cx, sv)
  <2>1. SleepOK(v, w, n, cl, sv) /\ Ready(w, c)
    BY DEF Core, Clean
  <2> QED
    BY <2>1 DEF SleepOK, Moved
<1> QED
  BY <1>1, <1>2, <1>3, <1>4, <1>5, <1>6 DEF Core

\* A caller on no queue takes a free slot, under a tag of its own.
LEMMA TakesSlot ==
    ASSUME NEW v, NEW cl, NEW sv, NEW w, NEW n, NEW a, Core(v, cl, sv, w, n, a),
           NEW c \in Callers, cl[c].at \in {"entered", "room"}, Clean(w, c),
           NEW i \in Volumes, cl[c].vol = i, NEW k \in Slots, v[i].slots[k].state = "free",
           NEW s, NEW x, Turned(v, x, i, k, s), s.state = "claimed", s.answer = "none",
           s.generation = NextGeneration(v[i].slots[k].generation),
           NEW sx, Forgets(sv, sx),
           s.generation < v[i].slots[k].generation =>
               \A p \in Servers : sx[p].vol = i /\ sx[p].last.slot = k => sx[p].last = NoRequest,
           NEW cx, Moved(cl, cx, c, "claimed", i, k)
    PROVE  Core(x, cx, sx, w, n, a)
<1>1. Core(v, cl, sx, w, n, a)
  BY CoreForgets
<1>2. /\ VolumesTyped(v) /\ CallersTyped(cl) /\ ServersTyped(sx) /\ PlacesOK(cl)
      /\ SlotsOK(v, cl) /\ TagsOK(v, sx, a) /\ OwnersOK(v, sx)
  BY <1>1 DEF Core
<1>3. cl[c].slot = None /\ cl[c].at # "outside"
  BY <1>2 DEF PlacesOK
<1>4. v[i].slots[k].generation \in 0..MaxGeneration
  BY <1>2, SlotTyped
<1>5. /\ s.generation \in 0..MaxGeneration
      /\ s.generation = v[i].slots[k].generation + 1 \/ s.generation < v[i].slots[k].generation
  BY <1>4, Generations
<1>6. \A d \in Callers : ~(cl[d].vol = i /\ cl[d].slot = k)
  BY <1>2, Basics DEF SlotsOK
<1>7. FitsCallers(s, cl, i, k, v[i].live)
  BY <1>6 DEF FitsCallers
<1>8. ASSUME a <= 1, NEW p \in Servers, sx[p].at \in Serving, sx[p].vol = i
      PROVE  FitsTags(s, sx[p], k)
  <2>1. ~(sx[p].at = "carrying" /\ sx[p].hand.slot = k)
    BY <1>2, <1>8 DEF TagsOK
  <2>2. ASSUME sx[p].last # NoRequest, sx[p].last.slot = k
        PROVE  /\ sx[p].last.generation <= s.generation
               /\ sx[p].last.generation # s.generation
    <3>1. s.generation = v[i].slots[k].generation + 1
      BY <1>5, <1>8, <2>2, SMTT(60)
    <3>2. sx[p].last.generation <= v[i].slots[k].generation
      BY <1>2, <1>8, <2>2 DEF TagsOK
    <3>3. sx[p].last.generation \in 0..MaxGeneration
      BY <1>2, <2>2 DEF ServersTyped, ServerRecords, Requests
    <3> QED
      BY <1>4, <3>1, <3>2, <3>3, UblkAssumption
  <2> QED
    BY <2>1, <2>2, SMTT(60) DEF FitsTags
<1>9. Core(x, cl, sx, w, n, a)
  BY <1>1, <1>7, <1>8, CoreTurn
<1>10. x[i].slots[k].state = "claimed"
  BY DEF Turned
<1> QED
  BY <1>3, <1>6, <1>9, <1>10, CallerClaims

\* y is w without caller c.
OffRoom(w, y, c) ==
    \A j \in Volumes : /\ Claimers(y, j) = Claimers(w, j) \ {c}
                       /\ WokenFor(y, j) = WokenFor(w, j) \ {c}

\* A caller was woken for room on its own volume only.
LEMMA RoomElsewhere ==
    ASSUME NEW v, NEW cl, NEW sv, NEW w, NEW n, NEW a, Core(v, cl, sv, w, n, a),
           NEW c \in Callers, NEW y, OffRoom(w, y, c),
           NEW j \in Volumes, j # cl[c].vol, NEW m \in Nat, RoomAt(w, j, m)
    PROVE  RoomAt(y, j, m)
<1>1. CallersTyped(cl) /\ ServersTyped(sv) /\ PlacesOK(cl) /\ WaitOK(w, QueuesFor(cl, sv))
  BY DEF Core
<1>2. Room(j) \notin w.woken[c]
  BY <1>1, WhoWaits
<1>3. c \notin WokenFor(w, j)
  BY <1>2 DEF WokenFor
<1>4. WokenFor(y, j) = WokenFor(w, j) /\ Claimers(y, j) \subseteq Claimers(w, j)
  BY <1>3 DEF OffRoom
<1> QED
  BY <1>4, RoomKept

\* With no slot free and with no volume, nobody need be coming for room.
LEMMA RoomOffVolume ==
    ASSUME NEW v, NEW cl, NEW sv, NEW w, NEW n, NEW a, Core(v, cl, sv, w, n, a),
           NEW c \in Callers, NEW y, OffRoom(w, y, c), NEW ls, RoomOK(v, w, ls),
           ~v[cl[c].vol].live \/ FreeIn(v, cl[c].vol) = {}
    PROVE  RoomOK(v, y, ls)
<1> SUFFICES ASSUME NEW j \in Volumes, v[j].live, j \notin ls
             PROVE  RoomAt(y, j, Cardinality(FreeIn(v, j)))
  BY DEF RoomOK
<1>1. RoomAt(w, j, Cardinality(FreeIn(v, j))) /\ Cardinality(FreeIn(v, j)) \in Nat
  BY FreeCount DEF RoomOK
<1>2. CASE j = cl[c].vol
  <2>1. Cardinality(FreeIn(v, j)) = 0
    BY <1>2, FS_EmptySet
  <2> QED
    BY <2>1, RoomNone
<1>3. CASE j # cl[c].vol
  BY <1>1, <1>3, RoomElsewhere
<1> QED
  BY <1>2, <1>3

LEMMA ClaimLoopKeeps ==
    ASSUME IInv, NEW c \in Callers, caller[c].at \in {"entered", "room"},
           NEW e, e.count = ev.count,
           Core(vol, caller, server, e.wait, ev.count, attached), Clean(e.wait, c),
           OffRoom(ev.wait, e.wait, c), ClaimLoop(c, e),
           held' = held, scans' = scans, unwrapped' = unwrapped, killed' = killed,
           attached' = attached
    PROVE  IInv'
<1>1. PICK v, cl, sv, w, n, a : /\ v = vol /\ cl = caller /\ sv = server
                                /\ w = ev.wait /\ n = ev.count /\ a = attached
  OBVIOUS
<1>2. PICK x, cx, sx, wx, y, ls, lx : /\ x = vol' /\ cx = caller' /\ sx = server' /\ wx = ev'.wait
                                      /\ y = e.wait /\ ls = lostRoom /\ lx = lostRoom'
  OBVIOUS
<1>3. /\ Core(v, cl, sv, w, n, a) /\ AreasOK(v, held) /\ ScansOK(v, sv, scans, unwrapped, a)
      /\ RoomOK(v, w, ls) /\ Core(v, cl, sv, y, n, a) /\ Clean(y, c) /\ OffRoom(w, y, c)
      /\ cl[c].at \in {"entered", "room"}
  BY <1>1, <1>2 DEF IInv
<1>4. PICK i : i = cl[c].vol
  OBVIOUS
<1>5. /\ CallersTyped(cl) /\ PlacesOK(cl) /\ ServersTyped(sv) /\ OwnersOK(v, sv)
  BY <1>3 DEF Core
<1>6. i \in Volumes /\ cl[c].slot = None /\ cl[c].at # "outside"
  BY <1>3, <1>4, <1>5 DEF PlacesOK, CallersTyped, CallerRecords
<1>7. deadline \in [Callers -> {"none", "ahead", "passed"}] /\ killed \subseteq Killable /\ ls \subseteq Volumes
  BY <1>2 DEF IInv
<1>8. SUFFICES /\ Core(x, cx, sx, wx, n, a) /\ AreasOK(x, held)
               /\ ScansOK(x, sx, scans, unwrapped, a) /\ RoomOK(x, wx, lx) /\ lx \subseteq Volumes
               /\ deadline' \in [Callers -> {"none", "ahead", "passed"}] /\ ev'.count = n
  BY <1>1, <1>2, <1>7 DEF IInv
<1>9. CASE /\ vol[i].live /\ FreeSlots(i) # {}
           /\ LET k == Min(FreeSlots(i))
                  g == NextGeneration(vol[i].slots[k].generation)
              IN  /\ vol' = [vol EXCEPT ![i].slots[k] =
                                 [state |-> "claimed", generation |-> g, answer |-> "none"]]
                  /\ caller' = [caller EXCEPT ![c].at = "claimed", ![c].slot = k]
                  /\ server' = IF g < vol[i].slots[k].generation THEN Forgotten(i, k) ELSE server
                  /\ lostRoom' = IF FreeSlots(i) = {k} THEN lostRoom \ {i} ELSE lostRoom
           /\ ev' = e
           /\ deadline' = [deadline EXCEPT ![c] = "none"]
  <2>1. PICK k : k = Min(FreeSlots(i))
    OBVIOUS
  <2>2. PICK g : g = NextGeneration(v[i].slots[k].generation)
    OBVIOUS
  <2>3. k \in FreeSlots(i)
    <3>1. FreeSlots(i) \in SUBSET Nat /\ FreeSlots(i) # {}
      BY <1>9, Basics DEF FreeSlots
    <3> QED
      BY <2>1, <3>1, MinIsMember
  <2>4. k \in Slots /\ v[i].slots[k].state = "free"
    BY <1>1, <2>3 DEF FreeSlots
  <2>5. x = [v EXCEPT ![i].slots[k] = [state |-> "claimed", generation |-> g, answer |-> "none"]]
    BY <1>1, <1>2, <1>9, <2>1, <2>2
  <2>6. Moved(cl, cx, c, "claimed", i, k)
    <3>1. cx = [cl EXCEPT ![c].at = "claimed", ![c].slot = k]
      BY <1>1, <1>2, <1>9, <2>1
    <3> QED
      BY <1>4, <1>5, <2>4, <3>1, Moves2 DEF CallerPlaces
  <2>7. sx = IF g < v[i].slots[k].generation
             THEN [p \in Servers |-> IF sv[p].vol = i /\ sv[p].last.slot = k
                                     THEN [sv[p] EXCEPT !.last = NoRequest] ELSE sv[p]]
             ELSE sv
    BY <1>1, <1>2, <1>9, <2>1, <2>2 DEF Forgotten
  <2>8. /\ Forgets(sv, sx)
        /\ g < v[i].slots[k].generation =>
               \A p \in Servers : sx[p].vol = i /\ sx[p].last.slot = k => sx[p].last = NoRequest
    <3>1. CASE ~(g < v[i].slots[k].generation)
      BY <1>5, <2>7, <3>1 DEF Forgets
    <3>2. CASE g < v[i].slots[k].generation
      <4>1. \A p \in Servers : sv[p] \in ServerRecords
        BY <1>5 DEF ServersTyped
      <4>2. NoRequest \in Requests
        BY DEF Requests
      <4>3. \A p \in Servers : sx[p] = IF sv[p].vol = i /\ sv[p].last.slot = k
                                     THEN [sv[p] EXCEPT !.last = NoRequest] ELSE sv[p]
        BY <2>7, <3>2
      <4>4. \A p \in Servers : sx[p] \in ServerRecords
        BY <4>1, <4>2, <4>3 DEF ServerRecords
      <4>5. sx \in [Servers -> ServerRecords]
        BY <2>7, <3>2, <4>4
      <4>6. \A p \in Servers :
              /\ sx[p].at = sv[p].at /\ sx[p].vol = sv[p].vol /\ sx[p].hand = sv[p].hand
              /\ sx[p].last \in {sv[p].last, NoRequest}
        BY <4>1, <4>3 DEF ServerRecords
      <4>7. \A p \in Servers : sx[p].vol = i /\ sx[p].last.slot = k => sx[p].last = NoRequest
        BY <4>1, <4>3 DEF ServerRecords
      <4> QED
        BY <4>5, <4>6, <4>7 DEF Forgets, ServersTyped
    <3> QED
      BY <3>1, <3>2
  <2>9. /\ Core(x, cx, sx, y, n, a) /\ SameHeads(v, x)
        /\ \A j \in Volumes : j # i => FreeIn(x, j) = FreeIn(v, j)
        /\ Cardinality(FreeIn(v, i)) = Cardinality(FreeIn(x, i)) + 1
    <3>1. PICK s : s = [state |-> "claimed", generation |-> g, answer |-> "none"]
      OBVIOUS
    <3>2. VolumesTyped(v)
      BY <1>3 DEF Core
    <3>3. v[i].slots[k].generation \in 0..MaxGeneration
      BY <1>6, <2>4, <3>2, SlotTyped
    <3>4. s \in SlotRecords /\ s.state = "claimed" /\ s.generation = g /\ s.answer = "none"
      BY <2>2, <3>1, <3>3, Generations DEF SlotRecords, SlotStates
    <3>5. Turned(v, x, i, k, s)
      BY <1>6, <2>4, <2>5, <3>1, <3>2, <3>4, TurnsSlots
    <3>6. Core(x, cx, sx, y, n, a)
      BY <1>3, <1>4, <1>6, <2>2, <2>4, <2>6, <2>8, <3>4, <3>5, TakesSlot
    <3>7. s.state # "free"
      BY <3>4
    <3> QED
      BY <1>6, <2>4, <3>5, <3>6, <3>7, FreeTurn DEF Turned
  <2>10. AreasOK(x, held) /\ ScansOK(x, sv, scans, unwrapped, a)
    BY <1>3, <2>9, HeadsKeep
  <2>11. ScansOK(x, sx, scans, unwrapped, a)
    BY <2>8, <2>10 DEF ScansOK, Forgets
  <2>16. lx = IF FreeIn(v, i) = {k} THEN ls \ {i} ELSE ls
    <3>1. FreeSlots(i) = FreeIn(v, i)
      BY <1>1 DEF FreeSlots, FreeIn
    <3> QED
      BY <1>2, <1>9, <2>1, <3>1
  <2>12. ASSUME NEW j \in Volumes, x[j].live, j \notin ls
         PROVE  RoomAt(y, j, Cardinality(FreeIn(x, j)))
    <3>1. v[j].live
      BY <2>9, <2>12 DEF SameHeads
    <3>2. RoomAt(w, j, Cardinality(FreeIn(v, j)))
      BY <1>3, <2>12, <3>1 DEF RoomOK
    <3>3. Cardinality(FreeIn(v, j)) \in Nat /\ Cardinality(FreeIn(x, j)) \in Nat
      BY FreeCount
    <3>4. CASE j = i
      <4>1. RoomAt(w, j, Cardinality(FreeIn(x, j)) + 1)
        BY <2>9, <3>2, <3>4
      <4> QED
        BY <1>3, <3>3, <4>1, RoomTaken DEF OffRoom
    <3>5. CASE j # i
      BY <1>3, <1>4, <2>9, <3>2, <3>3, <3>5, RoomElsewhere
    <3> QED
      BY <3>4, <3>5
  <2>17. ASSUME FreeIn(v, i) = {k} PROVE RoomAt(y, i, Cardinality(FreeIn(x, i)))
    <3>1. Cardinality({k}) = 1
      BY FS_Singleton
    <3>2. Cardinality(FreeIn(x, i)) = 0
      <4>1. Cardinality(FreeIn(x, i)) \in Nat
        BY FreeCount
      <4> QED
        BY <2>9, <2>17, <3>1, <4>1
    <3> QED
      BY <1>6, <3>2, RoomNone
  <2>13. RoomOK(x, y, lx) /\ lx \subseteq Volumes
    BY <1>7, <2>12, <2>16, <2>17 DEF RoomOK
  <2>14. wx = y /\ ev'.count = n
    BY <1>1, <1>2, <1>9
  <2>15. deadline' \in [Callers -> {"none", "ahead", "passed"}]
    BY <1>7, <1>9
  <2> QED
    BY <2>9, <2>10, <2>11, <2>13, <2>14, <2>15
<1>10. CASE /\ vol[i].live /\ FreeSlots(i) = {}
            /\ Sleeps(c, e, Room(i), "ahead", "room")
            /\ UNCHANGED <<vol, server, lostRoom>>
  <2>1. x = v /\ sx = sv /\ lx = ls /\ v[i].live /\ FreeIn(v, i) = {}
    BY <1>1, <1>2, <1>10 DEF FreeSlots, FreeIn
  <2>2. RoomOK(v, y, ls)
    BY <1>3, <1>4, <2>1, RoomOffVolume
  <2>3. CASE /\ ev' = BlockOn(e, c, {Room(i)}, TRUE)
             /\ deadline' = [deadline EXCEPT ![c] = "ahead"]
             /\ Moves(c, "room")
    <3>1. wx = Block(y, c, {Room(i)}, TRUE) /\ ev'.count = n
      BY <1>1, <1>2, <2>3 DEF BlockOn
    <3>2. Moved(cl, cx, c, "room", i, cl[c].slot)
      <4>1. cx = [cl EXCEPT ![c].at = "room"]
        BY <1>1, <1>2, <2>3 DEF Moves
      <4> QED
        BY <1>4, <1>5, <4>1, Moves1 DEF CallerPlaces
    <3>3. Core(v, cx, sv, wx, n, a) /\ Asleep(y, wx, c, Room(i))
      BY <1>3, <1>4, <1>6, <2>1, <3>1, <3>2, CallerSleeps
    <3>4. RoomOK(v, wx, ls)
      <4> SUFFICES ASSUME NEW j \in Volumes, v[j].live, j \notin ls
                   PROVE  RoomAt(wx, j, Cardinality(FreeIn(v, j)))
        BY DEF RoomOK
      <4>1. CASE j = i
        <5>1. Cardinality(FreeIn(v, j)) = 0
          BY <2>1, <4>1, FS_EmptySet
        <5> QED
          BY <5>1, RoomNone
      <4>2. CASE j # i
        <5>1. RoomAt(y, j, Cardinality(FreeIn(v, j)))
          BY <2>2 DEF RoomOK
        <5>2. Room(i) # Room(j)
          BY <4>2, Names
        <5>3. Claimers(wx, j) = Claimers(y, j) /\ WokenFor(wx, j) = WokenFor(y, j)
          BY <3>3, <5>2, RoomAsleep
        <5> QED
          BY <5>1, <5>3 DEF RoomAt
      <4> QED
        BY <4>1, <4>2
    <3>5. deadline' \in [Callers -> {"none", "ahead", "passed"}]
      BY <1>7, <2>3
    <3> QED
      BY <1>3, <1>7, <2>1, <3>1, <3>3, <3>4, <3>5
  <2>4. CASE /\ c \in killed
             /\ ev' = e
             /\ deadline' = [deadline EXCEPT ![c] = "none"]
             /\ Moves(c, "leaving")
    <3>1. wx = y /\ ev'.count = n
      BY <1>1, <1>2, <2>4
    <3>2. Moved(cl, cx, c, "leaving", i, cl[c].slot)
      <4>1. cx = [cl EXCEPT ![c].at = "leaving"]
        BY <1>1, <1>2, <2>4 DEF Moves
      <4> QED
        BY <1>4, <1>5, <4>1, Moves1 DEF CallerPlaces
    <3>3. Core(v, cx, sv, y, n, a)
      BY <1>3, <1>4, <1>6, <3>2, CallerGoes
    <3>4. deadline' \in [Callers -> {"none", "ahead", "passed"}]
      BY <1>7, <2>4
    <3> QED
      BY <1>3, <1>7, <2>1, <2>2, <3>1, <3>3, <3>4
  <2> QED
    BY <1>10, <2>3, <2>4 DEF Sleeps
<1>11. CASE /\ ~vol[i].live
            /\ ev' = e
            /\ deadline' = [deadline EXCEPT ![c] = "none"]
            /\ Moves(c, "leaving")
            /\ UNCHANGED <<vol, server, lostRoom>>
  <2>1. x = v /\ sx = sv /\ lx = ls /\ ~v[i].live /\ wx = y /\ ev'.count = n
    BY <1>1, <1>2, <1>11
  <2>2. RoomOK(v, y, ls)
    BY <1>3, <1>4, <2>1, RoomOffVolume
  <2>3. Moved(cl, cx, c, "leaving", i, cl[c].slot)
    <3>1. cx = [cl EXCEPT ![c].at = "leaving"]
      BY <1>1, <1>2, <1>11 DEF Moves
    <3> QED
      BY <1>4, <1>5, <3>1, Moves1 DEF CallerPlaces
  <2>4. Core(v, cx, sv, y, n, a)
    BY <1>3, <1>4, <1>6, <2>3, CallerGoes
  <2>5. deadline' \in [Callers -> {"none", "ahead", "passed"}]
    BY <1>7, <1>11
  <2> QED
    BY <1>3, <1>7, <2>1, <2>2, <2>4, <2>5
<1>12. i = caller[c].vol
  BY <1>1, <1>4
<1> QED
  BY <1>9, <1>10, <1>11, <1>12 DEF ClaimLoop

\* Back from blockOn: a caller that runs is on no queue.
LEMMA CallerLeft ==
    ASSUME NEW v, NEW cl, NEW sv, NEW w, NEW n, NEW a, Core(v, cl, sv, w, n, a),
           NEW c \in Callers, Ready(w, c)
    PROVE  /\ Core(v, cl, sv, Leave(w, c), n, a) /\ Clean(Leave(w, c), c)
           /\ OffRoom(w, Leave(w, c), c)
<1>1. PICK y, Q : y = Leave(w, c) /\ Q = QueuesFor(cl, sv)
  OBVIOUS
<1>2. WaitOK(y, Q) /\ Clean(y, c) /\ Wakes(w, y) /\ TakenOff(w, y, c)
  BY <1>1, Leaving, Basics DEF Core
<1>3. Core(v, cl, sv, y, n, a)
  BY <1>1, <1>2, CoreWakes
<1>4. OffRoom(w, y, c)
  BY <1>2, RoomLeft DEF OffRoom, Clean
<1> QED
  BY <1>1, <1>2, <1>3, <1>4

\* A caller off the queue for room is not missed, if it was not woken for a slot.
LEMMA RoomNotMissed ==
    ASSUME NEW v, NEW w, NEW ls, RoomOK(v, w, ls), NEW c \in Callers, NEW y, OffRoom(w, y, c),
           \A j \in Volumes : Room(j) \in w.woken[c] => j \in ls \/ FreeIn(v, j) = {}
    PROVE  RoomOK(v, y, ls)
<1> SUFFICES ASSUME NEW j \in Volumes, v[j].live, j \notin ls, FreeIn(v, j) # {}
             PROVE  RoomAt(y, j, Cardinality(FreeIn(v, j)))
  BY RoomNone, FS_EmptySet DEF RoomOK
<1>1. RoomAt(w, j, Cardinality(FreeIn(v, j))) /\ Cardinality(FreeIn(v, j)) \in Nat
  BY FreeCount DEF RoomOK
<1>2. c \notin WokenFor(w, j)
  BY DEF WokenFor
<1>3. WokenFor(y, j) = WokenFor(w, j) /\ Claimers(y, j) \subseteq Claimers(w, j)
  BY <1>2 DEF OffRoom
<1> QED
  BY <1>1, <1>3, RoomKept

LEMMA ClaimKeeps ==
    ASSUME IInv, NEW c \in Callers, Claim(c)
    PROVE  IInv'
<1>1. PICK e : e = ev
  OBVIOUS
<1>2. Core(vol, caller, server, ev.wait, ev.count, attached) /\ caller[c].at = "entered"
  BY DEF IInv, Claim
<1>3. Clean(e.wait, c)
  <2>1. caller[c].at \notin {"room", "running"}
    BY <1>2
  <2> QED
    BY <1>1, <1>2, <2>1, CallerIsClean
<1>4. OffRoom(ev.wait, e.wait, c)
  <2>1. \A j \in Volumes : c \notin Claimers(ev.wait, j) /\ c \notin WokenFor(ev.wait, j)
    BY <1>1, <1>3, Names DEF Clean, Claimers, WokenFor
  <2> QED
    BY <1>1, <2>1 DEF OffRoom
<1>5. ClaimLoop(c, e)
  BY <1>1 DEF Claim
<1> QED
  BY <1>1, <1>2, <1>3, <1>4, <1>5, ClaimLoopKeeps DEF Claim

LEMMA ClaimAgainKeeps ==
    ASSUME IInv, NEW c \in Callers, ClaimAgain(c)
    PROVE  IInv'
<1>1. PICK e : e = Left(c)
  OBVIOUS
<1>2. e.wait = Leave(ev.wait, c) /\ e.count = ev.count
  BY <1>1 DEF Left, Waits
<1>3. /\ Core(vol, caller, server, ev.wait, ev.count, attached) /\ caller[c].at = "room"
      /\ Ready(ev.wait, c)
  BY DEF IInv, ClaimAgain
<1>4. /\ Core(vol, caller, server, e.wait, ev.count, attached) /\ Clean(e.wait, c)
      /\ OffRoom(ev.wait, e.wait, c)
  BY <1>2, <1>3, CallerLeft
<1>5. CASE Fired(ev.wait, c, killed) /\ ClaimLoop(c, Left(c))
  <2>1. ClaimLoop(c, e)
    BY <1>1, <1>5
  <2> QED
    BY <1>2, <1>3, <1>4, <2>1, ClaimLoopKeeps DEF ClaimAgain
<1>6. CASE /\ ~Fired(ev.wait, c, killed)
           /\ ev' = Left(c)
           /\ deadline' = [deadline EXCEPT ![c] = "none"]
           /\ Moves(c, "leaving")
           /\ lostRoom' = IF Room(caller[c].vol) \in ev.wait.woken[c]
                                 /\ FreeSlots(caller[c].vol) # {}
                           THEN lostRoom \cup {caller[c].vol} ELSE lostRoom
           /\ UNCHANGED <<vol, server>>
  <2>1. PICK cl, cx : cl = caller /\ cx = caller'
    OBVIOUS
  <2>2. CallersTyped(cl) /\ PlacesOK(cl)
    BY <1>3, <2>1 DEF Core
  <2>3. cl[c].slot = None /\ cl[c].at # "outside"
    BY <1>3, <2>1, <2>2 DEF PlacesOK
  <2>4. Moved(cl, cx, c, "leaving", cl[c].vol, cl[c].slot)
    BY <1>6, <2>1, <2>2, Moves1 DEF Moves, CallerPlaces
  <2>5. Core(vol, cx, server, e.wait, ev.count, attached)
    BY <1>4, <2>1, <2>3, <2>4, CallerGoes
  <2>6. \A j \in Volumes : Room(j) \in ev.wait.woken[c] => j = cl[c].vol
    <3>1. ev.wait.woken[c] \subseteq {Room(cl[c].vol)}
      BY <1>3, <2>1, Basics, QueuesForCaller DEF Core, WaitOK
    <3> QED
      BY <3>1, Names
  <2>7. RoomOK(vol, e.wait, lostRoom') /\ lostRoom' \subseteq Volumes
    <3>1. PICK v, w, ls : v = vol /\ w = ev.wait /\ ls = lostRoom'
      OBVIOUS
    <3>2. \A j \in Volumes : Room(j) \in w.woken[c] => j \in ls \/ FreeIn(v, j) = {}
      BY <1>6, <2>1, <2>6, <3>1 DEF FreeSlots, FreeIn
    <3>3. RoomOK(v, w, ls)
      BY <1>6, <3>1 DEF IInv, RoomOK
    <3>4. cl[c].vol \in Volumes
      BY <2>2, <2>3 DEF PlacesOK, CallersTyped, CallerRecords
    <3>5. ls \subseteq Volumes
      BY <1>6, <2>1, <3>1, <3>4 DEF IInv
    <3> QED
      BY <1>4, <3>1, <3>2, <3>3, <3>5, RoomNotMissed
  <2>8. deadline' \in [Callers -> {"none", "ahead", "passed"}]
    BY <1>6 DEF IInv
  <2>9. ev'.wait = e.wait /\ ev'.count = ev.count /\ vol' = vol /\ server' = server
    BY <1>1, <1>2, <1>6
  <2>10. /\ held' = held /\ scans' = scans /\ unwrapped' = unwrapped /\ killed' = killed
         /\ attached' = attached
    BY DEF ClaimAgain
  <2> QED
    BY <2>1, <2>5, <2>7, <2>8, <2>9, <2>10 DEF IInv
<1> QED
  BY <1>5, <1>6 DEF ClaimAgain

-----------------------------------------------------------------------------
(* Requests, on the caller's side. *)

\* A volume has one server.
LEMMA OneServer ==
    ASSUME NEW v, NEW sv, OwnersOK(v, sv), NEW p \in Servers, NEW q \in Servers,
           sv[p].at \in Serving, sv[q].at \in Serving, sv[p].vol = sv[q].vol
    PROVE  p = q
BY DEF OwnersOK

\* m is n with another count on the doorbell of volume i.
Counted(n, m, i) ==
    m \in [Bells -> 0..MaxCount] /\ \A b \in Bells : b # Doorbell(i) => m[b] = n[b]

\* The doorbell is up and its server runs.
LEMMA Rings ==
    ASSUME NEW v, NEW cl, NEW sv, NEW w, NEW n, NEW a, Core(v, cl, sv, w, n, a),
           NEW i \in Volumes, NEW ls, RoomOK(v, w, ls),
           NEW m, Counted(n, m, i), m[Doorbell(i)] # 0,
           NEW x, x = WakeOne(w, Doorbell(i))
    PROVE  Core(v, cl, sv, x, m, a) /\ RoomOK(v, x, ls)
<1>1. /\ CallersTyped(cl) /\ ServersTyped(sv) /\ PlacesOK(cl) /\ OwnersOK(v, sv)
      /\ WaitOK(w, QueuesFor(cl, sv)) /\ SleepOK(v, w, n, cl, sv) /\ n \in [Bells -> 0..MaxCount]
  BY DEF Core
<1>2. Doorbell(i) \in Bells /\ Doorbell(i) \in Queues
  BY Names
<1>3. PICK Q : Q = QueuesFor(cl, sv)
  OBVIOUS
<1>4. WaitOK(x, Q) /\ Wakes(w, x) /\ WokeOne(w, x, Q, Doorbell(i))
  BY <1>1, <1>2, <1>3, WakingOne
<1>5. /\ m \in [Bells -> 0..MaxCount] /\ m[Doorbell(i)] # 0
      /\ \A b \in Bells : b # Doorbell(i) => m[b] = n[b]
  BY DEF Counted
<1>6. SleepOK(v, x, m, cl, sv)
  <2>1. ASSUME NEW p \in Servers, sv[p].at \in Listening
        PROVE  /\ ~Ready(x, p) => m[Doorbell(sv[p].vol)] = 0
               /\ m[Doorbell(sv[p].vol)] = 0 =>
                     \A k \in Slots : v[sv[p].vol].slots[k].state # "offered"
    <3>1. sv[p].vol \in Volumes
      BY <1>1, <2>1 DEF OwnersOK, ServersTyped, ServerRecords, Listening
    <3>2. /\ ~Ready(w, p) => n[Doorbell(sv[p].vol)] = 0
          /\ n[Doorbell(sv[p].vol)] = 0 =>
                     \A k \in Slots : v[sv[p].vol].slots[k].state # "offered"
      BY <1>1, <2>1 DEF SleepOK
    <3>3. Ready(w, p) => Ready(x, p)
      BY <1>4, Basics DEF Wakes
    <3>4. CASE sv[p].vol # i
      <4>1. m[Doorbell(sv[p].vol)] = n[Doorbell(sv[p].vol)]
        BY <1>5, <3>1, <3>4, Names
      <4> QED
        BY <3>2, <3>3, <4>1
    <3>5. CASE sv[p].vol = i
      <4>1. Ready(x, p)
        <5>1. SUFFICES ASSUME ~Ready(w, p) PROVE Ready(x, p)
          BY <3>3
        <5>2. Queued(w, Doorbell(i), p)
          BY <1>1, <3>5, <5>1, WhoWaits
        <5>3. PICK t \in Threads : Queued(w, Doorbell(i), t) /\ Ready(x, t)
          BY <1>4, <5>2 DEF WokeOne
        <5>4. t \in Servers /\ sv[t].at = "waiting" /\ sv[t].vol = i
          BY <1>1, <5>3, WhoWaits, Basics
        <5>5. t = p
          BY <1>1, <2>1, <3>5, <5>4, OneServer DEF Serving, Listening
        <5> QED
          BY <5>3, <5>5
      <4> QED
        BY <1>5, <3>5, <4>1
    <3> QED
      BY <3>4, <3>5
  <2>2. \A c \in Callers : Ready(w, c) => Ready(x, c)
    BY <1>4, Basics DEF Wakes
  <2> QED
    BY <1>1, <2>1, <2>2 DEF SleepOK
<1>7. Core(v, cl, sv, x, m, a)
  BY <1>3, <1>4, <1>5, <1>6 DEF Core
<1>8. \A j \in Volumes : Claimers(x, j) = Claimers(w, j) /\ WokenFor(x, j) = WokenFor(w, j)
  <2> TAKE j \in Volumes
  <2>1. Doorbell(i) # Room(j)
    BY Names
  <2> QED
    BY <1>1, <1>3, <1>4, <2>1, RoomWokenElsewhere
<1>9. RoomOK(v, x, ls)
  BY <1>8 DEF RoomOK, RoomAt
<1> QED
  BY <1>5, <1>7, <1>9

\* The loop of run, the caller on no queue and its slot in state `now`.
LEMMA RunLoopKeeps ==
    ASSUME NEW c \in Callers, NEW x, NEW cl, NEW sv, NEW a, NEW e,
           Core(x, cl, sv, e.wait, e.count, a), Clean(e.wait, c), cl[c].slot # None,
           cl[c].vol = caller[c].vol, cl[c].slot = caller[c].slot, CallersTyped(caller),
           \A d \in Callers : d # c => cl[d] = caller[d],
           x[cl[c].vol].live <=> ~Gone(c),
           NEW now, x[cl[c].vol].slots[cl[c].slot].state = now, now # "claimed",
           RoomOK(x, e.wait, lostRoom), deadline \in [Callers -> {"none", "ahead", "passed"}],
           NEW d, RunLoop(c, e, now, d)
    PROVE  /\ Core(x, caller', sv, ev'.wait, ev'.count, a) /\ RoomOK(x, ev'.wait, lostRoom)
           /\ deadline' \in [Callers -> {"none", "ahead", "passed"}]
<1>1. PICK y, n, i, k, cx, ls :
          /\ y = e.wait /\ n = e.count /\ i = cl[c].vol /\ k = cl[c].slot /\ cx = caller' /\ ls = lostRoom
  OBVIOUS
<1>2. Core(x, cl, sv, y, n, a) /\ Clean(y, c) /\ RoomOK(x, y, ls)
  BY <1>1
<1>3. CallersTyped(cl) /\ PlacesOK(cl)
  BY <1>2 DEF Core
<1>4. cl[c].at # "outside" /\ i \in Volumes /\ k \in Slots
  BY <1>1, <1>3 DEF PlacesOK, CallersTyped, CallerRecords
<1>5. ASSUME NEW at \in CallerPlaces, Moves(c, at)
      PROVE  Moved(cl, cx, c, at, cl[c].vol, cl[c].slot)
  <2>1. PICK cw : cw = caller
    OBVIOUS
  <2>2. Moved(cw, cx, c, at, cw[c].vol, cw[c].slot)
    BY <1>1, <1>5, <2>1, Moves1 DEF Moves
  <2> QED
    BY <2>1, <2>2 DEF Moved
<1>6. ASSUME NEW at \in {"answered", "failed"}, Moves(c, at), ev' = e,
             deadline' = [deadline EXCEPT ![c] = "none"]
      PROVE  /\ Core(x, cx, sv, ev'.wait, ev'.count, a) /\ RoomOK(x, ev'.wait, ls)
             /\ deadline' \in [Callers -> {"none", "ahead", "passed"}]
  <2>1. Moved(cl, cx, c, at, cl[c].vol, cl[c].slot)
    BY <1>5, <1>6 DEF CallerPlaces
  <2>2. Core(x, cx, sv, y, n, a)
    BY <1>2, <1>4, <2>1, CallerGoes
  <2>3. ev'.wait = y /\ ev'.count = n
    BY <1>1, <1>6
  <2>4. deadline' \in [Callers -> {"none", "ahead", "passed"}]
    BY <1>6
  <2> QED
    BY <1>2, <2>2, <2>3, <2>4
<1>7. CASE /\ now = "done" /\ ev' = e /\ deadline' = [deadline EXCEPT ![c] = "none"]
           /\ Moves(c, IF SlotOf(c).answer = "gone" THEN "failed" ELSE "answered")
  BY <1>1, <1>6, <1>7
<1>8. CASE /\ now # "done" /\ Gone(c) /\ ev' = e /\ deadline' = [deadline EXCEPT ![c] = "none"]
           /\ Moves(c, "failed")
  BY <1>1, <1>6, <1>8
<1>9. CASE now # "done" /\ ~Gone(c) /\ Sleeps(c, e, SlotQueue(caller[c].vol, caller[c].slot), d, "running")
  <2>1. CASE /\ c \notin killed /\ d = "ahead"
             /\ ev' = BlockOn(e, c, {SlotQueue(caller[c].vol, caller[c].slot)}, TRUE)
             /\ deadline' = [deadline EXCEPT ![c] = d] /\ Moves(c, "running")
    <3>1. PICK q, z : q = SlotQueue(i, k) /\ z = Block(y, c, {q}, TRUE)
      OBVIOUS
    <3>2. ev'.wait = z /\ ev'.count = n
      BY <1>1, <2>1, <3>1 DEF BlockOn
    <3>3. Moved(cl, cx, c, "running", cl[c].vol, cl[c].slot)
      BY <1>5, <2>1 DEF CallerPlaces
    <3>4. x[cl[c].vol].live /\ x[cl[c].vol].slots[cl[c].slot].state \notin {"claimed", "done"}
      BY <1>9
    <3>5. Core(x, cx, sv, z, n, a) /\ Asleep(y, z, c, q)
      BY <1>1, <1>2, <1>4, <3>1, <3>3, <3>4, CallerSleeps, ZenonT(60)
    <3>6. \A j \in Volumes : Claimers(z, j) = Claimers(y, j) /\ WokenFor(z, j) = WokenFor(y, j)
      <4> TAKE j \in Volumes
      <4>1. q # Room(j)
        BY <3>1, Names
      <4> QED
        BY <3>5, <4>1, RoomAsleep
    <3>7. RoomOK(x, z, ls)
      BY <1>2, <3>6 DEF RoomOK, RoomAt
    <3>8. deadline' \in [Callers -> {"none", "ahead", "passed"}]
      BY <2>1
    <3> QED
      BY <1>1, <3>2, <3>5, <3>7, <3>8
  <2>2. CASE /\ ev' = e /\ deadline' = [deadline EXCEPT ![c] = "none"] /\ Moves(c, "failed")
    BY <1>1, <1>6, <2>2
  <2> QED
    BY <1>9, <2>1, <2>2 DEF Sleeps
<1> QED
  BY <1>7, <1>8, <1>9 DEF RunLoop

LEMMA RunAgainKeeps ==
    ASSUME IInv, NEW c \in Callers, RunAgain(c)
    PROVE  IInv'
<1>1. PICK e, x, cl, sv, a : e = Left(c) /\ x = vol /\ cl = caller /\ sv = server /\ a = attached
  OBVIOUS
<1>2. e.wait = Leave(ev.wait, c) /\ e.count = ev.count
  BY <1>1 DEF Left, Waits
<1>3. Core(x, cl, sv, ev.wait, ev.count, a) /\ caller[c].at = "running" /\ Ready(ev.wait, c)
  BY <1>1 DEF IInv, RunAgain
<1>4. Core(x, cl, sv, e.wait, e.count, a) /\ Clean(e.wait, c) /\ OffRoom(ev.wait, e.wait, c)
  BY <1>2, <1>3, CallerLeft
<1>5. /\ CallersTyped(cl) /\ ServersTyped(sv) /\ PlacesOK(cl) /\ SlotsOK(x, cl)
      /\ WaitOK(ev.wait, QueuesFor(cl, sv))
  BY <1>3 DEF Core
<1>6. cl[c].slot # None /\ cl[c].at # "outside" /\ x[cl[c].vol].slots[cl[c].slot].state # "claimed"
  BY <1>1, <1>3, <1>5 DEF PlacesOK, SlotsOK
<1>7. \A j \in Volumes : Room(j) \notin ev.wait.woken[c]
  <2>1. cl[c].at # "room"
    BY <1>1, <1>3
  <2> QED
    BY <1>5, <2>1, WhoWaits
<1>8. RoomOK(x, e.wait, lostRoom)
  BY <1>1, <1>4, <1>7, RoomNotMissed DEF IInv
<1>9. deadline \in [Callers -> {"none", "ahead", "passed"}]
  BY DEF IInv
<1>10. /\ vol' = x /\ held' = held /\ scans' = scans /\ unwrapped' = unwrapped /\ server' = sv
       /\ killed' = killed /\ lostRoom' = lostRoom /\ attached' = a
  BY <1>1 DEF RunAgain
<1>11. /\ Core(x, caller', sv, ev'.wait, ev'.count, a) /\ RoomOK(x, ev'.wait, lostRoom)
       /\ deadline' \in [Callers -> {"none", "ahead", "passed"}]
  <2>1. CASE RunLoop(c, Left(c), SlotOf(c).state, deadline[c])
    <3>1. PICK now, d : now = SlotOf(c).state /\ d = deadline[c]
      OBVIOUS
    <3>2. RunLoop(c, e, now, d)
      BY <1>1, <2>1, <3>1
    <3>3. x[cl[c].vol].slots[cl[c].slot].state = now
      BY <1>1, <3>1 DEF SlotOf
    <3>4. x[cl[c].vol].live <=> ~Gone(c)
      BY <1>1 DEF Gone
    <3> QED
      BY <1>1, <1>4, <1>5, <1>6, <1>8, <1>9, <3>2, <3>3, <3>4, RunLoopKeeps
  <2>2. CASE /\ ev' = Left(c) /\ deadline' = [deadline EXCEPT ![c] = "none"] /\ Moves(c, "failed")
    <3>1. PICK cx : cx = caller'
      OBVIOUS
    <3>2. Moved(cl, cx, c, "failed", cl[c].vol, cl[c].slot)
      BY <1>1, <1>5, <2>2, <3>1, Moves1 DEF Moves, CallerPlaces
    <3>3. Core(x, cx, sv, e.wait, e.count, a)
      BY <1>4, <1>6, <3>2, CallerGoes
    <3>4. ev'.wait = e.wait /\ ev'.count = e.count
      BY <1>1, <2>2
    <3>5. deadline' \in [Callers -> {"none", "ahead", "passed"}]
      BY <1>9, <2>2
    <3> QED
      BY <1>8, <3>1, <3>3, <3>4, <3>5
  <2> QED
    BY <2>1, <2>2 DEF RunAgain
<1> QED
  BY <1>1, <1>10, <1>11 DEF IInv

LEMMA RunKeeps ==
    ASSUME IInv, NEW c \in Callers, Run(c)
    PROVE  IInv'
<1>1. PICK v, cl, sv, w, n, a, ls : /\ v = vol /\ cl = caller /\ sv = server /\ ls = lostRoom
                                    /\ w = ev.wait /\ n = ev.count /\ a = attached
  OBVIOUS
<1>2. PICK i, k, x : i = cl[c].vol /\ k = cl[c].slot /\ x = vol'
  OBVIOUS
<1>3. PICK e, m, y : e = Rung(ev, i) /\ m = e.count /\ y = e.wait
  OBVIOUS
<1>4. /\ Core(v, cl, sv, w, n, a) /\ RoomOK(v, w, ls) /\ cl[c].at = "claimed"
      /\ AreasOK(v, held) /\ ScansOK(v, sv, scans, unwrapped, a)
  BY <1>1 DEF IInv, Run
<1>5. /\ VolumesTyped(v) /\ CallersTyped(cl) /\ PlacesOK(cl) /\ SlotsOK(v, cl) /\ ServersTyped(sv)
      /\ OwnersOK(v, sv) /\ TagsOK(v, sv, a)
  BY <1>4 DEF Core
<1>6. i \in Volumes /\ k \in Slots /\ cl[c].slot # None /\ cl[c].at # "outside"
  BY <1>2, <1>4, <1>5 DEF PlacesOK, CallersTyped, CallerRecords
<1>7. PICK cm : cm = [cl EXCEPT ![c].at = "failed"]
  OBVIOUS
<1>8. Moved(cl, cm, c, "failed", i, k)
  BY <1>2, <1>5, <1>7, Moves1 DEF CallerPlaces
<1>9. Core(v, cm, sv, w, n, a)
  <2>1. Clean(w, c)
    BY <1>4, CallerIsClean
  <2> QED
    BY <1>2, <1>4, <1>6, <1>8, <2>1, CallerGoes
<1>10. Core(v, cm, sv, y, m, a) /\ RoomOK(v, y, ls) /\ m[Doorbell(i)] # 0
  <2>1. PICK z : z = IF n[Doorbell(i)] = MaxCount THEN n[Doorbell(i)] ELSE n[Doorbell(i)] + 1
    OBVIOUS
  <2>2. m = [n EXCEPT ![Doorbell(i)] = z] /\ y = WakeOne(w, Doorbell(i))
    BY <1>1, <1>3, <2>1 DEF Rung, SignalLocked
  <2>3. z \in 0..MaxCount /\ z # 0
    <3>1. n[Doorbell(i)] \in 0..MaxCount /\ MaxCount \in Nat \ {0}
      BY <1>4, <1>6, Names, MaxCountAssumption DEF Core
    <3> QED
      BY <2>1, <3>1
  <2>4. Counted(n, m, i) /\ m[Doorbell(i)] # 0
    BY <1>4, <1>6, <2>2, <2>3, Names DEF Core, Counted
  <2> QED
    BY <1>4, <1>6, <1>9, <2>2, <2>4, Rings
<1>11. x = [v EXCEPT ![i].slots[k].state = "offered"]
  BY <1>1, <1>2 DEF Run, InState
<1>12. PICK s \in SlotRecords : /\ s.state = "offered" /\ s.generation = v[i].slots[k].generation
                                /\ s.answer = v[i].slots[k].answer /\ Turned(v, x, i, k, s)
  <2>1. "offered" \in SlotStates
    BY DEF SlotStates
  <2> QED
    BY <1>5, <1>6, <1>11, <2>1, TurnsState, ZenonT(60)
<1>13. /\ v[i].slots[k].state # "free"
       /\ v[i].live => v[i].slots[k].state = "claimed"
  BY <1>2, <1>4, <1>5, <1>6 DEF SlotsOK
<1>14. Core(x, cm, sv, y, m, a)
  <2>1. FitsCallers(s, cm, i, k, v[i].live)
    <3> SUFFICES ASSUME NEW d \in Callers, cm[d].vol = i, cm[d].slot = k
                 PROVE  Fits(s, cm[d].at, v[i].live)
      BY DEF FitsCallers
    <3>1. d = c
      BY <1>2, <1>5, <1>6, <1>8 DEF SlotsOK, Moved
    <3>2. cm[d].at = "failed"
      BY <1>8, <3>1, SMTT(60) DEF Moved
    <3> QED
      BY <1>12, <3>2 DEF Fits
  <2>2. a <= 1 => s.answer # "stale"
    BY <1>5, <1>6, <1>12 DEF TagsOK
  <2>3. ASSUME a <= 1, NEW p \in Servers, sv[p].at \in Serving, sv[p].vol = i
        PROVE  FitsTags(s, sv[p], k)
    <3>1. v[i].slots[k].state = "claimed"
      BY <1>5, <1>13, <2>3 DEF OwnersOK
    <3>2. ~(sv[p].at = "carrying" /\ sv[p].hand.slot = k)
      BY <1>5, <2>3, <3>1, SMTT(60) DEF TagsOK
    <3>3. sv[p].last # NoRequest /\ sv[p].last.slot = k =>
             /\ sv[p].last.generation <= v[i].slots[k].generation
             /\ sv[p].last.generation # v[i].slots[k].generation
      BY <1>5, <2>3, <3>1 DEF TagsOK
    <3> QED
      BY <1>12, <3>2, <3>3 DEF FitsTags
  <2>4. s.state # "done"
    BY <1>12
  <2> QED
    BY <1>6, <1>10, <1>12, <2>1, <2>2, <2>3, <2>4, CoreTurn
<1>15. Clean(y, c) /\ cm[c].slot # None /\ cm[c].vol = i /\ cm[c].slot = k
  <2>1. cm[c].at \notin {"room", "running"}
    BY <1>8 DEF Moved
  <2> QED
    BY <1>2, <1>6, <1>8, <1>10, <2>1, CallerIsClean DEF Moved
<1>16. SameHeads(v, x)
  BY <1>12 DEF Turned
<1>17. RoomOK(x, y, ls)
  <2>1. s.state # "free"
    BY <1>12
  <2>2. \A j \in Volumes : FreeIn(x, j) = FreeIn(v, j)
    <3>1. FreeIn(x, i) = FreeIn(v, i) /\ \A j \in Volumes : j # i => FreeIn(x, j) = FreeIn(v, j)
      BY <1>6, <1>12, <1>13, <2>1, FreeTurn
    <3> QED
      BY <3>1
  <2> QED
    BY <1>10, <1>16, <2>2 DEF RoomOK, SameHeads
<1>18. /\ Core(x, caller', sv, ev'.wait, ev'.count, a) /\ RoomOK(x, ev'.wait, lostRoom)
       /\ deadline' \in [Callers -> {"none", "ahead", "passed"}]
  <2>1. PICK now, d : now = "offered" /\ d = "ahead"
    OBVIOUS
  <2>2. RunLoop(c, e, now, d)
    BY <1>1, <1>2, <1>3, <2>1 DEF Run
  <2>3. x[cm[c].vol].slots[cm[c].slot].state = now
    BY <1>12, <1>15, <2>1 DEF Turned
  <2>4. x[cm[c].vol].live <=> ~Gone(c)
    BY <1>1, <1>2, <1>6, <1>15, <1>16 DEF Gone, SameHeads
  <2>5. Core(x, cm, sv, e.wait, e.count, a) /\ Clean(e.wait, c) /\ RoomOK(x, e.wait, lostRoom)
    BY <1>1, <1>3, <1>14, <1>15, <1>17
  <2>6. /\ cm[c].vol = caller[c].vol /\ cm[c].slot = caller[c].slot /\ CallersTyped(caller)
        /\ \A b \in Callers : b # c => cm[b] = caller[b]
    BY <1>1, <1>2, <1>5, <1>8 DEF Moved
  <2>7. deadline \in [Callers -> {"none", "ahead", "passed"}] /\ now # "claimed"
    BY <2>1 DEF IInv
  <2> QED
    BY <1>15, <2>2, <2>3, <2>4, <2>5, <2>6, <2>7, RunLoopKeeps
<1>19. AreasOK(x, held) /\ ScansOK(x, sv, scans, unwrapped, a)
  BY <1>4, <1>16, HeadsKeep
<1>20. /\ held' = held /\ scans' = scans /\ unwrapped' = unwrapped /\ server' = sv
       /\ killed' = killed /\ lostRoom' = lostRoom /\ attached' = a
  BY <1>1 DEF Run
<1>21. killed \subseteq Killable /\ lostRoom \subseteq Volumes
  BY DEF IInv
<1> QED
  BY <1>2, <1>18, <1>19, <1>20, <1>21 DEF IInv

\* A caller on no queue gives up its slot.
LEMMA CallerFrees ==
    ASSUME NEW v, NEW cl, NEW sv, NEW w, NEW n, NEW a, Core(v, cl, sv, w, n, a),
           NEW c \in Callers, cl[c].at # "outside", Clean(w, c), NEW at \in {"entered", "leaving"},
           NEW cx, Moved(cl, cx, c, at, cl[c].vol, None)
    PROVE  Core(v, cx, sv, w, n, a)
<1>1. /\ CallersTyped(cl) /\ CallersTyped(cx) /\ PlacesOK(cl) /\ SlotsOK(v, cl)
      /\ WaitOK(w, QueuesFor(cl, sv))
  BY DEF Core, Moved
<1>2. PlacesOK(cx)
  <2> SUFFICES ASSUME NEW d \in Callers
               PROVE  /\ cx[d].vol = None <=> cx[d].at = "outside"
                      /\ cx[d].slot = None <=> cx[d].at \notin HasOne
    BY DEF PlacesOK, HasOne
  <2>1. CASE d = c
    BY <1>1, <2>1 DEF Moved, PlacesOK, HasOne
  <2>2. CASE d # c
    BY <1>1, <2>2 DEF Moved, PlacesOK, HasOne
  <2> QED
    BY <2>1, <2>2
<1>3. UsersOK(v, cx)
  BY SameUsers DEF Core, UsersOK
<1>4. SlotsOK(v, cx)
  <2>1. \A d \in Callers : cx[d].slot # None => cx[d] = cl[d]
    BY DEF Moved
  <2> QED
    BY <1>1, <2>1 DEF SlotsOK
<1>5. WaitOK(w, QueuesFor(cx, sv))
  <2>1. PICK Q : Q = QueuesFor(cl, sv)
    OBVIOUS
  <2>2. PICK R : R = QueuesFor(cx, sv)
    OBVIOUS
  <2>3. ASSUME NEW t \in Threads, t # c PROVE R[t] = Q[t]
    <3>1. t \in Callers => cx[t] = cl[t]
      BY <2>3 DEF Moved
    <3>2. QueuesFor(cx, sv)[t] = QueuesFor(cl, sv)[t]
      BY <3>1, QueuesForOthers
    <3> QED
      BY <2>1, <2>2, <3>2
  <2> QED
    BY <1>1, <2>1, <2>2, <2>3, Moving, Basics
<1>6. SleepOK(v, w, n, cx, sv)
  <2>1. SleepOK(v, w, n, cl, sv) /\ Ready(w, c)
    BY DEF Core, Clean
  <2> QED
    BY <2>1 DEF SleepOK, Moved
<1> QED
  BY <1>1, <1>2, <1>3, <1>4, <1>5, <1>6 DEF Core

\* One more slot is free and one more caller is coming.
LEMMA RoomFreed ==
    ASSUME NEW v, NEW cl, NEW sv, NEW w, NEW n, NEW a, Core(v, cl, sv, w, n, a),
           NEW ls, RoomOK(v, w, ls), NEW i \in Volumes, NEW k \in Slots, NEW s,
           NEW x, Turned(v, x, i, k, s), s.state = "free", v[i].slots[k].state # "free",
           NEW y, y = WakeOne(w, Room(i))
    PROVE  Core(v, cl, sv, y, n, a) /\ RoomOK(x, y, ls)
<1>1. /\ CallersTyped(cl) /\ ServersTyped(sv) /\ PlacesOK(cl) /\ WaitOK(w, QueuesFor(cl, sv))
  BY DEF Core
<1>2. PICK Q : Q = QueuesFor(cl, sv)
  OBVIOUS
<1>3. Room(i) \in Queues
  BY Names
<1>4. WaitOK(y, Q) /\ Wakes(w, y) /\ WokeOne(w, y, Q, Room(i))
  BY <1>1, <1>2, <1>3, WakingOne
<1>5. Core(v, cl, sv, y, n, a)
  BY <1>2, <1>4, CoreWakes
<1>6. /\ \A j \in Volumes : j # i => FreeIn(x, j) = FreeIn(v, j)
      /\ Cardinality(FreeIn(x, i)) = Cardinality(FreeIn(v, i)) + 1
  BY FreeTurn
<1>7. ASSUME NEW j \in Volumes, x[j].live, j \notin ls
      PROVE  RoomAt(y, j, Cardinality(FreeIn(x, j)))
  <2>1. v[j].live
    BY <1>7 DEF Turned, SameHeads
  <2>2. RoomAt(w, j, Cardinality(FreeIn(v, j))) /\ Cardinality(FreeIn(v, j)) \in Nat
    BY <1>7, <2>1, FreeCount DEF RoomOK
  <2>3. CASE j = i
    BY <1>1, <1>2, <1>4, <1>6, <2>2, <2>3, RoomWoken
  <2>4. CASE j # i
    <3>1. Room(i) # Room(j)
      BY <2>4, Names
    <3>2. Claimers(y, j) = Claimers(w, j) /\ WokenFor(y, j) = WokenFor(w, j)
      BY <1>1, <1>2, <1>4, <3>1, RoomWokenElsewhere
    <3> QED
      BY <1>6, <2>2, <2>4, <3>2 DEF RoomAt
  <2> QED
    BY <2>3, <2>4
<1>8. RoomOK(x, y, ls)
  BY <1>7 DEF RoomOK
<1> QED
  BY <1>5, <1>8

LEMMA FreeSlotKeeps ==
    ASSUME IInv, NEW c \in Callers, NEW more \in BOOLEAN, FreeSlot(c, more)
    PROVE  IInv'
<1>1. PICK v, cl, sv, w, n, a, ls : /\ v = vol /\ cl = caller /\ sv = server /\ ls = lostRoom
                                    /\ w = ev.wait /\ n = ev.count /\ a = attached
  OBVIOUS
<1>2. PICK i, k, x, cx, y, at, now :
          /\ i = cl[c].vol /\ k = cl[c].slot /\ x = vol' /\ cx = caller' /\ y = ev'.wait
          /\ at = (IF more THEN "entered" ELSE "leaving")
          /\ now = GivenBack(v[i].slots[k].state)
  OBVIOUS
<1>3. /\ Core(v, cl, sv, w, n, a) /\ RoomOK(v, w, ls) /\ cl[c].at \in {"answered", "failed"}
      /\ AreasOK(v, held) /\ ScansOK(v, sv, scans, unwrapped, a)
  BY <1>1 DEF IInv, FreeSlot
<1>4. /\ VolumesTyped(v) /\ CallersTyped(cl) /\ PlacesOK(cl) /\ SlotsOK(v, cl) /\ TagsOK(v, sv, a)
  BY <1>3 DEF Core
<1>5. i \in Volumes /\ k \in Slots /\ cl[c].slot # None /\ cl[c].at # "outside"
  BY <1>2, <1>3, <1>4, SMTT(60) DEF PlacesOK, CallersTyped, CallerRecords
<1>6. /\ x = [v EXCEPT ![i].slots[k].state = now]
      /\ ev' = IF now = "free" THEN WakesOne(ev, Room(i)) ELSE ev
      /\ cx = [cl EXCEPT ![c].at = at, ![c].slot = None]
  BY <1>1, <1>2, Zenon DEF FreeSlot, InState, SlotOf
<1>7. at \in {"entered", "leaving"}
  BY <1>2
<1>8. Moved(cl, cx, c, at, cl[c].vol, None)
  BY <1>4, <1>6, <1>7, Moves2 DEF CallerPlaces
<1>9. Core(v, cx, sv, w, n, a)
  <2>1. Clean(w, c)
    BY <1>3, CallerIsClean
  <2> QED
    BY <1>3, <1>5, <1>7, <1>8, <2>1, CallerFrees
<1>10. now \in {"free", "abandoned"} /\ (now = "abandoned" <=> v[i].slots[k].state = "taken")
  BY <1>2 DEF GivenBack
<1>11. PICK s \in SlotRecords : /\ s.state = now /\ s.generation = v[i].slots[k].generation
                                /\ s.answer = v[i].slots[k].answer /\ Turned(v, x, i, k, s)
  <2>1. x = [v EXCEPT ![i].slots[k].state = now]
    BY <1>6
  <2>2. now \in SlotStates
    BY <1>10 DEF SlotStates
  <2> QED
    BY <1>4, <1>5, <2>1, <2>2, TurnsState, ZenonT(60)
<1>12. v[i].slots[k].state \notin {"free", "abandoned"}
  BY <1>2, <1>4, <1>5, Zenon DEF SlotsOK
<1>13. FitsCallers(s, cx, i, k, v[i].live)
  <2>1. \A d \in Callers : ~(cx[d].vol = i /\ cx[d].slot = k)
    <3> TAKE d \in Callers
    <3>1. CASE d = c
      BY <1>5, <1>8, <3>1, Basics DEF Moved
    <3>2. CASE d # c
      <4>1. cx[d] = cl[d]
        BY <1>8, <3>2 DEF Moved
      <4> QED
        BY <1>2, <1>4, <1>5, <3>2, <4>1, Basics, ZenonT(60) DEF SlotsOK
    <3> QED
      BY <3>1, <3>2
  <2> QED
    BY <2>1 DEF FitsCallers
<1>14. a <= 1 => s.answer # "stale"
  BY <1>4, <1>5, <1>11 DEF TagsOK
<1>15. ASSUME a <= 1, NEW p \in Servers, sv[p].at \in Serving, sv[p].vol = i
       PROVE  FitsTags(s, sv[p], k)
  <2>1. sv[p].at = "carrying" /\ sv[p].hand.slot = k =>
            /\ v[i].slots[k].generation = sv[p].hand.generation
            /\ v[i].slots[k].state \in {"taken", "abandoned"}
    BY <1>4, <1>15, SMTT(60) DEF TagsOK
  <2>2. sv[p].last # NoRequest /\ sv[p].last.slot = k =>
            /\ sv[p].last.generation <= v[i].slots[k].generation
            /\ sv[p].last.generation = v[i].slots[k].generation =>
                  v[i].slots[k].state \in {"free", "done"}
    BY <1>4, <1>15 DEF TagsOK
  <2> QED
    BY <1>10, <1>11, <1>12, <2>1, <2>2, SMTT(60) DEF FitsTags
<1>16. s.state # "done" /\ s.state # "offered"
  BY <1>10, <1>11
<1>17. SameHeads(v, x)
  BY <1>11 DEF Turned
<1>18. Core(v, cx, sv, y, n, a) /\ RoomOK(x, y, ls) /\ ev'.count = n
  <2>1. CASE now = "free"
    <3>1. y = WakeOne(w, Room(i)) /\ ev'.count = n
      BY <1>1, <1>2, <1>6, <2>1 DEF WakesOne, Waits
    <3>2. s.state = "free" /\ v[i].slots[k].state # "free"
      BY <1>11, <1>12, <2>1
    <3> QED
      BY <1>3, <1>5, <1>9, <1>11, <3>1, <3>2, RoomFreed
  <2>2. CASE now # "free"
    <3>1. y = w /\ ev'.count = n
      BY <1>1, <1>2, <1>6, <2>2, Zenon
    <3>2. s.state # "free" /\ v[i].slots[k].state # "free"
      BY <1>11, <1>12, <2>2
    <3>3. FreeIn(x, i) = FreeIn(v, i) /\ \A j \in Volumes : j # i => FreeIn(x, j) = FreeIn(v, j)
      BY <1>5, <1>11, <3>2, FreeTurn
    <3>4. \A j \in Volumes : FreeIn(x, j) = FreeIn(v, j)
      BY <3>3
    <3>5. RoomOK(x, w, ls)
      BY <1>3, <1>17, <3>4 DEF RoomOK, SameHeads
    <3> QED
      BY <1>9, <3>1, <3>5, SMTT(60)
  <2> QED
    BY <2>1, <2>2
<1>19. Core(x, cx, sv, y, n, a)
  BY <1>5, <1>11, <1>13, <1>14, <1>15, <1>16, <1>18, CoreTurn
<1>20. AreasOK(x, held) /\ ScansOK(x, sv, scans, unwrapped, a)
  BY <1>3, <1>17, HeadsKeep
<1>21. /\ held' = held /\ scans' = scans /\ unwrapped' = unwrapped /\ server' = sv
       /\ killed' = killed /\ lostRoom' = ls /\ attached' = a /\ deadline' = deadline
  BY <1>1 DEF FreeSlot
<1>22. killed \subseteq Killable /\ ls \subseteq Volumes /\ deadline \in [Callers -> {"none", "ahead", "passed"}]
  BY <1>1 DEF IInv
<1> QED
  BY <1>2, <1>18, <1>19, <1>20, <1>21, <1>22 DEF IInv

-----------------------------------------------------------------------------
(* The server's requests. *)

\* A tag that a server with r may answer late, on volume record u.
LateFits(r, u) ==
    r.last # NoRequest =>
        /\ r.last.generation <= u.slots[r.last.slot].generation
        /\ r.last.generation = u.slots[r.last.slot].generation =>
              u.slots[r.last.slot].state \in {"free", "done"}

HandFits(r, u) ==
    /\ u.slots[r.hand.slot].generation = r.hand.generation
    /\ u.slots[r.hand.slot].state \in {"taken", "abandoned"}

\* sx is sv with server p changed.
ServerMoved(sv, sx, p) ==
    ServersTyped(sx) /\ \A q \in Servers : q # p => sx[q] = sv[q]

\* A server on no queue serves or carries, or is idle with nothing offered.
LEMMA ServerGoes ==
    ASSUME NEW v, NEW cl, NEW sv, NEW w, NEW n, NEW a, Core(v, cl, sv, w, n, a),
           NEW p \in Servers, sv[p].at \in Serving, Clean(w, p),
           NEW sx, ServerMoved(sv, sx, p), sx[p].vol = sv[p].vol,
           sx[p].at \in {"serving", "carrying", "idle"},
           sx[p].at = "idle" => \A k \in Slots : v[sv[p].vol].slots[k].state # "offered",
           sx[p].at = "carrying" =>
               sx[p].hand # NoRequest /\ sx[p].hand.data = v[sv[p].vol].data,
           a <= 1 => LateFits(sx[p], v[sv[p].vol]),
           a <= 1 /\ sx[p].at = "carrying" => HandFits(sx[p], v[sv[p].vol]),
           a = 0 => sx[p].last = NoRequest
    PROVE  Core(v, cl, sx, w, n, a)
<1>1. /\ ServersTyped(sv) /\ OwnersOK(v, sv) /\ TagsOK(v, sv, a) /\ WaitOK(w, QueuesFor(cl, sv))
      /\ SleepOK(v, w, n, cl, sv)
  BY DEF Core
<1>2. ServersTyped(sx) /\ \A q \in Servers : q # p => sx[q] = sv[q]
  BY DEF ServerMoved
<1>3. OwnersOK(v, sx)
  <2> SUFFICES ASSUME NEW q \in Servers
               PROVE  /\ sx[q].vol = None <=> sx[q].at = "off"
                      /\ sx[q].at = "picked" => ~v[sx[q].vol].live /\ v[sx[q].vol].users = 0
                      /\ sx[q].at \in Serving => v[sx[q].vol].live /\ v[sx[q].vol].server = q
                      /\ sx[q].at = "carrying" =>
                            sx[q].hand # NoRequest /\ sx[q].hand.data = v[sx[q].vol].data
    BY DEF OwnersOK
  <2>1. CASE q = p
    BY <1>1, <2>1 DEF OwnersOK, Serving
  <2>2. CASE q # p
    BY <1>1, <1>2, <2>2 DEF OwnersOK
  <2> QED
    BY <2>1, <2>2
<1>4. TagsOK(v, sx, a)
  <2> SUFFICES ASSUME a <= 1, NEW q \in Servers
               PROVE  /\ a = 0 \/ sx[q].at = "picked" => sx[q].last = NoRequest
                      /\ sx[q].at = "carrying" => HandFits(sx[q], v[sx[q].vol])
                      /\ sx[q].at \in Serving => LateFits(sx[q], v[sx[q].vol])
    BY <1>1, ZenonT(60) DEF TagsOK, HandFits, LateFits
  <2>1. CASE q = p
    BY <2>1
  <2>2. CASE q # p
    BY <1>1, <1>2, <2>2, ZenonT(60) DEF TagsOK, HandFits, LateFits
  <2> QED
    BY <2>1, <2>2, SMTT(60)
<1>5. WaitOK(w, QueuesFor(cl, sx))
  <2>1. PICK Q : Q = QueuesFor(cl, sv)
    OBVIOUS
  <2>2. PICK R : R = QueuesFor(cl, sx)
    OBVIOUS
  <2>3. ASSUME NEW t \in Threads, t # p PROVE R[t] = Q[t]
    <3>1. t \in Servers => sx[t].at = sv[t].at /\ sx[t].vol = sv[t].vol
      BY <1>2, <2>3
    <3>2. QueuesFor(cl, sx)[t] = QueuesFor(cl, sv)[t]
      BY <3>1, QueuesForOthers
    <3> QED
      BY <2>1, <2>2, <3>2
  <2> QED
    BY <1>1, <2>1, <2>2, <2>3, Moving, Basics
<1>6. SleepOK(v, w, n, cl, sx)
  <2>1. ASSUME NEW q \in Servers, sx[q].at \in Listening
        PROVE  /\ ~Ready(w, q) => n[Doorbell(sx[q].vol)] = 0
               /\ n[Doorbell(sx[q].vol)] = 0 =>
                     \A k \in Slots : v[sx[q].vol].slots[k].state # "offered"
    <3>1. CASE q = p
      <4>1. sx[q].at = "idle" /\ Ready(w, q)
        BY <2>1, <3>1 DEF Listening, Clean
      <4> QED
        BY <3>1, <4>1
    <3>2. CASE q # p
      BY <1>1, <1>2, <2>1, <3>2 DEF SleepOK
    <3> QED
      BY <3>1, <3>2
  <2> QED
    BY <1>1, <2>1 DEF SleepOK
<1> QED
  BY <1>2, <1>3, <1>4, <1>5, <1>6 DEF Core

\* Who waits and who was woken for room is the same.
SameRoom(w, y) ==
    \A j \in Volumes : Claimers(y, j) = Claimers(w, j) /\ WokenFor(y, j) = WokenFor(w, j)

LEMMA RoomSame ==
    ASSUME NEW v, NEW w, NEW ls, RoomOK(v, w, ls), NEW y, SameRoom(w, y)
    PROVE  RoomOK(v, y, ls)
BY DEF RoomOK, RoomAt, SameRoom

LEMMA ScansMoved ==
    ASSUME NEW v, NEW sv, NEW sc, NEW uw, NEW a, ScansOK(v, sv, sc, uw, a),
           NEW p \in Servers, sv[p].at # "off",
           NEW sx, ServerMoved(sv, sx, p), sx[p].at \notin {"picked", "filled"}
    PROVE  ScansOK(v, sx, sc, uw, a)
BY DEF ScansOK, ServerMoved

\* Back from blockOn: a server that runs is on no queue.
LEMMA ServerLeft ==
    ASSUME NEW v, NEW cl, NEW sv, NEW w, NEW n, NEW a, Core(v, cl, sv, w, n, a),
           NEW p \in Servers, Ready(w, p)
    PROVE  /\ Core(v, cl, sv, Leave(w, p), n, a) /\ Clean(Leave(w, p), p)
           /\ SameRoom(w, Leave(w, p))
<1>1. PICK y, Q : y = Leave(w, p) /\ Q = QueuesFor(cl, sv)
  OBVIOUS
<1>2. WaitOK(y, Q) /\ Clean(y, p) /\ Wakes(w, y) /\ TakenOff(w, y, p)
  BY <1>1, Leaving, Basics DEF Core
<1>3. Core(v, cl, sv, y, n, a)
  BY <1>1, <1>2, CoreWakes
<1>4. \A j \in Volumes : p \notin Claimers(w, j) /\ p \notin WokenFor(w, j)
  BY Basics DEF Claimers, WokenFor
<1>5. SameRoom(w, y)
  BY <1>2, <1>4, RoomLeft DEF SameRoom, Clean
<1> QED
  BY <1>1, <1>2, <1>3, <1>5

\* The count of a doorbell that nobody listens to may be anything.
LEMMA CountChanges ==
    ASSUME NEW v, NEW cl, NEW sv, NEW w, NEW n, NEW a, Core(v, cl, sv, w, n, a),
           NEW i \in Volumes, \A p \in Servers : ~(sv[p].at \in Listening /\ sv[p].vol = i),
           NEW m, Counted(n, m, i)
    PROVE  Core(v, cl, sv, w, m, a)
<1>1. SleepOK(v, w, n, cl, sv) /\ ServersTyped(sv) /\ OwnersOK(v, sv)
  BY DEF Core
<1>2. ASSUME NEW p \in Servers, sv[p].at \in Listening
      PROVE  m[Doorbell(sv[p].vol)] = n[Doorbell(sv[p].vol)]
  <2>1. sv[p].vol \in Volumes /\ sv[p].vol # i
    BY <1>1, <1>2 DEF OwnersOK, ServersTyped, ServerRecords, Listening
  <2> QED
    BY <2>1, Names DEF Counted
<1>3. SleepOK(v, w, m, cl, sv)
  BY <1>1, <1>2 DEF SleepOK
<1> QED
  BY <1>3 DEF Core, Counted

\* A server on no queue goes to sleep on a doorbell that is down, with nothing
\* offered.
LEMMA ServerSleeps ==
    ASSUME NEW v, NEW cl, NEW sv, NEW w, NEW n, NEW a, Core(v, cl, sv, w, n, a),
           NEW p \in Servers, sv[p].at \in Serving, Clean(w, p),
           NEW i, i = sv[p].vol, n[Doorbell(i)] = 0,
           \A k \in Slots : v[i].slots[k].state # "offered",
           NEW sx, ServerMoved(sv, sx, p), sx[p].vol = i, sx[p].at = "waiting",
           sx[p].last = sv[p].last
    PROVE  /\ Core(v, cl, sx, Block(w, p, {Doorbell(i)}, FALSE), n, a)
           /\ SameRoom(w, Block(w, p, {Doorbell(i)}, FALSE))
<1>1. /\ ServersTyped(sv) /\ OwnersOK(v, sv) /\ TagsOK(v, sv, a) /\ WaitOK(w, QueuesFor(cl, sv))
      /\ SleepOK(v, w, n, cl, sv)
  BY DEF Core
<1>2. ServersTyped(sx) /\ \A q \in Servers : q # p => sx[q] = sv[q]
  BY DEF ServerMoved
<1>3. OwnersOK(v, sx)
  <2> SUFFICES ASSUME NEW q \in Servers
               PROVE  /\ sx[q].vol = None <=> sx[q].at = "off"
                      /\ sx[q].at = "picked" => ~v[sx[q].vol].live /\ v[sx[q].vol].users = 0
                      /\ sx[q].at \in Serving => v[sx[q].vol].live /\ v[sx[q].vol].server = q
                      /\ sx[q].at = "carrying" =>
                            sx[q].hand # NoRequest /\ sx[q].hand.data = v[sx[q].vol].data
    BY DEF OwnersOK
  <2>1. CASE q = p
    BY <1>1, <2>1 DEF OwnersOK, Serving
  <2>2. CASE q # p
    BY <1>1, <1>2, <2>2 DEF OwnersOK
  <2> QED
    BY <2>1, <2>2
<1>4. TagsOK(v, sx, a)
  <2> SUFFICES ASSUME a <= 1, NEW q \in Servers
               PROVE  /\ a = 0 \/ sx[q].at = "picked" => sx[q].last = NoRequest
                      /\ sx[q].at = "carrying" => HandFits(sx[q], v[sx[q].vol])
                      /\ sx[q].at \in Serving => LateFits(sx[q], v[sx[q].vol])
    BY <1>1, ZenonT(60) DEF TagsOK, HandFits, LateFits
  <2>1. CASE q = p
    BY <1>1, <2>1, SMTT(60) DEF TagsOK, LateFits
  <2>2. CASE q # p
    BY <1>1, <1>2, <2>2 DEF TagsOK, HandFits, LateFits
  <2> QED
    BY <2>1, <2>2, SMTT(60)
<1>5. i \in Volumes /\ Doorbell(i) \in Queues
  BY <1>1, Names DEF OwnersOK, ServersTyped, ServerRecords, Serving
<1>6. PICK x, q : q = Doorbell(i) /\ x = Block(w, p, {q}, FALSE)
  OBVIOUS
<1>7. WaitOK(x, QueuesFor(cl, sx)) /\ Asleep(w, x, p, q)
  <2>1. PICK Q : Q = QueuesFor(cl, sv)
    OBVIOUS
  <2>2. PICK R : R = QueuesFor(cl, sx)
    OBVIOUS
  <2>3. ASSUME NEW t \in Threads, t # p PROVE R[t] = Q[t]
    <3>1. t \in Servers => sx[t].at = sv[t].at /\ sx[t].vol = sv[t].vol
      BY <1>2, <2>3
    <3>2. QueuesFor(cl, sx)[t] = QueuesFor(cl, sv)[t]
      BY <3>1, QueuesForOthers
    <3> QED
      BY <2>1, <2>2, <3>2
  <2>4. R[p] = {q}
    BY <1>6, <2>2, QueuesForServer
  <2>5. WaitOK(w, Q) /\ p \in Threads /\ q \in Queues
    BY <1>1, <1>5, <1>6, <2>1, Basics
  <2>6. WaitOK(x, R) /\ Asleep(w, x, p, q)
    BY <1>6, <2>3, <2>4, <2>5, Blocking
  <2> QED
    BY <2>2, <2>6
<1>8. SleepOK(v, x, n, cl, sx)
  <2>1. \A c \in Callers : Ready(x, c) <=> Ready(w, c)
    BY <1>7, Basics DEF Asleep
  <2>2. ASSUME NEW r \in Servers, sx[r].at \in Listening
        PROVE  /\ ~Ready(x, r) => n[Doorbell(sx[r].vol)] = 0
               /\ n[Doorbell(sx[r].vol)] = 0 =>
                     \A k \in Slots : v[sx[r].vol].slots[k].state # "offered"
    <3>1. CASE r = p
      BY <3>1
    <3>2. CASE r # p
      <4>1. sx[r] = sv[r] /\ (Ready(x, r) <=> Ready(w, r))
        BY <1>2, <1>7, <3>2, Basics DEF Asleep
      <4> QED
        BY <1>1, <2>2, <4>1 DEF SleepOK
    <3> QED
      BY <3>1, <3>2
  <2> QED
    BY <1>1, <2>1, <2>2 DEF SleepOK
<1>9. SameRoom(w, x)
  BY <1>7, Basics, RoomAsleep DEF SameRoom
<1>10. Core(v, cl, sx, x, n, a)
  BY <1>2, <1>3, <1>4, <1>7, <1>8 DEF Core
<1> QED
  BY <1>6, <1>9, <1>10

\* sx is sv with server p at another place.
Placed(sv, sx, p, at) ==
    /\ ServerMoved(sv, sx, p) /\ sx[p].at = at /\ sx[p].vol = sv[p].vol
    /\ sx[p].hand = sv[p].hand /\ sx[p].last = sv[p].last

LEMMA ServerPlaced ==
    ASSUME NEW sv, ServersTyped(sv), NEW p \in Servers, NEW at \in ServerPlaces
    PROVE  Placed(sv, [sv EXCEPT ![p].at = at], p, at)
BY SMTT(60) DEF ServersTyped, ServerRecords, ServerMoved, Placed

\* The tags about, of a server that goes on.
LEMMA TagsOf ==
    ASSUME NEW v, NEW sv, NEW a, TagsOK(v, sv, a), NEW p \in Servers, sv[p].at \in Serving
    PROVE  /\ a <= 1 => LateFits(sv[p], v[sv[p].vol])
           /\ a <= 1 /\ sv[p].at = "carrying" => HandFits(sv[p], v[sv[p].vol])
           /\ a = 0 => sv[p].last = NoRequest
<1>1. a = 0 => a <= 1
  OBVIOUS
<1> QED
  BY <1>1 DEF TagsOK, LateFits, HandFits

LEMMA NextRequestKeeps ==
    ASSUME IInv, NEW p \in Servers, NextRequest(p)
    PROVE  IInv'
<1>1. PICK v, cl, sv, w, n, a, ls : /\ v = vol /\ cl = caller /\ sv = server /\ ls = lostRoom
                                    /\ w = ev.wait /\ n = ev.count /\ a = attached
  OBVIOUS
<1>2. PICK i, k, x, sx : i = sv[p].vol /\ k = Min(Offered(i)) /\ x = vol' /\ sx = server'
  OBVIOUS
<1>3. /\ Core(v, cl, sv, w, n, a) /\ RoomOK(v, w, ls) /\ sv[p].at = "serving"
      /\ AreasOK(v, held) /\ ScansOK(v, sv, scans, unwrapped, a)
  BY <1>1 DEF IInv, NextRequest
<1>4. /\ VolumesTyped(v) /\ CallersTyped(cl) /\ PlacesOK(cl) /\ SlotsOK(v, cl) /\ TagsOK(v, sv, a)
      /\ ServersTyped(sv) /\ OwnersOK(v, sv) /\ UsersOK(v, cl)
  BY <1>3 DEF Core
<1>5. i \in Volumes /\ v[i].live /\ sv[p].at \in Serving
  BY <1>2, <1>3, <1>4 DEF OwnersOK, ServersTyped, ServerRecords, Serving
<1>6. /\ Offered(i) # {} /\ x = [v EXCEPT ![i].slots[k].state = "taken"]
      /\ sx = [sv EXCEPT ![p].at = "carrying",
                  ![p].hand = [slot |-> k, generation |-> v[i].slots[k].generation,
                               data |-> v[i].data]]
  BY <1>1, <1>2 DEF NextRequest, InState
<1>7. k \in Slots /\ v[i].slots[k].state = "offered"
  <2>1. Offered(i) \in SUBSET Nat /\ Offered(i) # {}
    BY <1>6, Basics DEF Offered
  <2>2. k \in Offered(i)
    BY <1>2, <2>1, MinIsMember
  <2> QED
    BY <1>1, <2>2 DEF Offered
<1>8. PICK s \in SlotRecords : /\ s.state = "taken" /\ s.generation = v[i].slots[k].generation
                               /\ s.answer = v[i].slots[k].answer /\ Turned(v, x, i, k, s)
  <2>1. x = [v EXCEPT ![i].slots[k].state = "taken"]
    BY <1>6
  <2>2. "taken" \in SlotStates
    BY DEF SlotStates
  <2> QED
    BY <1>4, <1>5, <1>7, <2>1, <2>2, TurnsState
<1>9. FitsCallers(s, cl, i, k, v[i].live)
  <2> SUFFICES ASSUME NEW c \in Callers, cl[c].vol = i, cl[c].slot = k
               PROVE  Fits(s, cl[c].at, v[i].live)
    BY DEF FitsCallers
  <2>1. cl[c].at # "claimed"
    BY <1>4, <1>5, <1>7, Basics, SMTT(60) DEF SlotsOK
  <2> QED
    BY <1>8, <2>1 DEF Fits
<1>10. a <= 1 => s.answer # "stale"
  BY <1>4, <1>5, <1>7, <1>8 DEF TagsOK
<1>11. ASSUME a <= 1, NEW q \in Servers, sv[q].at \in Serving, sv[q].vol = i
       PROVE  FitsTags(s, sv[q], k)
  <2>1. ~(sv[q].at = "carrying" /\ sv[q].hand.slot = k)
    BY <1>4, <1>7, <1>11 DEF TagsOK
  <2>2. sv[q].last # NoRequest /\ sv[q].last.slot = k =>
            /\ sv[q].last.generation <= v[i].slots[k].generation
            /\ sv[q].last.generation # v[i].slots[k].generation
    BY <1>4, <1>7, <1>11 DEF TagsOK
  <2> QED
    BY <1>8, <2>1, <2>2, SMTT(60) DEF FitsTags
<1>12. s.state # "done" /\ s.state # "offered" /\ s.state # "free"
  BY <1>8
<1>13. Core(x, cl, sv, w, n, a)
  BY <1>3, <1>5, <1>7, <1>8, <1>9, <1>10, <1>11, <1>12, CoreTurn
<1>14. SameHeads(v, x) /\ x[i].slots[k] = s
  BY <1>8 DEF Turned
<1>15. PICK h : h = [slot |-> k, generation |-> v[i].slots[k].generation, data |-> v[i].data]
  OBVIOUS
<1>16. /\ h \in Requests /\ h # NoRequest /\ h.slot = k /\ h.data = v[i].data
       /\ h.generation = v[i].slots[k].generation
  <2>1. v[i].slots[k].generation \in 0..MaxGeneration /\ v[i].data \in Segments
    <3>1. v[i].data # None
      BY <1>4, <1>5 DEF UsersOK
    <3>2. v[i] \in VolumeRecords
      BY <1>4, <1>5 DEF VolumesTyped
    <3> QED
      BY <1>4, <1>5, <1>7, <3>1, <3>2, SlotTyped DEF VolumeRecords
  <2>2. h.slot # None
    BY <1>7, <1>15, Basics
  <2> QED
    BY <1>7, <1>15, <2>1, <2>2 DEF Requests, NoRequest
<1>17. /\ ServerMoved(sv, sx, p) /\ sx[p].at = "carrying" /\ sx[p].vol = i
       /\ sx[p].hand = h /\ sx[p].last = sv[p].last
  <2>1. sx = [sv EXCEPT ![p].at = "carrying", ![p].hand = h]
    BY <1>6, <1>15
  <2>2. "carrying" \in ServerPlaces
    BY DEF ServerPlaces
  <2>3. sv \in [Servers -> ServerRecords]
    BY <1>4 DEF ServersTyped
  <2>4. sx \in [Servers -> ServerRecords]
    BY <1>16, <2>1, <2>2, <2>3 DEF ServerRecords
  <2>5. /\ sx[p].at = "carrying" /\ sx[p].vol = i /\ sx[p].hand = h /\ sx[p].last = sv[p].last
        /\ \A q \in Servers : q # p => sx[q] = sv[q]
    BY <1>2, <2>1, <2>3 DEF ServerRecords
  <2> QED
    BY <2>4, <2>5 DEF ServerMoved, ServersTyped
<1>18. Core(x, cl, sx, w, n, a)
  <2>1. TagsOK(x, sv, a)
    BY <1>13 DEF Core
  <2>2. a <= 1 => LateFits(sx[p], x[sv[p].vol])
    <3>1. a <= 1 => LateFits(sv[p], x[sv[p].vol])
      BY <1>5, <2>1, TagsOf
    <3> QED
      BY <1>17, <3>1 DEF LateFits
  <2>3. a = 0 => sx[p].last = NoRequest
    BY <1>5, <1>17, <2>1, TagsOf
  <2>4. HandFits(sx[p], x[sv[p].vol])
    BY <1>2, <1>8, <1>14, <1>16, <1>17 DEF HandFits
  <2>5. sx[p].hand # NoRequest /\ sx[p].hand.data = x[sv[p].vol].data
    BY <1>2, <1>5, <1>14, <1>16, <1>17 DEF SameHeads
  <2>6. Clean(w, p)
    BY <1>3, ServerIsClean
  <2> QED
    BY <1>2, <1>5, <1>13, <1>17, <2>2, <2>3, <2>4, <2>5, <2>6, ServerGoes
<1>19. RoomOK(x, w, ls)
  <2>1. v[i].slots[k].state # "free"
    BY <1>7
  <2>2. FreeIn(x, i) = FreeIn(v, i) /\ \A j \in Volumes : j # i => FreeIn(x, j) = FreeIn(v, j)
    BY <1>5, <1>7, <1>8, <1>12, <2>1, FreeTurn
  <2>3. \A j \in Volumes : FreeIn(x, j) = FreeIn(v, j)
    BY <2>2
  <2> QED
    BY <1>3, <1>14, <2>3 DEF RoomOK, SameHeads
<1>20. AreasOK(x, held) /\ ScansOK(x, sv, scans, unwrapped, a)
  BY <1>3, <1>14, HeadsKeep
<1>21. ScansOK(x, sx, scans, unwrapped, a)
  BY <1>3, <1>17, <1>20, ScansMoved
<1>22. /\ held' = held /\ scans' = scans /\ unwrapped' = unwrapped /\ caller' = cl
       /\ killed' = killed /\ lostRoom' = ls /\ attached' = a /\ deadline' = deadline /\ ev'.wait = w /\ ev'.count = n
  BY <1>1 DEF NextRequest
<1>23. killed \subseteq Killable /\ ls \subseteq Volumes /\ deadline \in [Callers -> {"none", "ahead", "passed"}]
  BY <1>1 DEF IInv
<1> QED
  BY <1>2, <1>18, <1>19, <1>20, <1>21, <1>22, <1>23 DEF IInv

LEMMA Consumed ==
    ASSUME NEW n, n \in [Bells -> 0..MaxCount], NEW i \in Volumes, n[Doorbell(i)] > 0,
           NEW m, m = [n EXCEPT ![Doorbell(i)] = @ - 1]
    PROVE  Counted(n, m, i)
<1>1. Doorbell(i) \in Bells /\ n[Doorbell(i)] \in 0..MaxCount /\ MaxCount \in Nat
  BY Names, MaxCountAssumption
<1>2. n[Doorbell(i)] - 1 \in 0..MaxCount
  BY <1>1
<1> QED
  BY <1>1, <1>2 DEF Counted

\* A server on no queue takes the doorbell, or goes to sleep on it.
LEMMA BellTaken ==
    ASSUME IInv, NEW p \in Servers, NEW e, NEW w, NEW n, NEW i, i = server[p].vol,
           e.wait = w, e.count = n,
           Core(vol, caller, server, w, n, attached), Clean(w, p),
           server[p].at \in {"idle", "waiting"}, SameRoom(ev.wait, w),
           \/ n[Doorbell(i)] > 0 /\ ev' = Consume(e, Doorbell(i))
              /\ server' = [server EXCEPT ![p].at = "serving"]
           \/ n[Doorbell(i)] = 0 /\ ev' = BlockOn(e, p, {Doorbell(i)}, FALSE)
              /\ server' = [server EXCEPT ![p].at = "waiting"]
              /\ \A k \in Slots : vol[i].slots[k].state # "offered",
           vol' = vol, held' = held, scans' = scans, unwrapped' = unwrapped, caller' = caller,
           deadline' = deadline, killed' = killed /\ lostRoom' = lostRoom, attached' = attached
    PROVE  IInv'
<1>1. PICK v, cl, sv, a, ls, sx : /\ v = vol /\ cl = caller /\ sv = server /\ ls = lostRoom
                                  /\ a = attached /\ sx = server'
  OBVIOUS
<1>2. /\ Core(v, cl, sv, w, n, a) /\ RoomOK(v, ev.wait, ls)
      /\ AreasOK(v, held) /\ ScansOK(v, sv, scans, unwrapped, a)
  BY <1>1 DEF IInv
<1>3. RoomOK(v, w, ls)
  BY <1>2, RoomSame
<1>4. ServersTyped(sv) /\ OwnersOK(v, sv) /\ TagsOK(v, sv, a) /\ n \in [Bells -> 0..MaxCount]
  BY <1>2 DEF Core
<1>5. i \in Volumes /\ sv[p].at \in Serving /\ sv[p].vol = i
  BY <1>1, <1>4 DEF OwnersOK, ServersTyped, ServerRecords, Serving
<1>6. /\ a <= 1 => LateFits(sv[p], v[i])
      /\ a = 0 => sv[p].last = NoRequest
  BY <1>4, <1>5, TagsOf
<1>7. SUFFICES /\ Core(v, cl, sx, ev'.wait, ev'.count, a) /\ RoomOK(v, ev'.wait, ls)
               /\ ScansOK(v, sx, scans, unwrapped, a)
  BY <1>1, <1>2 DEF IInv
<1>8. CASE /\ n[Doorbell(i)] > 0 /\ ev' = Consume(e, Doorbell(i))
           /\ server' = [server EXCEPT ![p].at = "serving"]
  <2>1. sx = [sv EXCEPT ![p].at = "serving"]
    BY <1>1, <1>8
  <2>2. /\ ServerMoved(sv, sx, p) /\ sx[p].at = "serving" /\ sx[p].vol = sv[p].vol
        /\ sx[p].last = sv[p].last
    <3>1. Placed(sv, sx, p, "serving")
      BY <1>4, <2>1, ServerPlaced DEF ServerPlaces
    <3> QED
      BY <3>1 DEF Placed
  <2>3. Core(v, cl, sx, w, n, a)
    <3>1. a <= 1 => LateFits(sx[p], v[sv[p].vol])
      BY <1>5, <1>6, <2>2, ZenonT(60) DEF LateFits
    <3>2. a = 0 => sx[p].last = NoRequest
      BY <1>6, <2>2
    <3>3. sx[p].at \in {"serving", "carrying"} /\ sx[p].at # "carrying"
      BY <2>2
    <3> QED
      BY <1>2, <1>5, <2>2, <3>1, <3>2, <3>3, ServerGoes
  <2>4. PICK m : m = [n EXCEPT ![Doorbell(i)] = @ - 1]
    OBVIOUS
  <2>5. ev'.wait = w /\ ev'.count = m
    BY <1>8, <2>4 DEF Consume
  <2>6. Counted(n, m, i)
    BY <1>4, <1>5, <1>8, <2>4, Consumed
  <2>7. \A q \in Servers : ~(sx[q].at \in Listening /\ sx[q].vol = i)
    <3> SUFFICES ASSUME NEW q \in Servers, sx[q].at \in Listening, sx[q].vol = i PROVE FALSE
      OBVIOUS
    <3>1. OwnersOK(v, sx)
      BY <2>3 DEF Core
    <3>2. q = p
      BY <1>5, <2>2, <3>1, OneServer DEF Serving, Listening
    <3> QED
      BY <2>2, <3>2 DEF Listening
  <2>8. Core(v, cl, sx, w, m, a)
    BY <1>5, <2>3, <2>6, <2>7, CountChanges
  <2>9. ScansOK(v, sx, scans, unwrapped, a)
    BY <1>2, <1>5, <2>2, ScansMoved DEF Serving
  <2> QED
    BY <1>3, <2>5, <2>8, <2>9
<1>9. CASE /\ n[Doorbell(i)] = 0 /\ ev' = BlockOn(e, p, {Doorbell(i)}, FALSE)
           /\ server' = [server EXCEPT ![p].at = "waiting"]
           /\ \A k \in Slots : vol[i].slots[k].state # "offered"
  <2>1. sx = [sv EXCEPT ![p].at = "waiting"]
    BY <1>1, <1>9
  <2>2. /\ ServerMoved(sv, sx, p) /\ sx[p].at = "waiting" /\ sx[p].vol = sv[p].vol
        /\ sx[p].last = sv[p].last
    <3>1. Placed(sv, sx, p, "waiting")
      BY <1>4, <2>1, ServerPlaced DEF ServerPlaces
    <3> QED
      BY <3>1 DEF Placed
  <2>3. PICK y : y = Block(w, p, {Doorbell(i)}, FALSE)
    OBVIOUS
  <2>4. ev'.wait = y /\ ev'.count = n
    BY <1>9, <2>3 DEF BlockOn
  <2>5. Core(v, cl, sx, y, n, a) /\ SameRoom(w, y)
    <3>1. \A k \in Slots : v[i].slots[k].state # "offered"
      BY <1>1, <1>9
    <3> QED
      BY <1>2, <1>5, <1>9, <2>2, <2>3, <3>1, ServerSleeps
  <2>6. ScansOK(v, sx, scans, unwrapped, a)
    BY <1>2, <1>5, <2>2, ScansMoved DEF Serving
  <2> QED
    BY <1>3, <2>4, <2>5, <2>6, RoomSame
<1> QED
  BY <1>8, <1>9

LEMMA NextIsNoneKeeps ==
    ASSUME IInv, NEW p \in Servers, NextIsNone(p)
    PROVE  IInv'
<1>1. PICK v, cl, sv, w, n, a, sx : /\ v = vol /\ cl = caller /\ sv = server /\ sx = server'
                                    /\ w = ev.wait /\ n = ev.count /\ a = attached
  OBVIOUS
<1>2. /\ Core(v, cl, sv, w, n, a) /\ sv[p].at = "serving" /\ sx = [sv EXCEPT ![p].at = "idle"]
      /\ ScansOK(v, sv, scans, unwrapped, a)
  BY <1>1 DEF IInv, NextIsNone, Goes
<1>3. ServersTyped(sv) /\ TagsOK(v, sv, a) /\ sv[p].at \in Serving
  BY <1>2 DEF Core, Serving
<1>4. Placed(sv, sx, p, "idle")
  BY <1>2, <1>3, ServerPlaced DEF ServerPlaces
<1>5. /\ ServerMoved(sv, sx, p) /\ sx[p].at = "idle" /\ sx[p].vol = sv[p].vol
      /\ sx[p].last = sv[p].last
  BY <1>4 DEF Placed
<1>6. \A k \in Slots : v[sv[p].vol].slots[k].state # "offered"
  BY <1>1 DEF NextIsNone, Offered
<1>7. /\ a <= 1 => LateFits(sv[p], v[sv[p].vol])
      /\ a = 0 => sv[p].last = NoRequest
  BY <1>3, TagsOf
<1>8. a <= 1 => LateFits(sx[p], v[sv[p].vol])
  BY <1>5, <1>7, ZenonT(60) DEF LateFits
<1>9. sx[p].at \in {"serving", "carrying", "idle"} /\ sx[p].at # "carrying"
  BY <1>5
<1>10. Clean(w, p)
  BY <1>2, ServerIsClean
<1>11. Core(v, cl, sx, w, n, a)
  BY <1>2, <1>3, <1>5, <1>6, <1>7, <1>8, <1>9, <1>10, ServerGoes
<1>12. ScansOK(v, sx, scans, unwrapped, a)
  BY <1>2, <1>5, ScansMoved
<1> QED
  BY <1>1, <1>11, <1>12 DEF IInv, NextIsNone

LEMMA WaitDoorbellKeeps ==
    ASSUME IInv, NEW p \in Servers, WaitDoorbell(p)
    PROVE  IInv'
<1>1. PICK e, w, n, i : e = ev /\ w = ev.wait /\ n = ev.count /\ i = server[p].vol
  OBVIOUS
<1>2. Core(vol, caller, server, w, n, attached) /\ server[p].at = "idle"
  BY <1>1 DEF IInv, WaitDoorbell
<1>3. Clean(w, p)
  BY <1>2, ServerIsClean
<1>4. SameRoom(ev.wait, w)
  BY <1>1 DEF SameRoom
<1>5. /\ vol' = vol /\ held' = held /\ scans' = scans /\ unwrapped' = unwrapped
      /\ caller' = caller /\ deadline' = deadline /\ killed' = killed /\ lostRoom' = lostRoom
      /\ attached' = attached
  BY DEF WaitDoorbell
<1>6. SleepOK(vol, w, n, caller, server)
  BY <1>2 DEF Core
<1>7. CASE ev.count[Doorbell(server[p].vol)] > 0 /\ ev' = Consume(ev, Doorbell(server[p].vol))
           /\ Goes(p, "serving")
  <2>1. server' = [server EXCEPT ![p].at = "serving"]
    BY <1>7 DEF Goes
  <2>2. n[Doorbell(i)] > 0 /\ ev' = Consume(e, Doorbell(i))
    BY <1>1, <1>7
  <2> QED
    BY <1>1, <1>2, <1>3, <1>4, <1>5, <2>1, <2>2, BellTaken
<1>8. CASE ev.count[Doorbell(server[p].vol)] = 0
           /\ ev' = BlockOn(ev, p, {Doorbell(server[p].vol)}, FALSE) /\ Goes(p, "waiting")
  <2>1. server' = [server EXCEPT ![p].at = "waiting"]
    BY <1>8 DEF Goes
  <2>2. n[Doorbell(i)] = 0 /\ ev' = BlockOn(e, p, {Doorbell(i)}, FALSE)
    BY <1>1, <1>8
  <2>3. \A k \in Slots : vol[i].slots[k].state # "offered"
    BY <1>1, <1>2, <1>6, <2>2 DEF SleepOK, Listening
  <2> QED
    BY <1>1, <1>2, <1>3, <1>4, <1>5, <2>1, <2>2, <2>3, BellTaken
<1> QED
  BY <1>7, <1>8 DEF WaitDoorbell

LEMMA DoorbellRangKeeps ==
    ASSUME IInv, NEW p \in Servers, DoorbellRang(p)
    PROVE  IInv'
<1>1. PICK e, w, n, i : e = Left(p) /\ w = e.wait /\ n = e.count /\ i = server[p].vol
  OBVIOUS
<1>2. w = Leave(ev.wait, p) /\ n = ev.count
  BY <1>1 DEF Left, Waits
<1>3. /\ Core(vol, caller, server, ev.wait, n, attached) /\ server[p].at = "waiting"
      /\ Ready(ev.wait, p)
  BY <1>2 DEF IInv, DoorbellRang
<1>4. Core(vol, caller, server, w, n, attached) /\ Clean(w, p) /\ SameRoom(ev.wait, w)
  BY <1>2, <1>3, ServerLeft
<1>5. /\ vol' = vol /\ held' = held /\ scans' = scans /\ unwrapped' = unwrapped
      /\ caller' = caller /\ deadline' = deadline /\ killed' = killed /\ lostRoom' = lostRoom /\ attached' = attached
  BY DEF DoorbellRang
<1>6. server \in [Servers -> ServerRecords] /\ SleepOK(vol, ev.wait, n, caller, server)
  BY <1>3 DEF Core, ServersTyped
<1>7. CASE ev.count[Doorbell(server[p].vol)] > 0
           /\ ev' = Consume(Left(p), Doorbell(server[p].vol)) /\ Goes(p, "serving")
  <2>1. server' = [server EXCEPT ![p].at = "serving"]
    BY <1>7 DEF Goes
  <2>2. n[Doorbell(i)] > 0 /\ ev' = Consume(e, Doorbell(i))
    BY <1>1, <1>2, <1>7
  <2> QED
    BY <1>1, <1>3, <1>4, <1>5, <2>1, <2>2, BellTaken
<1>8. CASE ev.count[Doorbell(server[p].vol)] = 0
           /\ ev' = BlockOn(Left(p), p, {Doorbell(server[p].vol)}, FALSE) /\ UNCHANGED server
  <2>1. server' = [server EXCEPT ![p].at = "waiting"]
    BY <1>3, <1>6, <1>8 DEF ServerRecords
  <2>2. n[Doorbell(i)] = 0 /\ ev' = BlockOn(e, p, {Doorbell(i)}, FALSE)
    BY <1>1, <1>2, <1>8
  <2>3. \A k \in Slots : vol[i].slots[k].state # "offered"
    BY <1>1, <1>3, <1>6, <2>2 DEF SleepOK, Listening
  <2> QED
    BY <1>1, <1>3, <1>4, <1>5, <2>1, <2>2, <2>3, BellTaken
<1> QED
  BY <1>7, <1>8 DEF DoorbellRang

\* done frees the slot of a caller that has given up, or answers it.
Freed(v, x, w, y, i, k) ==
    /\ v[i].slots[k].state = "abandoned"
    /\ x = [v EXCEPT ![i].slots[k].state = "free"]
    /\ y = WakeOne(w, Room(i))
Answered(v, x, w, y, i, k, kind) ==
    /\ v[i].slots[k].state = "taken"
    /\ AnsweredAs(v, x, i, k, kind)
    /\ y = WakeOne(w, SlotQueue(i, k))

LEMMA AnswersSlot ==
    ASSUME NEW v, NEW cl, NEW sv, NEW w, NEW n, NEW a, Core(v, cl, sv, w, n, a),
           NEW ls, RoomOK(v, w, ls), NEW i \in Volumes, NEW k \in Slots, v[i].live,
           NEW kind \in {"asked", "stale"}, a <= 1 => kind = "asked",
           a <= 1 => \A p \in Servers :
               ~(sv[p].at = "carrying" /\ sv[p].vol = i /\ sv[p].hand.slot = k),
           NEW x, NEW y, Freed(v, x, w, y, i, k) \/ Answered(v, x, w, y, i, k, kind)
    PROVE  /\ Core(x, cl, sv, y, n, a) /\ RoomOK(x, y, ls) /\ SameHeads(v, x)
           /\ x[i].slots[k].generation = v[i].slots[k].generation
           /\ x[i].slots[k].state \in {"free", "done"}
<1>1. /\ VolumesTyped(v) /\ CallersTyped(cl) /\ ServersTyped(sv) /\ PlacesOK(cl) /\ SlotsOK(v, cl)
      /\ TagsOK(v, sv, a) /\ WaitOK(w, QueuesFor(cl, sv))
  BY DEF Core
<1>2. ASSUME NEW s, s.generation = v[i].slots[k].generation, s.state \in {"free", "done"},
             a <= 1, NEW p \in Servers, sv[p].at \in Serving, sv[p].vol = i,
             v[i].slots[k].state \in {"taken", "abandoned"}
      PROVE  FitsTags(s, sv[p], k)
  <2>1. ~(sv[p].at = "carrying" /\ sv[p].hand.slot = k)
    BY <1>2, SMTT(60)
  <2>2. sv[p].last # NoRequest /\ sv[p].last.slot = k =>
           sv[p].last.generation <= v[i].slots[k].generation
    BY <1>1, <1>2 DEF TagsOK
  <2> QED
    BY <1>2, <2>1, <2>2 DEF FitsTags
<1>3. ASSUME Freed(v, x, w, y, i, k)
      PROVE  /\ Core(x, cl, sv, y, n, a) /\ RoomOK(x, y, ls) /\ SameHeads(v, x)
             /\ x[i].slots[k].generation = v[i].slots[k].generation
             /\ x[i].slots[k].state \in {"free", "done"}
  <2>1. /\ v[i].slots[k].state = "abandoned" /\ y = WakeOne(w, Room(i))
        /\ x = [v EXCEPT ![i].slots[k].state = "free"]
    BY <1>3 DEF Freed
  <2>2. "free" \in SlotStates
    BY DEF SlotStates
  <2>3. PICK s \in SlotRecords : /\ s.state = "free" /\ s.generation = v[i].slots[k].generation
                                 /\ s.answer = v[i].slots[k].answer /\ Turned(v, x, i, k, s)
    BY <1>1, <2>1, <2>2, TurnsState
  <2>4. FitsCallers(s, cl, i, k, v[i].live)
    <3>1. \A c \in Callers : ~(cl[c].vol = i /\ cl[c].slot = k)
      BY <1>1, <2>1, Basics DEF SlotsOK
    <3> QED
      BY <3>1 DEF FitsCallers
  <2>5. a <= 1 => s.answer # "stale"
    BY <1>1, <2>3 DEF TagsOK
  <2>6. ASSUME a <= 1, NEW p \in Servers, sv[p].at \in Serving, sv[p].vol = i
        PROVE  FitsTags(s, sv[p], k)
    BY <1>2, <2>1, <2>3, <2>6
  <2>7. s.state # "done" /\ s.state # "offered" /\ v[i].slots[k].state # "free"
    BY <2>1, <2>3
  <2>8. Core(v, cl, sv, y, n, a) /\ RoomOK(x, y, ls)
    BY <2>1, <2>3, <2>7, RoomFreed
  <2>9. Core(x, cl, sv, y, n, a)
    BY <2>3, <2>4, <2>5, <2>6, <2>7, <2>8, CoreTurn
  <2> QED
    BY <2>3, <2>8, <2>9 DEF Turned
<1>4. ASSUME Answered(v, x, w, y, i, k, kind)
      PROVE  /\ Core(x, cl, sv, y, n, a) /\ RoomOK(x, y, ls) /\ SameHeads(v, x)
             /\ x[i].slots[k].generation = v[i].slots[k].generation
             /\ x[i].slots[k].state \in {"free", "done"}
  <2>1. /\ v[i].slots[k].state = "taken" /\ y = WakeOne(w, SlotQueue(i, k))
        /\ AnsweredAs(v, x, i, k, kind)
    BY <1>4 DEF Answered
  <2>2. PICK s \in SlotRecords : /\ s.state = "done" /\ s.generation = v[i].slots[k].generation
                                 /\ s.answer = kind /\ Turned(v, x, i, k, s)
    BY <1>1, <2>1, TurnsAnswered
  <2>3. FitsCallers(s, cl, i, k, v[i].live)
    <3> SUFFICES ASSUME NEW c \in Callers, cl[c].vol = i, cl[c].slot = k
                 PROVE  Fits(s, cl[c].at, v[i].live)
      BY DEF FitsCallers
    <3>1. cl[c].at # "claimed"
      BY <1>1, <2>1, Basics DEF SlotsOK
    <3> QED
      BY <2>2, <3>1 DEF Fits
  <2>4. a <= 1 => s.answer # "stale"
    BY <2>2
  <2>5. ASSUME a <= 1, NEW p \in Servers, sv[p].at \in Serving, sv[p].vol = i
        PROVE  FitsTags(s, sv[p], k)
    BY <1>2, <2>1, <2>2, <2>5
  <2>6. PICK Q, q : Q = QueuesFor(cl, sv) /\ q = SlotQueue(i, k)
    OBVIOUS
  <2>7. WaitOK(y, Q) /\ Wakes(w, y) /\ WokeOne(w, y, Q, q) /\ q \in Queues
    BY <1>1, <2>1, <2>6, Names, WakingOne
  <2>8. Core(v, cl, sv, y, n, a)
    BY <2>6, <2>7, CoreWakes
  <2>9. \A c \in Callers : ~Queued(y, q, c)
    <3> SUFFICES ASSUME NEW c \in Callers, Queued(y, q, c) PROVE FALSE
      OBVIOUS
    <3>1. PICK t \in Threads : Queued(w, q, t) /\ Queued(w, q, c) /\ c # t
      BY <2>7 DEF WokeOne
    <3>2. /\ cl[c].vol = i /\ cl[c].slot = k
      BY <1>1, <2>6, <3>1, WhoWaits
    <3>3. t \in Callers /\ cl[t].vol = i /\ cl[t].slot = k
      BY <1>1, <2>6, <3>1, WhoWaits, Basics
    <3> QED
      BY <1>1, <3>1, <3>2, <3>3, Basics DEF SlotsOK
  <2>10. s.state # "offered" /\ s.state # "free" /\ v[i].slots[k].state # "free"
    BY <2>1, <2>2
  <2>11. Core(x, cl, sv, y, n, a)
    BY <2>2, <2>3, <2>4, <2>5, <2>6, <2>8, <2>9, <2>10, CoreTurn
  <2>12. SameRoom(w, y)
    <3> SUFFICES ASSUME NEW j \in Volumes
                 PROVE  Claimers(y, j) = Claimers(w, j) /\ WokenFor(y, j) = WokenFor(w, j)
      BY DEF SameRoom
    <3>1. q # Room(j)
      BY <2>6, Names
    <3> QED
      BY <1>1, <2>6, <2>7, <3>1, RoomWokenElsewhere
  <2>13. FreeIn(x, i) = FreeIn(v, i) /\ \A j \in Volumes : j # i => FreeIn(x, j) = FreeIn(v, j)
    BY <2>2, <2>10, FreeTurn
  <2>14. SameHeads(v, x) /\ x[i].slots[k] = s
    BY <2>2 DEF Turned
  <2>15. RoomOK(x, y, ls)
    <3>1. RoomOK(v, y, ls)
      BY <2>12, RoomSame
    <3>2. \A j \in Volumes : FreeIn(x, j) = FreeIn(v, j)
      BY <2>13
    <3> QED
      BY <2>14, <3>1, <3>2 DEF RoomOK, SameHeads
  <2> QED
    BY <2>2, <2>11, <2>14, <2>15
<1> QED
  BY <1>3, <1>4

\* Answer, for a tag of a slot.
LEMMA AnswerIs ==
    ASSUME NEW i, NEW tag, NEW kind, Answer(i, tag, kind)
    PROVE  \/ /\ Answerable(i, tag) /\ ev'.count = ev.count
              /\ Freed(vol, vol', ev.wait, ev'.wait, i, tag.slot)
                 \/ Answered(vol, vol', ev.wait, ev'.wait, i, tag.slot, kind)
           \/ ~Answerable(i, tag) /\ vol' = vol /\ ev' = ev
BY DEF Answer, Freed, Answered, AnsweredAs, InState, WakesOne, Waits

\* The tag a server carries, or has answered, is of a slot.
LEMMA TagHasSlot ==
    ASSUME NEW sv, ServersTyped(sv), NEW p \in Servers
    PROVE  /\ sv[p].hand # NoRequest => sv[p].hand.slot \in Slots
           /\ sv[p].last # NoRequest => sv[p].last.slot \in Slots
           /\ sv[p].hand \in Requests /\ sv[p].last \in Requests /\ NoRequest \in Requests
BY DEF ServersTyped, ServerRecords, Requests

LEMMA DoneKeeps ==
    ASSUME IInv, NEW p \in Servers, Done(p)
    PROVE  IInv'
<1>1. PICK v, cl, sv, w, n, a, ls : /\ v = vol /\ cl = caller /\ sv = server /\ ls = lostRoom
                                    /\ w = ev.wait /\ n = ev.count /\ a = attached
  OBVIOUS
<1>2. PICK i, h, k, x, y, sx : /\ i = sv[p].vol /\ h = sv[p].hand /\ k = h.slot
                               /\ x = vol' /\ y = ev'.wait /\ sx = server'
  OBVIOUS
<1>3. /\ Core(v, cl, sv, w, n, a) /\ RoomOK(v, w, ls) /\ sv[p].at = "carrying"
      /\ AreasOK(v, held) /\ ScansOK(v, sv, scans, unwrapped, a)
  BY <1>1 DEF IInv, Done
<1>4. /\ VolumesTyped(v) /\ TagsOK(v, sv, a) /\ ServersTyped(sv) /\ OwnersOK(v, sv)
  BY <1>3 DEF Core
<1>5. /\ i \in Volumes /\ v[i].live /\ sv[p].at \in Serving /\ h # NoRequest /\ k \in Slots
      /\ h \in Requests /\ NoRequest \in Requests
  <2>1. i \in Volumes /\ v[i].live /\ sv[p].at \in Serving /\ h # NoRequest
    BY <1>2, <1>3, <1>4 DEF OwnersOK, ServersTyped, ServerRecords, Serving
  <2> QED
    BY <1>2, <1>4, <2>1, TagHasSlot
<1>6. /\ sx = [sv EXCEPT ![p].at = "serving", ![p].hand = NoRequest, ![p].last = h]
      /\ Answer(i, h, "asked")
  BY <1>1, <1>2 DEF Done
<1>7. /\ ServerMoved(sv, sx, p) /\ sx[p].at = "serving" /\ sx[p].vol = i /\ sx[p].last = h
  BY <1>2, <1>4, <1>5, <1>6 DEF ServerMoved, ServersTyped, ServerRecords, ServerPlaces
<1>8. PICK sm : sm = [sv EXCEPT ![p].at = "serving"]
  OBVIOUS
<1>9. Placed(sv, sm, p, "serving")
  BY <1>4, <1>8, ServerPlaced DEF ServerPlaces
<1>10. /\ ServerMoved(sv, sm, p) /\ sm[p].at = "serving" /\ sm[p].vol = i
       /\ sm[p].last = sv[p].last
  BY <1>2, <1>9 DEF Placed
<1>11. Clean(w, p)
  BY <1>3, ServerIsClean
<1>12. /\ a <= 1 => LateFits(sv[p], v[sv[p].vol]) /\ HandFits(sv[p], v[sv[p].vol])
       /\ a = 0 => sv[p].last = NoRequest
  BY <1>3, <1>4, <1>5, TagsOf
<1>13. Core(v, cl, sm, w, n, a)
  <2>1. a <= 1 => LateFits(sm[p], v[sv[p].vol])
    BY <1>10, <1>12 DEF LateFits
  <2>2. sm[p].at \in {"serving", "carrying"} /\ sm[p].at # "carrying"
    BY <1>10
  <2> QED
    BY <1>2, <1>3, <1>5, <1>10, <1>11, <1>12, <2>1, <2>2, ServerGoes
<1>14. a # 0
  BY <1>3 DEF ScansOK
<1>15. /\ Core(x, cl, sx, y, n, a) /\ RoomOK(x, y, ls) /\ SameHeads(v, x) /\ ev'.count = n
  <2>1. CASE /\ Answerable(i, h) /\ ev'.count = ev.count
             /\ Freed(vol, vol', ev.wait, ev'.wait, i, h.slot)
                \/ Answered(vol, vol', ev.wait, ev'.wait, i, h.slot, "asked")
    <3>1. Freed(v, x, w, y, i, k) \/ Answered(v, x, w, y, i, k, "asked")
      BY <1>1, <1>2, <2>1
    <3>2. v[i].slots[k].generation = h.generation
      BY <1>1, <1>2, <2>1 DEF Answerable
    <3>3. \A q \in Servers : ~(sm[q].at = "carrying" /\ sm[q].vol = i /\ sm[q].hand.slot = k)
      <4> SUFFICES ASSUME NEW q \in Servers, sm[q].at = "carrying", sm[q].vol = i PROVE FALSE
        OBVIOUS
      <4>1. OwnersOK(v, sm)
        BY <1>13 DEF Core
      <4>2. q = p
        BY <1>10, <4>1, OneServer DEF Serving
      <4> QED
        BY <1>10, <4>2
    <3>4. /\ Core(x, cl, sm, y, n, a) /\ RoomOK(x, y, ls) /\ SameHeads(v, x)
          /\ x[i].slots[k].generation = v[i].slots[k].generation
          /\ x[i].slots[k].state \in {"free", "done"}
      BY <1>3, <1>5, <1>13, <3>1, <3>3, AnswersSlot
    <3>5. Core(x, cl, sx, y, n, a)
      <4>1. ServerMoved(sm, sx, p)
        BY <1>7, <1>10 DEF ServerMoved
      <4>2. LateFits(sx[p], x[sm[p].vol])
        <5>1. h.generation \in Int
          BY <1>5, UblkAssumption DEF Requests
        <5> QED
          BY <1>2, <1>7, <1>10, <3>2, <3>4, <5>1 DEF LateFits
      <4>3. sx[p].at \in {"serving", "carrying"} /\ sx[p].at # "carrying" /\ sx[p].vol = sm[p].vol
            /\ sm[p].at \in Serving
        BY <1>7, <1>10 DEF Serving
      <4>4. Clean(y, p)
        BY <1>10, <3>4, ServerIsClean
      <4> QED
        BY <1>14, <3>4, <4>1, <4>2, <4>3, <4>4, ServerGoes
    <3> QED
      BY <1>1, <2>1, <3>4, <3>5
  <2>2. CASE ~Answerable(i, h) /\ vol' = vol /\ ev' = ev
    <3>1. x = v /\ y = w /\ ev'.count = n
      BY <1>1, <1>2, <2>2
    <3>2. ~(a <= 1)
      BY <1>1, <1>2, <1>12, <2>2 DEF Answerable, HandFits
    <3>3. sx[p].at \in {"serving", "carrying"} /\ sx[p].at # "carrying" /\ sx[p].vol = sv[p].vol
      BY <1>2, <1>7
    <3>4. Core(v, cl, sx, w, n, a)
      BY <1>3, <1>5, <1>7, <1>11, <1>14, <3>2, <3>3, ServerGoes
    <3> QED
      BY <1>3, <3>1, <3>4 DEF SameHeads
  <2> QED
    BY <1>6, <2>1, <2>2, AnswerIs
<1>16. AreasOK(x, held) /\ ScansOK(x, sv, scans, unwrapped, a)
  BY <1>3, <1>15, HeadsKeep
<1>17. ScansOK(x, sx, scans, unwrapped, a)
  BY <1>3, <1>7, <1>16, ScansMoved
<1>18. /\ held' = held /\ scans' = scans /\ unwrapped' = unwrapped /\ caller' = cl
       /\ killed' = killed /\ lostRoom' = ls /\ attached' = a /\ deadline' = deadline
  BY <1>1 DEF Done
<1>19. killed \subseteq Killable /\ ls \subseteq Volumes /\ deadline \in [Callers -> {"none", "ahead", "passed"}]
  BY <1>1 DEF IInv
<1> QED
  BY <1>2, <1>15, <1>16, <1>17, <1>18, <1>19 DEF IInv

LEMMA DoneAgainKeeps ==
    ASSUME IInv, NEW p \in Servers, DoneAgain(p)
    PROVE  IInv'
<1>1. PICK v, cl, sv, w, n, a, ls : /\ v = vol /\ cl = caller /\ sv = server /\ ls = lostRoom
                                    /\ w = ev.wait /\ n = ev.count /\ a = attached
  OBVIOUS
<1>2. PICK i, h, k, x, y : /\ i = sv[p].vol /\ h = sv[p].last /\ k = h.slot
                           /\ x = vol' /\ y = ev'.wait
  OBVIOUS
<1>3. /\ Core(v, cl, sv, w, n, a) /\ RoomOK(v, w, ls) /\ sv[p].at \in {"serving", "carrying", "idle"}
      /\ AreasOK(v, held) /\ ScansOK(v, sv, scans, unwrapped, a) /\ h # NoRequest
  BY <1>1, <1>2 DEF IInv, DoneAgain
<1>4. /\ VolumesTyped(v) /\ TagsOK(v, sv, a) /\ ServersTyped(sv) /\ OwnersOK(v, sv)
  BY <1>3 DEF Core
<1>5. i \in Volumes /\ v[i].live /\ sv[p].at \in Serving /\ k \in Slots
  <2>1. i \in Volumes /\ v[i].live /\ sv[p].at \in Serving
    BY <1>2, <1>3, <1>4 DEF OwnersOK, ServersTyped, ServerRecords, Serving
  <2> QED
    BY <1>2, <1>3, <1>4, <2>1, TagHasSlot
<1>6. Answer(i, h, "stale")
  BY <1>1, <1>2 DEF DoneAgain
<1>7. a <= 1 => LateFits(sv[p], v[i])
  BY <1>2, <1>4, <1>5, TagsOf
<1>8. /\ Core(x, cl, sv, y, n, a) /\ RoomOK(x, y, ls) /\ SameHeads(v, x) /\ ev'.count = n
  <2>1. CASE /\ Answerable(i, h) /\ ev'.count = ev.count
             /\ Freed(vol, vol', ev.wait, ev'.wait, i, h.slot)
                \/ Answered(vol, vol', ev.wait, ev'.wait, i, h.slot, "stale")
    <3>1. Freed(v, x, w, y, i, k) \/ Answered(v, x, w, y, i, k, "stale")
      BY <1>1, <1>2, <2>1
    <3>2. /\ v[i].slots[k].generation = h.generation
          /\ v[i].slots[k].state \in {"taken", "abandoned"}
      BY <1>1, <1>2, <2>1 DEF Answerable
    <3>3. ~(a <= 1)
      BY <1>2, <1>3, <1>7, <3>2 DEF LateFits
    <3>4. Core(x, cl, sv, y, n, a) /\ RoomOK(x, y, ls) /\ SameHeads(v, x)
      BY <1>3, <1>5, <3>1, <3>3, AnswersSlot
    <3> QED
      BY <1>1, <2>1, <3>4
  <2>2. CASE ~Answerable(i, h) /\ vol' = vol /\ ev' = ev
    BY <1>1, <1>2, <1>3, <2>2 DEF SameHeads
  <2> QED
    BY <1>6, <2>1, <2>2, AnswerIs
<1>9. AreasOK(x, held) /\ ScansOK(x, sv, scans, unwrapped, a)
  BY <1>3, <1>8, HeadsKeep
<1>10. /\ held' = held /\ scans' = scans /\ unwrapped' = unwrapped /\ caller' = cl
       /\ killed' = killed /\ lostRoom' = ls /\ attached' = a /\ deadline' = deadline /\ server' = sv
  BY <1>1 DEF DoneAgain
<1>11. killed \subseteq Killable /\ ls \subseteq Volumes /\ deadline \in [Callers -> {"none", "ahead", "passed"}]
  BY <1>1 DEF IInv
<1> QED
  BY <1>2, <1>8, <1>9, <1>10, <1>11 DEF IInv

-----------------------------------------------------------------------------
(* The server comes and goes. *)

\* A server on no queue that goes where it waits on none.
LEMMA ServerElsewhere ==
    ASSUME NEW v, NEW cl, NEW sv, NEW w, NEW n, NEW a, Core(v, cl, sv, w, n, a),
           NEW p \in Servers, Clean(w, p), NEW sx, ServerMoved(sv, sx, p), sx[p].at # "waiting"
    PROVE  /\ WaitOK(w, QueuesFor(cl, sx))
           /\ sx[p].at \notin Listening => SleepOK(v, w, n, cl, sx)
<1>1. WaitOK(w, QueuesFor(cl, sv)) /\ SleepOK(v, w, n, cl, sv)
  BY DEF Core
<1>2. ServersTyped(sx) /\ \A q \in Servers : q # p => sx[q] = sv[q]
  BY DEF ServerMoved
<1>3. WaitOK(w, QueuesFor(cl, sx))
  <2>1. PICK Q : Q = QueuesFor(cl, sv)
    OBVIOUS
  <2>2. PICK R : R = QueuesFor(cl, sx)
    OBVIOUS
  <2>3. ASSUME NEW t \in Threads, t # p PROVE R[t] = Q[t]
    <3>1. t \in Servers => sx[t].at = sv[t].at /\ sx[t].vol = sv[t].vol
      BY <1>2, <2>3
    <3>2. QueuesFor(cl, sx)[t] = QueuesFor(cl, sv)[t]
      BY <3>1, QueuesForOthers
    <3> QED
      BY <2>1, <2>2, <3>2
  <2> QED
    BY <1>1, <2>1, <2>2, <2>3, Moving, Basics
<1>4. ASSUME sx[p].at \notin Listening PROVE SleepOK(v, w, n, cl, sx)
  <2>1. \A q \in Servers : sx[q].at \in Listening => sx[q] = sv[q]
    BY <1>2, <1>4
  <2> QED
    BY <1>1, <2>1 DEF SleepOK
<1> QED
  BY <1>3, <1>4

LEMMA AttachPickKeeps ==
    ASSUME IInv, NEW p \in Servers, AttachPick(p)
    PROVE  IInv'
<1>1. PICK v, cl, sv, w, n, a : /\ v = vol /\ cl = caller /\ sv = server
                                /\ w = ev.wait /\ n = ev.count /\ a = attached
  OBVIOUS
<1>2. PICK i, sx : i = Min(FreeVolumes) /\ sx = server'
  OBVIOUS
<1>3. /\ Core(v, cl, sv, w, n, a) /\ ScansOK(v, sv, scans, unwrapped, a)
      /\ sv[p].at = "off" /\ FreeVolumes # {} /\ a < Attachments
      /\ sx = [sv EXCEPT ![p].at = "picked", ![p].vol = i]
  BY <1>1, <1>2 DEF IInv, AttachPick
<1>4. /\ ServersTyped(sv) /\ OwnersOK(v, sv) /\ TagsOK(v, sv, a)
  BY <1>3 DEF Core
<1>5. i \in Volumes /\ ~v[i].live /\ v[i].users = 0 /\ i # None
  <2>1. FreeVolumes \in SUBSET Nat
    BY Basics DEF FreeVolumes
  <2>2. i \in FreeVolumes
    BY <1>2, <1>3, <2>1, MinIsMember
  <2> QED
    BY <1>1, <2>2, Basics DEF FreeVolumes
<1>6. ServerMoved(sv, sx, p) /\ sx[p].at = "picked" /\ sx[p].vol = i /\ sx[p].last = sv[p].last
  BY <1>3, <1>4, <1>5 DEF ServerMoved, ServersTyped, ServerRecords, ServerPlaces
<1>7. Clean(w, p)
  BY <1>3, ServerIsClean
<1>8. WaitOK(w, QueuesFor(cl, sx)) /\ SleepOK(v, w, n, cl, sx)
  BY <1>3, <1>6, <1>7, ServerElsewhere DEF Listening
<1>9. OwnersOK(v, sx)
  <2> SUFFICES ASSUME NEW q \in Servers
               PROVE  /\ sx[q].vol = None <=> sx[q].at = "off"
                      /\ sx[q].at = "picked" => ~v[sx[q].vol].live /\ v[sx[q].vol].users = 0
                      /\ sx[q].at \in Serving => v[sx[q].vol].live /\ v[sx[q].vol].server = q
                      /\ sx[q].at = "carrying" =>
                            sx[q].hand # NoRequest /\ sx[q].hand.data = v[sx[q].vol].data
    BY DEF OwnersOK
  <2>1. CASE q = p
    BY <1>5, <1>6, <2>1 DEF Serving
  <2>2. CASE q # p
    BY <1>4, <1>6, <2>2 DEF OwnersOK, ServerMoved
  <2> QED
    BY <2>1, <2>2
<1>10. a \in 0..Attachments /\ Attachments \in Nat
  BY <1>3, UblkAssumption DEF ScansOK
<1>11. TagsOK(v, sx, a + 1)
  <2> SUFFICES ASSUME a + 1 <= 1
               PROVE  /\ \A j \in Volumes, k \in Slots : v[j].slots[k].answer # "stale"
                      /\ \A q \in Servers :
                            /\ sx[q].last = NoRequest
                            /\ sx[q].at \in {"off", "picked"}
    BY <1>10 DEF TagsOK, Serving
  <2>1. a = 0 /\ a <= 1
    BY <1>10, SMTT(60)
  <2>2. \A q \in Servers : sv[q].at = "off" /\ sv[q].last = NoRequest
    BY <1>3, <1>4, <2>1 DEF ScansOK, TagsOK
  <2>3. \A q \in Servers : sx[q].last = sv[q].last /\ sx[q].at \in {sv[q].at, "picked"}
    BY <1>6 DEF ServerMoved
  <2> QED
    BY <1>4, <2>1, <2>2, <2>3 DEF TagsOK
<1>12. Core(v, cl, sx, w, n, a + 1)
  BY <1>3, <1>6, <1>8, <1>9, <1>11 DEF Core, ServerMoved
<1>13. ScansOK(v, sx, scans, unwrapped, a + 1)
  <2>1. \A j \in Volumes : scans[j] \in Nat /\ scans[j] <= a
    BY <1>3 DEF ScansOK
  <2>2. a + 1 \in 0..Attachments /\ a + 1 # 0 /\ (a + 1 <= 1 => a <= 1)
    BY <1>3, <1>10
  <2>3. \A j \in Volumes : scans[j] <= a + 1 /\ scans[j] < a + 1
    BY <1>10, <2>1
  <2>4. \A q \in Servers : sx[q].at \in {"picked", "filled"} => sx[q].vol \in Volumes
    BY <1>6, <1>9 DEF ServerMoved, OwnersOK, ServersTyped, ServerRecords
  <2> QED
    BY <1>3, <2>2, <2>3, <2>4 DEF ScansOK
<1>14. /\ vol' = v /\ held' = held /\ scans' = scans /\ unwrapped' = unwrapped /\ caller' = cl
       /\ killed' = killed /\ lostRoom' = lostRoom /\ attached' = a + 1 /\ deadline' = deadline /\ ev' = ev
  BY <1>1 DEF AttachPick
<1>15. /\ killed \subseteq Killable /\ lostRoom \subseteq Volumes /\ deadline \in [Callers -> {"none", "ahead", "passed"}]
       /\ AreasOK(v, held) /\ RoomOK(v, w, lostRoom)
  BY <1>1 DEF IInv
<1> QED
  BY <1>1, <1>2, <1>12, <1>13, <1>14, <1>15 DEF IInv

\* What a server is once it is off.
LEMMA ServerOff ==
    ASSUME NEW sv, ServersTyped(sv), NEW p \in Servers,
           NEW sx, sx = [sv EXCEPT ![p] = [Off EXCEPT !.last = sv[p].last]]
    PROVE  /\ ServerMoved(sv, sx, p) /\ sx[p].at = "off" /\ sx[p].vol = None
           /\ sx[p].last = sv[p].last
<1>1. PICK r : r = [Off EXCEPT !.last = sv[p].last]
  OBVIOUS
<1>2. sv[p].last \in Requests /\ NoRequest \in Requests
  BY TagHasSlot
<1>3. /\ r \in ServerRecords /\ r.at = "off" /\ r.vol = None /\ r.last = sv[p].last
  BY <1>1, <1>2 DEF Off, ServerRecords, ServerPlaces
<1>4. sx = [sv EXCEPT ![p] = r]
  BY <1>1
<1> QED
  BY <1>3, <1>4 DEF ServerMoved, ServersTyped

LEMMA AttachFailKeeps ==
    ASSUME IInv, NEW p \in Servers, AttachFail(p)
    PROVE  IInv'
<1>1. PICK v, cl, sv, w, n, a : /\ v = vol /\ cl = caller /\ sv = server
                                /\ w = ev.wait /\ n = ev.count /\ a = attached
  OBVIOUS
<1>2. PICK sx : sx = server'
  OBVIOUS
<1>3. /\ Core(v, cl, sv, w, n, a) /\ ScansOK(v, sv, scans, unwrapped, a) /\ sv[p].at = "picked"
      /\ sx = [sv EXCEPT ![p] = [Off EXCEPT !.last = sv[p].last]]
  BY <1>1, <1>2 DEF IInv, AttachFail
<1>4. /\ ServersTyped(sv) /\ OwnersOK(v, sv) /\ TagsOK(v, sv, a)
  BY <1>3 DEF Core
<1>5. ServerMoved(sv, sx, p) /\ sx[p].at = "off" /\ sx[p].vol = None /\ sx[p].last = sv[p].last
  BY <1>3, <1>4, ServerOff
<1>6. Clean(w, p)
  BY <1>3, ServerIsClean
<1>7. WaitOK(w, QueuesFor(cl, sx)) /\ SleepOK(v, w, n, cl, sx)
  BY <1>3, <1>5, <1>6, ServerElsewhere DEF Listening
<1>8. OwnersOK(v, sx)
  BY <1>4, <1>5, SMTT(60) DEF OwnersOK, ServerMoved, Serving
<1>9. TagsOK(v, sx, a)
  BY <1>3, <1>4, <1>5, ZenonT(60) DEF TagsOK, ServerMoved, Serving
<1>10. Core(v, cl, sx, w, n, a)
  BY <1>3, <1>5, <1>7, <1>8, <1>9 DEF Core, ServerMoved
<1>11. ScansOK(v, sx, scans, unwrapped, a)
  BY <1>3, <1>5, ScansMoved
<1>12. /\ vol' = v /\ held' = held /\ scans' = scans /\ unwrapped' = unwrapped /\ caller' = cl
       /\ killed' = killed /\ lostRoom' = lostRoom /\ attached' = a /\ deadline' = deadline /\ ev' = ev
  BY <1>1 DEF AttachFail
<1>13. /\ killed \subseteq Killable /\ lostRoom \subseteq Volumes /\ deadline \in [Callers -> {"none", "ahead", "passed"}]
       /\ AreasOK(v, held) /\ RoomOK(v, w, lostRoom)
  BY <1>1 DEF IInv
<1> QED
  BY <1>1, <1>2, <1>10, <1>11, <1>12, <1>13 DEF IInv

\* A server that has attached goes back to its loop; as before, it hears of
\* offers by the doorbell.
LEMMA ServerFromFilled ==
    ASSUME NEW v, NEW cl, NEW sv, NEW w, NEW n, NEW a, Core(v, cl, sv, w, n, a),
           NEW p \in Servers, sv[p].at = "filled",
           NEW sx, ServerMoved(sv, sx, p), sx[p].at = "idle", sx[p].vol = sv[p].vol,
           sx[p].last = sv[p].last
    PROVE  Core(v, cl, sx, w, n, a)
<1>1. /\ ServersTyped(sv) /\ OwnersOK(v, sv) /\ TagsOK(v, sv, a) /\ SleepOK(v, w, n, cl, sv)
  BY DEF Core
<1>2. ServersTyped(sx) /\ \A q \in Servers : q # p => sx[q] = sv[q]
  BY DEF ServerMoved
<1>3. Clean(w, p) /\ Ready(w, p)
  BY ServerIsClean DEF Clean
<1>4. WaitOK(w, QueuesFor(cl, sx))
  BY <1>3, ServerElsewhere
<1>5. OwnersOK(v, sx)
  <2> SUFFICES ASSUME NEW q \in Servers
               PROVE  /\ sx[q].vol = None <=> sx[q].at = "off"
                      /\ sx[q].at = "picked" => ~v[sx[q].vol].live /\ v[sx[q].vol].users = 0
                      /\ sx[q].at \in Serving => v[sx[q].vol].live /\ v[sx[q].vol].server = q
                      /\ sx[q].at = "carrying" =>
                            sx[q].hand # NoRequest /\ sx[q].hand.data = v[sx[q].vol].data
    BY DEF OwnersOK
  <2>1. CASE q = p
    BY <1>1, <2>1 DEF OwnersOK, Serving
  <2>2. CASE q # p
    BY <1>1, <1>2, <2>2 DEF OwnersOK
  <2> QED
    BY <2>1, <2>2
<1>6. TagsOK(v, sx, a)
  <2> SUFFICES ASSUME a <= 1, NEW q \in Servers
               PROVE  /\ a = 0 \/ sx[q].at = "picked" => sx[q].last = NoRequest
                      /\ sx[q].at = "carrying" => HandFits(sx[q], v[sx[q].vol])
                      /\ sx[q].at \in Serving => LateFits(sx[q], v[sx[q].vol])
    BY <1>1, ZenonT(60) DEF TagsOK, HandFits, LateFits
  <2>1. CASE q = p
    <3>1. sv[p].at \in Serving
      BY DEF Serving
    <3>2. LateFits(sv[p], v[sv[p].vol]) /\ (a = 0 => sv[p].last = NoRequest)
      BY <1>1, <3>1, TagsOf
    <3>3. LateFits(sx[p], v[sx[p].vol])
      BY <3>2 DEF LateFits
    <3> QED
      BY <2>1, <3>2, <3>3
  <2>2. CASE q # p
    BY <1>1, <1>2, <2>2, ZenonT(60) DEF TagsOK, HandFits, LateFits
  <2> QED
    BY <2>1, <2>2, SMTT(60)
<1>7. SleepOK(v, w, n, cl, sx)
  <2>1. ASSUME NEW q \in Servers, sx[q].at \in Listening
        PROVE  sv[q].at \in Listening /\ sx[q].vol = sv[q].vol
    BY <1>2, <2>1 DEF Listening
  <2> QED
    BY <1>1, <2>1 DEF SleepOK
<1> QED
  BY <1>2, <1>4, <1>5, <1>6, <1>7 DEF Core

LEMMA PublishKeeps ==
    ASSUME IInv, NEW p \in Servers, Publish(p)
    PROVE  IInv'
<1>1. PICK v, cl, sv, w, n, a : /\ v = vol /\ cl = caller /\ sv = server
                                /\ w = ev.wait /\ n = ev.count /\ a = attached
  OBVIOUS
<1>2. PICK i, x, sx, sc : i = sv[p].vol /\ x = vol' /\ sx = server' /\ sc = scans'
  OBVIOUS
<1>3. /\ Core(v, cl, sv, w, n, a) /\ ScansOK(v, sv, scans, unwrapped, a) /\ sv[p].at = "filled"
      /\ sx = [sv EXCEPT ![p].at = "idle"] /\ AreasOK(v, held) /\ RoomOK(v, w, lostRoom)
  BY <1>1, <1>2 DEF IInv, Publish, Goes
<1>4. /\ VolumesTyped(v) /\ CallersTyped(cl) /\ PlacesOK(cl) /\ ServersTyped(sv) /\ OwnersOK(v, sv)
      /\ TagsOK(v, sv, a) /\ UsersOK(v, cl) /\ SlotsOK(v, cl) /\ SleepOK(v, w, n, cl, sv)
      /\ WaitOK(w, QueuesFor(cl, sv))
  BY <1>3 DEF Core
<1>5. i \in Volumes /\ v[i].live /\ v[i].server = p /\ sv[p].at \in Serving
  BY <1>2, <1>3, <1>4 DEF OwnersOK, ServersTyped, ServerRecords, Serving
<1>6. x = [v EXCEPT ![i].published = TRUE] /\ sc = [scans EXCEPT ![i] = @ + 1]
  <2>1. Owns(p)
    BY <1>1, <1>2, <1>5, Basics DEF Owns
  <2> QED
    BY <1>1, <1>2, <2>1 DEF Publish
<1>7. /\ VolumesTyped(x) /\ x[i].published /\ \A j \in Volumes : j # i => x[j] = v[j]
      /\ \A j \in Volumes : /\ x[j].live = v[j].live /\ x[j].server = v[j].server
                            /\ x[j].data = v[j].data /\ x[j].users = v[j].users
                            /\ x[j].slots = v[j].slots
  BY <1>4, <1>5, <1>6 DEF VolumesTyped, VolumeRecords
<1>8. /\ ServerMoved(sv, sx, p) /\ sx[p].at = "idle" /\ sx[p].vol = sv[p].vol
      /\ sx[p].last = sv[p].last
  <2>1. Placed(sv, sx, p, "idle")
    BY <1>3, <1>4, ServerPlaced DEF ServerPlaces
  <2> QED
    BY <2>1 DEF Placed
<1>9. Core(v, cl, sx, w, n, a)
  BY <1>3, <1>8, ServerFromFilled
<1>10. Core(x, cl, sx, w, n, a)
  <2>1. /\ ServersTyped(sx) /\ OwnersOK(v, sx) /\ TagsOK(v, sx, a)
        /\ SleepOK(v, w, n, cl, sx) /\ WaitOK(w, QueuesFor(cl, sx))
    BY <1>9 DEF Core
  <2>2. \A q \in Servers : sx[q].at # "off" => sx[q].vol \in Volumes
    BY <2>1 DEF OwnersOK, ServersTyped, ServerRecords
  <2>3. UsersOK(x, cl)
    BY <1>4, <1>7 DEF UsersOK
  <2>4. OwnersOK(x, sx)
    BY <1>7, <2>1, <2>2, SMTT(60) DEF OwnersOK, Serving
  <2>5. SlotsOK(x, cl)
    <3>1. \A c \in Callers : cl[c].slot # None => cl[c].vol \in Volumes
      BY <1>4 DEF PlacesOK, CallersTyped, CallerRecords
    <3> QED
      BY <1>4, <1>7, <3>1, SMTT(60) DEF SlotsOK
  <2>6. TagsOK(x, sx, a)
    <3>1. \A q \in Servers : sx[q].at # "off" => x[sx[q].vol].slots = v[sx[q].vol].slots
      BY <1>7, <2>2
    <3>2. \A j \in Volumes : x[j].slots = v[j].slots
      BY <1>7
    <3> QED
      BY <2>1, <3>1, <3>2 DEF TagsOK, Serving
  <2>7. SleepOK(x, w, n, cl, sx)
    <3>1. \A c \in Callers : ~Ready(w, c) => cl[c].vol \in Volumes
      BY <1>4, WhoWaits DEF PlacesOK, CallersTyped, CallerRecords
    <3>2. \A q \in Servers : sx[q].at \in Listening => x[sx[q].vol].slots = v[sx[q].vol].slots
      BY <1>7, <2>2 DEF Listening
    <3>3. \A c \in Callers : ~Ready(w, c) =>
              x[cl[c].vol].slots = v[cl[c].vol].slots /\ x[cl[c].vol].live = v[cl[c].vol].live
      BY <1>7, <3>1
    <3> QED
      BY <2>1, <3>2, <3>3 DEF SleepOK
  <2> QED
    BY <1>7, <1>9, <2>1, <2>3, <2>4, <2>5, <2>6, <2>7 DEF Core
<1>11. AreasOK(x, held)
  <2>1. {x[j].data : j \in Volumes} = {v[j].data : j \in Volumes}
    BY <1>7
  <2> QED
    BY <1>3, <1>7, <2>1 DEF AreasOK
<1>12. RoomOK(x, w, lostRoom)
  <2>1. \A j \in Volumes : FreeIn(x, j) = FreeIn(v, j)
    BY <1>7 DEF FreeIn
  <2> QED
    BY <1>3, <1>7, <2>1 DEF RoomOK
<1>13. ScansOK(x, sx, sc, unwrapped, a)
  <2>1. scans \in [Volumes -> Nat] /\ a \in Nat /\ scans[i] < a /\ \A j \in Volumes : scans[j] <= a
    BY <1>2, <1>3, UblkAssumption DEF ScansOK
  <2>2. /\ sc \in [Volumes -> Nat] /\ sc[i] = scans[i] + 1
        /\ \A j \in Volumes : j # i => sc[j] = scans[j]
    BY <1>5, <1>6, <2>1
  <2>3. \A j \in Volumes : sc[j] <= a
    BY <2>1, <2>2
  <2>4. ASSUME NEW q \in Servers, sx[q].at \in {"picked", "filled"}
        PROVE  sc[sx[q].vol] < a
    <3>1. q # p /\ sx[q] = sv[q]
      BY <1>8, <2>4 DEF ServerMoved
    <3>2. sx[q].vol \in Volumes
      BY <1>4, <2>4, <3>1 DEF OwnersOK, ServersTyped, ServerRecords
    <3>3. sx[q].vol # i
      BY <1>4, <1>5, <2>4, <3>1 DEF OwnersOK, Serving
    <3> QED
      BY <1>3, <2>2, <2>4, <3>1, <3>2, <3>3 DEF ScansOK
  <2>5. a <= 1 => \A j \in Volumes : sc[j] > 0 /\ x[j].live => x[j].published
    <3> SUFFICES ASSUME a <= 1, NEW j \in Volumes, sc[j] > 0, x[j].live PROVE x[j].published
      OBVIOUS
    <3>1. CASE j = i
      BY <1>7, <3>1
    <3>2. CASE j # i
      BY <1>3, <1>7, <2>2, <3>2 DEF ScansOK
    <3> QED
      BY <3>1, <3>2
  <2>6. \A q \in Servers : sx[q].at # "off" => a # 0
    BY <1>3, <1>8 DEF ScansOK, ServerMoved
  <2> QED
    BY <1>3, <2>2, <2>3, <2>4, <2>5, <2>6 DEF ScansOK
<1>14. /\ held' = held /\ unwrapped' = unwrapped /\ caller' = cl
       /\ killed' = killed /\ lostRoom' = lostRoom /\ attached' = a /\ deadline' = deadline /\ ev' = ev
  BY <1>1 DEF Publish
<1>15. killed \subseteq Killable /\ lostRoom \subseteq Volumes /\ deadline \in [Callers -> {"none", "ahead", "passed"}]
  BY DEF IInv
<1> QED
  BY <1>1, <1>2, <1>10, <1>11, <1>12, <1>13, <1>14, <1>15 DEF IInv

\* Nobody is on a volume that is not live and has no users.
LEMMA NobodyOn ==
    ASSUME NEW v, NEW cl, NEW sv, NEW w, NEW n, NEW a, Core(v, cl, sv, w, n, a),
           NEW i \in Volumes, ~v[i].live, v[i].users = 0
    PROVE  /\ \A c \in Callers : cl[c].vol # i
           /\ \A q \in Servers : sv[q].vol = i => sv[q].at \notin Serving
           /\ \A q \in QueuesOf(i) : \A t : ~Queued(w, q, t)
<1>1. /\ CallersTyped(cl) /\ ServersTyped(sv) /\ PlacesOK(cl) /\ UsersOK(v, cl) /\ OwnersOK(v, sv)
      /\ WaitOK(w, QueuesFor(cl, sv))
  BY DEF Core
<1>2. \A c \in Callers : cl[c].vol # i
  <2>1. Cardinality(UsersOf(cl, i)) = 0 /\ IsFiniteSet(UsersOf(cl, i))
    BY <1>1, UsersCount DEF UsersOK
  <2>2. UsersOf(cl, i) = {}
    BY <2>1, FS_EmptySet
  <2> QED
    BY <2>2 DEF UsersOf
<1>3. \A q \in Servers : sv[q].vol = i => sv[q].at \notin Serving
  BY <1>1 DEF OwnersOK
<1>4. ASSUME NEW q \in QueuesOf(i), NEW t, Queued(w, q, t) PROVE FALSE
  <2>1. q \in Queues /\ (q = Room(i) \/ q = Doorbell(i) \/ \E k \in Slots : q = SlotQueue(i, k))
    BY <1>4, QueuesOfVolume
  <2>2. w.queue[q] \in Seq(Threads)
    BY <1>1, <2>1, WaitTypes DEF WaitOK
  <2>3. t \in Threads
    BY <1>4, <2>2 DEF Queued
  <2>4. CASE t \in Callers
    BY <1>1, <1>2, <1>4, <2>1, <2>4, WhoWaits
  <2>5. CASE t \in Servers
    BY <1>1, <1>3, <1>4, <2>1, <2>5, WhoWaits DEF Serving
  <2> QED
    BY <2>3, <2>4, <2>5, Basics
<1> QED
  BY <1>2, <1>3, <1>4

\* x is v with volume i attached afresh by server p.
Filled(v, x, i, p, data) ==
    /\ VolumesTyped(x) /\ \A j \in Volumes : j # i => x[j] = v[j]
    /\ x[i].live /\ x[i].server = p /\ x[i].data = data /\ ~x[i].published /\ x[i].users = 0
    /\ \A k \in Slots : x[i].slots[k] = FreeSlotRecord

LEMMA FillsVolume ==
    ASSUME NEW v, VolumesTyped(v), NEW i \in Volumes, NEW p \in Servers, NEW data \in Segments,
           NEW x, x = [v EXCEPT ![i] = [NoVolume EXCEPT !.live = TRUE, !.server = p, !.data = data]]
    PROVE  Filled(v, x, i, p, data)
<1>1. PICK r : r = [NoVolume EXCEPT !.live = TRUE, !.server = p, !.data = data]
  OBVIOUS
<1>2. PICK f : f = [k \in Slots |-> FreeSlotRecord]
  OBVIOUS
<1>3. FreeSlotRecord \in SlotRecords
  BY UblkAssumption DEF FreeSlotRecord, SlotRecords, SlotStates
<1>4. f \in [Slots -> SlotRecords] /\ \A k \in Slots : f[k] = FreeSlotRecord
  BY <1>2, <1>3
<1>5. r = [live |-> TRUE, server |-> p, data |-> data, published |-> FALSE, users |-> 0, slots |-> f]
  BY <1>1, <1>2 DEF NoVolume
<1>6. r \in VolumeRecords
  BY <1>4, <1>5 DEF VolumeRecords
<1>7. x = [v EXCEPT ![i] = r]
  BY <1>1
<1>8. VolumesTyped(x) /\ x[i] = r /\ \A j \in Volumes : j # i => x[j] = v[j]
  BY <1>6, <1>7 DEF VolumesTyped
<1>9. /\ r.live /\ r.server = p /\ r.data = data /\ ~r.published /\ r.users = 0
      /\ \A k \in Slots : r.slots[k] = FreeSlotRecord
  BY <1>4, <1>5
<1>10. /\ x[i].live /\ x[i].server = p /\ x[i].data = data /\ ~x[i].published /\ x[i].users = 0
       /\ \A k \in Slots : x[i].slots[k] = FreeSlotRecord
  BY <1>8, <1>9
<1> QED
  BY <1>8, <1>10 DEF Filled

\* attach writes the record of a volume that nobody is on.
LEMMA CoreFilled ==
    ASSUME NEW v, NEW cl, NEW sv, NEW w, NEW n, NEW a, Core(v, cl, sv, w, n, a),
           NEW p \in Servers, NEW i \in Volumes, sv[p].vol = i, sv[p].at = "picked",
           \A q \in Servers : sv[q].at = "picked" /\ sv[q].vol = i => q = p,
           NEW data \in Segments, NEW x, Filled(v, x, i, p, data), a # 0,
           NEW m, Counted(n, m, i), m[Doorbell(i)] = 0,
           NEW sx, Placed(sv, sx, p, "filled")
    PROVE  Core(x, cl, sx, w, m, a)
<1>1. /\ VolumesTyped(v) /\ CallersTyped(cl) /\ PlacesOK(cl) /\ ServersTyped(sv) /\ OwnersOK(v, sv)
      /\ TagsOK(v, sv, a) /\ UsersOK(v, cl) /\ SlotsOK(v, cl) /\ SleepOK(v, w, n, cl, sv)
      /\ WaitOK(w, QueuesFor(cl, sv))
  BY DEF Core
<1>2. ~v[i].live /\ v[i].users = 0
  BY <1>1 DEF OwnersOK
<1>3. /\ \A c \in Callers : cl[c].vol # i
      /\ \A q \in Servers : sv[q].vol = i => sv[q].at \notin Serving
  BY <1>2, NobodyOn
<1>4. \A q \in Servers : q # p => sv[q].vol # i /\ sx[q] = sv[q]
  <2>1. \A q \in Servers : sv[q].vol # None => sv[q].at \in Serving \cup {"picked"}
    BY <1>1 DEF OwnersOK, ServersTyped, ServerRecords, ServerPlaces, Serving
  <2> QED
    BY <1>3, <2>1, Basics DEF Placed, ServerMoved
<1>5. /\ VolumesTyped(x) /\ \A j \in Volumes : j # i => x[j] = v[j]
      /\ x[i].live /\ x[i].server = p /\ x[i].data = data /\ x[i].users = 0
      /\ \A k \in Slots : /\ x[i].slots[k].answer = "none"
                          /\ x[i].slots[k].state = "free"
  BY DEF Filled, FreeSlotRecord
<1>6. /\ ServersTyped(sx) /\ sx[p].at = "filled" /\ sx[p].vol = i /\ sx[p].last = sv[p].last
  BY DEF Placed, ServerMoved
<1>7. \A q \in Servers : q # p /\ sv[q].at # "off" => sv[q].vol \in Volumes
  BY <1>1 DEF OwnersOK, ServersTyped, ServerRecords
<1>8. \A q \in Servers : q # p /\ sv[q].at # "off" => x[sv[q].vol] = v[sv[q].vol]
  BY <1>4, <1>5, <1>7
<1>9. \A c \in Callers : cl[c].at # "outside" => x[cl[c].vol] = v[cl[c].vol]
  BY <1>1, <1>3, <1>5 DEF PlacesOK, CallersTyped, CallerRecords
<1>10. UsersOK(x, cl)
  <2> SUFFICES ASSUME NEW j \in Volumes
               PROVE  /\ x[j].users = Cardinality(UsersOf(cl, j))
                      /\ x[j].data # None <=> x[j].live \/ x[j].users > 0
    BY DEF UsersOK
  <2>1. CASE j = i
    BY <1>1, <1>2, <1>5, <2>1, Basics DEF UsersOK
  <2>2. CASE j # i
    BY <1>1, <1>5, <2>2 DEF UsersOK
  <2> QED
    BY <2>1, <2>2
<1>11. OwnersOK(x, sx)
  <2> SUFFICES ASSUME NEW q \in Servers
               PROVE  /\ sx[q].vol = None <=> sx[q].at = "off"
                      /\ sx[q].at = "picked" => ~x[sx[q].vol].live /\ x[sx[q].vol].users = 0
                      /\ sx[q].at \in Serving => x[sx[q].vol].live /\ x[sx[q].vol].server = q
                      /\ sx[q].at = "carrying" =>
                            sx[q].hand # NoRequest /\ sx[q].hand.data = x[sx[q].vol].data
    BY DEF OwnersOK
  <2>1. CASE q = p
    BY <1>5, <1>6, <2>1, Basics
  <2>2. CASE q # p
    BY <1>1, <1>4, <1>8, <2>2 DEF OwnersOK, Serving
  <2> QED
    BY <2>1, <2>2
<1>12. SlotsOK(x, cl)
  <2>1. \A c \in Callers : cl[c].slot # None => x[cl[c].vol] = v[cl[c].vol]
    BY <1>1, <1>9 DEF PlacesOK
  <2> QED
    BY <1>1, <2>1, SMTT(60) DEF SlotsOK
<1>13. TagsOK(x, sx, a)
  <2> SUFFICES ASSUME a <= 1 PROVE TagsOK(x, sx, a)
    BY SMTT(60) DEF TagsOK
  <2>1. \A j \in Volumes, k \in Slots : x[j].slots[k].answer # "stale"
    BY <1>1, <1>5, SMTT(60) DEF TagsOK
  <2>2. sx[p].last = NoRequest
    BY <1>1, <1>6, SMTT(60) DEF TagsOK
  <2>3. ASSUME NEW q \in Servers
        PROVE  /\ a = 0 \/ sx[q].at = "picked" => sx[q].last = NoRequest
               /\ sx[q].at = "carrying" =>
                    LET s == x[sx[q].vol].slots[sx[q].hand.slot] IN
                    /\ s.generation = sx[q].hand.generation
                    /\ s.state \in {"taken", "abandoned"}
               /\ sx[q].at \in Serving /\ sx[q].last # NoRequest =>
                    LET s == x[sx[q].vol].slots[sx[q].last.slot] IN
                    /\ sx[q].last.generation <= s.generation
                    /\ sx[q].last.generation = s.generation => s.state \in {"free", "done"}
    <3>1. CASE q = p
      BY <1>6, <2>2, <3>1, SMTT(60)
    <3>2. CASE q # p
      <4>1. sx[q] = sv[q] /\ (sv[q].at # "off" => x[sv[q].vol] = v[sv[q].vol])
        BY <1>4, <1>8, <3>2
      <4> QED
        BY <1>1, <4>1 DEF TagsOK, Serving
    <3> QED
      BY <3>1, <3>2, ZenonT(60)
  <2> QED
    BY <2>1, <2>3, SMTT(60) DEF TagsOK
<1>14. WaitOK(w, QueuesFor(cl, sx)) /\ Ready(w, p)
  <2>1. Clean(w, p)
    BY ServerIsClean
  <2>2. ServerMoved(sv, sx, p) /\ sx[p].at # "waiting"
    BY DEF Placed
  <2> QED
    BY <2>1, <2>2, ServerElsewhere DEF Clean
<1>15. SleepOK(x, w, m, cl, sx)
  <2>1. \A c \in Callers : ~Ready(w, c) => x[cl[c].vol] = v[cl[c].vol]
    BY <1>1, <1>9, WhoWaits
  <2>2. ASSUME NEW q \in Servers, sx[q].at \in Listening, q # p
        PROVE  /\ sx[q] = sv[q] /\ x[sx[q].vol] = v[sx[q].vol]
               /\ m[Doorbell(sx[q].vol)] = n[Doorbell(sx[q].vol)]
    <3>1. q # p /\ sx[q] = sv[q] /\ sv[q].vol # i /\ sv[q].at # "off"
      BY <1>4, <1>6, <2>2 DEF Listening
    <3>2. Doorbell(sv[q].vol) \in Bells /\ Doorbell(sv[q].vol) # Doorbell(i)
      BY <1>7, <3>1, Names
    <3> QED
      BY <1>8, <3>1, <3>2 DEF Counted
  <2>3. ASSUME NEW q \in Servers, sx[q].at \in Listening
        PROVE  /\ ~Ready(w, q) => m[Doorbell(sx[q].vol)] = 0
               /\ m[Doorbell(sx[q].vol)] = 0 =>
                     \A k \in Slots : x[sx[q].vol].slots[k].state # "offered"
    <3>1. CASE q = p
      BY <1>5, <1>6, <3>1
    <3>2. CASE q # p
      BY <1>1, <2>2, <2>3, <3>2 DEF SleepOK
    <3> QED
      BY <3>1, <3>2
  <2> QED
    BY <1>1, <2>1, <2>3 DEF SleepOK
<1>16. m \in [Bells -> 0..MaxCount]
  BY DEF Counted
<1> QED
  BY <1>1, <1>5, <1>6, <1>10, <1>11, <1>12, <1>13, <1>14, <1>15, <1>16 DEF Core

LEMMA AttachFillKeeps ==
    ASSUME IInv, AttachesApart, NEW p \in Servers, NEW data \in Segments, AttachFill(p, data)
    PROVE  IInv'
<1>1. PICK v, cl, sv, w, n, a, hd : /\ v = vol /\ cl = caller /\ sv = server /\ hd = held
                                    /\ w = ev.wait /\ n = ev.count /\ a = attached
  OBVIOUS
<1>2. PICK i, x, sx, m, y : i = sv[p].vol /\ x = vol' /\ sx = server' /\ m = ev'.count /\ y = ev'.wait
  OBVIOUS
<1>3. /\ Core(v, cl, sv, w, n, a) /\ ScansOK(v, sv, scans, unwrapped, a) /\ AreasOK(v, hd)
      /\ RoomOK(v, w, lostRoom) /\ sv[p].at = "picked" /\ data \notin hd
      /\ x = [v EXCEPT ![i] = [NoVolume EXCEPT !.live = TRUE, !.server = p, !.data = data]]
      /\ sx = [sv EXCEPT ![p].at = "filled"] /\ m = [n EXCEPT ![Doorbell(i)] = 0]
      /\ y = [queue |-> [q \in Queues |-> IF q \in QueuesOf(i) THEN <<>> ELSE w.queue[q]],
              state |-> w.state, woken |-> w.woken]
  BY <1>1, <1>2 DEF IInv, AttachFill, Goes
<1>4. /\ VolumesTyped(v) /\ ServersTyped(sv) /\ OwnersOK(v, sv) /\ WaitOK(w, QueuesFor(cl, sv))
      /\ n \in [Bells -> 0..MaxCount] /\ UsersOK(v, cl)
  BY <1>3 DEF Core
<1>5. i \in Volumes /\ ~v[i].live /\ v[i].users = 0
  BY <1>2, <1>3, <1>4 DEF OwnersOK, ServersTyped, ServerRecords
<1>6. \A q \in Servers : sv[q].at = "picked" /\ sv[q].vol = i => q = p
  BY <1>1, <1>2, <1>3 DEF AttachesApart
<1>7. /\ \A c \in Callers : cl[c].vol # i
      /\ \A q \in QueuesOf(i) : \A t : ~Queued(w, q, t)
  BY <1>3, <1>5, NobodyOn
<1>8. Filled(v, x, i, p, data)
  BY <1>3, <1>4, <1>5, FillsVolume
<1>9. Placed(sv, sx, p, "filled")
  BY <1>3, <1>4, ServerPlaced DEF ServerPlaces
<1>10. Counted(n, m, i) /\ m[Doorbell(i)] = 0
  <2>1. 0 \in 0..MaxCount
    BY MaxCountAssumption
  <2>2. m \in [Bells -> 0..MaxCount]
    BY <1>3, <1>4, <2>1
  <2>3. \A b \in Bells : b # Doorbell(i) => m[b] = n[b]
    BY <1>3, <1>4
  <2>4. m[Doorbell(i)] = 0
    BY <1>3, <1>4, <1>5, Names
  <2> QED
    BY <2>2, <2>3, <2>4 DEF Counted
<1>11. y = w
  <2>1. w \in WaitRecords(Threads, Queues)
    BY <1>4 DEF WaitOK
  <2>2. w.queue \in [Queues -> Seq(Threads)]
    BY <2>1, WaitTypes
  <2>3. \A q \in Queues : q \in QueuesOf(i) => w.queue[q] = <<>>
    BY <1>7, <2>1, EmptyHasNobody
  <2>4. [q \in Queues |-> IF q \in QueuesOf(i) THEN <<>> ELSE w.queue[q]] = w.queue
    BY <2>2, <2>3
  <2>5. y = [queue |-> w.queue, state |-> w.state, woken |-> w.woken]
    BY <1>3, <2>4
  <2>6. w = [queue |-> w.queue, state |-> w.state, woken |-> w.woken]
    BY <2>1 DEF WaitRecords
  <2> QED
    BY <2>5, <2>6
<1>12. a # 0 /\ a \in Nat /\ scans[i] \in Nat /\ scans[i] < a
  BY <1>2, <1>3, <1>5, UblkAssumption DEF ScansOK
<1>13. Core(x, cl, sx, w, m, a)
  BY <1>2, <1>3, <1>5, <1>6, <1>8, <1>9, <1>10, <1>12, CoreFilled
<1>14. /\ \A j \in Volumes : j # i => x[j] = v[j]
       /\ x[i].live /\ x[i].data = data
  BY <1>8 DEF Filled
<1>15. AreasOK(x, hd \cup {data})
  <2>1. v[i].data = None
    BY <1>4, <1>5 DEF UsersOK
  <2>2. \A j \in Volumes : v[j].data # None => v[j].data \in hd
    BY <1>3 DEF AreasOK
  <2>3. \A j \in Volumes : j # i => x[j].data = v[j].data /\ v[j].data # data
    BY <1>3, <1>14, <2>2, Basics
  <2>4. {x[j].data : j \in Volumes} \ {None} = ({v[j].data : j \in Volumes} \ {None}) \cup {data}
    BY <1>5, <1>14, <2>1, <2>3, Basics
  <2>5. ASSUME NEW j \in Volumes, NEW k \in Volumes, x[j].data = x[k].data, x[j].data # None
        PROVE  j = k
    <3>1. CASE j = i \/ k = i
      BY <1>14, <2>3, <2>5, <3>1
    <3>2. CASE j # i /\ k # i
      BY <1>3, <2>3, <2>5, <3>2 DEF AreasOK
    <3> QED
      BY <3>1, <3>2
  <2>6. hd = {v[j].data : j \in Volumes} \ {None}
    BY <1>3 DEF AreasOK
  <2>7. hd \cup {data} = {x[j].data : j \in Volumes} \ {None}
    BY <2>4, <2>6
  <2> QED
    BY <2>5, <2>7 DEF AreasOK
<1>16. ScansOK(x, sx, scans, unwrapped, a)
  <2>1. \A q \in Servers : /\ sx[q].at # "off" => a # 0
                           /\ sx[q].at \in {"picked", "filled"} => scans[sx[q].vol] < a
    <3>1. sx[p].vol = i /\ \A q \in Servers : q # p => sx[q] = sv[q]
      BY <1>2, <1>9 DEF Placed, ServerMoved
    <3> QED
      BY <1>3, <1>12, <3>1 DEF ScansOK
  <2>2. a <= 1 => ~(scans[i] > 0)
    BY <1>12
  <2>3. a <= 1 => \A j \in Volumes : scans[j] > 0 /\ x[j].live => x[j].published
    <3> SUFFICES ASSUME a <= 1, NEW j \in Volumes, scans[j] > 0, x[j].live PROVE x[j].published
      OBVIOUS
    <3>1. j # i
      BY <2>2
    <3> QED
      BY <1>3, <1>14, <3>1 DEF ScansOK
  <2> QED
    BY <1>3, <2>1, <2>3 DEF ScansOK
<1>17. RoomOK(x, w, lostRoom')
  <2> SUFFICES ASSUME NEW j \in Volumes, x[j].live, j \notin lostRoom'
               PROVE  RoomAt(w, j, Cardinality(FreeIn(x, j)))
    BY DEF RoomOK
  <2>1. CASE j = i
    <3>1. Room(i) \in QueuesOf(i)
      BY DEF QueuesOf
    <3>2. Claimers(w, i) = {}
      BY <1>7, <3>1 DEF Claimers
    <3> QED
      BY <2>1, <3>2 DEF RoomAt
  <2>2. CASE j # i
    <3>1. x[j] = v[j] /\ FreeIn(x, j) = FreeIn(v, j)
      BY <1>14, <2>2 DEF FreeIn
    <3>2. j \notin lostRoom
      BY <1>1, <1>2, <2>2 DEF AttachFill
    <3> QED
      BY <1>3, <3>1, <3>2 DEF RoomOK
  <2> QED
    BY <2>1, <2>2
<1>18. /\ held' = hd \cup {data} /\ scans' = scans /\ unwrapped' = unwrapped /\ caller' = cl
       /\ killed' = killed /\ attached' = a /\ deadline' = deadline
  BY <1>1 DEF AttachFill
<1>19. /\ killed \subseteq Killable /\ lostRoom' \subseteq Volumes
       /\ deadline \in [Callers -> {"none", "ahead", "passed"}]
  BY DEF IInv, AttachFill
<1> QED
  BY <1>2, <1>11, <1>13, <1>15, <1>16, <1>17, <1>18, <1>19 DEF IInv

\* x is v with volume i torn down.
Down(v, x, i) ==
    /\ VolumesTyped(x) /\ \A j \in Volumes : j # i => x[j] = v[j]
    /\ ~x[i].live /\ x[i].users = v[i].users
    /\ x[i].data = IF v[i].users = 0 THEN None ELSE v[i].data
    /\ \A k \in Slots : x[i].slots[k] = TornDown(v[i].slots[k])

\* What becomes of a slot.
LEMMA SlotTornDown ==
    ASSUME NEW s \in SlotRecords
    PROVE  /\ TornDown(s) \in SlotRecords
           /\ s.state \in {"free", "done"} => TornDown(s) = s
           /\ s.state \notin {"free", "done"} =>
                 TornDown(s) # s /\ TornDown(s).state = "done" /\ TornDown(s).answer = "gone"
<1>1. "done" \in SlotStates
  BY DEF SlotStates
<1>2. CASE s.state \in {"free", "done"}
  BY <1>2 DEF TornDown
<1>3. CASE s.state \notin {"free", "done"}
  <2>1. PICK z : z = [s EXCEPT !.state = "done", !.answer = "gone"]
    OBVIOUS
  <2>2. TornDown(s) = z
    BY <1>3, <2>1 DEF TornDown
  <2>3. z \in SlotRecords /\ z.state = "done" /\ z.answer = "gone"
    BY <1>1, <2>1 DEF SlotRecords
  <2>4. z # s
    BY <1>3, <2>3
  <2> QED
    BY <1>3, <2>2, <2>3, <2>4
<1> QED
  BY <1>2, <1>3

LEMMA TearsDown ==
    ASSUME NEW v, VolumesTyped(v), NEW i \in Volumes,
           NEW down, down = [v[i] EXCEPT !.live = FALSE, !.published = FALSE,
                                !.slots = [k \in Slots |-> TornDown(v[i].slots[k])]],
           NEW x, x = [v EXCEPT ![i] = LetGoIfEmpty(down)]
    PROVE  Down(v, x, i)
<1>1. v[i] \in VolumeRecords
  BY DEF VolumesTyped
<1>2. PICK f : f = [k \in Slots |-> TornDown(v[i].slots[k])]
  OBVIOUS
<1>3. \A k \in Slots : v[i].slots[k] \in SlotRecords
  BY <1>1 DEF VolumeRecords
<1>4. f \in [Slots -> SlotRecords] /\ \A k \in Slots : f[k] = TornDown(v[i].slots[k])
  BY <1>2, <1>3, SlotTornDown
<1>5. down = [v[i] EXCEPT !.live = FALSE, !.published = FALSE, !.slots = f]
  BY <1>2
<1>6. /\ down \in VolumeRecords /\ ~down.live /\ down.users = v[i].users /\ down.data = v[i].data
      /\ down.slots = f
  BY <1>1, <1>4, <1>5 DEF VolumeRecords
<1>7. PICK z : z = LetGoIfEmpty(down)
  BY ZenonT(60)
<1>8. /\ z \in VolumeRecords /\ ~z.live /\ z.users = v[i].users /\ z.slots = f
      /\ z.data = IF v[i].users = 0 THEN None ELSE v[i].data
  BY <1>6, <1>7 DEF VolumeRecords, LetGoIfEmpty
<1>9. VolumesTyped(x) /\ x[i] = z /\ \A j \in Volumes : j # i => x[j] = v[j]
  <2>1. x = [v EXCEPT ![i] = z]
    BY <1>7
  <2> QED
    BY <1>8, <2>1 DEF VolumesTyped
<1>10. \A k \in Slots : x[i].slots[k] = TornDown(v[i].slots[k])
  BY <1>4, <1>8, <1>9
<1> QED
  BY <1>8, <1>9, <1>10 DEF Down

\* Everybody on the volume is awake once detach has told those it tells.
LEMMA EverybodyTold ==
    ASSUME NEW v, NEW cl, NEW sv, NEW w, NEW n, NEW a, Core(v, cl, sv, w, n, a),
           NEW i \in Volumes,
           NEW T, T = {SlotQueue(i, k) : k \in {l \in Slots : TornDown(v[i].slots[l]) # v[i].slots[l]}}
                          \cup {Room(i)},
           NEW y, Wakes(w, y), WaitOK(y, QueuesFor(cl, sv)),
           \A q \in Queues : \A u : Queued(y, q, u) => Queued(w, q, u) /\ q \notin T
    PROVE  \A c \in Callers : cl[c].vol = i => Ready(y, c)
<1> SUFFICES ASSUME NEW c \in Callers, cl[c].vol = i, ~Ready(y, c) PROVE FALSE
  OBVIOUS
<1>1. /\ VolumesTyped(v) /\ CallersTyped(cl) /\ ServersTyped(sv) /\ PlacesOK(cl) /\ SlotsOK(v, cl)
      /\ SleepOK(v, w, n, cl, sv)
  BY DEF Core
<1>2. ~Ready(w, c)
  BY Basics DEF Wakes
<1>3. \/ cl[c].at = "room" /\ Queued(y, Room(i), c)
      \/ cl[c].at = "running" /\ Queued(y, SlotQueue(i, cl[c].slot), c)
  BY <1>1, WhoWaits
<1>4. CASE cl[c].at = "room" /\ Queued(y, Room(i), c)
  BY <1>4, Names
<1>5. CASE cl[c].at = "running" /\ Queued(y, SlotQueue(i, cl[c].slot), c)
  <2>1. PICK k : k = cl[c].slot
    OBVIOUS
  <2>2. k \in Slots /\ k # None
    BY <1>1, <1>5, <2>1 DEF PlacesOK, CallersTyped, CallerRecords
  <2>3. SlotQueue(i, k) \notin T
    BY <1>5, <2>1, <2>2, Names
  <2>4. TornDown(v[i].slots[k]) = v[i].slots[k]
    BY <2>2, <2>3
  <2>5. v[i].slots[k].state \in {"free", "done"}
    BY <1>1, <2>2, <2>4, SlotTyped, SlotTornDown
  <2>6. v[i].slots[k].state # "free"
    BY <1>1, <2>1, <2>2 DEF SlotsOK
  <2>7. v[i].slots[k].state # "done"
    BY <1>1, <1>2, <1>5, <2>1 DEF SleepOK
  <2> QED
    BY <2>5, <2>6, <2>7
<1> QED
  BY <1>3, <1>4, <1>5

\* detach, its server going off and everybody on the volume awake.
LEMMA CoreDown ==
    ASSUME NEW v, NEW cl, NEW sv, NEW w, NEW n, NEW a, Core(v, cl, sv, w, n, a), a # 0,
           NEW p \in Servers, NEW i \in Volumes, sv[p].vol = i, sv[p].at \in Serving, Clean(w, p),
           \A c \in Callers : cl[c].vol = i => Ready(w, c),
           NEW x, Down(v, x, i),
           NEW sx, ServerMoved(sv, sx, p), sx[p].at = "off", sx[p].vol = None
    PROVE  Core(x, cl, sx, w, n, a)
<1>1. /\ VolumesTyped(v) /\ CallersTyped(cl) /\ PlacesOK(cl) /\ ServersTyped(sv) /\ OwnersOK(v, sv)
      /\ TagsOK(v, sv, a) /\ UsersOK(v, cl) /\ SlotsOK(v, cl) /\ SleepOK(v, w, n, cl, sv)
      /\ WaitOK(w, QueuesFor(cl, sv)) /\ n \in [Bells -> 0..MaxCount]
  BY DEF Core
<1>2. v[i].live /\ v[i].data # None
  BY <1>1 DEF OwnersOK, UsersOK
<1>3. ServersTyped(sx) /\ \A q \in Servers : q # p => sx[q] = sv[q]
  BY DEF ServerMoved
<1>4. ASSUME NEW q \in Servers, q # p, sv[q].at # "off" PROVE sv[q].vol # i /\ sv[q].vol \in Volumes
  <2>1. sv[q].at \in Serving \cup {"picked"} /\ sv[q].vol \in Volumes
    BY <1>1, <1>4 DEF OwnersOK, ServersTyped, ServerRecords, ServerPlaces, Serving
  <2>2. sv[q].at = "picked" => sv[q].vol # i
    BY <1>1, <1>2 DEF OwnersOK
  <2>3. sv[q].at \in Serving => sv[q].vol # i
    BY <1>1, <1>4, OneServer
  <2> QED
    BY <2>1, <2>2, <2>3
<1>5. /\ VolumesTyped(x) /\ \A j \in Volumes : j # i => x[j] = v[j]
      /\ ~x[i].live /\ x[i].users = v[i].users
      /\ x[i].data = IF v[i].users = 0 THEN None ELSE v[i].data
      /\ \A k \in Slots : x[i].slots[k] = TornDown(v[i].slots[k])
  BY DEF Down
<1>6. \A q \in Servers : q # p /\ sv[q].at # "off" => x[sv[q].vol] = v[sv[q].vol]
  BY <1>4, <1>5
<1>7. UsersOK(x, cl)
  <2> SUFFICES ASSUME NEW j \in Volumes
               PROVE  /\ x[j].users = Cardinality(UsersOf(cl, j))
                      /\ x[j].data # None <=> x[j].live \/ x[j].users > 0
    BY DEF UsersOK
  <2>1. CASE j = i
    <3>1. v[i].users \in Nat
      BY <1>1 DEF VolumesTyped, VolumeRecords
    <3> QED
      BY <1>1, <1>2, <1>5, <2>1, <3>1 DEF UsersOK
  <2>2. CASE j # i
    BY <1>1, <1>5, <2>2 DEF UsersOK
  <2> QED
    BY <2>1, <2>2
<1>8. OwnersOK(x, sx)
  <2> SUFFICES ASSUME NEW q \in Servers
               PROVE  /\ sx[q].vol = None <=> sx[q].at = "off"
                      /\ sx[q].at = "picked" => ~x[sx[q].vol].live /\ x[sx[q].vol].users = 0
                      /\ sx[q].at \in Serving => x[sx[q].vol].live /\ x[sx[q].vol].server = q
                      /\ sx[q].at = "carrying" =>
                            sx[q].hand # NoRequest /\ sx[q].hand.data = x[sx[q].vol].data
    BY DEF OwnersOK
  <2>1. CASE q = p
    BY <2>1 DEF Serving
  <2>2. CASE q # p
    BY <1>1, <1>3, <1>6, <2>2, SMTT(60) DEF OwnersOK, Serving
  <2> QED
    BY <2>1, <2>2
<1>9. SlotsOK(x, cl)
  <2>1. ASSUME NEW c \in Callers, cl[c].slot # None
        PROVE  LET s == x[cl[c].vol].slots[cl[c].slot] IN
               /\ s.state \notin {"free", "abandoned"}
               /\ cl[c].at = "claimed" => s.state = "claimed" \/ ~x[cl[c].vol].live
               /\ cl[c].at = "running" => s.state # "claimed"
    <3>1. cl[c].vol \in Volumes /\ cl[c].slot \in Slots
      BY <1>1, <2>1 DEF PlacesOK, CallersTyped, CallerRecords
    <3>2. CASE cl[c].vol = i
      <4>1. PICK r, s : r = v[i].slots[cl[c].slot] /\ s = x[i].slots[cl[c].slot]
        OBVIOUS
      <4>2. r \in SlotRecords /\ s = TornDown(r)
        BY <1>1, <1>5, <3>1, <4>1, SlotTyped
      <4>3. r.state \notin {"free", "abandoned"}
        BY <1>1, <2>1, <3>2, <4>1 DEF SlotsOK
      <4>4. s.state = "done"
        BY <4>2, <4>3, SlotTornDown
      <4> QED
        BY <1>5, <3>2, <4>1, <4>4
    <3>3. CASE cl[c].vol # i
      BY <1>1, <1>5, <2>1, <3>1, <3>3, SMTT(60) DEF SlotsOK
    <3> QED
      BY <3>2, <3>3
  <2> QED
    BY <1>1, <2>1 DEF SlotsOK
<1>10. TagsOK(x, sx, a)
  <2> SUFFICES ASSUME a <= 1 PROVE TagsOK(x, sx, a)
    BY DEF TagsOK
  <2>1. ASSUME NEW j \in Volumes, NEW k \in Slots PROVE x[j].slots[k].answer # "stale"
    <3>1. v[j].slots[k].answer # "stale"
      BY <1>1 DEF TagsOK
    <3>2. CASE j = i
      <4>1. v[i].slots[k] \in SlotRecords
        BY <1>1, SlotTyped, SMTT(60)
      <4> QED
        BY <1>5, <3>1, <3>2, <4>1, SlotTornDown
    <3> QED
      BY <1>5, <3>1, <3>2, SMTT(60)
  <2>2. ASSUME NEW q \in Servers
        PROVE  /\ a = 0 \/ sx[q].at = "picked" => sx[q].last = NoRequest
               /\ sx[q].at = "carrying" =>
                    LET s == x[sx[q].vol].slots[sx[q].hand.slot] IN
                    /\ s.generation = sx[q].hand.generation
                    /\ s.state \in {"taken", "abandoned"}
               /\ sx[q].at \in Serving /\ sx[q].last # NoRequest =>
                    LET s == x[sx[q].vol].slots[sx[q].last.slot] IN
                    /\ sx[q].last.generation <= s.generation
                    /\ sx[q].last.generation = s.generation => s.state \in {"free", "done"}
    <3>1. CASE q = p
      BY <3>1, SMTT(60) DEF Serving
    <3>2. CASE q # p
      <4>1. sx[q] = sv[q] /\ (sv[q].at # "off" => x[sv[q].vol] = v[sv[q].vol])
        BY <1>3, <1>6, <3>2
      <4> QED
        BY <1>1, <4>1 DEF TagsOK, Serving
    <3> QED
      BY <3>1, <3>2, ZenonT(60)
  <2> QED
    BY <2>1, <2>2, SMTT(60) DEF TagsOK
<1>11. WaitOK(w, QueuesFor(cl, sx)) /\ SleepOK(v, w, n, cl, sx)
  BY ServerElsewhere DEF Listening
<1>12. SleepOK(x, w, n, cl, sx)
  <2>1. ASSUME NEW c \in Callers, ~Ready(w, c) PROVE x[cl[c].vol] = v[cl[c].vol]
    <3>1. cl[c].at # "outside"
      BY <1>1, <2>1, WhoWaits
    <3>2. cl[c].vol \in Volumes
      BY <1>1, <3>1 DEF PlacesOK, CallersTyped, CallerRecords
    <3> QED
      BY <1>5, <2>1, <3>2
  <2>2. ASSUME NEW q \in Servers, sx[q].at \in Listening PROVE x[sx[q].vol] = v[sx[q].vol]
    BY <1>3, <1>6, <2>2 DEF Listening
  <2> QED
    BY <1>11, <2>1, <2>2 DEF SleepOK
<1> QED
  BY <1>1, <1>3, <1>5, <1>7, <1>8, <1>9, <1>10, <1>11, <1>12 DEF Core

\* What detach tells its waiters does not touch those of another volume.
LEMMA RoomDown ==
    ASSUME NEW v, NEW w, NEW ls, RoomOK(v, w, ls), NEW i \in Volumes, NEW x, Down(v, x, i),
           NEW T, \A j \in Volumes : j # i => Room(j) \notin T,
           NEW u, WokeEach(w, u, T), NEW p \in Servers, NEW y, TakenOff(u, y, p)
    PROVE  RoomOK(x, y, ls)
<1> SUFFICES ASSUME NEW j \in Volumes, x[j].live, j \notin ls
             PROVE  RoomAt(y, j, Cardinality(FreeIn(x, j)))
  BY DEF RoomOK
<1>1. j # i
  BY DEF Down
<1>2. x[j] = v[j] /\ FreeIn(x, j) = FreeIn(v, j)
  BY <1>1 DEF Down, FreeIn
<1>3. Room(j) \in Queues /\ Room(j) \notin T
  BY <1>1, Names
<1>4. \A c \in Callers : c # p /\ c \in Threads
  BY Basics
<1>5. \A c \in Callers : Queued(y, Room(j), c) <=> Queued(w, Room(j), c)
  BY <1>3, <1>4 DEF WokeEach, TakenOff
<1>6. \A c \in Callers : Room(j) \in y.woken[c] <=> Room(j) \in w.woken[c]
  BY <1>3, <1>4 DEF WokeEach, TakenOff
<1>7. Claimers(y, j) = Claimers(w, j) /\ WokenFor(y, j) = WokenFor(w, j)
  BY <1>5, <1>6 DEF Claimers, WokenFor
<1> QED
  BY <1>2, <1>7 DEF RoomOK, RoomAt

LEMMA DetachKeeps ==
    ASSUME IInv, NEW p \in Servers, Detach(p)
    PROVE  IInv'
<1>1. PICK v, cl, sv, w, n, a, hd : /\ v = vol /\ cl = caller /\ sv = server /\ hd = held
                                    /\ w = ev.wait /\ n = ev.count /\ a = attached
  OBVIOUS
<1>2. PICK i, x, sx, hx : i = sv[p].vol /\ x = vol' /\ sx = server' /\ hx = held'
  OBVIOUS
<1>3. /\ Core(v, cl, sv, w, n, a) /\ ScansOK(v, sv, scans, unwrapped, a) /\ AreasOK(v, hd)
      /\ RoomOK(v, w, lostRoom) /\ sv[p].at \notin {"off", "picked"}
      /\ sx = [sv EXCEPT ![p] = [Off EXCEPT !.last = sv[p].last]]
  BY <1>1, <1>2 DEF IInv, Detach
<1>4. /\ VolumesTyped(v) /\ ServersTyped(sv) /\ OwnersOK(v, sv) /\ WaitOK(w, QueuesFor(cl, sv))
      /\ UsersOK(v, cl)
  BY <1>3 DEF Core
<1>5. sv[p].at \in Serving /\ i \in Volumes
  BY <1>2, <1>3, <1>4, SMTT(60) DEF OwnersOK, ServersTyped, ServerRecords, ServerPlaces, Serving
<1>6. Owns(p)
  BY <1>1, <1>2, <1>4, <1>5, Basics DEF Owns, OwnersOK
<1>7. PICK down : down = [v[i] EXCEPT !.live = FALSE, !.published = FALSE,
                             !.slots = [k \in Slots |-> TornDown(v[i].slots[k])]]
  OBVIOUS
<1>8. PICK T : T = {SlotQueue(i, k) : k \in {l \in Slots : TornDown(v[i].slots[l]) # v[i].slots[l]}}
                      \cup {Room(i)}
  OBVIOUS
<1>9. /\ x = [v EXCEPT ![i] = LetGoIfEmpty(down)]
      /\ hx = hd \ (Holding(v) \ Holding(x))
      /\ ev' = Ended(Waits(ev, WakeEach(w, T)), p)
  BY <1>1, <1>2, <1>6, <1>7, <1>8 DEF Detach
<1>10. PICK u, y : u = WakeEach(w, T) /\ y = Unblock(Leave(u, p), p)
  OBVIOUS
<1>11. ev'.wait = y /\ ev'.count = n
  BY <1>1, <1>9, <1>10 DEF Ended, Waits
<1>12. T \in SUBSET Queues /\ \A j \in Volumes : j # i => Room(j) \notin T
  BY <1>5, <1>8, Names
<1>13. WaitOK(u, QueuesFor(cl, sv)) /\ Wakes(w, u) /\ WokeEach(w, u, T)
  BY <1>4, <1>10, <1>12, WakingEach
<1>14. WaitOK(y, QueuesFor(cl, sv)) /\ Clean(y, p) /\ Wakes(u, y) /\ TakenOff(u, y, p)
  BY <1>10, <1>13, Basics, Ending
<1>15. Wakes(w, y)
  BY <1>13, <1>14 DEF Wakes
<1>16. Core(v, cl, sv, y, n, a)
  BY <1>3, <1>14, <1>15, CoreWakes
<1>17. \A c \in Callers : cl[c].vol = i => Ready(y, c)
  <2>1. \A q \in Queues : \A t : Queued(y, q, t) => Queued(w, q, t) /\ q \notin T
    BY <1>13, <1>14 DEF WokeEach, TakenOff
  <2> QED
    BY <1>3, <1>5, <1>8, <1>14, <1>15, <2>1, EverybodyTold
<1>18. Down(v, x, i)
  BY <1>4, <1>5, <1>7, <1>9, TearsDown
<1>19. ServerMoved(sv, sx, p) /\ sx[p].at = "off" /\ sx[p].vol = None
  BY <1>3, <1>4, ServerOff
<1>20. a # 0
  BY <1>3 DEF ScansOK
<1>21. Core(x, cl, sx, y, n, a)
  BY <1>2, <1>5, <1>14, <1>16, <1>17, <1>18, <1>19, <1>20, CoreDown
<1>22. RoomOK(x, y, lostRoom)
  BY <1>3, <1>5, <1>12, <1>13, <1>14, <1>18, RoomDown
<1>23. AreasOK(x, hx)
  <2>1. \A j \in Volumes : x[j].data # None => x[j].data = v[j].data
    BY <1>18 DEF Down
  <2>2. Holding(x) \subseteq Holding(v)
    BY <2>1 DEF Holding
  <2>3. hd = Holding(v)
    BY <1>3 DEF AreasOK, Holding
  <2>4. hx = Holding(x)
    BY <1>9, <2>2, <2>3
  <2> QED
    BY <1>3, <2>1, <2>4 DEF AreasOK, Holding
<1>24. ScansOK(x, sx, scans, unwrapped, a)
  <2>1. ScansOK(v, sx, scans, unwrapped, a)
    BY <1>3, <1>19, ScansMoved
  <2>2. \A j \in Volumes : x[j].live => x[j] = v[j]
    BY <1>18 DEF Down
  <2> QED
    BY <2>1, <2>2 DEF ScansOK
<1>25. /\ scans' = scans /\ unwrapped' = unwrapped /\ caller' = cl
       /\ killed' = killed /\ lostRoom' = lostRoom /\ attached' = a /\ deadline' = deadline
  BY <1>1 DEF Detach
<1>26. killed \subseteq Killable /\ lostRoom \subseteq Volumes /\ deadline \in [Callers -> {"none", "ahead", "passed"}]
  BY DEF IInv
<1> QED
  BY <1>2, <1>11, <1>21, <1>22, <1>23, <1>24, <1>25, <1>26 DEF IInv

-----------------------------------------------------------------------------
(* The invariant holds, and what follows from it. *)

LEMMA InitHolds == Init => IInv
<1> SUFFICES ASSUME Init PROVE IInv
  OBVIOUS
<1>1. PICK v, cl, sv, w, n : /\ v = vol /\ cl = caller /\ sv = server
                             /\ w = ev.wait /\ n = ev.count
  OBVIOUS
<1>2. /\ v = [i \in Volumes |-> NoVolume] /\ cl = [c \in Callers |-> Outside]
      /\ sv = [p \in Servers |-> Off] /\ w = NoWaits(Threads, Queues)
      /\ n = [b \in Bells |-> 0] /\ attached = 0 /\ held = {} /\ killed = {} /\ lostRoom = {}
      /\ scans = [i \in Volumes |-> 0] /\ unwrapped = FALSE
      /\ deadline = [c \in Callers |-> "none"]
  BY <1>1 DEF Init
<1>3. VolumesTyped(v) /\ \A i \in Volumes : /\ ~v[i].live /\ v[i].data = None /\ v[i].users = 0
                                            /\ \A k \in Slots : v[i].slots[k].answer = "none"
  <2>1. FreeSlotRecord \in SlotRecords
    BY UblkAssumption DEF FreeSlotRecord, SlotRecords, SlotStates
  <2>2. PICK f : f = [k \in Slots |-> FreeSlotRecord]
    OBVIOUS
  <2>3. f \in [Slots -> SlotRecords] /\ \A k \in Slots : f[k].answer = "none"
    BY <2>1, <2>2 DEF FreeSlotRecord
  <2>4. NoVolume = [live |-> FALSE, server |-> None, data |-> None, published |-> FALSE,
                    users |-> 0, slots |-> f]
    BY <2>2 DEF NoVolume
  <2>5. /\ NoVolume \in VolumeRecords /\ ~NoVolume.live /\ NoVolume.data = None
        /\ NoVolume.users = 0 /\ NoVolume.slots = f
    BY <2>3, <2>4 DEF VolumeRecords
  <2> QED
    BY <1>2, <2>3, <2>5 DEF VolumesTyped
<1>4. /\ CallersTyped(cl)
      /\ \A c \in Callers : cl[c].at = "outside" /\ cl[c].vol = None /\ cl[c].slot = None
  BY <1>2 DEF CallersTyped, CallerRecords, Outside, CallerPlaces
<1>5. /\ ServersTyped(sv)
      /\ \A p \in Servers : sv[p].at = "off" /\ sv[p].vol = None /\ sv[p].last = NoRequest
  BY <1>2 DEF ServersTyped, ServerRecords, Off, ServerPlaces, Requests
<1>6. n \in [Bells -> 0..MaxCount]
  BY <1>2, MaxCountAssumption
<1>7. PlacesOK(cl) /\ SlotsOK(v, cl)
  BY <1>4 DEF PlacesOK, SlotsOK
<1>8. UsersOK(v, cl)
  <2>1. \A i \in Volumes : UsersOf(cl, i) = {}
    BY <1>4, Basics DEF UsersOf
  <2>2. \A i \in Volumes : Cardinality(UsersOf(cl, i)) = 0
    BY <2>1, FS_EmptySet
  <2>3. ~(0 > 0)
    OBVIOUS
  <2> QED
    BY <1>3, <2>2, <2>3 DEF UsersOK
<1>9. OwnersOK(v, sv)
  BY <1>5, SMTT(60) DEF OwnersOK, Serving
<1>10. TagsOK(v, sv, 0)
  BY <1>3, <1>5 DEF TagsOK, Serving
<1>11. /\ \A t \in Threads : Ready(w, t) /\ w.woken[t] = {}
       /\ \A q \in Queues : w.queue[q] = <<>>
  BY <1>2 DEF NoWaits, Ready
<1>12. w \in WaitRecords(Threads, Queues)
  BY <1>2, NoWaitsType
<1>13. WaitOK(w, QueuesFor(cl, sv))
  <2>1. \A q \in Queues : \A t : ~Queued(w, q, t)
    BY <1>11, <1>12, EmptyHasNobody
  <2>2. OneNodeEach(w)
    <3>1. DOMAIN w.queue = Queues
      BY <1>12 DEF WaitRecords
    <3>2. \A q \in Queues : 1..Len(w.queue[q]) = {}
      BY <1>11, EmptySeq
    <3> QED
      BY <3>1, <3>2 DEF OneNodeEach, NoTwice
  <2> QED
    BY <1>11, <1>12, <2>1, <2>2 DEF WaitOK
<1>14. SleepOK(v, w, n, cl, sv)
  BY <1>5, <1>11, Basics DEF SleepOK, Listening
<1>15. Core(v, cl, sv, w, n, attached)
  BY <1>2, <1>3, <1>4, <1>5, <1>6, <1>7, <1>8, <1>9, <1>10, <1>13, <1>14 DEF Core
<1>16. AreasOK(v, held)
  BY <1>2, <1>3 DEF AreasOK
<1>17. ScansOK(v, sv, scans, unwrapped, attached)
  <2>1. 0 \in 0..Attachments /\ 0 <= 0
    BY UblkAssumption
  <2>2. scans \in [Volumes -> Nat]
    BY <1>2
  <2>3. unwrapped \in BOOLEAN
    BY <1>2, Zenon
  <2>4. \A i \in Volumes : scans[i] = 0
    BY <1>2
  <2> QED
    BY <1>2, <1>3, <1>5, <2>1, <2>2, <2>3, <2>4 DEF ScansOK
<1>18. RoomOK(v, w, lostRoom)
  BY <1>3 DEF RoomOK
<1>19. killed \subseteq Killable /\ lostRoom \subseteq Volumes /\ deadline \in [Callers -> {"none", "ahead", "passed"}]
  BY <1>2
<1> QED
  BY <1>1, <1>15, <1>16, <1>17, <1>18, <1>19 DEF IInv

LEMMA NextKeeps == IInv /\ AttachesApart /\ [Next]_vars => IInv'
<1> SUFFICES ASSUME IInv, AttachesApart, [Next]_vars PROVE IInv'
  OBVIOUS
<1>1. CASE UNCHANGED vars
  BY <1>1 DEF vars, IInv
<1>2. ASSUME NEW i \in Volumes, Survey(i) PROVE IInv'
  BY <1>2, SurveyKeeps
<1>3. ASSUME NEW c \in Callers, CallerStep(c) PROVE IInv'
  <2>1. ASSUME NEW i \in Volumes, Enter(c, i) PROVE IInv'
    BY <2>1, EnterKeeps
  <2>2. CASE Claim(c)
    BY <2>2, ClaimKeeps
  <2>3. CASE ClaimAgain(c)
    BY <2>3, ClaimAgainKeeps
  <2>4. CASE Run(c)
    BY <2>4, RunKeeps
  <2>5. CASE RunAgain(c)
    BY <2>5, RunAgainKeeps
  <2>6. ASSUME NEW more \in BOOLEAN, FreeSlot(c, more) PROVE IInv'
    BY <2>6, FreeSlotKeeps
  <2>7. CASE LeaveVolume(c)
    BY <2>7, LeaveVolumeKeeps
  <2>8. CASE Expire(c)
    BY <2>8, ExpireKeeps
  <2>9. CASE Kill(c)
    BY <2>9, KillKeeps
  <2> QED
    BY <1>3, <2>1, <2>2, <2>3, <2>4, <2>5, <2>6, <2>7, <2>8, <2>9 DEF CallerStep
<1>4. ASSUME NEW p \in Servers, ServerStep(p) PROVE IInv'
  <2>1. CASE AttachPick(p)
    BY <2>1, AttachPickKeeps
  <2>2. CASE AttachFail(p)
    BY <2>2, AttachFailKeeps
  <2>3. CASE Publish(p)
    BY <2>3, PublishKeeps
  <2>4. ASSUME NEW data \in Segments, AttachFill(p, data) PROVE IInv'
    BY <2>4, AttachFillKeeps
  <2>5. CASE NextRequest(p)
    BY <2>5, NextRequestKeeps
  <2>6. CASE WaitDoorbell(p)
    BY <2>6, WaitDoorbellKeeps
  <2>7. CASE DoorbellRang(p)
    BY <2>7, DoorbellRangKeeps
  <2>8. CASE Done(p)
    BY <2>8, DoneKeeps
  <2>9. CASE DoneAgain(p)
    BY <2>9, DoneAgainKeeps
  <2>10. CASE Detach(p)
    BY <2>10, DetachKeeps
  <2>11. CASE NextIsNone(p)
    BY <2>11, NextIsNoneKeeps
  <2> QED
    BY <1>4, <2>1, <2>2, <2>3, <2>4, <2>5, <2>6, <2>7, <2>8, <2>9, <2>10, <2>11 DEF ServerStep
<1> QED
  BY <1>1, <1>2, <1>3, <1>4 DEF Next

LEMMA SoundFromInv == IInv => VolumeIsSound
<1> SUFFICES ASSUME IInv PROVE VolumeIsSound
  OBVIOUS
<1>1. PICK v, cl, sv, w, n, a : /\ v = vol /\ cl = caller /\ sv = server
                                /\ w = ev.wait /\ n = ev.count /\ a = attached
  OBVIOUS
<1>2. /\ VolumesTyped(v) /\ CallersTyped(cl) /\ ServersTyped(sv) /\ n \in [Bells -> 0..MaxCount]
      /\ PlacesOK(cl) /\ UsersOK(v, cl) /\ OwnersOK(v, sv) /\ SlotsOK(v, cl) /\ TagsOK(v, sv, a)
      /\ w \in WaitRecords(Threads, Queues)
      /\ AreasOK(v, held) /\ ScansOK(v, sv, scans, unwrapped, a)
      /\ deadline \in [Callers -> {"none", "ahead", "passed"}] /\ killed \subseteq Killable /\ lostRoom \subseteq Volumes
  BY <1>1 DEF IInv, Core, WaitOK
<1>3. TypeOK
  <2>1. \A i \in Volumes : v[i].users \in 0..Cardinality(Callers)
    BY <1>2, UsersCount DEF UsersOK
  <2>2. v \in [Volumes -> [live : BOOLEAN, server : Servers \cup {None},
                           data : Segments \cup {None}, published : BOOLEAN,
                           users : 0..Cardinality(Callers),
                           slots : [Slots -> SlotRecords]]]
    BY <1>2, <2>1 DEF VolumesTyped, VolumeRecords
  <2>3. held \subseteq Segments
    BY <1>2 DEF AreasOK, VolumesTyped, VolumeRecords
  <2>4. scans \in [Volumes -> 0..Attachments] /\ a \in 0..Attachments /\ unwrapped \in BOOLEAN
    BY <1>2, UblkAssumption DEF ScansOK
  <2> QED
    BY <1>1, <1>2, <2>2, <2>3, <2>4 DEF TypeOK, SlotRecords, CallersTyped, CallerRecords,
       ServersTyped, ServerRecords
<1>4. SlotMemoryIsNotShared
  <2>1. \A c, d \in Callers :
          cl[c].slot # None /\ cl[d].slot # None /\ cl[c].vol = cl[d].vol
              /\ cl[c].slot = cl[d].slot => c = d
    BY <1>2, SMTT(60) DEF SlotsOK
  <2>2. ASSUME a <= 1, NEW p \in Servers, NEW c \in Callers, sv[p].at = "carrying",
               cl[c].slot # None, cl[c].slot = sv[p].hand.slot,
               v[cl[c].vol].data = sv[p].hand.data
        PROVE  v[cl[c].vol].slots[cl[c].slot].generation = sv[p].hand.generation
    <3>1. sv[p].vol \in Volumes /\ v[sv[p].vol].live /\ sv[p].hand.data = v[sv[p].vol].data
      BY <1>2, <2>2 DEF OwnersOK, ServersTyped, ServerRecords, Serving
    <3>2. cl[c].vol \in Volumes
      BY <1>2, <2>2 DEF PlacesOK, CallersTyped, CallerRecords
    <3>3. v[sv[p].vol].data # None
      BY <1>2, <3>1 DEF UsersOK
    <3>4. cl[c].vol = sv[p].vol
      BY <1>2, <2>2, <3>1, <3>2, <3>3 DEF AreasOK
    <3> QED
      BY <1>2, <2>2, <3>4 DEF TagsOK
  <2> QED
    BY <1>1, <2>1, <2>2 DEF SlotMemoryIsNotShared, HasSlot, SlotOf
<1>5. ScanFindsItsDevice
  BY <1>1, <1>2 DEF ScansOK, ScanFindsItsDevice
<1>6. AreaIsFreedOnce
  <2>1. held = Holding(v)
    BY <1>2 DEF AreasOK, Holding
  <2>2. \A i \in Volumes : v[i].data # None => v[i].data \in held
    BY <2>1, SMTT(60) DEF Holding
  <2> QED
    BY <1>1, <1>2, <2>1, <2>2 DEF AreaIsFreedOnce, ResourcesOutliveUsers, NoAreaIsLost, UsersOK,
       UsersOf
<1> QED
  BY <1>3, <1>4, <1>5, <1>6 DEF VolumeIsSound

LEMMA AnswersFromInv == IInv => AnswerIsItsOwn
BY DEF IInv, Core, TagsOK, AnswerIsItsOwn

LEMMA SleepersFromInv == IInv => NobodyIsStranded
<1> SUFFICES ASSUME IInv PROVE NobodyIsStranded
  OBVIOUS
<1>1. PICK v, cl, sv, w, n, a : /\ v = vol /\ cl = caller /\ sv = server
                                /\ w = ev.wait /\ n = ev.count /\ a = attached
  OBVIOUS
<1>2. /\ VolumesTyped(v) /\ CallersTyped(cl) /\ ServersTyped(sv) /\ PlacesOK(cl)
      /\ SleepOK(v, w, n, cl, sv) /\ WaitOK(w, QueuesFor(cl, sv)) /\ RoomOK(v, w, lostRoom)
  BY <1>1 DEF IInv, Core
<1>3. NobodyWaitsOnTheGone
  BY <1>1, <1>2 DEF SleepOK, NobodyWaitsOnTheGone, InWait
<1>4. NoStrandedClaimer
  <2> SUFFICES ASSUME NEW c \in Callers, cl[c].at = "room", ~Ready(w, c),
                      FreeIn(v, cl[c].vol) # {}, cl[c].vol \notin lostRoom
               PROVE  \E d \in Callers : Room(cl[c].vol) \in w.woken[d]
    BY <1>1 DEF NoStrandedClaimer, InWait, FreeSlots, FreeIn
  <2>1. PICK i : i = cl[c].vol
    OBVIOUS
  <2>2. i \in Volumes /\ v[i].live
    BY <1>2, <2>1 DEF PlacesOK, CallersTyped, CallerRecords, SleepOK
  <2>3. Queued(w, Room(i), c)
    BY <1>2, <2>1, WhoWaits
  <2>4. RoomAt(w, i, Cardinality(FreeIn(v, i))) /\ Claimers(w, i) # {}
    BY <1>2, <2>1, <2>2, <2>3 DEF RoomOK, Claimers
  <2>5. Cardinality(FreeIn(v, i)) <= Cardinality(WokenFor(w, i))
    BY <2>4 DEF RoomAt
  <2>6. Cardinality(FreeIn(v, i)) \in Nat /\ Cardinality(FreeIn(v, i)) # 0
    BY <2>1, FreeCount, FS_EmptySet
  <2>7. WokenFor(w, i) # {}
    BY <2>5, <2>6, FS_EmptySet
  <2> QED
    BY <2>1, <2>7 DEF WokenFor
<1>5. OfferIsHeard
  <2> SUFFICES ASSUME NEW p \in Servers, sv[p].at = "waiting", ~Ready(w, p)
               PROVE  \A k \in Slots : v[sv[p].vol].slots[k].state # "offered"
    BY <1>1 DEF OfferIsHeard, Offered
  <2> QED
    BY <1>2 DEF SleepOK, Listening
<1> QED
  BY <1>3, <1>4, <1>5 DEF NobodyIsStranded

\* Slots have one user each, the scan finds its device and an area is let go
\* when the last user has left a volume that is gone (ublk.zig:84-96, 317-318,
\* 387-417, 516-577), for every number of callers, servers, volumes and slots,
\* while no two servers are inside attach with the same index.
THEOREM VolumeIsSoundHolds == Spec /\ []AttachesApart => []VolumeIsSound
<1>1. Spec /\ []AttachesApart => []IInv
  BY InitHolds, NextKeeps, PTL DEF Spec
<1> QED
  BY <1>1, SoundFromInv, PTL

\* Within a first attachment no request is answered with what was meant for
\* another, however late the server's answers come (ublk.zig:97-103, 246-257).
THEOREM AnswerIsItsOwnHolds == Spec /\ []AttachesApart => []AnswerIsItsOwn
<1>1. Spec /\ []AttachesApart => []IInv
  BY InitHolds, NextKeeps, PTL DEF Spec
<1> QED
  BY <1>1, AnswersFromInv, PTL

\* Nobody sleeps on a volume but for what somebody else is to do: claim, run,
\* freeSlot, done and detach wake whoever has to know (ublk.zig:387-402,
\* 493-531, 545-550).
THEOREM NobodyIsStrandedHolds == Spec /\ []AttachesApart => []NobodyIsStranded
<1>1. Spec /\ []AttachesApart => []IInv
  BY InitHolds, NextKeeps, PTL DEF Spec
<1> QED
  BY <1>1, SleepersFromInv, PTL
=============================================================================
