---------------------------- MODULE ChannelProofs ----------------------------
(***************************************************************************)
(* Channel for any number of clients, servers, objects and slots: the      *)
(* lists and the callers' frames name each other, a token names its own    *)
(* call, references equal holders, and a call is heard.                    *)
(***************************************************************************)
EXTENDS Channel, WaitQueueProofs, FiniteSetTheorems

-----------------------------------------------------------------------------
(* The inductive invariant, in parts that are operators of rigid values. *)

\* Where a call stands: not made, made and not answered, answered or failed.
Stages == {"out", "asked", "answered"}
Stage(r) == IF ~r.live THEN "out" ELSE IF r.done THEN "answered" ELSE "asked"
StageOf(rc) == [c \in Clients |-> Stage(rc[c])]

Lists == {"recv", "ready"}

\* A client has a node on its own record's queue while it waits for an answer
\* and has been woken once it has one.
ClientWaits(w, st) ==
    \A c \in Clients :
        /\ \A q \in Queues : Queued(w, q, c) <=> q = c /\ st[c] = "asked"
        /\ w.woken[c] = IF st[c] = "answered" THEN {c} ELSE {}
        /\ st[c] = "answered" => Ready(w, c)

\* A server has a node on the queue of the call it is in until that has fired.
ServerWaits(w, dn) ==
    \A s \in Servers :
        /\ \A q \in Queues : Queued(w, q, s) <=> q = dn[s] /\ q \in Lists /\ q \notin w.woken[s]
        /\ w.woken[s] \subseteq Lists \cap {dn[s]}
        /\ w.woken[s] # {} => Ready(w, s)

WaitOK(w, st, dn) ==
    /\ w \in WaitRecords(Threads, Queues) /\ OneNodeEach(w)
    /\ st \in [Clients -> Stages] /\ dn \in [Servers -> Doings]
    /\ ClientWaits(w, st) /\ ServerWaits(w, dn)

Taken(inf, c) == \E s \in Slots : inf[s].call = c

\* A call is on one list at most, and on one exactly while it waits.
ListOK(p, inf, st, sv) ==
    /\ p \in Seq(Clients) /\ NoTwice(p)
    /\ inf \in [Slots -> [call : Clients, generation : 1..MaxGeneration] \cup {NoCall}]
    /\ \A c \in Clients :
          /\ st[c] = "asked" <=> On(p, c) \/ Taken(inf, c)
          /\ ~(On(p, c) /\ Taken(inf, c))
          /\ st[c] = "asked" => sv
    /\ \A i, j \in Slots : inf[i].call = inf[j].call /\ inf[i] # NoCall => i = j

\* What a record holds of its messages, by the stage of its call.
RecordOK(rc, inf) ==
    /\ rc \in [Clients -> CallRecords]
    /\ \A c \in Clients :
          /\ ~rc[c].live => rc[c] = NoRecord
          /\ ~rc[c].done => rc[c].reply = {} /\ ~rc[c].failed
          /\ (rc[c].done /\ ~rc[c].failed) \/ Taken(inf, c) => rc[c].request = {}

\* The generation handed out k turns before g.
Before(g, k) == IF g > k THEN g - k ELSE g + MaxGeneration - k

TokenType == [slot : Slots, generation : 1..MaxGeneration, client : Clients, live : BOOLEAN]

\* Tokens are remembered in the order they were handed out, one per turn; a live
\* one names its call; a slot in use was handed out last of all the tokens for it.
TokensOK(rem, inf, g) ==
    /\ rem \in Seq(TokenType) /\ Len(rem) <= Memory /\ g \in 1..MaxGeneration
    /\ \A i \in 1..Len(rem) :
          /\ rem[i].generation = Before(g, Len(rem) + 1 - i)
          /\ rem[i].live <=> inf[rem[i].slot] = [call |-> rem[i].client,
                                                 generation |-> rem[i].generation]
          /\ inf[rem[i].slot] # NoCall =>
                \E j \in i..Len(rem) : rem[j].slot = rem[i].slot /\ rem[j].live

\* The holders of an object.
Asking(rc, o) == {c \in Clients : o \in rc[c].request}
Answered(rc, o) == {c \in Clients : o \in rc[c].reply}
Sending(rc, o) == {c \in Clients : o \in rc[c].taken}
Handles(tb, o) == {h \in Threads \X (1..TableSize) : h[2] <= tb[h[1]][o]}
Holders(tb, rc, o) ==
    Cardinality(Handles(tb, o)) + Cardinality(Asking(rc, o))
        + Cardinality(Answered(rc, o)) + Cardinality(Sending(rc, o))

\* References are never fewer than holders, and no more while no caller has
\* been killed.
BalanceOK(r, tb, rc, kd) ==
    /\ tb \in [Threads -> [Objects -> 0..TableSize]] /\ r \in [Objects -> Nat]
    /\ \A o \in Objects :
          /\ r[o] >= Holders(tb, rc, o)
          /\ kd \cap Clients = {} => r[o] = Holders(tb, rc, o)

SimpleTypes ==
    /\ serving \in BOOLEAN /\ deadline \in [Threads -> Deadlines]
    /\ ends \subseteq Servers /\ killed \subseteq Killable
    /\ ev \in EventRecords(Threads, Queues)

IInv ==
    /\ SimpleTypes
    /\ WaitOK(ev.wait, StageOf(record), doing)
    /\ ListOK(pending, inflight, StageOf(record), serving)
    /\ RecordOK(record, inflight)
    /\ TokensOK(remembered, inflight, nextGeneration)
    /\ BalanceOK(refs, table, record, killed)

-----------------------------------------------------------------------------
(* That a call is heard. *)

\* The servers on a list, and those a list has woken.
QueuedOn(w, q) == {s \in Servers : Queued(w, q, s)}
WokenBy(w, q) == {s \in Servers : q \in w.woken[s]}

\* The ready event counts to one, and while it is up and a server is queued on
\* it a woken one is coming for the signal.
ReadyHeard(w, n) ==
    n \in 0..1 /\ (n = 1 /\ QueuedOn(w, "ready") # {} => WokenBy(w, "ready") # {})

\* While a server is queued in recv, one woken there is coming for each of k calls.
RecvHeard(w, k) == QueuedOn(w, "recv") # {} => k <= Cardinality(WokenBy(w, "recv"))

\* The slots nobody's call is in.
Free(inf) == {s \in Slots : inf[s] = NoCall}
Room(inf) == Cardinality(Free(inf))

\* A queued call has the ready event up, or a server that was told of it and has
\* got as far as recv; and of the servers in recv as many are woken as there are
\* calls, or slots for them.
HearOK(w, n, p, f, dn) ==
    /\ ReadyHeard(w, n)
    /\ p = <<>> => n = 0
    /\ p # <<>> /\ n = 0 => \E s \in Servers : dn[s] \in {"due", "recv"}
    /\ RecvHeard(w, Len(p)) \/ RecvHeard(w, f)

\* The count of the ready event.
Up(e) == e.count["ready"]

\* Whatever has been missed, the event is down when no call is queued, and then
\* nothing counts as missed.
Plain ==
    /\ Up(ev) \in 0..1
    /\ pending = <<>> => Up(ev) = 0
    /\ missed => pending # <<>>

Hears == Plain /\ (~missed => HearOK(ev.wait, Up(ev), pending, Room(inflight), doing))

-----------------------------------------------------------------------------
(* The waits. *)

\* The queues are different from one another and from the mark of a free slot.
LEMMA Names ==
    /\ "ready" \in Queues /\ "recv" \in Queues /\ Lists \subseteq Queues
    /\ \A c \in Clients : c \in Queues /\ c \in Threads /\ c \notin Servers
                           /\ c \notin Lists /\ c # "none"
    /\ \A s \in Servers : s \in Threads /\ s \notin Clients
BY ChannelAssumption DEF Queues, Lists, Threads

\* The types of the parts of a waiting state.
LEMMA WaitTypes ==
    ASSUME NEW w \in WaitRecords(Threads, Queues)
    PROVE  /\ w.state \in [Threads -> RunStates]
           /\ w.woken \in [Threads -> SUBSET Queues]
BY DEF WaitRecords

\* wakeOne on a list of servers.
LEMMA WakeServer ==
    ASSUME NEW w, NEW st, NEW dn, WaitOK(w, st, dn), NEW q \in Lists
    PROVE  WaitOK(WakeOne(w, q), st, dn)
<1>1. w \in WaitRecords(Threads, Queues) /\ OneNodeEach(w) /\ q \in Queues
  BY Names DEF WaitOK
<1>2. PICK x : x = WakeOne(w, q)
  OBVIOUS
<1>3. x \in WaitRecords(Threads, Queues)
  BY <1>1, <1>2, WakeOneType
<1>4. OneNodeEach(x)
  BY <1>1, <1>2, WakeOneMembers
<1>5. (x = w) \/ \E t \in Threads : Woke(w, x, Queues, q, t)
  BY <1>1, <1>2, WakeOneMembers
<1>6. ASSUME NEW t \in Threads, Woke(w, x, Queues, q, t) PROVE WaitOK(x, st, dn)
  <2>1. /\ w.state \in [Threads -> RunStates] /\ w.woken \in [Threads -> SUBSET Queues]
    BY <1>1, WaitTypes
  <2>2. /\ Queued(w, q, t)
        /\ \A p \in Queues : \A u : Queued(x, p, u) <=> Queued(w, p, u) /\ ~(p = q /\ u = t)
        /\ x.state[t] = "ready" /\ x.woken[t] = w.woken[t] \cup {q}
        /\ \A u \in Threads : u # t => x.state[u] = w.state[u] /\ x.woken[u] = w.woken[u]
    BY <1>6, <2>1 DEF Woke
  <2>3. t \in Servers
    <3>1. ASSUME t \in Clients PROVE FALSE
      <4>1. Queued(w, q, t) => q = t
        BY <1>1, <3>1 DEF WaitOK, ClientWaits
      <4> QED
        BY <2>2, <3>1, <4>1, Names
    <3> QED
      BY <3>1 DEF Threads
  <2>4. \A c \in Clients : c # t /\ x.state[c] = w.state[c] /\ x.woken[c] = w.woken[c]
    BY <2>2, <2>3, Names
  <2>5. ClientWaits(x, st)
    BY <2>2, <2>4 DEF WaitOK, ClientWaits, Ready
  <2>6. ServerWaits(x, dn)
    <3> SUFFICES ASSUME NEW s \in Servers
                 PROVE  /\ \A p \in Queues : Queued(x, p, s)
                              <=> p = dn[s] /\ p \in Lists /\ p \notin x.woken[s]
                        /\ x.woken[s] \subseteq Lists \cap {dn[s]}
                        /\ x.woken[s] # {} => Ready(x, s)
      BY DEF ServerWaits
    <3>1. /\ \A p \in Queues : Queued(w, p, s) <=> p = dn[s] /\ p \in Lists /\ p \notin w.woken[s]
          /\ w.woken[s] \subseteq Lists \cap {dn[s]}
          /\ w.woken[s] # {} => Ready(w, s)
      BY DEF WaitOK, ServerWaits
    <3>2. CASE s = t
      BY <1>1, <2>2, <3>1, <3>2 DEF Ready
    <3>3. CASE s # t
      BY <2>2, <3>1, <3>3, Names DEF Ready
    <3> QED
      BY <3>2, <3>3
  <2> QED
    BY <1>3, <1>4, <2>5, <2>6 DEF WaitOK
<1> QED
  BY <1>2, <1>5, <1>6

\* A server comes back from blockOn.
LEMMA ServerLeaves ==
    ASSUME NEW w, NEW st, NEW dn, WaitOK(w, st, dn), NEW s \in Servers,
           NEW x \in {"idle", "due"}
    PROVE  /\ WaitOK(Leave(w, s), st, [dn EXCEPT ![s] = x])
           /\ Leave(w, s).state = w.state
           /\ Leave(w, s).woken = [w.woken EXCEPT ![s] = {}]
           /\ \A q \in Queues : \A u : Queued(Leave(w, s), q, u) <=> Queued(w, q, u) /\ u # s
<1>1. w \in WaitRecords(Threads, Queues) /\ OneNodeEach(w) /\ s \in Threads
  BY Names DEF WaitOK
<1>2. PICK v : v = Leave(w, s)
  OBVIOUS
<1>3. v \in WaitRecords(Threads, Queues)
  BY <1>1, <1>2, LeaveType
<1>4. OneNodeEach(v)
  BY <1>1, <1>2, LeaveMembers
<1>5. \A q \in Queues : \A u : Queued(v, q, u) <=> Queued(w, q, u) /\ u # s
  BY <1>1, <1>2, LeaveMembers
<1>6. v.state = w.state /\ v.woken = [w.woken EXCEPT ![s] = {}]
  BY <1>2 DEF Leave
<1>7. /\ v.woken[s] = {}
      /\ \A u \in Threads : u # s => v.woken[u] = w.woken[u]
  BY <1>1, <1>6, WaitTypes
<1>8. ClientWaits(v, st)
  BY <1>5, <1>6, <1>7, Names DEF WaitOK, ClientWaits, Ready
<1>9. PICK e : e = [dn EXCEPT ![s] = x]
  OBVIOUS
<1>10. e \in [Servers -> Doings] /\ e[s] = x /\ \A u \in Servers : u # s => e[u] = dn[u]
  BY <1>9 DEF WaitOK, Doings
<1>11. ServerWaits(v, e)
  <2> SUFFICES ASSUME NEW u \in Servers
               PROVE  /\ \A p \in Queues : Queued(v, p, u)
                            <=> p = e[u] /\ p \in Lists /\ p \notin v.woken[u]
                      /\ v.woken[u] \subseteq Lists \cap {e[u]}
                      /\ v.woken[u] # {} => Ready(v, u)
    BY DEF ServerWaits
  <2>1. CASE u = s
    BY <1>5, <1>7, <1>10, <2>1 DEF Lists
  <2>2. CASE u # s
    BY <1>5, <1>6, <1>7, <1>10, <2>2, Names DEF WaitOK, ServerWaits, Ready
  <2> QED
    BY <2>1, <2>2
<1> QED
  BY <1>2, <1>3, <1>4, <1>5, <1>6, <1>8, <1>9, <1>10, <1>11 DEF WaitOK

\* What a server that is at work has been doing is of no matter to the waits.
LEMMA ServerWorks ==
    ASSUME NEW w, NEW st, NEW dn, WaitOK(w, st, dn), NEW s \in Servers,
           dn[s] \in {"idle", "due"}, NEW x \in {"idle", "due"}
    PROVE  WaitOK(w, st, [dn EXCEPT ![s] = x])
<1>1. PICK e : e = [dn EXCEPT ![s] = x]
  OBVIOUS
<1>2. e \in [Servers -> Doings] /\ e[s] = x /\ \A u \in Servers : u # s => e[u] = dn[u]
  BY <1>1 DEF WaitOK, Doings
<1>3. ServerWaits(w, e)
  BY <1>2 DEF WaitOK, ServerWaits, Lists
<1> QED
  BY <1>1, <1>2, <1>3 DEF WaitOK

\* A server blocks on a list.
LEMMA ServerBlocks ==
    ASSUME NEW w, NEW st, NEW dn, WaitOK(w, st, dn), NEW s \in Servers,
           dn[s] \in {"idle", "due"}, NEW q \in Lists, NEW d \in BOOLEAN
    PROVE  /\ WaitOK(Block(w, s, {q}, d), st, [dn EXCEPT ![s] = q])
           /\ Block(w, s, {q}, d).woken = w.woken
           /\ \A p \in Queues : \A u :
                 Queued(Block(w, s, {q}, d), p, u) <=> Queued(w, p, u) \/ (p = q /\ u = s)
<1>1. w \in WaitRecords(Threads, Queues) /\ OneNodeEach(w) /\ s \in Threads
  BY Names DEF WaitOK
<1>2. (\A p \in Queues : ~Queued(w, p, s)) /\ w.woken[s] = {}
  BY DEF WaitOK, ServerWaits, Lists
<1>3. PICK v : v = Block(w, s, {q}, d)
  OBVIOUS
<1>4. v \in WaitRecords(Threads, Queues)
  BY <1>1, <1>3, BlockType
<1>5. OneNodeEach(v)
  BY <1>1, <1>2, <1>3, BlockMembers
<1>6. \A p \in Queues : \A u : Queued(v, p, u) <=> Queued(w, p, u) \/ (p \in {q} /\ u = s)
  BY <1>1, <1>2, <1>3, BlockMembers
<1>7. /\ v.woken = [w.woken EXCEPT ![s] = {}]
      /\ \A u \in Threads : u # s => v.state[u] = w.state[u]
  BY <1>1, <1>3, WaitTypes DEF Block
<1>8. v.woken = w.woken
  BY <1>1, <1>2, <1>7, WaitTypes
<1>9. ClientWaits(v, st)
  <2> SUFFICES ASSUME NEW c \in Clients
               PROVE  /\ \A p \in Queues : Queued(v, p, c) <=> p = c /\ st[c] = "asked"
                      /\ v.woken[c] = IF st[c] = "answered" THEN {c} ELSE {}
                      /\ st[c] = "answered" => Ready(v, c)
    BY DEF ClientWaits
  <2>1. c # s /\ c \in Threads
    BY Names
  <2>2. /\ \A p \in Queues : Queued(w, p, c) <=> p = c /\ st[c] = "asked"
        /\ w.woken[c] = IF st[c] = "answered" THEN {c} ELSE {}
        /\ st[c] = "answered" => Ready(w, c)
    BY DEF WaitOK, ClientWaits
  <2>3. \A p \in Queues : Queued(v, p, c) <=> Queued(w, p, c)
    BY <1>6, <2>1
  <2>4. v.state[c] = w.state[c]
    BY <1>7, <2>1
  <2> QED
    BY <1>8, <2>2, <2>3, <2>4 DEF Ready
<1>10. PICK e : e = [dn EXCEPT ![s] = q]
  OBVIOUS
<1>11. e \in [Servers -> Doings] /\ e[s] = q /\ \A u \in Servers : u # s => e[u] = dn[u]
  BY <1>10 DEF WaitOK, Doings, Lists
<1>12. ServerWaits(v, e)
  <2> SUFFICES ASSUME NEW u \in Servers
               PROVE  /\ \A p \in Queues : Queued(v, p, u)
                            <=> p = e[u] /\ p \in Lists /\ p \notin v.woken[u]
                      /\ v.woken[u] \subseteq Lists \cap {e[u]}
                      /\ v.woken[u] # {} => Ready(v, u)
    BY DEF ServerWaits
  <2>1. CASE u = s
    BY <1>2, <1>6, <1>8, <1>11, <2>1
  <2>2. CASE u # s
    BY <1>6, <1>7, <1>8, <1>11, <2>2, Names DEF WaitOK, ServerWaits, Ready
  <2> QED
    BY <2>1, <2>2
<1> QED
  BY <1>3, <1>4, <1>5, <1>6, <1>8, <1>9, <1>10, <1>11, <1>12 DEF WaitOK

\* A client blocks on the record of the call it has made.
LEMMA ClientBlocks ==
    ASSUME NEW w, NEW st, NEW dn, WaitOK(w, st, dn), NEW c \in Clients,
           st[c] = "out", NEW d \in BOOLEAN
    PROVE  /\ WaitOK(Block(w, c, {c}, d), [st EXCEPT ![c] = "asked"], dn)
           /\ Block(w, c, {c}, d).woken = w.woken
           /\ \A p \in Queues : \A u :
                 Queued(Block(w, c, {c}, d), p, u) <=> Queued(w, p, u) \/ (p = c /\ u = c)
<1>1. w \in WaitRecords(Threads, Queues) /\ OneNodeEach(w) /\ c \in Threads
  BY Names DEF WaitOK
<1>2. (\A p \in Queues : ~Queued(w, p, c)) /\ w.woken[c] = {}
  BY DEF WaitOK, ClientWaits
<1>3. PICK v : v = Block(w, c, {c}, d)
  OBVIOUS
<1>4. v \in WaitRecords(Threads, Queues)
  BY <1>1, <1>3, BlockType
<1>5. OneNodeEach(v)
  BY <1>1, <1>2, <1>3, BlockMembers
<1>6. \A p \in Queues : \A u : Queued(v, p, u) <=> Queued(w, p, u) \/ (p \in {c} /\ u = c)
  BY <1>1, <1>2, <1>3, BlockMembers
<1>7. /\ v.woken = [w.woken EXCEPT ![c] = {}]
      /\ \A u \in Threads : u # c => v.state[u] = w.state[u]
  BY <1>1, <1>3, WaitTypes DEF Block
<1>8. v.woken = w.woken
  BY <1>1, <1>2, <1>7, WaitTypes
<1>9. PICK e : e = [st EXCEPT ![c] = "asked"]
  OBVIOUS
<1>10. e \in [Clients -> Stages] /\ e[c] = "asked" /\ \A u \in Clients : u # c => e[u] = st[u]
  BY <1>9 DEF WaitOK, Stages
<1>11. ClientWaits(v, e)
  <2> SUFFICES ASSUME NEW u \in Clients
               PROVE  /\ \A p \in Queues : Queued(v, p, u) <=> p = u /\ e[u] = "asked"
                      /\ v.woken[u] = IF e[u] = "answered" THEN {u} ELSE {}
                      /\ e[u] = "answered" => Ready(v, u)
    BY DEF ClientWaits
  <2>1. CASE u = c
    BY <1>2, <1>6, <1>8, <1>10, <2>1
  <2>2. CASE u # c
    <3>1. /\ \A p \in Queues : Queued(w, p, u) <=> p = u /\ st[u] = "asked"
          /\ w.woken[u] = IF st[u] = "answered" THEN {u} ELSE {}
          /\ st[u] = "answered" => Ready(w, u)
      BY DEF WaitOK, ClientWaits
    <3>2. \A p \in Queues : Queued(v, p, u) <=> Queued(w, p, u)
      BY <1>6, <2>2
    <3>3. v.state[u] = w.state[u] /\ e[u] = st[u]
      BY <1>7, <1>10, <2>2, Names
    <3> QED
      BY <1>8, <3>1, <3>2, <3>3 DEF Ready
  <2> QED
    BY <2>1, <2>2
<1>12. ServerWaits(v, dn)
  <2> SUFFICES ASSUME NEW s \in Servers
               PROVE  /\ \A p \in Queues : Queued(v, p, s)
                            <=> p = dn[s] /\ p \in Lists /\ p \notin v.woken[s]
                      /\ v.woken[s] \subseteq Lists \cap {dn[s]}
                      /\ v.woken[s] # {} => Ready(v, s)
    BY DEF ServerWaits
  <2>1. c # s /\ s \in Threads
    BY Names
  <2>2. /\ \A p \in Queues : Queued(w, p, s) <=> p = dn[s] /\ p \in Lists /\ p \notin w.woken[s]
        /\ w.woken[s] \subseteq Lists \cap {dn[s]}
        /\ w.woken[s] # {} => Ready(w, s)
    BY DEF WaitOK, ServerWaits
  <2>3. v.state[s] = w.state[s] /\ \A p \in Queues : Queued(v, p, s) <=> Queued(w, p, s)
    BY <1>6, <1>7, <2>1
  <2> QED
    BY <1>8, <2>2, <2>3 DEF Ready
<1> QED
  BY <1>3, <1>4, <1>5, <1>6, <1>8, <1>9, <1>10, <1>11, <1>12 DEF WaitOK

\* A client comes back from its call.
LEMMA ClientLeaves ==
    ASSUME NEW w, NEW st, NEW dn, WaitOK(w, st, dn), NEW c \in Clients
    PROVE  /\ WaitOK(Leave(w, c), [st EXCEPT ![c] = "out"], dn)
           /\ \A s \in Servers : Leave(w, c).woken[s] = w.woken[s]
           /\ \A q \in Lists : \A u : Queued(Leave(w, c), q, u) => Queued(w, q, u)
<1>1. w \in WaitRecords(Threads, Queues) /\ OneNodeEach(w) /\ c \in Threads
  BY Names DEF WaitOK
<1>2. PICK v : v = Leave(w, c)
  OBVIOUS
<1>3. v \in WaitRecords(Threads, Queues)
  BY <1>1, <1>2, LeaveType
<1>4. OneNodeEach(v)
  BY <1>1, <1>2, LeaveMembers
<1>5. \A q \in Queues : \A u : Queued(v, q, u) <=> Queued(w, q, u) /\ u # c
  BY <1>1, <1>2, LeaveMembers
<1>6. v.state = w.state /\ v.woken = [w.woken EXCEPT ![c] = {}]
  BY <1>2 DEF Leave
<1>7. /\ v.woken[c] = {}
      /\ \A u \in Threads : u # c => v.woken[u] = w.woken[u]
  BY <1>1, <1>6, WaitTypes
<1>8. PICK e : e = [st EXCEPT ![c] = "out"]
  OBVIOUS
<1>9. e \in [Clients -> Stages] /\ e[c] = "out" /\ \A u \in Clients : u # c => e[u] = st[u]
  BY <1>8 DEF WaitOK, Stages
<1>10. ClientWaits(v, e)
  <2> SUFFICES ASSUME NEW u \in Clients
               PROVE  /\ \A p \in Queues : Queued(v, p, u) <=> p = u /\ e[u] = "asked"
                      /\ v.woken[u] = IF e[u] = "answered" THEN {u} ELSE {}
                      /\ e[u] = "answered" => Ready(v, u)
    BY DEF ClientWaits
  <2>1. CASE u = c
    BY <1>5, <1>7, <1>9, <2>1
  <2>2. CASE u # c
    BY <1>5, <1>6, <1>7, <1>9, <2>2, Names DEF WaitOK, ClientWaits, Ready
  <2> QED
    BY <2>1, <2>2
<1>11. ServerWaits(v, dn)
  BY <1>5, <1>6, <1>7, Names DEF WaitOK, ServerWaits, Ready
<1>12. \A s \in Servers : v.woken[s] = w.woken[s]
  BY <1>7, Names
<1>13. \A q \in Lists : \A u : Queued(v, q, u) => Queued(w, q, u)
  BY <1>5, Names
<1> QED
  BY <1>2, <1>3, <1>4, <1>8, <1>9, <1>10, <1>11, <1>12, <1>13 DEF WaitOK

\* The clock or a kill makes a thread runnable.
LEMMA ThreadUnblocks ==
    ASSUME NEW w, NEW st, NEW dn, WaitOK(w, st, dn), NEW t \in Threads
    PROVE  /\ WaitOK(Unblock(w, t), st, dn)
           /\ Unblock(w, t).woken = w.woken
           /\ \A q, u : Queued(Unblock(w, t), q, u) <=> Queued(w, q, u)
<1>1. w \in WaitRecords(Threads, Queues) /\ OneNodeEach(w)
  BY DEF WaitOK
<1>2. PICK v : v = Unblock(w, t)
  OBVIOUS
<1>3. v \in WaitRecords(Threads, Queues)
  BY <1>1, <1>2, UnblockType
<1>4. OneNodeEach(v) /\ \A q, u : Queued(v, q, u) <=> Queued(w, q, u)
  BY <1>1, <1>2, UnblockMembers
<1>5. v.woken = w.woken /\ \A u \in Threads : Ready(w, u) => Ready(v, u)
  BY <1>1, <1>2, WaitTypes DEF Unblock, Ready
<1>6. ClientWaits(v, st) /\ ServerWaits(v, dn)
  BY <1>4, <1>5, Names DEF WaitOK, ClientWaits, ServerWaits
<1> QED
  BY <1>2, <1>3, <1>4, <1>5, <1>6 DEF WaitOK

\* Calls are answered, and with the end of the channel the servers in recv told.
LEMMA CallersWake ==
    ASSUME NEW w, NEW st, NEW dn, WaitOK(w, st, dn),
           NEW S \in SUBSET Clients, \A c \in S : st[c] = "asked",
           NEW Q, Q = S \/ Q = {"recv"} \cup S,
           NEW sx, sx = [c \in Clients |-> IF c \in S THEN "answered" ELSE st[c]]
    PROVE  /\ WaitOK(WakeEach(w, Q), sx, dn)
           /\ Q = S => \A s \in Servers : WakeEach(w, Q).woken[s] = w.woken[s]
           /\ \A q \in Lists : \A u : Queued(WakeEach(w, Q), q, u) => Queued(w, q, u)
<1>1. /\ w \in WaitRecords(Threads, Queues) /\ OneNodeEach(w)
      /\ w.state \in [Threads -> RunStates] /\ w.woken \in [Threads -> SUBSET Queues]
  BY WaitTypes DEF WaitOK
<1>2. Q \in SUBSET Queues
  BY Names
<1>3. PICK v : v = WakeEach(w, Q)
  OBVIOUS
<1>4. v \in WaitRecords(Threads, Queues)
  BY <1>1, <1>2, <1>3, WakeEachType
<1>5. OneNodeEach(v)
  BY <1>1, <1>2, <1>3, WakeEachMembers
<1>6. \A q \in Queues : \A u : Queued(v, q, u) <=> Queued(w, q, u) /\ q \notin Q
  BY <1>1, <1>2, <1>3, WakeEachMembers
<1>7. \A t \in Threads :
          /\ v.state[t] = IF \E q \in Q : Queued(w, q, t) THEN "ready" ELSE w.state[t]
          /\ v.woken[t] = w.woken[t] \cup {q \in Q : Queued(w, q, t)}
  BY <1>1, <1>3 DEF WakeEach
<1>8. ClientWaits(v, sx)
  <2> SUFFICES ASSUME NEW c \in Clients
               PROVE  /\ \A p \in Queues : Queued(v, p, c) <=> p = c /\ sx[c] = "asked"
                      /\ v.woken[c] = IF sx[c] = "answered" THEN {c} ELSE {}
                      /\ sx[c] = "answered" => Ready(v, c)
    BY DEF ClientWaits
  <2>1. /\ \A p \in Queues : Queued(w, p, c) <=> p = c /\ st[c] = "asked"
        /\ w.woken[c] = IF st[c] = "answered" THEN {c} ELSE {}
        /\ st[c] = "answered" => Ready(w, c)
    BY DEF WaitOK, ClientWaits
  <2>2. c \in Threads /\ c \in Queues /\ c # "recv"
    BY Names DEF Lists
  <2>3. CASE c \in S
    <3>1. sx[c] = "answered" /\ c \in Q /\ Queued(w, c, c)
      BY <2>1, <2>2, <2>3
    <3>2. {q \in Q : Queued(w, q, c)} = {c}
      BY <1>2, <2>1, <3>1
    <3> QED
      BY <1>6, <1>7, <2>1, <2>2, <2>3, <3>1, <3>2 DEF Ready
  <2>4. CASE c \notin S
    <3>1. sx[c] = st[c] /\ c \notin Q
      BY <2>2, <2>4
    <3>2. \A q \in Q : ~Queued(w, q, c)
      BY <1>2, <2>1, <3>1
    <3>3. v.woken[c] = w.woken[c] /\ v.state[c] = w.state[c]
      BY <1>7, <2>2, <3>2
    <3> QED
      BY <1>6, <2>1, <3>1, <3>3 DEF Ready
  <2> QED
    BY <2>3, <2>4
<1>9. \A s \in Servers : \A q \in S : ~Queued(w, q, s)
  BY Names DEF WaitOK, ServerWaits
<1>10. ServerWaits(v, dn)
  <2> SUFFICES ASSUME NEW s \in Servers
               PROVE  /\ \A p \in Queues : Queued(v, p, s)
                            <=> p = dn[s] /\ p \in Lists /\ p \notin v.woken[s]
                      /\ v.woken[s] \subseteq Lists \cap {dn[s]}
                      /\ v.woken[s] # {} => Ready(v, s)
    BY DEF ServerWaits
  <2>1. /\ \A p \in Queues : Queued(w, p, s) <=> p = dn[s] /\ p \in Lists /\ p \notin w.woken[s]
        /\ w.woken[s] \subseteq Lists \cap {dn[s]}
        /\ w.woken[s] # {} => Ready(w, s)
    BY DEF WaitOK, ServerWaits
  <2>2. s \in Threads
    BY Names
  <2>3. /\ v.woken[s] = w.woken[s] \cup {q \in Q : Queued(w, q, s)}
        /\ v.state[s] = IF \E q \in Q : Queued(w, q, s) THEN "ready" ELSE w.state[s]
    BY <1>7, <2>2
  <2>4. \A p \in Queues : Queued(v, p, s) <=> p = dn[s] /\ p \in Lists /\ p \notin v.woken[s]
    BY <1>2, <1>6, <2>1, <2>3
  <2>5. v.woken[s] \subseteq Lists \cap {dn[s]}
    BY <1>2, <2>1, <2>3
  <2>6. v.woken[s] # {} => Ready(v, s)
    BY <2>1, <2>3 DEF Ready
  <2> QED
    BY <2>4, <2>5, <2>6
<1>11. sx \in [Clients -> Stages]
  BY DEF WaitOK, Stages
<1>12. Q = S => \A s \in Servers : v.woken[s] = w.woken[s]
  BY <1>7, <1>9, Names
<1> QED
  BY <1>3, <1>4, <1>5, <1>6, <1>8, <1>10, <1>11, <1>12, Names DEF WaitOK

-----------------------------------------------------------------------------
(* The lists of a channel. *)

\* Appending a thread that is not there.
LEMMA AppendMembers ==
    ASSUME NEW S, NEW s \in Seq(S), NEW t \in S, NoTwice(s), ~On(s, t)
    PROVE  /\ Append(s, t) \in Seq(S) /\ NoTwice(Append(s, t))
           /\ \A u : On(Append(s, t), u) <=> On(s, u) \/ u = t
<1>1. /\ Len(s) \in Nat /\ Len(Append(s, t)) = Len(s) + 1 /\ Append(s, t) \in Seq(S)
      /\ \A i \in 1..Len(s) : Append(s, t)[i] = s[i]
      /\ Append(s, t)[Len(s) + 1] = t
  BY AppendProperties, LenProperties
<1>2. \A i \in 1..Len(s) : s[i] # t
  BY DEF On
<1>3. NoTwice(Append(s, t))
  BY <1>1, <1>2 DEF NoTwice
<1>4. Len(s) + 1 \in 1..(Len(s) + 1) /\ \A i \in 1..Len(s) : i \in 1..(Len(s) + 1)
  BY <1>1
<1>5. \A i \in 1..(Len(s) + 1) : i \in 1..Len(s) \/ i = Len(s) + 1
  BY <1>1
<1>6. \A u : (\E i \in 1..Len(Append(s, t)) : Append(s, t)[i] = u)
               <=> (\E i \in 1..Len(s) : s[i] = u) \/ u = t
  BY <1>1, <1>4, <1>5
<1> QED
  BY <1>1, <1>3, <1>6 DEF On

\* Taking the first.
LEMMA TailMembers ==
    ASSUME NEW S, NEW s \in Seq(S), s # <<>>, NoTwice(s)
    PROVE  /\ Head(s) \in S /\ Tail(s) \in Seq(S) /\ NoTwice(Tail(s)) /\ On(s, Head(s))
           /\ Len(Tail(s)) = Len(s) - 1
           /\ \A u : On(Tail(s), u) <=> On(s, u) /\ u # Head(s)
<1>1. PICK t : t = Head(s)
  OBVIOUS
<1>2. /\ Len(s) \in Nat \ {0} /\ t = s[1] /\ t \in S /\ Tail(s) \in Seq(S)
      /\ Len(Tail(s)) = Len(s) - 1
      /\ \A i \in 1..(Len(s) - 1) : Tail(s)[i] = s[i + 1]
  <2>1. Len(s) \in Nat \ {0}
    BY EmptySeq
  <2>2. /\ t \in S /\ Tail(s) \in Seq(S) /\ Len(Tail(s)) = Len(s) - 1
        /\ \A i \in 1..Len(Tail(s)) : Tail(s)[i] = s[i + 1]
    BY <1>1, HeadTailProperties
  <2>3. t = s[1]
    BY <1>1
  <2> QED
    BY <2>1, <2>2, <2>3
<1>3. 1 \in 1..Len(s)
  BY <1>2
<1>4. NoTwice(Tail(s))
  BY <1>2 DEF NoTwice
<1>5. ASSUME NEW u, NEW i \in 1..Len(Tail(s)), Tail(s)[i] = u
      PROVE  (\E j \in 1..Len(s) : s[j] = u) /\ u # t
  <2>1. i + 1 \in 1..Len(s) /\ s[i + 1] = u /\ i + 1 # 1
    BY <1>2, <1>5
  <2> QED
    BY <1>2, <1>3, <2>1 DEF NoTwice
<1>6. ASSUME NEW u, NEW j \in 1..Len(s), s[j] = u, u # t
      PROVE  \E i \in 1..Len(Tail(s)) : Tail(s)[i] = u
  <2>1. j - 1 \in 1..(Len(s) - 1) /\ (j - 1) + 1 = j
    BY <1>2, <1>6
  <2>2. Tail(s)[j - 1] = s[(j - 1) + 1]
    BY <1>2, <2>1
  <2> QED
    BY <1>2, <1>6, <2>1, <2>2
<1>7. On(s, t)
  BY <1>2, <1>3 DEF On
<1> QED
  BY <1>1, <1>2, <1>4, <1>5, <1>6, <1>7 DEF On

\* Nobody is on an empty list, and somebody on any other.
LEMMA EmptyList ==
    ASSUME NEW S, NEW s \in Seq(S)
    PROVE  /\ s = <<>> <=> \A u : ~On(s, u)
           /\ s = <<>> <=> Len(s) = 0
           /\ Len(s) \in Nat
<1>1. Len(s) \in Nat /\ (s = <<>> <=> Len(s) = 0)
  BY EmptySeq, LenProperties
<1>2. ASSUME s # <<>> PROVE On(s, s[1])
  <2>1. 1 \in 1..Len(s)
    BY <1>1, <1>2
  <2> QED
    BY <2>1 DEF On
<1>3. ASSUME s = <<>> PROVE \A u : ~On(s, u)
  BY <1>1, <1>3 DEF On
<1> QED
  BY <1>1, <1>2, <1>3

\* The reply table without a call.
Clear(inf, c) == [s \in Slots |-> IF inf[s].call = c THEN NoCall ELSE inf[s]]

TakenType == [call : Clients, generation : 1..MaxGeneration] \cup {NoCall}

\* A slot is free, or names a client.
LEMMA SlotFacts ==
    ASSUME NEW inf \in [Slots -> TakenType], NEW s \in Slots
    PROVE  /\ NoCall.call = "none" /\ "none" \notin Clients
           /\ inf[s] # NoCall <=> inf[s].call \in Clients
           /\ inf[s] # NoCall => inf[s] \in [call : Clients, generation : 1..MaxGeneration]
BY Names DEF NoCall, TakenType

\* A client queues its call.
LEMMA CallIsQueued ==
    ASSUME NEW p, NEW inf, NEW st, ListOK(p, inf, st, TRUE), NEW c \in Clients,
           st \in [Clients -> Stages], st[c] = "out"
    PROVE  ListOK(Append(p, c), inf, [st EXCEPT ![c] = "asked"], TRUE)
<1>1. p \in Seq(Clients) /\ NoTwice(p) /\ ~On(p, c) /\ ~Taken(inf, c)
  BY DEF ListOK
<1>2. /\ Append(p, c) \in Seq(Clients) /\ NoTwice(Append(p, c))
      /\ \A u : On(Append(p, c), u) <=> On(p, u) \/ u = c
  BY <1>1, AppendMembers
<1>3. PICK x : x = [st EXCEPT ![c] = "asked"]
  OBVIOUS
<1>4. x[c] = "asked" /\ \A u \in Clients : u # c => x[u] = st[u]
  BY <1>3
<1>5. ASSUME NEW u \in Clients
      PROVE  /\ x[u] = "asked" <=> On(Append(p, c), u) \/ Taken(inf, u)
             /\ ~(On(Append(p, c), u) /\ Taken(inf, u))
  BY <1>1, <1>2, <1>4 DEF ListOK
<1> QED
  BY <1>2, <1>3, <1>5 DEF ListOK

\* A call is withdrawn from whatever list it is on.
LEMMA CallIsWithdrawn ==
    ASSUME NEW p, NEW inf, NEW st, NEW sv, ListOK(p, inf, st, sv), NEW c \in Clients,
           st \in [Clients -> Stages]
    PROVE  ListOK(Without(p, c), Clear(inf, c), [st EXCEPT ![c] = "out"], sv)
<1>1. p \in Seq(Clients) /\ NoTwice(p) /\ inf \in [Slots -> TakenType]
  BY DEF ListOK, TakenType
<1>2. Without(p, c) \in Seq(Clients)
  BY <1>1, WithoutType
<1>3. /\ NoTwice(Without(p, c))
      /\ \A u : On(Without(p, c), u) <=> u # c /\ On(p, u)
  BY <1>1, WithoutMembers
<1>4. PICK x, y : x = [st EXCEPT ![c] = "out"] /\ y = Clear(inf, c)
  OBVIOUS
<1>5. x[c] = "out" /\ \A u \in Clients : u # c => x[u] = st[u]
  BY <1>4
<1>6. /\ y \in [Slots -> TakenType]
      /\ \A s \in Slots : y[s] = IF inf[s].call = c THEN NoCall ELSE inf[s]
  BY <1>1, <1>4 DEF Clear, TakenType
<1>7. \A u \in Clients : Taken(y, u) <=> Taken(inf, u) /\ u # c
  BY <1>1, <1>6, SlotFacts DEF Taken
<1>8. ASSUME NEW u \in Clients
      PROVE  /\ x[u] = "asked" <=> On(Without(p, c), u) \/ Taken(y, u)
             /\ ~(On(Without(p, c), u) /\ Taken(y, u))
             /\ x[u] = "asked" => sv
  <2>1. CASE u = c
    BY <1>3, <1>5, <1>7, <2>1
  <2>2. CASE u # c
    BY <1>3, <1>5, <1>7, <2>2 DEF ListOK
  <2> QED
    BY <2>1, <2>2
<1>9. \A i, j \in Slots : y[i].call = y[j].call /\ y[i] # NoCall => i = j
  BY <1>1, <1>6, SlotFacts DEF ListOK
<1> QED
  BY <1>2, <1>3, <1>4, <1>6, <1>8, <1>9 DEF ListOK, TakenType

\* A client with its answer is on no list.
LEMMA CallIsOver ==
    ASSUME NEW p, NEW inf, NEW st, NEW sv, ListOK(p, inf, st, sv), NEW c \in Clients,
           st \in [Clients -> Stages], st[c] = "answered"
    PROVE  ListOK(p, inf, [st EXCEPT ![c] = "out"], sv)
<1>1. PICK x : x = [st EXCEPT ![c] = "out"]
  OBVIOUS
<1>2. x[c] = "out" /\ \A u \in Clients : u # c => x[u] = st[u]
  BY <1>1
<1>3. ASSUME NEW u \in Clients
      PROVE  /\ x[u] = "asked" <=> On(p, u) \/ Taken(inf, u)
             /\ ~(On(p, u) /\ Taken(inf, u))
             /\ x[u] = "asked" => sv
  <2>1. CASE u = c
    BY <1>2, <2>1 DEF ListOK
  <2>2. CASE u # c
    BY <1>2, <2>2 DEF ListOK
  <2> QED
    BY <2>1, <2>2
<1> QED
  BY <1>1, <1>3 DEF ListOK

\* recv moves the oldest call to a free slot.
LEMMA CallIsTaken ==
    ASSUME NEW p, NEW inf, NEW st, NEW sv, ListOK(p, inf, st, sv), p # <<>>,
           NEW s \in Slots, inf[s] = NoCall, NEW g \in 1..MaxGeneration
    PROVE  /\ ListOK(Tail(p), [inf EXCEPT ![s] = [call |-> Head(p), generation |-> g]], st, sv)
           /\ Head(p) \in Clients /\ st[Head(p)] = "asked"
           /\ \A u \in Clients : Taken([inf EXCEPT ![s] = [call |-> Head(p), generation |-> g]], u)
                                   <=> Taken(inf, u) \/ u = Head(p)
<1>1. p \in Seq(Clients) /\ NoTwice(p) /\ inf \in [Slots -> TakenType]
  BY DEF ListOK, TakenType
<1>2. PICK c : c = Head(p)
  OBVIOUS
<1>3. /\ c \in Clients /\ Tail(p) \in Seq(Clients) /\ NoTwice(Tail(p)) /\ On(p, c)
      /\ \A u : On(Tail(p), u) <=> On(p, u) /\ u # c
  BY <1>1, <1>2, TailMembers
<1>4. PICK y : y = [inf EXCEPT ![s] = [call |-> c, generation |-> g]]
  OBVIOUS
<1>5. /\ y \in [Slots -> TakenType] /\ y[s] = [call |-> c, generation |-> g]
      /\ \A i \in Slots : i # s => y[i] = inf[i]
  BY <1>1, <1>3, <1>4 DEF TakenType
<1>6. \A u \in Clients : Taken(y, u) <=> Taken(inf, u) \/ u = c
  <2> SUFFICES ASSUME NEW u \in Clients PROVE Taken(y, u) <=> Taken(inf, u) \/ u = c
    OBVIOUS
  <2>1. y[s].call = c /\ inf[s].call # u
    BY <1>1, <1>5, SlotFacts
  <2> QED
    BY <1>5, <2>1 DEF Taken
<1>7. ASSUME NEW u \in Clients
      PROVE  /\ st[u] = "asked" <=> On(Tail(p), u) \/ Taken(y, u)
             /\ ~(On(Tail(p), u) /\ Taken(y, u))
             /\ st[u] = "asked" => sv
  BY <1>3, <1>6 DEF ListOK
<1>8. ASSUME NEW i \in Slots, NEW j \in Slots, y[i].call = y[j].call, y[i] # NoCall PROVE i = j
  <2>1. \A k \in Slots : k # s => y[k].call # c
    BY <1>3, <1>5 DEF ListOK, Taken
  <2>2. CASE i = s \/ j = s
    BY <1>5, <1>8, <2>1, <2>2
  <2>3. CASE i # s /\ j # s
    BY <1>5, <1>8, <2>3 DEF ListOK
  <2> QED
    BY <2>2, <2>3
<1>9. st[c] = "asked"
  BY <1>3 DEF ListOK
<1>10. ListOK(Tail(p), y, st, sv)
  BY <1>3, <1>5, <1>7, <1>8 DEF ListOK, TakenType
<1> QED
  BY <1>2, <1>3, <1>4, <1>6, <1>9, <1>10

\* A call has been taken into a slot.
SlotHolds(inf, s, c) == s \in Slots /\ inf[s] # NoCall /\ inf[s].call = c

\* reply empties the slot of the call it answers, the only one that names it.
LEMMA CallIsAnswered ==
    ASSUME NEW p, NEW inf, NEW st, NEW sv, ListOK(p, inf, st, sv),
           NEW s, NEW c, SlotHolds(inf, s, c), st \in [Clients -> Stages]
    PROVE  /\ c \in Clients /\ st[c] = "asked"
           /\ [inf EXCEPT ![s] = NoCall] = Clear(inf, c)
           /\ ListOK(p, Clear(inf, c), [st EXCEPT ![c] = "answered"], sv)
<1>1. p \in Seq(Clients) /\ NoTwice(p) /\ inf \in [Slots -> TakenType]
  BY DEF ListOK, TakenType
<1>2. s \in Slots /\ inf[s] # NoCall /\ inf[s].call = c /\ c \in Clients /\ Taken(inf, c)
  BY <1>1, SlotFacts DEF SlotHolds, Taken
<1>3. st[c] = "asked" /\ ~On(p, c)
  BY <1>2 DEF ListOK
<1>4. \A i \in Slots : inf[i].call = c <=> i = s
  BY <1>2 DEF ListOK
<1>5. [inf EXCEPT ![s] = NoCall] = Clear(inf, c)
  BY <1>1, <1>2, <1>4 DEF Clear
<1>6. PICK x, y : x = [st EXCEPT ![c] = "answered"] /\ y = Clear(inf, c)
  OBVIOUS
<1>7. x[c] = "answered" /\ \A u \in Clients : u # c => x[u] = st[u]
  BY <1>2, <1>6
<1>8. /\ y \in [Slots -> TakenType]
      /\ \A i \in Slots : y[i] = IF inf[i].call = c THEN NoCall ELSE inf[i]
  BY <1>1, <1>6 DEF Clear, TakenType
<1>9. \A u \in Clients : Taken(y, u) <=> Taken(inf, u) /\ u # c
  BY <1>1, <1>8, SlotFacts DEF Taken
<1>10. ASSUME NEW u \in Clients
       PROVE  /\ x[u] = "asked" <=> On(p, u) \/ Taken(y, u)
              /\ ~(On(p, u) /\ Taken(y, u))
              /\ x[u] = "asked" => sv
  <2>1. CASE u = c
    BY <1>3, <1>7, <1>9, <2>1
  <2>2. CASE u # c
    BY <1>7, <1>9, <2>2 DEF ListOK
  <2> QED
    BY <2>1, <2>2
<1>11. \A i, j \in Slots : y[i].call = y[j].call /\ y[i] # NoCall => i = j
  BY <1>1, <1>8, SlotFacts DEF ListOK
<1> QED
  BY <1>1, <1>2, <1>3, <1>5, <1>6, <1>8, <1>10, <1>11 DEF ListOK, TakenType

-----------------------------------------------------------------------------
(* The tokens. *)

\* Generations go round.
LEMMA Turns ==
    ASSUME NEW g \in 1..MaxGeneration, NEW m \in 0..(MaxGeneration - 1)
    PROVE  /\ NextGeneration(g) \in 1..MaxGeneration
           /\ Before(NextGeneration(g), m + 1) = Before(g, m)
           /\ Before(g, 0) = g
           /\ m # 0 => Before(g, m) # g
<1>1. MaxGeneration \in Nat \ {0}
  BY ChannelAssumption
<1>2. CASE g = MaxGeneration
  BY <1>1, <1>2 DEF NextGeneration, Before
<1>3. CASE g # MaxGeneration
  BY <1>1, <1>3 DEF NextGeneration, Before
<1> QED
  BY <1>2, <1>3

\* A token for a call, and a call's slot, are the same thing twice.
NamesCall(tk, inf) == inf[tk.slot] = [call |-> tk.client, generation |-> tk.generation]

\* The servers remember a new token: the last Memory of them, in order.
LEMMA RememberIsLast ==
    ASSUME NEW rem \in Seq(TokenType), Len(rem) <= Memory, NEW tk \in TokenType
    PROVE  \E k \in {0, 1} :
              /\ Remember(rem, tk) \in Seq(TokenType)
              /\ Len(Remember(rem, tk)) = Len(rem) + 1 - k
              /\ Len(rem) + 1 - k <= Memory
              /\ \A i \in 1..(Len(rem) + 1 - k) :
                    Remember(rem, tk)[i] = IF i + k <= Len(rem) THEN rem[i + k] ELSE tk
<1>1. PICK all \in Seq(TokenType) : all = Append(rem, tk)
  BY AppendProperties
<1>2. /\ Len(rem) \in Nat /\ Len(all) = Len(rem) + 1
      /\ \A i \in 1..Len(rem) : all[i] = rem[i]
      /\ all[Len(rem) + 1] = tk
  BY <1>1, AppendProperties, LenProperties
<1>3. Memory \in Nat
  BY ChannelAssumption
<1>4. \A i \in 1..(Len(rem) + 1) : all[i] = IF i <= Len(rem) THEN rem[i] ELSE tk
  BY <1>2
<1>5. CASE Len(all) > Memory
  <2>1. Remember(rem, tk) = Tail(all)
    BY <1>1, <1>5 DEF Remember
  <2>2. all # <<>>
    BY <1>2, EmptySeq
  <2>3. /\ Tail(all) \in Seq(TokenType) /\ Len(Tail(all)) = Len(all) - 1
        /\ \A i \in 1..Len(Tail(all)) : Tail(all)[i] = all[i + 1]
    BY <2>2, HeadTailProperties
  <2>4. \A i \in 1..Len(rem) : Tail(all)[i] = IF i + 1 <= Len(rem) THEN rem[i + 1] ELSE tk
    <3> SUFFICES ASSUME NEW i \in 1..Len(rem)
                 PROVE  Tail(all)[i] = IF i + 1 <= Len(rem) THEN rem[i + 1] ELSE tk
      OBVIOUS
    <3>1. i + 1 \in 1..(Len(rem) + 1) /\ i \in 1..Len(Tail(all))
      BY <1>2, <2>3
    <3> QED
      BY <1>4, <2>3, <3>1
  <2>5. Len(rem) + 1 - 1 = Len(rem)
    BY <1>2
  <2> QED
    BY <1>2, <2>1, <2>3, <2>4, <2>5
<1>6. CASE ~(Len(all) > Memory)
  <2>1. Remember(rem, tk) = all
    BY <1>1, <1>6 DEF Remember
  <2>2. \A i \in 1..(Len(rem) + 1) : i + 0 = i
    BY <1>2
  <2>3. Len(rem) + 1 - 0 = Len(rem) + 1
    BY <1>2
  <2> QED
    BY <1>2, <1>3, <1>4, <1>6, <2>1, <2>2, <2>3
<1> QED
  BY <1>5, <1>6

\* The invariant of one token, k turns old.
TokenOK(rem, inf, g, i) ==
    /\ rem[i].generation = Before(g, Len(rem) + 1 - i)
    /\ rem[i].live <=> NamesCall(rem[i], inf)
    /\ inf[rem[i].slot] # NoCall =>
          \E j \in i..Len(rem) : rem[j].slot = rem[i].slot /\ rem[j].live

LEMMA TokensByOne ==
    ASSUME NEW rem, NEW inf, NEW g
    PROVE  TokensOK(rem, inf, g) <=>
              /\ rem \in Seq(TokenType) /\ Len(rem) <= Memory /\ g \in 1..MaxGeneration
              /\ \A i \in 1..Len(rem) : TokenOK(rem, inf, g, i)
BY DEF TokensOK, TokenOK, NamesCall

\* recv hands out a token for a free slot.
LEMMA TokenIsHandedOut ==
    ASSUME NEW rem, NEW inf \in [Slots -> TakenType], NEW g, TokensOK(rem, inf, g),
           NEW s \in Slots, inf[s] = NoCall, NEW c \in Clients
    PROVE  TokensOK(Remember(rem, [slot |-> s, generation |-> g, client |-> c, live |-> TRUE]),
                    [inf EXCEPT ![s] = [call |-> c, generation |-> g]], NextGeneration(g))
<1>1. /\ rem \in Seq(TokenType) /\ Len(rem) <= Memory /\ g \in 1..MaxGeneration
      /\ \A i \in 1..Len(rem) : TokenOK(rem, inf, g, i)
  BY TokensByOne
<1>2. /\ MaxGeneration \in Nat \ {0} /\ Memory \in Nat /\ Memory <= MaxGeneration
      /\ Len(rem) \in Nat
  BY <1>1, ChannelAssumption, LenProperties
<1>3. PICK tk \in TokenType : tk = [slot |-> s, generation |-> g, client |-> c, live |-> TRUE]
  BY <1>1 DEF TokenType
<1>4. PICK r, y, h : /\ r = Remember(rem, tk)
                     /\ y = [inf EXCEPT ![s] = [call |-> c, generation |-> g]]
                     /\ h = NextGeneration(g)
  OBVIOUS
<1>5. PICK k \in {0, 1} :
              /\ r \in Seq(TokenType)
              /\ Len(r) = Len(rem) + 1 - k
              /\ Len(rem) + 1 - k <= Memory
              /\ \A i \in 1..(Len(rem) + 1 - k) :
                    r[i] = IF i + k <= Len(rem) THEN rem[i + k] ELSE tk
  BY <1>1, <1>4, RememberIsLast
<1>6. /\ y[s] = [call |-> c, generation |-> g]
      /\ \A i \in Slots : i # s => y[i] = inf[i]
  BY <1>4
<1>7. h \in 1..MaxGeneration
  BY <1>1, <1>2, <1>4, Turns
<1>8. \A i \in 1..Len(rem) : rem[i] \in TokenType
  BY <1>1, ElementOfSeq
<1>9. ASSUME NEW i \in 1..Len(r) PROVE TokenOK(r, y, h, i)
  <2>1. i \in Int /\ Len(r) \in Int /\ 1 <= i /\ i <= Len(r)
    BY <1>2, <1>5
  <2>2. PICK m \in 0..(MaxGeneration - 1) : m = Len(rem) + 1 - (i + k)
    BY <1>2, <1>5, <2>1
  <2>3. Len(r) + 1 - i = m + 1
    BY <1>2, <1>5, <2>1, <2>2
  <2>4. Before(h, Len(r) + 1 - i) = Before(g, m)
    BY <1>1, <1>4, <2>2, <2>3, Turns
  <2>5. CASE i + k > Len(rem)
    <3>1. r[i] = tk /\ m = 0 /\ i \in i..Len(r)
      BY <1>2, <1>5, <2>1, <2>2, <2>5
    <3>2. Before(g, m) = g
      BY <1>1, <2>2, <3>1, Turns
    <3>3. NamesCall(tk, y) /\ tk.live /\ tk.generation = g
      BY <1>3, <1>6 DEF NamesCall
    <3> QED
      BY <2>4, <3>1, <3>2, <3>3 DEF TokenOK
  <2>6. CASE i + k <= Len(rem)
    <3>1. PICK a \in 1..Len(rem) : a = i + k
      BY <1>2, <2>1, <2>6
    <3>2. r[i] = rem[a] /\ m = Len(rem) + 1 - a /\ m # 0
      BY <1>2, <1>5, <2>1, <2>2, <2>6, <3>1
    <3>3. TokenOK(rem, inf, g, a) /\ rem[a] \in TokenType
      BY <1>1, <1>8, <3>1
    <3>4. rem[a].generation = Before(g, m) /\ Before(g, m) # g
      BY <1>1, <2>2, <3>2, <3>3, Turns DEF TokenOK
    <3>5. r[Len(r)] = tk /\ Len(r) \in i..Len(r)
      <4>1. Len(r) \in 1..(Len(rem) + 1 - k) /\ ~(Len(r) + k <= Len(rem))
        BY <1>2, <1>5, <2>1
      <4> QED
        BY <1>5, <2>1, <4>1
    <3>6. CASE rem[a].slot = s
      <4>1. ~rem[a].live
        BY <3>3, <3>6, Names DEF TokenOK, NamesCall, NoCall, TokenType
      <4>2. ~NamesCall(rem[a], y)
        BY <1>6, <3>4, <3>6 DEF NamesCall
      <4>3. \E j \in i..Len(r) : r[j].slot = r[i].slot /\ r[j].live
        BY <1>3, <3>2, <3>5, <3>6
      <4> QED
        BY <2>4, <3>2, <3>4, <4>1, <4>2, <4>3 DEF TokenOK
    <3>7. CASE rem[a].slot # s
      <4>1. y[rem[a].slot] = inf[rem[a].slot]
        BY <1>6, <3>3, <3>7 DEF TokenType
      <4>2. ASSUME NEW b \in a..Len(rem) PROVE b - k \in i..Len(r) /\ r[b - k] = rem[b]
        <5>1. /\ b - k \in i..Len(r) /\ b - k \in 1..(Len(rem) + 1 - k)
              /\ (b - k) + k = b /\ b <= Len(rem)
          BY <1>2, <1>5, <2>1, <3>1
        <5> QED
          BY <1>5, <5>1
      <4>3. y[r[i].slot] # NoCall => \E j \in i..Len(r) : r[j].slot = r[i].slot /\ r[j].live
        BY <3>2, <3>3, <4>1, <4>2 DEF TokenOK
      <4> QED
        BY <2>4, <3>2, <3>3, <3>4, <4>1, <4>3 DEF TokenOK, NamesCall
    <3> QED
      BY <3>6, <3>7
  <2> QED
    BY <1>2, <1>5, <2>1, <2>5, <2>6
<1>10. Len(r) <= Memory
  BY <1>5
<1>11. TokensOK(r, y, h)
  BY <1>5, <1>7, <1>9, <1>10, TokensByOne
<1> QED
  BY <1>3, <1>4, <1>11

\* The tokens of a call that is over.
StaleIn(rem, c) ==
    [i \in 1..Len(rem) |-> IF rem[i].client = c THEN [rem[i] EXCEPT !.live = FALSE] ELSE rem[i]]

\* A list made entry by entry.
LEMMA ListByEntry ==
    ASSUME NEW S, NEW n \in Nat, NEW r, DOMAIN r = 1..n, \A i \in 1..n : r[i] \in S,
           r = [i \in 1..n |-> r[i]]
    PROVE  r \in Seq(S) /\ Len(r) = n
<1>1. r \in [1..n -> S]
  OBVIOUS
<1>2. r \in Seq(S)
  BY <1>1, IsASeq
<1> QED
  BY <1>2, LenProperties

\* A call is answered or withdrawn.
LEMMA TokensGoStale ==
    ASSUME NEW rem, NEW inf \in [Slots -> TakenType], NEW g, TokensOK(rem, inf, g),
           NEW c \in Clients
    PROVE  TokensOK(StaleIn(rem, c), Clear(inf, c), g)
<1>1. /\ rem \in Seq(TokenType) /\ Len(rem) <= Memory /\ g \in 1..MaxGeneration
      /\ \A i \in 1..Len(rem) : TokenOK(rem, inf, g, i)
  BY TokensByOne
<1>2. Len(rem) \in Nat /\ \A i \in 1..Len(rem) : rem[i] \in TokenType
  BY <1>1, LenProperties, ElementOfSeq
<1>3. PICK r, y : r = StaleIn(rem, c) /\ y = Clear(inf, c)
  OBVIOUS
<1>4. /\ DOMAIN r = 1..Len(rem) /\ r = [i \in 1..Len(rem) |-> r[i]]
      /\ \A i \in 1..Len(rem) :
            r[i] = IF rem[i].client = c THEN [rem[i] EXCEPT !.live = FALSE] ELSE rem[i]
  BY <1>3 DEF StaleIn
<1>5. \A i \in 1..Len(rem) :
          /\ r[i] \in TokenType
          /\ r[i].slot = rem[i].slot /\ r[i].generation = rem[i].generation
          /\ r[i].client = rem[i].client
          /\ r[i].live <=> rem[i].live /\ rem[i].client # c
  BY <1>2, <1>4 DEF TokenType
<1>6. r \in Seq(TokenType) /\ Len(r) = Len(rem)
  BY <1>2, <1>4, <1>5, ListByEntry
<1>7. \A i \in Slots : y[i] = IF inf[i].call = c THEN NoCall ELSE inf[i]
  BY <1>3 DEF Clear
<1>8. ASSUME NEW i \in 1..Len(r) PROVE TokenOK(r, y, g, i)
  <2>1. i \in 1..Len(rem) /\ TokenOK(rem, inf, g, i) /\ rem[i].slot \in Slots /\ rem[i].client \in Clients
    BY <1>1, <1>2, <1>6 DEF TokenType
  <2>2. r[i].generation = Before(g, Len(r) + 1 - i)
    BY <1>5, <1>6, <2>1 DEF TokenOK
  <2>3. NamesCall(r[i], y) <=> NamesCall(rem[i], inf) /\ rem[i].client # c
    <3>1. /\ y[rem[i].slot] = IF inf[rem[i].slot].call = c THEN NoCall ELSE inf[rem[i].slot]
          /\ r[i].slot = rem[i].slot /\ r[i].generation = rem[i].generation
          /\ r[i].client = rem[i].client
      BY <1>5, <1>7, <2>1
    <3>2. NoCall # [call |-> rem[i].client, generation |-> rem[i].generation]
      BY <2>1, Names DEF NoCall
    <3> QED
      BY <3>1, <3>2 DEF NamesCall
  <2>4. r[i].live <=> NamesCall(r[i], y)
    BY <1>5, <2>1, <2>3 DEF TokenOK
  <2>5. ASSUME y[r[i].slot] # NoCall
        PROVE  \E j \in i..Len(r) : r[j].slot = r[i].slot /\ r[j].live
    <3>1. inf[rem[i].slot] # NoCall /\ inf[rem[i].slot].call # c
      BY <1>5, <1>7, <2>1, <2>5
    <3>2. PICK j \in i..Len(rem) : rem[j].slot = rem[i].slot /\ rem[j].live
      BY <2>1, <3>1 DEF TokenOK
    <3>3. j \in 1..Len(rem) /\ j \in i..Len(r)
      BY <1>2, <1>6, <2>1
    <3>4. NamesCall(rem[j], inf)
      BY <1>1, <3>2, <3>3 DEF TokenOK
    <3>5. rem[j].client # c
      BY <3>1, <3>2, <3>4 DEF NamesCall
    <3>6. r[j].slot = r[i].slot /\ r[j].live
      BY <1>5, <2>1, <3>2, <3>3, <3>5
    <3> QED
      BY <3>3, <3>6
  <2> QED
    BY <2>2, <2>4, <2>5 DEF TokenOK
<1>9. TokensOK(r, y, g)
  BY <1>1, <1>6, <1>8, TokensByOne
<1> QED
  BY <1>3, <1>9

\* The channel stops being served and every call is over.
LEMMA TokensAllStale ==
    ASSUME NEW rem, NEW inf, NEW g, TokensOK(rem, inf, g)
    PROVE  TokensOK([i \in 1..Len(rem) |-> [rem[i] EXCEPT !.live = FALSE]],
                    [i \in Slots |-> NoCall], g)
<1>1. /\ rem \in Seq(TokenType) /\ Len(rem) <= Memory /\ g \in 1..MaxGeneration
      /\ \A i \in 1..Len(rem) : TokenOK(rem, inf, g, i)
  BY TokensByOne
<1>2. Len(rem) \in Nat /\ \A i \in 1..Len(rem) : rem[i] \in TokenType
  BY <1>1, LenProperties, ElementOfSeq
<1>3. PICK r, y : /\ r = [i \in 1..Len(rem) |-> [rem[i] EXCEPT !.live = FALSE]]
                  /\ y = [i \in Slots |-> NoCall]
  OBVIOUS
<1>4. /\ DOMAIN r = 1..Len(rem) /\ r = [i \in 1..Len(rem) |-> r[i]]
      /\ \A i \in 1..Len(rem) : r[i] = [rem[i] EXCEPT !.live = FALSE]
  BY <1>3
<1>5. \A i \in 1..Len(rem) :
          /\ r[i] \in TokenType /\ ~r[i].live
          /\ r[i].slot = rem[i].slot /\ r[i].generation = rem[i].generation
  BY <1>2, <1>4 DEF TokenType
<1>6. r \in Seq(TokenType) /\ Len(r) = Len(rem)
  BY <1>2, <1>4, <1>5, ListByEntry
<1>7. ASSUME NEW i \in 1..Len(r) PROVE TokenOK(r, y, g, i)
  <2>1. i \in 1..Len(rem) /\ TokenOK(rem, inf, g, i) /\ r[i].slot \in Slots /\ r[i].client \in Clients
    BY <1>1, <1>5, <1>6 DEF TokenType
  <2>2. r[i].generation = Before(g, Len(r) + 1 - i)
    BY <1>5, <1>6, <2>1 DEF TokenOK
  <2>3. y[r[i].slot] = NoCall
    BY <1>3, <2>1
  <2>4. ~NamesCall(r[i], y)
    BY <2>1, <2>3, Names DEF NamesCall, NoCall
  <2> QED
    BY <1>5, <2>1, <2>2, <2>3, <2>4 DEF TokenOK
<1>8. TokensOK(r, y, g)
  BY <1>1, <1>6, <1>7, TokensByOne
<1> QED
  BY <1>3, <1>8

-----------------------------------------------------------------------------
(* References and holders. *)

\* One for a member, nothing for anything else.
Has(S, x) == IF x \in S THEN 1 ELSE 0

\* Two sets that differ in one member at most.
LEMMA MemberCount ==
    ASSUME NEW S, IsFiniteSet(S), NEW T, NEW x, \A y : y # x => (y \in T <=> y \in S)
    PROVE  /\ IsFiniteSet(T) /\ Cardinality(S) \in Nat /\ Cardinality(T) \in Nat
           /\ Cardinality(T) = Cardinality(S) - Has(S, x) + Has(T, x)
<1>1. IsFiniteSet(S \ {x}) /\ Cardinality(S \ {x}) = Cardinality(S) - Has(S, x)
  BY FS_RemoveElement, FS_CardinalityType DEF Has
<1>2. Cardinality(S) \in Nat /\ Cardinality(S \ {x}) \in Nat
  BY <1>1, FS_CardinalityType
<1>3. CASE x \in T
  <2>1. T = (S \ {x}) \cup {x}
    BY <1>3
  <2>2. IsFiniteSet(T) /\ Cardinality(T) = Cardinality(S \ {x}) + 1
    <3>1. x \notin S \ {x}
      OBVIOUS
    <3> QED
      BY <1>1, <2>1, <3>1, FS_AddElement
  <2> QED
    BY <1>1, <1>2, <1>3, <2>2 DEF Has
<1>4. CASE x \notin T
  <2>1. T = S \ {x}
    BY <1>4
  <2> QED
    BY <1>1, <1>2, <1>4, <2>1 DEF Has
<1> QED
  BY <1>3, <1>4

\* The holders are finitely many.
LEMMA HoldersAreFinite ==
    ASSUME NEW tb, NEW rc, NEW o
    PROVE  /\ IsFiniteSet(Asking(rc, o)) /\ IsFiniteSet(Answered(rc, o))
           /\ IsFiniteSet(Sending(rc, o)) /\ IsFiniteSet(Handles(tb, o))
           /\ Cardinality(Asking(rc, o)) \in Nat /\ Cardinality(Answered(rc, o)) \in Nat
           /\ Cardinality(Sending(rc, o)) \in Nat /\ Cardinality(Handles(tb, o)) \in Nat
<1>1. IsFiniteSet(Threads) /\ TableSize \in Nat
  BY ChannelAssumption
<1>2. IsFiniteSet(Clients)
  <2>1. Clients \in SUBSET Threads
    BY DEF Threads
  <2> QED
    BY <1>1, <2>1, FS_Subset
<1>3. IsFiniteSet(1..TableSize)
  BY <1>1, FS_Interval
<1>4. IsFiniteSet(Threads \X (1..TableSize))
  BY <1>1, <1>3, FS_Product
<1>5. IsFiniteSet(Asking(rc, o))
  BY <1>2, FS_Subset DEF Asking
<1>6. IsFiniteSet(Answered(rc, o))
  BY <1>2, FS_Subset DEF Answered
<1>7. IsFiniteSet(Sending(rc, o))
  BY <1>2, FS_Subset DEF Sending
<1>8. IsFiniteSet(Handles(tb, o))
  BY <1>4, FS_Subset DEF Handles
<1> QED
  BY <1>5, <1>6, <1>7, <1>8, FS_CardinalityType

\* rx is rc with the record x for client c.
Becomes(rc, rx, c, x) == rx = [rc EXCEPT ![c] = x]

\* One client's record changes.
LEMMA RecordCount ==
    ASSUME NEW rc \in [Clients -> CallRecords], NEW c \in Clients, NEW x \in CallRecords, NEW o,
           NEW rx, Becomes(rc, rx, c, x)
    PROVE  /\ Cardinality(Asking(rx, o))
                = Cardinality(Asking(rc, o)) - Has(rc[c].request, o) + Has(x.request, o)
           /\ Cardinality(Answered(rx, o))
                = Cardinality(Answered(rc, o)) - Has(rc[c].reply, o) + Has(x.reply, o)
           /\ Cardinality(Sending(rx, o))
                = Cardinality(Sending(rc, o)) - Has(rc[c].taken, o) + Has(x.taken, o)
<1>1. rx[c] = x /\ \A d \in Clients : d # c => rx[d] = rc[d]
  BY DEF Becomes
<1>2. \A d : d # c => (d \in Asking(rx, o) <=> d \in Asking(rc, o))
  BY <1>1 DEF Asking
<1>3. \A d : d # c => (d \in Answered(rx, o) <=> d \in Answered(rc, o))
  BY <1>1 DEF Answered
<1>4. \A d : d # c => (d \in Sending(rx, o) <=> d \in Sending(rc, o))
  BY <1>1 DEF Sending
<1>5. Cardinality(Asking(rx, o))
        = Cardinality(Asking(rc, o)) - Has(Asking(rc, o), c) + Has(Asking(rx, o), c)
  BY <1>2, HoldersAreFinite, MemberCount
<1>6. Cardinality(Answered(rx, o))
        = Cardinality(Answered(rc, o)) - Has(Answered(rc, o), c) + Has(Answered(rx, o), c)
  BY <1>3, HoldersAreFinite, MemberCount
<1>7. Cardinality(Sending(rx, o))
        = Cardinality(Sending(rc, o)) - Has(Sending(rc, o), c) + Has(Sending(rx, o), c)
  BY <1>4, HoldersAreFinite, MemberCount
<1>8. /\ (c \in Asking(rc, o) <=> o \in rc[c].request) /\ (c \in Asking(rx, o) <=> o \in x.request)
      /\ (c \in Answered(rc, o) <=> o \in rc[c].reply) /\ (c \in Answered(rx, o) <=> o \in x.reply)
      /\ (c \in Sending(rc, o) <=> o \in rc[c].taken) /\ (c \in Sending(rx, o) <=> o \in x.taken)
  BY <1>1 DEF Asking, Answered, Sending
<1> QED
  BY <1>5, <1>6, <1>7, <1>8 DEF Has

\* One process gains or loses one handle to an object.
LEMMA HandleCount ==
    ASSUME NEW tb \in [Threads -> [Objects -> 0..TableSize]], NEW p \in Threads, NEW o \in Objects,
           NEW tx \in [Threads -> [Objects -> 0..TableSize]], tx[p][o] = tb[p][o] + 1,
           \A q \in Threads : q # p => tx[q][o] = tb[q][o]
    PROVE  Cardinality(Handles(tx, o)) = Cardinality(Handles(tb, o)) + 1
<1>1. TableSize \in Nat /\ tb[p][o] \in 0..TableSize /\ tx[p][o] \in 0..TableSize
  BY ChannelAssumption
<1>2. PICK h : h = <<p, tx[p][o]>>
  OBVIOUS
<1>3. h \in Handles(tx, o)
  BY <1>1, <1>2 DEF Handles
<1>4. h \notin Handles(tb, o)
  BY <1>1, <1>2 DEF Handles
<1>5. ASSUME NEW y, y # h PROVE y \in Handles(tx, o) <=> y \in Handles(tb, o)
  <2>1. CASE y \notin Threads \X (1..TableSize)
    BY <2>1 DEF Handles
  <2>2. CASE y \in Threads \X (1..TableSize)
    <3>1. PICK q \in Threads, k \in 1..TableSize : y = <<q, k>>
      BY <2>2
    <3>2. CASE q # p
      BY <3>1, <3>2 DEF Handles
    <3>3. CASE q = p
      <4>1. k # tx[p][o]
        BY <1>2, <1>5, <3>1, <3>3
      <4>2. k <= tx[p][o] <=> k <= tb[p][o]
        <5>1. PICK a \in Nat : a = tb[p][o] /\ a + 1 = tx[p][o]
          BY <1>1
        <5> QED
          BY <1>1, <4>1, <5>1
      <4> QED
        BY <3>1, <3>3, <4>2 DEF Handles
    <3> QED
      BY <3>2, <3>3
  <2> QED
    BY <2>1, <2>2
<1>6. Cardinality(Handles(tx, o)) = Cardinality(Handles(tb, o))
                                      - Has(Handles(tb, o), h) + Has(Handles(tx, o), h)
  BY <1>5, HoldersAreFinite, MemberCount
<1> QED
  <2>1. Has(Handles(tb, o), h) = 0 /\ Has(Handles(tx, o), h) = 1
    BY <1>3, <1>4 DEF Has
  <2>2. Cardinality(Handles(tb, o)) \in Nat
    BY HoldersAreFinite
  <2> QED
    BY <1>6, <2>1, <2>2

\* A process with room for more holds fewer handles to any object than a table has.
LEMMA RoomForHandles ==
    ASSUME table \in [Threads -> [Objects -> 0..TableSize]], NEW p \in Threads,
           NEW S \in SUBSET Objects, Fits(p, S), NEW o \in S
    PROVE  table[p][o] + 1 \in 0..TableSize
<1>1. TableSize \in Nat /\ table[p][o] \in 0..TableSize /\ IsFiniteSet(Objects)
  BY ChannelAssumption
<1>2. PICK n \in Nat : n = table[p][o]
  BY <1>1
<1>3. PICK U : U = {h \in Objects \X (1..TableSize) : h[2] <= table[p][h[1]]}
  OBVIOUS
<1>4. IsFiniteSet(U)
  <2>1. IsFiniteSet(1..TableSize)
    BY <1>1, FS_Interval
  <2>2. IsFiniteSet(Objects \X (1..TableSize))
    BY <1>1, <2>1, FS_Product
  <2> QED
    BY <1>3, <2>2, FS_Subset
<1>5. {o} \X (1..n) \in SUBSET U
  <2> SUFFICES ASSUME NEW h \in {o} \X (1..n) PROVE h \in U
    OBVIOUS
  <2>1. PICK k \in 1..n : h = <<o, k>>
    OBVIOUS
  <2> QED
    BY <1>1, <1>2, <1>3, <2>1
<1>6. Cardinality({o} \X (1..n)) = n
  <2>1. IsFiniteSet({o}) /\ Cardinality({o}) = 1
    BY FS_Singleton
  <2>2. IsFiniteSet(1..n) /\ Cardinality(1..n) = n
    <3>1. 1 \in Int /\ n \in Int
      BY <1>2
    <3>2. IsFiniteSet(1..n) /\ Cardinality(1..n) = IF 1 > n THEN 0 ELSE n - 1 + 1
      BY <3>1, FS_Interval
    <3> QED
      BY <1>2, <3>2
  <2>3. Cardinality({o} \X (1..n)) = Cardinality({o}) * Cardinality(1..n)
    BY <2>1, <2>2, FS_Product
  <2> QED
    BY <1>2, <2>1, <2>2, <2>3
<1>7. n <= Cardinality(U) /\ Cardinality(U) \in Nat
  BY <1>4, <1>5, <1>6, FS_Subset, FS_CardinalityType
<1>8. IsFiniteSet(S) /\ Cardinality(S) \in Nat /\ Cardinality(S) # 0
  <2>1. IsFiniteSet(S)
    BY <1>1, FS_Subset
  <2> QED
    BY <2>1, FS_CardinalityType, FS_EmptySet
<1>9. PICK k \in Nat : k = Others[p]
  BY ChannelAssumption
<1>10. k + Cardinality(U) + Cardinality(S) <= TableSize
  BY <1>3, <1>9 DEF Fits, Used
<1> QED
  BY <1>1, <1>2, <1>7, <1>8, <1>9, <1>10

\* Handles installed and closed again leave a table as it was.
LEMMA InstalledAndClosed ==
    ASSUME NEW x \in [Objects -> 0..TableSize], NEW I
    PROVE  Dropped(Held(x, I), I) = x
<1>1. TableSize \in Nat
  BY ChannelAssumption
<1>2. PICK y : y = Held(x, I)
  OBVIOUS
<1>3. \A o \in Objects : y[o] = IF o \in I THEN x[o] + 1 ELSE x[o]
  BY <1>2 DEF Held
<1>4. PICK z : z = Dropped(y, I)
  OBVIOUS
<1>5. z = [o \in Objects |-> z[o]] /\ \A o \in Objects : z[o] = IF o \in I THEN y[o] - 1 ELSE y[o]
  BY <1>4 DEF Dropped
<1>6. \A o \in Objects : z[o] = x[o]
  BY <1>1, <1>3, <1>5
<1>7. x = [o \in Objects |-> x[o]]
  OBVIOUS
<1> QED
  BY <1>2, <1>4, <1>5, <1>6, <1>7

\* deliverHandles installs every handle or releases every one, once each.
LEMMA DeliveryBalances ==
    ASSUME table \in [Threads -> [Objects -> 0..TableSize]], NEW p \in Threads,
           NEW S \in SUBSET Objects, NEW r \in [Objects -> Int],
           DeliverHandles(p, S, r), NEW tx, tx = table', NEW rx, rx = refs'
    PROVE  /\ tx \in [Threads -> [Objects -> 0..TableSize]] /\ rx \in [Objects -> Int]
           /\ \A o \in Objects :
                 rx[o] - Cardinality(Handles(tx, o))
                    = r[o] - Cardinality(Handles(table, o)) - Has(S, o)
<1>1. \A o \in Objects : Cardinality(Handles(table, o)) \in Nat /\ Cardinality(Handles(tx, o)) \in Nat
  BY HoldersAreFinite
<1>2. CASE \E installed \in SUBSET S : \E refused \in S \ installed :
              /\ table' = [table EXCEPT ![p] = Dropped(Held(@, installed), installed)]
              /\ refs' = Dropped(Dropped(Dropped(r, {refused}), installed),
                                 S \ (installed \cup {refused}))
  <2>1. PICK I \in SUBSET S : \E h \in S \ I :
            /\ tx = [table EXCEPT ![p] = Dropped(Held(table[p], I), I)]
            /\ rx = Dropped(Dropped(Dropped(r, {h}), I), S \ (I \cup {h}))
    BY <1>2
  <2>2. PICK h \in S \ I :
            /\ tx = [table EXCEPT ![p] = Dropped(Held(table[p], I), I)]
            /\ rx = Dropped(Dropped(Dropped(r, {h}), I), S \ (I \cup {h}))
    BY <2>1
  <2>3. tx = table
    <3>1. PICK x \in [Objects -> 0..TableSize] : x = table[p]
      OBVIOUS
    <3>2. Dropped(Held(x, I), I) = x
      BY InstalledAndClosed
    <3> QED
      BY <2>2, <3>1, <3>2
  <2>4. PICK r1, r2 : r1 = Dropped(r, {h}) /\ r2 = Dropped(r1, I)
    OBVIOUS
  <2>5. r1 \in [Objects -> Int] /\ \A o \in Objects : r1[o] = IF o = h THEN r[o] - 1 ELSE r[o]
    BY <2>4 DEF Dropped
  <2>6. r2 \in [Objects -> Int] /\ \A o \in Objects : r2[o] = IF o \in I THEN r1[o] - 1 ELSE r1[o]
    BY <2>4, <2>5 DEF Dropped
  <2>7. /\ rx \in [Objects -> Int]
        /\ \A o \in Objects : rx[o] = IF o \in S \ (I \cup {h}) THEN r2[o] - 1 ELSE r2[o]
    BY <2>2, <2>4, <2>6 DEF Dropped
  <2>8. ASSUME NEW o \in Objects PROVE rx[o] = r[o] - Has(S, o)
    <3>1. PICK k \in Int : k = r[o]
      OBVIOUS
    <3>2. h \in S /\ h \notin I /\ I \subseteq S
      BY <2>2
    <3>3. CASE o = h
      BY <2>5, <2>6, <2>7, <3>1, <3>2, <3>3 DEF Has
    <3>4. CASE o \in I
      BY <2>5, <2>6, <2>7, <3>1, <3>2, <3>4 DEF Has
    <3>5. CASE o \in S \ (I \cup {h})
      BY <2>5, <2>6, <2>7, <3>1, <3>2, <3>5 DEF Has
    <3>6. CASE o \notin S
      <4>1. rx[o] = k
        BY <2>5, <2>6, <2>7, <3>1, <3>2, <3>6
      <4> QED
        BY <3>1, <3>6, <4>1 DEF Has
    <3> QED
      BY <3>2, <3>3, <3>4, <3>5, <3>6
  <2>9. ASSUME NEW o \in Objects
        PROVE  rx[o] - Cardinality(Handles(tx, o))
                 = r[o] - Cardinality(Handles(table, o)) - Has(S, o)
    <3>1. PICK a \in Nat, d \in Int, k \in Int :
              a = Cardinality(Handles(table, o)) /\ d = Has(S, o) /\ k = r[o]
      BY <1>1 DEF Has
    <3>2. k - d - a = k - a - d
      OBVIOUS
    <3> QED
      BY <2>3, <2>8, <3>1, <3>2
  <2> QED
    BY <2>3, <2>7, <2>9
<1>3. CASE /\ Fits(p, S)
           /\ table' = [table EXCEPT ![p] = Held(@, S)]
           /\ refs' = r
  <2>1. tx = [table EXCEPT ![p] = Held(table[p], S)] /\ rx = r
    BY <1>3
  <2>2. Held(table[p], S) \in [Objects -> 0..TableSize]
    BY <1>3, RoomForHandles DEF Held
  <2>3. /\ tx \in [Threads -> [Objects -> 0..TableSize]]
        /\ \A o \in Objects : tx[p][o] = IF o \in S THEN table[p][o] + 1 ELSE table[p][o]
        /\ \A q \in Threads : q # p => tx[q] = table[q]
    BY <2>1, <2>2 DEF Held
  <2>4. ASSUME NEW o \in Objects
        PROVE  Cardinality(Handles(tx, o)) = Cardinality(Handles(table, o)) + Has(S, o)
    <3>1. CASE o \in S
      <4>1. tx[p][o] = table[p][o] + 1 /\ \A q \in Threads : q # p => tx[q][o] = table[q][o]
        BY <2>3, <3>1
      <4>2. PICK tb \in [Threads -> [Objects -> 0..TableSize]] : tb = table
        OBVIOUS
      <4>3. Cardinality(Handles(tx, o)) = Cardinality(Handles(tb, o)) + 1
        <5>1. tx[p][o] = tb[p][o] + 1 /\ \A q \in Threads : q # p => tx[q][o] = tb[q][o]
          BY <4>1, <4>2
        <5>2. tx \in [Threads -> [Objects -> 0..TableSize]]
          BY <2>3
        <5> QED
          BY <5>1, <5>2, HandleCount
      <4> QED
        BY <3>1, <4>2, <4>3 DEF Has
    <3>2. CASE o \notin S
      <4>1. \A q \in Threads : tx[q][o] = table[q][o]
        BY <2>3, <3>2
      <4>2. Handles(tx, o) = Handles(table, o)
        BY <4>1 DEF Handles
      <4> QED
        BY <1>1, <3>2, <4>2 DEF Has
    <3> QED
      BY <3>1, <3>2
  <2>5. ASSUME NEW o \in Objects
        PROVE  rx[o] - Cardinality(Handles(tx, o))
                 = r[o] - Cardinality(Handles(table, o)) - Has(S, o)
    <3>1. Has(S, o) \in Int /\ r[o] \in Int
      BY DEF Has
    <3>2. PICK a, b \in Nat : a = Cardinality(Handles(table, o)) /\ b = Cardinality(Handles(tx, o))
      BY <1>1
    <3>3. PICK d \in Int, e \in Int : d = Has(S, o) /\ e = r[o]
      BY <3>1
    <3>4. b = a + d
      BY <2>4, <3>2, <3>3
    <3>5. e - b = e - a - d
      BY <3>4
    <3> QED
      BY <2>1, <3>2, <3>3, <3>5
  <2> QED
    BY <2>1, <2>3, <2>5
<1> QED
  BY <1>2, <1>3 DEF DeliverHandles

\* References taken and dropped, object by object.
LEMMA HeldBits ==
    ASSUME NEW r \in [Objects -> Int], NEW S
    PROVE  /\ Held(r, S) \in [Objects -> Int] /\ Dropped(r, S) \in [Objects -> Int]
           /\ \A o \in Objects : /\ Held(r, S)[o] = r[o] + Has(S, o)
                                 /\ Dropped(r, S)[o] = r[o] - Has(S, o)
BY DEF Held, Dropped, Has

LEMMA HoldersType ==
    ASSUME NEW tb, NEW rc, NEW o PROVE Holders(tb, rc, o) \in Nat
BY HoldersAreFinite DEF Holders

LEMMA HasType == \A S, x : Has(S, x) \in 0..1
BY DEF Has

\* What one record's change does to the number of holders.
LEMMA HoldersChange ==
    ASSUME NEW rc \in [Clients -> CallRecords], NEW c \in Clients, NEW x \in CallRecords, NEW o,
           NEW rx, Becomes(rc, rx, c, x), NEW tb, NEW tx
    PROVE  Holders(tx, rx, o) - Holders(tb, rc, o)
             = (Cardinality(Handles(tx, o)) - Cardinality(Handles(tb, o)))
                 + (Has(x.request, o) - Has(rc[c].request, o))
                 + (Has(x.reply, o) - Has(rc[c].reply, o))
                 + (Has(x.taken, o) - Has(rc[c].taken, o))
<1>1. PICK a1, a2, a3, a4 \in Nat :
          /\ a1 = Cardinality(Handles(tb, o)) /\ a2 = Cardinality(Asking(rc, o))
          /\ a3 = Cardinality(Answered(rc, o)) /\ a4 = Cardinality(Sending(rc, o))
  BY HoldersAreFinite
<1>2. PICK b1, b2, b3, b4 \in Nat :
          /\ b1 = Cardinality(Handles(tx, o)) /\ b2 = Cardinality(Asking(rx, o))
          /\ b3 = Cardinality(Answered(rx, o)) /\ b4 = Cardinality(Sending(rx, o))
  BY HoldersAreFinite
<1>3. PICK d2, d3, d4, e2, e3, e4 \in 0..1 :
          /\ d2 = Has(rc[c].request, o) /\ d3 = Has(rc[c].reply, o) /\ d4 = Has(rc[c].taken, o)
          /\ e2 = Has(x.request, o) /\ e3 = Has(x.reply, o) /\ e4 = Has(x.taken, o)
  BY HasType
<1>4. b2 = a2 - d2 + e2 /\ b3 = a3 - d3 + e3 /\ b4 = a4 - d4 + e4
  <2>1. /\ Cardinality(Asking(rx, o))
             = Cardinality(Asking(rc, o)) - Has(rc[c].request, o) + Has(x.request, o)
        /\ Cardinality(Answered(rx, o))
             = Cardinality(Answered(rc, o)) - Has(rc[c].reply, o) + Has(x.reply, o)
        /\ Cardinality(Sending(rx, o))
             = Cardinality(Sending(rc, o)) - Has(rc[c].taken, o) + Has(x.taken, o)
    BY RecordCount
  <2> QED
    BY <1>1, <1>2, <1>3, <2>1
<1>5. Holders(tb, rc, o) = a1 + a2 + a3 + a4 /\ Holders(tx, rx, o) = b1 + b2 + b3 + b4
  BY <1>1, <1>2 DEF Holders
<1>6. (b1 + b2 + b3 + b4) - (a1 + a2 + a3 + a4) = (b1 - a1) + (e2 - d2) + (e3 - d3) + (e4 - d4)
  BY <1>4
<1> QED
  BY <1>1, <1>2, <1>3, <1>5, <1>6

\* A step that changes references as much as holders keeps the balance.
LEMMA BalanceStep ==
    ASSUME NEW r, NEW tb, NEW rc, NEW kd, BalanceOK(r, tb, rc, kd),
           NEW rx \in [Objects -> Int], NEW tx \in [Threads -> [Objects -> 0..TableSize]],
           NEW rcx, NEW kx, kd \subseteq kx,
           \A o \in Objects :
              /\ rx[o] - r[o] >= Holders(tx, rcx, o) - Holders(tb, rc, o)
              /\ kx \cap Clients = {} => rx[o] - r[o] = Holders(tx, rcx, o) - Holders(tb, rc, o)
    PROVE  BalanceOK(rx, tx, rcx, kx)
<1>1. ASSUME NEW o \in Objects
      PROVE  /\ rx[o] \in Nat /\ rx[o] >= Holders(tx, rcx, o)
             /\ kx \cap Clients = {} => rx[o] = Holders(tx, rcx, o)
  <2>1. PICK a, b \in Nat : a = Holders(tb, rc, o) /\ b = Holders(tx, rcx, o)
    BY HoldersType
  <2>2. PICK m \in Nat, n \in Int : m = r[o] /\ n = rx[o]
    BY DEF BalanceOK
  <2>3. n - m >= b - a /\ m >= a
    BY <2>1, <2>2 DEF BalanceOK
  <2>4. n \in Nat /\ n >= b
    BY <2>3
  <2>5. ASSUME kx \cap Clients = {} PROVE n = b
    <3>1. n - m = b - a
      BY <2>1, <2>2, <2>5
    <3>2. m = a
      BY <2>1, <2>2, <2>5 DEF BalanceOK
    <3> QED
      BY <3>1, <3>2
  <2> QED
    BY <2>1, <2>2, <2>4, <2>5
<1>2. rx \in [Objects -> Nat]
  BY <1>1
<1> QED
  BY <1>1, <1>2 DEF BalanceOK

\* A record that holds nothing.
LEMMA NoRecordFacts ==
    /\ NoRecord \in CallRecords /\ ~NoRecord.live /\ ~NoRecord.done /\ ~NoRecord.failed
    /\ NoRecord.request = {} /\ NoRecord.reply = {} /\ NoRecord.taken = {}
BY DEF NoRecord, CallRecords

\* sys_call takes two references to what it sends.
LEMMA CallBalances ==
    ASSUME NEW r, NEW tb, NEW rc \in [Clients -> CallRecords], NEW kd, BalanceOK(r, tb, rc, kd),
           NEW c \in Clients, rc[c] = NoRecord, NEW S \in SUBSET Objects,
           NEW x \in CallRecords, x.request = S, x.reply = {}, x.taken = S
    PROVE  BalanceOK(Held(Held(r, S), S), tb, [rc EXCEPT ![c] = x], kd)
<1>1. r \in [Objects -> Int] /\ tb \in [Threads -> [Objects -> 0..TableSize]]
  BY DEF BalanceOK
<1>2. PICK rx, rcx : rx = Held(Held(r, S), S) /\ rcx = [rc EXCEPT ![c] = x]
  OBVIOUS
<1>3. Held(r, S) \in [Objects -> Int] /\ \A o \in Objects : Held(r, S)[o] = r[o] + Has(S, o)
  BY <1>1, HeldBits
<1>4. rx \in [Objects -> Int] /\ \A o \in Objects : rx[o] = Held(r, S)[o] + Has(S, o)
  BY <1>2, <1>3, HeldBits
<1>5. ASSUME NEW o \in Objects PROVE rx[o] - r[o] = Holders(tb, rcx, o) - Holders(tb, rc, o)
  <2>1. PICK n \in Int, d \in 0..1, z \in Nat : n = r[o] /\ d = Has(S, o) /\ z = Cardinality(Handles(tb, o))
    BY <1>1, HasType, HoldersAreFinite
  <2>2. rx[o] = n + d + d
    BY <1>3, <1>4, <2>1
  <2>3. /\ Has(rc[c].request, o) = 0 /\ Has(rc[c].reply, o) = 0 /\ Has(rc[c].taken, o) = 0
        /\ Has(x.request, o) = d /\ Has(x.reply, o) = 0 /\ Has(x.taken, o) = d
    BY <2>1, NoRecordFacts DEF Has
  <2>4. Holders(tb, rcx, o) - Holders(tb, rc, o) = (z - z) + (d - 0) + (0 - 0) + (d - 0)
    <3>1. Holders(tb, rcx, o) - Holders(tb, rc, o)
            = (Cardinality(Handles(tb, o)) - Cardinality(Handles(tb, o)))
                + (Has(x.request, o) - Has(rc[c].request, o))
                + (Has(x.reply, o) - Has(rc[c].reply, o))
                + (Has(x.taken, o) - Has(rc[c].taken, o))
      <4>1. Becomes(rc, rcx, c, x)
        BY <1>2 DEF Becomes
      <4> QED
        BY <4>1, HoldersChange
    <3> QED
      BY <2>1, <2>3, <3>1
  <2> QED
    BY <2>1, <2>2, <2>4
<1>6. \A o \in Objects :
          /\ rx[o] - r[o] >= Holders(tb, rcx, o) - Holders(tb, rc, o)
          /\ kd \cap Clients = {} => rx[o] - r[o] = Holders(tb, rcx, o) - Holders(tb, rc, o)
  <2>1. \A o \in Objects : rx[o] - r[o] \in Int
    BY <1>1, <1>4
  <2> QED
    BY <1>5, <2>1
<1>7. BalanceOK(rx, tb, rcx, kd)
  BY <1>1, <1>4, <1>6, BalanceStep
<1> QED
  BY <1>2, <1>7

\* A caller's frame goes: what it held is dropped, but for an answer it may have
\* had when it was killed.
LEMMA FrameBalances ==
    ASSUME NEW r, NEW tb, NEW rc \in [Clients -> CallRecords], NEW kd, BalanceOK(r, tb, rc, kd),
           NEW c \in Clients, NEW R \in SUBSET Objects,
           R = rc[c].reply \/ (R = {} /\ c \in kd)
    PROVE  BalanceOK(Dropped(Dropped(Dropped(r, rc[c].request), R), rc[c].taken), tb,
                     [rc EXCEPT ![c] = NoRecord], kd)
<1>1. r \in [Objects -> Int] /\ tb \in [Threads -> [Objects -> 0..TableSize]]
  BY DEF BalanceOK
<1>2. PICK Q, T : Q = rc[c].request /\ T = rc[c].taken
  OBVIOUS
<1>3. PICK r1, r2, r3, rcx : /\ r1 = Dropped(r, Q) /\ r2 = Dropped(r1, R) /\ r3 = Dropped(r2, T)
                             /\ rcx = [rc EXCEPT ![c] = NoRecord]
  OBVIOUS
<1>4. r1 \in [Objects -> Int] /\ \A o \in Objects : r1[o] = r[o] - Has(Q, o)
  BY <1>1, <1>3, HeldBits
<1>5. r2 \in [Objects -> Int] /\ \A o \in Objects : r2[o] = r1[o] - Has(R, o)
  BY <1>3, <1>4, HeldBits
<1>6. r3 \in [Objects -> Int] /\ \A o \in Objects : r3[o] = r2[o] - Has(T, o)
  BY <1>3, <1>5, HeldBits
<1>7. ASSUME NEW o \in Objects
      PROVE  /\ r3[o] - r[o] >= Holders(tb, rcx, o) - Holders(tb, rc, o)
             /\ kd \cap Clients = {} => r3[o] - r[o] = Holders(tb, rcx, o) - Holders(tb, rc, o)
  <2>1. PICK n \in Int, q \in 0..1, f \in 0..1, k \in 0..1, y \in 0..1, z \in Nat :
            /\ n = r[o] /\ q = Has(Q, o) /\ f = Has(R, o) /\ k = Has(T, o)
            /\ y = Has(rc[c].reply, o) /\ z = Cardinality(Handles(tb, o))
    BY <1>1, HasType, HoldersAreFinite
  <2>2. r3[o] = n - q - f - k
    BY <1>4, <1>5, <1>6, <2>1
  <2>3. Has(NoRecord.request, o) = 0 /\ Has(NoRecord.reply, o) = 0 /\ Has(NoRecord.taken, o) = 0
    BY NoRecordFacts DEF Has
  <2>4. Holders(tb, rcx, o) - Holders(tb, rc, o) = (z - z) + (0 - q) + (0 - y) + (0 - k)
    <3>1. PICK x \in CallRecords : x = NoRecord
      BY NoRecordFacts
    <3>2. Holders(tb, rcx, o) - Holders(tb, rc, o)
            = (Cardinality(Handles(tb, o)) - Cardinality(Handles(tb, o)))
                + (Has(x.request, o) - Has(rc[c].request, o))
                + (Has(x.reply, o) - Has(rc[c].reply, o))
                + (Has(x.taken, o) - Has(rc[c].taken, o))
      <4>1. Becomes(rc, rcx, c, x)
        BY <1>3, <3>1 DEF Becomes
      <4> QED
        BY <4>1, HoldersChange
    <3> QED
      BY <1>2, <2>1, <2>3, <3>1, <3>2
  <2>5. f <= y /\ (kd \cap Clients = {} => f = y)
    <3>1. CASE R = rc[c].reply
      BY <2>1, <3>1
    <3>2. CASE R = {} /\ c \in kd
      BY <2>1, <3>2 DEF Has
    <3> QED
      BY <3>1, <3>2
  <2>6. r3[o] - r[o] = 0 - q - f - k
    BY <2>1, <2>2
  <2>7. (z - z) + (0 - q) + (0 - y) + (0 - k) = 0 - q - y - k
    BY <2>1
  <2> QED
    BY <2>4, <2>5, <2>6, <2>7
<1>8. BalanceOK(r3, tb, rcx, kd)
  BY <1>1, <1>6, <1>7, BalanceStep
<1> QED
  BY <1>2, <1>3, <1>8

\* What a record gives up is delivered to a process, or dropped.
LEMMA DeliveryKeepsBalance ==
    ASSUME NEW r, NEW rc \in [Clients -> CallRecords], NEW kd, BalanceOK(r, table, rc, kd),
           NEW p \in Threads, NEW c \in Clients, NEW x \in CallRecords,
           NEW S \in SUBSET Objects, NEW T \in SUBSET Objects,
           NEW rcx, Becomes(rc, rcx, c, x),
           \A o \in Objects :
              Has(rc[c].request, o) + Has(rc[c].reply, o) + Has(rc[c].taken, o)
                = Has(x.request, o) + Has(x.reply, o) + Has(x.taken, o) + Has(S, o) + Has(T, o),
           DeliverHandles(p, S, Dropped(r, T))
    PROVE  BalanceOK(refs', table', rcx, kd)
<1>1. r \in [Objects -> Int] /\ table \in [Threads -> [Objects -> 0..TableSize]]
  BY DEF BalanceOK
<1>2. PICK tx, r1, r2 : tx = table' /\ r1 = Dropped(r, T) /\ r2 = refs'
  OBVIOUS
<1>3. r1 \in [Objects -> Int] /\ \A o \in Objects : r1[o] = r[o] - Has(T, o)
  BY <1>1, <1>2, HeldBits
<1>4. /\ tx \in [Threads -> [Objects -> 0..TableSize]] /\ r2 \in [Objects -> Int]
      /\ \A o \in Objects : r2[o] - Cardinality(Handles(tx, o))
                              = r1[o] - Cardinality(Handles(table, o)) - Has(S, o)
  <2>1. DeliverHandles(p, S, r1)
    BY <1>2 DEF DeliverHandles
  <2>2. table \in [Threads -> [Objects -> 0..TableSize]] /\ r1 \in [Objects -> Int]
    BY <1>1, <1>3
  <2>3. tx = table' /\ r2 = refs'
    BY <1>2
  <2> QED
    BY <2>1, <2>2, <2>3, DeliveryBalances, ZenonT(60)
<1>5. ASSUME NEW o \in Objects PROVE r2[o] - r[o] = Holders(tx, rcx, o) - Holders(table, rc, o)
  <2>1. PICK n \in Int, m \in Int, z \in Nat, w \in Nat :
            /\ n = r[o] /\ m = r2[o] /\ z = Cardinality(Handles(table, o))
            /\ w = Cardinality(Handles(tx, o))
    BY <1>1, <1>4, HoldersAreFinite
  <2>2. PICK d2, d3, d4, e2, e3, e4, s, t \in 0..1 :
            /\ d2 = Has(rc[c].request, o) /\ d3 = Has(rc[c].reply, o) /\ d4 = Has(rc[c].taken, o)
            /\ e2 = Has(x.request, o) /\ e3 = Has(x.reply, o) /\ e4 = Has(x.taken, o)
            /\ s = Has(S, o) /\ t = Has(T, o)
    BY HasType
  <2>3. m - w = (n - t) - z - s
    BY <1>3, <1>4, <2>1, <2>2
  <2>4. d2 + d3 + d4 = e2 + e3 + e4 + s + t
    BY <2>2
  <2>5. Holders(tx, rcx, o) - Holders(table, rc, o) = (w - z) + (e2 - d2) + (e3 - d3) + (e4 - d4)
    <3>1. Holders(tx, rcx, o) - Holders(table, rc, o)
            = (Cardinality(Handles(tx, o)) - Cardinality(Handles(table, o)))
                + (Has(x.request, o) - Has(rc[c].request, o))
                + (Has(x.reply, o) - Has(rc[c].reply, o))
                + (Has(x.taken, o) - Has(rc[c].taken, o))
      <4>1. PICK tb : tb = table
        OBVIOUS
      <4>2. Holders(tx, rcx, o) - Holders(tb, rc, o)
              = (Cardinality(Handles(tx, o)) - Cardinality(Handles(tb, o)))
                  + (Has(x.request, o) - Has(rc[c].request, o))
                  + (Has(x.reply, o) - Has(rc[c].reply, o))
                  + (Has(x.taken, o) - Has(rc[c].taken, o))
        BY HoldersChange
      <4> QED
        BY <4>1, <4>2
    <3> QED
      BY <2>1, <2>2, <3>1
  <2>6. m - n = (w - z) + (e2 - d2) + (e3 - d3) + (e4 - d4)
    BY <2>3, <2>4
  <2> QED
    BY <2>1, <2>5, <2>6
<1>6. \A o \in Objects :
          /\ r2[o] - r[o] >= Holders(tx, rcx, o) - Holders(table, rc, o)
          /\ kd \cap Clients = {} => r2[o] - r[o] = Holders(tx, rcx, o) - Holders(table, rc, o)
  <2>1. \A o \in Objects : r2[o] - r[o] \in Int
    BY <1>1, <1>4
  <2> QED
    BY <1>5, <2>1
<1>7. BalanceOK(r2, tx, rcx, kd)
  <2>1. PICK tb : tb = table
    OBVIOUS
  <2>2. /\ BalanceOK(r, tb, rc, kd)
        /\ \A o \in Objects :
              /\ r2[o] - r[o] >= Holders(tx, rcx, o) - Holders(tb, rc, o)
              /\ kd \cap Clients = {} => r2[o] - r[o] = Holders(tx, rcx, o) - Holders(tb, rc, o)
    BY <1>6, <2>1
  <2> QED
    BY <1>3, <1>4, <2>2, BalanceStep
<1> QED
  BY <1>2, <1>7

\* reply takes a reference for each handle of the answer.
LEMMA ReplyBalances ==
    ASSUME NEW r, NEW tb, NEW rc \in [Clients -> CallRecords], NEW kd, BalanceOK(r, tb, rc, kd),
           NEW c \in Clients, rc[c].reply = {}, NEW S \in SUBSET Objects,
           NEW x \in CallRecords, x.request = rc[c].request, x.reply = S, x.taken = rc[c].taken
    PROVE  BalanceOK(Held(r, S), tb, [rc EXCEPT ![c] = x], kd)
<1>1. r \in [Objects -> Int] /\ tb \in [Threads -> [Objects -> 0..TableSize]]
  BY DEF BalanceOK
<1>2. PICK rx, rcx : rx = Held(r, S) /\ rcx = [rc EXCEPT ![c] = x]
  OBVIOUS
<1>3. rx \in [Objects -> Int] /\ \A o \in Objects : rx[o] = r[o] + Has(S, o)
  BY <1>1, <1>2, HeldBits
<1>4. ASSUME NEW o \in Objects PROVE rx[o] - r[o] = Holders(tb, rcx, o) - Holders(tb, rc, o)
  <2>1. PICK n \in Int, d, q, t \in 0..1, z \in Nat :
            /\ n = r[o] /\ d = Has(S, o) /\ z = Cardinality(Handles(tb, o))
            /\ q = Has(x.request, o) /\ t = Has(x.taken, o)
    BY <1>1, HasType, HoldersAreFinite
  <2>2. Has(rc[c].reply, o) = 0
    BY DEF Has
  <2>3. Holders(tb, rcx, o) - Holders(tb, rc, o) = (z - z) + (q - q) + (d - 0) + (t - t)
    <3>1. Holders(tb, rcx, o) - Holders(tb, rc, o)
            = (Cardinality(Handles(tb, o)) - Cardinality(Handles(tb, o)))
                + (Has(x.request, o) - Has(rc[c].request, o))
                + (Has(x.reply, o) - Has(rc[c].reply, o))
                + (Has(x.taken, o) - Has(rc[c].taken, o))
      <4>1. Becomes(rc, rcx, c, x)
        BY <1>2 DEF Becomes
      <4> QED
        BY <4>1, HoldersChange
    <3> QED
      BY <2>1, <2>2, <3>1
  <2>4. rx[o] = n + d
    BY <1>3, <2>1
  <2>5. (n + d) - n = (z - z) + (q - q) + (d - 0) + (t - t)
    <3>1. n \in Int /\ d \in Int /\ q \in Int /\ t \in Int /\ z \in Int
      BY <2>1
    <3> QED
      BY <3>1
  <2> QED
    BY <2>1, <2>3, <2>4, <2>5
<1>5. \A o \in Objects :
          /\ rx[o] - r[o] >= Holders(tb, rcx, o) - Holders(tb, rc, o)
          /\ kd \cap Clients = {} => rx[o] - r[o] = Holders(tb, rcx, o) - Holders(tb, rc, o)
  <2>1. \A o \in Objects : rx[o] - r[o] \in Int
    BY <1>1, <1>3
  <2> QED
    BY <1>4, <2>1
<1>6. BalanceOK(rx, tb, rcx, kd)
  BY <1>1, <1>3, <1>5, BalanceStep
<1> QED
  BY <1>2, <1>6

\* A handle is closed.
LEMMA CloseBalances ==
    ASSUME NEW r, NEW tb, NEW rc, NEW kd, BalanceOK(r, tb, rc, kd),
           NEW p \in Threads, NEW o \in Objects, tb[p][o] > 0
    PROVE  BalanceOK(Dropped(r, {o}), [tb EXCEPT ![p][o] = @ - 1], rc, kd)
<1>1. /\ r \in [Objects -> Int] /\ tb \in [Threads -> [Objects -> 0..TableSize]]
      /\ TableSize \in Nat
  BY ChannelAssumption DEF BalanceOK
<1>2. PICK rx, tx : rx = Dropped(r, {o}) /\ tx = [tb EXCEPT ![p][o] = @ - 1]
  OBVIOUS
<1>3. rx \in [Objects -> Int] /\ \A a \in Objects : rx[a] = r[a] - Has({o}, a)
  BY <1>1, <1>2, HeldBits
<1>4. tb[p][o] \in 0..TableSize /\ tb[p][o] - 1 \in 0..TableSize
  BY <1>1
<1>5. /\ tx \in [Threads -> [Objects -> 0..TableSize]]
      /\ tx[p][o] = tb[p][o] - 1
      /\ \A q \in Threads, a \in Objects : q # p \/ a # o => tx[q][a] = tb[q][a]
  BY <1>1, <1>2, <1>4
<1>6. Cardinality(Handles(tb, o)) = Cardinality(Handles(tx, o)) + 1
  <2>1. tb[p][o] = tx[p][o] + 1 /\ \A q \in Threads : q # p => tb[q][o] = tx[q][o]
    BY <1>4, <1>5
  <2> QED
    BY <1>1, <1>5, <2>1, HandleCount
<1>7. ASSUME NEW a \in Objects PROVE rx[a] - r[a] = Holders(tx, rc, a) - Holders(tb, rc, a)
  <2>1. PICK n \in Int, z, w, x, y, u \in Nat :
            /\ n = r[a] /\ z = Cardinality(Handles(tb, a)) /\ w = Cardinality(Handles(tx, a))
            /\ x = Cardinality(Asking(rc, a)) /\ y = Cardinality(Answered(rc, a))
            /\ u = Cardinality(Sending(rc, a))
    BY <1>1, HoldersAreFinite
  <2>2. Holders(tx, rc, a) = w + x + y + u /\ Holders(tb, rc, a) = z + x + y + u
    BY <2>1 DEF Holders
  <2>3. CASE a = o
    <3>1. rx[a] = n - 1 /\ z = w + 1
      BY <1>3, <1>6, <2>1, <2>3 DEF Has
    <3> QED
      BY <2>1, <2>2, <3>1
  <2>4. CASE a # o
    <3>1. Handles(tx, a) = Handles(tb, a)
      BY <1>5, <2>4 DEF Handles
    <3>2. rx[a] = n
      BY <1>3, <2>1, <2>4 DEF Has
    <3> QED
      BY <2>1, <2>2, <3>1, <3>2
  <2> QED
    BY <2>3, <2>4
<1>8. \A a \in Objects :
          /\ rx[a] - r[a] >= Holders(tx, rc, a) - Holders(tb, rc, a)
          /\ kd \cap Clients = {} => rx[a] - r[a] = Holders(tx, rc, a) - Holders(tb, rc, a)
  <2>1. \A a \in Objects : rx[a] - r[a] \in Int
    BY <1>1, <1>3
  <2> QED
    BY <1>7, <2>1
<1>9. BalanceOK(rx, tx, rc, kd)
  BY <1>3, <1>5, <1>8, BalanceStep
<1> QED
  BY <1>2, <1>9

\* Marks on records, and a kill, hold and drop nothing.
LEMMA MarksBalance ==
    ASSUME NEW r, NEW tb, NEW rc, NEW kd, BalanceOK(r, tb, rc, kd), NEW kx, kd \subseteq kx,
           NEW rcx, \A c \in Clients : /\ rcx[c].request = rc[c].request
                                       /\ rcx[c].reply = rc[c].reply
                                       /\ rcx[c].taken = rc[c].taken
    PROVE  BalanceOK(r, tb, rcx, kx)
<1>1. \A o : Asking(rcx, o) = Asking(rc, o) /\ Answered(rcx, o) = Answered(rc, o)
                /\ Sending(rcx, o) = Sending(rc, o)
  BY DEF Asking, Answered, Sending
<1>2. \A o : Holders(tb, rcx, o) = Holders(tb, rc, o)
  BY <1>1 DEF Holders
<1>3. kx \cap Clients = {} => kd \cap Clients = {}
  OBVIOUS
<1> QED
  BY <1>2, <1>3 DEF BalanceOK

-----------------------------------------------------------------------------
(* Records, stages and events. *)

\* The stage of a call follows its record.
LEMMA StagesFollow ==
    ASSUME NEW rc \in [Clients -> CallRecords]
    PROVE  /\ StageOf(rc) \in [Clients -> Stages]
           /\ \A c \in Clients : StageOf(rc)[c] = Stage(rc[c])
           /\ \A c \in Clients : \A x :
                 StageOf([rc EXCEPT ![c] = x]) = [StageOf(rc) EXCEPT ![c] = Stage(x)]
<1>1. \A x : Stage(x) \in Stages
  BY DEF Stage, Stages
<1>2. StageOf(rc) \in [Clients -> Stages] /\ \A c \in Clients : StageOf(rc)[c] = Stage(rc[c])
  BY <1>1 DEF StageOf
<1>3. ASSUME NEW c \in Clients, NEW x
      PROVE  StageOf([rc EXCEPT ![c] = x]) = [StageOf(rc) EXCEPT ![c] = Stage(x)]
  <2>1. PICK y : y = [rc EXCEPT ![c] = x]
    OBVIOUS
  <2>2. y[c] = x /\ \A u \in Clients : u # c => y[u] = rc[u]
    BY <2>1
  <2>3. PICK z : z = [StageOf(rc) EXCEPT ![c] = Stage(x)]
    OBVIOUS
  <2>4. /\ z = [u \in Clients |-> z[u]] /\ z[c] = Stage(x)
        /\ \A u \in Clients : u # c => z[u] = Stage(rc[u])
    BY <1>2, <2>3
  <2>5. \A u \in Clients : z[u] = Stage(y[u])
    BY <2>2, <2>4
  <2>6. StageOf(y) = [u \in Clients |-> Stage(y[u])]
    BY DEF StageOf
  <2> QED
    BY <2>1, <2>3, <2>4, <2>5, <2>6
<1> QED
  BY <1>2, <1>3

\* One record changes.
LEMMA RecordChanges ==
    ASSUME NEW rc, NEW inf, RecordOK(rc, inf), NEW c \in Clients, NEW x \in CallRecords,
           NEW inx, \A u \in Clients : u # c /\ Taken(inx, u) => Taken(inf, u),
           ~x.live => x = NoRecord,
           ~x.done => x.reply = {} /\ ~x.failed,
           (x.done /\ ~x.failed) \/ Taken(inx, c) => x.request = {}
    PROVE  RecordOK([rc EXCEPT ![c] = x], inx)
<1>1. rc \in [Clients -> CallRecords]
  BY DEF RecordOK
<1>2. PICK y : y = [rc EXCEPT ![c] = x]
  OBVIOUS
<1>3. /\ y \in [Clients -> CallRecords] /\ y[c] = x
      /\ \A u \in Clients : u # c => y[u] = rc[u]
  BY <1>1, <1>2
<1>4. ASSUME NEW u \in Clients
      PROVE  /\ ~y[u].live => y[u] = NoRecord
             /\ ~y[u].done => y[u].reply = {} /\ ~y[u].failed
             /\ (y[u].done /\ ~y[u].failed) \/ Taken(inx, u) => y[u].request = {}
  <2>1. CASE u = c
    BY <1>3, <2>1
  <2>2. CASE u # c
    BY <1>3, <2>2 DEF RecordOK
  <2> QED
    BY <2>1, <2>2
<1> QED
  BY <1>2, <1>3, <1>4 DEF RecordOK

\* No record changes, and no more calls are taken.
LEMMA RecordsStay ==
    ASSUME NEW rc, NEW inf, RecordOK(rc, inf),
           NEW inx, \A u \in Clients : Taken(inx, u) => Taken(inf, u)
    PROVE  RecordOK(rc, inx)
BY DEF RecordOK

\* The channel's events with the waits on them.
EventsOK(e, st, dn) == e \in EventRecords(Threads, Queues) /\ WaitOK(e.wait, st, dn)

\* A wait changes and no count does.
LEMMA EventsWoken ==
    ASSUME NEW e, NEW st, NEW dn, EventsOK(e, st, dn), NEW w, NEW sx, NEW dx, WaitOK(w, sx, dx)
    PROVE  /\ EventsOK(Woken(e, w), sx, dx)
           /\ Woken(e, w).wait = w /\ Woken(e, w).count = e.count
BY DEF EventsOK, EventRecords, Woken, WaitOK

\* wakeOne on a list of servers.
LEMMA EventsAwake ==
    ASSUME NEW e, NEW st, NEW dn, EventsOK(e, st, dn), NEW q \in Lists
    PROVE  EventsOK(Awake(e, q), st, dn)
<1>1. WaitOK(WakeOne(e.wait, q), st, dn)
  BY WakeServer DEF EventsOK
<1> QED
  BY <1>1, EventsWoken DEF Awake

\* refreshReady
LEMMA EventsRefresh ==
    ASSUME NEW e, NEW st, NEW dn, EventsOK(e, st, dn), NEW p
    PROVE  EventsOK(RefreshReady(e, p), st, dn)
<1>1. /\ e.count \in [Queues -> 0..MaxCount] /\ e.wait \in WaitRecords(Threads, Queues)
      /\ WaitOK(e.wait, st, dn) /\ "ready" \in Queues /\ "ready" \in Lists
  BY Names DEF EventsOK, EventRecords, Lists
<1>2. MaxCount \in Nat \ {0}
  BY MaxCountAssumption
<1>3. CASE p = <<>>
  <2>1. [e.count EXCEPT !["ready"] = 0] \in [Queues -> 0..MaxCount]
    BY <1>1, <1>2
  <2> QED
    BY <1>1, <1>3, <2>1 DEF EventsOK, EventRecords, RefreshReady
<1>4. CASE p # <<>> /\ e.count["ready"] = 0
  <2>1. PICK n : n = [e.count EXCEPT !["ready"] = IF @ = MaxCount THEN @ ELSE @ + 1]
    OBVIOUS
  <2>2. n \in [Queues -> 0..MaxCount]
    BY <1>1, <1>2, <1>4, <2>1
  <2>3. PICK w : w = WakeOne(e.wait, "ready")
    OBVIOUS
  <2>4. WaitOK(w, st, dn)
    BY <1>1, <2>3, WakeServer
  <2>5. RefreshReady(e, p) = [count |-> n, wait |-> w]
    BY <1>4, <2>1, <2>3 DEF RefreshReady, SignalLocked
  <2> QED
    BY <2>2, <2>4, <2>5 DEF EventsOK, EventRecords, WaitOK
<1>5. CASE p # <<>> /\ e.count["ready"] # 0
  BY <1>5 DEF RefreshReady
<1> QED
  BY <1>3, <1>4, <1>5

\* A signal is consumed.
LEMMA EventsConsumed ==
    ASSUME NEW e, NEW st, NEW dn, EventsOK(e, st, dn), e.count["ready"] > 0
    PROVE  EventsOK(Consume(e, "ready"), st, dn) /\ Consume(e, "ready").wait = e.wait
<1>1. e.count \in [Queues -> 0..MaxCount] /\ "ready" \in Queues /\ MaxCount \in Nat
  BY Names, MaxCountAssumption DEF EventsOK, EventRecords
<1>2. e.count["ready"] - 1 \in 0..MaxCount
  BY <1>1
<1>3. [e.count EXCEPT !["ready"] = @ - 1] \in [Queues -> 0..MaxCount]
  BY <1>1, <1>2
<1> QED
  BY <1>3 DEF EventsOK, EventRecords, Consume

\* A thread blocks.
LEMMA EventsBlock ==
    ASSUME NEW e, NEW st, NEW dn, EventsOK(e, st, dn), NEW t, NEW Q, NEW d \in BOOLEAN,
           NEW sx, NEW dx, WaitOK(Block(e.wait, t, Q, d), sx, dx)
    PROVE  EventsOK(BlockOn(e, t, Q, d), sx, dx)
BY DEF EventsOK, EventRecords, BlockOn, WaitOK

-----------------------------------------------------------------------------
(* The client's steps. *)

\* The record of a call newly made.
Made(S) == [NoRecord EXCEPT !.live = TRUE, !.request = S, !.taken = S]

LEMMA MadeFacts ==
    ASSUME NEW S \in SUBSET Objects
    PROVE  /\ Made(S) \in CallRecords /\ Stage(Made(S)) = "asked"
           /\ Made(S).live /\ ~Made(S).done /\ ~Made(S).failed
           /\ Made(S).request = S /\ Made(S).reply = {} /\ Made(S).taken = S
           /\ Stage(NoRecord) = "out"
BY DEF Made, NoRecord, CallRecords, Stage

\* sys_call
LEMMA CallKeeps ==
    ASSUME IInv, NEW c \in Clients, NEW S \in SUBSET Objects, NEW d \in Deadlines, Call(c, S, d)
    PROVE  IInv'
<1>1. PICK p, inf, g, sv, e, rc, dn, rem, tb, r, kd :
          /\ p = pending /\ inf = inflight /\ g = nextGeneration /\ sv = serving /\ e = ev
          /\ rc = record /\ dn = doing /\ rem = remembered /\ tb = table /\ r = refs
          /\ kd = killed
  OBVIOUS
<1>2. PICK st : st = StageOf(rc)
  OBVIOUS
<1>3. /\ EventsOK(e, st, dn) /\ ListOK(p, inf, st, sv) /\ RecordOK(rc, inf)
      /\ TokensOK(rem, inf, g) /\ BalanceOK(r, tb, rc, kd)
      /\ rc \in [Clients -> CallRecords]
  BY <1>1, <1>2 DEF IInv, SimpleTypes, EventsOK, RecordOK
<1>4. st \in [Clients -> Stages] /\ st[c] = Stage(rc[c])
  BY <1>2, <1>3, StagesFollow
<1>5. /\ ~rc[c].live
      /\ inflight' = inf /\ nextGeneration' = g /\ serving' = sv /\ doing' = dn
      /\ remembered' = rem /\ table' = tb /\ ends' = ends /\ killed' = kd
  BY <1>1 DEF Call
<1>6. rc[c] = NoRecord /\ st[c] = "out"
  BY <1>3, <1>4, <1>5 DEF RecordOK, Stage
<1>7. CASE /\ serving /\ c \notin killed /\ d # "passed"
           /\ pending' = Append(pending, c)
           /\ ev' = BlockOn(Announce(ev, pending'), c, {c}, d = "ahead")
           /\ record' = [record EXCEPT ![c] = Made(S)]
           /\ refs' = Held(Held(refs, S), S)
           /\ deadline' = [deadline EXCEPT ![c] = d]
  <2>1. PICK px, e1, b : px = pending' /\ e1 = Announce(e, px) /\ b = (d = "ahead")
    OBVIOUS
  <2>2. b \in BOOLEAN
    BY <2>1
  <2>3. EventsOK(e1, st, dn)
    <3>1. EventsOK(RefreshReady(e, px), st, dn)
      BY <1>3, EventsRefresh
    <3>2. EventsOK(Awake(RefreshReady(e, px), "recv"), st, dn)
      BY <3>1, EventsAwake DEF Lists
    <3> QED
      BY <2>1, <3>2 DEF Announce
  <2>4. PICK sx : sx = [st EXCEPT ![c] = "asked"]
    OBVIOUS
  <2>5. EventsOK(BlockOn(e1, c, {c}, b), sx, dn)
    <3>1. WaitOK(e1.wait, st, dn)
      BY <2>3 DEF EventsOK
    <3>2. WaitOK(Block(e1.wait, c, {c}, b), [st EXCEPT ![c] = "asked"], dn)
      BY <1>6, <2>2, <3>1, ClientBlocks
    <3> QED
      BY <2>2, <2>3, <2>4, <3>2, EventsBlock
  <2>6. ev' = BlockOn(e1, c, {c}, b)
    BY <1>1, <1>7, <2>1
  <2>7. PICK rcx : rcx = [rc EXCEPT ![c] = Made(S)]
    OBVIOUS
  <2>8. record' = rcx
    BY <1>1, <1>7, <2>7
  <2>9. StageOf(rcx) = sx
    <3>1. StageOf([rc EXCEPT ![c] = Made(S)]) = [StageOf(rc) EXCEPT ![c] = Stage(Made(S))]
      BY <1>3, StagesFollow
    <3>2. Stage(Made(S)) = "asked"
      BY MadeFacts
    <3> QED
      BY <1>2, <2>4, <2>7, <3>1, <3>2
  <2>10. ListOK(Append(p, c), inf, sx, TRUE) /\ sv = TRUE
    <3>1. sv = TRUE
      BY <1>1, <1>7 DEF IInv, SimpleTypes
    <3>2. ListOK(p, inf, st, TRUE)
      BY <1>3, <3>1
    <3> QED
      BY <1>4, <1>6, <2>4, <3>1, <3>2, CallIsQueued
  <2>11. RecordOK(rcx, inf)
    <3>1. ~Taken(inf, c)
      BY <1>3, <1>6 DEF ListOK
    <3> QED
      BY <1>3, <2>7, <3>1, RecordChanges, MadeFacts
  <2>12. BalanceOK(Held(Held(r, S), S), tb, rcx, kd)
    BY <1>3, <1>6, <2>7, CallBalances, MadeFacts
  <2>13. deadline' \in [Threads -> Deadlines]
    BY <1>7, Names DEF IInv, SimpleTypes
  <2>14. ListOK(pending', inflight', StageOf(record'), serving')
    BY <1>1, <1>5, <1>7, <2>8, <2>9, <2>10
  <2>15. refs' = Held(Held(r, S), S)
    BY <1>1, <1>7
  <2>16. SimpleTypes'
    BY <1>1, <1>5, <2>5, <2>6, <2>13 DEF IInv, SimpleTypes, EventsOK
  <2>17. WaitOK(ev'.wait, StageOf(record'), doing')
    BY <1>5, <2>5, <2>6, <2>8, <2>9 DEF EventsOK
  <2> QED
    BY <1>3, <1>5, <2>8, <2>11, <2>12, <2>14, <2>15, <2>16, <2>17 DEF IInv
<1>8. CASE /\ ev' = RefreshReady(Announce(ev, Append(pending, c)), pending)
           /\ UNCHANGED <<pending, record, refs, deadline>>
  <2>1. PICK px, e1 : px = Append(p, c) /\ e1 = RefreshReady(Announce(e, px), p)
    OBVIOUS
  <2>2. EventsOK(e1, st, dn)
    <3>1. EventsOK(RefreshReady(e, px), st, dn)
      BY <1>3, EventsRefresh
    <3>2. EventsOK(Awake(RefreshReady(e, px), "recv"), st, dn)
      BY <3>1, EventsAwake DEF Lists
    <3>3. EventsOK(Announce(e, px), st, dn)
      BY <3>2 DEF Announce
    <3> QED
      BY <2>1, <3>3, EventsRefresh
  <2>3. ev' = e1
    BY <1>1, <1>8, <2>1
  <2>4. pending' = p /\ record' = rc /\ refs' = r /\ deadline' = deadline
    BY <1>1, <1>8
  <2> QED
    BY <1>1, <1>2, <1>3, <1>5, <2>2, <2>3, <2>4 DEF IInv, SimpleTypes, EventsOK
<1>9. CASE UNCHANGED <<pending, ev, record, refs, deadline>>
  BY <1>5, <1>9, <1>1 DEF IInv, SimpleTypes
<1> QED
  BY <1>7, <1>8, <1>9 DEF Call, Made

\* call returns, with an answer or without.
LEMMA CallAgainKeeps ==
    ASSUME IInv, NEW c \in Clients, CallAgain(c)
    PROVE  IInv'
<1>1. PICK p, inf, g, sv, e, rc, dn, rem, tb, r, kd :
          /\ p = pending /\ inf = inflight /\ g = nextGeneration /\ sv = serving /\ e = ev
          /\ rc = record /\ dn = doing /\ rem = remembered /\ tb = table /\ r = refs
          /\ kd = killed
  OBVIOUS
<1>2. PICK st, sx, rcx : /\ st = StageOf(rc) /\ sx = [st EXCEPT ![c] = "out"]
                         /\ rcx = [rc EXCEPT ![c] = NoRecord]
  OBVIOUS
<1>3. /\ EventsOK(e, st, dn) /\ ListOK(p, inf, st, sv) /\ RecordOK(rc, inf)
      /\ TokensOK(rem, inf, g) /\ BalanceOK(r, tb, rc, kd)
      /\ rc \in [Clients -> CallRecords] /\ inf \in [Slots -> TakenType]
  BY <1>1, <1>2 DEF IInv, SimpleTypes, EventsOK, RecordOK, ListOK, TakenType
<1>4. st \in [Clients -> Stages] /\ st[c] = Stage(rc[c])
  BY <1>2, <1>3, StagesFollow
<1>5. /\ rc[c].live /\ nextGeneration' = g /\ serving' = sv /\ doing' = dn /\ ends' = ends
      /\ killed' = kd /\ deadline' = [deadline EXCEPT ![c] = "none"]
  BY <1>1 DEF CallAgain
<1>6. StageOf(rcx) = sx
  <2>1. StageOf([rc EXCEPT ![c] = NoRecord]) = [StageOf(rc) EXCEPT ![c] = Stage(NoRecord)]
    BY <1>3, StagesFollow
  <2>2. Stage(NoRecord) = "out"
    BY NoRecordFacts DEF Stage
  <2> QED
    BY <1>2, <2>1, <2>2
<1>7. PICK e1 : e1 = Woken(e, Leave(e.wait, c))
  OBVIOUS
<1>8. EventsOK(e1, sx, dn) /\ Left(c) = e1
  <2>1. WaitOK(e.wait, st, dn)
    BY <1>3 DEF EventsOK
  <2>2. WaitOK(Leave(e.wait, c), [st EXCEPT ![c] = "out"], dn)
    BY <2>1, ClientLeaves
  <2> QED
    BY <1>1, <1>2, <1>3, <1>7, <2>2, EventsWoken DEF Left
<1>9. /\ e.wait.woken[c] = IF st[c] = "answered" THEN {c} ELSE {}
      /\ Fired(e.wait, c, kd) <=> e.wait.woken[c] # {} /\ c \notin kd
  BY <1>3 DEF EventsOK, WaitOK, ClientWaits, Fired
<1>10. deadline' \in [Threads -> Deadlines]
  BY <1>5, Names DEF IInv, SimpleTypes, Deadlines
<1>11. /\ rc[c].request \in SUBSET Objects /\ rc[c].reply \in SUBSET Objects
       /\ rc[c].taken \in SUBSET Objects
  BY <1>3 DEF CallRecords
<1>12. CASE ~Fired(ev.wait, c, killed) /\ GiveUp(c)
  <2>1. /\ pending' = Without(p, c) /\ inflight' = Clear(inf, c) /\ record' = rcx
        /\ remembered' = StaleIn(rem, c) /\ table' = tb
        /\ refs' = Dropped(Dropped(r, rc[c].request), rc[c].taken)
    BY <1>1, <1>2, <1>12 DEF GiveUp, Cleared, Clear, Stale, StaleIn
  <2>2. EventsOK(ev', sx, dn)
    <3>1. ev' = e1 \/ ev' = RefreshReady(e1, pending')
      BY <1>8, <1>12 DEF GiveUp
    <3>2. PICK px : px = pending'
      OBVIOUS
    <3>3. EventsOK(RefreshReady(e1, px), sx, dn)
      BY <1>8, EventsRefresh
    <3> QED
      BY <1>8, <3>1, <3>2, <3>3
  <2>3. ListOK(Without(p, c), Clear(inf, c), sx, sv)
    BY <1>2, <1>3, <1>4, CallIsWithdrawn
  <2>4. RecordOK(rcx, Clear(inf, c))
    <3>1. \A s \in Slots : Clear(inf, c)[s] = IF inf[s].call = c THEN NoCall ELSE inf[s]
      BY DEF Clear
    <3>2. \A u \in Clients : Taken(Clear(inf, c), u) => Taken(inf, u) /\ u # c
      BY <1>3, <3>1, SlotFacts DEF Taken
    <3> QED
      BY <1>2, <1>3, <3>2, NoRecordFacts, RecordChanges
  <2>5. TokensOK(StaleIn(rem, c), Clear(inf, c), g)
    BY <1>3, TokensGoStale
  <2>6. BalanceOK(Dropped(Dropped(r, rc[c].request), rc[c].taken), tb, rcx, kd)
    <3>1. {} = rc[c].reply \/ c \in kd
      BY <1>1, <1>3, <1>4, <1>5, <1>9, <1>12 DEF RecordOK, Stage
    <3>2. BalanceOK(Dropped(Dropped(Dropped(r, rc[c].request), {}), rc[c].taken), tb,
                    [rc EXCEPT ![c] = NoRecord], kd)
      BY <1>3, <3>1, FrameBalances
    <3>3. PICK r1 : r1 = Dropped(r, rc[c].request)
      OBVIOUS
    <3>4. r1 = [o \in Objects |-> r1[o]]
      BY <3>3 DEF Dropped
    <3>5. Dropped(r1, {}) = r1
      BY <3>4 DEF Dropped
    <3> QED
      BY <1>2, <3>2, <3>3, <3>5
  <2>7. SimpleTypes'
    BY <1>1, <1>5, <1>10, <2>2 DEF IInv, SimpleTypes, EventsOK
  <2>8. WaitOK(ev'.wait, StageOf(record'), doing')
    BY <1>5, <1>6, <2>1, <2>2 DEF EventsOK
  <2> QED
    BY <1>5, <1>6, <2>1, <2>3, <2>4, <2>5, <2>6, <2>7, <2>8 DEF IInv
<1>13. ASSUME Fired(ev.wait, c, killed), record' = rcx, ev' = e1,
              UNCHANGED <<pending, inflight, remembered>>, BalanceOK(refs', table', rcx, kd)
       PROVE  IInv'
  <2>1. st[c] = "answered"
    BY <1>1, <1>9, <1>13
  <2>2. ListOK(p, inf, sx, sv)
    BY <1>2, <1>3, <1>4, <2>1, CallIsOver
  <2>3. RecordOK(rcx, inf)
    <3>1. ~Taken(inf, c)
      BY <1>3, <2>1 DEF ListOK
    <3> QED
      BY <1>2, <1>3, <3>1, NoRecordFacts, RecordChanges
  <2>4. SimpleTypes'
    BY <1>1, <1>5, <1>8, <1>10, <1>13 DEF IInv, SimpleTypes, EventsOK
  <2>5. WaitOK(ev'.wait, StageOf(record'), doing')
    BY <1>5, <1>6, <1>8, <1>13 DEF EventsOK
  <2>6. pending' = p /\ inflight' = inf /\ remembered' = rem
    BY <1>1, <1>13
  <2> QED
    BY <1>3, <1>5, <1>6, <1>13, <2>2, <2>3, <2>4, <2>5, <2>6 DEF IInv
<1>14. CASE Fired(ev.wait, c, killed) /\ record[c].failed /\ Fail(c)
  <2>1. /\ record' = rcx /\ ev' = e1 /\ table' = tb
        /\ UNCHANGED <<pending, inflight, remembered>>
        /\ refs' = Dropped(Dropped(Dropped(r, rc[c].request), rc[c].reply), rc[c].taken)
    BY <1>1, <1>2, <1>8, <1>14 DEF Fail
  <2>2. BalanceOK(Dropped(Dropped(Dropped(r, rc[c].request), rc[c].reply), rc[c].taken), tb,
                  [rc EXCEPT ![c] = NoRecord], kd)
    BY <1>3, <1>11, FrameBalances
  <2>3. BalanceOK(refs', table', rcx, kd)
    BY <1>2, <2>1, <2>2
  <2> QED
    BY <1>13, <1>14, <2>1, <2>3
<1>15. CASE Fired(ev.wait, c, killed) /\ ~record[c].failed /\ TakeAnswer(c)
  <2>1. /\ record' = rcx /\ ev' = e1 /\ UNCHANGED <<pending, inflight, remembered>>
        /\ DeliverHandles(c, rc[c].reply, Dropped(r, rc[c].taken))
    BY <1>1, <1>2, <1>8, <1>15 DEF TakeAnswer
  <2>2. rc[c].request = {}
    <3>1. st[c] = "answered"
      BY <1>1, <1>9, <1>15
    <3>2. rc[c].done /\ ~rc[c].failed
      BY <1>1, <1>4, <1>15, <3>1 DEF Stage
    <3> QED
      BY <1>3, <3>2 DEF RecordOK
  <2>3. PICK x \in CallRecords : x = NoRecord
    BY NoRecordFacts
  <2>4. Becomes(rc, rcx, c, x)
    BY <1>2, <2>3 DEF Becomes
  <2>5. PICK S, T \in SUBSET Objects : S = rc[c].reply /\ T = rc[c].taken
    BY <1>11
  <2>6. ASSUME NEW o \in Objects
        PROVE  Has(rc[c].request, o) + Has(rc[c].reply, o) + Has(rc[c].taken, o)
                = Has(x.request, o) + Has(x.reply, o) + Has(x.taken, o) + Has(S, o) + Has(T, o)
    <3>1. Has(rc[c].request, o) = 0
      BY <2>2 DEF Has
    <3>2. Has(x.request, o) = 0 /\ Has(x.reply, o) = 0 /\ Has(x.taken, o) = 0
      BY <2>3, NoRecordFacts DEF Has
    <3>3. PICK i, j \in 0..1 : i = Has(S, o) /\ j = Has(T, o)
      BY HasType
    <3>4. 0 + i + j = 0 + 0 + 0 + i + j
      BY <3>3
    <3> QED
      BY <2>5, <3>1, <3>2, <3>3, <3>4
  <2>7. c \in Threads /\ BalanceOK(r, table, rc, kd)
    BY <1>1, <1>3, Names
  <2>8. DeliverHandles(c, S, Dropped(r, T))
    BY <2>1, <2>5 DEF DeliverHandles
  <2>9. BalanceOK(refs', table', rcx, kd)
    BY <1>3, <2>4, <2>6, <2>7, <2>8, DeliveryKeepsBalance
  <2> QED
    BY <1>13, <1>15, <2>1, <2>9
<1> QED
  BY <1>12, <1>14, <1>15 DEF CallAgain

-----------------------------------------------------------------------------
(* The server's steps. *)

\* A server back at work with the events e, whatever it was blocked in.
AtWorkWith(s, e) == EventsOK(e, StageOf(record), [doing EXCEPT ![s] = "idle"])

\* A step that leaves the lists, the records and the references alone.
LEMMA QuietKeeps ==
    ASSUME IInv, Quiet, UNCHANGED <<ends, killed>>, deadline' \in [Threads -> Deadlines],
           EventsOK(ev', StageOf(record), doing')
    PROVE  IInv'
<1>1. /\ pending' = pending /\ inflight' = inflight /\ nextGeneration' = nextGeneration
      /\ serving' = serving /\ record' = record /\ remembered' = remembered
      /\ table' = table /\ refs' = refs /\ ends' = ends /\ killed' = killed
  BY DEF Quiet, channel
<1>2. SimpleTypes'
  BY <1>1 DEF IInv, SimpleTypes, EventsOK
<1>3. WaitOK(ev'.wait, StageOf(record'), doing')
  BY <1>1 DEF EventsOK
<1> QED
  BY <1>1, <1>2, <1>3 DEF IInv

\* blockOn for a server.
LEMMA SleepKeeps ==
    ASSUME IInv, NEW s \in Servers, NEW e, NEW q \in Lists, NEW d \in Deadlines,
           AtWorkWith(s, e), ServerSleeps(s, e, q, d), Quiet, UNCHANGED <<ends, killed>>
    PROVE  IInv'
<1>1. PICK st, dn, dx : st = StageOf(record) /\ dn = doing /\ dx = [dn EXCEPT ![s] = "idle"]
  OBVIOUS
<1>2. EventsOK(e, st, dx) /\ dn \in [Servers -> Doings]
  BY <1>1 DEF AtWorkWith, IInv, WaitOK
<1>3. dx[s] = "idle" /\ \A x : [dx EXCEPT ![s] = x] = [dn EXCEPT ![s] = x]
  BY <1>1, <1>2
<1>4. s \in Threads /\ deadline \in [Threads -> Deadlines]
  BY Names DEF IInv, SimpleTypes
<1>5. CASE /\ ev' = BlockOn(e, s, {q}, d = "ahead")
           /\ doing' = [doing EXCEPT ![s] = q]
           /\ deadline' = [deadline EXCEPT ![s] = d]
  <2>1. PICK b \in BOOLEAN : b = (d = "ahead")
    OBVIOUS
  <2>2. WaitOK(Block(e.wait, s, {q}, b), st, [dx EXCEPT ![s] = q])
    BY <1>2, <1>3, ServerBlocks DEF EventsOK
  <2>3. EventsOK(BlockOn(e, s, {q}, b), st, [dn EXCEPT ![s] = q])
    BY <1>2, <1>3, <2>2, EventsBlock
  <2>4. EventsOK(ev', StageOf(record), doing')
    BY <1>1, <1>5, <2>1, <2>3
  <2>5. deadline' \in [Threads -> Deadlines]
    BY <1>4, <1>5
  <2> QED
    BY <2>4, <2>5, QuietKeeps
<1>6. CASE /\ ev' = e
           /\ doing' = [doing EXCEPT ![s] = "idle"]
           /\ deadline' = [deadline EXCEPT ![s] = "none"]
  <2>1. EventsOK(ev', StageOf(record), doing')
    BY <1>1, <1>2, <1>6
  <2>2. deadline' \in [Threads -> Deadlines]
    BY <1>4, <1>6 DEF Deadlines
  <2> QED
    BY <2>1, <2>2, QuietKeeps
<1> QED
  BY <1>5, <1>6 DEF ServerSleeps

\* The first free slot is one.
LEMMA FirstFree ==
    ASSUME FreeSlots # {}
    PROVE  Min(FreeSlots) \in Slots /\ inflight[Min(FreeSlots)] = NoCall
<1>1. FreeSlots \in SUBSET Nat
  BY ChannelAssumption DEF FreeSlots, Slots
<1>2. PICK F : F = FreeSlots
  OBVIOUS
<1>3. \E x \in F : \A y \in F : x <= y
  BY <1>1, <1>2, LeastExists
<1>4. Min(F) \in F
  BY <1>3 DEF Min
<1> QED
  BY <1>2, <1>4 DEF FreeSlots

\* The loop of recv.
LEMMA RecvLoopKeeps ==
    ASSUME IInv, NEW s \in Servers, NEW e, NEW d \in Deadlines, AtWorkWith(s, e),
           RecvLoop(s, e, d), UNCHANGED <<ends, killed>>
    PROVE  IInv'
<1>1. CASE ServerSleeps(s, e, "recv", d) /\ Quiet
  BY <1>1, SleepKeeps DEF Lists
<1>2. CASE /\ FreeSlots # {} /\ pending # <<>> /\ TakeCall(s, e)
           /\ doing' = [doing EXCEPT ![s] = "idle"]
           /\ deadline' = [deadline EXCEPT ![s] = "none"]
           /\ UNCHANGED serving
  <2>1. PICK p, inf, g, sv, rc, dn, rem, r, kd :
            /\ p = pending /\ inf = inflight /\ g = nextGeneration /\ sv = serving
            /\ rc = record /\ dn = doing /\ rem = remembered /\ r = refs /\ kd = killed
    OBVIOUS
  <2>2. PICK st, dx, sl, c, S : /\ st = StageOf(rc) /\ dx = [dn EXCEPT ![s] = "idle"]
                                /\ sl = Min(FreeSlots) /\ c = Head(p) /\ S = rc[c].request
    OBVIOUS
  <2>3. /\ EventsOK(e, st, dx) /\ ListOK(p, inf, st, sv) /\ RecordOK(rc, inf)
        /\ TokensOK(rem, inf, g) /\ BalanceOK(r, table, rc, kd) /\ p # <<>>
        /\ rc \in [Clients -> CallRecords] /\ inf \in [Slots -> TakenType]
        /\ g \in 1..MaxGeneration
    BY <1>2, <2>1, <2>2 DEF AtWorkWith, IInv, RecordOK, ListOK, TakenType, TokensOK
  <2>4. sl \in Slots /\ inf[sl] = NoCall
    BY <1>2, <2>1, <2>2, FirstFree
  <2>5. PICK y : y = [inf EXCEPT ![sl] = [call |-> c, generation |-> g]]
    OBVIOUS
  <2>6. /\ ListOK(Tail(p), y, st, sv) /\ c \in Clients /\ st[c] = "asked"
        /\ \A u \in Clients : Taken(y, u) <=> Taken(inf, u) \/ u = c
    BY <2>2, <2>3, <2>4, <2>5, CallIsTaken
  <2>7. PICK tk : tk = [slot |-> sl, generation |-> g, client |-> c, live |-> TRUE]
    OBVIOUS
  <2>8. TokensOK(Remember(rem, tk), y, NextGeneration(g))
    BY <2>3, <2>4, <2>5, <2>6, <2>7, TokenIsHandedOut
  <2>9. PICK x : x = [rc[c] EXCEPT !.request = {}]
    OBVIOUS
  <2>10. /\ x \in CallRecords /\ x.request = {} /\ x.reply = rc[c].reply
         /\ x.taken = rc[c].taken /\ x.live = rc[c].live /\ x.done = rc[c].done
         /\ x.failed = rc[c].failed /\ S \in SUBSET Objects
    BY <2>2, <2>3, <2>6, <2>9 DEF CallRecords
  <2>11. PICK rcx : rcx = [rc EXCEPT ![c] = x]
    OBVIOUS
  <2>12. StageOf(rcx) = st
    <3>1. StageOf([rc EXCEPT ![c] = x]) = [StageOf(rc) EXCEPT ![c] = Stage(x)]
      BY <2>3, <2>6, StagesFollow
    <3>2. Stage(x) = Stage(rc[c]) /\ st \in [Clients -> Stages] /\ st[c] = Stage(rc[c])
      BY <2>2, <2>3, <2>6, <2>10, StagesFollow DEF Stage
    <3>3. [st EXCEPT ![c] = st[c]] = st
      BY <2>6, <3>2
    <3> QED
      BY <2>2, <2>11, <3>1, <3>2, <3>3
  <2>13. RecordOK(rcx, y)
    <3>1. rc[c].live /\ ~rc[c].done
      <4>1. st[c] = Stage(rc[c])
        BY <2>2, <2>3, <2>6, StagesFollow
      <4> QED
        BY <2>6, <4>1 DEF Stage
    <3>2. rc[c].reply = {} /\ ~rc[c].failed
      BY <2>3, <2>6, <3>1 DEF RecordOK
    <3>3. \A u \in Clients : u # c /\ Taken(y, u) => Taken(inf, u)
      BY <2>6
    <3> QED
      BY <2>3, <2>6, <2>10, <2>11, <3>1, <3>2, <3>3, RecordChanges
  <2>14. BalanceOK(refs', table', rcx, kd)
    <3>1. Becomes(rc, rcx, c, x)
      BY <2>11 DEF Becomes
    <3>2. PICK T \in SUBSET Objects : T = {}
      OBVIOUS
    <3>3. ASSUME NEW o \in Objects
          PROVE  Has(rc[c].request, o) + Has(rc[c].reply, o) + Has(rc[c].taken, o)
                  = Has(x.request, o) + Has(x.reply, o) + Has(x.taken, o) + Has(S, o) + Has(T, o)
      <4>1. Has(x.request, o) = 0 /\ Has(T, o) = 0
        BY <2>10, <3>2 DEF Has
      <4>2. PICK i, j, k \in 0..1 : i = Has(S, o) /\ j = Has(x.reply, o) /\ k = Has(x.taken, o)
        BY HasType
      <4>3. i + j + k = 0 + j + k + i + 0
        BY <4>2
      <4> QED
        BY <2>2, <2>10, <4>1, <4>2, <4>3
    <3>4. r = Dropped(r, T)
      <4>1. r = [o \in Objects |-> r[o]]
        BY <2>3 DEF BalanceOK
      <4> QED
        BY <3>2, <4>1 DEF Dropped
    <3>5. DeliverHandles(s, S, Dropped(r, T))
      <4>1. DeliverHandles(s, S, r)
        BY <1>2, <2>1, <2>2 DEF TakeCall, DeliverHandles
      <4> QED
        BY <3>4, <4>1
    <3>6. s \in Threads /\ S \in SUBSET Objects /\ x \in CallRecords /\ c \in Clients
      BY <2>6, <2>10, Names
    <3>7. BalanceOK(r, table, rc, kd) /\ rc \in [Clients -> CallRecords]
      BY <2>3
    <3> QED
      BY <3>1, <3>3, <3>5, <3>6, <3>7, DeliveryKeepsBalance
  <2>15. PICK px : px = Tail(p)
    OBVIOUS
  <2>16. /\ pending' = px /\ inflight' = y /\ nextGeneration' = NextGeneration(g)
         /\ serving' = sv /\ remembered' = Remember(rem, tk) /\ record' = rcx
         /\ doing' = dx
         /\ ev' = RefreshReady(e, px) /\ killed' = kd /\ ends' = ends
    BY <1>2, <2>1, <2>2, <2>5, <2>7, <2>9, <2>11, <2>15 DEF TakeCall
  <2>17. EventsOK(RefreshReady(e, px), st, dx)
    BY <2>3, EventsRefresh
  <2>18. deadline' \in [Threads -> Deadlines]
    BY <1>2, Names DEF IInv, SimpleTypes, Deadlines
  <2>19. SimpleTypes'
    BY <2>1, <2>16, <2>17, <2>18 DEF IInv, SimpleTypes, EventsOK
  <2>20. WaitOK(ev'.wait, StageOf(record'), doing')
    BY <2>12, <2>16, <2>17 DEF EventsOK
  <2> QED
    BY <2>6, <2>8, <2>12, <2>13, <2>14, <2>15, <2>16, <2>19, <2>20 DEF IInv
<1> QED
  BY <1>1, <1>2 DEF RecvLoop

\* The loop of waitMany.
LEMMA ReadyLoopKeeps ==
    ASSUME IInv, NEW s \in Servers, NEW e, NEW d \in Deadlines, AtWorkWith(s, e),
           ReadyLoop(s, e, d), UNCHANGED <<ends, killed>>
    PROVE  IInv'
<1>1. CASE ServerSleeps(s, e, "ready", d) /\ Quiet
  BY <1>1, SleepKeeps DEF Lists
<1>2. CASE /\ e.count["ready"] > 0 /\ ev' = Consume(e, "ready")
           /\ doing' = [doing EXCEPT ![s] = "due"]
           /\ deadline' = [deadline EXCEPT ![s] = "none"]
           /\ Quiet
  <2>1. PICK st, dn, dx : st = StageOf(record) /\ dn = doing /\ dx = [dn EXCEPT ![s] = "idle"]
    OBVIOUS
  <2>2. EventsOK(e, st, dx) /\ dn \in [Servers -> Doings]
    BY <2>1 DEF AtWorkWith, IInv, WaitOK
  <2>3. dx[s] = "idle" /\ [dx EXCEPT ![s] = "due"] = [dn EXCEPT ![s] = "due"]
    BY <2>1, <2>2
  <2>4. EventsOK(Consume(e, "ready"), st, dx) /\ Consume(e, "ready").wait = e.wait
    BY <1>2, <2>2, EventsConsumed
  <2>5. PICK e1 : e1 = Consume(e, "ready")
    OBVIOUS
  <2>6. WaitOK(e1.wait, st, [dx EXCEPT ![s] = "due"])
    BY <2>3, <2>4, <2>5, ServerWorks DEF EventsOK
  <2>7. EventsOK(ev', StageOf(record), doing')
    BY <1>2, <2>1, <2>3, <2>4, <2>5, <2>6 DEF EventsOK
  <2>8. deadline' \in [Threads -> Deadlines]
    BY <1>2, Names DEF IInv, SimpleTypes, Deadlines
  <2> QED
    BY <1>2, <2>7, <2>8, QuietKeeps
<1> QED
  BY <1>1, <1>2 DEF ReadyLoop

\* A server at work calls recv or wait_many.
LEMMA WorkIsWork ==
    ASSUME IInv, NEW s \in Servers, doing[s] \in {"idle", "due"}
    PROVE  AtWorkWith(s, ev)
<1>1. PICK st, dn, w : st = StageOf(record) /\ dn = doing /\ w = ev.wait
  OBVIOUS
<1>2. WaitOK(w, st, dn) /\ dn[s] \in {"idle", "due"}
  BY <1>1 DEF IInv
<1>3. WaitOK(w, st, [dn EXCEPT ![s] = "idle"])
  BY <1>2, ServerWorks
<1> QED
  BY <1>1, <1>3 DEF AtWorkWith, EventsOK, IInv, SimpleTypes

\* A server comes back from a wait.
LEMMA BackAtWork ==
    ASSUME IInv, NEW s \in Servers
    PROVE  AtWorkWith(s, Left(s))
<1>1. PICK st, dn, e : st = StageOf(record) /\ dn = doing /\ e = ev
  OBVIOUS
<1>2. EventsOK(e, st, dn) /\ WaitOK(e.wait, st, dn)
  BY <1>1 DEF IInv, EventsOK, SimpleTypes
<1>3. WaitOK(Leave(e.wait, s), st, [dn EXCEPT ![s] = "idle"])
  BY <1>2, ServerLeaves
<1>4. EventsOK(Woken(e, Leave(e.wait, s)), st, [dn EXCEPT ![s] = "idle"])
  BY <1>2, <1>3, EventsWoken
<1> QED
  BY <1>1, <1>4 DEF AtWorkWith, Left

\* sys_recv, wait_many, and either on the way back from blockOn.
LEMMA ServerWaitKeeps ==
    ASSUME IInv, NEW s \in Servers, NEW d \in Deadlines,
           Recv(s, d) \/ WaitReady(s, d) \/ ServerAgain(s)
    PROVE  IInv'
<1>1. CASE Recv(s, d)
  <2>1. PICK e : e = ev
    OBVIOUS
  <2>2. AtWorkWith(s, e)
    BY <1>1, <2>1, WorkIsWork DEF Recv, AtWork, AtWorkWith
  <2>3. RecvLoop(s, e, d) /\ UNCHANGED <<ends, killed>>
    BY <1>1, <2>1 DEF Recv, RecvLoop, TakeCall, ServerSleeps
  <2> QED
    BY <2>2, <2>3, RecvLoopKeeps
<1>2. CASE WaitReady(s, d)
  <2>1. PICK e : e = ev
    OBVIOUS
  <2>2. AtWorkWith(s, e)
    BY <1>2, <2>1, WorkIsWork DEF WaitReady, AtWorkWith
  <2>3. ReadyLoop(s, e, d) /\ UNCHANGED <<ends, killed>>
    BY <1>2, <2>1 DEF WaitReady, ReadyLoop, ServerSleeps
  <2> QED
    BY <2>2, <2>3, ReadyLoopKeeps
<1>3. CASE ServerAgain(s)
  <2>1. PICK e, h : e = Left(s) /\ h = deadline[s]
    OBVIOUS
  <2>2. AtWorkWith(s, e)
    BY <2>1, BackAtWork DEF AtWorkWith
  <2>3. h \in Deadlines
    BY <2>1, Names DEF IInv, SimpleTypes
  <2>4. CASE RecvLoop(s, Left(s), deadline[s])
    <3>1. RecvLoop(s, e, h) /\ UNCHANGED <<ends, killed>>
      BY <1>3, <2>1, <2>4 DEF ServerAgain, RecvLoop, TakeCall, ServerSleeps
    <3> QED
      BY <2>2, <2>3, <3>1, RecvLoopKeeps
  <2>5. CASE ReadyLoop(s, Left(s), deadline[s])
    <3>1. ReadyLoop(s, e, h) /\ UNCHANGED <<ends, killed>>
      BY <1>3, <2>1, <2>5 DEF ServerAgain, ReadyLoop, ServerSleeps
    <3> QED
      BY <2>2, <2>3, <3>1, ReadyLoopKeeps
  <2>6. CASE /\ ev' = Left(s) /\ doing' = [doing EXCEPT ![s] = "idle"]
             /\ deadline' = [deadline EXCEPT ![s] = "none"] /\ Quiet
    <3>1. EventsOK(ev', StageOf(record), doing')
      BY <2>1, <2>2, <2>6 DEF AtWorkWith
    <3>2. deadline' \in [Threads -> Deadlines]
      BY <2>6, Names DEF IInv, SimpleTypes, Deadlines
    <3>3. UNCHANGED <<ends, killed>>
      BY <1>3 DEF ServerAgain
    <3> QED
      BY <2>6, <3>1, <3>2, <3>3, QuietKeeps
  <2> QED
    BY <1>3, <2>4, <2>5, <2>6 DEF ServerAgain
<1> QED
  BY <1>1, <1>2, <1>3

\* sys_reply
LEMMA ReplyKeeps ==
    ASSUME IInv, NEW s \in Servers, NEW token \in Tokens, NEW S \in SUBSET Objects,
           Reply(s, token, S)
    PROVE  IInv'
<1>1. PICK p, inf, g, sv, e, rc, dn, rem, tb, r, kd :
          /\ p = pending /\ inf = inflight /\ g = nextGeneration /\ sv = serving /\ e = ev
          /\ rc = record /\ dn = doing /\ rem = remembered /\ tb = table /\ r = refs
          /\ kd = killed
  OBVIOUS
<1>2. PICK st, sl, c : st = StageOf(rc) /\ sl = token.slot /\ c = inf[sl].call
  OBVIOUS
<1>3. /\ EventsOK(e, st, dn) /\ ListOK(p, inf, st, sv) /\ RecordOK(rc, inf)
      /\ TokensOK(rem, inf, g) /\ BalanceOK(r, tb, rc, kd)
      /\ rc \in [Clients -> CallRecords] /\ inf \in [Slots -> TakenType]
  BY <1>1, <1>2 DEF IInv, SimpleTypes, EventsOK, RecordOK, ListOK, TakenType
<1>4. st \in [Clients -> Stages] /\ \A u \in Clients : st[u] = Stage(rc[u])
  BY <1>2, <1>3, StagesFollow
<1>5. sl \in Slots /\ inf[sl] # NoCall
  <2>1. PICK i \in 1..Len(rem) : token = rem[i]
    BY <1>1 DEF Tokens
  <2>2. rem \in Seq(TokenType)
    BY <1>3 DEF TokensOK
  <2>3. rem[i] \in TokenType
    BY <2>1, <2>2, ElementOfSeq
  <2>4. inf[sl] # NoCall
    BY <1>1, <1>2 DEF Reply
  <2> QED
    BY <1>2, <2>1, <2>3, <2>4 DEF TokenType
<1>6. PICK sx, y : sx = [st EXCEPT ![c] = "answered"] /\ y = Clear(inf, c)
  OBVIOUS
<1>7. /\ c \in Clients /\ st[c] = "asked" /\ [inf EXCEPT ![sl] = NoCall] = y
      /\ ListOK(p, y, sx, sv)
  <2>1. ListOK(p, inf, st, sv) /\ SlotHolds(inf, sl, c) /\ st \in [Clients -> Stages]
    BY <1>2, <1>3, <1>4, <1>5 DEF SlotHolds
  <2>2. /\ c \in Clients /\ st[c] = "asked"
        /\ [inf EXCEPT ![sl] = NoCall] = Clear(inf, c)
        /\ ListOK(p, Clear(inf, c), [st EXCEPT ![c] = "answered"], sv)
    BY <2>1, CallIsAnswered
  <2> QED
    BY <1>6, <2>2
<1>8. PICK x : x = [rc[c] EXCEPT !.reply = S, !.done = TRUE]
  OBVIOUS
<1>9. /\ x \in CallRecords /\ x.request = rc[c].request /\ x.reply = S
      /\ x.taken = rc[c].taken /\ x.live = rc[c].live /\ x.done /\ x.failed = rc[c].failed
  BY <1>3, <1>7, <1>8 DEF CallRecords
<1>10. PICK rcx : rcx = [rc EXCEPT ![c] = x]
  OBVIOUS
<1>11. /\ pending' = p /\ nextGeneration' = g /\ serving' = sv /\ doing' = dn
       /\ deadline' = deadline /\ table' = tb /\ ends' = ends /\ killed' = kd
       /\ inflight' = y /\ refs' = Held(r, S) /\ remembered' = StaleIn(rem, c)
       /\ ev' = Woken(e, WakeAll(WakeOne(e.wait, "recv"), c))
  BY <1>1, <1>2, <1>7 DEF Reply, Stale, StaleIn
<1>12. record' = rcx
  <2>1. record' = [rc EXCEPT ![c].reply = S, ![c].done = TRUE]
    BY <1>1, <1>2 DEF Reply
  <2> QED
    BY <1>3, <1>7, <1>8, <1>10, <2>1
<1>13. rc[c].live /\ ~rc[c].done /\ rc[c].reply = {} /\ ~rc[c].failed /\ rc[c].request = {}
  <2>1. rc[c].live /\ ~rc[c].done
    BY <1>4, <1>7 DEF Stage
  <2>2. Taken(inf, c)
    BY <1>2, <1>5 DEF Taken
  <2> QED
    BY <1>3, <1>7, <2>1, <2>2 DEF RecordOK
<1>14. StageOf(rcx) = sx
  <2>1. StageOf([rc EXCEPT ![c] = x]) = [StageOf(rc) EXCEPT ![c] = Stage(x)]
    BY <1>3, <1>7, StagesFollow
  <2>2. Stage(x) = "answered"
    BY <1>9, <1>13 DEF Stage
  <2> QED
    BY <1>2, <1>6, <1>10, <2>1, <2>2
<1>15. RecordOK(rcx, y)
  <2>1. \A i \in Slots : y[i] = IF inf[i].call = c THEN NoCall ELSE inf[i]
    BY <1>6 DEF Clear
  <2>2. \A u \in Clients : Taken(y, u) => Taken(inf, u)
    BY <1>3, <2>1, SlotFacts DEF Taken
  <2> QED
    BY <1>3, <1>7, <1>9, <1>10, <1>13, <2>2, RecordChanges
<1>16. TokensOK(StaleIn(rem, c), y, g)
  BY <1>3, <1>6, <1>7, TokensGoStale
<1>17. BalanceOK(Held(r, S), tb, rcx, kd)
  BY <1>3, <1>7, <1>9, <1>10, <1>13, ReplyBalances
<1>18. EventsOK(Woken(e, WakeAll(WakeOne(e.wait, "recv"), c)), sx, dn)
  <2>1. PICK w : w = WakeOne(e.wait, "recv")
    OBVIOUS
  <2>2. WaitOK(w, st, dn)
    BY <1>3, <2>1, WakeServer DEF EventsOK, Lists
  <2>3. PICK C \in SUBSET Clients : C = {c}
    BY <1>7
  <2>4. sx = [u \in Clients |-> IF u \in C THEN "answered" ELSE st[u]]
    BY <1>4, <1>6, <1>7, <2>3
  <2>5. WaitOK(WakeEach(w, C), sx, dn)
    <3>1. PICK Q : Q = C
      OBVIOUS
    <3>2. (\A u \in C : st[u] = "asked") /\ (Q = C \/ Q = {"recv"} \cup C)
      BY <1>7, <2>3, <3>1
    <3>3. WaitOK(WakeEach(w, Q), sx, dn)
      BY <2>2, <2>4, <3>2, CallersWake
    <3> QED
      BY <3>1, <3>3
  <2>6. WakeAll(w, c) = WakeEach(w, C)
    BY <2>3 DEF WakeAll
  <2> QED
    BY <1>3, <2>1, <2>5, <2>6, EventsWoken
<1>19. SimpleTypes'
  BY <1>1, <1>11, <1>18 DEF IInv, SimpleTypes, EventsOK
<1>20. WaitOK(ev'.wait, StageOf(record'), doing')
  BY <1>11, <1>12, <1>14, <1>18 DEF EventsOK
<1> QED
  BY <1>7, <1>11, <1>12, <1>14, <1>15, <1>16, <1>17, <1>19, <1>20 DEF IInv

\* stopServing answers for the calls that wait, and leaves empty lists.
LEMMA CallsAreFailed ==
    ASSUME NEW p, NEW inf, NEW st, NEW sv, ListOK(p, inf, st, sv), st \in [Clients -> Stages],
           NEW C, C = {c \in Clients : st[c] = "asked"},
           NEW sx, sx = [c \in Clients |-> IF c \in C THEN "answered" ELSE st[c]]
    PROVE  ListOK(<<>>, [i \in Slots |-> NoCall], sx, FALSE)
<1>1. PICK y : y = [i \in Slots |-> NoCall]
  OBVIOUS
<1>2. y \in [Slots -> TakenType] /\ \A i \in Slots : y[i] = NoCall
  BY <1>1 DEF TakenType
<1>3. \A c \in Clients : ~Taken(y, c) /\ sx[c] # "asked"
  BY <1>2, SlotFacts DEF Taken
<1>4. <<>> \in Seq(Clients) /\ \A c : ~On(<<>>, c)
  BY EmptyList, EmptySeq
<1>5. NoTwice(<<>>)
  BY EmptySeq DEF NoTwice
<1> QED
  BY <1>1, <1>2, <1>3, <1>4, <1>5 DEF ListOK, TakenType

\* The records of the calls that stopServing answers for.
Failing(rc, C) ==
    [c \in Clients |-> IF c \in C THEN [rc[c] EXCEPT !.failed = TRUE, !.done = TRUE] ELSE rc[c]]

NoneTaken(inf) == \A c \in Clients : ~Taken(inf, c)

LEMMA FailingFacts ==
    ASSUME NEW rc \in [Clients -> CallRecords], NEW inf, RecordOK(rc, inf),
           NEW C \in SUBSET Clients, \A c \in C : rc[c].live,
           NEW inx, NoneTaken(inx)
    PROVE  /\ RecordOK(Failing(rc, C), inx)
           /\ StageOf(Failing(rc, C))
                = [c \in Clients |-> IF c \in C THEN "answered" ELSE StageOf(rc)[c]]
           /\ \A c \in Clients : /\ Failing(rc, C)[c].request = rc[c].request
                                 /\ Failing(rc, C)[c].reply = rc[c].reply
                                 /\ Failing(rc, C)[c].taken = rc[c].taken
<1>1. PICK y : y = Failing(rc, C)
  OBVIOUS
<1>2. ASSUME NEW c \in Clients
      PROVE  /\ y[c] \in CallRecords /\ y[c].live = rc[c].live
             /\ y[c].request = rc[c].request /\ y[c].reply = rc[c].reply
             /\ y[c].taken = rc[c].taken
             /\ c \in C => y[c].done /\ y[c].failed
             /\ c \notin C => y[c] = rc[c]
  <2>1. rc[c] \in CallRecords
    OBVIOUS
  <2>2. CASE c \in C
    BY <1>1, <2>1, <2>2 DEF Failing, CallRecords
  <2>3. CASE c \notin C
    BY <1>1, <2>1, <2>3 DEF Failing
  <2> QED
    BY <2>2, <2>3
<1>3. y \in [Clients -> CallRecords]
  <2>1. y = [c \in Clients |-> y[c]]
    BY <1>1 DEF Failing
  <2> QED
    BY <1>2, <2>1
<1>4. ASSUME NEW c \in Clients
      PROVE  /\ ~y[c].live => y[c] = NoRecord
             /\ ~y[c].done => y[c].reply = {} /\ ~y[c].failed
             /\ (y[c].done /\ ~y[c].failed) \/ Taken(inx, c) => y[c].request = {}
  <2>1. CASE c \in C
    BY <1>2, <2>1 DEF NoneTaken
  <2>2. CASE c \notin C
    BY <1>2, <2>2 DEF RecordOK, NoneTaken
  <2> QED
    BY <2>1, <2>2
<1>5. RecordOK(y, inx)
  BY <1>3, <1>4 DEF RecordOK
<1>6. \A c \in Clients : Stage(y[c]) = IF c \in C THEN "answered" ELSE StageOf(rc)[c]
  BY <1>2 DEF Stage, StageOf
<1>7. StageOf(y) = [c \in Clients |-> IF c \in C THEN "answered" ELSE StageOf(rc)[c]]
  BY <1>6 DEF StageOf
<1> QED
  BY <1>1, <1>2, <1>5, <1>7

\* popPending until the queue is empty.
LEMMA EventsDrained ==
    ASSUME NEW st, NEW dn, EventsOK(ev, st, dn)
    PROVE  EventsOK(Drained(ev), st, dn)
<1>1. PICK e, p : e = ev /\ p = pending
  OBVIOUS
<1>2. EventsOK(e, st, dn)
  BY <1>1
<1>3. EventsOK(RefreshReady(e, p), st, dn)
  BY <1>2, EventsRefresh
<1>4. EventsOK(RefreshReady(e, <<>>), st, dn)
  BY <1>2, EventsRefresh
<1>5. EventsOK(RefreshReady(RefreshReady(e, p), <<>>), st, dn)
  BY <1>3, EventsRefresh
<1> QED
  BY <1>1, <1>2, <1>4, <1>5 DEF Drained

\* The serving end is closed.
LEMMA CloseServingKeeps ==
    ASSUME IInv, NEW s \in Servers, CloseServing(s)
    PROVE  IInv'
<1>1. PICK p, inf, g, sv, e, rc, dn, rem, tb, r, kd :
          /\ p = pending /\ inf = inflight /\ g = nextGeneration /\ sv = serving
          /\ e = Drained(ev) /\ rc = record /\ dn = doing /\ rem = remembered /\ tb = table
          /\ r = refs /\ kd = killed
  OBVIOUS
<1>2. PICK st, dx, C, y : /\ st = StageOf(rc) /\ dx = [dn EXCEPT ![s] = "idle"]
                          /\ C = {c \in Clients : FailedByStop(c)} /\ y = [i \in Slots |-> NoCall]
  OBVIOUS
<1>3. /\ ListOK(p, inf, st, sv) /\ RecordOK(rc, inf) /\ TokensOK(rem, inf, g)
      /\ BalanceOK(r, tb, rc, kd) /\ rc \in [Clients -> CallRecords]
  BY <1>1, <1>2 DEF IInv, RecordOK
<1>4. EventsOK(e, st, dx)
  <2>1. EventsOK(ev, st, dn)
    BY <1>1, <1>2 DEF IInv, SimpleTypes, EventsOK
  <2>2. EventsOK(e, st, dn)
    BY <1>1, <2>1, EventsDrained
  <2>3. dn[s] \in {"idle", "due"}
    BY <1>1 DEF CloseServing, AtWork
  <2>4. WaitOK(e.wait, st, [dn EXCEPT ![s] = "idle"])
    BY <2>2, <2>3, ServerWorks DEF EventsOK
  <2> QED
    BY <1>2, <2>2, <2>4 DEF EventsOK
<1>5. st \in [Clients -> Stages] /\ \A c \in Clients : st[c] = Stage(rc[c])
  BY <1>2, <1>3, StagesFollow
<1>6. C = {c \in Clients : st[c] = "asked"}
  <2>1. \A c \in Clients : FailedByStop(c) <=> On(p, c) \/ Taken(inf, c)
    BY <1>1 DEF FailedByStop, Outstanding, On, Taken
  <2>2. \A c \in Clients : FailedByStop(c) <=> st[c] = "asked"
    BY <1>3, <2>1 DEF ListOK
  <2> QED
    BY <1>2, <2>2
<1>7. PICK sx, rcx : /\ sx = [c \in Clients |-> IF c \in C THEN "answered" ELSE st[c]]
                     /\ rcx = Failing(rc, C)
  OBVIOUS
<1>8. ListOK(<<>>, y, sx, FALSE)
  <2>1. ListOK(<<>>, [i \in Slots |-> NoCall], sx, FALSE)
    BY <1>3, <1>5, <1>6, <1>7, CallsAreFailed
  <2> QED
    BY <1>2, <2>1
<1>9. NoneTaken(y)
  BY <1>2, Names DEF NoneTaken, Taken, NoCall
<1>10. /\ RecordOK(rcx, y) /\ StageOf(rcx) = sx
       /\ \A c \in Clients : /\ rcx[c].request = rc[c].request /\ rcx[c].reply = rc[c].reply
                             /\ rcx[c].taken = rc[c].taken
  <2>1. (\A c \in C : rc[c].live) /\ C \in SUBSET Clients
    BY <1>5, <1>6 DEF Stage
  <2>2. /\ RecordOK(Failing(rc, C), y)
        /\ StageOf(Failing(rc, C))
             = [c \in Clients |-> IF c \in C THEN "answered" ELSE StageOf(rc)[c]]
        /\ \A c \in Clients : /\ Failing(rc, C)[c].request = rc[c].request
                              /\ Failing(rc, C)[c].reply = rc[c].reply
                              /\ Failing(rc, C)[c].taken = rc[c].taken
    BY <1>3, <1>9, <2>1, FailingFacts
  <2> QED
    BY <1>2, <1>7, <2>2
<1>11. BalanceOK(r, tb, rcx, kd)
  BY <1>3, <1>10, MarksBalance
<1>12. PICK remx : remx = [i \in 1..Len(rem) |-> [rem[i] EXCEPT !.live = FALSE]]
  OBVIOUS
<1>13. TokensOK(remx, y, g)
  <2>1. TokensOK([i \in 1..Len(rem) |-> [rem[i] EXCEPT !.live = FALSE]],
                 [i \in Slots |-> NoCall], g)
    BY <1>3, TokensAllStale
  <2> QED
    BY <1>2, <1>12, <2>1
<1>14. PICK Q : Q = {"recv"} \cup C
  OBVIOUS
<1>15. EventsOK(Woken(e, WakeEach(e.wait, Q)), sx, dx)
  <2>1. C \in SUBSET Clients /\ \A c \in C : st[c] = "asked"
    BY <1>6
  <2>2. WaitOK(e.wait, st, dx)
    BY <1>4 DEF EventsOK
  <2>3. WaitOK(WakeEach(e.wait, Q), sx, dx)
    BY <1>7, <1>14, <2>1, <2>2, CallersWake
  <2> QED
    BY <1>4, <2>3, EventsWoken
<1>16. /\ pending' = <<>> /\ inflight' = y /\ nextGeneration' = g /\ serving' = FALSE
       /\ doing' = dx /\ deadline' = deadline /\ remembered' = remx /\ table' = tb
       /\ refs' = r /\ killed' = kd /\ ends' \subseteq ends
       /\ ev' = Woken(e, WakeEach(e.wait, Q))
  BY <1>1, <1>2, <1>12, <1>14 DEF CloseServing
<1>17. record' = rcx
  <2>1. record' = [c \in Clients |-> IF FailedByStop(c)
                     THEN [record[c] EXCEPT !.failed = TRUE, !.done = TRUE] ELSE record[c]]
    BY DEF CloseServing
  <2>2. \A c \in Clients : FailedByStop(c) <=> c \in C
    BY <1>2
  <2> QED
    BY <1>1, <1>7, <2>1, <2>2 DEF Failing
<1>18. SimpleTypes'
  BY <1>1, <1>15, <1>16 DEF IInv, SimpleTypes, EventsOK
<1>19. WaitOK(ev'.wait, StageOf(record'), doing')
  BY <1>10, <1>15, <1>16, <1>17 DEF EventsOK
<1>20. ListOK(pending', inflight', StageOf(record'), serving')
  BY <1>8, <1>10, <1>16, <1>17
<1> QED
  BY <1>10, <1>11, <1>13, <1>16, <1>17, <1>18, <1>19, <1>20 DEF IInv

-----------------------------------------------------------------------------
(* The rest of the system, the initial state and the theorems. *)

\* The clock and sched.kill make a thread runnable.
LEMMA UnblockKeeps ==
    ASSUME IInv, NEW t \in Threads, Expire(t) \/ Kill(t)
    PROVE  IInv'
<1>1. PICK st, dn, e : st = StageOf(record) /\ dn = doing /\ e = ev
  OBVIOUS
<1>2. EventsOK(e, st, dn) /\ WaitOK(e.wait, st, dn)
  BY <1>1 DEF IInv, SimpleTypes, EventsOK
<1>3. WaitOK(Unblock(e.wait, t), st, dn)
  BY <1>2, ThreadUnblocks
<1>4. EventsOK(Woken(e, Unblock(e.wait, t)), st, dn)
  BY <1>2, <1>3, EventsWoken
<1>5. EventsOK(ev', StageOf(record), doing')
  <2>1. ev' = Woken(e, Unblock(e.wait, t)) /\ doing' = dn
    BY <1>1 DEF Expire, Kill
  <2> QED
    BY <1>1, <1>4, <2>1
<1>6. CASE Expire(t)
  <2>1. deadline' \in [Threads -> Deadlines]
    BY <1>6 DEF Expire, IInv, SimpleTypes, Deadlines
  <2>2. Quiet /\ UNCHANGED <<ends, killed>>
    BY <1>6 DEF Expire, Quiet
  <2> QED
    BY <1>5, <2>1, <2>2, QuietKeeps
<1>7. CASE Kill(t)
  <2>1. /\ pending' = pending /\ inflight' = inflight /\ nextGeneration' = nextGeneration
        /\ serving' = serving /\ record' = record /\ remembered' = remembered
        /\ table' = table /\ refs' = refs /\ ends' = ends /\ deadline' = deadline
        /\ killed' = killed \cup {t} /\ t \in Killable
    BY <1>7 DEF Kill, channel
  <2>2. BalanceOK(refs', table', record', killed')
    <3>1. PICK r, tb, rc, kd, kx : /\ r = refs /\ tb = table /\ rc = record /\ kd = killed
                                   /\ kx = killed \cup {t}
      OBVIOUS
    <3>2. BalanceOK(r, tb, rc, kd) /\ kd \subseteq kx
      BY <3>1 DEF IInv
    <3>3. BalanceOK(r, tb, rc, kx)
      BY <3>2, MarksBalance
    <3> QED
      BY <2>1, <3>1, <3>3
  <2>3. SimpleTypes'
    BY <1>5, <2>1 DEF IInv, SimpleTypes, EventsOK
  <2>4. WaitOK(ev'.wait, StageOf(record'), doing')
    BY <1>5, <2>1 DEF EventsOK
  <2> QED
    BY <2>1, <2>2, <2>3, <2>4 DEF IInv
<1> QED
  BY <1>6, <1>7

\* A process closes a handle.
LEMMA CloseHandleKeeps ==
    ASSUME IInv, NEW t \in Threads, NEW o \in Objects, CloseHandle(t, o)
    PROVE  IInv'
<1>1. PICK r, tb, rc, kd : r = refs /\ tb = table /\ rc = record /\ kd = killed
  OBVIOUS
<1>2. BalanceOK(r, tb, rc, kd) /\ tb[t][o] > 0
  BY <1>1 DEF IInv, CloseHandle
<1>3. BalanceOK(Dropped(r, {o}), [tb EXCEPT ![t][o] = @ - 1], rc, kd)
  BY <1>2, CloseBalances
<1>4. /\ pending' = pending /\ inflight' = inflight /\ nextGeneration' = nextGeneration
      /\ serving' = serving /\ record' = record /\ remembered' = remembered /\ ev' = ev
      /\ doing' = doing /\ deadline' = deadline /\ ends' = ends /\ killed' = killed
      /\ table' = [tb EXCEPT ![t][o] = @ - 1] /\ refs' = Dropped(r, {o})
  BY <1>1 DEF CloseHandle, channel
<1>5. BalanceOK(refs', table', record', killed')
  BY <1>1, <1>3, <1>4
<1> QED
  BY <1>4, <1>5 DEF IInv, SimpleTypes

\* The invariant holds at first.
LEMMA InitHolds == Init => IInv
<1> SUFFICES ASSUME Init PROVE IInv
  OBVIOUS
<1>1. PICK st, dn, e : st = StageOf(record) /\ dn = doing /\ e = ev
  OBVIOUS
<1>2. st = [c \in Clients |-> "out"] /\ dn = [s \in Servers |-> "idle"]
  BY <1>1, NoRecordFacts DEF Init, StageOf, Stage
<1>3. e = QuietEvents(Threads, Queues)
  BY <1>1 DEF Init
<1>4. WaitOK(e.wait, st, dn)
  <2>1. PICK w : w = NoWaits(Threads, Queues)
    OBVIOUS
  <2>2. w \in WaitRecords(Threads, Queues)
    BY <2>1, NoWaitsType
  <2>3. /\ \A q \in Queues : w.queue[q] = <<>>
        /\ \A t \in Threads : w.state[t] = "ready" /\ w.woken[t] = {}
        /\ DOMAIN w.queue = Queues
    BY <2>1 DEF NoWaits
  <2>4. \A q \in Queues : \A t : ~Queued(w, q, t)
    BY <2>3 DEF Queued
  <2>5. OneNodeEach(w)
    BY <2>3 DEF OneNodeEach, NoTwice
  <2>6. ClientWaits(w, st)
    BY <1>2, <2>3, <2>4, Names DEF ClientWaits, Ready
  <2>7. ServerWaits(w, dn)
    BY <1>2, <2>3, <2>4, Names DEF ServerWaits, Ready, Lists
  <2>8. e.wait = w
    BY <1>3, <2>1 DEF QuietEvents
  <2> QED
    BY <1>2, <2>2, <2>5, <2>6, <2>7, <2>8 DEF WaitOK, Stages, Doings
<1>5. e \in EventRecords(Threads, Queues)
  BY <1>3, NoWaitsType, MaxCountAssumption DEF QuietEvents, EventRecords
<1>6. SimpleTypes
  BY <1>1, <1>5 DEF Init, SimpleTypes, Deadlines
<1>7. \A c \in Clients : ~Taken(inflight, c)
  BY Names DEF Init, Taken, NoCall
<1>8. ListOK(pending, inflight, st, serving)
  <2>1. \A c : ~On(pending, c)
    BY DEF Init, On
  <2>2. pending \in Seq(Clients) /\ NoTwice(pending)
    BY DEF Init, NoTwice
  <2>3. inflight \in [Slots -> TakenType] /\ \A i \in Slots : inflight[i] = NoCall
    BY DEF Init, TakenType
  <2> QED
    BY <1>2, <1>7, <2>1, <2>2, <2>3 DEF ListOK, TakenType
<1>9. RecordOK(record, inflight)
  BY <1>7, NoRecordFacts DEF Init, RecordOK
<1>10. TokensOK(remembered, inflight, nextGeneration)
  BY ChannelAssumption DEF Init, TokensOK
<1>11. BalanceOK(refs, table, record, killed)
  <2>1. /\ table \in [Threads -> [Objects -> 0..TableSize]] /\ refs \in [Objects -> Nat]
        /\ TableSize \in Nat \ {0} /\ Owner \in Threads
    BY ChannelAssumption, Names DEF Init
  <2>2. ASSUME NEW o \in Objects PROVE Holders(table, record, o) = 1 /\ refs[o] = 1
    <3>1. ASSUME NEW h \in Threads \X (1..TableSize)
          PROVE  h[2] <= table[h[1]][o] <=> h = <<Owner, 1>>
      <4>1. PICK t \in Threads, k \in 1..TableSize : h = <<t, k>>
        OBVIOUS
      <4>2. table[t][o] = IF t = Owner THEN 1 ELSE 0
        BY DEF Init
      <4> QED
        BY <2>1, <4>1, <4>2
    <3>2. <<Owner, 1>> \in Threads \X (1..TableSize)
      BY <2>1
    <3>3. Handles(table, o) = {<<Owner, 1>>}
      BY <3>1, <3>2 DEF Handles
    <3>4. Asking(record, o) = {} /\ Answered(record, o) = {} /\ Sending(record, o) = {}
      BY NoRecordFacts DEF Init, Asking, Answered, Sending
    <3>5. Cardinality({}) = 0 /\ Cardinality({<<Owner, 1>>}) = 1
      BY FS_EmptySet, FS_Singleton
    <3>6. Holders(table, record, o) = 1 + 0 + 0 + 0
      BY <3>3, <3>4, <3>5 DEF Holders
    <3>7. refs[o] = 1
      BY DEF Init
    <3> QED
      BY <3>6, <3>7
  <2> QED
    BY <2>1, <2>2 DEF BalanceOK
<1> QED
  BY <1>1, <1>4, <1>6, <1>8, <1>9, <1>10, <1>11 DEF IInv

\* Every step keeps the invariant.
LEMMA NextKeeps == IInv /\ [Next]_vars => IInv'
<1> SUFFICES ASSUME IInv, [Next]_vars PROVE IInv'
  OBVIOUS
<1>1. ASSUME NEW c \in Clients, ClientStep(c) PROVE IInv'
  BY <1>1, CallKeeps, CallAgainKeeps DEF ClientStep
<1>2. ASSUME NEW s \in Servers, ServerStep(s) PROVE IInv'
  <2>1. ASSUME NEW d \in Deadlines, Recv(s, d) \/ WaitReady(s, d) PROVE IInv'
    BY <2>1, ServerWaitKeeps
  <2>2. CASE ServerAgain(s)
    <3>1. "none" \in Deadlines
      BY DEF Deadlines
    <3> QED
      BY <2>2, <3>1, ServerWaitKeeps
  <2>3. ASSUME NEW token \in Tokens, NEW S \in SUBSET Objects, Reply(s, token, S) PROVE IInv'
    BY <2>3, ReplyKeeps
  <2>4. CASE CloseServing(s)
    BY <2>4, CloseServingKeeps
  <2> QED
    BY <1>2, <2>1, <2>2, <2>3, <2>4 DEF ServerStep
<1>3. ASSUME NEW t \in Threads, Expire(t) \/ Kill(t) PROVE IInv'
  BY <1>3, UnblockKeeps
<1>4. ASSUME NEW t \in Threads, NEW o \in Objects, CloseHandle(t, o) PROVE IInv'
  BY <1>4, CloseHandleKeeps
<1>5. CASE UNCHANGED vars
  BY <1>5 DEF vars, channel, IInv, SimpleTypes
<1> QED
  BY <1>1, <1>2, <1>3, <1>4, <1>5 DEF Next

\* The history keeps its type.
MissedType == missed \in BOOLEAN

LEMMA MissedKeeps == MissedType /\ [Next]_vars => MissedType'
<1> SUFFICES ASSUME missed \in BOOLEAN, [Next]_vars PROVE missed' \in BOOLEAN
  BY DEF MissedType
<1>1. ASSUME NEW c \in Clients, ClientStep(c) PROVE missed' \in BOOLEAN
  BY <1>1 DEF ClientStep, Call, CallAgain, GiveUp, Fail, TakeAnswer, Misses
<1>2. ASSUME NEW s \in Servers, ServerStep(s) PROVE missed' \in BOOLEAN
  BY <1>2 DEF ServerStep, Recv, WaitReady, ServerAgain, RecvLoop, TakeCall, ReadyLoop, Reply,
              CloseServing, Misses
<1>3. ASSUME NEW t \in Threads, Expire(t) \/ Kill(t) \/ \E o \in Objects : CloseHandle(t, o)
      PROVE  missed' \in BOOLEAN
  BY <1>3 DEF Expire, Kill, CloseHandle
<1>4. CASE UNCHANGED vars
  BY <1>4 DEF vars
<1> QED
  BY <1>1, <1>2, <1>3, <1>4 DEF Next

\* The entries of a list that are c.
LEMMA OnceOnAList ==
    ASSUME NEW p \in Seq(Clients), NoTwice(p), NEW c
    PROVE  Cardinality({i \in 1..Len(p) : p[i] = c}) = IF On(p, c) THEN 1 ELSE 0
<1>1. CASE On(p, c)
  <2>1. PICK i \in 1..Len(p) : p[i] = c
    BY <1>1 DEF On
  <2>2. {j \in 1..Len(p) : p[j] = c} = {i}
    BY <2>1 DEF NoTwice
  <2>3. Cardinality({i}) = 1
    BY FS_Singleton
  <2> QED
    BY <1>1, <2>2, <2>3
<1>2. CASE ~On(p, c)
  <2>1. {i \in 1..Len(p) : p[i] = c} = {}
    BY <1>2 DEF On
  <2>2. Cardinality({}) = 0
    BY FS_EmptySet
  <2> QED
    BY <1>2, <2>1, <2>2
<1> QED
  BY <1>1, <1>2

\* The slots that hold c's call.
LEMMA OnceInASlot ==
    ASSUME NEW p, NEW inf, NEW st, NEW sv, ListOK(p, inf, st, sv), NEW c \in Clients
    PROVE  Cardinality({s \in Slots : inf[s].call = c}) = IF Taken(inf, c) THEN 1 ELSE 0
<1>1. CASE Taken(inf, c)
  <2>1. PICK s \in Slots : inf[s].call = c
    BY <1>1 DEF Taken
  <2>2. inf[s] # NoCall
    BY <2>1, Names DEF NoCall
  <2>3. \A j \in Slots : inf[j].call = c => j = s
    BY <2>1, <2>2 DEF ListOK
  <2>4. {j \in Slots : inf[j].call = c} = {s}
    BY <2>1, <2>3
  <2>5. Cardinality({s}) = 1
    BY FS_Singleton
  <2> QED
    BY <1>1, <2>4, <2>5
<1>2. CASE ~Taken(inf, c)
  <2>1. {s \in Slots : inf[s].call = c} = {}
    BY <1>2 DEF Taken
  <2>2. Cardinality({}) = 0
    BY FS_EmptySet
  <2> QED
    BY <1>2, <2>1, <2>2
<1> QED
  BY <1>1, <1>2

\* The invariant says what the lists, the frames and the tokens have to.
LEMMA ListsFollow == IInv /\ MissedType => ListsMatchCallers
<1> SUFFICES ASSUME IInv, missed \in BOOLEAN PROVE ListsMatchCallers
  BY DEF MissedType
<1>1. PICK p, inf, st, rc, w : /\ p = pending /\ inf = inflight /\ st = StageOf(rc)
                               /\ rc = record /\ w = ev.wait
  OBVIOUS
<1>2. /\ ListOK(p, inf, st, serving) /\ RecordOK(rc, inf) /\ WaitOK(w, st, doing)
      /\ TokensOK(remembered, inf, nextGeneration)
      /\ rc \in [Clients -> CallRecords]
  BY <1>1 DEF IInv, RecordOK
<1>3. \A c \in Clients : st[c] = Stage(rc[c])
  BY <1>1, <1>2, StagesFollow
<1>4. TypeOK
  <2>1. /\ pending \in Seq(Clients)
        /\ inflight \in [Slots -> [call : Clients, generation : 1..MaxGeneration] \cup {NoCall}]
        /\ record \in [Clients -> CallRecords]
    BY <1>1, <1>2 DEF ListOK
  <2>2. /\ nextGeneration \in 1..MaxGeneration
        /\ remembered \in Seq([slot : Slots, generation : 1..MaxGeneration,
                               client : Clients, live : BOOLEAN])
    BY <1>2 DEF TokensOK, TokenType
  <2>3. table \in [Threads -> [Objects -> 0..TableSize]] /\ refs \in [Objects -> Nat]
    BY DEF IInv, BalanceOK
  <2>4. doing \in [Servers -> Doings]
    BY DEF IInv, WaitOK
  <2> QED
    BY <2>1, <2>2, <2>3, <2>4 DEF TypeOK, IInv, SimpleTypes
<1>5. NoDanglingCall
  <2> SUFFICES ASSUME NEW c \in Outstanding PROVE record[c].live /\ ~record[c].done
    BY DEF NoDanglingCall
  <2>1. c \in Clients /\ (On(p, c) \/ Taken(inf, c))
    BY <1>1 DEF Outstanding, On, Taken
  <2>2. st[c] = "asked"
    BY <1>2, <2>1 DEF ListOK
  <2> QED
    BY <1>1, <1>3, <2>1, <2>2 DEF Stage
<1>6. SleepingCallerIsReachable
  <2> SUFFICES ASSUME NEW c \in Clients, record[c].live, ~Ready(ev.wait, c)
               PROVE  /\ serving
                      /\ Cardinality({i \in 1..Len(pending) : pending[i] = c})
                           + Cardinality({s \in Slots : inflight[s].call = c}) = 1
    BY DEF SleepingCallerIsReachable
  <2>1. st[c] = "asked"
    <3>1. st[c] # "answered"
      BY <1>1, <1>2 DEF WaitOK, ClientWaits
    <3> QED
      BY <1>1, <1>3, <3>1 DEF Stage
  <2>2. serving /\ (On(p, c) \/ Taken(inf, c)) /\ ~(On(p, c) /\ Taken(inf, c))
    BY <1>2, <2>1 DEF ListOK
  <2>3. Cardinality({i \in 1..Len(p) : p[i] = c}) = IF On(p, c) THEN 1 ELSE 0
    BY <1>2, OnceOnAList DEF ListOK
  <2>4. Cardinality({s \in Slots : inf[s].call = c}) = IF Taken(inf, c) THEN 1 ELSE 0
    BY <1>2, OnceInASlot
  <2>5. Cardinality({i \in 1..Len(p) : p[i] = c})
          + Cardinality({s \in Slots : inf[s].call = c}) = 1
    BY <2>2, <2>3, <2>4
  <2> QED
    BY <1>1, <2>2, <2>5
<1>7. TokenNamesItsCall
  BY <1>1, <1>2 DEF TokensOK, TokenNamesItsCall
<1> QED
  BY <1>4, <1>5, <1>6, <1>7 DEF ListsMatchCallers

\* The invariant says what references have to.
LEMMA ReferencesFollow == IInv => ReferencesBalance
<1> SUFFICES ASSUME IInv, killed \cap Clients = {}, NEW o \in Objects
             PROVE  refs[o] = Cardinality(HandlesTo(o))
                                + Cardinality({c \in Clients : o \in record[c].request})
                                + Cardinality({c \in Clients : o \in record[c].reply})
                                + Cardinality({c \in Clients : o \in record[c].taken})
  BY DEF ReferencesBalance
<1>1. refs[o] = Holders(table, record, o)
  BY DEF IInv, BalanceOK
<1> QED
  BY <1>1 DEF Holders, Handles, HandlesTo, Asking, Answered, Sending

\* The lists of a channel, the frames of its callers and the tokens of its
\* servers name each other, for any number of clients, servers and slots:
\* channel.zig never reaches a frame that has gone, never leaves a caller asleep
\* that nothing names, and never answers a call through another call's token.
THEOREM ListsMatchCallersHolds == Spec => []ListsMatchCallers
<1>1. Init => MissedType
  BY DEF Init, MissedType
<1> QED
  BY <1>1, InitHolds, NextKeeps, MissedKeeps, ListsFollow, PTL DEF Spec

\* Every reference an object counts has one holder, whichever way calls end and
\* in whatever order, as long as no caller has been killed (sys_call, sys_recv,
\* sys_reply and close of ipc.zig).
THEOREM ReferencesBalanceHolds == Spec => []ReferencesBalance
BY InitHolds, NextKeeps, ReferencesFollow, PTL DEF Spec

-----------------------------------------------------------------------------
(* That a call is heard: who waits and who has been woken. *)

\* There are only so many servers to wake.
LEMMA WokenAreFinite ==
    ASSUME NEW w, NEW q
    PROVE  IsFiniteSet(WokenBy(w, q)) /\ Cardinality(WokenBy(w, q)) \in Nat
<1>1. IsFiniteSet(Threads) /\ WokenBy(w, q) \in SUBSET Threads
  BY ChannelAssumption DEF WokenBy, Threads
<1> QED
  BY <1>1, FS_Subset, FS_CardinalityType

\* No server has come to a list, and none that was woken has gone.
MoreAwake(w, x) ==
    \A q \in Lists : QueuedOn(x, q) \subseteq QueuedOn(w, q) /\ WokenBy(w, q) \subseteq WokenBy(x, q)

\* Waking harms nobody.
LEMMA AwakeIsHeard ==
    ASSUME NEW w, NEW x, MoreAwake(w, x), NEW n, NEW k \in Nat, NEW j \in 0..k
    PROVE  /\ ReadyHeard(w, n) => ReadyHeard(x, n)
           /\ RecvHeard(w, k) => RecvHeard(x, j)
<1>1. /\ QueuedOn(x, "ready") \subseteq QueuedOn(w, "ready")
      /\ WokenBy(w, "ready") \subseteq WokenBy(x, "ready")
      /\ QueuedOn(x, "recv") \subseteq QueuedOn(w, "recv")
      /\ WokenBy(w, "recv") \subseteq WokenBy(x, "recv")
  BY DEF MoreAwake, Lists
<1>2. ReadyHeard(w, n) => ReadyHeard(x, n)
  BY <1>1 DEF ReadyHeard
<1>3. PICK a, b \in Nat : a = Cardinality(WokenBy(w, "recv")) /\ b = Cardinality(WokenBy(x, "recv"))
  BY WokenAreFinite
<1>4. a <= b
  BY <1>1, <1>3, WokenAreFinite, FS_Subset
<1>5. RecvHeard(w, k) => RecvHeard(x, j)
  <2> SUFFICES ASSUME RecvHeard(w, k), QueuedOn(x, "recv") # {} PROVE j <= b
    BY <1>3 DEF RecvHeard
  <2>1. k <= a
    BY <1>1, <1>3 DEF RecvHeard
  <2> QED
    BY <1>4, <2>1
<1> QED
  BY <1>2, <1>5

\* Waking twice is waking.
LEMMA AwakeTwice ==
    ASSUME NEW w, NEW x, NEW y, MoreAwake(w, x), MoreAwake(x, y)
    PROVE  MoreAwake(w, y)
BY DEF MoreAwake

\* wakeOne wakes a server that was queued, if there is one.
LEMMA WakeIsHeard ==
    ASSUME NEW w, NEW st, NEW dn, WaitOK(w, st, dn), NEW q \in Lists
    PROVE  /\ MoreAwake(w, WakeOne(w, q))
           /\ QueuedOn(w, q) # {} =>
                 \E t \in Servers : /\ t \notin WokenBy(w, q)
                                    /\ WokenBy(WakeOne(w, q), q) = WokenBy(w, q) \cup {t}
<1>1. w \in WaitRecords(Threads, Queues) /\ OneNodeEach(w) /\ q \in Queues
  BY Names DEF WaitOK
<1>2. PICK x : x = WakeOne(w, q)
  OBVIOUS
<1>3. \/ (\A t : ~Queued(w, q, t)) /\ x = w
      \/ \E t \in Threads : Woke(w, x, Queues, q, t)
  BY <1>1, <1>2, WakeOneMembers
<1>4. CASE (\A t : ~Queued(w, q, t)) /\ x = w
  BY <1>2, <1>4 DEF MoreAwake, QueuedOn
<1>5. ASSUME NEW t \in Threads, Woke(w, x, Queues, q, t)
      PROVE  /\ MoreAwake(w, x)
             /\ t \in Servers /\ t \notin WokenBy(w, q)
             /\ WokenBy(x, q) = WokenBy(w, q) \cup {t}
  <2>1. w.state \in [Threads -> RunStates] /\ w.woken \in [Threads -> SUBSET Queues]
    BY <1>1, WaitTypes
  <2>2. /\ Queued(w, q, t)
        /\ \A p \in Queues : \A u : Queued(x, p, u) => Queued(w, p, u)
        /\ x.woken[t] = w.woken[t] \cup {q}
        /\ \A u \in Threads : u # t => x.woken[u] = w.woken[u]
    BY <1>5, <2>1 DEF Woke
  <2>3. t \in Servers
    <3>1. ASSUME t \in Clients PROVE FALSE
      <4>1. Queued(w, q, t) => q = t
        BY <1>1, <3>1 DEF WaitOK, ClientWaits
      <4> QED
        BY <2>2, <3>1, <4>1, Names
    <3> QED
      BY <3>1 DEF Threads
  <2>4. q \notin w.woken[t]
    BY <1>1, <2>2, <2>3 DEF WaitOK, ServerWaits
  <2>5. \A p \in Lists : WokenBy(w, p) \subseteq WokenBy(x, p)
    BY <2>2, Names DEF WokenBy
  <2>6. \A p \in Lists : QueuedOn(x, p) \subseteq QueuedOn(w, p)
    BY <2>2, Names DEF QueuedOn
  <2>7. WokenBy(x, q) = WokenBy(w, q) \cup {t}
    BY <2>2, <2>3, Names DEF WokenBy
  <2> QED
    BY <2>3, <2>4, <2>5, <2>6, <2>7 DEF MoreAwake, WokenBy
<1> QED
  BY <1>2, <1>3, <1>4, <1>5

\* The servers on a list, and those it has woken, are the ones they were.
AsBefore(w, x, q) == QueuedOn(x, q) = QueuedOn(w, q) /\ WokenBy(x, q) = WokenBy(w, q)

\* A server that goes to sleep on one list leaves the other as it was.
LEMMA BlockedElsewhere ==
    ASSUME NEW w, NEW st, NEW dn, WaitOK(w, st, dn), NEW s \in Servers,
           dn[s] \in {"idle", "due"}, NEW q \in Lists, NEW m \in Lists, m # q, NEW d \in BOOLEAN
    PROVE  AsBefore(w, Block(w, s, {q}, d), m)
<1>1. PICK x : x = Block(w, s, {q}, d)
  OBVIOUS
<1>2. w \in WaitRecords(Threads, Queues) /\ OneNodeEach(w) /\ s \in Threads
  BY Names DEF WaitOK
<1>3. (\A p \in Queues : ~Queued(w, p, s)) /\ w.woken[s] = {}
  BY DEF WaitOK, ServerWaits, Lists
<1>4. \A p \in Queues : \A u : Queued(x, p, u) <=> Queued(w, p, u) \/ (p \in {q} /\ u = s)
  BY <1>1, <1>2, <1>3, BlockMembers
<1>5. x.woken = [w.woken EXCEPT ![s] = {}] /\ w.woken \in [Threads -> SUBSET Queues]
  BY <1>1, <1>2, WaitTypes DEF Block
<1>6. x.woken = w.woken
  BY <1>2, <1>3, <1>5
<1>7. m \in Queues /\ m \notin {q}
  BY Names
<1> QED
  BY <1>1, <1>4, <1>6, <1>7 DEF AsBefore, QueuedOn, WokenBy

\* One more server is woken in recv for one more call.
LEMMA RecvIsTold ==
    ASSUME NEW w, NEW st, NEW dn, WaitOK(w, st, dn), NEW k \in Nat, RecvHeard(w, k)
    PROVE  RecvHeard(WakeOne(w, "recv"), k + 1)
<1>1. PICK x : x = WakeOne(w, "recv")
  OBVIOUS
<1>2. /\ MoreAwake(w, x)
      /\ QueuedOn(w, "recv") # {} =>
            \E t \in Servers : t \notin WokenBy(w, "recv")
                                /\ WokenBy(x, "recv") = WokenBy(w, "recv") \cup {t}
  BY <1>1, WakeIsHeard DEF Lists
<1> SUFFICES ASSUME QueuedOn(x, "recv") # {} PROVE k + 1 <= Cardinality(WokenBy(x, "recv"))
  BY <1>1 DEF RecvHeard
<1>3. QueuedOn(w, "recv") # {}
  BY <1>2 DEF MoreAwake, Lists
<1>4. PICK t \in Servers : t \notin WokenBy(w, "recv")
                             /\ WokenBy(x, "recv") = WokenBy(w, "recv") \cup {t}
  BY <1>2, <1>3
<1>5. PICK a \in Nat : a = Cardinality(WokenBy(w, "recv"))
  BY WokenAreFinite
<1>6. Cardinality(WokenBy(x, "recv")) = a + 1
  BY <1>4, <1>5, WokenAreFinite, FS_AddElement
<1>7. k <= a
  BY <1>3, <1>5 DEF RecvHeard
<1> QED
  BY <1>5, <1>6, <1>7

\* refreshReady leaves the event up exactly while there are calls, and tells a
\* server that waits for it.
LEMMA RefreshIsHeard ==
    ASSUME NEW e, NEW st, NEW dn, EventsOK(e, st, dn), ReadyHeard(e.wait, Up(e)), NEW p
    PROVE  /\ MoreAwake(e.wait, RefreshReady(e, p).wait)
           /\ ReadyHeard(RefreshReady(e, p).wait, Up(RefreshReady(e, p)))
           /\ p = <<>> <=> Up(RefreshReady(e, p)) = 0
<1>1. /\ e.count \in [Queues -> 0..MaxCount] /\ "ready" \in Queues /\ "ready" \in Lists
      /\ WaitOK(e.wait, st, dn) /\ MaxCount \in Nat \ {0} /\ Up(e) \in 0..1
  BY Names, MaxCountAssumption DEF EventsOK, EventRecords, Lists, ReadyHeard
<1>2. PICK x : x = RefreshReady(e, p)
  OBVIOUS
<1>3. CASE p = <<>>
  <2>1. x.wait = e.wait /\ Up(x) = 0
    BY <1>1, <1>2, <1>3 DEF RefreshReady, Up
  <2> QED
    BY <1>2, <1>3, <2>1 DEF MoreAwake, ReadyHeard
<1>4. CASE p # <<>> /\ Up(e) = 0
  <2>1. x.wait = WakeOne(e.wait, "ready") /\ Up(x) = 1
    BY <1>1, <1>2, <1>4 DEF RefreshReady, SignalLocked, Up
  <2>2. /\ MoreAwake(e.wait, x.wait)
        /\ QueuedOn(e.wait, "ready") # {} =>
              \E t \in Servers : t \notin WokenBy(e.wait, "ready")
                                  /\ WokenBy(x.wait, "ready") = WokenBy(e.wait, "ready") \cup {t}
    BY <1>1, <2>1, WakeIsHeard
  <2>3. QueuedOn(x.wait, "ready") # {} => WokenBy(x.wait, "ready") # {}
    BY <1>1, <2>2 DEF MoreAwake
  <2> QED
    BY <1>2, <1>4, <2>1, <2>2, <2>3 DEF ReadyHeard
<1>5. CASE p # <<>> /\ Up(e) # 0
  <2>1. x = e
    BY <1>2, <1>5 DEF RefreshReady, Up
  <2> QED
    BY <1>2, <1>5, <2>1 DEF MoreAwake
<1> QED
  BY <1>3, <1>4, <1>5

\* A call is announced: the event is up and one more server of those in recv awake.
LEMMA AnnounceIsHeard ==
    ASSUME NEW e, NEW st, NEW dn, EventsOK(e, st, dn), ReadyHeard(e.wait, Up(e)), NEW p
    PROVE  /\ EventsOK(Announce(e, p), st, dn)
           /\ ReadyHeard(Announce(e, p).wait, Up(Announce(e, p)))
           /\ p = <<>> <=> Up(Announce(e, p)) = 0
           /\ \A k \in Nat : RecvHeard(e.wait, k) => RecvHeard(Announce(e, p).wait, k + 1)
<1>1. PICK x : x = RefreshReady(e, p)
  OBVIOUS
<1>2. /\ EventsOK(x, st, dn) /\ MoreAwake(e.wait, x.wait) /\ ReadyHeard(x.wait, Up(x))
      /\ p = <<>> <=> Up(x) = 0
  BY <1>1, EventsRefresh, RefreshIsHeard
<1>3. PICK y : y = Awake(x, "recv")
  OBVIOUS
<1>4. y = Announce(e, p)
  BY <1>1, <1>3 DEF Announce
<1>5. EventsOK(y, st, dn)
  BY <1>2, <1>3, EventsAwake DEF Lists
<1>6. y.wait = WakeOne(x.wait, "recv") /\ Up(y) = Up(x)
  BY <1>3 DEF Awake, Woken, Up
<1>7. WaitOK(x.wait, st, dn)
  BY <1>2 DEF EventsOK
<1>8. ASSUME NEW k \in Nat, RecvHeard(e.wait, k) PROVE RecvHeard(x.wait, k)
  <2>1. k \in 0..k
    OBVIOUS
  <2> QED
    BY <1>2, <1>8, <2>1, AwakeIsHeard
<1>9. ASSUME NEW k \in Nat, RecvHeard(e.wait, k) PROVE RecvHeard(y.wait, k + 1)
  BY <1>6, <1>7, <1>8, <1>9, RecvIsTold
<1>10. MoreAwake(x.wait, y.wait)
  BY <1>6, <1>7, WakeIsHeard DEF Lists
<1>11. ReadyHeard(y.wait, Up(x))
  <2>1. 0 \in Nat /\ 0 \in 0..0
    OBVIOUS
  <2> QED
    BY <1>2, <1>10, <2>1, AwakeIsHeard
<1> QED
  BY <1>2, <1>4, <1>5, <1>6, <1>9, <1>11

\* A list without an entry is no longer than it was.
LEMMA WithoutIsShorter ==
    ASSUME NEW S, NEW s \in Seq(S), NEW t
    PROVE  Len(Without(s, t)) \in 0..Len(s)
<1>1. Len(s) \in Nat /\ \A i \in 1..Len(s) : s[i] \in S
  BY LenProperties, ElementOfSeq
<1>2. CASE ~ \E i \in 1..Len(s) : s[i] = t
  BY <1>1, <1>2 DEF Without
<1>3. CASE \E i \in 1..Len(s) : s[i] = t
  <2>1. PICK a : a = CHOOSE i \in 1..Len(s) : s[i] = t
    OBVIOUS
  <2>2. a \in 1..Len(s)
    BY <1>3, <2>1
  <2>3. Without(s, t) = SubSeq(s, 1, a - 1) \o SubSeq(s, a + 1, Len(s))
    BY <1>3, <2>1 DEF Without
  <2>4. /\ SubSeq(s, 1, a - 1) \in Seq(S)
        /\ Len(SubSeq(s, 1, a - 1)) = IF 1 <= a - 1 THEN (a - 1) - 1 + 1 ELSE 0
    <3>1. 1 \in Int /\ a - 1 \in Int /\ \A i \in 1..(a - 1) : s[i] \in S
      BY <1>1, <2>2
    <3> QED
      BY <3>1, SubSeqProperties
  <2>5. /\ SubSeq(s, a + 1, Len(s)) \in Seq(S)
        /\ Len(SubSeq(s, a + 1, Len(s))) = IF a + 1 <= Len(s) THEN Len(s) - (a + 1) + 1 ELSE 0
    <3>1. a + 1 \in Int /\ Len(s) \in Int /\ \A i \in (a + 1)..Len(s) : s[i] \in S
      BY <1>1, <2>2
    <3> QED
      BY <3>1, SubSeqProperties
  <2>6. Len(Without(s, t)) = Len(SubSeq(s, 1, a - 1)) + Len(SubSeq(s, a + 1, Len(s)))
    BY <2>3, <2>4, <2>5, ConcatProperties
  <2>7. Len(SubSeq(s, 1, a - 1)) = a - 1 /\ Len(SubSeq(s, a + 1, Len(s))) = Len(s) - a
    BY <1>1, <2>2, <2>4, <2>5
  <2>8. Len(Without(s, t)) = (a - 1) + (Len(s) - a)
    BY <2>6, <2>7
  <2>9. PICK n \in Nat : n = Len(s)
    BY <1>1
  <2>10. a \in 1..n
    BY <2>2, <2>9
  <2>11. (a - 1) + (n - a) \in 0..n
    BY <2>10
  <2> QED
    BY <2>8, <2>9, <2>11
<1> QED
  BY <1>2, <1>3

-----------------------------------------------------------------------------
(* That a call is heard: the slots and the event's count. *)

\* There are only so many slots.
LEMMA RoomIsFinite ==
    ASSUME NEW inf
    PROVE  IsFiniteSet(Free(inf)) /\ Room(inf) \in Nat
<1>1. MaxInflight \in Nat
  BY ChannelAssumption
<1>2. IsFiniteSet(Slots)
  BY <1>1, FS_Interval DEF Slots
<1>3. Free(inf) \in SUBSET Slots
  BY DEF Free
<1> QED
  BY <1>2, <1>3, FS_Subset, FS_CardinalityType DEF Room

\* A slot is taken, or comes free.
LEMMA RoomChanges ==
    ASSUME NEW inf, NEW inx, NEW s \in Slots,
           \A u \in Slots : u # s => inx[u] = inf[u]
    PROVE  /\ inf[s] = NoCall /\ inx[s] # NoCall => Room(inx) = Room(inf) - 1 /\ Room(inf) # 0
           /\ inf[s] # NoCall /\ inx[s] = NoCall => Room(inx) = Room(inf) + 1
<1>1. IsFiniteSet(Free(inf)) /\ Room(inf) \in Nat /\ IsFiniteSet(Free(inx)) /\ Room(inx) \in Nat
  BY RoomIsFinite
<1>2. ASSUME inf[s] = NoCall, inx[s] # NoCall PROVE Room(inx) = Room(inf) - 1 /\ Room(inf) # 0
  <2>1. s \in Free(inf) /\ Free(inx) = Free(inf) \ {s}
    BY <1>2 DEF Free
  <2>2. Cardinality(Free(inf) \ {s}) = Cardinality(Free(inf)) - 1
    BY <1>1, <2>1, FS_RemoveElement
  <2> QED
    BY <1>1, <2>1, <2>2 DEF Room
<1>3. ASSUME inf[s] # NoCall, inx[s] = NoCall PROVE Room(inx) = Room(inf) + 1
  <2>1. s \notin Free(inf) /\ Free(inx) = Free(inf) \cup {s}
    BY <1>3 DEF Free
  <2>2. Cardinality(Free(inf) \cup {s}) = Cardinality(Free(inf)) + 1
    BY <1>1, <2>1, FS_AddElement
  <2> QED
    BY <2>1, <2>2 DEF Room
<1> QED
  BY <1>2, <1>3

\* The free slots are none exactly when there is no room.
LEMMA NoRoom == FreeSlots = {} <=> Room(inflight) = 0
<1>1. FreeSlots = Free(inflight)
  BY DEF FreeSlots, Free
<1>2. PICK F : F = Free(inflight)
  OBVIOUS
<1>3. PICK inf : inf = inflight
  OBVIOUS
<1>4. IsFiniteSet(F)
  BY <1>2, <1>3, RoomIsFinite
<1>5. F = {} <=> Cardinality(F) = 0
  BY <1>4, FS_EmptySet
<1> QED
  BY <1>1, <1>2, <1>5 DEF Room

\* refreshReady counts the event to one or down to none.
LEMMA RefreshCounts ==
    ASSUME NEW e, NEW st, NEW dn, EventsOK(e, st, dn), Up(e) \in 0..1, NEW p
    PROVE  /\ Up(RefreshReady(e, p)) \in 0..1
           /\ p = <<>> <=> Up(RefreshReady(e, p)) = 0
           /\ EventsOK(RefreshReady(e, p), st, dn)
<1>1. /\ e.count \in [Queues -> 0..MaxCount] /\ "ready" \in Queues /\ MaxCount \in Nat \ {0}
  BY Names, MaxCountAssumption DEF EventsOK, EventRecords
<1>2. PICK x : x = RefreshReady(e, p)
  OBVIOUS
<1>3. CASE p = <<>>
  <2>1. Up(x) = 0
    BY <1>1, <1>2, <1>3 DEF RefreshReady, Up
  <2> QED
    BY <1>2, <1>3, <2>1, EventsRefresh
<1>4. CASE p # <<>> /\ Up(e) = 0
  <2>1. Up(x) = 1
    BY <1>1, <1>2, <1>4 DEF RefreshReady, SignalLocked, Up
  <2> QED
    BY <1>2, <1>4, <2>1, EventsRefresh
<1>5. CASE p # <<>> /\ Up(e) # 0
  <2>1. x = e
    BY <1>2, <1>5 DEF RefreshReady, Up
  <2> QED
    BY <1>2, <1>5, <2>1
<1> QED
  BY <1>3, <1>4, <1>5

\* sys_call and its return.
LEMMA ClientCounts ==
    ASSUME IInv, Plain, NEW c \in Clients, ClientStep(c)
    PROVE  Plain'
<1>1. PICK p, e, st, dn, sx : /\ p = pending /\ e = ev /\ st = StageOf(record) /\ dn = doing
                              /\ sx = [st EXCEPT ![c] = "out"]
  OBVIOUS
<1>2. EventsOK(e, st, dn) /\ WaitOK(e.wait, st, dn) /\ p \in Seq(Clients)
      /\ Up(e) \in 0..1 /\ (p = <<>> => Up(e) = 0)
  BY <1>1 DEF IInv, SimpleTypes, EventsOK, ListOK, Plain
<1>3. ASSUME NEW S, NEW d, Call(c, S, d) PROVE Plain'
  <2>1. missed' => pending' # <<>>
    BY <1>3 DEF Call, Misses
  <2>2. PICK px, x : px = Append(p, c) /\ x = Announce(e, px)
    OBVIOUS
  <2>3. px # <<>>
    BY <1>2, <2>2, AppendProperties
  <2>4. Up(x) \in 0..1 /\ EventsOK(x, st, dn)
    <3>1. PICK y : y = RefreshReady(e, px)
      OBVIOUS
    <3>2. Up(y) \in 0..1 /\ EventsOK(y, st, dn)
      BY <1>2, <3>1, RefreshCounts
    <3>3. x = Awake(y, "recv") /\ Up(Awake(y, "recv")) = Up(y)
      BY <2>2, <3>1 DEF Announce, Awake, Woken, Up
    <3>4. EventsOK(Awake(y, "recv"), st, dn)
      BY <3>2, EventsAwake DEF Lists
    <3> QED
      BY <3>2, <3>3, <3>4
  <2>5. CASE pending' = Append(pending, c) /\ ev' = BlockOn(Announce(ev, pending'), c, {c}, d = "ahead")
    <3>1. pending' = px /\ Up(ev') = Up(x)
      BY <1>1, <2>2, <2>5 DEF BlockOn, Up
    <3> QED
      BY <2>1, <2>3, <2>4, <3>1 DEF Plain
  <2>6. CASE pending' = pending /\ ev' = RefreshReady(Announce(ev, Append(pending, c)), pending)
    <3>1. pending' = p /\ ev' = RefreshReady(x, p)
      BY <1>1, <2>2, <2>6
    <3>2. Up(RefreshReady(x, p)) \in 0..1 /\ (p = <<>> <=> Up(RefreshReady(x, p)) = 0)
      BY <2>4, RefreshCounts
    <3> QED
      BY <2>1, <3>1, <3>2 DEF Plain
  <2>7. CASE pending' = pending /\ ev' = ev
    BY <1>1, <1>2, <2>1, <2>7 DEF Plain
  <2> QED
    BY <1>3, <2>5, <2>6, <2>7 DEF Call
<1>4. ASSUME CallAgain(c) PROVE Plain'
  <2>1. PICK x : x = Left(c)
    OBVIOUS
  <2>2. x = Woken(e, Leave(e.wait, c)) /\ Up(x) = Up(e)
    BY <1>1, <2>1 DEF Left, Woken, Up
  <2>3. EventsOK(x, sx, dn)
    <3>1. WaitOK(Leave(e.wait, c), [st EXCEPT ![c] = "out"], dn)
      BY <1>2, ClientLeaves
    <3> QED
      BY <1>1, <1>2, <2>2, <3>1, EventsWoken
  <2>4. missed' => pending' # <<>>
    BY <1>4 DEF CallAgain, GiveUp, Fail, TakeAnswer, Misses, Plain
  <2>5. CASE pending' = pending /\ ev' = Left(c)
    BY <1>1, <1>2, <2>1, <2>2, <2>4, <2>5 DEF Plain
  <2>6. CASE ev' = RefreshReady(Left(c), pending')
    <3>1. PICK px : px = pending'
      OBVIOUS
    <3>2. Up(RefreshReady(x, px)) \in 0..1 /\ (px = <<>> <=> Up(RefreshReady(x, px)) = 0)
      BY <1>2, <2>2, <2>3, RefreshCounts
    <3> QED
      BY <2>1, <2>4, <2>6, <3>1, <3>2 DEF Plain
  <2> QED
    BY <1>4, <2>5, <2>6 DEF CallAgain, GiveUp, Fail, TakeAnswer
<1> QED
  BY <1>3, <1>4 DEF ClientStep

\* The loops of recv and waitMany.
LEMMA LoopCounts ==
    ASSUME IInv, Plain, NEW s \in Servers, NEW e, NEW d, AtWorkWith(s, e), Up(e) = Up(ev),
           RecvLoop(s, e, d) \/ ReadyLoop(s, e, d)
    PROVE  Plain'
<1>1. PICK st, dn : st = StageOf(record) /\ dn = [doing EXCEPT ![s] = "idle"]
  OBVIOUS
<1>2. EventsOK(e, st, dn) /\ Up(e) \in 0..1 /\ (pending = <<>> => Up(e) = 0)
  BY <1>1 DEF AtWorkWith, Plain
<1>3. ASSUME NEW q, ServerSleeps(s, e, q, d), pending' = pending, missed' => pending' # <<>>
      PROVE  Plain'
  <2>1. Up(ev') = Up(e)
    BY <1>3 DEF ServerSleeps, BlockOn, Up
  <2> QED
    BY <1>2, <1>3, <2>1 DEF Plain
<1>4. CASE FreeSlots # {} /\ pending # <<>> /\ TakeCall(s, e)
  <2>1. PICK px : px = Tail(pending)
    OBVIOUS
  <2>2. pending' = px /\ ev' = RefreshReady(e, px) /\ (missed' => pending' # <<>>)
    BY <1>4, <2>1 DEF TakeCall, Misses
  <2>3. Up(RefreshReady(e, px)) \in 0..1 /\ (px = <<>> <=> Up(RefreshReady(e, px)) = 0)
    BY <1>2, RefreshCounts
  <2> QED
    BY <2>2, <2>3 DEF Plain
<1>5. CASE ServerSleeps(s, e, "recv", d) /\ Quiet /\ Misses(s \in killed \/ d = "passed")
  BY <1>3, <1>5 DEF Quiet, channel, Misses
<1>6. CASE ServerSleeps(s, e, "ready", d) /\ Quiet /\ UNCHANGED missed
  BY <1>3, <1>6 DEF Quiet, channel, Plain
<1>7. CASE e.count["ready"] > 0 /\ ev' = Consume(e, "ready") /\ Quiet /\ UNCHANGED missed
  <2>1. e.count \in [Queues -> 0..MaxCount] /\ "ready" \in Queues
    BY <1>2, Names DEF EventsOK, EventRecords
  <2>2. PICK x : x = Consume(e, "ready")
    OBVIOUS
  <2>3. Up(x) = Up(e) - 1 /\ Up(e) > 0
    BY <1>7, <2>1, <2>2 DEF Consume, Up
  <2>4. Up(x) \in 0..1 /\ pending # <<>>
    BY <1>2, <2>3
  <2> QED
    BY <1>7, <2>2, <2>4 DEF Quiet, channel, Plain
<1> QED
  BY <1>4, <1>5, <1>6, <1>7 DEF RecvLoop, ReadyLoop

\* A server's steps.
LEMMA ServerCounts ==
    ASSUME IInv, Plain, NEW s \in Servers, ServerStep(s)
    PROVE  Plain'
<1>1. ASSUME NEW d, Recv(s, d) \/ WaitReady(s, d) PROVE Plain'
  <2>1. PICK e : e = ev
    OBVIOUS
  <2>2. AtWorkWith(s, e)
    BY <1>1, <2>1, WorkIsWork DEF Recv, WaitReady, AtWork, AtWorkWith
  <2>3. RecvLoop(s, e, d) \/ ReadyLoop(s, e, d)
    BY <1>1, <2>1 DEF Recv, WaitReady, RecvLoop, ReadyLoop, TakeCall, ServerSleeps
  <2> QED
    BY <2>1, <2>2, <2>3, LoopCounts
<1>2. ASSUME ServerAgain(s) PROVE Plain'
  <2>1. PICK e, h : e = Left(s) /\ h = deadline[s]
    OBVIOUS
  <2>2. AtWorkWith(s, e) /\ Up(e) = Up(ev)
    BY <2>1, BackAtWork DEF AtWorkWith, Left, Woken, Up
  <2>3. CASE RecvLoop(s, Left(s), deadline[s])
    <3>1. RecvLoop(s, e, h)
      BY <2>1, <2>3 DEF RecvLoop, TakeCall, ServerSleeps
    <3> QED
      BY <2>2, <3>1, LoopCounts
  <2>4. CASE ReadyLoop(s, Left(s), deadline[s])
    <3>1. ReadyLoop(s, e, h)
      BY <2>1, <2>4 DEF ReadyLoop, ServerSleeps
    <3> QED
      BY <2>2, <3>1, LoopCounts
  <2>5. CASE /\ ev' = Left(s) /\ Quiet
             /\ Misses(doing[s] = "recv" \/ ev.wait.woken[s] # {})
    BY <2>1, <2>2, <2>5 DEF Quiet, channel, Misses, Plain
  <2> QED
    BY <1>2, <2>3, <2>4, <2>5 DEF ServerAgain
<1>3. ASSUME NEW token, NEW S, Reply(s, token, S) PROVE Plain'
  BY <1>3 DEF Reply, Woken, Up, Plain
<1>4. ASSUME CloseServing(s) PROVE Plain'
  <2>1. Up(ev) \in 0..1 /\ (pending = <<>> => Up(ev) = 0)
    BY DEF Plain
  <2>2. ev.count \in [Queues -> 0..MaxCount] /\ "ready" \in Queues
    BY Names DEF IInv, SimpleTypes, EventRecords
  <2>3. Up(Drained(ev)) = 0
    <3>1. CASE pending = <<>>
      BY <2>1, <3>1 DEF Drained
    <3>2. CASE pending # <<>>
      <4>1. PICK st, dn, e, p : st = StageOf(record) /\ dn = doing /\ e = ev /\ p = pending
        OBVIOUS
      <4>2. EventsOK(e, st, dn)
        BY <4>1 DEF IInv, SimpleTypes, EventsOK
      <4>3. PICK y : y = IF Len(p) > 1 THEN RefreshReady(e, p) ELSE e
        OBVIOUS
      <4>4. EventsOK(y, st, dn)
        BY <4>2, <4>3, EventsRefresh
      <4>5. y.count \in [Queues -> 0..MaxCount]
        BY <4>4 DEF EventsOK, EventRecords
      <4>6. Up(RefreshReady(y, <<>>)) = 0
        BY <2>2, <4>5 DEF RefreshReady, Up
      <4> QED
        BY <3>2, <4>1, <4>3, <4>6 DEF Drained
    <3> QED
      BY <3>1, <3>2
  <2>4. pending' = <<>> /\ Up(ev') = 0
    BY <1>4, <2>3 DEF CloseServing, Woken, Up
  <2>5. missed' = FALSE
    BY <1>4 DEF CloseServing
  <2> QED
    BY <2>4, <2>5 DEF Plain
<1> QED
  BY <1>1, <1>2, <1>3, <1>4 DEF ServerStep

\* Every step leaves the event down when no call is queued.
LEMMA PlainKeeps == IInv /\ Plain /\ [Next]_vars => Plain'
<1> SUFFICES ASSUME IInv, Plain, [Next]_vars PROVE Plain'
  OBVIOUS
<1>1. ASSUME NEW t \in Threads, Expire(t) \/ Kill(t) PROVE Plain'
  BY <1>1 DEF Expire, Kill, channel, Woken, Up, Plain
<1>2. ASSUME NEW t \in Threads, NEW o \in Objects, CloseHandle(t, o) PROVE Plain'
  BY <1>2 DEF CloseHandle, channel, Up, Plain
<1>3. CASE UNCHANGED vars
  BY <1>3 DEF vars, channel, Up, Plain
<1> QED
  BY <1>1, <1>2, <1>3, ClientCounts, ServerCounts DEF Next

-----------------------------------------------------------------------------
(* That a call is heard: the steps. *)

\* What there is to show of the state after a step.
HeardNext == HearOK(ev'.wait, Up(ev'), pending', Room(inflight'), doing')

\* The state before a step that leaves calls queued and misses none of them.
Listening ==
    /\ IInv /\ HearOK(ev.wait, Up(ev), pending, Room(inflight), doing)
    /\ pending' # <<>> /\ ~missed'

\* Nobody waits in vain for no calls.
LEMMA NothingToHear ==
    ASSUME NEW w, NEW f, NEW dn
    PROVE  HearOK(w, 0, <<>>, f, dn)
<1>1. Len(<<>>) = 0
  BY EmptySeq
<1> QED
  BY <1>1, WokenAreFinite DEF HearOK, ReadyHeard, RecvHeard

\* The lists and the event stay, and servers may wake.
LEMMA StillHeard ==
    ASSUME NEW w, NEW n, NEW p \in Seq(Clients), NEW f \in Nat, NEW dn, HearOK(w, n, p, f, dn),
           NEW x, MoreAwake(w, x),
           NEW dx, \A s \in Servers : dn[s] \in {"due", "recv"} => dx[s] \in {"due", "recv"}
    PROVE  HearOK(x, n, p, f, dx)
<1>1. Len(p) \in Nat /\ Len(p) \in 0..Len(p) /\ f \in 0..f
  BY LenProperties
<1>2. ReadyHeard(x, n)
  <2>1. 0 \in Nat /\ 0 \in 0..0
    OBVIOUS
  <2> QED
    BY <2>1, AwakeIsHeard DEF HearOK
<1>3. RecvHeard(x, Len(p)) \/ RecvHeard(x, f)
  BY <1>1, AwakeIsHeard DEF HearOK
<1> QED
  BY <1>2, <1>3 DEF HearOK

\* The event has just been refreshed.
LEMMA JustRefreshed ==
    ASSUME NEW w, NEW n, NEW p, NEW f, NEW dn, ReadyHeard(w, n), p = <<>> <=> n = 0,
           RecvHeard(w, Len(p)) \/ RecvHeard(w, f)
    PROVE  HearOK(w, n, p, f, dn)
BY DEF HearOK

\* sys_call
LEMMA CallIsAnnounced ==
    ASSUME Listening, NEW c \in Clients, NEW S, NEW d, Call(c, S, d)
    PROVE  HeardNext
<1>1. PICK p, e, st, dn, f : /\ p = pending /\ e = ev /\ st = StageOf(record) /\ dn = doing
                             /\ f = Room(inflight)
  OBVIOUS
<1>2. /\ EventsOK(e, st, dn) /\ HearOK(e.wait, Up(e), p, f, dn) /\ p \in Seq(Clients)
      /\ doing' = dn /\ Room(inflight') = f
  BY <1>1 DEF Listening, IInv, SimpleTypes, EventsOK, ListOK, Call
<1>3. /\ ReadyHeard(e.wait, Up(e)) /\ Len(p) \in Nat /\ f \in Nat
      /\ RecvHeard(e.wait, Len(p)) \/ RecvHeard(e.wait, f)
  <2>1. PICK inf : inf = inflight
    OBVIOUS
  <2> QED
    BY <1>1, <1>2, <2>1, LenProperties, RoomIsFinite DEF HearOK
<1>4. PICK px, x : px = Append(p, c) /\ x = Announce(e, px)
  OBVIOUS
<1>5. px # <<>> /\ Len(px) = Len(p) + 1
  BY <1>2, <1>4, AppendProperties
<1>6. /\ EventsOK(x, st, dn) /\ ReadyHeard(x.wait, Up(x)) /\ (px = <<>> <=> Up(x) = 0)
      /\ RecvHeard(x.wait, Len(p) + 1) \/ RecvHeard(x.wait, f + 1)
  <2>1. /\ EventsOK(Announce(e, px), st, dn)
        /\ ReadyHeard(Announce(e, px).wait, Up(Announce(e, px)))
        /\ px = <<>> <=> Up(Announce(e, px)) = 0
        /\ \A k \in Nat : RecvHeard(e.wait, k) => RecvHeard(Announce(e, px).wait, k + 1)
    BY <1>2, <1>3, AnnounceIsHeard
  <2> QED
    BY <1>3, <1>4, <2>1
<1>7. CASE pending' = Append(pending, c) /\ ev' = BlockOn(Announce(ev, pending'), c, {c}, d = "ahead")
  <2>1. PICK b, y : b = (d = "ahead") /\ y = BlockOn(x, c, {c}, b)
    OBVIOUS
  <2>2. ev' = y /\ pending' = px
    BY <1>1, <1>4, <1>7, <2>1
  <2>3. y.wait = Block(x.wait, c, {c}, b) /\ Up(y) = Up(x)
    BY <2>1 DEF BlockOn, Up
  <2>4. st[c] = "out"
    <3>1. PICK rc : rc = record
      OBVIOUS
    <3>2. rc \in [Clients -> CallRecords] /\ ~rc[c].live /\ st = StageOf(rc)
      BY <1>1, <3>1 DEF Listening, IInv, RecordOK, Call
    <3> QED
      BY <3>2, StagesFollow DEF Stage
  <2>5. /\ y.wait.woken = x.wait.woken
        /\ \A q \in Queues : \A u : Queued(y.wait, q, u) <=> Queued(x.wait, q, u) \/ (q = c /\ u = c)
    <3>1. b \in BOOLEAN /\ WaitOK(x.wait, st, dn)
      BY <1>6, <2>1 DEF EventsOK
    <3>2. PICK w : w = x.wait
      OBVIOUS
    <3>3. /\ WaitOK(Block(w, c, {c}, b), [st EXCEPT ![c] = "asked"], dn)
          /\ Block(w, c, {c}, b).woken = w.woken
          /\ \A q \in Queues : \A u : Queued(Block(w, c, {c}, b), q, u)
                                         <=> Queued(w, q, u) \/ (q = c /\ u = c)
      BY <2>4, <3>1, <3>2, ClientBlocks
    <3> QED
      BY <2>3, <3>2, <3>3
  <2>6. MoreAwake(x.wait, y.wait)
    BY <2>5, Names DEF MoreAwake, QueuedOn, WokenBy
  <2>7. ReadyHeard(y.wait, Up(y)) /\ (RecvHeard(y.wait, Len(px)) \/ RecvHeard(y.wait, f))
    <3>1. Len(p) + 1 \in Nat /\ Len(px) \in 0..(Len(p) + 1) /\ f + 1 \in Nat /\ f \in 0..(f + 1)
      BY <1>3, <1>5
    <3> QED
      BY <1>6, <2>3, <2>6, <3>1, AwakeIsHeard
  <2>8. HearOK(y.wait, Up(y), px, f, dn)
    BY <1>6, <2>3, <2>7, JustRefreshed
  <2> QED
    BY <1>2, <2>2, <2>8 DEF HeardNext
<1>8. CASE pending' = pending /\ ev' = RefreshReady(Announce(ev, Append(pending, c)), pending)
  <2>1. PICK y : y = RefreshReady(x, p)
    OBVIOUS
  <2>2. ev' = y /\ pending' = p
    BY <1>1, <1>4, <1>8, <2>1
  <2>3. MoreAwake(x.wait, y.wait) /\ ReadyHeard(y.wait, Up(y)) /\ (p = <<>> <=> Up(y) = 0)
    BY <1>6, <2>1, RefreshIsHeard
  <2>4. RecvHeard(y.wait, Len(p)) \/ RecvHeard(y.wait, f)
    <3>1. Len(p) + 1 \in Nat /\ Len(p) \in 0..(Len(p) + 1) /\ f + 1 \in Nat /\ f \in 0..(f + 1)
      BY <1>3
    <3> QED
      BY <1>6, <2>3, <3>1, AwakeIsHeard
  <2>5. HearOK(y.wait, Up(y), p, f, dn)
    BY <2>3, <2>4, JustRefreshed
  <2> QED
    BY <1>2, <2>2, <2>5 DEF HeardNext
<1>9. CASE pending' = pending /\ ev' = ev
  BY <1>1, <1>2, <1>9 DEF HeardNext
<1> QED
  BY <1>7, <1>8, <1>9 DEF Call

\* call returns
LEMMA CallerLeavesHeard ==
    ASSUME Listening, NEW c \in Clients, CallAgain(c)
    PROVE  HeardNext
<1>1. PICK p, e, st, dn, inf, f :
          /\ p = pending /\ e = ev /\ st = StageOf(record) /\ dn = doing
          /\ inf = inflight /\ f = Room(inf)
  OBVIOUS
<1>2. /\ EventsOK(e, st, dn) /\ HearOK(e.wait, Up(e), p, f, dn) /\ p \in Seq(Clients)
      /\ WaitOK(e.wait, st, dn) /\ doing' = dn
  BY <1>1 DEF Listening, IInv, SimpleTypes, EventsOK, ListOK, CallAgain
<1>3. PICK x : x = Left(c)
  OBVIOUS
<1>4. x.wait = Leave(e.wait, c) /\ Up(x) = Up(e) /\ x = Woken(e, Leave(e.wait, c))
  BY <1>1, <1>3 DEF Left, Woken, Up
<1>5. /\ WaitOK(x.wait, [st EXCEPT ![c] = "out"], dn)
      /\ \A s \in Servers : x.wait.woken[s] = e.wait.woken[s]
      /\ \A q \in Lists : \A u : Queued(x.wait, q, u) => Queued(e.wait, q, u)
  BY <1>2, <1>4, ClientLeaves
<1>6. MoreAwake(e.wait, x.wait)
  BY <1>5 DEF MoreAwake, QueuedOn, WokenBy
<1>7. HearOK(x.wait, Up(x), p, f, dn) /\ f \in Nat
  <2>1. f \in Nat
    BY <1>1, RoomIsFinite
  <2> QED
    BY <1>2, <1>4, <1>6, <2>1, StillHeard
<1>8. CASE pending' = pending /\ inflight' = inflight /\ ev' = Left(c)
  BY <1>1, <1>2, <1>3, <1>7, <1>8 DEF HeardNext
<1>9. CASE /\ pending' = Without(pending, c) /\ inflight' = inflight
           /\ ev' = RefreshReady(Left(c), pending')
  <2>1. PICK px, y, sx : /\ px = Without(p, c) /\ y = RefreshReady(x, px)
                         /\ sx = [st EXCEPT ![c] = "out"]
    OBVIOUS
  <2>2. pending' = px /\ ev' = y /\ Room(inflight') = f
    BY <1>1, <1>3, <1>9, <2>1
  <2>3. EventsOK(x, sx, dn)
    BY <1>2, <1>4, <1>5, <2>1, EventsWoken
  <2>4. ReadyHeard(x.wait, Up(x)) /\ (RecvHeard(x.wait, Len(p)) \/ RecvHeard(x.wait, f))
    BY <1>7 DEF HearOK
  <2>5. MoreAwake(x.wait, y.wait) /\ ReadyHeard(y.wait, Up(y)) /\ (px = <<>> <=> Up(y) = 0)
    BY <2>1, <2>3, <2>4, RefreshIsHeard
  <2>6. RecvHeard(y.wait, Len(px)) \/ RecvHeard(y.wait, f)
    <3>1. Len(p) \in Nat /\ Len(px) \in 0..Len(p) /\ f \in 0..f
      BY <1>2, <1>7, <2>1, LenProperties, WithoutIsShorter
    <3> QED
      BY <1>7, <2>4, <2>5, <3>1, AwakeIsHeard
  <2>7. HearOK(y.wait, Up(y), px, f, dn)
    BY <2>5, <2>6, JustRefreshed
  <2> QED
    BY <1>2, <2>2, <2>7 DEF HeardNext
<1> QED
  <2>1. CASE GiveUp(c)
    <3>1. ~Taken(inf, c)
      BY <1>1, <2>1 DEF GiveUp, Misses, Listening, Taken
    <3>2. inflight' = inf
      <4>1. inf = [s \in Slots |-> inf[s]]
        BY <1>1 DEF Listening, IInv, ListOK
      <4> QED
        BY <1>1, <2>1, <3>1, <4>1 DEF GiveUp, Cleared, Taken
    <3> QED
      BY <1>1, <1>8, <1>9, <2>1, <3>2 DEF GiveUp
  <2>2. CASE Fail(c) \/ TakeAnswer(c)
    BY <1>8, <2>2 DEF Fail, TakeAnswer
  <2> QED
    BY <2>1, <2>2 DEF CallAgain

\* A server that comes back from a wait takes nothing from the other list, and
\* from its own at most the one wake that was its.
LEMMA LeavingIsHeard ==
    ASSUME NEW w, NEW st, NEW dn, WaitOK(w, st, dn), NEW s \in Servers
    PROVE  /\ w.woken[s] = {} => MoreAwake(w, Leave(w, s))
           /\ dn[s] = "recv" => \A n : ReadyHeard(w, n) => ReadyHeard(Leave(w, s), n)
           /\ dn[s] = "recv" => \A k \in Nat : RecvHeard(w, k + 1) => RecvHeard(Leave(w, s), k)
           /\ dn[s] = "ready" => \A k \in Nat : RecvHeard(w, k) => RecvHeard(Leave(w, s), k)
<1>1. /\ w.woken \in [Threads -> SUBSET Queues] /\ s \in Threads
      /\ w.woken[s] \subseteq Lists \cap {dn[s]}
  BY WaitTypes, Names DEF WaitOK, ServerWaits
<1>2. PICK x : x = Leave(w, s)
  OBVIOUS
<1>3. /\ x.woken = [w.woken EXCEPT ![s] = {}]
      /\ \A q \in Queues : \A u : Queued(x, q, u) <=> Queued(w, q, u) /\ u # s
  <2>1. "idle" \in {"idle", "due"}
    OBVIOUS
  <2> QED
    BY <1>2, <2>1, ServerLeaves
<1>4. /\ x.woken[s] = {} /\ \A u \in Servers : u # s => x.woken[u] = w.woken[u]
  BY <1>1, <1>3, Names
<1>5. \A q \in Lists : QueuedOn(x, q) \subseteq QueuedOn(w, q)
  BY <1>3, Names DEF QueuedOn
<1>6. \A q : WokenBy(x, q) = WokenBy(w, q) \ {s}
  BY <1>4 DEF WokenBy
<1>7. ASSUME w.woken[s] = {} PROVE MoreAwake(w, x)
  BY <1>5, <1>6, <1>7 DEF MoreAwake, WokenBy
<1>8. ASSUME dn[s] = "recv", NEW n, ReadyHeard(w, n) PROVE ReadyHeard(x, n)
  <2>1. s \notin WokenBy(w, "ready")
    BY <1>1, <1>8 DEF WokenBy
  <2>2. WokenBy(x, "ready") = WokenBy(w, "ready")
    BY <1>6, <2>1
  <2> QED
    BY <1>5, <1>8, <2>2 DEF ReadyHeard, Lists
<1>9. ASSUME NEW k \in Nat, RecvHeard(w, k + 1) PROVE RecvHeard(x, k)
  <2> SUFFICES ASSUME QueuedOn(x, "recv") # {} PROVE k <= Cardinality(WokenBy(x, "recv"))
    BY DEF RecvHeard
  <2>1. PICK a, b \in Nat : a = Cardinality(WokenBy(w, "recv")) /\ b = Cardinality(WokenBy(x, "recv"))
    BY WokenAreFinite
  <2>2. b = a - 1 \/ b = a
    BY <1>6, <2>1, WokenAreFinite, FS_RemoveElement
  <2>3. k + 1 <= a
    BY <1>5, <1>9, <2>1 DEF RecvHeard, Lists
  <2> QED
    BY <2>1, <2>2, <2>3
<1>10. ASSUME dn[s] = "ready", NEW k \in Nat, RecvHeard(w, k) PROVE RecvHeard(x, k)
  <2>1. s \notin WokenBy(w, "recv")
    BY <1>1, <1>10 DEF WokenBy
  <2>2. WokenBy(x, "recv") = WokenBy(w, "recv")
    BY <1>6, <2>1
  <2> QED
    BY <1>5, <1>10, <2>2 DEF RecvHeard, Lists
<1> QED
  BY <1>2, <1>7, <1>8, <1>9, <1>10

\* The loop of recv.
LEMMA RecvLoopHears ==
    ASSUME Listening, NEW s \in Servers, NEW e, NEW d, RecvLoop(s, e, d),
           AtWorkWith(s, e), Up(e) = Up(ev), ReadyHeard(e.wait, Up(e)),
           NEW k \in Nat, RecvHeard(e.wait, k),
           pending # <<>> /\ Room(inflight) # 0 => k + 1 = Len(pending) \/ k + 1 = Room(inflight)
    PROVE  HeardNext
<1>1. CASE /\ FreeSlots = {} \/ pending = <<>>
           /\ ServerSleeps(s, e, "recv", d)
           /\ Quiet
           /\ Misses(s \in killed \/ d = "passed")
  <2>1. PICK p, n, st, dn, dx, w, b :
            /\ p = pending /\ n = Up(e) /\ st = StageOf(record) /\ dn = doing
            /\ dx = [dn EXCEPT ![s] = "idle"] /\ w = e.wait /\ b = (d = "ahead")
    OBVIOUS
  <2>2. /\ pending' = p /\ inflight' = inflight /\ p # <<>> /\ Room(inflight') = 0
        /\ ~(s \in killed \/ d = "passed")
    BY <1>1, <2>1, NoRoom DEF Quiet, channel, Listening, Misses
  <2>3. ev' = BlockOn(e, s, {"recv"}, b) /\ doing' = [dn EXCEPT ![s] = "recv"]
    BY <1>1, <2>1, <2>2 DEF ServerSleeps
  <2>4. /\ b \in BOOLEAN /\ WaitOK(w, st, dx) /\ dx[s] \in {"idle", "due"} /\ "recv" \in Lists
        /\ dn \in [Servers -> Doings] /\ p \in Seq(Clients)
    BY <2>1 DEF AtWorkWith, EventsOK, Lists, Listening, IInv, WaitOK, ListOK
  <2>5. PICK x : x = Block(w, s, {"recv"}, b)
    OBVIOUS
  <2>6. PICK l, m \in Lists, h \in BOOLEAN : l = "recv" /\ m = "ready" /\ h = b
    BY <2>4 DEF Lists
  <2>7. AsBefore(w, Block(w, s, {l}, h), m)
    <3>1. WaitOK(w, st, dx) /\ dx[s] \in {"idle", "due"} /\ m # l
      BY <2>4, <2>6
    <3> QED
      BY <3>1, BlockedElsewhere
  <2>8. ReadyHeard(x, n)
    BY <2>1, <2>5, <2>6, <2>7 DEF ReadyHeard, AsBefore
  <2>9. RecvHeard(x, 0)
    BY WokenAreFinite DEF RecvHeard
  <2>10. ev'.wait = x /\ Up(ev') = n
    BY <2>1, <2>3, <2>5 DEF BlockOn, Up
  <2>11. doing'[s] = "recv"
    BY <2>3, <2>4
  <2> QED
    BY <2>2, <2>8, <2>9, <2>10, <2>11 DEF HeardNext, HearOK
<1>2. CASE FreeSlots # {} /\ pending # <<>> /\ TakeCall(s, e)
  <2>1. PICK p, px, st, dn, dx, x, inf, inx, sl :
            /\ p = pending /\ px = Tail(p) /\ st = StageOf(record)
            /\ dn = [doing EXCEPT ![s] = "idle"] /\ dx = doing' /\ x = RefreshReady(e, px)
            /\ inf = inflight /\ inx = inflight' /\ sl = Min(FreeSlots)
    OBVIOUS
  <2>2. /\ EventsOK(e, st, dn) /\ p \in Seq(Clients) /\ p # <<>> /\ inf \in [Slots -> TakenType]
        /\ ListOK(p, inf, st, serving)
    BY <1>2, <2>1 DEF AtWorkWith, Listening, IInv, ListOK, TakenType
  <2>3. ev' = x /\ pending' = px /\ doing' = dx /\ inflight' = inx
    BY <1>2, <2>1 DEF TakeCall
  <2>4. MoreAwake(e.wait, x.wait) /\ ReadyHeard(x.wait, Up(x)) /\ (px = <<>> <=> Up(x) = 0)
    BY <2>1, <2>2, RefreshIsHeard
  <2>5. Len(px) = Len(p) - 1 /\ Len(px) \in Nat
    <3>1. px \in Seq(Clients) /\ Len(px) = Len(p) - 1
      BY <2>1, <2>2, HeadTailProperties
    <3> QED
      BY <3>1, LenProperties
  <2>6. Room(inx) = Room(inf) - 1 /\ Room(inf) \in Nat /\ Room(inf) # 0
    <3>1. sl \in Slots /\ inf[sl] = NoCall
      BY <1>2, <2>1, FirstFree
    <3>2. Head(p) \in Clients
      BY <2>2, HeadTailProperties
    <3>3. /\ inx = [inf EXCEPT ![sl] = [call |-> Head(p), generation |-> nextGeneration]]
      BY <1>2, <2>1 DEF TakeCall
    <3>4. inx[sl].call = Head(p) /\ \A u \in Slots : u # sl => inx[u] = inf[u]
      BY <2>2, <3>1, <3>3
    <3>5. inx[sl] # NoCall
      BY <3>2, <3>4, Names DEF NoCall
    <3> QED
      BY <3>1, <3>4, <3>5, RoomChanges, RoomIsFinite
  <2>7. k = Len(px) \/ k = Room(inx)
    <3>1. k + 1 = Len(p) \/ k + 1 = Room(inf)
      BY <2>1, <2>2, <2>6
    <3>2. PICK l \in Nat, m \in Nat : l = Len(p) /\ m = Room(inf)
      BY <2>2, <2>6, LenProperties
    <3>3. k = l - 1 \/ k = m - 1
      BY <3>1, <3>2
    <3> QED
      BY <2>5, <2>6, <3>2, <3>3
  <2>8. RecvHeard(x.wait, k)
    <3>1. k \in 0..k
      OBVIOUS
    <3> QED
      BY <2>4, <3>1, AwakeIsHeard
  <2>9. HearOK(x.wait, Up(x), px, Room(inx), dx)
    BY <2>4, <2>7, <2>8, JustRefreshed
  <2> QED
    BY <2>3, <2>9 DEF HeardNext
<1> QED
  BY <1>1, <1>2 DEF RecvLoop

\* The loop of waitMany.
LEMMA ReadyLoopHears ==
    ASSUME Listening, NEW s \in Servers, NEW e, NEW d, ReadyLoop(s, e, d),
           AtWorkWith(s, e), Up(e) = Up(ev),
           RecvHeard(e.wait, Len(pending)) \/ RecvHeard(e.wait, Room(inflight)),
           doing[s] \notin {"due", "recv"}
    PROVE  HeardNext
<1>1. PICK p, f, st, dn, dx : /\ p = pending /\ st = StageOf(record) /\ dn = doing
                              /\ dx = [dn EXCEPT ![s] = "idle"] /\ f = Room(inflight)
  OBVIOUS
<1>2. /\ EventsOK(e, st, dx) /\ p \in Seq(Clients) /\ dn \in [Servers -> Doings]
      /\ HearOK(ev.wait, Up(e), p, f, dn) /\ pending' = p /\ Room(inflight') = f
      /\ RecvHeard(e.wait, Len(p)) \/ RecvHeard(e.wait, f)
      /\ dn[s] \notin {"due", "recv"}
  BY <1>1 DEF AtWorkWith, Listening, IInv, ListOK, WaitOK, ReadyLoop, Quiet, channel
<1>3. Up(e) \in 0..1 /\ (p = <<>> => Up(e) = 0)
  BY <1>2 DEF HearOK, ReadyHeard
<1>4. CASE /\ e.count["ready"] > 0 /\ ev' = Consume(e, "ready")
           /\ doing' = [doing EXCEPT ![s] = "due"]
  <2>1. PICK x : x = Consume(e, "ready")
    OBVIOUS
  <2>2. e.count \in [Queues -> 0..MaxCount] /\ "ready" \in Queues
    BY <1>2, Names DEF EventsOK, EventRecords
  <2>3. x.wait = e.wait /\ Up(x) = 0
    <3>1. x.wait = e.wait /\ Up(x) = Up(e) - 1
      BY <2>1, <2>2 DEF Consume, Up
    <3>2. Up(e) = 1
      BY <1>3, <1>4 DEF Up
    <3> QED
      BY <3>1, <3>2
  <2>4. doing'[s] = "due"
    BY <1>1, <1>2, <1>4
  <2>5. HearOK(x.wait, 0, p, f, doing')
    BY <1>2, <2>3, <2>4 DEF HearOK, ReadyHeard
  <2> QED
    BY <1>2, <1>4, <2>1, <2>3, <2>5 DEF HeardNext
<1>5. CASE e.count["ready"] = 0 /\ ServerSleeps(s, e, "ready", d)
  <2>1. \A u \in Servers : dn[u] \in {"due", "recv"} => doing'[u] \in {"due", "recv"}
    <3>1. doing' = [dn EXCEPT ![s] = "ready"] \/ doing' = [dn EXCEPT ![s] = "idle"]
      BY <1>1, <1>5 DEF ServerSleeps
    <3> QED
      BY <1>2, <3>1
  <2>2. p # <<>> => \E u \in Servers : doing'[u] \in {"due", "recv"}
    BY <1>2, <1>5, <2>1 DEF HearOK, Up
  <2>3. Up(ev') = 0 /\ (RecvHeard(ev'.wait, Len(p)) \/ RecvHeard(ev'.wait, f))
    <3>1. CASE ev' = e
      BY <1>2, <1>5, <3>1 DEF Up
    <3>2. CASE ev' = BlockOn(e, s, {"ready"}, d = "ahead")
      <4>1. PICK b, w, x : b = (d = "ahead") /\ w = e.wait /\ x = Block(w, s, {"ready"}, b)
        OBVIOUS
      <4>2. b \in BOOLEAN /\ WaitOK(w, st, dx) /\ dx[s] \in {"idle", "due"} /\ "ready" \in Lists
        BY <1>1, <1>2, <4>1 DEF EventsOK, Lists
      <4>3. PICK l, m \in Lists, h \in BOOLEAN : l = "ready" /\ m = "recv" /\ h = b
        BY <4>2 DEF Lists
      <4>4. AsBefore(w, Block(w, s, {l}, h), m)
        <5>1. WaitOK(w, st, dx) /\ dx[s] \in {"idle", "due"} /\ m # l
          BY <4>2, <4>3
        <5> QED
          BY <5>1, BlockedElsewhere
      <4>5. RecvHeard(x, Len(p)) \/ RecvHeard(x, f)
        BY <1>2, <4>1, <4>3, <4>4 DEF RecvHeard, AsBefore
      <4>6. ev' = [count |-> e.count, wait |-> x]
        BY <3>2, <4>1 DEF BlockOn
      <4> QED
        BY <1>5, <4>5, <4>6 DEF Up
    <3> QED
      BY <1>5, <3>1, <3>2 DEF ServerSleeps
  <2>4. HearOK(ev'.wait, 0, p, f, doing')
    BY <2>2, <2>3 DEF HearOK, ReadyHeard
  <2> QED
    BY <1>2, <2>3, <2>4 DEF HeardNext
<1> QED
  BY <1>4, <1>5 DEF ReadyLoop

\* sys_recv, wait_many, and either on the way back from blockOn.
LEMMA ServerHears ==
    ASSUME Listening, NEW s \in Servers, NEW d,
           Recv(s, d) \/ WaitReady(s, d) \/ ServerAgain(s)
    PROVE  HeardNext
<1>1. PICK p, f, w, st, dn : /\ p = pending /\ w = ev.wait /\ st = StageOf(record) /\ dn = doing
                             /\ f = Room(inflight)
  OBVIOUS
<1>2. /\ WaitOK(w, st, dn) /\ HearOK(w, Up(ev), p, f, dn) /\ p \in Seq(Clients)
      /\ ReadyHeard(w, Up(ev)) /\ IInv
  BY <1>1 DEF Listening, IInv, ListOK, HearOK
<1>3. /\ Len(p) \in Nat /\ f \in Nat /\ (p # <<>> => Len(p) # 0)
      /\ RecvHeard(w, Len(p)) \/ RecvHeard(w, f)
  <2>1. PICK inf : inf = inflight
    OBVIOUS
  <2> QED
    BY <1>1, <1>2, <2>1, EmptyList, RoomIsFinite DEF HearOK
\* One call fewer, and one slot.
<1>4. PICK k \in Nat : /\ RecvHeard(w, k + 1) \/ (RecvHeard(w, k) /\ k = 0)
                       /\ p # <<>> /\ f # 0 => k + 1 = Len(p) \/ k + 1 = f
                       /\ RecvHeard(w, k + 1) \/ p = <<>> \/ f = 0
  <2>1. RecvHeard(w, 0)
    BY WokenAreFinite DEF RecvHeard
  <2>2. CASE p = <<>> \/ f = 0
    <3>1. 0 \in Nat
      OBVIOUS
    <3> QED
      BY <2>1, <2>2, <3>1
  <2>3. CASE p # <<>> /\ f # 0 /\ RecvHeard(w, Len(p))
    <3>1. PICK k \in Nat : k = Len(p) - 1
      BY <1>3, <2>3
    <3>2. k + 1 = Len(p)
      BY <1>3, <3>1
    <3> QED
      BY <2>3, <3>2
  <2>4. CASE p # <<>> /\ f # 0 /\ RecvHeard(w, f)
    <3>1. PICK k \in Nat : k = f - 1
      BY <1>3, <2>4
    <3>2. k + 1 = f
      BY <1>3, <3>1
    <3> QED
      BY <2>4, <3>2
  <2> QED
    BY <1>3, <2>2, <2>3, <2>4
<1>5. CASE Recv(s, d)
  <2>1. PICK e : e = ev
    OBVIOUS
  <2>2. AtWorkWith(s, e)
    BY <1>2, <1>5, <2>1, WorkIsWork DEF Recv, AtWork, AtWorkWith
  <2>3. RecvLoop(s, e, d)
    BY <1>5, <2>1 DEF Recv, RecvLoop, TakeCall, ServerSleeps
  <2>4. Up(e) = Up(ev) /\ ReadyHeard(e.wait, Up(e))
    BY <1>1, <1>2, <2>1
  <2>5. RecvHeard(e.wait, k)
    <3>1. MoreAwake(w, w) /\ k \in 0..(k + 1) /\ k + 1 \in Nat
      BY DEF MoreAwake
    <3>2. RecvHeard(w, k)
      BY <1>4, <3>1, AwakeIsHeard
    <3> QED
      BY <1>1, <2>1, <3>2
  <2> QED
    BY <1>1, <1>4, <2>2, <2>3, <2>4, <2>5, RecvLoopHears
<1>6. CASE WaitReady(s, d)
  <2>1. PICK e : e = ev
    OBVIOUS
  <2>2. AtWorkWith(s, e) /\ doing[s] \notin {"due", "recv"}
    BY <1>2, <1>6, <2>1, WorkIsWork DEF WaitReady, AtWorkWith
  <2>3. ReadyLoop(s, e, d)
    BY <1>6, <2>1 DEF WaitReady, ReadyLoop, ServerSleeps
  <2>4. Up(e) = Up(ev) /\ (RecvHeard(e.wait, Len(pending)) \/ RecvHeard(e.wait, Room(inflight)))
    BY <1>1, <1>3, <2>1
  <2> QED
    BY <2>2, <2>3, <2>4, ReadyLoopHears
<1>7. CASE ServerAgain(s)
  <2>1. PICK e, h, x : e = Left(s) /\ h = deadline[s] /\ x = Leave(w, s)
    OBVIOUS
  <2>2. AtWorkWith(s, e)
    BY <1>2, <2>1, BackAtWork DEF AtWorkWith
  <2>3. e.wait = x /\ Up(e) = Up(ev)
    BY <1>1, <2>1 DEF Left, Woken, Up
  <2>4. /\ w.woken[s] = {} => MoreAwake(w, x)
        /\ dn[s] = "recv" => \A n : ReadyHeard(w, n) => ReadyHeard(x, n)
        /\ dn[s] = "recv" => \A m \in Nat : RecvHeard(w, m + 1) => RecvHeard(x, m)
        /\ dn[s] = "ready" => \A m \in Nat : RecvHeard(w, m) => RecvHeard(x, m)
    BY <1>2, <2>1, LeavingIsHeard
  <2>5. CASE dn[s] = "recv" /\ RecvLoop(s, Left(s), deadline[s])
    <3>1. RecvLoop(s, e, h)
      BY <2>1, <2>5 DEF RecvLoop, TakeCall, ServerSleeps
    <3>2. ReadyHeard(e.wait, Up(e))
      BY <1>2, <2>3, <2>4, <2>5
    <3>3. RecvHeard(e.wait, k)
      <4>1. RecvHeard(x, 0)
        BY WokenAreFinite DEF RecvHeard
      <4> QED
        BY <1>4, <2>3, <2>4, <2>5, <4>1
    <3> QED
      BY <1>1, <1>4, <2>2, <2>3, <3>1, <3>2, <3>3, RecvLoopHears
  <2>6. CASE dn[s] = "ready" /\ ReadyLoop(s, Left(s), deadline[s])
    <3>1. ReadyLoop(s, e, h)
      BY <2>1, <2>6 DEF ReadyLoop, ServerSleeps
    <3>2. /\ RecvHeard(e.wait, Len(pending)) \/ RecvHeard(e.wait, Room(inflight))
          /\ doing[s] \notin {"due", "recv"}
      BY <1>1, <1>3, <2>3, <2>4, <2>6
    <3> QED
      BY <2>2, <2>3, <3>1, <3>2, ReadyLoopHears
  <2>7. CASE /\ ev' = Left(s) /\ doing' = [doing EXCEPT ![s] = "idle"] /\ Quiet
             /\ Misses(doing[s] = "recv" \/ ev.wait.woken[s] # {})
    <3>1. w.woken[s] = {} /\ dn[s] # "recv"
      BY <1>1, <2>7 DEF Misses, Listening
    <3>2. PICK n, dx : n = Up(ev) /\ dx = [dn EXCEPT ![s] = "idle"]
      OBVIOUS
    <3>3. \A u \in Servers : dn[u] \in {"due", "recv"} => dx[u] \in {"due", "recv"}
      <4>1. dn \in [Servers -> Doings] /\ dn[s] \notin {"due", "recv"}
        BY <1>1, <1>2, <1>7, <3>1 DEF WaitOK, ServerAgain
      <4> QED
        BY <3>2, <4>1
    <3>4. HearOK(x, n, p, f, dx)
      BY <1>2, <1>3, <2>4, <3>1, <3>2, <3>3, StillHeard
    <3>5. pending' = p /\ doing' = dx /\ ev' = e /\ Room(inflight') = f
      BY <1>1, <2>1, <2>7, <3>2 DEF Quiet, channel
    <3> QED
      BY <2>3, <3>2, <3>4, <3>5 DEF HeardNext
  <2> QED
    BY <1>1, <1>7, <2>5, <2>6, <2>7 DEF ServerAgain
<1> QED
  BY <1>5, <1>6, <1>7

\* sys_reply
LEMMA ReplyIsHeard ==
    ASSUME Listening, NEW s \in Servers, NEW token \in Tokens, NEW S, Reply(s, token, S)
    PROVE  HeardNext
<1>1. PICK p, inf, inx, e, st, dn, c :
          /\ p = pending /\ inf = inflight /\ e = ev /\ st = StageOf(record) /\ dn = doing
          /\ c = inf[token.slot].call /\ inx = inflight'
  OBVIOUS
<1>2. /\ EventsOK(e, st, dn) /\ HearOK(e.wait, Up(e), p, Room(inf), dn) /\ p \in Seq(Clients)
      /\ ListOK(p, inf, st, serving) /\ TokensOK(remembered, inf, nextGeneration)
      /\ st \in [Clients -> Stages] /\ inf \in [Slots -> TakenType]
  BY <1>1 DEF Listening, IInv, SimpleTypes, EventsOK, ListOK, WaitOK, TakenType
<1>3. c \in Clients /\ st[c] = "asked" /\ token.slot \in Slots /\ inf[token.slot] # NoCall
  <2>1. PICK i \in 1..Len(remembered) : token = remembered[i]
    BY DEF Tokens
  <2>2. token \in TokenType
    BY <1>2, <2>1, ElementOfSeq DEF TokensOK
  <2>3. token.slot \in Slots /\ inf[token.slot] # NoCall
    BY <1>1, <2>2 DEF TokenType, Reply
  <2>4. c \in Clients /\ Taken(inf, c)
    BY <1>1, <1>2, <2>3, SlotFacts DEF Taken
  <2> QED
    BY <1>2, <2>3, <2>4 DEF ListOK
<1>4. PICK x, y, C : x = WakeOne(e.wait, "recv") /\ C = {c} /\ y = WakeEach(x, C)
  OBVIOUS
<1>5. WaitOK(x, st, dn) /\ MoreAwake(e.wait, x)
  BY <1>2, <1>4, WakeServer, WakeIsHeard DEF EventsOK, Lists
<1>6. MoreAwake(x, y)
  <2>1. PICK Q, sx : /\ Q = C
                     /\ sx = [u \in Clients |-> IF u \in C THEN "answered" ELSE st[u]]
    OBVIOUS
  <2>2. C \in SUBSET Clients /\ (\A u \in C : st[u] = "asked") /\ (Q = C \/ Q = {"recv"} \cup C)
    BY <1>3, <1>4, <2>1
  <2>3. /\ WaitOK(WakeEach(x, Q), sx, dn)
        /\ Q = C => \A u \in Servers : WakeEach(x, Q).woken[u] = x.woken[u]
        /\ \A q \in Lists : \A u : Queued(WakeEach(x, Q), q, u) => Queued(x, q, u)
    BY <1>5, <2>1, <2>2, CallersWake
  <2>4. /\ \A u \in Servers : y.woken[u] = x.woken[u]
        /\ \A q \in Lists : \A u : Queued(y, q, u) => Queued(x, q, u)
    BY <1>4, <2>1, <2>3
  <2> QED
    BY <2>4 DEF MoreAwake, QueuedOn, WokenBy
<1>7. Room(inx) = Room(inf) + 1 /\ Room(inf) \in Nat
  <2>1. inx = [inf EXCEPT ![token.slot] = NoCall]
    BY <1>1 DEF Reply
  <2>2. inx[token.slot] = NoCall /\ \A u \in Slots : u # token.slot => inx[u] = inf[u]
    BY <1>2, <1>3, <2>1
  <2> QED
    BY <1>3, <2>2, RoomChanges, RoomIsFinite
<1>8. RecvHeard(y, Len(p)) \/ RecvHeard(y, Room(inx))
  <2>1. PICK l \in Nat, f \in Nat : l = Len(p) /\ f = Room(inf)
    BY <1>2, <1>7, LenProperties
  <2>2. MoreAwake(e.wait, y) /\ l \in 0..l /\ f + 1 \in Nat /\ f + 1 \in 0..(f + 1)
    BY <1>5, <1>6, AwakeTwice
  <2>3. CASE RecvHeard(e.wait, l)
    BY <2>1, <2>2, <2>3, AwakeIsHeard
  <2>4. CASE RecvHeard(e.wait, f)
    <3>1. RecvHeard(x, f + 1)
      BY <1>2, <1>4, <2>4, RecvIsTold DEF EventsOK
    <3>2. RecvHeard(y, f + 1)
      BY <1>6, <2>2, <3>1, AwakeIsHeard
    <3> QED
      BY <1>7, <2>1, <3>2
  <2> QED
    BY <1>2, <2>1, <2>3, <2>4 DEF HearOK
<1>9. HearOK(y, Up(e), p, Room(inf), dn)
  BY <1>2, <1>5, <1>6, <1>7, AwakeTwice, StillHeard
<1>10. HearOK(y, Up(e), p, Room(inx), dn)
  BY <1>8, <1>9 DEF HearOK
<1>11. pending' = p /\ doing' = dn /\ ev' = Woken(e, y) /\ inflight' = inx
  BY <1>1, <1>4 DEF Reply, WakeAll
<1>12. Woken(e, y).wait = y /\ Up(Woken(e, y)) = Up(e)
  BY DEF Woken, Up
<1> QED
  BY <1>10, <1>11, <1>12 DEF HeardNext

\* The clock and sched.kill.
LEMMA UnblockIsHeard ==
    ASSUME Listening, NEW t \in Threads, Expire(t) \/ Kill(t)
    PROVE  HeardNext
<1>1. PICK p, e, st, dn, inf : /\ p = pending /\ e = ev /\ st = StageOf(record) /\ dn = doing
                               /\ inf = inflight
  OBVIOUS
<1>2. /\ WaitOK(e.wait, st, dn) /\ HearOK(e.wait, Up(e), p, Room(inf), dn) /\ p \in Seq(Clients)
  BY <1>1 DEF Listening, IInv, ListOK
<1>3. PICK x : x = Unblock(e.wait, t)
  OBVIOUS
<1>4. x.woken = e.wait.woken /\ \A q, u : Queued(x, q, u) <=> Queued(e.wait, q, u)
  BY <1>2, <1>3, ThreadUnblocks
<1>5. MoreAwake(e.wait, x)
  BY <1>4 DEF MoreAwake, QueuedOn, WokenBy
<1>6. HearOK(x, Up(e), p, Room(inf), dn)
  BY <1>2, <1>5, StillHeard, RoomIsFinite
<1>7. ev' = Woken(e, x) /\ pending' = p /\ doing' = dn /\ inflight' = inf
  BY <1>1, <1>3 DEF Expire, Kill, channel
<1>8. Woken(e, x).wait = x /\ Up(Woken(e, x)) = Up(e)
  BY DEF Woken, Up
<1> QED
  BY <1>6, <1>7, <1>8 DEF HeardNext

\* Every step keeps calls heard.
LEMMA HearingKeeps == IInv /\ Hears /\ [Next]_vars => Hears'
<1> SUFFICES ASSUME IInv, Hears, [Next]_vars, ~missed' PROVE HeardNext
  <2>1. IInv /\ Hears /\ [Next]_vars => Plain'
    BY PlainKeeps DEF Hears
  <2> QED
    BY <2>1 DEF Hears, HeardNext, Up
<1>1. CASE pending' = <<>>
  <2>1. Up(ev') = 0
    BY <1>1, PlainKeeps DEF Hears, Plain, Up
  <2>2. PICK w, f, dx : w = ev'.wait /\ dx = doing' /\ f = Room(inflight')
    OBVIOUS
  <2>3. HearOK(w, 0, <<>>, f, dx)
    BY NothingToHear
  <2> QED
    BY <1>1, <2>1, <2>2, <2>3 DEF HeardNext
<1>2. CASE pending' # <<>>
  <2>1. ASSUME ~missed PROVE Listening
    BY <1>2, <2>1 DEF Listening, Hears
  <2>2. ASSUME NEW c \in Clients, ClientStep(c) PROVE HeardNext
    <3>1. ~missed
      BY <1>2, <2>2 DEF ClientStep, Call, CallAgain, GiveUp, Fail, TakeAnswer, Misses
    <3> QED
      BY <2>1, <2>2, <3>1, CallIsAnnounced, CallerLeavesHeard DEF ClientStep
  <2>3. ASSUME NEW s \in Servers, ServerStep(s) PROVE HeardNext
    <3>1. ~missed
      BY <1>2, <2>3 DEF ServerStep, Recv, WaitReady, ServerAgain, RecvLoop, TakeCall, ReadyLoop,
                        Reply, CloseServing, Misses
    <3>2. Listening
      BY <2>1, <3>1
    <3>3. ASSUME NEW d, Recv(s, d) \/ WaitReady(s, d) \/ ServerAgain(s) PROVE HeardNext
      BY <3>2, <3>3, ServerHears
    <3>4. ASSUME NEW token \in Tokens, NEW S, Reply(s, token, S) PROVE HeardNext
      BY <3>2, <3>4, ReplyIsHeard
    <3>5. ~CloseServing(s)
      BY <1>2 DEF CloseServing
    <3> QED
      BY <2>3, <3>3, <3>4, <3>5 DEF ServerStep
  <2>4. ASSUME NEW t \in Threads, Expire(t) \/ Kill(t) PROVE HeardNext
    <3>1. ~missed
      BY <2>4 DEF Expire, Kill
    <3> QED
      BY <2>1, <2>4, <3>1, UnblockIsHeard
  <2>5. ASSUME UNCHANGED <<channel, ev, doing, missed>> PROVE HeardNext
    BY <2>5 DEF Hears, HeardNext, channel, Up
  <2>6. ASSUME NEW t \in Threads, NEW o \in Objects, CloseHandle(t, o) PROVE HeardNext
    BY <2>5, <2>6 DEF CloseHandle
  <2>7. CASE UNCHANGED vars
    BY <2>5, <2>7 DEF vars
  <2> QED
    BY <2>2, <2>3, <2>4, <2>6, <2>7 DEF Next
<1> QED
  BY <1>1, <1>2

\* While there are slots for calls and a server is on recv's list, one is woken there.
LEMMA SomeoneInRecv ==
    ASSUME NEW w, NEW n, NEW p \in Seq(Clients), NEW f \in Nat, NEW dn, HearOK(w, n, p, f, dn),
           p # <<>>, f # 0, QueuedOn(w, "recv") # {}
    PROVE  WokenBy(w, "recv") # {}
<1>1. Len(p) \in Nat /\ Len(p) # 0
  BY EmptyList
<1>2. PICK a \in Nat : a = Cardinality(WokenBy(w, "recv"))
  BY WokenAreFinite
<1>3. Len(p) <= a \/ f <= a
  BY <1>2 DEF HearOK, RecvHeard
<1>4. a # 0
  BY <1>1, <1>3
<1>5. Cardinality({}) = 0
  BY FS_EmptySet
<1> QED
  BY <1>2, <1>4, <1>5

\* A server asleep has a woken one, or one that was told, to hear for it.
LEMMA HearingFollows == IInv /\ Hears => CallIsHeard
<1> SUFFICES ASSUME IInv, Hears, NEW s \in Servers,
                    ServerAsleep(s), pending # <<>>, FreeSlots # {}, ~missed
             PROVE  \E u \in Servers : ev.wait.woken[u] # {} \/ doing[u] = "due"
  BY DEF CallIsHeard
<1>1. PICK p, w, n, f, dn : /\ p = pending /\ w = ev.wait /\ n = Up(ev) /\ dn = doing
                            /\ f = Room(inflight)
  OBVIOUS
<1>2. HearOK(w, n, p, f, dn) /\ p # <<>> /\ p \in Seq(Clients)
  BY <1>1 DEF Hears, IInv, ListOK
<1>3. f \in Nat /\ f # 0
  <2>1. PICK inf : inf = inflight
    OBVIOUS
  <2> QED
    BY <1>1, <2>1, RoomIsFinite, NoRoom
<1>4. \A u \in Servers : /\ \A q \in Queues : Queued(w, q, u)
                               <=> q = dn[u] /\ q \in Lists /\ q \notin w.woken[u]
                         /\ w.woken[u] # {} => Ready(w, u)
  BY <1>1 DEF IInv, WaitOK, ServerWaits
<1>5. dn[s] \in Lists /\ Queued(w, dn[s], s)
  <2>1. dn[s] \in {"recv", "ready"} /\ ~Ready(w, s)
    BY <1>1 DEF ServerAsleep
  <2> QED
    BY <1>4, <2>1, Names DEF Lists
<1>6. ASSUME NEW u \in Servers, dn[u] = "recv"
      PROVE  \E v \in Servers : w.woken[v] # {}
  <2>1. CASE w.woken[u] # {}
    BY <2>1
  <2>2. CASE w.woken[u] = {}
    <3>1. QueuedOn(w, "recv") # {}
      BY <1>4, <1>6, <2>2, Names DEF QueuedOn, Lists
    <3>2. WokenBy(w, "recv") # {}
      BY <1>2, <1>3, <3>1, SomeoneInRecv
    <3> QED
      BY <3>2 DEF WokenBy
  <2> QED
    BY <2>1, <2>2
<1>7. CASE dn[s] = "recv"
  BY <1>1, <1>6, <1>7
<1>8. CASE dn[s] = "ready" /\ n = 0
  <2>1. PICK u \in Servers : dn[u] \in {"due", "recv"}
    BY <1>2, <1>8 DEF HearOK
  <2> QED
    BY <1>1, <1>6, <2>1
<1>9. CASE dn[s] = "ready" /\ n # 0
  <2>1. QueuedOn(w, "ready") # {} /\ n = 1
    BY <1>2, <1>5, <1>9 DEF QueuedOn, HearOK, ReadyHeard
  <2>2. WokenBy(w, "ready") # {}
    BY <1>2, <2>1 DEF HearOK, ReadyHeard
  <2> QED
    BY <1>1, <2>2 DEF WokenBy
<1> QED
  BY <1>5, <1>7, <1>8, <1>9 DEF Lists

\* Calls are heard at first: there are none.
LEMMA HearingBegins == Init => Hears
<1> SUFFICES ASSUME Init PROVE Hears
  OBVIOUS
<1>1. pending = <<>> /\ Up(ev) = 0 /\ ~missed
  BY Names DEF Init, QuietEvents, Up
<1>2. PICK w, f, dn : w = ev.wait /\ f = Room(inflight) /\ dn = doing
  OBVIOUS
<1>3. HearOK(w, 0, <<>>, f, dn)
  BY NothingToHear
<1> QED
  BY <1>1, <1>2, <1>3 DEF Hears, Plain

\* No server sleeps through a call that a slot is free for, for any number of
\* callers, slots and servers in recv and in wait_many, with the reply table full
\* as often as it may be, until a call has been missed (pushPending, refreshReady,
\* recv and reply of channel.zig).
THEOREM CallIsHeardHolds == Spec => []CallIsHeard
BY InitHolds, NextKeeps, HearingBegins, HearingKeeps, HearingFollows, PTL DEF Spec

==============================================================================
