----------------------------- MODULE SvcRegistry -----------------------------
(***************************************************************************)
(* src/src/kernel/svc.zig, the table of service names, with the system     *)
(* calls that register and connect (src/src/kernel/syscall/ipc.zig) and a  *)
(* process that watches the table for a name (awaitReady of                *)
(* src/src/user/init.zig).                                                 *)
(*                                                                         *)
(* Each action is one stretch with interrupts off; a system call is        *)
(* several.  A channel counts its references; one that reaches none is     *)
(* destroyed and its name here may be taken by a new one.                  *)
(***************************************************************************)
EXTENDS EventObject, FiniteSets, FiniteSetsExt

CONSTANTS Servers, Clients, Watcher,
          Names, Channels,
          TableSize,        \* MAX_SERVICES
          Full,             \* processes whose handle table may have no room
          None

ASSUME RegistryAssumption ==
    /\ Servers \cap Clients = {} /\ Watcher \notin Servers \cup Clients
    /\ Full \subseteq Servers \cup Clients
    /\ TableSize \in Nat \ {0} /\ None \notin Names \cup Channels
    /\ IsFiniteSet(Servers) /\ IsFiniteSet(Clients)

VARIABLES table,        \* the entries: NoEntry, or a name and a channel
          refs,         \* Channel.refs; 0 is a channel that does not exist
          serving,      \* the channels whose Channel.serving is set
          proc,         \* the call each server or client is in
          ev,           \* `changed`, and the watcher's wait on it
          seen,         \* the names the watcher found when it last looked
          watching,     \* the watcher is between its look and the end of its wait
          ousted        \* channels whose entry another registration's undoing took

vars == <<table, refs, serving, proc, ev, seen, watching, ousted>>

Slots == 1..TableSize
NoEntry == [name |-> None, ch |-> None]
Outside == [at |-> "outside", name |-> None, ch |-> None]
Changed == "changed"

Init ==
    /\ table = [k \in Slots |-> NoEntry]
    /\ refs = [ch \in Channels |-> 0] /\ serving = {}
    /\ proc = [p \in Servers \cup Clients |-> Outside]
    /\ ev = QuietEvents({Watcher}, {Changed})
    /\ seen = {} /\ watching = FALSE /\ ousted = {}

IsLive(e) == e.ch \in serving

\* The names `list` answers with.
LiveNames == {e.name : e \in {table[k] : k \in {j \in Slots : IsLive(table[j])}}}

Becomes(p, at) ==
    proc' = [proc EXCEPT ![p] = [at |-> at, name |-> proc[p].name, ch |-> proc[p].ch]]
Returns(p) == proc' = [proc EXCEPT ![p] = Outside]

\* channel.release: the last reference takes the channel with it.
Released(r, C) == [ch \in Channels |-> IF ch \in C THEN r[ch] - 1 ELSE r[ch]]
StillServing(r, S) == {ch \in S : r[ch] > 0}

-----------------------------------------------------------------------------
(* sys_svc_register *)

\* channel.create
Create(p, name, ch) ==
    /\ p \in Servers /\ proc[p] = Outside /\ refs[ch] = 0
    /\ refs' = [refs EXCEPT ![ch] = 1]
    /\ serving' = serving \cup {ch}
    /\ proc' = [proc EXCEPT ![p] = [at |-> "created", name |-> name, ch |-> ch]]
    /\ ousted' = ousted \ {ch}
    /\ UNCHANGED <<table, ev, seen, watching>>

\* The entries place retires: the name's, when their server has gone.
DeadEntries(name) == {k \in Slots : table[k].name = name /\ ~IsLive(table[k])}

\* A live server blocks its name.
Taken(name) == \E k \in Slots : table[k].name = name /\ IsLive(table[k])

\* A plausible slip: the next entry is taken, free or not.
FreeEntriesAny(entries) == Slots

FreeEntries(entries) == {k \in Slots : entries[k] = NoEntry}

\* place: the name's dead entries are retired and the first free entry taken;
\* a live one, or a full table, is refused and the channel let go.
Place(p) ==
    /\ proc[p].at = "created"
    /\ LET name == proc[p].name
           ch == proc[p].ch
           gone == IF Taken(name) THEN {} ELSE DeadEntries(name)
           cleared == [k \in Slots |-> IF k \in gone THEN NoEntry ELSE table[k]]
           free == FreeEntries(cleared)
           dropped == Released(refs, {table[k].ch : k \in gone})
       IN  \/ /\ ~Taken(name) /\ free # {}
              /\ table' = [cleared EXCEPT ![Min(free)] = [name |-> name, ch |-> ch]]
              /\ refs' = [dropped EXCEPT ![ch] = @ + 1]
              /\ Becomes(p, "placed")
              /\ UNCHANGED serving
           \/ /\ Taken(name) \/ free = {}
              /\ table' = cleared
              /\ refs' = Released(dropped, {ch})
              /\ serving' = StillServing(refs', serving)
              /\ Returns(p)
    /\ UNCHANGED <<ev, seen, watching, ousted>>

\* A plausible slip: the table changes and nobody is told.
RaisedNever == ev

\* changed.signal
Raised == SignalLocked(ev, Changed)

\* register's signal, once interrupts are back.
Announce(p) ==
    /\ proc[p].at = "placed"
    /\ ev' = Raised
    /\ Becomes(p, "announced")
    /\ UNCHANGED <<table, refs, serving, seen, watching, ousted>>

\* installHandle: the handle takes creation's reference over, or is dropped,
\* which stops the channel.
Install(p) ==
    /\ proc[p].at = "announced"
    /\ \/ /\ Becomes(p, "serving")
          /\ UNCHANGED <<refs, serving>>
       \/ /\ p \in Full
          /\ refs' = Released(refs, {proc[p].ch})
          /\ serving' = serving \ {proc[p].ch}
          /\ Becomes(p, "unwinding")
    /\ UNCHANGED <<table, ev, seen, watching, ousted>>

\* withdraw, by name: the entry may be another server's by now.
Withdraw(p) ==
    /\ proc[p].at = "unwinding"
    /\ LET under == {k \in Slots : table[k].name = proc[p].name}
           k == Min(under)
       IN  \/ /\ under # {}
              /\ table' = [table EXCEPT ![k] = NoEntry]
              /\ refs' = Released(refs, {table[k].ch})
              /\ serving' = StillServing(refs', serving)
              /\ ousted' = ousted \cup ({table[k].ch} \cap serving)
              /\ Becomes(p, "withdrawn")
           \/ /\ under = {}
              /\ Returns(p)
              /\ UNCHANGED <<table, refs, serving, ousted>>
    /\ UNCHANGED <<ev, seen, watching>>

\* unregister's signal.
Unregistered(p) ==
    /\ proc[p].at = "withdrawn"
    /\ ev' = Raised
    /\ Returns(p)
    /\ UNCHANGED <<table, refs, serving, seen, watching, ousted>>

\* The serving handle closes, or its process ends: stopServing, then release.
CloseServing(p) ==
    /\ proc[p].at = "serving"
    /\ refs' = Released(refs, {proc[p].ch})
    /\ serving' = serving \ {proc[p].ch}
    /\ Returns(p)
    /\ UNCHANGED <<table, ev, seen, watching, ousted>>

-----------------------------------------------------------------------------
(* sys_svc_connect *)

EntryFor(name) == Min({k \in Slots : table[k].name = name})

\* A plausible slip: the channel is handed out on the table's reference.
LookedUpUncounted(ch) == refs

\* The reference lookup takes for its caller.
LookedUp(ch) == [refs EXCEPT ![ch] = @ + 1]

\* lookup: a channel that is served, or an entry whose server has gone, retired.
Lookup(c, name) ==
    /\ c \in Clients /\ proc[c] = Outside
    /\ \E k \in Slots : table[k].name = name
    /\ LET k == EntryFor(name)
           ch == table[k].ch
       IN  \/ /\ IsLive(table[k])
              /\ refs' = LookedUp(ch)
              /\ proc' = [proc EXCEPT ![c] = [at |-> "found", name |-> name, ch |-> ch]]
              /\ UNCHANGED <<table, serving>>
           \/ /\ ~IsLive(table[k])
              /\ table' = [table EXCEPT ![k] = NoEntry]
              /\ refs' = Released(refs, {ch})
              /\ UNCHANGED <<serving, proc>>
    /\ UNCHANGED <<ev, seen, watching, ousted>>

Connect(c) ==
    /\ proc[c].at = "found"
    /\ \/ /\ Becomes(c, "connected")
          /\ UNCHANGED <<refs, serving>>
       \/ /\ c \in Full
          /\ refs' = Released(refs, {proc[c].ch})
          /\ serving' = StillServing(refs', serving)
          /\ Returns(c)
    /\ UNCHANGED <<table, ev, seen, watching, ousted>>

CloseClient(c) ==
    /\ proc[c].at = "connected"
    /\ refs' = Released(refs, {proc[c].ch})
    /\ serving' = StillServing(refs', serving)
    /\ Returns(c)
    /\ UNCHANGED <<table, ev, seen, watching, ousted>>

-----------------------------------------------------------------------------
(* The watcher *)

\* svc.list, by the supervisor that waits for a name.
Look ==
    /\ ~watching
    /\ seen' = LiveNames
    /\ watching' = TRUE
    /\ UNCHANGED <<table, refs, serving, proc, ev, ousted>>

\* waitMany on `changed`, entered or re-entered.
Wait ==
    /\ watching /\ Ready(ev.wait, Watcher)
    /\ LET e == [ev EXCEPT !.wait = Leave(@, Watcher)] IN
        \/ /\ e.count[Changed] > 0
           /\ ev' = Consume(e, Changed)
           /\ watching' = FALSE
        \/ /\ e.count[Changed] = 0
           /\ ev' = BlockOn(e, Watcher, {Changed}, FALSE)
           /\ UNCHANGED watching
    /\ UNCHANGED <<table, refs, serving, proc, seen, ousted>>

Next ==
    \/ \E p \in Servers :
        \/ \E name \in Names, ch \in Channels : Create(p, name, ch)
        \/ Place(p) \/ Announce(p) \/ Install(p) \/ Withdraw(p) \/ Unregistered(p)
        \/ CloseServing(p)
    \/ \E c \in Clients :
        \/ \E name \in Names : Lookup(c, name)
        \/ Connect(c) \/ CloseClient(c)
    \/ Look \/ Wait

Spec == Init /\ [][Next]_vars

-----------------------------------------------------------------------------
TypeOK ==
    /\ table \in [Slots -> [name : Names, ch : Channels] \cup {NoEntry}]
    /\ refs \in [Channels -> 0..(TableSize + Cardinality(Servers) + Cardinality(Clients))]
    /\ serving \subseteq {ch \in Channels : refs[ch] > 0}
    /\ proc \in [Servers \cup Clients ->
                    [at : {"created", "placed", "announced", "serving", "unwinding",
                           "withdrawn", "found", "connected"},
                     name : Names, ch : Channels] \cup {Outside}]
    /\ ev \in EventRecords({Watcher}, {Changed})
    /\ seen \subseteq Names /\ watching \in BOOLEAN /\ ousted \subseteq Channels

HasReference(p, ch) ==
    /\ proc[p].ch = ch
    /\ proc[p].at \in {"created", "placed", "announced", "serving", "found", "connected"}

\* Every reference a channel counts is an entry's, a handle's or a call's in
\* progress, and the other way round: an entry or a handle never names a
\* channel that has been destroyed (svc.zig:61-66, 119-133, ipc.zig:155-178).
ReferencesBalance ==
    \A ch \in Channels :
        refs[ch] = Cardinality({k \in Slots : table[k].ch = ch})
                     + Cardinality({p \in Servers \cup Clients : HasReference(p, ch)})

\* A name has one entry: one whose server has gone never hides, or outlives,
\* the one that replaced it (svc.zig:78-83, 97-101).
OneEntryPerName ==
    \A j, k \in Slots : table[j] # NoEntry /\ table[j].name = table[k].name => j = k

\* The table stays a mapping from names to channels that exist, for as long as
\* somebody holds them and no longer.
RegistryIsSound == TypeOK /\ OneEntryPerName /\ ReferencesBalance

\* A server that has been given its name and goes on serving is found under it
\* (svc.zig:82-83: "Only a live server blocks a name"), with one exception:
\* a registration of the same name that fails for want of a handle is undone by
\* name, and may find the next server's entry there (ipc.zig:174-176).
ServedNameIsFound ==
    \A p \in Servers :
        proc[p].at \in {"placed", "announced", "serving"} /\ proc[p].ch \notin ousted =>
            \E k \in Slots : table[k] = [name |-> proc[p].name, ch |-> proc[p].ch]

WatcherAsleep == watching /\ ~Ready(ev.wait, Watcher)

\* The watcher is not asleep beside a name it has not seen, unless the server
\* that took the name has yet to say so (svc.zig:68-72, 84-89).
WatcherHearsOfNames ==
    WatcherAsleep =>
        \A name \in LiveNames \ seen :
            \E p \in Servers : proc[p].at = "placed" /\ proc[p].name = name

==============================================================================
