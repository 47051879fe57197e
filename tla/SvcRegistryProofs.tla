-------------------------- MODULE SvcRegistryProofs --------------------------
(***************************************************************************)
(* SvcRegistry for any table, any names, channels, servers and clients.    *)
(***************************************************************************)
EXTENDS SvcRegistry, WaitQueueProofs, FiniteSetTheorems

Procs == Servers \cup Clients
Holding == {"created", "placed", "announced", "serving", "found", "connected"}

\* Who refers to channel c, in a table and in the processes' hands.
Entries(tb, c) == {k \in Slots : tb[k].ch = c}
Holds(pr, c) == {p \in Procs : pr[p].ch = c /\ pr[p].at \in Holding}

Balanced(r, tb, pr) ==
    \A c \in Channels : r[c] = Cardinality(Entries(tb, c)) + Cardinality(Holds(pr, c))

LEMMA FiniteHolders ==
    ASSUME NEW tb, NEW pr, NEW c
    PROVE  /\ IsFiniteSet(Entries(tb, c)) /\ Cardinality(Entries(tb, c)) \in Nat
           /\ Cardinality(Entries(tb, c)) <= TableSize
           /\ IsFiniteSet(Holds(pr, c)) /\ Cardinality(Holds(pr, c)) \in Nat
           /\ Cardinality(Holds(pr, c)) <= Cardinality(Servers) + Cardinality(Clients)
           /\ Cardinality(Servers) \in Nat /\ Cardinality(Clients) \in Nat
<1>1. /\ IsFiniteSet(Slots) /\ Cardinality(Slots) = TableSize
  <2>1. 1 \in Int /\ TableSize \in Int /\ 1 <= TableSize
    BY RegistryAssumption
  <2>2. /\ IsFiniteSet(1..TableSize)
        /\ Cardinality(1..TableSize) = IF 1 > TableSize THEN 0 ELSE TableSize - 1 + 1
    BY <2>1, FS_Interval
  <2> QED
    BY <2>1, <2>2 DEF Slots
<1>2. /\ IsFiniteSet(Procs) /\ Cardinality(Procs) = Cardinality(Servers) + Cardinality(Clients)
      /\ Cardinality(Servers) \in Nat /\ Cardinality(Clients) \in Nat
  <2>1. /\ IsFiniteSet(Procs)
        /\ Cardinality(Procs) = Cardinality(Servers) + Cardinality(Clients) - Cardinality(Servers \cap Clients)
    BY RegistryAssumption, FS_Union DEF Procs
  <2>2. Cardinality(Servers \cap Clients) = 0
    BY RegistryAssumption, FS_EmptySet
  <2>3. Cardinality(Servers) \in Nat /\ Cardinality(Clients) \in Nat
    BY RegistryAssumption, FS_CardinalityType
  <2> QED
    BY <2>1, <2>2, <2>3
<1>3. Entries(tb, c) \subseteq Slots /\ Holds(pr, c) \subseteq Procs
  BY DEF Entries, Holds
<1>4. /\ IsFiniteSet(Entries(tb, c)) /\ Cardinality(Entries(tb, c)) <= TableSize
      /\ IsFiniteSet(Holds(pr, c))
      /\ Cardinality(Holds(pr, c)) <= Cardinality(Servers) + Cardinality(Clients)
  BY <1>1, <1>2, <1>3, FS_Subset
<1> QED
  BY <1>2, <1>4, FS_CardinalityType

\* An entry is cleared and its reference released.
LEMMA EntryCleared ==
    ASSUME NEW r \in [Channels -> Nat], NEW tb, DOMAIN tb = Slots, NEW pr, Balanced(r, tb, pr),
           NEW k \in Slots, tb[k].ch \in Channels,
           NEW ub, ub = [tb EXCEPT ![k] = NoEntry]
    PROVE  /\ Balanced(Released(r, {tb[k].ch}), ub, pr)
           /\ Released(r, {tb[k].ch}) \in [Channels -> Nat]
<1>1. ASSUME NEW c \in Channels
      PROVE  /\ Released(r, {tb[k].ch})[c]
                  = Cardinality(Entries(ub, c)) + Cardinality(Holds(pr, c))
             /\ Released(r, {tb[k].ch})[c] \in Nat
  <2>1. r[c] = Cardinality(Entries(tb, c)) + Cardinality(Holds(pr, c))
    BY DEF Balanced
  <2>2. Released(r, {tb[k].ch})[c] = IF c = tb[k].ch THEN r[c] - 1 ELSE r[c]
    BY DEF Released
  <2>3. c # None
    BY RegistryAssumption
  <2>4. Entries(ub, c) = Entries(tb, c) \ {k}
    BY <2>3 DEF Entries, NoEntry
  <2>5. CASE c = tb[k].ch
    <3>1. k \in Entries(tb, c)
      BY <2>5 DEF Entries
    <3>2. Cardinality(Entries(ub, c)) = Cardinality(Entries(tb, c)) - 1
      BY <2>4, <3>1, FiniteHolders, FS_RemoveElement
    <3>3. Cardinality(Entries(ub, c)) \in Nat /\ Cardinality(Entries(tb, c)) \in Nat
          /\ Cardinality(Holds(pr, c)) \in Nat
      BY FiniteHolders
    <3> QED
      BY <2>1, <2>2, <2>5, <3>2, <3>3
  <2>6. CASE c # tb[k].ch
    <3>1. Entries(ub, c) = Entries(tb, c)
      BY <2>4, <2>6 DEF Entries
    <3> QED
      BY <2>1, <2>2, <2>6, <3>1
  <2> QED
    BY <2>5, <2>6
<1>2. Released(r, {tb[k].ch}) = [c \in Channels |-> Released(r, {tb[k].ch})[c]]
  BY DEF Released
<1> QED
  BY <1>1, <1>2 DEF Balanced

\* A free entry is filled and a reference counted.
LEMMA EntryFilled ==
    ASSUME NEW r \in [Channels -> Nat], NEW tb, DOMAIN tb = Slots, NEW pr, Balanced(r, tb, pr),
           NEW k \in Slots, tb[k] = NoEntry, NEW name, NEW ch \in Channels,
           NEW ub, ub = [tb EXCEPT ![k] = [name |-> name, ch |-> ch]]
    PROVE  /\ Balanced([r EXCEPT ![ch] = @ + 1], ub, pr)
           /\ [r EXCEPT ![ch] = @ + 1] \in [Channels -> Nat]
<1>1. ASSUME NEW c \in Channels
      PROVE  [r EXCEPT ![ch] = @ + 1][c] = Cardinality(Entries(ub, c)) + Cardinality(Holds(pr, c))
  <2>1. r[c] = Cardinality(Entries(tb, c)) + Cardinality(Holds(pr, c))
    BY DEF Balanced
  <2>2. c # None
    BY RegistryAssumption
  <2>3. CASE c = ch
    <3>1. Entries(ub, c) = Entries(tb, c) \cup {k} /\ k \notin Entries(tb, c)
      BY <2>2, <2>3 DEF Entries, NoEntry
    <3>2. Cardinality(Entries(ub, c)) = Cardinality(Entries(tb, c)) + 1
      BY <3>1, FiniteHolders, FS_AddElement
    <3>3. Cardinality(Entries(ub, c)) \in Nat /\ Cardinality(Entries(tb, c)) \in Nat
          /\ Cardinality(Holds(pr, c)) \in Nat
      BY FiniteHolders
    <3> QED
      BY <2>1, <2>3, <3>2, <3>3
  <2>4. CASE c # ch
    <3>1. Entries(ub, c) = Entries(tb, c)
      BY <2>2, <2>4 DEF Entries, NoEntry
    <3> QED
      BY <2>1, <2>4, <3>1
  <2> QED
    BY <2>3, <2>4
<1>2. [r EXCEPT ![ch] = @ + 1] \in [Channels -> Nat]
  OBVIOUS
<1> QED
  BY <1>1, <1>2, Zenon DEF Balanced

\* A process lets its reference go.
LEMMA HoldDropped ==
    ASSUME NEW r \in [Channels -> Nat], NEW tb, NEW pr, DOMAIN pr = Procs, Balanced(r, tb, pr),
           NEW p \in Procs, pr[p].at \in Holding, pr[p].ch \in Channels,
           NEW q, q.at \notin Holding, NEW qr, qr = [pr EXCEPT ![p] = q]
    PROVE  /\ Balanced(Released(r, {pr[p].ch}), tb, qr)
           /\ Released(r, {pr[p].ch}) \in [Channels -> Nat]
<1>1. ASSUME NEW c \in Channels
      PROVE  /\ Released(r, {pr[p].ch})[c]
                  = Cardinality(Entries(tb, c)) + Cardinality(Holds(qr, c))
             /\ Released(r, {pr[p].ch})[c] \in Nat
  <2>1. r[c] = Cardinality(Entries(tb, c)) + Cardinality(Holds(pr, c))
    BY DEF Balanced
  <2>2. Released(r, {pr[p].ch})[c] = IF c = pr[p].ch THEN r[c] - 1 ELSE r[c]
    BY DEF Released
  <2>3. Holds(qr, c) = Holds(pr, c) \ {p}
    BY DEF Holds
  <2>4. CASE c = pr[p].ch
    <3>1. p \in Holds(pr, c)
      BY <2>4 DEF Holds
    <3>2. Cardinality(Holds(qr, c)) = Cardinality(Holds(pr, c)) - 1
      BY <2>3, <3>1, FiniteHolders, FS_RemoveElement
    <3>3. Cardinality(Holds(qr, c)) \in Nat /\ Cardinality(Entries(tb, c)) \in Nat
          /\ Cardinality(Holds(pr, c)) \in Nat
      BY FiniteHolders
    <3> QED
      BY <2>1, <2>2, <2>4, <3>2, <3>3
  <2>5. CASE c # pr[p].ch
    <3>1. Holds(qr, c) = Holds(pr, c)
      BY <2>3, <2>5 DEF Holds
    <3> QED
      BY <2>1, <2>2, <2>5, <3>1
  <2> QED
    BY <2>4, <2>5
<1>2. Released(r, {pr[p].ch}) = [c \in Channels |-> Released(r, {pr[p].ch})[c]]
  BY DEF Released
<1> QED
  BY <1>1, <1>2 DEF Balanced

\* A process is given a reference.
LEMMA HoldTaken ==
    ASSUME NEW r \in [Channels -> Nat], NEW tb, NEW pr, DOMAIN pr = Procs, Balanced(r, tb, pr),
           NEW p \in Procs, pr[p].at \notin Holding, NEW ch \in Channels,
           NEW q, q.at \in Holding, q.ch = ch, NEW qr, qr = [pr EXCEPT ![p] = q]
    PROVE  /\ Balanced([r EXCEPT ![ch] = @ + 1], tb, qr)
           /\ [r EXCEPT ![ch] = @ + 1] \in [Channels -> Nat]
<1>1. ASSUME NEW c \in Channels
      PROVE  [r EXCEPT ![ch] = @ + 1][c] = Cardinality(Entries(tb, c)) + Cardinality(Holds(qr, c))
  <2>1. r[c] = Cardinality(Entries(tb, c)) + Cardinality(Holds(pr, c))
    BY DEF Balanced
  <2>2. CASE c = ch
    <3>1. Holds(qr, c) = Holds(pr, c) \cup {p} /\ p \notin Holds(pr, c)
      BY <2>2 DEF Holds
    <3>2. Cardinality(Holds(qr, c)) = Cardinality(Holds(pr, c)) + 1
      BY <3>1, FiniteHolders, FS_AddElement
    <3>3. Cardinality(Holds(qr, c)) \in Nat /\ Cardinality(Entries(tb, c)) \in Nat
          /\ Cardinality(Holds(pr, c)) \in Nat
      BY FiniteHolders
    <3> QED
      BY <2>1, <2>2, <3>2, <3>3
  <2>3. CASE c # ch
    <3>1. Holds(qr, c) = Holds(pr, c)
      BY <2>3 DEF Holds
    <3> QED
      BY <2>1, <2>3, <3>1
  <2> QED
    BY <2>2, <2>3
<1>2. [r EXCEPT ![ch] = @ + 1] \in [Channels -> Nat]
  OBVIOUS
<1> QED
  BY <1>1, <1>2, Zenon DEF Balanced

\* A process that goes on with, or without, its reference.
LEMMA HoldKept ==
    ASSUME NEW r, NEW tb, NEW pr, DOMAIN pr = Procs, Balanced(r, tb, pr), NEW p \in Procs,
           NEW q, q.at \in Holding <=> pr[p].at \in Holding,
           q.at \in Holding => q.ch = pr[p].ch,
           NEW qr, qr = [pr EXCEPT ![p] = q]
    PROVE  Balanced(r, tb, qr)
<1>1. \A c : Holds(qr, c) = Holds(pr, c)
  BY DEF Holds
<1> QED
  BY <1>1 DEF Balanced

-----------------------------------------------------------------------------
(* The table. *)

\* A server between channel.create and the close of its serving handle.
Owning == {"created", "placed", "announced", "serving"}
Registered == {"placed", "announced", "serving"}

EntryType == [name : Names, ch : Channels] \cup {NoEntry}
ProcType ==
    [at : {"created", "placed", "announced", "serving", "unwinding", "withdrawn",
           "found", "connected"},
     name : Names, ch : Channels] \cup {Outside}

TableTyped ==
    /\ table \in [Slots -> EntryType]
    /\ refs \in [Channels -> Nat]
    /\ serving \subseteq {ch \in Channels : refs[ch] > 0}
    /\ proc \in [Procs -> ProcType]
    /\ ousted \subseteq Channels

\* A server's channel is served until the server itself stops, and is nobody
\* else's.
ServersServe == \A p \in Servers : proc[p].at \in Owning => proc[p].ch \in serving
OwnChannels ==
    \A p, q \in Servers :
        proc[p].at \in Owning /\ proc[q].at \in Owning /\ proc[p].ch = proc[q].ch => p = q

\* The inductive invariant of the table.
TableInv ==
    /\ TableTyped /\ Balanced(refs, table, proc)
    /\ OneEntryPerName /\ ServersServe /\ OwnChannels
    /\ ServedNameIsFound

\* The scan of the table finds an entry of the kind it looks for.
LEMMA ScanFinds ==
    ASSUME NEW S \in SUBSET Slots, S # {}
    PROVE  Min(S) \in S
<1>1. S \in SUBSET Nat
  BY RegistryAssumption DEF Slots
<1>2. \E x \in S : \A y \in S : x <= y
  BY <1>1, LeastExists
<1> QED
  BY <1>2 DEF Min

\* A channel somebody refers to has not been destroyed.
LEMMA HeldIsCounted ==
    ASSUME NEW r, NEW tb, NEW pr, Balanced(r, tb, pr), NEW c \in Channels,
           Entries(tb, c) # {} \/ Holds(pr, c) # {}
    PROVE  r[c] > 0
<1>1. r[c] = Cardinality(Entries(tb, c)) + Cardinality(Holds(pr, c))
  BY DEF Balanced
<1>2. /\ IsFiniteSet(Entries(tb, c)) /\ Cardinality(Entries(tb, c)) \in Nat
      /\ IsFiniteSet(Holds(pr, c)) /\ Cardinality(Holds(pr, c)) \in Nat
  BY FiniteHolders
<1>3. Cardinality(Entries(tb, c)) # 0 \/ Cardinality(Holds(pr, c)) # 0
  BY <1>2, FS_EmptySet
<1> QED
  BY <1>1, <1>2, <1>3

\* What an entry and a process are.
LEMMA TypeFacts ==
    /\ \A e \in EntryType : e = NoEntry \/ (e.name \in Names /\ e.ch \in Channels /\ e # NoEntry)
    /\ \A q \in ProcType : q.at # "outside" => q.name \in Names /\ q.ch \in Channels
    /\ \A q \in ProcType : q.at = "outside" <=> q = Outside
    /\ Outside \in ProcType /\ NoEntry \in EntryType
    /\ NoEntry.name = None /\ NoEntry.ch = None /\ Outside.at = "outside"
    /\ None \notin Names /\ None \notin Channels
BY RegistryAssumption DEF EntryType, ProcType, NoEntry, Outside

\* Every owner's channel is counted.
LEMMA OwnerIsCounted ==
    ASSUME NEW r, NEW tb, NEW pr, Balanced(r, tb, pr),
           NEW p \in Procs, pr[p] \in ProcType, pr[p].at \in Holding
    PROVE  pr[p].ch \in Channels /\ r[pr[p].ch] > 0
<1>1. pr[p].at # "outside"
  BY DEF Holding
<1>2. pr[p].ch \in Channels /\ p \in Holds(pr, pr[p].ch)
  BY <1>1, TypeFacts DEF Holds
<1> QED
  BY <1>2, HeldIsCounted

\* A step of one process that leaves the table alone.
LEMMA TableKept ==
    ASSUME TableInv, NEW p \in Procs, NEW q \in ProcType, proc' = [proc EXCEPT ![p] = q],
           table' = table, refs' \in [Channels -> Nat], Balanced(refs', table, proc'),
           serving' \subseteq {ch \in Channels : refs'[ch] > 0}, ousted' \subseteq Channels,
           p \in Servers /\ q.at \in Owning => q.ch \in serving',
           \A o \in Servers \ {p} :
               proc[o].at \in Owning =>
                   /\ proc[o].ch \in serving'
                   /\ p \in Servers /\ q.at \in Owning => proc[o].ch # q.ch,
           p \in Servers /\ q.at \in Registered =>
               proc[p].at \in Registered /\ q.name = proc[p].name /\ q.ch = proc[p].ch,
           \A o \in Servers : proc[o].at \in Registered /\ proc[o].ch \in ousted => proc[o].ch \in ousted'
    PROVE  TableInv'
<1>1. /\ proc \in [Procs -> ProcType] /\ table \in [Slots -> EntryType]
      /\ OneEntryPerName /\ ServersServe /\ OwnChannels /\ ServedNameIsFound
  BY DEF TableInv, TableTyped
<1>2. proc'[p] = q /\ (\A o \in Procs \ {p} : proc'[o] = proc[o]) /\ proc' \in [Procs -> ProcType]
  BY <1>1
<1>3. Servers \subseteq Procs
  BY DEF Procs
<1>4. TableTyped'
  BY <1>1, <1>2 DEF TableTyped
<1>5. OneEntryPerName'
  BY <1>1 DEF OneEntryPerName
<1>6. ServersServe'
  BY <1>2, <1>3 DEF ServersServe
<1>7. OwnChannels'
  <2> SUFFICES ASSUME NEW o \in Servers, NEW u \in Servers, proc'[o].at \in Owning,
                      proc'[u].at \in Owning, proc'[o].ch = proc'[u].ch
               PROVE  o = u
    BY DEF OwnChannels
  <2>1. CASE o # p /\ u # p
    BY <1>1, <1>2, <1>3, <2>1 DEF OwnChannels
  <2>2. CASE o = p /\ u # p
    BY <1>2, <1>3, <2>2
  <2>3. CASE o # p /\ u = p
    BY <1>2, <1>3, <2>3
  <2> QED
    BY <2>1, <2>2, <2>3
<1>8. ServedNameIsFound'
  <2> SUFFICES ASSUME NEW o \in Servers, proc'[o].at \in Registered, proc'[o].ch \notin ousted'
               PROVE  \E k \in Slots : table[k] = [name |-> proc'[o].name, ch |-> proc'[o].ch]
    BY DEF ServedNameIsFound, Registered
  <2>1. proc[o].at \in Registered /\ proc'[o].name = proc[o].name /\ proc'[o].ch = proc[o].ch
    BY <1>2, <1>3
  <2> QED
    BY <1>1, <2>1 DEF ServedNameIsFound, Registered
<1> QED
  BY <1>4, <1>5, <1>6, <1>7, <1>8 DEF TableInv

\* An entry goes: it is a dead one, or its channel is among those ousted.
LEMMA EntryGoes ==
    ASSUME TableInv, NEW k \in Slots, table[k] # NoEntry, table' = [table EXCEPT ![k] = NoEntry],
           NEW p \in Procs, NEW q \in ProcType, proc' = [proc EXCEPT ![p] = q] \/ (proc' = proc /\ q = proc[p]),
           q.at \in Holding <=> proc[p].at \in Holding, q.at \in Holding => q.ch = proc[p].ch,
           q.at \in Owning \/ q.at \in Registered \/ proc[p].at \in Owning => q = proc[p],
           refs' = Released(refs, {table[k].ch}),
           \/ serving' = serving /\ table[k].ch \notin serving
           \/ serving' = StillServing(refs', serving),
           ousted' = ousted \cup ({table[k].ch} \cap serving)
    PROVE  TableInv'
<1>1. /\ proc \in [Procs -> ProcType] /\ table \in [Slots -> EntryType] /\ refs \in [Channels -> Nat]
      /\ serving \subseteq {ch \in Channels : refs[ch] > 0} /\ ousted \subseteq Channels
      /\ OneEntryPerName /\ ServersServe /\ OwnChannels /\ ServedNameIsFound
      /\ Balanced(refs, table, proc)
  BY DEF TableInv, TableTyped
<1>2. proc'[p] = q /\ (\A o \in Procs \ {p} : proc'[o] = proc[o]) /\ proc' \in [Procs -> ProcType]
  BY <1>1
<1>3. Servers \subseteq Procs /\ table[k].ch \in Channels /\ table[k].ch # None
  BY <1>1, TypeFacts DEF Procs
<1>4. table'[k] = NoEntry /\ (\A j \in Slots \ {k} : table'[j] = table[j]) /\ table' \in [Slots -> EntryType]
  BY <1>1, TypeFacts
<1>5. refs' \in [Channels -> Nat] /\ Balanced(refs', table', proc')
  <2>1. refs' \in [Channels -> Nat] /\ Balanced(refs', table', proc)
    <3>1. PICK t, u, r : t = table /\ u = table' /\ r = refs
      OBVIOUS
    <3>2. Balanced(Released(r, {t[k].ch}), u, proc) /\ Released(r, {t[k].ch}) \in [Channels -> Nat]
      BY <1>1, <1>3, <3>1, EntryCleared
    <3> QED
      BY <3>1, <3>2
  <2>2. \A c : Holds(proc', c) = Holds(proc, c)
    BY <1>2 DEF Holds
  <2> QED
    BY <2>1, <2>2 DEF Balanced
<1>6. \A c \in Channels \ {table[k].ch} : refs'[c] = refs[c]
  BY DEF Released
<1>7. serving' \subseteq {ch \in Channels : refs'[ch] > 0}
  <2>1. CASE serving' = serving /\ table[k].ch \notin serving
    BY <1>1, <1>6, <2>1
  <2>2. CASE serving' = StillServing(refs', serving)
    BY <1>1, <2>2 DEF StillServing
  <2> QED
    BY <2>1, <2>2
<1>8. TableTyped'
  BY <1>1, <1>2, <1>3, <1>4, <1>5, <1>7 DEF TableTyped
<1>9. OneEntryPerName'
  <2> SUFFICES ASSUME NEW i \in Slots, NEW j \in Slots, table'[i] # NoEntry,
                      table'[i].name = table'[j].name
               PROVE  i = j
    BY DEF OneEntryPerName
  <2>1. i # k /\ table'[i].name \in Names
    BY <1>4, TypeFacts
  <2>2. j # k
    BY <1>4, <2>1, TypeFacts
  <2> QED
    BY <1>1, <1>4, <2>1, <2>2 DEF OneEntryPerName
<1>10. \A o \in Servers : proc'[o].at \in Owning => proc[o] = proc'[o]
  BY <1>2, <1>3
<1>11. \A o \in Servers : proc'[o].at \in Owning => proc'[o].ch \in serving /\ refs'[proc'[o].ch] > 0
  <2> SUFFICES ASSUME NEW o \in Servers, proc'[o].at \in Owning
               PROVE  proc'[o].ch \in serving /\ refs'[proc'[o].ch] > 0
    OBVIOUS
  <2>1. proc'[o].at \in Holding /\ proc'[o] \in ProcType /\ o \in Procs
    BY <1>2, <1>3 DEF Owning, Holding
  <2>2. PICK pr, tb, r : pr = proc' /\ tb = table' /\ r = refs'
    OBVIOUS
  <2>3. r[pr[o].ch] > 0
    BY <1>5, <2>1, <2>2, OwnerIsCounted
  <2> QED
    BY <1>1, <1>10, <2>2, <2>3 DEF ServersServe
<1>12. ServersServe'
  BY <1>11 DEF ServersServe, StillServing
<1>13. OwnChannels'
  BY <1>1, <1>10 DEF OwnChannels
<1>14. ServedNameIsFound'
  <2> SUFFICES ASSUME NEW o \in Servers, proc'[o].at \in Registered, proc'[o].ch \notin ousted'
               PROVE  \E j \in Slots : table'[j] = [name |-> proc'[o].name, ch |-> proc'[o].ch]
    BY DEF ServedNameIsFound, Registered
  <2>1. proc'[o] = proc[o] /\ proc[o].at \in Owning /\ proc[o].ch \in serving
    BY <1>10, <1>11 DEF Registered, Owning
  <2>2. PICK j \in Slots : table[j] = [name |-> proc[o].name, ch |-> proc[o].ch]
    BY <1>1, <2>1 DEF ServedNameIsFound, Registered
  <2>3. j # k
    BY <2>1, <2>2
  <2> QED
    BY <1>4, <2>1, <2>2, <2>3
<1> QED
  BY <1>5, <1>8, <1>9, <1>12, <1>13, <1>14 DEF TableInv

\* The entries place retires for a name, and what that leaves of the table and
\* the references.
Gone(name) == IF Taken(name) THEN {} ELSE DeadEntries(name)
TableWithout(S) == [k \in Slots |-> IF k \in S THEN NoEntry ELSE table[k]]
RefsWithout(S) == Released(refs, {table[k].ch : k \in S})

\* place's retirement of a name's dead entry: there is at most one.
LEMMA DeadRetired ==
    ASSUME TableInv, NEW name \in Names, NEW gone, gone = Gone(name),
           NEW tb, tb = TableWithout(gone), NEW r, r = RefsWithout(gone)
    PROVE  /\ tb \in [Slots -> EntryType] /\ r \in [Channels -> Nat] /\ Balanced(r, tb, proc)
           /\ \A c \in serving : r[c] = refs[c]
           /\ \A k \in Slots : tb[k] = table[k] \/ (tb[k] = NoEntry /\ ~IsLive(table[k]))
           /\ \A j, k \in Slots : tb[j] # NoEntry /\ tb[j].name = tb[k].name => j = k
           /\ ~Taken(name) => \A k \in Slots : tb[k].name # name
<1>1. /\ table \in [Slots -> EntryType] /\ refs \in [Channels -> Nat] /\ Balanced(refs, table, proc)
      /\ OneEntryPerName /\ serving \subseteq Channels
  BY DEF TableInv, TableTyped
<1>2. ASSUME NEW k \in gone
      PROVE  k \in Slots /\ table[k].name = name /\ ~IsLive(table[k]) /\ table[k] # NoEntry
             /\ table[k].ch \in Channels
  BY <1>1, <1>2, TypeFacts DEF Gone, DeadEntries
<1>3. tb \in [Slots -> EntryType]
  BY <1>1, TypeFacts DEF TableWithout
<1>4. \A k \in Slots : tb[k] = table[k] \/ (tb[k] = NoEntry /\ ~IsLive(table[k]))
  BY <1>2 DEF TableWithout
<1>5. ASSUME NEW j \in Slots, NEW k \in Slots, tb[j] # NoEntry, tb[j].name = tb[k].name
      PROVE  j = k
  <2>1. tb[j].name \in Names /\ tb[j].name # None
    BY <1>3, <1>5, TypeFacts
  <2>2. tb[j] = table[j] /\ tb[k] = table[k]
    BY <1>4, <1>5, <2>1, TypeFacts
  <2> QED
    BY <1>1, <1>5, <2>2 DEF OneEntryPerName
<1>6. ASSUME ~Taken(name), NEW k \in Slots PROVE tb[k].name # name
  BY <1>6, TypeFacts DEF Taken, DeadEntries, Gone, TableWithout
<1>7. CASE gone = {}
  <2>1. tb = table
    BY <1>1, <1>7 DEF TableWithout
  <2>2. {table[k].ch : k \in gone} = {}
    BY <1>7
  <2>3. r = refs
    BY <1>1, <2>2 DEF Released, RefsWithout
  <2> QED
    BY <1>1, <1>3, <1>4, <1>5, <1>6, <2>1, <2>3
<1>8. CASE gone # {}
  <2>1. PICK g : g \in gone
    BY <1>8
  <2>2. gone = {g}
    BY <1>1, <1>2, <2>1 DEF OneEntryPerName
  <2>3. tb = [table EXCEPT ![g] = NoEntry]
    BY <1>1, <2>2 DEF TableWithout
  <2>4. {table[k].ch : k \in gone} = {table[g].ch}
    BY <2>2
  <2>5. r = Released(refs, {table[g].ch})
    BY <2>4 DEF RefsWithout
  <2>6. g \in Slots /\ table[g].ch \in Channels /\ ~IsLive(table[g])
    BY <1>2, <2>1
  <2>7. r \in [Channels -> Nat] /\ Balanced(r, tb, proc)
    <3>1. PICK t, x, pr : t = table /\ x = refs /\ pr = proc
      OBVIOUS
    <3>2. Balanced(Released(x, {t[g].ch}), tb, pr) /\ Released(x, {t[g].ch}) \in [Channels -> Nat]
      BY <1>1, <2>3, <2>6, <3>1, EntryCleared
    <3> QED
      BY <2>5, <3>1, <3>2
  <2>8. \A c \in serving : r[c] = refs[c]
    BY <1>1, <2>5, <2>6 DEF Released, IsLive
  <2> QED
    BY <1>3, <1>4, <1>5, <1>6, <2>7, <2>8
<1> QED
  BY <1>7, <1>8

\* A name is registered, or refused.
LEMMA PlaceKeeps ==
    ASSUME TableInv, NEW p \in Servers, Place(p)
    PROVE  TableInv'
<1>1. /\ proc \in [Procs -> ProcType] /\ table \in [Slots -> EntryType] /\ refs \in [Channels -> Nat]
      /\ serving \subseteq {ch \in Channels : refs[ch] > 0} /\ ousted \subseteq Channels
      /\ OneEntryPerName /\ ServersServe /\ OwnChannels /\ ServedNameIsFound /\ p \in Procs
      /\ Servers \subseteq Procs /\ ousted' = ousted /\ proc[p].at = "created"
  BY DEF TableInv, TableTyped, Procs, Place
<1>2. PICK name, ch : name = proc[p].name /\ ch = proc[p].ch
  OBVIOUS
<1>3. name \in Names /\ ch \in Channels /\ proc[p].at \in Holding /\ proc[p].at \in Owning
      /\ ch \in serving
  <2>1. proc[p].at # "outside" /\ proc[p] \in ProcType
    BY <1>1
  <2> QED
    BY <1>1, <1>2, <2>1, TypeFacts DEF Holding, Owning, ServersServe
<1>4. PICK gone : gone = Gone(name)
  OBVIOUS
<1>5. PICK tb : tb = TableWithout(gone)
  OBVIOUS
<1>6. PICK r : r = RefsWithout(gone)
  OBVIOUS
<1>7. /\ tb \in [Slots -> EntryType] /\ r \in [Channels -> Nat] /\ Balanced(r, tb, proc)
      /\ \A c \in serving : r[c] = refs[c]
      /\ \A k \in Slots : tb[k] = table[k] \/ (tb[k] = NoEntry /\ ~IsLive(table[k]))
      /\ \A j, k \in Slots : tb[j] # NoEntry /\ tb[j].name = tb[k].name => j = k
      /\ ~Taken(name) => \A k \in Slots : tb[k].name # name
  BY <1>3, <1>4, <1>5, <1>6, DeadRetired
\* The entries of the servers that go on serving are still there.
<1>8. ASSUME NEW o \in Servers, proc[o].at \in Registered, proc[o].ch \notin ousted
      PROVE  \E k \in Slots : tb[k] = [name |-> proc[o].name, ch |-> proc[o].ch]
  <2>1. proc[o].ch \in serving
    BY <1>1, <1>8 DEF ServersServe, Registered, Owning
  <2>2. PICK k \in Slots : table[k] = [name |-> proc[o].name, ch |-> proc[o].ch]
    BY <1>1, <1>8 DEF ServedNameIsFound, Registered
  <2> QED
    BY <1>7, <2>1, <2>2 DEF IsLive
<1>9. CASE /\ ~Taken(name) /\ FreeEntries(tb) # {}
           /\ table' = [tb EXCEPT ![Min(FreeEntries(tb))] = [name |-> name, ch |-> ch]]
           /\ refs' = [r EXCEPT ![ch] = @ + 1]
           /\ Becomes(p, "placed") /\ serving' = serving
  <2>1. PICK f \in Slots : f = Min(FreeEntries(tb)) /\ tb[f] = NoEntry
    BY <1>9, ScanFinds DEF FreeEntries
  <2>2. PICK e : e = [name |-> name, ch |-> ch]
    OBVIOUS
  <2>3. e \in EntryType /\ e.name = name /\ e.ch = ch /\ e # NoEntry
    BY <1>3, <2>2, TypeFacts DEF EntryType
  <2>4. /\ table' \in [Slots -> EntryType] /\ table'[f] = e
        /\ \A k \in Slots \ {f} : table'[k] = tb[k]
    BY <1>7, <1>9, <2>1, <2>2, <2>3
  <2>5. PICK q : q = [at |-> "placed", name |-> name, ch |-> ch]
    OBVIOUS
  <2>6. q \in ProcType /\ q.at = "placed" /\ q.name = name /\ q.ch = ch
    BY <1>3, <2>5 DEF ProcType
  <2>7. /\ proc' = [proc EXCEPT ![p] = q] /\ proc' \in [Procs -> ProcType] /\ proc'[p] = q
        /\ \A o \in Procs \ {p} : proc'[o] = proc[o]
    BY <1>1, <1>2, <1>9, <2>5, <2>6 DEF Becomes
  <2>8. refs' \in [Channels -> Nat] /\ Balanced(refs', table', proc)
    <3>1. PICK pr, ub : pr = proc /\ ub = table'
      OBVIOUS
    <3>2. /\ Balanced([r EXCEPT ![ch] = @ + 1], ub, pr)
          /\ [r EXCEPT ![ch] = @ + 1] \in [Channels -> Nat]
      BY <1>3, <1>7, <1>9, <2>1, <3>1, EntryFilled
    <3> QED
      BY <1>9, <3>1, <3>2
  <2>9. Balanced(refs', table', proc')
    <3>1. q.at \in Holding /\ proc[p].at \in Holding /\ q.ch = proc[p].ch
      BY <1>2, <1>3, <2>6 DEF Holding
    <3>2. \A c : Holds(proc', c) = Holds(proc, c)
      BY <2>7, <3>1 DEF Holds
    <3> QED
      BY <2>8, <3>2 DEF Balanced
  <2>10. serving' \subseteq {c \in Channels : refs'[c] > 0}
    <3> SUFFICES ASSUME NEW c \in serving PROVE c \in Channels /\ refs'[c] > 0
      BY <1>9
    <3>1. c \in Channels /\ refs[c] \in Nat /\ refs[c] > 0 /\ r[c] = refs[c]
      BY <1>1, <1>7
    <3>2. refs'[c] = IF c = ch THEN r[c] + 1 ELSE r[c]
      BY <1>7, <1>9, <3>1
    <3> QED
      BY <3>1, <3>2
  <2>11. TableTyped'
    BY <1>1, <2>4, <2>7, <2>8, <2>10 DEF TableTyped
  <2>12. OneEntryPerName'
    <3> SUFFICES ASSUME NEW i \in Slots, NEW j \in Slots, table'[i] # NoEntry,
                        table'[i].name = table'[j].name
                 PROVE  i = j
      BY DEF OneEntryPerName
    <3> QED
      BY <1>7, <1>9, <2>3, <2>4
  <2>13. ServersServe'
    BY <1>1, <1>3, <1>9, <2>6, <2>7 DEF ServersServe
  <2>14. OwnChannels'
    BY <1>1, <1>2, <1>3, <2>6, <2>7 DEF OwnChannels
  <2>15. ServedNameIsFound'
    <3> SUFFICES ASSUME NEW o \in Servers, proc'[o].at \in Registered, proc'[o].ch \notin ousted'
                 PROVE  \E k \in Slots : table'[k] = [name |-> proc'[o].name, ch |-> proc'[o].ch]
      BY DEF ServedNameIsFound, Registered
    <3>1. CASE o = p
      BY <2>1, <2>2, <2>4, <2>6, <2>7, <3>1
    <3>2. CASE o # p
      <4>1. proc'[o] = proc[o]
        BY <1>1, <2>7, <3>2
      <4>2. PICK k \in Slots : tb[k] = [name |-> proc[o].name, ch |-> proc[o].ch]
        BY <1>1, <1>8, <4>1
      <4>3. proc[o].ch \in Channels
        BY <1>1, <4>1 DEF ServersServe, Registered, Owning
      <4>4. k # f
        BY <2>1, <4>2, <4>3, TypeFacts
      <4> QED
        BY <2>4, <4>1, <4>2, <4>4
    <3> QED
      BY <3>1, <3>2
  <2> QED
    BY <2>9, <2>11, <2>12, <2>13, <2>14, <2>15 DEF TableInv
<1>10. CASE /\ table' = tb /\ refs' = Released(r, {ch})
            /\ serving' = StillServing(refs', serving) /\ Returns(p)
  <2>1. /\ proc' = [proc EXCEPT ![p] = Outside] /\ proc' \in [Procs -> ProcType] /\ proc'[p] = Outside
        /\ \A o \in Procs \ {p} : proc'[o] = proc[o]
    BY <1>1, <1>10, TypeFacts DEF Returns
  <2>2. Outside.at \notin Holding /\ Outside.at \notin Owning /\ Outside.at \notin Registered
    BY DEF Outside, Holding, Owning, Registered
  <2>3. refs' \in [Channels -> Nat] /\ Balanced(refs', table', proc')
    <3>1. PICK pr, qr, q : pr = proc /\ qr = proc' /\ q = Outside
      OBVIOUS
    <3>2. Balanced(Released(r, {pr[p].ch}), tb, qr) /\ Released(r, {pr[p].ch}) \in [Channels -> Nat]
      BY <1>1, <1>2, <1>3, <1>7, <2>1, <2>2, <3>1, HoldDropped
    <3> QED
      BY <1>2, <1>10, <3>1, <3>2
  <2>4. serving' \subseteq {c \in Channels : refs'[c] > 0}
    BY <1>1, <1>10 DEF StillServing
  <2>5. TableTyped'
    BY <1>1, <1>7, <1>10, <2>1, <2>3, <2>4 DEF TableTyped
  <2>6. OneEntryPerName'
    BY <1>7, <1>10 DEF OneEntryPerName
  <2>7. ASSUME NEW o \in Servers, proc'[o].at \in Owning
        PROVE  proc'[o] = proc[o] /\ proc'[o].ch \in serving'
    <3>1. o # p /\ proc'[o] = proc[o] /\ o \in Procs
      BY <1>1, <2>1, <2>2, <2>7
    <3>2. proc'[o].at \in Holding /\ proc'[o] \in ProcType
      BY <2>1, <2>7, <3>1 DEF Owning, Holding
    <3>3. PICK pr, ub, x : pr = proc' /\ ub = table' /\ x = refs'
      OBVIOUS
    <3>4. x[pr[o].ch] > 0
      BY <2>3, <3>1, <3>2, <3>3, OwnerIsCounted
    <3> QED
      BY <1>1, <1>10, <2>7, <3>1, <3>3, <3>4 DEF ServersServe, StillServing
  <2>8. ServersServe'
    BY <2>7 DEF ServersServe
  <2>9. OwnChannels'
    BY <1>1, <2>7 DEF OwnChannels
  <2>10. ServedNameIsFound'
    <3> SUFFICES ASSUME NEW o \in Servers, proc'[o].at \in Registered, proc'[o].ch \notin ousted'
                 PROVE  \E k \in Slots : table'[k] = [name |-> proc'[o].name, ch |-> proc'[o].ch]
      BY DEF ServedNameIsFound, Registered
    <3>1. proc'[o] = proc[o]
      BY <2>7 DEF Registered, Owning
    <3> QED
      BY <1>1, <1>8, <1>10, <3>1
  <2> QED
    BY <2>3, <2>5, <2>6, <2>8, <2>9, <2>10 DEF TableInv
<1> QED
  BY <1>2, <1>4, <1>5, <1>6, <1>9, <1>10 DEF Place, Gone, TableWithout, RefsWithout

\* A process goes on in its call, with its reference or without one.
LEMMA GoesOnKeeps ==
    ASSUME TableInv, NEW p \in Procs, NEW q \in ProcType, proc' = [proc EXCEPT ![p] = q],
           q.at \in Holding <=> proc[p].at \in Holding,
           q.at \in Holding => q.ch = proc[p].ch /\ q.name = proc[p].name,
           p \in Servers => (q.at \in Owning <=> proc[p].at \in Owning),
           p \in Servers /\ q.at \in Registered => proc[p].at \in Registered,
           UNCHANGED <<table, refs, serving, ousted>>
    PROVE  TableInv'
<1>1. /\ proc \in [Procs -> ProcType] /\ refs \in [Channels -> Nat]
      /\ serving \subseteq {ch \in Channels : refs[ch] > 0} /\ ousted \subseteq Channels
      /\ ServersServe /\ OwnChannels /\ Balanced(refs, table, proc)
  BY DEF TableInv, TableTyped
<1>2. Balanced(refs', table, proc')
  <2>1. PICK pr, qr, r, tb : pr = proc /\ qr = proc' /\ r = refs /\ tb = table
    OBVIOUS
  <2>2. Balanced(r, tb, qr)
    BY <1>1, <2>1, HoldKept
  <2> QED
    BY <2>1, <2>2
<1>3. q.at \in Owning => q.at \in Holding
  BY DEF Owning, Holding
<1>4. q.at \in Registered => q.at \in Holding
  BY DEF Registered, Holding
<1>5. \A o \in Servers \ {p} :
          proc[o].at \in Owning =>
              /\ proc[o].ch \in serving'
              /\ p \in Servers /\ q.at \in Owning => proc[o].ch # q.ch
  BY <1>1, <1>3 DEF ServersServe, OwnChannels
<1>6. p \in Servers /\ q.at \in Owning => q.ch \in serving'
  BY <1>1, <1>3 DEF ServersServe
<1> QED
  BY <1>1, <1>2, <1>4, <1>5, <1>6, TableKept

\* A process drops its reference, and a server its channel with it.
LEMMA DropKeeps ==
    ASSUME TableInv, NEW p \in Procs, proc[p].at \in Holding,
           NEW q \in ProcType, q.at \notin Holding, proc' = [proc EXCEPT ![p] = q],
           refs' = Released(refs, {proc[p].ch}),
           \/ serving' = StillServing(refs', serving)
           \/ p \in Servers /\ proc[p].at \in Owning /\ serving' = serving \ {proc[p].ch},
           UNCHANGED <<table, ousted>>
    PROVE  TableInv'
<1>1. /\ proc \in [Procs -> ProcType] /\ refs \in [Channels -> Nat]
      /\ serving \subseteq {ch \in Channels : refs[ch] > 0} /\ ousted \subseteq Channels
      /\ ServersServe /\ OwnChannels /\ Balanced(refs, table, proc) /\ Servers \subseteq Procs
  BY DEF TableInv, TableTyped, Procs
<1>2. proc[p].ch \in Channels
  BY <1>1, TypeFacts DEF Holding
<1>3. refs' \in [Channels -> Nat] /\ Balanced(refs', table, proc')
  <2>1. PICK pr, qr, r, tb : pr = proc /\ qr = proc' /\ r = refs /\ tb = table
    OBVIOUS
  <2>2. Balanced(Released(r, {pr[p].ch}), tb, qr) /\ Released(r, {pr[p].ch}) \in [Channels -> Nat]
    BY <1>1, <1>2, <2>1, HoldDropped
  <2> QED
    BY <2>1, <2>2
<1>4. \A c \in Channels \ {proc[p].ch} : refs'[c] = refs[c]
  BY DEF Released
<1>5. serving' \subseteq {ch \in Channels : refs'[ch] > 0}
  BY <1>1, <1>4 DEF StillServing
<1>6. q.at \notin Owning /\ q.at \notin Registered
  BY DEF Owning, Holding, Registered
<1>7. ASSUME NEW o \in Servers \ {p}, proc[o].at \in Owning
      PROVE  proc[o].ch \in serving'
  <2>1. proc'[o] = proc[o] /\ proc'[o].at \in Holding /\ proc'[o] \in ProcType /\ o \in Procs
    BY <1>1, <1>7 DEF Owning, Holding
  <2>2. PICK pr, ub, x : pr = proc' /\ ub = table /\ x = refs'
    OBVIOUS
  <2>3. x[pr[o].ch] > 0
    BY <1>3, <2>1, <2>2, OwnerIsCounted
  <2> QED
    BY <1>1, <1>7, <2>1, <2>2, <2>3 DEF ServersServe, OwnChannels, StillServing
<1> QED
  BY <1>1, <1>3, <1>5, <1>6, <1>7, TableKept

\* channel.create, and lookup's answer: a process is given a reference.
LEMMA TakeKeeps ==
    ASSUME TableInv, NEW p \in Procs, proc[p] = Outside, NEW ch \in Channels,
           NEW q \in ProcType, q.at \in Holding, q.at \notin Registered, q.ch = ch,
           proc' = [proc EXCEPT ![p] = q], refs' = [refs EXCEPT ![ch] = @ + 1],
           serving' = serving \cup {ch}, table' = table,
           p \in Servers /\ q.at \in Owning => refs[ch] = 0,
           ousted' = ousted \/ (refs[ch] = 0 /\ ousted' = ousted \ {ch})
    PROVE  TableInv'
<1>1. /\ proc \in [Procs -> ProcType] /\ refs \in [Channels -> Nat]
      /\ serving \subseteq {c \in Channels : refs[c] > 0} /\ ousted \subseteq Channels
      /\ ServersServe /\ OwnChannels /\ Balanced(refs, table, proc) /\ Servers \subseteq Procs
  BY DEF TableInv, TableTyped, Procs
<1>2. proc[p].at \notin Holding
  BY DEF Outside, Holding
<1>3. refs' \in [Channels -> Nat] /\ Balanced(refs', table, proc')
  <2>1. PICK pr, qr, r, tb : pr = proc /\ qr = proc' /\ r = refs /\ tb = table
    OBVIOUS
  <2>2. Balanced([r EXCEPT ![ch] = @ + 1], tb, qr) /\ [r EXCEPT ![ch] = @ + 1] \in [Channels -> Nat]
    BY <1>1, <1>2, <2>1, HoldTaken
  <2> QED
    BY <2>1, <2>2
<1>4. serving' \subseteq {c \in Channels : refs'[c] > 0}
  BY <1>1
<1>5. ASSUME NEW o \in Servers, proc[o].at \in Owning
      PROVE  proc[o].ch \in serving /\ refs[proc[o].ch] > 0
  BY <1>1, <1>5 DEF ServersServe
<1>6. \A o \in Servers : proc[o].at \in Registered => proc[o].at \in Owning
  BY DEF Registered, Owning
<1>7. \A o \in Servers \ {p} :
          proc[o].at \in Owning =>
              /\ proc[o].ch \in serving'
              /\ p \in Servers /\ q.at \in Owning => proc[o].ch # q.ch
  BY <1>5
<1>8. \A o \in Servers : proc[o].at \in Registered /\ proc[o].ch \in ousted => proc[o].ch \in ousted'
  BY <1>5, <1>6
<1> QED
  BY <1>1, <1>3, <1>4, <1>7, <1>8, TableKept

\* The table starts empty.
LEMMA InitTable == Init => TableInv
<1> SUFFICES ASSUME Init PROVE TableInv
  OBVIOUS
<1>1. table \in [Slots -> EntryType] /\ proc \in [Procs -> ProcType] /\ refs \in [Channels -> Nat]
      /\ (\A k \in Slots : table[k] = NoEntry) /\ (\A p \in Procs : proc[p] = Outside)
      /\ (\A c \in Channels : refs[c] = 0)
  BY TypeFacts DEF Init, Procs
<1>2. \A c \in Channels : Entries(table, c) = {} /\ Holds(proc, c) = {}
  BY <1>1, TypeFacts DEF Entries, Holds, Holding
<1>3. Balanced(refs, table, proc)
  BY <1>1, <1>2, FS_EmptySet DEF Balanced
<1>4. TableTyped
  BY <1>1 DEF TableTyped, Init
<1>5. OneEntryPerName
  BY <1>1 DEF OneEntryPerName
<1>6. \A p \in Servers : proc[p].at \notin Owning /\ proc[p].at \notin Registered
  BY <1>1 DEF Outside, Owning, Registered, Procs
<1> QED
  BY <1>3, <1>4, <1>5, <1>6 DEF TableInv, ServersServe, OwnChannels, ServedNameIsFound, Registered

\* Every step keeps the table.
LEMMA StepTable ==
    ASSUME TableInv, [Next]_vars
    PROVE  TableInv'
<1>1. /\ proc \in [Procs -> ProcType] /\ table \in [Slots -> EntryType] /\ refs \in [Channels -> Nat]
      /\ serving \subseteq Channels /\ Servers \subseteq Procs /\ Clients \subseteq Procs
      /\ Servers \cap Clients = {}
  BY RegistryAssumption DEF TableInv, TableTyped, Procs
<1>2. ASSUME NEW p \in Procs, proc[p].at # "outside" PROVE proc[p].name \in Names /\ proc[p].ch \in Channels
  BY <1>1, <1>2, TypeFacts
<1>3. ASSUME NEW p \in Procs, proc[p].at # "outside",
             NEW at \in {"placed", "announced", "serving", "unwinding", "withdrawn", "connected"},
             Becomes(p, at)
      PROVE  \E q \in ProcType : q.at = at /\ q.name = proc[p].name /\ q.ch = proc[p].ch
                                 /\ proc' = [proc EXCEPT ![p] = q]
  <2>1. PICK q : q = [at |-> at, name |-> proc[p].name, ch |-> proc[p].ch]
    OBVIOUS
  <2>2. q \in ProcType /\ q.at = at /\ q.name = proc[p].name /\ q.ch = proc[p].ch
    BY <1>2, <1>3, <2>1 DEF ProcType
  <2> QED
    BY <1>3, <2>1, <2>2 DEF Becomes
<1>4. Outside \in ProcType /\ Outside.at \notin Holding /\ Outside.at \notin Owning
      /\ Outside.at \notin Registered
  BY TypeFacts DEF Holding, Owning, Registered
<1>5. ASSUME NEW p \in Servers, NEW name \in Names, NEW ch \in Channels, Create(p, name, ch)
      PROVE  TableInv'
  <2>1. PICK q : q = [at |-> "created", name |-> name, ch |-> ch]
    OBVIOUS
  <2>2. q \in ProcType /\ q.at \in Holding /\ q.at \notin Registered /\ q.ch = ch
    BY <2>1 DEF ProcType, Holding, Registered
  <2>3. refs' = [refs EXCEPT ![ch] = @ + 1]
    BY <1>1, <1>5 DEF Create
  <2> QED
    BY <1>1, <1>5, <2>1, <2>2, <2>3, TakeKeeps DEF Create
<1>6. ASSUME NEW p \in Servers, Announce(p) PROVE TableInv'
  <2>1. PICK q \in ProcType : /\ q.at = "announced" /\ q.name = proc[p].name /\ q.ch = proc[p].ch
                              /\ proc' = [proc EXCEPT ![p] = q]
    BY <1>1, <1>3, <1>6 DEF Announce
  <2> QED
    BY <1>1, <1>6, <2>1, GoesOnKeeps DEF Announce, Holding, Owning, Registered
<1>7. ASSUME NEW p \in Servers, Install(p) PROVE TableInv'
  <2>1. CASE Becomes(p, "serving") /\ UNCHANGED <<refs, serving>>
    <3>1. PICK q \in ProcType : /\ q.at = "serving" /\ q.name = proc[p].name /\ q.ch = proc[p].ch
                                /\ proc' = [proc EXCEPT ![p] = q]
      BY <1>1, <1>3, <1>7, <2>1 DEF Install
    <3> QED
      BY <1>1, <1>7, <2>1, <3>1, GoesOnKeeps DEF Install, Holding, Owning, Registered
  <2>2. CASE /\ refs' = Released(refs, {proc[p].ch}) /\ serving' = serving \ {proc[p].ch}
             /\ Becomes(p, "unwinding")
    <3>1. PICK q \in ProcType : /\ q.at = "unwinding" /\ q.name = proc[p].name /\ q.ch = proc[p].ch
                                /\ proc' = [proc EXCEPT ![p] = q]
      BY <1>1, <1>3, <1>7, <2>2 DEF Install
    <3>2. proc[p].at \in Holding /\ proc[p].at \in Owning /\ q.at \notin Holding
      BY <1>7, <3>1 DEF Install, Holding, Owning
    <3>3. p \in Procs /\ table' = table /\ ousted' = ousted
      BY <1>1, <1>7 DEF Install
    <3> QED
      BY <2>2, <3>1, <3>2, <3>3, DropKeeps
  <2> QED
    BY <1>7, <2>1, <2>2 DEF Install
<1>8. ASSUME NEW p \in Servers, Withdraw(p) PROVE TableInv'
  <2>1. PICK under : under = {k \in Slots : table[k].name = proc[p].name}
    OBVIOUS
  <2>2. CASE /\ under # {} /\ table' = [table EXCEPT ![Min(under)] = NoEntry]
             /\ refs' = Released(refs, {table[Min(under)].ch})
             /\ serving' = StillServing(refs', serving)
             /\ ousted' = ousted \cup ({table[Min(under)].ch} \cap serving)
             /\ Becomes(p, "withdrawn")
    <3>1. PICK k \in Slots : k = Min(under) /\ table[k].name = proc[p].name
      BY <2>1, <2>2, ScanFinds
    <3>2. table[k] # NoEntry
      BY <1>1, <1>2, <1>8, <3>1, TypeFacts DEF Withdraw
    <3>3. PICK q \in ProcType : /\ q.at = "withdrawn" /\ q.name = proc[p].name /\ q.ch = proc[p].ch
                                /\ proc' = [proc EXCEPT ![p] = q]
      BY <1>1, <1>3, <1>8, <2>2 DEF Withdraw
    <3>4. /\ q.at \notin Holding /\ q.at \notin Owning /\ q.at \notin Registered
          /\ proc[p].at \notin Holding /\ proc[p].at \notin Owning
      BY <1>8, <3>3 DEF Withdraw, Holding, Owning, Registered
    <3> QED
      BY <1>1, <2>2, <3>1, <3>2, <3>3, <3>4, EntryGoes
  <2>3. CASE Returns(p) /\ UNCHANGED <<table, refs, serving, ousted>>
    BY <1>1, <1>4, <1>8, <2>3, GoesOnKeeps DEF Withdraw, Returns, Holding, Owning
  <2> QED
    BY <1>8, <2>1, <2>2, <2>3 DEF Withdraw
<1>9. ASSUME NEW p \in Servers, Unregistered(p) PROVE TableInv'
  BY <1>1, <1>4, <1>9, GoesOnKeeps DEF Unregistered, Returns, Holding, Owning
<1>10. ASSUME NEW p \in Servers, CloseServing(p) PROVE TableInv'
  <2>1. proc[p].at \in Holding /\ proc[p].at \in Owning /\ p \in Procs
    BY <1>1, <1>10 DEF CloseServing, Holding, Owning
  <2> QED
    BY <1>4, <1>10, <2>1, DropKeeps DEF CloseServing, Returns
<1>11. ASSUME NEW c \in Clients, NEW name \in Names, Lookup(c, name) PROVE TableInv'
  <2>1. PICK under : under = {k \in Slots : table[k].name = name}
    OBVIOUS
  <2>2. PICK k \in Slots : k = Min(under) /\ table[k].name = name
    <3>1. under \in SUBSET Slots /\ under # {}
      BY <1>11, <2>1 DEF Lookup
    <3> QED
      BY <2>1, <3>1, ScanFinds
  <2>3. table[k] # NoEntry /\ table[k].ch \in Channels /\ k = EntryFor(name)
    BY <1>1, <2>1, <2>2, TypeFacts DEF EntryFor
  <2>4. CASE /\ IsLive(table[k]) /\ refs' = LookedUp(table[k].ch)
             /\ proc' = [proc EXCEPT ![c] = [at |-> "found", name |-> name, ch |-> table[k].ch]]
             /\ UNCHANGED <<table, serving>>
    <3>1. PICK q, ch : q = [at |-> "found", name |-> name, ch |-> ch] /\ ch = table[k].ch
      OBVIOUS
    <3>2. /\ q \in ProcType /\ q.at \in Holding /\ q.at \notin Registered /\ q.ch = ch
          /\ ch \in Channels /\ serving' = serving \cup {ch}
      BY <2>3, <2>4, <3>1 DEF ProcType, Holding, Registered, IsLive
    <3>3. refs' = [refs EXCEPT ![ch] = @ + 1] /\ proc[c] = Outside /\ c \in Procs /\ c \notin Servers
          /\ ousted' = ousted
      BY <1>1, <1>11, <2>4, <3>1 DEF LookedUp, Lookup
    <3> QED
      BY <2>4, <3>1, <3>2, <3>3, TakeKeeps
  <2>5. CASE /\ ~IsLive(table[k]) /\ table' = [table EXCEPT ![k] = NoEntry]
             /\ refs' = Released(refs, {table[k].ch}) /\ UNCHANGED <<serving, proc>>
    <3>1. PICK q \in ProcType : q = proc[c]
      BY <1>1
    <3>2. table[k].ch \notin serving /\ ousted' = ousted \cup ({table[k].ch} \cap serving)
      BY <1>11, <2>5 DEF IsLive, Lookup
    <3> QED
      BY <1>1, <2>3, <2>5, <3>1, <3>2, EntryGoes
  <2> QED
    BY <1>11, <2>3, <2>4, <2>5 DEF Lookup
<1>12. ASSUME NEW c \in Clients, Connect(c) PROVE TableInv'
  <2>1. CASE Becomes(c, "connected") /\ UNCHANGED <<refs, serving>>
    <3>1. PICK q \in ProcType : /\ q.at = "connected" /\ q.name = proc[c].name /\ q.ch = proc[c].ch
                                /\ proc' = [proc EXCEPT ![c] = q]
      BY <1>1, <1>3, <1>12, <2>1 DEF Connect
    <3> QED
      BY <1>1, <1>12, <2>1, <3>1, GoesOnKeeps DEF Connect, Holding, Owning, Registered
  <2>2. CASE /\ refs' = Released(refs, {proc[c].ch}) /\ serving' = StillServing(refs', serving)
             /\ Returns(c)
    <3>1. proc[c].at \in Holding /\ c \in Procs
      BY <1>1, <1>12 DEF Connect, Holding
    <3> QED
      BY <1>4, <1>12, <2>2, <3>1, DropKeeps DEF Connect, Returns
  <2> QED
    BY <1>12, <2>1, <2>2 DEF Connect
<1>13. ASSUME NEW c \in Clients, CloseClient(c) PROVE TableInv'
  <2>1. proc[c].at \in Holding /\ c \in Procs
    BY <1>1, <1>13 DEF CloseClient, Holding
  <2> QED
    BY <1>4, <1>13, <2>1, DropKeeps DEF CloseClient, Returns
<1>14. ASSUME UNCHANGED <<table, refs, serving, proc, ousted>> PROVE TableInv'
  BY <1>14 DEF TableInv, TableTyped, OneEntryPerName, ServersServe, OwnChannels, ServedNameIsFound
<1>15. CASE Look \/ Wait \/ UNCHANGED vars
  BY <1>14, <1>15 DEF Look, Wait, vars
<1> QED
  BY <1>5, <1>6, <1>7, <1>8, <1>9, <1>10, <1>11, <1>12, <1>13, <1>15, PlaceKeeps DEF Next

-----------------------------------------------------------------------------
(* The watcher. *)

\* Every live name has been seen, or its server has yet to announce it.
NoNews ==
    \A name \in LiveNames \ seen : \E p \in Servers : proc[p].at = "placed" /\ proc[p].name = name

\* The watcher sleeps only on an event that is down and a queue that will wake
\* it.
SleepsRightly(v) ==
    /\ v \in EventRecords({Watcher}, {Changed}) /\ OneNodeEach(v.wait)
    /\ ~Ready(v.wait, Watcher) => v.count[Changed] = 0 /\ Queued(v.wait, Changed, Watcher)

\* The inductive invariant of the watcher: an event that is down has no news.
WatchInv ==
    /\ SleepsRightly(ev)
    /\ seen \subseteq Names /\ watching \in BOOLEAN
    /\ watching /\ ev.count[Changed] = 0 => NoNews

\* The parts of an event record.
LEMMA EventParts ==
    ASSUME NEW v \in EventRecords({Watcher}, {Changed})
    PROVE  /\ v.count \in [{Changed} -> 0..MaxCount] /\ v.wait \in WaitRecords({Watcher}, {Changed})
           /\ v.wait.state \in [{Watcher} -> RunStates]
BY DEF EventRecords, WaitRecords

\* changed.signal leaves the count up and the watcher awake.
LEMMA SignalTells ==
    ASSUME NEW v, SleepsRightly(v)
    PROVE  SleepsRightly(SignalLocked(v, Changed)) /\ SignalLocked(v, Changed).count[Changed] # 0
<1>1. /\ v.count \in [{Changed} -> 0..MaxCount] /\ v.wait \in WaitRecords({Watcher}, {Changed})
      /\ OneNodeEach(v.wait) /\ v.wait.state \in [{Watcher} -> RunStates]
  BY EventParts DEF SleepsRightly
<1>2. PICK w, T, Q : w = v.wait /\ T = {Watcher} /\ Q = {Changed}
  OBVIOUS
<1>3. PICK x : x = WakeOne(w, Changed)
  OBVIOUS
<1>4. /\ x \in WaitRecords(T, Q) /\ OneNodeEach(x)
      /\ \/ (\A t : ~Queued(w, Changed, t)) /\ x = w
         \/ \E t \in T : Woke(w, x, Q, Changed, t)
  <2>1. w \in WaitRecords(T, Q) /\ Changed \in Q /\ OneNodeEach(w)
    BY <1>1, <1>2
  <2> QED
    BY <1>3, <2>1, WakeOneType, WakeOneMembers
<1>5. Ready(x, Watcher)
  BY <1>1, <1>2, <1>4 DEF Ready, Woke, SleepsRightly
<1>6. PICK c : c = [v.count EXCEPT ![Changed] = IF @ = MaxCount THEN @ ELSE @ + 1]
  OBVIOUS
<1>7. c \in [{Changed} -> 0..MaxCount] /\ c[Changed] # 0
  BY <1>1, <1>6, MaxCountAssumption
<1>8. SignalLocked(v, Changed) = [count |-> c, wait |-> x]
  BY <1>2, <1>3, <1>6 DEF SignalLocked
<1> QED
  BY <1>2, <1>4, <1>5, <1>7, <1>8 DEF SleepsRightly, EventRecords

\* waitMany on `changed`: a signal is taken, or the watcher is on the queue.
LEMMA WaitIsSafe ==
    ASSUME NEW v, SleepsRightly(v), Ready(v.wait, Watcher),
           NEW e, e = [v EXCEPT !.wait = Leave(@, Watcher)]
    PROVE  /\ e.count[Changed] > 0 => SleepsRightly(Consume(e, Changed))
           /\ e.count[Changed] = 0 =>
                 /\ SleepsRightly(BlockOn(e, Watcher, {Changed}, FALSE))
                 /\ BlockOn(e, Watcher, {Changed}, FALSE).count[Changed] = v.count[Changed]
           /\ e.count[Changed] = v.count[Changed]
<1>1. /\ v.count \in [{Changed} -> 0..MaxCount] /\ v.wait \in WaitRecords({Watcher}, {Changed})
      /\ OneNodeEach(v.wait) /\ v.wait.state \in [{Watcher} -> RunStates]
  BY EventParts DEF SleepsRightly
<1>2. PICK w, T, Q, l : w = v.wait /\ T = {Watcher} /\ Q = {Changed} /\ l = Leave(w, Watcher)
  OBVIOUS
<1>3. /\ w \in WaitRecords(T, Q) /\ OneNodeEach(w) /\ Watcher \in T /\ Changed \in Q
  BY <1>1, <1>2
<1>4. /\ l \in WaitRecords(T, Q) /\ OneNodeEach(l)
      /\ \A q \in Q : \A u : Queued(l, q, u) <=> Queued(w, q, u) /\ u # Watcher
  BY <1>2, <1>3, LeaveType, LeaveMembers
<1>5. Ready(l, Watcher)
  BY <1>2 DEF Leave, Ready
<1>6. e = [count |-> v.count, wait |-> l]
  BY <1>2 DEF SleepsRightly, EventRecords
<1>7. ASSUME e.count[Changed] > 0 PROVE SleepsRightly(Consume(e, Changed))
  <2>1. PICK c : c = [v.count EXCEPT ![Changed] = @ - 1]
    OBVIOUS
  <2>2. c \in [{Changed} -> 0..MaxCount]
    BY <1>1, <1>6, <1>7, <2>1, MaxCountAssumption
  <2>3. Consume(e, Changed) = [count |-> c, wait |-> l]
    BY <1>6, <2>1 DEF Consume
  <2> QED
    BY <1>2, <1>4, <1>5, <2>2, <2>3 DEF SleepsRightly, EventRecords
<1>8. ASSUME e.count[Changed] = 0
      PROVE  /\ SleepsRightly(BlockOn(e, Watcher, {Changed}, FALSE))
             /\ BlockOn(e, Watcher, {Changed}, FALSE).count[Changed] = v.count[Changed]
  <2>0. PICK d \in BOOLEAN : d = FALSE
    OBVIOUS
  <2>1. PICK b : b = Block(l, Watcher, Q, d)
    OBVIOUS
  <2>2. /\ b \in WaitRecords(T, Q) /\ OneNodeEach(b)
        /\ \A q \in Q : \A u : Queued(b, q, u) <=> Queued(l, q, u) \/ (q \in Q /\ u = Watcher)
    <3>1. \A q \in Q : ~Queued(l, q, Watcher)
      BY <1>4
    <3> QED
      BY <1>3, <1>4, <2>1, <3>1, BlockType, BlockMembers
  <2>3. Queued(b, Changed, Watcher)
    BY <1>3, <2>2
  <2>4. BlockOn(e, Watcher, {Changed}, FALSE) = [count |-> v.count, wait |-> b]
    BY <1>2, <1>6, <2>0, <2>1 DEF BlockOn
  <2>5. v.count[Changed] = 0
    BY <1>6, <1>8
  <2>6. PICK n : n = [count |-> v.count, wait |-> b]
    OBVIOUS
  <2>7. n \in EventRecords({Watcher}, {Changed}) /\ n.wait = b /\ n.count = v.count
    BY <1>1, <1>2, <2>2, <2>6 DEF EventRecords
  <2>8. SleepsRightly(n) /\ n.count[Changed] = v.count[Changed]
    BY <2>2, <2>3, <2>5, <2>7 DEF SleepsRightly
  <2> QED
    BY <2>4, <2>6, <2>8
<1> QED
  BY <1>6, <1>7, <1>8

\* A live name is one of the names.
LEMMA LiveAreNames == TableInv => LiveNames \subseteq Names
<1> SUFFICES ASSUME TableInv, NEW name \in LiveNames PROVE name \in Names
  OBVIOUS
<1>1. PICK k \in Slots : table[k].ch \in serving /\ name = table[k].name
  BY DEF LiveNames, IsLive
<1>2. table[k] \in EntryType /\ table[k].ch \in Channels
  BY <1>1 DEF TableInv, TableTyped
<1> QED
  BY <1>1, <1>2, TypeFacts

\* No new name, other than that of a server that has yet to announce it.
LEMMA NewsKept ==
    ASSUME NoNews, seen' = seen,
           \A k \in Slots : table'[k].ch \in serving' =>
               \/ table'[k] = table[k] /\ table[k].ch \in serving
               \/ \E p \in Servers : proc'[p].at = "placed" /\ proc'[p].name = table'[k].name,
           \A p \in Servers : proc[p].at = "placed" => proc'[p] = proc[p]
    PROVE  NoNews'
<1> SUFFICES ASSUME NEW name \in LiveNames', name \notin seen
             PROVE  \E p \in Servers : proc'[p].at = "placed" /\ proc'[p].name = name
  BY DEF NoNews
<1>1. PICK k \in Slots : table'[k].ch \in serving' /\ name = table'[k].name
  BY DEF LiveNames, IsLive
<1>2. CASE table'[k] = table[k] /\ table[k].ch \in serving
  <2>1. table[k].name \in LiveNames \ seen
    BY <1>1, <1>2 DEF LiveNames, IsLive
  <2>2. PICK p \in Servers : proc[p].at = "placed" /\ proc[p].name = table[k].name
    BY <2>1 DEF NoNews
  <2> QED
    BY <1>1, <1>2, <2>2
<1> QED
  BY <1>1, <1>2

\* A step of one process that places no name it does not own up to, and says
\* nothing.
LEMMA QuietStep ==
    ASSUME TableInv, TableInv', WatchInv, NEW x \in Procs, NEW q, proc' = [proc EXCEPT ![x] = q],
           proc[x].at # "placed", UNCHANGED <<ev, seen, watching>>,
           \A k \in Slots : table[k].ch \in serving' => table[k].ch \in serving,
           \A k \in Slots :
               \/ table'[k] = table[k] \/ table'[k] = NoEntry
               \/ x \in Servers /\ q.at = "placed" /\ q.name = table'[k].name
    PROVE  WatchInv'
<1>1. /\ proc \in [Procs -> ProcType] /\ Servers \subseteq Procs /\ None \notin serving'
  BY TypeFacts DEF TableInv, TableTyped, Procs
<1>2. proc'[x] = q /\ \A p \in Servers : proc[p].at = "placed" => proc'[p] = proc[p]
  BY <1>1
<1>3. \A k \in Slots : table'[k].ch \in serving' =>
          \/ table'[k] = table[k] /\ table[k].ch \in serving
          \/ \E p \in Servers : proc'[p].at = "placed" /\ proc'[p].name = table'[k].name
  BY <1>1, <1>2, TypeFacts
<1>4. NoNews => NoNews'
  BY <1>2, <1>3, NewsKept
<1> QED
  BY <1>4 DEF WatchInv

\* The watcher starts awake, before its first look.
LEMMA InitWatch == Init => WatchInv
<1> SUFFICES ASSUME Init PROVE WatchInv
  OBVIOUS
<1>1. PICK w : w = NoWaits({Watcher}, {Changed})
  OBVIOUS
<1>2. w \in WaitRecords({Watcher}, {Changed}) /\ OneNodeEach(w) /\ Ready(w, Watcher)
  BY <1>1, NoWaitsType DEF NoWaits, OneNodeEach, NoTwice, Ready
<1>3. ev = [count |-> [e \in {Changed} |-> 0], wait |-> w]
  BY <1>1 DEF Init, QuietEvents
<1>4. SleepsRightly(ev)
  BY <1>2, <1>3, MaxCountAssumption DEF SleepsRightly, EventRecords
<1> QED
  BY <1>4 DEF WatchInv, Init

\* Every step keeps the watcher's invariant.
LEMMA StepWatch ==
    ASSUME TableInv, TableInv', WatchInv, [Next]_vars
    PROVE  WatchInv'
<1>1. /\ proc \in [Procs -> ProcType] /\ table \in [Slots -> EntryType]
      /\ serving \subseteq Channels /\ Servers \subseteq Procs /\ Clients \subseteq Procs
  BY DEF TableInv, TableTyped, Procs
<1>2. ASSUME NEW p \in Servers, NEW name \in Names, NEW ch \in Channels, Create(p, name, ch)
      PROVE  WatchInv'
  <2>1. ASSUME NEW k \in Slots, table[k].ch \in serving' PROVE table[k].ch \in serving
    <3>1. CASE table[k].ch = ch
      <4>1. PICK r, tb, pr : r = refs /\ tb = table /\ pr = proc
        OBVIOUS
      <4>2. Entries(tb, ch) # {} /\ Balanced(r, tb, pr)
        BY <3>1, <4>1 DEF Entries, TableInv
      <4>3. r[ch] > 0
        BY <4>2, HeldIsCounted
      <4> QED
        BY <1>2, <4>1, <4>3 DEF Create
    <3> QED
      BY <1>2, <2>1, <3>1 DEF Create
  <2>2. /\ proc[p].at # "placed" /\ p \in Procs /\ table' = table /\ UNCHANGED <<ev, seen, watching>>
    BY <1>1, <1>2 DEF Create, Outside
  <2>3. PICK q : proc' = [proc EXCEPT ![p] = q]
    BY <1>2 DEF Create
  <2> QED
    BY <2>1, <2>2, <2>3, QuietStep
<1>3. ASSUME NEW p \in Servers, Place(p) PROVE WatchInv'
  <2>1. /\ proc[p].at # "placed" /\ p \in Procs /\ UNCHANGED <<ev, seen, watching>>
    BY <1>1, <1>3 DEF Place
  <2>2. serving' \subseteq serving
    BY <1>3 DEF Place, StillServing
  <2>3. \E q : /\ proc' = [proc EXCEPT ![p] = q]
               /\ \A k \in Slots : \/ table'[k] = table[k] \/ table'[k] = NoEntry
                                   \/ q.at = "placed" /\ q.name = table'[k].name
    <3>1. PICK name, ch : name = proc[p].name /\ ch = proc[p].ch
      OBVIOUS
    <3>2. PICK tb : tb = TableWithout(Gone(name))
      OBVIOUS
    <3>3. /\ DOMAIN tb = Slots /\ \A k \in Slots : tb[k] = table[k] \/ tb[k] = NoEntry
      BY <3>2 DEF TableWithout
    <3>4. CASE /\ table' = [tb EXCEPT ![Min(FreeEntries(tb))] = [name |-> name, ch |-> ch]]
               /\ Becomes(p, "placed")
      <4>1. PICK q : q = [at |-> "placed", name |-> name, ch |-> ch]
        OBVIOUS
      <4>2. proc' = [proc EXCEPT ![p] = q] /\ q.at = "placed" /\ q.name = name
        BY <3>1, <3>4, <4>1 DEF Becomes
      <4>3. \A k \in Slots : table'[k] = tb[k] \/ table'[k].name = name
        BY <3>3, <3>4
      <4> QED
        BY <3>3, <4>2, <4>3
    <3>5. CASE table' = tb /\ Returns(p)
      BY <3>3, <3>5 DEF Returns
    <3> QED
      BY <1>3, <3>1, <3>2, <3>4, <3>5 DEF Place, TableWithout, Gone
  <2>4. PICK q : /\ proc' = [proc EXCEPT ![p] = q]
                 /\ \A k \in Slots : \/ table'[k] = table[k] \/ table'[k] = NoEntry
                                     \/ q.at = "placed" /\ q.name = table'[k].name
    BY <2>3
  <2>5. \A k \in Slots : table[k].ch \in serving' => table[k].ch \in serving
    BY <2>1, <2>2
  <2>6. \A k \in Slots :
            \/ table'[k] = table[k] \/ table'[k] = NoEntry
            \/ p \in Servers /\ q.at = "placed" /\ q.name = table'[k].name
    BY <2>4
  <2> QED
    BY <2>1, <2>2, <2>4, <2>5, <2>6, QuietStep
<1>4. ASSUME ev' = Raised, UNCHANGED <<seen, watching>> PROVE WatchInv'
  <2>1. PICK v : v = ev
    OBVIOUS
  <2>2. SleepsRightly(SignalLocked(v, Changed)) /\ SignalLocked(v, Changed).count[Changed] # 0
    BY <2>1, SignalTells DEF WatchInv
  <2> QED
    BY <1>4, <2>1, <2>2 DEF WatchInv, Raised
<1>5. ASSUME NEW p \in Servers, Install(p) PROVE WatchInv'
  <2>1. /\ proc[p].at # "placed" /\ p \in Procs /\ table' = table /\ UNCHANGED <<ev, seen, watching>>
        /\ serving' \subseteq serving
    BY <1>1, <1>5 DEF Install
  <2>2. PICK q : proc' = [proc EXCEPT ![p] = q]
    BY <1>5 DEF Install, Becomes
  <2> QED
    BY <2>1, <2>2, QuietStep
<1>6. ASSUME NEW p \in Servers, Withdraw(p) PROVE WatchInv'
  <2>1. /\ proc[p].at # "placed" /\ p \in Procs /\ UNCHANGED <<ev, seen, watching>>
        /\ serving' \subseteq serving
    BY <1>1, <1>6 DEF Withdraw, StillServing
  <2>2. PICK q : proc' = [proc EXCEPT ![p] = q]
    BY <1>6 DEF Withdraw, Becomes, Returns
  <2>3. table' = table \/ \E j : table' = [table EXCEPT ![j] = NoEntry]
    BY <1>6 DEF Withdraw
  <2>4. \A k \in Slots : table'[k] = table[k] \/ table'[k] = NoEntry
    BY <1>1, <2>3
  <2>5. \A k \in Slots : table[k].ch \in serving' => table[k].ch \in serving
    BY <2>1
  <2>6. \A k \in Slots :
            \/ table'[k] = table[k] \/ table'[k] = NoEntry
            \/ p \in Servers /\ q.at = "placed" /\ q.name = table'[k].name
    BY <2>4
  <2> QED
    BY <2>1, <2>2, <2>5, <2>6, QuietStep
<1>7. ASSUME NEW p \in Servers, CloseServing(p) PROVE WatchInv'
  <2>1. /\ proc[p].at # "placed" /\ p \in Procs /\ table' = table /\ UNCHANGED <<ev, seen, watching>>
        /\ serving' \subseteq serving
    BY <1>1, <1>7 DEF CloseServing
  <2>2. PICK q : proc' = [proc EXCEPT ![p] = q]
    BY <1>7 DEF CloseServing, Returns
  <2> QED
    BY <2>1, <2>2, QuietStep
<1>8. ASSUME NEW c \in Clients, NEW name \in Names, Lookup(c, name) PROVE WatchInv'
  <2>1. /\ proc[c].at # "placed" /\ c \in Procs /\ serving' = serving /\ UNCHANGED <<ev, seen, watching>>
    BY <1>1, <1>8 DEF Lookup, Outside
  <2>2. PICK q : proc' = [proc EXCEPT ![c] = q]
    <3>1. proc = [proc EXCEPT ![c] = proc[c]]
      BY <1>1
    <3> QED
      BY <1>8, <3>1 DEF Lookup
  <2>3. table' = table \/ \E j : table' = [table EXCEPT ![j] = NoEntry]
    BY <1>8 DEF Lookup
  <2>4. \A k \in Slots : table'[k] = table[k] \/ table'[k] = NoEntry
    BY <1>1, <2>3
  <2>5. \A k \in Slots : table[k].ch \in serving' => table[k].ch \in serving
    BY <2>1
  <2>6. \A k \in Slots :
            \/ table'[k] = table[k] \/ table'[k] = NoEntry
            \/ c \in Servers /\ q.at = "placed" /\ q.name = table'[k].name
    BY <2>4
  <2> QED
    BY <2>1, <2>2, <2>5, <2>6, QuietStep
<1>9. ASSUME NEW c \in Clients, Connect(c) \/ CloseClient(c) PROVE WatchInv'
  <2>1. /\ proc[c].at # "placed" /\ c \in Procs /\ table' = table /\ UNCHANGED <<ev, seen, watching>>
        /\ serving' \subseteq serving
    BY <1>1, <1>9 DEF Connect, CloseClient, StillServing
  <2>2. PICK q : proc' = [proc EXCEPT ![c] = q]
    BY <1>9 DEF Connect, CloseClient, Returns, Becomes
  <2> QED
    BY <2>1, <2>2, QuietStep
<1>10. CASE Look
  <2>1. LiveNames' = LiveNames /\ seen' = LiveNames /\ watching' = TRUE /\ ev' = ev
    BY <1>10 DEF Look, LiveNames, IsLive
  <2>2. NoNews'
    BY <2>1 DEF NoNews
  <2>3. LiveNames \subseteq Names
    BY LiveAreNames
  <2> QED
    BY <2>1, <2>2, <2>3 DEF WatchInv
<1>11. CASE Wait
  <2>1. PICK v, e : v = ev /\ e = [v EXCEPT !.wait = Leave(@, Watcher)]
    OBVIOUS
  <2>2. /\ e.count[Changed] > 0 => SleepsRightly(Consume(e, Changed))
        /\ e.count[Changed] = 0 =>
              /\ SleepsRightly(BlockOn(e, Watcher, {Changed}, FALSE))
              /\ BlockOn(e, Watcher, {Changed}, FALSE).count[Changed] = v.count[Changed]
        /\ e.count[Changed] = v.count[Changed]
    <3>1. SleepsRightly(v) /\ Ready(v.wait, Watcher)
      BY <1>11, <2>1 DEF WatchInv, Wait
    <3> QED
      BY <2>1, <3>1, WaitIsSafe
  <2>3. CASE e.count[Changed] > 0 /\ ev' = Consume(e, Changed) /\ watching' = FALSE
    BY <1>11, <2>2, <2>3 DEF Wait, WatchInv
  <2>4. CASE /\ e.count[Changed] = 0 /\ ev' = BlockOn(e, Watcher, {Changed}, FALSE)
             /\ watching' = watching
    <3>1. ev.count[Changed] = 0 /\ SleepsRightly(ev') /\ watching
      BY <1>11, <2>1, <2>2, <2>4 DEF Wait
    <3>2. NoNews
      BY <3>1 DEF WatchInv
    <3>3. NoNews'
      BY <1>11, <3>2 DEF Wait, NoNews, LiveNames, IsLive
    <3> QED
      BY <1>11, <2>4, <3>1, <3>3 DEF Wait, WatchInv
  <2> QED
    BY <1>11, <2>1, <2>3, <2>4 DEF Wait
<1>12. CASE UNCHANGED vars
  BY <1>12 DEF vars, WatchInv, NoNews, LiveNames, IsLive
<1>13. ASSUME NEW p \in Servers, Announce(p) \/ Unregistered(p) PROVE WatchInv'
  BY <1>4, <1>13 DEF Announce, Unregistered
<1> QED
  BY <1>2, <1>3, <1>5, <1>6, <1>7, <1>8, <1>9, <1>10, <1>11, <1>12, <1>13 DEF Next

-----------------------------------------------------------------------------
(* The theorems. *)

\* Both invariants hold throughout.
LEMMA InvariantHolds == Spec => [](TableInv /\ WatchInv)
<1>1. Init => TableInv /\ WatchInv
  BY InitTable, InitWatch
<1>2. TableInv /\ WatchInv /\ [Next]_vars => (TableInv /\ WatchInv)'
  BY StepTable, StepWatch
<1> QED
  BY <1>1, <1>2, PTL DEF Spec

\* The table stays a mapping from names to channels that exist: a name has one
\* entry, and a channel counts exactly the entries, handles and calls that refer
\* to it, however registrations, lookups, closes and refusals interleave
\* (place, lookup, withdraw, sys_svc_register, sys_svc_connect).
THEOREM RegistryIsSoundHolds == Spec => []RegistryIsSound
<1>1. TableInv /\ WatchInv => RegistryIsSound
  <2> SUFFICES ASSUME TableInv, WatchInv PROVE RegistryIsSound
    OBVIOUS
  <2>1. ReferencesBalance
    <3>1. \A ch : Holds(proc, ch) = {p \in Servers \cup Clients : HasReference(p, ch)}
      BY DEF Holds, HasReference, Holding, Procs
    <3>2. \A ch : Entries(table, ch) = {k \in Slots : table[k].ch = ch}
      BY DEF Entries
    <3>3. Balanced(refs, table, proc)
      BY DEF TableInv
    <3> QED
      BY <3>1, <3>2, <3>3 DEF ReferencesBalance, Balanced
  <2>2. ASSUME NEW ch \in Channels
        PROVE  refs[ch] \in 0..(TableSize + Cardinality(Servers) + Cardinality(Clients))
    <3>1. refs[ch] = Cardinality(Entries(table, ch)) + Cardinality(Holds(proc, ch))
      BY DEF TableInv, Balanced
    <3>2. /\ Cardinality(Entries(table, ch)) \in Nat /\ Cardinality(Entries(table, ch)) <= TableSize
          /\ Cardinality(Holds(proc, ch)) \in Nat
          /\ Cardinality(Holds(proc, ch)) <= Cardinality(Servers) + Cardinality(Clients)
          /\ Cardinality(Servers) \in Nat /\ Cardinality(Clients) \in Nat
      BY FiniteHolders
    <3> QED
      BY <3>1, <3>2, RegistryAssumption
  <2>3. refs \in [Channels -> 0..(TableSize + Cardinality(Servers) + Cardinality(Clients))]
    BY <2>2 DEF TableInv, TableTyped
  <2>4. TypeOK
    BY <2>3 DEF TypeOK, TableInv, TableTyped, WatchInv, SleepsRightly, EntryType, ProcType, Procs
  <2> QED
    BY <2>1, <2>4 DEF RegistryIsSound, TableInv
<1> QED
  BY <1>1, InvariantHolds, PTL

\* A server that has been given its name and goes on serving is found under it,
\* unless the undoing of another registration took the entry (place, withdraw).
THEOREM ServedNameIsFoundHolds == Spec => []ServedNameIsFound
<1>1. TableInv => ServedNameIsFound
  BY DEF TableInv
<1> QED
  BY <1>1, InvariantHolds, PTL

\* The watcher never sleeps beside a name it has not seen, unless the server
\* that took it has yet to signal `changed` (register, awaitReady).
THEOREM WatcherHearsOfNamesHolds == Spec => []WatcherHearsOfNames
<1>1. WatchInv => WatcherHearsOfNames
  BY DEF WatchInv, SleepsRightly, WatcherHearsOfNames, WatcherAsleep, NoNews
<1> QED
  BY <1>1, InvariantHolds, PTL

==============================================================================
