--------------------------- MODULE ProcessesProofs ---------------------------
(***************************************************************************)
(* Processes for any set of processes, supervisors and killable processes, *)
(* with or without a boot thread.                                          *)
(***************************************************************************)
EXTENDS Processes, WaitQueueProofs

-----------------------------------------------------------------------------
(* The inductive invariant. *)

\* init and the thread that started it are nobody's to spawn or to adopt.
Roots ==
    /\ parent[InitProc] = BootThread
    /\ BootThread # Nobody => parent[BootThread] = Nobody

\* A status is kept for a parent, and then the scheduler does not collect it.
StatusesAreKept ==
    /\ \A c \in awaited : life[c] # "none" /\ parent[c] # Nobody
    /\ toReap \cap awaited = {}

\* A parent in waitFor waits for a child of its own whose status is kept.
WaitsForItsOwn ==
    \A p \in Procs : In(p, "waitFor") => doing[p].child \in awaited /\ parent[doing[p].child] = p

TreeTyped ==
    /\ life \in [Procs -> {"none", "live", "dead"}]
    /\ parent \in [Procs -> Procs \cup {Nobody}]
    /\ awaited \subseteq Procs /\ killed \subseteq Procs
    /\ toReap \subseteq {p \in Procs : life[p] = "dead"}
    /\ doing \in [Procs -> Calls]

\* The bookkeeping of parents and children.
TreeInv ==
    /\ TreeTyped /\ Roots /\ StatusesAreKept /\ WaitsForItsOwn
    /\ NoUncollectableCorpse /\ NoParentCycle

\* The queue a process in call d waits on.
QueueOf(p, d) ==
    IF d.op = "waitFor" THEN ExitQueue(d.child)
    ELSE IF d.op = "waitChild" THEN ChildExit(p) ELSE ChildEvent(p)

\* The nodes on the queues are those of processes in a wait, on the queue of
\* that wait; and whoever sleeps has one.
NodesAreWaiters(w, lf, dn) ==
    /\ OneNodeEach(w)
    /\ \A q \in Queues \cup Events : \A p \in Procs :
          Queued(w, q, p) => lf[p] = "live" /\ dn[p].op # "user" /\ q = QueueOf(p, dn[p])
    /\ \A p \in Procs : ~Ready(w, p) => Queued(w, QueueOf(p, dn[p]), p)

\* In the supervising loop's wait a count that is down has nothing to tell.
CountsTell ==
    \A p \in Procs :
        In(p, "waitMany") =>
            /\ p \in Supervisors
            /\ ~Ready(ev.wait, p) => ev.count[ChildEvent(p)] = 0
            /\ p # InitProc /\ ev.count[ChildEvent(p)] = 0 => DeadChildren(p) = {}

\* The bookkeeping of the waits.
WaitInv ==
    /\ ev \in [count : [Events -> 0..MaxCount], wait : WaitRecords(Procs, Queues \cup Events)]
    /\ NodesAreWaiters(ev.wait, life, doing)
    /\ CountsTell /\ NobodySleepsOnACorpse

-----------------------------------------------------------------------------
(* Parents and children. *)

\* What the calls are.
LEMMA CallFacts ==
    /\ \A d \in Calls : d.op = "waitFor" => d.child \in Procs
    /\ User \in Calls /\ User.op = "user"
    /\ \A id \in Procs \cup {Nobody}, b \in BOOLEAN :
           [op |-> "waitChild", child |-> id, timed |-> b] \in Calls
    /\ \A d \in Calls : d.op = "waitChild" => d.timed \in BOOLEAN
    /\ [op |-> "waitMany", child |-> Nobody] \in Calls
    /\ \A c \in Procs : [op |-> "waitFor", child |-> c] \in Calls
BY DEF Calls, User

\* A step that spawns nobody and ends nobody: a corpse may be freed, a status
\* may be given up.
LEMMA QuietTree ==
    ASSUME TreeInv, NEW F, \A c \in F : life[c] = "dead",
           life' = [p \in Procs |-> IF p \in F THEN "none" ELSE life[p]],
           toReap' = toReap \ F, parent' = parent, killed' \subseteq Procs,
           awaited' \subseteq awaited \ F,
           \A c \in awaited \ awaited' : life[c] # "dead" \/ c \in F,
           doing' \in [Procs -> Calls],
           \A p \in Procs : life[p] = "live" /\ doing'[p].op = "waitFor" =>
               doing'[p] = doing[p] /\ doing[p].child \in awaited'
    PROVE  TreeInv'
<1>1. /\ TreeTyped /\ Roots /\ StatusesAreKept /\ WaitsForItsOwn
      /\ NoUncollectableCorpse /\ NoParentCycle
  BY DEF TreeInv
<1>2. /\ life' \in [Procs -> {"none", "live", "dead"}]
      /\ \A p \in Procs : life'[p] # "none" => life'[p] = life[p] /\ p \notin F
      /\ \A p \in Procs : life[p] = "live" => life'[p] = "live"
      /\ \A p \in Procs \ F : life'[p] = life[p]
  BY <1>1 DEF TreeTyped
<1>3. TreeTyped'
  BY <1>1, <1>2 DEF TreeTyped
<1>4. Roots'
  BY <1>1 DEF Roots
<1>5. StatusesAreKept'
  BY <1>1, <1>2 DEF StatusesAreKept, TreeTyped
<1>6. WaitsForItsOwn'
  BY <1>1, <1>2 DEF WaitsForItsOwn, In, Live
<1>7. NoUncollectableCorpse'
  <2> SUFFICES ASSUME NEW c \in Procs
               PROVE  /\ life'[c] = "dead" => c \in toReap' \/ (c \in awaited' /\ parent[c] # Nobody)
                      /\ life'[c] # "none" /\ c # InitProc /\ parent[c] # Nobody =>
                            life'[parent[c]] = "live"
    BY DEF NoUncollectableCorpse, Live
  <2>1. life'[c] = "dead" => c \in toReap' \/ (c \in awaited' /\ parent[c] # Nobody)
    BY <1>1, <1>2 DEF NoUncollectableCorpse
  <2>2. ASSUME life'[c] # "none", c # InitProc, parent[c] # Nobody PROVE life'[parent[c]] = "live"
    BY <1>1, <1>2, <2>2 DEF NoUncollectableCorpse, Live, TreeTyped
  <2> QED
    BY <2>1, <2>2
<1>8. NoParentCycle'
  <2>1. {p \in Procs : life'[p] # "none"} \subseteq {p \in Procs : life[p] # "none"}
    BY <1>2
  <2> QED
    BY <1>1, <2>1 DEF NoParentCycle
<1> QED
  BY <1>3, <1>4, <1>5, <1>6, <1>7, <1>8 DEF TreeInv

\* spawn: the new process is its parent's, and a slot that is free is nobody's
\* parent.
LEMMA SpawnTree ==
    ASSUME TreeInv, NEW p \in Procs, NEW c \in Procs, NEW sync \in BOOLEAN, Spawn(p, c, sync)
    PROVE  TreeInv'
<1>1. /\ TreeTyped /\ Roots /\ StatusesAreKept /\ WaitsForItsOwn
      /\ NoUncollectableCorpse /\ NoParentCycle
  BY DEF TreeInv
<1>2. /\ life[p] = "live" /\ doing[p].op = "user" /\ life[c] = "none" /\ c # p
      /\ c # InitProc /\ c # BootThread /\ p # Nobody /\ c \notin awaited /\ c \notin toReap
      /\ awaited' = awaited \cup {c} /\ toReap' = toReap /\ killed' = killed \ {c}
  BY <1>1, ProcessAssumption DEF Spawn, In, Live, StatusesAreKept, TreeTyped
<1>3. /\ life' \in [Procs -> {"none", "live", "dead"}] /\ life'[c] = "live"
      /\ \A x \in Procs \ {c} : life'[x] = life[x]
  BY <1>1 DEF Spawn, TreeTyped
<1>4. /\ parent' \in [Procs -> Procs \cup {Nobody}] /\ parent'[c] = p
      /\ \A x \in Procs \ {c} : parent'[x] = parent[x]
  BY <1>1 DEF Spawn, TreeTyped
<1>5. /\ doing' \in [Procs -> Calls] /\ doing'[c].op = "user"
      /\ doing'[p] = [op |-> "waitFor", child |-> c] \/ doing'[p].op = "user"
      /\ \A x \in Procs \ {c, p} : doing'[x] = doing[x]
  <2>1. PICK d \in Calls : /\ doing' = [doing EXCEPT ![c] = User, ![p] = d]
                           /\ d = [op |-> "waitFor", child |-> c] \/ d.op = "user"
    <3>1. PICK d : d = IF sync THEN [op |-> "waitFor", child |-> c] ELSE User
      OBVIOUS
    <3>2. d \in Calls /\ (d = [op |-> "waitFor", child |-> c] \/ d.op = "user")
      BY <3>1, CallFacts
    <3>3. doing' = [doing EXCEPT ![c] = User, ![p] = d]
      BY <3>1, Zenon DEF Spawn
    <3> QED
      BY <3>2, <3>3
  <2> QED
    BY <1>1, <1>2, <2>1, CallFacts DEF TreeTyped
<1>6. TreeTyped'
  BY <1>1, <1>2, <1>3, <1>4, <1>5 DEF TreeTyped
<1>7. Roots'
  BY <1>1, <1>2, <1>4, ProcessAssumption DEF Roots
<1>8. StatusesAreKept'
  BY <1>1, <1>2, <1>3, <1>4 DEF StatusesAreKept, TreeTyped
<1>9. WaitsForItsOwn'
  <2> SUFFICES ASSUME NEW x \in Procs, life'[x] = "live", doing'[x].op = "waitFor"
               PROVE  doing'[x].child \in awaited' /\ parent'[doing'[x].child] = x
    BY DEF WaitsForItsOwn, In, Live
  <2>1. CASE x = p
    BY <1>2, <1>4, <1>5, <2>1
  <2>2. CASE x # p
    <3>1. doing'[x] = doing[x] /\ life[x] = "live" /\ doing[x].child \in Procs
      BY <1>1, <1>3, <1>5, <2>2, CallFacts DEF TreeTyped
    <3>2. doing[x].child \in awaited /\ parent[doing[x].child] = x
      BY <1>1, <3>1 DEF WaitsForItsOwn, In, Live
    <3> QED
      BY <1>2, <1>4, <3>1, <3>2
  <2> QED
    BY <2>1, <2>2
<1>10. ASSUME NEW x \in Procs, x # c, life[x] # "none" PROVE parent[x] # c
  BY <1>1, <1>2, <1>10, ProcessAssumption DEF NoUncollectableCorpse, Live, Roots
<1>11. NoUncollectableCorpse'
  <2> SUFFICES ASSUME NEW x \in Procs
               PROVE  /\ life'[x] = "dead" => x \in toReap' \/ (x \in awaited' /\ parent'[x] # Nobody)
                      /\ life'[x] # "none" /\ x # InitProc /\ parent'[x] # Nobody =>
                            life'[parent'[x]] = "live"
    BY DEF NoUncollectableCorpse, Live
  <2>1. CASE x = c
    BY <1>2, <1>3, <1>4, <2>1
  <2>2. CASE x # c
    <3>1. life'[x] = life[x] /\ parent'[x] = parent[x] /\ parent[x] \in Procs \cup {Nobody}
      BY <1>1, <1>3, <1>4, <2>2 DEF TreeTyped
    <3> QED
      BY <1>1, <1>2, <1>3, <1>10, <2>2, <3>1 DEF NoUncollectableCorpse, Live
  <2> QED
    BY <2>1, <2>2
<1>12. NoParentCycle'
  <2> SUFFICES ASSUME NEW S \in SUBSET Procs, \A x \in S : life'[x] # "none", S # {}
               PROVE  \E x \in S : parent'[x] \notin S
    BY DEF NoParentCycle
  <2>1. CASE S = {c}
    BY <1>2, <1>4, <2>1
  <2>2. CASE S # {c}
    <3>1. S \ {c} # {} /\ S \ {c} \in SUBSET {x \in Procs : life[x] # "none"}
      BY <1>3, <2>2
    <3>2. PICK x \in S \ {c} : parent[x] \notin S \ {c}
      BY <1>1, <3>1 DEF NoParentCycle
    <3> QED
      BY <1>4, <1>10, <3>1, <3>2
  <2> QED
    BY <2>1, <2>2
<1> QED
  BY <1>6, <1>7, <1>8, <1>9, <1>11, <1>12 DEF TreeInv

\* exitWith: the children that are left go to init, or are nobody's and their
\* statuses with them.
LEMMA ExitTree ==
    ASSUME TreeInv, NEW p \in Procs, Exit(p)
    PROVE  TreeInv'
<1>1. /\ TreeTyped /\ Roots /\ StatusesAreKept /\ WaitsForItsOwn
      /\ NoUncollectableCorpse /\ NoParentCycle
  BY DEF TreeInv
<1>2. life[p] = "live" /\ doing[p].op = "user" /\ killed' = killed /\ p # Nobody
  BY ProcessAssumption DEF Exit, In, Live, ExitWith
<1>3. PICK O, A, W : O = Orphans(p) /\ A = AdopterFor(p) /\ W = AwaitedAfter(p)
  OBVIOUS
<1>4. PICK F : F = IF A = Nobody THEN {c \in O : life[c] = "dead"} \ W ELSE {}
  OBVIOUS
<1>5. /\ O \subseteq Procs /\ p \notin O /\ InitProc \notin O
      /\ \A c \in Procs : c \in O <=> c # p /\ c # InitProc /\ life[c] # "none" /\ parent[c] = p
      /\ W = IF A = Nobody THEN awaited \ O ELSE awaited
  BY <1>3 DEF Orphans, AwaitedAfter
<1>6. A = Nobody \/ (A = InitProc /\ InitProc # p /\ life[InitProc] = "live")
  BY <1>3 DEF AdopterFor, Live
<1>7. /\ \A c \in F : c \in O /\ life[c] = "dead" /\ A = Nobody
      /\ \A c \in O : A = Nobody /\ life[c] = "dead" => c \in F
  BY <1>4, <1>5
<1>8. /\ life' = [q \in Procs |-> IF q = p THEN "dead" ELSE IF q \in F THEN "none" ELSE life[q]]
      /\ toReap' = (toReap \cup QueuedForReap(p)) \ F
      /\ awaited' = W
      /\ parent' = [c \in Procs |-> IF c \in O THEN A ELSE parent[c]]
      /\ doing' = [doing EXCEPT ![p] = User]
  BY <1>3, <1>4 DEF Exit, ExitWith, Sets
<1>9. /\ life' \in [Procs -> {"none", "live", "dead"}] /\ life'[p] = "dead"
      /\ \A x \in Procs \ {p} : x \notin F => life'[x] = life[x]
      /\ \A x \in F : life'[x] = "none"
  BY <1>1, <1>5, <1>7, <1>8 DEF TreeTyped
<1>10. /\ parent' \in [Procs -> Procs \cup {Nobody}] /\ (\A x \in O : parent'[x] = A)
       /\ \A x \in Procs \ O : parent'[x] = parent[x]
  BY <1>1, <1>5, <1>6, <1>8, ProcessAssumption DEF TreeTyped
<1>11. doing' \in [Procs -> Calls] /\ \A x \in Procs \ {p} : doing'[x] = doing[x]
  BY <1>1, <1>8, CallFacts DEF TreeTyped
<1>12. /\ p \in toReap' <=> p \notin awaited
       /\ \A x \in Procs \ {p} : x \in toReap' <=> x \in toReap /\ x \notin F
       /\ toReap' \subseteq Procs
  BY <1>1, <1>2, <1>5, <1>7, <1>8 DEF QueuedForReap, TreeTyped
<1>13. TreeTyped'
  <2>1. toReap' \subseteq {x \in Procs : life'[x] = "dead"}
    BY <1>1, <1>9, <1>12 DEF TreeTyped
  <2> QED
    BY <1>1, <1>2, <1>5, <1>8, <1>9, <1>10, <1>11, <2>1 DEF TreeTyped
<1>14. Roots'
  BY <1>1, <1>2, <1>5, <1>10, ProcessAssumption DEF Roots
<1>15. StatusesAreKept'
  <2>1. ASSUME NEW c \in awaited' PROVE life'[c] # "none" /\ parent'[c] # Nobody
    <3>1. c \in awaited /\ c \in Procs /\ (A = Nobody => c \notin O) /\ c \notin F
      BY <1>1, <1>5, <1>7, <1>8, <2>1 DEF TreeTyped
    <3>2. life[c] # "none" /\ parent[c] # Nobody
      BY <1>1, <3>1 DEF StatusesAreKept
    <3> QED
      BY <1>9, <1>10, <3>1, <3>2
  <2>2. toReap' \cap awaited' = {}
    BY <1>1, <1>5, <1>8, <1>12 DEF StatusesAreKept
  <2> QED
    BY <2>1, <2>2 DEF StatusesAreKept
<1>16. WaitsForItsOwn'
  <2> SUFFICES ASSUME NEW x \in Procs, life'[x] = "live", doing'[x].op = "waitFor"
               PROVE  doing'[x].child \in awaited' /\ parent'[doing'[x].child] = x
    BY DEF WaitsForItsOwn, In, Live
  <2>1. x # p /\ doing'[x] = doing[x] /\ life[x] = "live"
    BY <1>9, <1>11
  <2>2. doing[x].child \in awaited /\ parent[doing[x].child] = x /\ doing[x].child \in Procs
    BY <1>1, <2>1 DEF WaitsForItsOwn, In, Live, TreeTyped
  <2>3. doing[x].child \notin O
    BY <1>5, <2>1, <2>2
  <2> QED
    BY <1>5, <1>8, <1>10, <2>1, <2>2, <2>3
<1>17. NoUncollectableCorpse'
  <2> SUFFICES ASSUME NEW x \in Procs
               PROVE  /\ life'[x] = "dead" => x \in toReap' \/ (x \in awaited' /\ parent'[x] # Nobody)
                      /\ life'[x] # "none" /\ x # InitProc /\ parent'[x] # Nobody =>
                            life'[parent'[x]] = "live"
    BY DEF NoUncollectableCorpse, Live
  <2>1. ASSUME life'[x] = "dead" PROVE x \in toReap' \/ (x \in awaited' /\ parent'[x] # Nobody)
    <3>1. CASE x = p
      BY <1>1, <1>5, <1>8, <1>10, <1>12, <3>1 DEF StatusesAreKept
    <3>2. CASE x # p
      <4>1. x \notin F /\ life[x] = "dead"
        BY <1>9, <2>1, <3>2
      <4>2. x \in toReap \/ (x \in awaited /\ parent[x] # Nobody)
        BY <1>1, <4>1 DEF NoUncollectableCorpse
      <4>3. A = Nobody => x \notin O
        BY <1>7, <4>1
      <4> QED
        BY <1>5, <1>6, <1>8, <1>10, <1>12, <3>2, <4>1, <4>2, <4>3, ProcessAssumption
    <3> QED
      BY <3>1, <3>2
  <2>2. ASSUME life'[x] # "none", x # InitProc, parent'[x] # Nobody PROVE life'[parent'[x]] = "live"
    <3>1. CASE x \in O
      <4>1. A = InitProc /\ InitProc # p /\ life[InitProc] = "live" /\ InitProc \notin F
        BY <1>5, <1>6, <1>7, <1>10, <2>2, <3>1
      <4> QED
        BY <1>9, <1>10, <3>1, <4>1, ProcessAssumption
    <3>2. CASE x \notin O
      <4>1. life[x] # "none" /\ parent'[x] = parent[x]
        BY <1>2, <1>9, <1>10, <2>2, <3>2
      <4>2. parent[x] \in Procs /\ life[parent[x]] = "live"
        BY <1>1, <2>2, <4>1 DEF NoUncollectableCorpse, Live, TreeTyped
      <4>3. x = p => parent[x] # p
        <5> SUFFICES ASSUME x = p, parent[x] = p PROVE FALSE
          OBVIOUS
        <5>1. {p} \in SUBSET {y \in Procs : life[y] # "none"} /\ {p} # {}
          BY <1>2
        <5>2. \E y \in {p} : parent[y] \notin {p}
          BY <1>1, <5>1 DEF NoParentCycle
        <5> QED
          BY <5>2
      <4>4. parent[x] # p /\ parent[x] \notin F
        BY <1>5, <1>7, <2>2, <3>2, <4>1, <4>2, <4>3
      <4> QED
        BY <1>9, <4>1, <4>2, <4>4
    <3> QED
      BY <3>1, <3>2
  <2> QED
    BY <2>1, <2>2
<1>18. NoParentCycle'
  <2> SUFFICES ASSUME NEW S \in SUBSET Procs, \A x \in S : life'[x] # "none", S # {}
               PROVE  \E x \in S : parent'[x] \notin S
    BY DEF NoParentCycle
  <2>1. CASE S \cap O = {}
    <3>1. S \in SUBSET {x \in Procs : life[x] # "none"}
      BY <1>2, <1>9
    <3>2. PICK x \in S : parent[x] \notin S
      BY <1>1, <3>1 DEF NoParentCycle
    <3> QED
      BY <1>10, <2>1, <3>2
  <2>2. CASE S \cap O # {}
    <3>1. PICK x \in S : x \in O
      BY <2>2
    <3>2. CASE A \notin S
      BY <1>10, <3>1, <3>2
    <3>3. CASE A \in S
      <4>1. InitProc \in S /\ parent'[InitProc] = BootThread
        BY <1>6, <1>14, <3>3, ProcessAssumption DEF Roots
      <4>2. BootThread \in S => BootThread # Nobody /\ parent'[BootThread] = Nobody
        BY <1>14, ProcessAssumption DEF Roots
      <4> QED
        BY <4>1, <4>2, ProcessAssumption
    <3> QED
      BY <3>2, <3>3
  <2> QED
    BY <2>1, <2>2
<1> QED
  BY <1>13, <1>14, <1>15, <1>16, <1>17, <1>18 DEF TreeInv

-----------------------------------------------------------------------------
(* The waits. *)

AllQueues == Queues \cup Events

\* The queues have different names.
LEMMA QueueNames ==
    /\ \A p \in Procs : {ExitQueue(p), ChildExit(p), ChildEvent(p)} \subseteq AllQueues
    /\ \A p \in Procs : ChildEvent(p) \in Events
    /\ \A p, q : /\ ExitQueue(p) = ExitQueue(q) => p = q
                 /\ ChildExit(p) = ChildExit(q) => p = q
                 /\ ChildEvent(p) = ChildEvent(q) => p = q
                 /\ ExitQueue(p) # ChildExit(q) /\ ExitQueue(p) # ChildEvent(q)
                 /\ ChildExit(p) # ChildEvent(q)
BY DEF AllQueues, Queues, Events, ExitQueue, ChildExit, ChildEvent

\* Every wait has its queue.
LEMMA QueueOfType ==
    ASSUME NEW p \in Procs, NEW d \in Calls
    PROVE  QueueOf(p, d) \in AllQueues
BY QueueNames, CallFacts DEF QueueOf

\* Whoever of S was in a wait stays in it.
WaitsOn(lf, dn, lg, dm, S) ==
    \A x \in S : lf[x] = "live" /\ dn[x].op # "user" => lg[x] = "live" /\ dm[x] = dn[x]

\* A process that was in no wait goes on to something else.
LEMMA NodesKept ==
    ASSUME NEW w, NEW lf, NEW dn, NodesAreWaiters(w, lf, dn), dn \in [Procs -> Calls],
           NEW lg, NEW dm,
           WaitsOn(lf, dn, lg, dm, Procs)
    PROVE  NodesAreWaiters(w, lg, dm)
<1>1. \A q \in AllQueues : \A p \in Procs :
          Queued(w, q, p) => lf[p] = "live" /\ dn[p].op # "user" /\ q = QueueOf(p, dn[p])
  BY DEF NodesAreWaiters, AllQueues
<1>2. ASSUME NEW p \in Procs, ~Ready(w, p) PROVE Queued(w, QueueOf(p, dm[p]), p)
  <2>1. Queued(w, QueueOf(p, dn[p]), p)
    BY <1>2 DEF NodesAreWaiters
  <2>2. QueueOf(p, dn[p]) \in AllQueues
    BY QueueOfType
  <2> QED
    BY <1>1, <2>1, <2>2 DEF WaitsOn
<1> QED
  BY <1>1, <1>2 DEF NodesAreWaiters, AllQueues, WaitsOn

\* The second half of blockOn: the process has no node left, and may go on to
\* something else.
LEMMA LeaveNodes ==
    ASSUME NEW w \in WaitRecords(Procs, AllQueues), NEW lf, NEW dn, NodesAreWaiters(w, lf, dn),
           dn \in [Procs -> Calls], NEW p \in Procs, Ready(w, p), NEW lg, NEW dm,
           WaitsOn(lf, dn, lg, dm, Procs \ {p})
    PROVE  /\ NodesAreWaiters(Leave(w, p), lg, dm)
           /\ Leave(w, p) \in WaitRecords(Procs, AllQueues)
           /\ \A x \in Procs : Ready(Leave(w, p), x) <=> Ready(w, x)
           /\ \A q \in AllQueues : ~Queued(Leave(w, p), q, p)
<1>1. PICK v : v = Leave(w, p)
  OBVIOUS
<1>2. /\ v \in WaitRecords(Procs, AllQueues) /\ OneNodeEach(v)
      /\ \A q \in AllQueues : \A u : Queued(v, q, u) <=> Queued(w, q, u) /\ u # p
  BY <1>1, LeaveType, LeaveMembers DEF NodesAreWaiters
<1>3. \A x \in Procs : Ready(v, x) <=> Ready(w, x)
  BY <1>1 DEF Leave, Ready
<1>4. \A q \in AllQueues : \A x \in Procs :
          Queued(w, q, x) => lf[x] = "live" /\ dn[x].op # "user" /\ q = QueueOf(x, dn[x])
  BY DEF NodesAreWaiters, AllQueues
<1>5. \A q \in AllQueues : \A x \in Procs :
          Queued(v, q, x) => lg[x] = "live" /\ dm[x].op # "user" /\ q = QueueOf(x, dm[x])
  BY <1>2, <1>4 DEF WaitsOn
<1>6. ASSUME NEW x \in Procs, ~Ready(v, x) PROVE Queued(v, QueueOf(x, dm[x]), x)
  <2>1. Queued(w, QueueOf(x, dn[x]), x) /\ x # p
    BY <1>3, <1>6 DEF NodesAreWaiters
  <2>2. QueueOf(x, dn[x]) \in AllQueues
    BY QueueOfType
  <2> QED
    BY <1>2, <1>4, <2>1, <2>2 DEF WaitsOn
<1>7. NodesAreWaiters(v, lg, dm)
  BY <1>2, <1>5, <1>6 DEF NodesAreWaiters, AllQueues
<1> QED
  BY <1>1, <1>2, <1>3, <1>7

\* A process that leaves its queue and blocks on it again.
LEMMA BlockNodes ==
    ASSUME NEW w \in WaitRecords(Procs, AllQueues), NEW lf, NEW dn, NodesAreWaiters(w, lf, dn),
           dn \in [Procs -> Calls], NEW p \in Procs, Ready(w, p), NEW t \in BOOLEAN,
           lf[p] = "live", dn[p].op # "user", NEW q, q = QueueOf(p, dn[p])
    PROVE  /\ NodesAreWaiters(Block(Leave(w, p), p, {q}, t), lf, dn)
           /\ Block(Leave(w, p), p, {q}, t) \in WaitRecords(Procs, AllQueues)
           /\ \A x \in Procs \ {p} : Ready(Block(Leave(w, p), p, {q}, t), x) <=> Ready(w, x)
<1>1. PICK v : v = Leave(w, p)
  OBVIOUS
<1>2. /\ NodesAreWaiters(v, lf, dn) /\ v \in WaitRecords(Procs, AllQueues)
      /\ \A x \in Procs : Ready(v, x) <=> Ready(w, x)
      /\ \A r \in AllQueues : ~Queued(v, r, p)
  <2>1. WaitsOn(lf, dn, lf, dn, Procs \ {p})
    BY DEF WaitsOn
  <2> QED
    BY <1>1, <2>1, LeaveNodes
<1>3. PICK d \in BOOLEAN : d = t
  OBVIOUS
<1>4. PICK b, Q : b = Block(v, p, Q, d) /\ Q = {q}
  OBVIOUS
<1>5. /\ b \in WaitRecords(Procs, AllQueues) /\ OneNodeEach(b)
      /\ \A r \in AllQueues : \A u : Queued(b, r, u) <=> Queued(v, r, u) \/ (r \in Q /\ u = p)
  BY <1>2, <1>4, BlockType, BlockMembers DEF NodesAreWaiters
<1>6. \A x \in Procs \ {p} : Ready(b, x) <=> Ready(v, x)
  BY <1>2, <1>4 DEF Block, Ready, WaitRecords
<1>7. q \in AllQueues
  BY QueueOfType
<1>8. ASSUME NEW x \in Procs, ~Ready(b, x) PROVE Queued(b, QueueOf(x, dn[x]), x)
  <2>1. CASE x = p
    BY <1>4, <1>5, <1>7, <2>1
  <2>2. CASE x # p
    <3>1. Queued(v, QueueOf(x, dn[x]), x)
      BY <1>2, <1>6, <1>8, <2>2 DEF NodesAreWaiters
    <3>2. QueueOf(x, dn[x]) \in AllQueues
      BY QueueOfType
    <3> QED
      BY <1>5, <3>1, <3>2
  <2> QED
    BY <2>1, <2>2
<1>9. \A r \in AllQueues : \A x \in Procs :
          Queued(b, r, x) => lf[x] = "live" /\ dn[x].op # "user" /\ r = QueueOf(x, dn[x])
  <2>1. \A r \in AllQueues : \A x \in Procs :
            Queued(v, r, x) => lf[x] = "live" /\ dn[x].op # "user" /\ r = QueueOf(x, dn[x])
    BY <1>2 DEF NodesAreWaiters, AllQueues
  <2> QED
    BY <1>4, <1>5, <2>1
<1>10. NodesAreWaiters(b, lf, dn)
  BY <1>5, <1>8, <1>9 DEF NodesAreWaiters, AllQueues
<1> QED
  BY <1>1, <1>2, <1>3, <1>4, <1>5, <1>6, <1>10

\* sched.kill's wake: the nodes stay where they are.
LEMMA UnblockNodes ==
    ASSUME NEW w \in WaitRecords(Procs, AllQueues), NEW lf, NEW dn, NodesAreWaiters(w, lf, dn),
           NEW p \in Procs
    PROVE  /\ NodesAreWaiters(Unblock(w, p), lf, dn)
           /\ Unblock(w, p) \in WaitRecords(Procs, AllQueues)
           /\ \A x \in Procs : Ready(w, x) => Ready(Unblock(w, p), x)
<1>1. PICK v : v = Unblock(w, p)
  OBVIOUS
<1>2. /\ v \in WaitRecords(Procs, AllQueues) /\ OneNodeEach(v)
      /\ \A q, u : Queued(v, q, u) <=> Queued(w, q, u)
  BY <1>1, UnblockType, UnblockMembers DEF NodesAreWaiters
<1>3. \A x \in Procs : Ready(w, x) => Ready(v, x)
  BY <1>1 DEF Unblock, Ready, WaitRecords
<1>4. NodesAreWaiters(v, lf, dn)
  BY <1>2, <1>3 DEF NodesAreWaiters
<1> QED
  BY <1>1, <1>2, <1>3, <1>4

\* What an exit's wake of a queue does: whoever still sleeps slept before, and
\* on another queue.
Roused(w, v, lf, dn, q) ==
    /\ v \in WaitRecords(Procs, AllQueues) /\ NodesAreWaiters(v, lf, dn)
    /\ \A x \in Procs : ~Ready(v, x) => ~Ready(w, x) /\ QueueOf(x, dn[x]) # q

LEMMA WakeAllRouses ==
    ASSUME NEW w \in WaitRecords(Procs, AllQueues), NEW lf, NEW dn, NodesAreWaiters(w, lf, dn),
           dn \in [Procs -> Calls], NEW q \in AllQueues
    PROVE  Roused(w, WakeAll(w, q), lf, dn, q)
<1>1. PICK v, Q : v = WakeEach(w, Q) /\ Q = {q}
  OBVIOUS
<1>2. /\ v \in WaitRecords(Procs, AllQueues) /\ OneNodeEach(v)
      /\ \A r \in AllQueues : \A u : Queued(v, r, u) <=> Queued(w, r, u) /\ r \notin Q
  BY <1>1, WakeEachType, WakeEachMembers DEF NodesAreWaiters
<1>3. \A x \in Procs : ~Ready(v, x) => ~Ready(w, x) /\ ~Queued(w, q, x)
  BY <1>1 DEF WakeEach, Ready, WaitRecords
<1>4. ASSUME NEW x \in Procs, ~Ready(v, x)
      PROVE  Queued(v, QueueOf(x, dn[x]), x) /\ QueueOf(x, dn[x]) # q
  <2>1. Queued(w, QueueOf(x, dn[x]), x)
    BY <1>3, <1>4 DEF NodesAreWaiters
  <2>2. QueueOf(x, dn[x]) \in AllQueues /\ QueueOf(x, dn[x]) # q
    BY <1>3, <1>4, <2>1, QueueOfType
  <2> QED
    BY <1>1, <1>2, <2>1, <2>2
<1>5. NodesAreWaiters(v, lf, dn)
  BY <1>2, <1>4 DEF NodesAreWaiters, AllQueues
<1> QED
  BY <1>1, <1>2, <1>3, <1>4, <1>5 DEF Roused, WakeAll

\* Only the supervisor itself waits on its child event.
LEMMA WakeOneRouses ==
    ASSUME NEW w \in WaitRecords(Procs, AllQueues), NEW lf, NEW dn, NodesAreWaiters(w, lf, dn),
           dn \in [Procs -> Calls], NEW s \in Procs, NEW q, q = ChildEvent(s)
    PROVE  Roused(w, WakeOne(w, q), lf, dn, q)
<1>1. PICK v : v = WakeOne(w, q)
  OBVIOUS
<1>2. q \in AllQueues /\ OneNodeEach(w)
  BY QueueNames DEF NodesAreWaiters
<1>3. /\ v \in WaitRecords(Procs, AllQueues) /\ OneNodeEach(v)
      /\ \/ (\A t : ~Queued(w, q, t)) /\ v = w
         \/ \E t \in Procs : Woke(w, v, AllQueues, q, t)
  BY <1>1, <1>2, WakeOneType, WakeOneMembers
<1>4. \A r \in AllQueues : \A x \in Procs :
          Queued(w, r, x) => lf[x] = "live" /\ dn[x].op # "user" /\ r = QueueOf(x, dn[x])
  BY DEF NodesAreWaiters, AllQueues
<1>5. \A x \in Procs : QueueOf(x, dn[x]) \in AllQueues /\ (QueueOf(x, dn[x]) = q => x = s)
  BY QueueOfType, QueueNames DEF QueueOf
<1>6. CASE (\A t : ~Queued(w, q, t)) /\ v = w
  <2>1. \A x \in Procs : ~Ready(v, x) => QueueOf(x, dn[x]) # q
    BY <1>6 DEF NodesAreWaiters
  <2> QED
    BY <1>1, <1>6, <2>1 DEF Roused
<1>7. ASSUME NEW t \in Procs, Woke(w, v, AllQueues, q, t) PROVE Roused(w, v, lf, dn, q)
  <2>1. t = s
    BY <1>2, <1>4, <1>5, <1>7 DEF Woke
  <2>2. /\ \A x \in Procs : ~Ready(v, x) => ~Ready(w, x) /\ x # t
        /\ \A r \in AllQueues : \A u : Queued(v, r, u) <=> Queued(w, r, u) /\ ~(r = q /\ u = t)
    BY <1>7 DEF Woke, Ready, WaitRecords
  <2>3. ASSUME NEW x \in Procs, ~Ready(v, x)
        PROVE  Queued(v, QueueOf(x, dn[x]), x) /\ QueueOf(x, dn[x]) # q
    <3>1. Queued(w, QueueOf(x, dn[x]), x) /\ x # t
      BY <2>2, <2>3 DEF NodesAreWaiters
    <3> QED
      BY <1>5, <2>1, <2>2, <3>1
  <2>4. NodesAreWaiters(v, lf, dn)
    BY <1>3, <1>4, <2>2, <2>3 DEF NodesAreWaiters, AllQueues
  <2> QED
    BY <1>3, <2>2, <2>3, <2>4 DEF Roused
<1> QED
  BY <1>1, <1>3, <1>6, <1>7

EvType == [count : [Events -> 0..MaxCount], wait : WaitRecords(Procs, AllQueues)]

\* A step of process p in which nobody ends and nobody is adopted.
LEMMA QuietWait ==
    ASSUME TreeInv, TreeInv', WaitInv, NEW p \in Procs,
           \A c \in Procs : life'[c] = "dead" => life[c] = "dead" /\ parent'[c] = parent[c],
           \A c \in Procs : life[c] = "live" => life'[c] = "live",
           ev' \in EvType, NodesAreWaiters(ev'.wait, life', doing'),
           \A x \in Procs \ {p} :
               life'[x] = "live" /\ doing'[x].op # "user" =>
                   /\ life[x] = "live" /\ doing'[x] = doing[x]
                   /\ Ready(ev.wait, x) => Ready(ev'.wait, x)
                   /\ ev'.count[ChildEvent(x)] = ev.count[ChildEvent(x)],
           life'[p] = "live" /\ doing'[p].op = "waitFor" /\ ~Ready(ev'.wait, p) =>
               life'[doing'[p].child] = "live",
           life'[p] = "live" /\ doing'[p].op = "waitChild" /\ ~Ready(ev'.wait, p) =>
               DeadWanted(p)' = {},
           life'[p] = "live" /\ doing'[p].op = "waitMany" =>
               /\ p \in Supervisors
               /\ ~Ready(ev'.wait, p) => ev'.count[ChildEvent(p)] = 0
               /\ p # InitProc /\ ev'.count[ChildEvent(p)] = 0 => DeadChildren(p)' = {}
    PROVE  WaitInv'
<1>1. CountsTell /\ NobodySleepsOnACorpse /\ TreeTyped /\ TreeTyped'
  BY DEF WaitInv, TreeInv
<1>2. \A x \in Procs : DeadChildren(x)' \subseteq DeadChildren(x)
  BY DEF DeadChildren, Children
<1>3. CountsTell'
  <2> SUFFICES ASSUME NEW x \in Procs, life'[x] = "live", doing'[x].op = "waitMany"
               PROVE  /\ x \in Supervisors
                      /\ ~Ready(ev'.wait, x) => ev'.count[ChildEvent(x)] = 0
                      /\ x # InitProc /\ ev'.count[ChildEvent(x)] = 0 => DeadChildren(x)' = {}
    BY DEF CountsTell, In, Live
  <2>1. CASE x # p
    <3>1. life[x] = "live" /\ doing'[x] = doing[x] /\ (Ready(ev.wait, x) => Ready(ev'.wait, x))
          /\ ev'.count[ChildEvent(x)] = ev.count[ChildEvent(x)]
      BY <2>1
    <3>2. /\ x \in Supervisors /\ (~Ready(ev.wait, x) => ev.count[ChildEvent(x)] = 0)
          /\ x # InitProc /\ ev.count[ChildEvent(x)] = 0 => DeadChildren(x) = {}
      BY <1>1, <3>1 DEF CountsTell, In, Live
    <3> QED
      BY <1>2, <3>1, <3>2
  <2> QED
    BY <2>1
<1>4. NobodySleepsOnACorpse'
  <2> SUFFICES ASSUME NEW x \in Procs, life'[x] = "live", ~Ready(ev'.wait, x)
               PROVE  /\ doing'[x].op = "waitFor" => life'[doing'[x].child] = "live"
                      /\ doing'[x].op = "waitChild" => DeadWanted(x)' = {}
    BY DEF NobodySleepsOnACorpse, Asleep, In, Live
  <2>1. ASSUME x # p, doing'[x].op # "user"
        PROVE  /\ doing'[x].op = "waitFor" => life'[doing'[x].child] = "live"
               /\ doing'[x].op = "waitChild" => DeadWanted(x)' = {}
    <3>1. life[x] = "live" /\ doing'[x] = doing[x] /\ ~Ready(ev.wait, x)
      BY <2>1
    <3>2. doing[x].op = "waitFor" => doing[x].child \in Procs
      BY <1>1, CallFacts DEF TreeTyped
    <3>3. /\ doing[x].op = "waitFor" => life[doing[x].child] = "live"
          /\ doing[x].op = "waitChild" => DeadWanted(x) = {}
      BY <1>1, <3>1 DEF NobodySleepsOnACorpse, Asleep, In, Live
    <3>4. DeadWanted(x)' \subseteq DeadWanted(x)
      BY <1>2, <3>1 DEF DeadWanted
    <3> QED
      BY <3>1, <3>2, <3>3, <3>4
  <2> QED
    BY <2>1
<1> QED
  BY <1>3, <1>4 DEF WaitInv, EvType, AllQueues

\* The same of a step that takes p out of its queue, if it was on one.
LEMMA LeaveWait ==
    ASSUME TreeInv, TreeInv', WaitInv, NEW p \in Procs, life[p] = "live", Ready(ev.wait, p), parent' = parent,
           \A y \in Procs : life'[y] = "dead" => life[y] = "dead",
           \A y \in Procs : life[y] = "live" <=> life'[y] = "live",
           NEW c \in [Events -> 0..MaxCount], ev' = [count |-> c, wait |-> Leave(ev.wait, p)],
           \A x \in Procs \ {p} : c[ChildEvent(x)] = ev.count[ChildEvent(x)],
           NEW d, doing' = [doing EXCEPT ![p] = d], d.op = "user"
    PROVE  WaitInv'
<1>1. ev \in EvType /\ NodesAreWaiters(ev.wait, life, doing) /\ doing \in [Procs -> Calls]
      /\ ev.wait \in WaitRecords(Procs, AllQueues) /\ ev.count \in [Events -> 0..MaxCount]
  BY DEF WaitInv, EvType, AllQueues, TreeInv, TreeTyped
<1>2. doing'[p] = d /\ \A x \in Procs \ {p} : doing'[x] = doing[x]
  BY <1>1
<1>3. PICK w, v, lf, dn, lg, dm : /\ w = ev.wait /\ v = Leave(w, p) /\ lf = life /\ dn = doing
                                  /\ lg = life' /\ dm = doing'
  OBVIOUS
<1>4. /\ NodesAreWaiters(v, lg, dm) /\ v \in WaitRecords(Procs, AllQueues)
      /\ \A x \in Procs : Ready(v, x) <=> Ready(w, x)
  <2>1. /\ w \in WaitRecords(Procs, AllQueues) /\ NodesAreWaiters(w, lf, dn)
        /\ dn \in [Procs -> Calls] /\ Ready(w, p)
    BY <1>1, <1>3
  <2>2. WaitsOn(lf, dn, lg, dm, Procs \ {p})
    BY <1>2, <1>3 DEF WaitsOn
  <2>3. /\ NodesAreWaiters(Leave(w, p), lg, dm) /\ Leave(w, p) \in WaitRecords(Procs, AllQueues)
        /\ \A x \in Procs : Ready(Leave(w, p), x) <=> Ready(w, x)
    BY <2>1, <2>2, LeaveNodes
  <2> QED
    BY <1>3, <2>3
<1>5. ev' \in EvType /\ ev'.wait = v /\ ev'.count = c
  BY <1>1, <1>3, <1>4 DEF EvType
<1>6. NodesAreWaiters(ev'.wait, life', doing') /\ \A x \in Procs : Ready(ev'.wait, x) <=> Ready(ev.wait, x)
  BY <1>3, <1>4, <1>5
<1>7. \A x \in Procs \ {p} :
          life'[x] = "live" /\ doing'[x].op # "user" =>
              /\ life[x] = "live" /\ doing'[x] = doing[x]
              /\ Ready(ev.wait, x) => Ready(ev'.wait, x)
              /\ ev'.count[ChildEvent(x)] = ev.count[ChildEvent(x)]
  BY <1>2, <1>5, <1>6
<1>8. \A y \in Procs : life'[y] = "dead" => life[y] = "dead" /\ parent'[y] = parent[y]
  OBVIOUS
<1> QED
  BY <1>2, <1>5, <1>6, <1>7, <1>8, QuietWait

\* The same of a step that blocks p in the wait it is in.
LEMMA BlockWait ==
    ASSUME TreeInv, TreeInv', WaitInv, NEW p \in Procs, NEW t \in BOOLEAN, life[p] = "live", doing[p].op # "user",
           Ready(ev.wait, p), UNCHANGED <<life, parent, doing>>,
           ev' = [count |-> ev.count,
                  wait |-> Block(Leave(ev.wait, p), p, {QueueOf(p, doing[p])}, t)],
           doing[p].op = "waitFor" => life[doing[p].child] = "live",
           doing[p].op = "waitChild" => DeadWanted(p) = {},
           doing[p].op = "waitMany" => ev.count[ChildEvent(p)] = 0
    PROVE  WaitInv'
<1>1. ev \in EvType /\ NodesAreWaiters(ev.wait, life, doing) /\ doing \in [Procs -> Calls]
      /\ ev.wait \in WaitRecords(Procs, AllQueues) /\ ev.count \in [Events -> 0..MaxCount]
      /\ CountsTell
  BY DEF WaitInv, EvType, AllQueues, TreeInv, TreeTyped
<1>2. PICK w, q, v, lf, dn : /\ w = ev.wait /\ q = QueueOf(p, dn[p]) /\ lf = life /\ dn = doing
                             /\ v = Block(Leave(w, p), p, {q}, t)
  OBVIOUS
<1>3. /\ NodesAreWaiters(v, lf, dn) /\ v \in WaitRecords(Procs, AllQueues)
      /\ \A x \in Procs \ {p} : Ready(v, x) <=> Ready(w, x)
  <2>1. /\ w \in WaitRecords(Procs, AllQueues) /\ NodesAreWaiters(w, lf, dn)
        /\ dn \in [Procs -> Calls] /\ Ready(w, p) /\ lf[p] = "live" /\ dn[p].op # "user"
    BY <1>1, <1>2
  <2> QED
    BY <1>2, <2>1, BlockNodes
<1>4. ev' \in EvType /\ ev'.wait = v /\ ev'.count = ev.count
  BY <1>1, <1>2, <1>3 DEF EvType
<1>5. /\ NodesAreWaiters(ev'.wait, life', doing')
      /\ \A x \in Procs \ {p} : Ready(ev.wait, x) => Ready(ev'.wait, x)
  BY <1>2, <1>3, <1>4
<1>6. DeadChildren(p)' = DeadChildren(p) /\ DeadWanted(p)' = DeadWanted(p)
  BY DEF DeadWanted, DeadChildren, Children
<1>7. doing[p].op = "waitMany" =>
          p \in Supervisors /\ (p # InitProc /\ ev.count[ChildEvent(p)] = 0 => DeadChildren(p) = {})
  BY <1>1 DEF CountsTell, In, Live
<1> QED
  BY <1>4, <1>5, <1>6, <1>7, QuietWait

\* The same of a step that leaves the queues alone.
LEMMA StillWait ==
    ASSUME TreeInv, TreeInv', WaitInv, NEW p \in Procs,
           \A c \in Procs : life'[c] = "dead" => life[c] = "dead" /\ parent'[c] = parent[c],
           \A c \in Procs : life[c] = "live" => life'[c] = "live",
           ev' \in EvType, ev'.wait = ev.wait,
           \A x \in Procs : life[x] = "live" /\ doing[x].op # "user" => doing'[x] = doing[x],
           \A x \in Procs \ {p} :
               life'[x] = "live" /\ doing'[x].op # "user" =>
                   /\ life[x] = "live" /\ doing'[x] = doing[x]
                   /\ ev'.count[ChildEvent(x)] = ev.count[ChildEvent(x)],
           life[p] = "live" /\ doing[p].op # "user" => ev'.count[ChildEvent(p)] = ev.count[ChildEvent(p)],
           life'[p] = "live" /\ doing'[p].op = "waitMany" /\ (life[p] # "live" \/ doing[p].op = "user") =>
               p \in Supervisors /\ DeadChildren(p)' = {}
    PROVE  WaitInv'
<1>1. /\ NodesAreWaiters(ev.wait, life, doing) /\ doing \in [Procs -> Calls] /\ CountsTell
      /\ NobodySleepsOnACorpse
  BY DEF WaitInv, TreeInv, TreeTyped
<1>2. NodesAreWaiters(ev'.wait, life', doing')
  <2>1. PICK w, lf, dn, lg, dm : w = ev.wait /\ lf = life /\ dn = doing /\ lg = life' /\ dm = doing'
    OBVIOUS
  <2>2. WaitsOn(lf, dn, lg, dm, Procs)
    BY <2>1 DEF WaitsOn
  <2>3. NodesAreWaiters(w, lg, dm)
    BY <1>1, <2>1, <2>2, NodesKept
  <2> QED
    BY <2>1, <2>3
<1>3. DeadChildren(p)' \subseteq DeadChildren(p)
  BY DEF DeadChildren, Children
<1>4. ~Ready(ev.wait, p) => life[p] = "live" /\ doing[p].op # "user"
  <2>1. QueueOf(p, doing[p]) \in Queues \cup Events
    BY <1>1, QueueOfType DEF AllQueues
  <2> QED
    BY <1>1, <2>1 DEF NodesAreWaiters
<1>5. life'[p] = "live" /\ doing'[p].op = "waitFor" /\ ~Ready(ev'.wait, p) => life'[doing'[p].child] = "live"
  <2> SUFFICES ASSUME doing'[p].op = "waitFor", ~Ready(ev'.wait, p) PROVE life'[doing'[p].child] = "live"
    OBVIOUS
  <2>1. life[p] = "live" /\ doing'[p] = doing[p]
    BY <1>4
  <2>2. doing[p].child \in Procs /\ life[doing[p].child] = "live"
    BY <1>1, <2>1, CallFacts DEF NobodySleepsOnACorpse, Asleep, In, Live
  <2> QED
    BY <2>1, <2>2
<1>6. life'[p] = "live" /\ doing'[p].op = "waitChild" /\ ~Ready(ev'.wait, p) => DeadWanted(p)' = {}
  <2> SUFFICES ASSUME doing'[p].op = "waitChild", ~Ready(ev'.wait, p) PROVE DeadWanted(p)' = {}
    OBVIOUS
  <2>1. life[p] = "live" /\ doing'[p] = doing[p]
    BY <1>4
  <2>2. DeadWanted(p)' \subseteq DeadWanted(p)
    BY <1>3, <2>1 DEF DeadWanted
  <2> QED
    BY <1>1, <2>1, <2>2 DEF NobodySleepsOnACorpse, Asleep, In, Live
<1>7. life'[p] = "live" /\ doing'[p].op = "waitMany" =>
          /\ p \in Supervisors
          /\ ~Ready(ev'.wait, p) => ev'.count[ChildEvent(p)] = 0
          /\ p # InitProc /\ ev'.count[ChildEvent(p)] = 0 => DeadChildren(p)' = {}
  <2> SUFFICES ASSUME life'[p] = "live", doing'[p].op = "waitMany"
               PROVE  /\ p \in Supervisors
                      /\ ~Ready(ev'.wait, p) => ev'.count[ChildEvent(p)] = 0
                      /\ p # InitProc /\ ev'.count[ChildEvent(p)] = 0 => DeadChildren(p)' = {}
    OBVIOUS
  <2>1. CASE life[p] # "live" \/ doing[p].op = "user"
    BY <1>4, <2>1
  <2>2. CASE life[p] = "live" /\ doing[p].op # "user"
    <3>1. doing'[p] = doing[p] /\ ev'.count[ChildEvent(p)] = ev.count[ChildEvent(p)]
      BY <2>2
    <3>2. /\ p \in Supervisors /\ (~Ready(ev.wait, p) => ev.count[ChildEvent(p)] = 0)
          /\ p # InitProc /\ ev.count[ChildEvent(p)] = 0 => DeadChildren(p) = {}
      BY <1>1, <2>2, <3>1 DEF CountsTell, In, Live
    <3> QED
      BY <1>3, <3>1, <3>2
  <2> QED
    BY <2>1, <2>2
<1> QED
  BY <1>2, <1>5, <1>6, <1>7, QuietWait

\* The wakes of an exit compose.
LEMMA RousedAgain ==
    ASSUME NEW w, NEW v, NEW u, NEW lf, NEW dn, NEW q, NEW r, Roused(w, v, lf, dn, q), Roused(v, u, lf, dn, r)
    PROVE  Roused(w, u, lf, dn, q) /\ Roused(w, u, lf, dn, r)
BY DEF Roused

\* exitWith's wakes: of those asleep in a wait for the process, for a child of
\* its parent or, at an adoption of the dead, for a child of init, nobody is
\* asleep any more; a parent that watches has its count up.
LEMMA ExitRouses ==
    ASSUME TreeInv, WaitInv, NEW p \in Procs, Exit(p)
    PROVE  /\ ev' \in EvType /\ NodesAreWaiters(ev'.wait, life, doing)
           /\ \A x \in Procs : ~Ready(ev'.wait, x) =>
                 /\ ~Ready(ev.wait, x) /\ QueueOf(x, doing[x]) # ExitQueue(p)
                 /\ parent[p] # Nobody => QueueOf(x, doing[x]) # ChildExit(parent[p])
                 /\ parent[p] \in Supervisors => QueueOf(x, doing[x]) # ChildEvent(parent[p])
                 /\ AdopterFor(p) # Nobody /\ (\E c \in Orphans(p) : life[c] = "dead") =>
                       QueueOf(x, doing[x]) # ChildExit(AdopterFor(p))
           /\ \A x \in Procs : x # parent[p] => ev'.count[ChildEvent(x)] = ev.count[ChildEvent(x)]
           /\ parent[p] \in Supervisors => ev'.count[ChildEvent(parent[p])] # 0
           /\ parent[p] \notin Supervisors => ev'.count = ev.count
<1>1. /\ ev \in EvType /\ NodesAreWaiters(ev.wait, life, doing) /\ doing \in [Procs -> Calls]
      /\ ev.wait \in WaitRecords(Procs, AllQueues) /\ ev.count \in [Events -> 0..MaxCount]
      /\ parent \in [Procs -> Procs \cup {Nobody}]
  BY DEF WaitInv, EvType, AllQueues, TreeInv, TreeTyped
<1>2. PICK w, n, lf, dn, up : w = ev.wait /\ n = ev.count /\ lf = life /\ dn = doing /\ up = parent[p]
  OBVIOUS
<1>3. ev = [count |-> n, wait |-> w]
  BY <1>1, <1>2 DEF EvType
<1>4. /\ w \in WaitRecords(Procs, AllQueues) /\ NodesAreWaiters(w, lf, dn) /\ dn \in [Procs -> Calls]
      /\ n \in [Events -> 0..MaxCount] /\ up \in Procs \cup {Nobody} /\ Supervisors \subseteq Procs
      /\ Nobody \notin Supervisors
  BY <1>1, <1>2, ProcessAssumption
<1>5. PICK w1 : w1 = WakeAll(w, ExitQueue(p))
  OBVIOUS
<1>6. Roused(w, w1, lf, dn, ExitQueue(p))
  BY <1>4, <1>5, QueueNames, WakeAllRouses
<1>7. PICK w2 : w2 = IF up = Nobody THEN w1 ELSE WakeAll(w1, ChildExit(up))
  OBVIOUS
<1>8. Roused(w, w2, lf, dn, ExitQueue(p)) /\ (up # Nobody => Roused(w, w2, lf, dn, ChildExit(up)))
  <2>1. CASE up = Nobody
    BY <1>6, <1>7, <2>1
  <2>2. CASE up # Nobody
    <3>1. w1 \in WaitRecords(Procs, AllQueues) /\ NodesAreWaiters(w1, lf, dn) /\ ChildExit(up) \in AllQueues
      BY <1>4, <1>6, <2>2, QueueNames DEF Roused
    <3>2. Roused(w1, w2, lf, dn, ChildExit(up))
      BY <1>4, <1>7, <2>2, <3>1, WakeAllRouses
    <3> QED
      BY <1>6, <3>2, RousedAgain
  <2> QED
    BY <2>1, <2>2
<1>9. PICK w3 : w3 = IF up \in Supervisors THEN WakeOne(w2, ChildEvent(up)) ELSE w2
  OBVIOUS
<1>10. /\ Roused(w, w3, lf, dn, ExitQueue(p)) /\ (up # Nobody => Roused(w, w3, lf, dn, ChildExit(up)))
       /\ up \in Supervisors => Roused(w, w3, lf, dn, ChildEvent(up))
  <2>1. CASE up \notin Supervisors
    BY <1>8, <1>9, <2>1
  <2>2. CASE up \in Supervisors
    <3>1. w2 \in WaitRecords(Procs, AllQueues) /\ NodesAreWaiters(w2, lf, dn) /\ up \in Procs
      BY <1>4, <1>8, <2>2 DEF Roused
    <3>2. Roused(w2, w3, lf, dn, ChildEvent(up))
      BY <1>4, <1>9, <2>2, <3>1, WakeOneRouses
    <3> QED
      BY <1>8, <3>2, RousedAgain
  <2> QED
    BY <2>1, <2>2
<1>11. PICK A, adopts : /\ A = AdopterFor(p)
                        /\ adopts = (AdopterFor(p) # Nobody /\ \E c \in Orphans(p) : life[c] = "dead")
  OBVIOUS
<1>12. PICK w4 : w4 = IF adopts THEN WakeAll(w3, ChildExit(A)) ELSE w3
  OBVIOUS
<1>13. /\ Roused(w, w4, lf, dn, ExitQueue(p)) /\ (up # Nobody => Roused(w, w4, lf, dn, ChildExit(up)))
       /\ up \in Supervisors => Roused(w, w4, lf, dn, ChildEvent(up))
       /\ adopts => Roused(w, w4, lf, dn, ChildExit(A))
  <2>1. CASE ~adopts
    BY <1>10, <1>12, <2>1
  <2>2. CASE adopts
    <3>1. /\ w3 \in WaitRecords(Procs, AllQueues) /\ NodesAreWaiters(w3, lf, dn)
          /\ ChildExit(A) \in AllQueues
      BY <1>4, <1>10, <1>11, <2>2, QueueNames, ProcessAssumption DEF Roused, AdopterFor
    <3>2. Roused(w3, w4, lf, dn, ChildExit(A))
      BY <1>4, <1>12, <2>2, <3>1, WakeAllRouses
    <3> QED
      BY <1>10, <3>2, RousedAgain
  <2> QED
    BY <2>1, <2>2
<1>14. PICK m : m = IF up \in Supervisors
                    THEN [n EXCEPT ![ChildEvent(up)] = IF @ = MaxCount THEN @ ELSE @ + 1] ELSE n
  OBVIOUS
<1>15. /\ m \in [Events -> 0..MaxCount] /\ (up \in Supervisors => m[ChildEvent(up)] # 0)
       /\ \A x \in Procs : x # up => m[ChildEvent(x)] = n[ChildEvent(x)]
       /\ up \notin Supervisors => m = n
  <2>1. CASE up \in Supervisors
    <3>1. ChildEvent(up) \in Events /\ \A x \in Procs : x # up => ChildEvent(x) # ChildEvent(up)
      BY <1>4, <2>1, QueueNames
    <3>2. PICK e : e = ChildEvent(up)
      OBVIOUS
    <3>3. m = [n EXCEPT ![e] = IF @ = MaxCount THEN @ ELSE @ + 1] /\ e \in Events
      BY <1>14, <2>1, <3>1, <3>2
    <3>4. m \in [Events -> 0..MaxCount] /\ m[e] # 0 /\ \A f \in Events : f # e => m[f] = n[f]
      BY <1>4, <3>3, MaxCountAssumption
    <3> QED
      BY <2>1, <3>1, <3>2, <3>4, QueueNames
  <2>2. CASE up \notin Supervisors
    BY <1>4, <1>14, <2>2
  <2> QED
    BY <2>1, <2>2
<1>16. WokenByExit(ev, p) = [count |-> m, wait |-> w3]
  <2>1. PICK out : out = [ev EXCEPT !.wait = WakeAll(@, ExitQueue(p))]
    OBVIOUS
  <2>2. out = [count |-> n, wait |-> w1]
    BY <1>3, <1>5, <2>1
  <2>3. CASE up = Nobody
    BY <1>2, <1>4, <1>7, <1>9, <1>14, <2>1, <2>2, <2>3 DEF WokenByExit
  <2>4. CASE up # Nobody
    <3>1. PICK o2 : o2 = [out EXCEPT !.wait = WakeAll(@, ChildExit(up))]
      OBVIOUS
    <3>2. o2 = [count |-> n, wait |-> w2]
      BY <1>7, <2>2, <2>4, <3>1
    <3>3. WokenByExit(ev, p) = IF up \in Supervisors THEN SignalLocked(o2, ChildEvent(up)) ELSE o2
      BY <1>2, <2>1, <2>4, <3>1 DEF WokenByExit
    <3> QED
      BY <1>9, <1>14, <3>2, <3>3 DEF SignalLocked
  <2> QED
    BY <2>3, <2>4
<1>17. ev' = [count |-> m, wait |-> w4]
  <2>1. ev' = Adopt(WokenByExit(ev, p), p)
    BY DEF Exit, ExitWith
  <2>2. PICK e : e = WokenByExit(ev, p)
    OBVIOUS
  <2>3. ev' = IF adopts THEN [e EXCEPT !.wait = WakeAll(@, ChildExit(A))] ELSE e
    BY <1>11, <2>1, <2>2 DEF Adopt
  <2> QED
    BY <1>12, <1>16, <2>2, <2>3
<1>18. ev' \in EvType /\ ev'.wait = w4 /\ ev'.count = m
  BY <1>13, <1>15, <1>17 DEF EvType, Roused
<1>19. NodesAreWaiters(w4, lf, dn)
  BY <1>13 DEF Roused
<1>20. \A x \in Procs : ~Ready(w4, x) =>
          /\ ~Ready(w, x) /\ QueueOf(x, dn[x]) # ExitQueue(p)
          /\ up # Nobody => QueueOf(x, dn[x]) # ChildExit(up)
          /\ up \in Supervisors => QueueOf(x, dn[x]) # ChildEvent(up)
          /\ adopts => QueueOf(x, dn[x]) # ChildExit(A)
  BY <1>13 DEF Roused
<1> QED
  BY <1>2, <1>11, <1>15, <1>18, <1>19, <1>20

\* exitWith keeps the bookkeeping of the waits.
LEMMA ExitWait ==
    ASSUME TreeInv, TreeInv', WaitInv, NEW p \in Procs, Exit(p)
    PROVE  WaitInv'
<1>1. /\ ev' \in EvType /\ NodesAreWaiters(ev'.wait, life, doing)
      /\ \A x \in Procs : ~Ready(ev'.wait, x) =>
            /\ ~Ready(ev.wait, x) /\ QueueOf(x, doing[x]) # ExitQueue(p)
            /\ parent[p] # Nobody => QueueOf(x, doing[x]) # ChildExit(parent[p])
            /\ parent[p] \in Supervisors => QueueOf(x, doing[x]) # ChildEvent(parent[p])
            /\ AdopterFor(p) # Nobody /\ (\E c \in Orphans(p) : life[c] = "dead") =>
                  QueueOf(x, doing[x]) # ChildExit(AdopterFor(p))
      /\ \A x \in Procs : x # parent[p] => ev'.count[ChildEvent(x)] = ev.count[ChildEvent(x)]
      /\ parent[p] \in Supervisors => ev'.count[ChildEvent(parent[p])] # 0
      /\ parent[p] \notin Supervisors => ev'.count = ev.count
  BY ExitRouses
<1>2. /\ TreeTyped /\ CountsTell /\ NobodySleepsOnACorpse /\ doing \in [Procs -> Calls]
      /\ life \in [Procs -> {"none", "live", "dead"}]
  BY DEF TreeInv, TreeTyped, WaitInv
<1>3. life[p] = "live" /\ doing[p].op = "user"
  BY DEF Exit, In, Live
<1>4. PICK O, A : O = Orphans(p) /\ A = AdopterFor(p)
  OBVIOUS
<1>5. /\ doing' = [doing EXCEPT ![p] = User]
      /\ parent' = [c \in Procs |-> IF c \in O THEN A ELSE parent[c]]
  BY <1>4 DEF Exit, ExitWith, Sets
<1>6. /\ life'[p] = "dead"
      /\ \A x \in Procs \ {p} : life'[x] = life[x] \/ (life'[x] = "none" /\ life[x] = "dead")
  <2>1. PICK F : /\ F = IF A = Nobody THEN {c \in O : life[c] = "dead"} \ AwaitedAfter(p) ELSE {}
                 /\ life' = [q \in Procs |-> IF q = p THEN "dead" ELSE IF q \in F THEN "none" ELSE life[q]]
    BY <1>4 DEF Exit, ExitWith
  <2>2. \A x \in F : life[x] = "dead"
    BY <2>1
  <2> QED
    BY <1>2, <2>1, <2>2
<1>7. \A x \in Procs \ {p} : doing'[x] = doing[x]
  BY <1>2, <1>5
<1>8. /\ p \notin O /\ (A = Nobody \/ A = InitProc)
      /\ \A x \in Procs : parent'[x] = IF x \in O THEN A ELSE parent[x]
  BY <1>4, <1>5 DEF Orphans, AdopterFor
<1>9. NodesAreWaiters(ev'.wait, life', doing')
  <2>1. PICK w, lf, dn, lg, dm : w = ev'.wait /\ lf = life /\ dn = doing /\ lg = life' /\ dm = doing'
    OBVIOUS
  <2>2. WaitsOn(lf, dn, lg, dm, Procs)
    BY <1>3, <1>6, <1>7, <2>1 DEF WaitsOn
  <2>3. NodesAreWaiters(w, lg, dm)
    BY <1>1, <1>2, <2>1, <2>2, NodesKept
  <2> QED
    BY <2>1, <2>3
\* A corpse is new, adopted, or was there before.
<1>10. ASSUME NEW x \in Procs, NEW y \in DeadChildren(x)'
       PROVE  \/ y = p /\ x = parent[p]
              \/ y \in O /\ life[y] = "dead" /\ x = A
              \/ y \in DeadChildren(x)
  <2>1. y \in Procs /\ y # x /\ life'[y] = "dead" /\ parent'[y] = x
    BY <1>10 DEF DeadChildren, Children
  <2>2. CASE y = p
    BY <1>8, <2>1, <2>2
  <2>3. CASE y # p
    <3>1. life[y] = "dead"
      BY <1>6, <2>1, <2>3
    <3> QED
      BY <1>8, <2>1, <3>1 DEF DeadChildren, Children
  <2> QED
    BY <2>2, <2>3
<1>11. CountsTell'
  <2> SUFFICES ASSUME NEW x \in Procs, life'[x] = "live", doing'[x].op = "waitMany"
               PROVE  /\ x \in Supervisors
                      /\ ~Ready(ev'.wait, x) => ev'.count[ChildEvent(x)] = 0
                      /\ x # InitProc /\ ev'.count[ChildEvent(x)] = 0 => DeadChildren(x)' = {}
    BY DEF CountsTell, In, Live
  <2>1. x # p /\ life[x] = "live" /\ doing[x].op = "waitMany"
    BY <1>6, <1>7
  <2>2. /\ x \in Supervisors /\ (~Ready(ev.wait, x) => ev.count[ChildEvent(x)] = 0)
        /\ x # InitProc /\ ev.count[ChildEvent(x)] = 0 => DeadChildren(x) = {}
    BY <1>2, <2>1 DEF CountsTell, In, Live
  <2>3. QueueOf(x, doing[x]) = ChildEvent(x)
    BY <2>1 DEF QueueOf
  <2>4. ~Ready(ev'.wait, x) => ev'.count[ChildEvent(x)] = 0
    BY <1>1, <2>2, <2>3
  <2>5. ASSUME x # InitProc, ev'.count[ChildEvent(x)] = 0, NEW y \in DeadChildren(x)' PROVE FALSE
    <3>1. x # parent[p]
      BY <1>1, <2>2, <2>5
    <3>2. DeadChildren(x) = {} /\ x \in Procs /\ x # Nobody
      BY <1>1, <2>2, <2>5, <3>1, ProcessAssumption
    <3> QED
      BY <1>8, <1>10, <2>5, <3>1, <3>2
  <2> QED
    BY <2>2, <2>4, <2>5
<1>12. NobodySleepsOnACorpse'
  <2> SUFFICES ASSUME NEW x \in Procs, life'[x] = "live", ~Ready(ev'.wait, x)
               PROVE  /\ doing'[x].op = "waitFor" => life'[doing'[x].child] = "live"
                      /\ doing'[x].op = "waitChild" => DeadWanted(x)' = {}
    BY DEF NobodySleepsOnACorpse, Asleep, In, Live
  <2>1. x # p /\ life[x] = "live" /\ doing'[x] = doing[x] /\ ~Ready(ev.wait, x)
    BY <1>1, <1>6, <1>7
  <2>2. /\ doing[x].op = "waitFor" => life[doing[x].child] = "live" /\ doing[x].child \in Procs
        /\ doing[x].op = "waitChild" => DeadWanted(x) = {}
    BY <1>2, <2>1, CallFacts DEF NobodySleepsOnACorpse, Asleep, In, Live
  <2>3. ASSUME doing[x].op = "waitFor" PROVE life'[doing[x].child] = "live"
    <3>1. doing[x].child # p
      BY <1>1, <2>3 DEF QueueOf
    <3> QED
      BY <1>6, <2>2, <2>3, <3>1
  <2>4. ASSUME doing[x].op = "waitChild", NEW y \in DeadWanted(x)' PROVE FALSE
    <3>1. QueueOf(x, doing[x]) = ChildExit(x) /\ x # Nobody
      BY <2>4, ProcessAssumption DEF QueueOf
    <3>2. x # parent[p]
      BY <1>1, <3>1
    <3>3. ~(y \in O /\ life[y] = "dead" /\ x = A)
      BY <1>1, <1>4, <3>1
    <3>4. y \in DeadChildren(x)' /\ doing[x].child \in {y, Nobody}
      BY <2>1, <2>4 DEF DeadWanted
    <3>5. y \in DeadChildren(x)
      BY <1>10, <3>2, <3>3, <3>4
    <3> QED
      BY <2>2, <2>4, <3>4, <3>5 DEF DeadWanted
  <2> QED
    BY <2>1, <2>3, <2>4
<1> QED
  BY <1>1, <1>9, <1>11, <1>12 DEF WaitInv, EvType, AllQueues

-----------------------------------------------------------------------------
(* The steps. *)

\* Only init and the thread that started it are there at first, and nobody
\* waits.
LEMMA InitBoth == Init => TreeInv /\ WaitInv
<1> SUFFICES ASSUME Init PROVE TreeInv /\ WaitInv
  OBVIOUS
<1>1. /\ \A p \in Procs : life[p] = IF p \in {InitProc, BootThread} THEN "live" ELSE "none"
      /\ \A p \in Procs : parent[p] = IF p = InitProc THEN BootThread ELSE Nobody
      /\ \A p \in Procs : doing[p] = User
      /\ awaited = {} /\ toReap = {} /\ killed = {}
  BY DEF Init
<1>2. TreeTyped
  BY CallFacts, ProcessAssumption DEF TreeTyped, Init
<1>3. Roots /\ StatusesAreKept
  BY <1>1, ProcessAssumption DEF Roots, StatusesAreKept
<1>4. WaitsForItsOwn /\ NobodySleepsOnACorpse /\ CountsTell
  BY <1>1, CallFacts DEF WaitsForItsOwn, NobodySleepsOnACorpse, CountsTell, Asleep, In, Live
<1>5. NoUncollectableCorpse
  BY <1>1, ProcessAssumption DEF NoUncollectableCorpse, Live
<1>6. NoParentCycle
  <2> SUFFICES ASSUME NEW S \in SUBSET Procs, S # {}, \A p \in S : life[p] # "none"
               PROVE  \E p \in S : parent[p] \notin S
    BY DEF NoParentCycle
  <2>1. S \subseteq {InitProc, BootThread}
    BY <1>1
  <2>2. CASE BootThread \in S
    BY <1>1, <2>2, ProcessAssumption
  <2>3. CASE BootThread \notin S
    BY <1>1, <2>1, <2>3
  <2> QED
    BY <2>2, <2>3
<1>7. /\ ev \in [count : [Events -> 0..MaxCount], wait : WaitRecords(Procs, Queues \cup Events)]
      /\ NodesAreWaiters(ev.wait, life, doing)
  <2>1. PICK w, Q : w = NoWaits(Procs, Q) /\ Q = Queues \cup Events
    OBVIOUS
  <2>2. w \in WaitRecords(Procs, Q)
    BY <2>1, NoWaitsType
  <2>3. /\ \A p \in Procs : Ready(w, p)
        /\ \A q \in Q : w.queue[q] = <<>>
        /\ DOMAIN w.queue = Q
    BY <2>1 DEF NoWaits, Ready
  <2>4. OneNodeEach(w) /\ \A q \in Q : \A p : ~Queued(w, q, p)
    BY <2>3 DEF OneNodeEach, NoTwice, Queued
  <2>5. ev = [count |-> [e \in Events |-> 0], wait |-> w]
    BY <2>1 DEF Init
  <2>6. [e \in Events |-> 0] \in [Events -> 0..MaxCount]
    BY MaxCountAssumption
  <2> QED
    BY <2>1, <2>2, <2>3, <2>4, <2>5, <2>6 DEF NodesAreWaiters
<1> QED
  BY <1>2, <1>3, <1>4, <1>5, <1>6, <1>7 DEF TreeInv, WaitInv

\* Collecting a dead child, by waitChild or by the supervising loop.
LEMMA CollectBoth ==
    ASSUME TreeInv, WaitInv, NEW p \in Procs, life[p] = "live", Ready(ev.wait, p),
           doing[p].op # "waitFor", CollectOne(p), UNCHANGED <<parent, killed>>
    PROVE  TreeInv' /\ WaitInv'
<1>1. /\ TreeTyped /\ WaitsForItsOwn /\ doing \in [Procs -> Calls]
      /\ life \in [Procs -> {"none", "live", "dead"}]
  BY DEF TreeInv, TreeTyped
<1>2. PICK c \in DeadWanted(p) :
          /\ Reap({c}) /\ awaited' = awaited \ {c} /\ ev' = [ev EXCEPT !.wait = Leave(@, p)]
          /\ doing' = [doing EXCEPT ![p] = User]
  BY DEF CollectOne, Sets
<1>3. c \in Procs /\ life[c] = "dead" /\ parent[c] = p
  BY DEF DeadWanted, DeadChildren, Children
<1>4. doing' \in [Procs -> Calls] /\ doing'[p].op = "user" /\ \A x \in Procs \ {p} : doing'[x] = doing[x]
  BY <1>1, <1>2, CallFacts
<1>5. PICK F : F = {c}
  OBVIOUS
<1>6. /\ life' = [q \in Procs |-> IF q \in F THEN "none" ELSE life[q]]
      /\ toReap' = toReap \ F /\ killed' \subseteq Procs /\ awaited' \subseteq awaited \ F
      /\ (\A y \in F : life[y] = "dead") /\ (\A y \in awaited \ awaited' : y \in F)
  BY <1>1, <1>2, <1>3, <1>5 DEF Reap, TreeTyped
<1>7. \A x \in Procs : life[x] = "live" /\ doing'[x].op = "waitFor" =>
          doing'[x] = doing[x] /\ doing[x].child \in awaited'
  <2> SUFFICES ASSUME NEW x \in Procs, life[x] = "live", doing'[x].op = "waitFor"
               PROVE  doing'[x] = doing[x] /\ doing[x].child \in awaited'
    OBVIOUS
  <2>1. x # p /\ doing'[x] = doing[x]
    BY <1>4
  <2>2. doing[x].child \in awaited /\ parent[doing[x].child] = x
    BY <1>1, <2>1 DEF WaitsForItsOwn, In, Live
  <2> QED
    BY <1>2, <1>3, <2>1, <2>2
<1>8. TreeInv'
  BY <1>4, <1>6, <1>7, QuietTree
<1>9. /\ ev' = [count |-> ev.count, wait |-> Leave(ev.wait, p)] /\ ev.count \in [Events -> 0..MaxCount]
  BY <1>2 DEF WaitInv
<1>10. /\ \A y \in Procs : life'[y] = "dead" => life[y] = "dead"
       /\ \A y \in Procs : life[y] = "live" <=> life'[y] = "live"
  BY <1>1, <1>6
<1>11. WaitInv'
  BY <1>2, <1>8, <1>9, <1>10, CallFacts, LeaveWait
<1> QED
  BY <1>8, <1>11

\* A call that ends without anybody being collected.
LEMMA ReturnBoth ==
    ASSUME TreeInv, WaitInv, NEW p \in Procs, life[p] = "live", Ready(ev.wait, p),
           doing' = [doing EXCEPT ![p] = User], UNCHANGED <<life, toReap, parent, killed>>,
           awaited' \subseteq awaited, \A c \in awaited \ awaited' : life[c] # "dead" /\ parent[c] = p,
           NEW n \in [Events -> 0..MaxCount], ev' = [count |-> n, wait |-> Leave(ev.wait, p)],
           \A x \in Procs \ {p} : n[ChildEvent(x)] = ev.count[ChildEvent(x)]
    PROVE  TreeInv' /\ WaitInv'
<1>1. /\ TreeTyped /\ WaitsForItsOwn /\ doing \in [Procs -> Calls]
      /\ life \in [Procs -> {"none", "live", "dead"}]
  BY DEF TreeInv, TreeTyped
<1>2. doing' \in [Procs -> Calls] /\ doing'[p].op = "user" /\ \A x \in Procs \ {p} : doing'[x] = doing[x]
  BY <1>1, CallFacts
<1>3. \A x \in Procs : life[x] = "live" /\ doing'[x].op = "waitFor" =>
          doing'[x] = doing[x] /\ doing[x].child \in awaited'
  <2> SUFFICES ASSUME NEW x \in Procs, life[x] = "live", doing'[x].op = "waitFor"
               PROVE  doing'[x] = doing[x] /\ doing[x].child \in awaited'
    OBVIOUS
  <2>1. x # p /\ doing'[x] = doing[x]
    BY <1>2
  <2>2. doing[x].child \in awaited /\ parent[doing[x].child] = x
    BY <1>1, <2>1 DEF WaitsForItsOwn, In, Live
  <2> QED
    BY <2>1, <2>2
<1>4. PICK F : F = {}
  OBVIOUS
<1>5. /\ life' = [q \in Procs |-> IF q \in F THEN "none" ELSE life[q]]
      /\ toReap' = toReap \ F /\ killed' \subseteq Procs /\ awaited' \subseteq awaited \ F
      /\ (\A y \in F : life[y] = "dead")
  BY <1>1, <1>4 DEF TreeTyped
<1>6. TreeInv'
  BY <1>2, <1>3, <1>5, QuietTree
<1>7. WaitInv'
  BY <1>6, CallFacts, LeaveWait
<1> QED
  BY <1>6, <1>7

\* A process in user code does not sleep.
LEMMA UserIsReady ==
    ASSUME TreeInv, WaitInv, NEW p \in Procs, doing[p].op = "user"
    PROVE  Ready(ev.wait, p)
<1>1. NodesAreWaiters(ev.wait, life, doing) /\ doing[p] \in Calls
  BY DEF WaitInv, TreeInv, TreeTyped
<1>2. QueueOf(p, doing[p]) \in Queues \cup Events
  BY <1>1, QueueOfType DEF AllQueues
<1> QED
  BY <1>1, <1>2 DEF NodesAreWaiters

\* Nothing that the tree's bookkeeping speaks of changes, but for the call p is in.
LEMMA SameTree ==
    ASSUME TreeInv, UNCHANGED <<life, parent, awaited, toReap>>, killed' \subseteq Procs,
           NEW p \in Procs, NEW d \in Calls, doing' = [doing EXCEPT ![p] = d], d.op # "waitFor" \/ d = doing[p]
    PROVE  TreeInv'
<1>1. TreeTyped /\ WaitsForItsOwn /\ doing \in [Procs -> Calls]
  BY DEF TreeInv, TreeTyped
<1>2. doing' \in [Procs -> Calls] /\ doing'[p] = d /\ \A x \in Procs \ {p} : doing'[x] = doing[x]
  BY <1>1
<1>3. \A x \in Procs : life[x] = "live" /\ doing'[x].op = "waitFor" =>
          doing'[x] = doing[x] /\ doing[x].child \in awaited'
  BY <1>1, <1>2 DEF WaitsForItsOwn, In, Live
<1>4. PICK F : F = {}
  OBVIOUS
<1>5. /\ life' = [q \in Procs |-> IF q \in F THEN "none" ELSE life[q]]
      /\ toReap' = toReap \ F /\ awaited' \subseteq awaited \ F
      /\ (\A y \in F : life[y] = "dead") /\ awaited \ awaited' = {}
  BY <1>1, <1>4 DEF TreeTyped
<1> QED
  BY <1>2, <1>3, <1>5, QuietTree

\* A kill, or the timer, makes a process runnable again.
LEMMA UnblockBoth ==
    ASSUME TreeInv, WaitInv, NEW p \in Procs, UNCHANGED <<life, parent, awaited, toReap, doing>>,
           killed' \subseteq Procs, ev' = [ev EXCEPT !.wait = Unblock(@, p)]
    PROVE  TreeInv' /\ WaitInv'
<1>1. /\ doing \in [Procs -> Calls] /\ ev \in EvType /\ ev.count \in [Events -> 0..MaxCount]
      /\ ev = [count |-> ev.count, wait |-> ev.wait] /\ ev.wait \in WaitRecords(Procs, AllQueues)
  BY DEF TreeInv, TreeTyped, WaitInv, EvType, AllQueues
<1>2. TreeInv'
  <2>1. PICK d \in Calls : d = doing[p]
    BY <1>1
  <2>2. doing' = [doing EXCEPT ![p] = d]
    BY <1>1, <2>1
  <2> QED
    BY <2>1, <2>2, SameTree
<1>3. PICK w, v, lf, dn : w = ev.wait /\ v = Unblock(w, p) /\ lf = life /\ dn = doing
  OBVIOUS
<1>4. /\ NodesAreWaiters(v, lf, dn) /\ v \in WaitRecords(Procs, AllQueues)
      /\ \A x \in Procs : Ready(w, x) => Ready(v, x)
  <2>1. w \in WaitRecords(Procs, AllQueues) /\ NodesAreWaiters(w, lf, dn)
    BY <1>1, <1>3 DEF WaitInv
  <2> QED
    BY <1>3, <2>1, UnblockNodes
<1>5. ev' = [count |-> ev.count, wait |-> v]
  BY <1>1, <1>3
<1>6. /\ ev' \in EvType /\ NodesAreWaiters(ev'.wait, life', doing') /\ ev'.count = ev.count
      /\ \A x \in Procs : Ready(ev.wait, x) => Ready(ev'.wait, x)
  BY <1>1, <1>3, <1>4, <1>5 DEF EvType
<1>7. CountsTell'
  BY <1>6 DEF CountsTell, WaitInv, In, Live, DeadChildren, Children
<1>8. NobodySleepsOnACorpse'
  BY <1>6 DEF NobodySleepsOnACorpse, WaitInv, Asleep, In, Live, DeadWanted, DeadChildren, Children
<1> QED
  BY <1>2, <1>6, <1>7, <1>8 DEF WaitInv, EvType, AllQueues

\* Every step keeps both.
LEMMA StepBoth ==
    ASSUME TreeInv, WaitInv, [Next]_vars
    PROVE  TreeInv' /\ WaitInv'
<1>1. /\ TreeTyped /\ StatusesAreKept /\ WaitsForItsOwn /\ doing \in [Procs -> Calls]
      /\ life \in [Procs -> {"none", "live", "dead"}] /\ killed \subseteq Procs
      /\ ev \in EvType /\ ev.count \in [Events -> 0..MaxCount] /\ ev = [count |-> ev.count, wait |-> ev.wait]
      /\ ev.wait \in WaitRecords(Procs, AllQueues)
  BY DEF TreeInv, TreeTyped, WaitInv, EvType, AllQueues
<1>2. ASSUME NEW p \in Procs, CollectCorpse(p) PROVE TreeInv' /\ WaitInv'
  <2>1. p \in toReap /\ life[p] = "dead" /\ p \notin awaited
    BY <1>1, <1>2 DEF CollectCorpse, TreeTyped, StatusesAreKept
  <2>2. PICK F : F = {p}
    OBVIOUS
  <2>3. /\ life' = [q \in Procs |-> IF q \in F THEN "none" ELSE life[q]] /\ toReap' = toReap \ F
        /\ awaited' \subseteq awaited \ F /\ (\A y \in F : life[y] = "dead")
        /\ UNCHANGED <<parent, awaited, killed, ev, doing>>
    BY <1>2, <2>1, <2>2 DEF CollectCorpse, Reap
  <2>4. \A x \in Procs : life[x] = "live" /\ doing'[x].op = "waitFor" =>
            doing'[x] = doing[x] /\ doing[x].child \in awaited'
    BY <1>1, <2>3 DEF WaitsForItsOwn, In, Live
  <2>5. TreeInv'
    BY <1>1, <2>3, <2>4, QuietTree
  <2>6. /\ \A c \in Procs : life'[c] = "dead" => life[c] = "dead" /\ parent'[c] = parent[c]
        /\ \A c \in Procs : life[c] = "live" <=> life'[c] = "live"
    BY <1>1, <2>3
  <2>7. WaitInv'
    BY <1>1, <2>3, <2>5, <2>6, StillWait
  <2> QED
    BY <2>5, <2>7
<1>3. ASSUME NEW p \in Procs, Exit(p) PROVE TreeInv' /\ WaitInv'
  BY <1>3, ExitTree, ExitWait
<1>4. ASSUME NEW p \in Procs, Kill(p) PROVE TreeInv' /\ WaitInv'
  BY <1>1, <1>4, UnblockBoth DEF Kill
<1>5. ASSUME NEW p \in Procs, NEW c \in Procs, NEW sync \in BOOLEAN, Spawn(p, c, sync)
      PROVE  TreeInv' /\ WaitInv'
  <2>1. TreeInv'
    BY <1>5, SpawnTree
  <2>2. /\ life[p] = "live" /\ doing[p].op = "user" /\ life[c] = "none" /\ c # p
        /\ life' = [life EXCEPT ![c] = "live"] /\ parent' = [parent EXCEPT ![c] = p]
    BY <1>5 DEF Spawn, In, Live
  <2>3. /\ (\A y \in Procs \ {c} : life'[y] = life[y] /\ parent'[y] = parent[y]) /\ life'[c] = "live"
    BY <1>1, <2>2 DEF TreeTyped
  <2>4. PICK d : /\ doing' = [doing EXCEPT ![c] = User, ![p] = d]
                 /\ d.op # "waitMany"
    <3>1. PICK d : d = IF sync THEN [op |-> "waitFor", child |-> c] ELSE User
      OBVIOUS
    <3>2. doing' = [doing EXCEPT ![c] = User, ![p] = d]
      BY <1>5, <3>1, Zenon DEF Spawn
    <3>3. d.op # "waitMany"
      BY <3>1, CallFacts
    <3> QED
      BY <3>2, <3>3
  <2>5. /\ doing'[c] = User /\ doing'[p] = d /\ \A x \in Procs \ {c, p} : doing'[x] = doing[x]
    BY <1>1, <2>2, <2>4
  <2>6. PICK n : n = [ev.count EXCEPT ![ChildEvent(c)] = 0]
    OBVIOUS
  <2>7. ev' = [count |-> n, wait |-> ev.wait]
    BY <1>1, <1>5, <2>6 DEF Spawn
  <2>8. /\ n \in [Events -> 0..MaxCount]
        /\ \A x \in Procs : x # c => n[ChildEvent(x)] = ev.count[ChildEvent(x)]
    <3>1. PICK e : e = ChildEvent(c)
      OBVIOUS
    <3>2. PICK m : m = ev.count /\ m \in [Events -> 0..MaxCount] /\ n = [m EXCEPT ![e] = 0]
      BY <1>1, <2>6, <3>1
    <3>3. 0 \in 0..MaxCount
      BY MaxCountAssumption
    <3>4. n \in [Events -> 0..MaxCount] /\ \A f \in Events : f # e => n[f] = m[f]
      BY <3>2, <3>3
    <3> QED
      BY <3>1, <3>2, <3>4, QueueNames
  <2>9. ev' \in EvType /\ ev'.wait = ev.wait /\ ev'.count = n
    BY <1>1, <2>7, <2>8 DEF EvType
  <2>10. /\ \A y \in Procs : life'[y] = "dead" => life[y] = "dead" /\ parent'[y] = parent[y]
         /\ \A y \in Procs : life[y] = "live" => life'[y] = "live"
    BY <2>2, <2>3
  <2>11. \A x \in Procs : life[x] = "live" /\ doing[x].op # "user" => doing'[x] = doing[x]
    BY <2>2, <2>5
  <2>12. \A x \in Procs \ {p} :
             life'[x] = "live" /\ doing'[x].op # "user" =>
                 /\ life[x] = "live" /\ doing'[x] = doing[x]
                 /\ ev'.count[ChildEvent(x)] = ev.count[ChildEvent(x)]
    <3> SUFFICES ASSUME NEW x \in Procs \ {p}, life'[x] = "live", doing'[x].op # "user"
                 PROVE  /\ life[x] = "live" /\ doing'[x] = doing[x]
                        /\ ev'.count[ChildEvent(x)] = ev.count[ChildEvent(x)]
      OBVIOUS
    <3>1. x # c
      BY <2>5, CallFacts
    <3> QED
      BY <2>3, <2>5, <2>8, <2>9, <3>1
  <2>13. /\ ~(life[p] = "live" /\ doing[p].op # "user")
         /\ ~(life'[p] = "live" /\ doing'[p].op = "waitMany" /\ (life[p] # "live" \/ doing[p].op = "user"))
    BY <2>2, <2>4, <2>5
  <2>14. WaitInv'
    BY <2>1, <2>9, <2>10, <2>11, <2>12, <2>13, StillWait
  <2> QED
    BY <2>1, <2>14
<1>6. ASSUME NEW p \in Procs, WaitFor(p) PROVE TreeInv' /\ WaitInv'
  <2>1. PICK kid : kid = doing[p].child
    OBVIOUS
  <2>2. /\ life[p] = "live" /\ doing[p].op = "waitFor" /\ Ready(ev.wait, p)
        /\ UNCHANGED <<parent, killed>>
    BY <1>6 DEF WaitFor, Resumed, In, Live
  <2>3. kid \in awaited /\ kid \in Procs /\ parent[kid] = p /\ life[kid] # "none"
    BY <1>1, <2>1, <2>2 DEF WaitsForItsOwn, In, Live, StatusesAreKept, TreeTyped
  <2>4. CASE /\ life[kid] = "dead" /\ Reap({kid}) /\ awaited' = awaited \ {kid}
             /\ ev' = [ev EXCEPT !.wait = Leave(@, p)] /\ Sets(p, User)
    <3>1. doing' \in [Procs -> Calls] /\ doing'[p].op = "user" /\ \A x \in Procs \ {p} : doing'[x] = doing[x]
      BY <1>1, <2>4, CallFacts DEF Sets
    <3>2. PICK F : F = {kid}
      OBVIOUS
    <3>3. /\ life' = [q \in Procs |-> IF q \in F THEN "none" ELSE life[q]]
          /\ toReap' = toReap \ F /\ killed' \subseteq Procs /\ awaited' \subseteq awaited \ F
          /\ (\A y \in F : life[y] = "dead") /\ (\A y \in awaited \ awaited' : y \in F)
      BY <1>1, <2>2, <2>4, <3>2 DEF Reap
    <3>4. \A x \in Procs : life[x] = "live" /\ doing'[x].op = "waitFor" =>
              doing'[x] = doing[x] /\ doing[x].child \in awaited'
      <4> SUFFICES ASSUME NEW x \in Procs, life[x] = "live", doing'[x].op = "waitFor"
                   PROVE  doing'[x] = doing[x] /\ doing[x].child \in awaited'
        OBVIOUS
      <4>1. x # p /\ doing'[x] = doing[x]
        BY <3>1
      <4>2. doing[x].child \in awaited /\ parent[doing[x].child] = x
        BY <1>1, <4>1 DEF WaitsForItsOwn, In, Live
      <4> QED
        BY <2>3, <2>4, <4>1, <4>2
    <3>5. TreeInv'
      BY <2>2, <3>1, <3>3, <3>4, QuietTree
    <3>6. ev' = [count |-> ev.count, wait |-> Leave(ev.wait, p)]
      BY <1>1, <2>4
    <3>7. /\ \A y \in Procs : life'[y] = "dead" => life[y] = "dead"
          /\ \A y \in Procs : life[y] = "live" <=> life'[y] = "live"
      BY <1>1, <3>3
    <3>8. WaitInv'
      BY <1>1, <2>2, <2>4, <3>5, <3>6, <3>7, CallFacts, LeaveWait DEF Sets
    <3> QED
      BY <3>5, <3>8
  <2>5. CASE /\ life[kid] # "dead" /\ awaited' = awaited \ {kid}
             /\ ev' = [ev EXCEPT !.wait = Leave(@, p)] /\ Sets(p, User) /\ UNCHANGED <<life, toReap>>
    <3>1. ev' = [count |-> ev.count, wait |-> Leave(ev.wait, p)]
      BY <1>1, <2>5
    <3>2. /\ awaited' \subseteq awaited /\ \A c \in awaited \ awaited' : life[c] # "dead" /\ parent[c] = p
      BY <2>3, <2>5
    <3> QED
      BY <1>1, <2>2, <2>5, <3>1, <3>2, ReturnBoth DEF Sets
  <2>6. CASE /\ life[kid] # "dead"
             /\ ev' = [ev EXCEPT !.wait = Block(Leave(@, p), p, {ExitQueue(kid)}, FALSE)]
             /\ UNCHANGED <<life, toReap, awaited, doing>>
    <3>1. QueueOf(p, doing[p]) = ExitQueue(kid) /\ life[kid] = "live"
      BY <1>1, <2>1, <2>2, <2>3, <2>6 DEF QueueOf
    <3>2. ev' = [count |-> ev.count, wait |-> Block(Leave(ev.wait, p), p, {QueueOf(p, doing[p])}, FALSE)]
      BY <1>1, <2>6, <3>1
    <3>3. TreeInv'
      <4>1. PICK d \in Calls : d = doing[p] /\ doing' = [doing EXCEPT ![p] = d]
        BY <1>1, <2>6
      <4> QED
        BY <1>1, <2>2, <2>6, <4>1, SameTree
    <3> QED
      BY <2>1, <2>2, <2>6, <3>1, <3>2, <3>3, BlockWait
  <2> QED
    BY <1>6, <2>1, <2>4, <2>5, <2>6 DEF WaitFor
<1>7. ASSUME NEW p \in Procs, NEW id \in Asked, NEW timed \in BOOLEAN, WaitChild(p, id, timed)
      PROVE  TreeInv' /\ WaitInv'
  <2>1. PICK d \in Calls : d = [op |-> "waitChild", child |-> id, timed |-> timed]
    BY CallFacts, ProcessAssumption
  <2>2. /\ doing' = [doing EXCEPT ![p] = d] /\ d.op = "waitChild" /\ doing[p].op = "user" /\ life[p] = "live"
        /\ UNCHANGED <<life, parent, awaited, toReap, killed, ev>>
    BY <1>7, <2>1 DEF WaitChild, Sets, Resumed, In, Live
  <2>3. doing'[p] = d /\ \A x \in Procs \ {p} : doing'[x] = doing[x]
    BY <1>1, <2>2
  <2>4. TreeInv'
    BY <1>1, <2>2, SameTree
  <2>5. WaitInv'
    BY <1>1, <2>2, <2>3, <2>4, StillWait
  <2> QED
    BY <2>4, <2>5
<1>8. ASSUME NEW p \in Procs, WaitChildLook(p) PROVE TreeInv' /\ WaitInv'
  <2>1. /\ life[p] = "live" /\ doing[p].op = "waitChild" /\ Ready(ev.wait, p)
        /\ UNCHANGED <<parent, killed>>
    BY <1>8 DEF WaitChildLook, Resumed, In, Live
  <2>2. CASE CollectOne(p)
    BY <2>1, <2>2, CollectBoth
  <2>3. CASE /\ ev' = [ev EXCEPT !.wait = Leave(@, p)] /\ Sets(p, User)
             /\ UNCHANGED <<life, toReap, awaited>>
    <3>1. ev' = [count |-> ev.count, wait |-> Leave(ev.wait, p)]
      BY <1>1, <2>3
    <3> QED
      BY <1>1, <2>1, <2>3, <3>1, ReturnBoth DEF Sets
  <2>4. CASE /\ DeadWanted(p) = {}
             /\ ev' = [ev EXCEPT !.wait = Block(Leave(@, p), p, {ChildExit(p)}, doing[p].timed)]
             /\ UNCHANGED <<life, toReap, awaited, doing>>
    <3>1. QueueOf(p, doing[p]) = ChildExit(p)
      BY <2>1 DEF QueueOf
    <3>2. PICK t \in BOOLEAN : t = doing[p].timed
      BY <1>1, <2>1, CallFacts
    <3>4. ev' = [count |-> ev.count, wait |-> Block(Leave(ev.wait, p), p, {QueueOf(p, doing[p])}, t)]
      BY <1>1, <2>4, <3>1, <3>2
    <3>3. TreeInv'
      <4>1. PICK d \in Calls : d = doing[p] /\ doing' = [doing EXCEPT ![p] = d]
        BY <1>1, <2>4
      <4> QED
        BY <1>1, <2>1, <2>4, <4>1, SameTree
    <3> QED
      BY <2>1, <2>4, <3>3, <3>4, BlockWait
  <2> QED
    BY <1>8, <2>2, <2>3, <2>4 DEF WaitChildLook
<1>9. ASSUME NEW p \in Procs, SuperviseCollect(p) PROVE TreeInv' /\ WaitInv'
  <2>1. /\ life[p] = "live" /\ doing[p].op = "user" /\ p \in Supervisors /\ UNCHANGED <<parent, killed>>
    BY <1>9 DEF SuperviseCollect, In, Live
  <2>2. Ready(ev.wait, p)
    BY <2>1, UserIsReady
  <2>3. CASE CollectOne(p)
    BY <2>1, <2>2, <2>3, CollectBoth
  <2>4. CASE /\ DeadWanted(p) = {} /\ Sets(p, [op |-> "waitMany", child |-> Nobody])
             /\ UNCHANGED <<life, toReap, awaited, ev>>
    <3>1. PICK d \in Calls : d = [op |-> "waitMany", child |-> Nobody]
      BY CallFacts
    <3>2. doing' = [doing EXCEPT ![p] = d] /\ d.op = "waitMany"
      BY <2>4, <3>1 DEF Sets
    <3>3. doing'[p] = d /\ \A x \in Procs \ {p} : doing'[x] = doing[x]
      BY <1>1, <3>2
    <3>4. TreeInv'
      BY <1>1, <2>1, <2>4, <3>2, SameTree
    <3>5. DeadChildren(p)' = {}
      <4>1. doing[p] = User
        BY <1>1, <2>1 DEF Calls, User
      <4>2. DeadWanted(p) = DeadChildren(p)
        BY <4>1 DEF DeadWanted, User
      <4> QED
        BY <2>1, <2>4, <4>2 DEF DeadChildren, Children
    <3>6. WaitInv'
      BY <1>1, <2>1, <2>4, <3>2, <3>3, <3>4, <3>5, StillWait
    <3> QED
      BY <3>4, <3>6
  <2> QED
    BY <1>9, <2>3, <2>4 DEF SuperviseCollect
<1>10. ASSUME NEW p \in Procs, SuperviseWait(p) PROVE TreeInv' /\ WaitInv'
  <2>1. /\ life[p] = "live" /\ doing[p].op = "waitMany" /\ Ready(ev.wait, p)
        /\ UNCHANGED <<life, parent, awaited, toReap, killed>>
    BY <1>10 DEF SuperviseWait, Resumed, In, Live
  <2>2. PICK e : e = [ev EXCEPT !.wait = Leave(@, p)]
    OBVIOUS
  <2>3. e = [count |-> ev.count, wait |-> Leave(ev.wait, p)]
    BY <1>1, <2>2
  <2>4. CASE ev.count[ChildEvent(p)] > 0 /\ ev' = Consume(e, ChildEvent(p)) /\ Sets(p, User)
    <3>1. PICK n, k : n = [ev.count EXCEPT ![k] = @ - 1] /\ k = ChildEvent(p)
      OBVIOUS
    <3>2. k \in Events /\ \A x \in Procs \ {p} : ChildEvent(x) \in Events /\ ChildEvent(x) # k
      BY <3>1, QueueNames
    <3>3. n \in [Events -> 0..MaxCount] /\ \A f \in Events : f # k => n[f] = ev.count[f]
      BY <1>1, <2>4, <3>1, <3>2, MaxCountAssumption
    <3>4. ev' = [count |-> n, wait |-> Leave(ev.wait, p)]
      BY <2>3, <2>4, <3>1 DEF Consume
    <3>5. \A x \in Procs \ {p} : n[ChildEvent(x)] = ev.count[ChildEvent(x)]
      BY <3>2, <3>3
    <3> QED
      BY <2>1, <2>4, <3>3, <3>4, <3>5, ReturnBoth DEF Sets
  <2>5. CASE ev' = e /\ Sets(p, User)
    BY <1>1, <2>1, <2>3, <2>5, ReturnBoth DEF Sets
  <2>6. CASE /\ ev.count[ChildEvent(p)] = 0 /\ ev' = BlockOn(e, p, {ChildEvent(p)}, FALSE)
             /\ UNCHANGED doing
    <3>1. QueueOf(p, doing[p]) = ChildEvent(p)
      BY <2>1 DEF QueueOf
    <3>2. ev' = [count |-> ev.count, wait |-> Block(Leave(ev.wait, p), p, {QueueOf(p, doing[p])}, FALSE)]
      BY <2>3, <2>6, <3>1 DEF BlockOn
    <3>3. TreeInv'
      <4>1. PICK d \in Calls : d = doing[p] /\ doing' = [doing EXCEPT ![p] = d]
        BY <1>1, <2>6
      <4> QED
        BY <1>1, <2>1, <2>6, <4>1, SameTree
    <3> QED
      BY <2>1, <2>6, <3>2, <3>3, BlockWait
  <2> QED
    BY <1>10, <2>2, <2>4, <2>5, <2>6 DEF SuperviseWait
<1>11. ASSUME NEW p \in Procs, Expire(p) PROVE TreeInv' /\ WaitInv'
  BY <1>1, <1>11, UnblockBoth DEF Expire
<1>12. ASSUME NEW p \in Procs, WaitChildTimesOut(p) PROVE TreeInv' /\ WaitInv'
  <2>1. /\ life[p] = "live" /\ Ready(ev.wait, p) /\ doing[p].op = "waitChild" /\ Sets(p, User)
        /\ UNCHANGED <<life, parent, awaited, toReap, killed>>
    BY <1>12 DEF WaitChildTimesOut, Resumed, In, Live
  <2>2. ev' = [count |-> ev.count, wait |-> Leave(ev.wait, p)]
    BY <1>1, <1>12 DEF WaitChildTimesOut
  <2> QED
    BY <1>1, <2>1, <2>2, ReturnBoth DEF Sets
<1>13. CASE UNCHANGED vars
  BY <1>13 DEF vars, TreeInv, TreeTyped, Roots, StatusesAreKept, WaitsForItsOwn, NoUncollectableCorpse,
               NoParentCycle, WaitInv, CountsTell, NobodySleepsOnACorpse, Asleep, In, Live,
               DeadWanted, DeadChildren, Children
<1> QED
  BY <1>2, <1>3, <1>4, <1>5, <1>6, <1>7, <1>8, <1>9, <1>10, <1>11, <1>12, <1>13 DEF Next

-----------------------------------------------------------------------------
(* The theorems. *)

\* Both invariants hold throughout.
LEMMA InvariantHolds == Spec => [](TreeInv /\ WaitInv)
<1>1. Init => TreeInv /\ WaitInv
  BY InitBoth
<1>2. TreeInv /\ WaitInv /\ [Next]_vars => (TreeInv /\ WaitInv)'
  BY StepBoth
<1> QED
  BY <1>1, <1>2, PTL DEF Spec

\* The process tree has no cycle through any spawn, death and adoption, and
\* every corpse has somebody to free it (exitWith, orphanChildren, reap).
THEOREM TreeIsSoundHolds == Spec => []TreeIsSound
<1>1. TreeInv /\ WaitInv => TreeIsSound
  BY DEF TreeInv, TreeTyped, WaitInv, TreeIsSound, TypeOK
<1> QED
  BY <1>1, InvariantHolds, PTL

\* A parent in waitFor has its child still there after every wake, and nobody
\* sleeps through an exit or an adoption (waitFor, waitChild, exitWith).
THEOREM NobodySleepsInVainHolds == Spec => []NobodySleepsInVain
<1>1. TreeInv /\ WaitInv => NobodySleepsInVain
  <2> SUFFICES ASSUME TreeInv, WaitInv PROVE WaitedForChildExists
    BY DEF NobodySleepsInVain, WaitInv
  <2> QED
    BY DEF TreeInv, StatusesAreKept, WaitsForItsOwn, WaitedForChildExists
<1> QED
  BY <1>1, InvariantHolds, PTL

\* A supervisor other than init never sleeps in its loop beside a child that is
\* dead: the exit's signal outlives the poll that missed it (exitWith, the loop
\* of init.zig).
THEOREM SupervisorIsToldHolds == Spec => []SupervisorIsTold
<1>1. WaitInv => SupervisorIsTold
  BY ProcessAssumption DEF WaitInv, CountsTell, SupervisorIsTold, Asleep
<1> QED
  BY <1>1, InvariantHolds, PTL

==============================================================================
