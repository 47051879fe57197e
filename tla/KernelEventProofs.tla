-------------------------- MODULE KernelEventProofs --------------------------
(***************************************************************************)
(* KernelEvent for any number of threads and events: the waiter nodes and  *)
(* the woken flags say who waits for what, no wakeup is lost, and a        *)
(* timeout is reported only when no signal is left for the caller.         *)
(***************************************************************************)
EXTENDS KernelEvent, WaitQueueProofs, FiniteSetTheorems

\* The threads woken by a signal of e and not yet back.
WokenBy(e) == {u \in Threads : e \in ev.wait.woken[u]}

\* A wait in progress is one the thread makes.
WaitsAreOurs == \A t \in Threads : waitsFor[t] = <<>> \/ waitsFor[t] \in WaitsOf[t]

\* A thread has a node on exactly the events of its wait that have not fired.
NodesMatchWaits ==
    /\ OneNodeEach(ev.wait)
    /\ \A t \in Threads, e \in Events :
          Queued(ev.wait, e, t) <=> e \in EventsOf(waitsFor[t]) /\ e \notin ev.wait.woken[t]

\* An event that has fired for a thread is one it waits for, and it is awake.
FiredMeansAwake ==
    \A t \in Threads :
        /\ ev.wait.woken[t] \subseteq EventsOf(waitsFor[t])
        /\ ev.wait.woken[t] # {} => Ready(ev.wait, t)

Bookkeeping == TypeOK /\ WaitsAreOurs /\ NodesMatchWaits /\ FiredMeansAwake

\* While a node is on an event no woken thread has left behind, every signal the
\* event holds has a woken thread.
SignalsAreCovered ==
    \A e \in Events \ leftBehind :
        (\E t \in Threads : Queued(ev.wait, e, t)) => ev.count[e] <= Cardinality(WokenBy(e))

IInv == Bookkeeping /\ SignalsAreCovered

-----------------------------------------------------------------------------
\* w is the waiting state with thread t off every queue and its flags cleared.
HasLeft(t, w) ==
    /\ w \in WaitRecords(Threads, Events) /\ OneNodeEach(w)
    /\ w.state = ev.wait.state
    /\ w.woken = [ev.wait.woken EXCEPT ![t] = {}]
    /\ \A e \in Events, u \in Threads : Queued(w, e, u) <=> Queued(ev.wait, e, u) /\ u # t

\* The type of the parts of ev.
LEMMA EventTypes ==
    ASSUME TypeOK
    PROVE  /\ ev.wait \in WaitRecords(Threads, Events)
           /\ ev.wait.state \in [Threads -> RunStates]
           /\ ev.wait.woken \in [Threads -> SUBSET Events]
           /\ ev.count \in [Events -> 0..MaxCount]
           /\ ev = [count |-> ev.count, wait |-> ev.wait]
BY DEF TypeOK, EventRecords, WaitRecords

\* A record of events is one when its parts are.
LEMMA EventRecordType ==
    ASSUME NEW c \in [Events -> 0..MaxCount], NEW w \in WaitRecords(Threads, Events)
    PROVE  [count |-> c, wait |-> w] \in EventRecords(Threads, Events)
BY DEF EventRecords

\* A thread outside waitMany is on no queue, and blockOn takes one that is
\* coming back off all of them.
LEMMA LeavesQueues ==
    ASSUME Bookkeeping, NEW t \in Threads, NEW w,
           (w = ev.wait /\ ~Waiting(t)) \/ w = Leave(ev.wait, t)
    PROVE  HasLeft(t, w)
<1>1. /\ ev.wait \in WaitRecords(Threads, Events)
      /\ ev.wait.woken \in [Threads -> SUBSET Events]
      /\ OneNodeEach(ev.wait)
  BY EventTypes DEF Bookkeeping, NodesMatchWaits
<1>2. CASE w = ev.wait /\ ~Waiting(t)
  <2>1. EventsOf(waitsFor[t]) = {}
    BY <1>2, EmptySeq DEF Waiting, EventsOf
  <2>2. ev.wait.woken[t] = {} /\ \A e \in Events : ~Queued(ev.wait, e, t)
    BY <2>1 DEF Bookkeeping, FiredMeansAwake, NodesMatchWaits
  <2>3. w.woken = [ev.wait.woken EXCEPT ![t] = {}]
    BY <1>1, <1>2, <2>2
  <2> QED
    BY <1>1, <1>2, <2>2, <2>3 DEF HasLeft
<1>3. CASE w = Leave(ev.wait, t)
  <2>1. w \in WaitRecords(Threads, Events)
    BY <1>1, <1>3, LeaveType
  <2>2. OneNodeEach(w)
    BY <1>1, <1>3, LeaveMembers
  <2>3. \A e \in Events : \A u : Queued(w, e, u) <=> Queued(ev.wait, e, u) /\ u # t
    BY <1>1, <1>3, LeaveMembers
  <2>4. w.state = ev.wait.state /\ w.woken = [ev.wait.woken EXCEPT ![t] = {}]
    BY <1>3 DEF Leave
  <2> QED
    BY <2>1, <2>2, <2>3, <2>4 DEF HasLeft
<1> QED
  BY <1>2, <1>3

\* waitMany answers with an event that holds a signal.
LEMMA FirstSignalledIsOne ==
    ASSUME TypeOK, NEW s \in Seq(Events), AnySignalled(s)
    PROVE  /\ FirstSignalled(s) \in 1..Len(s)
           /\ ev.count[s[FirstSignalled(s)]] > 0
<1>1. Len(s) \in Nat /\ \A i \in 1..Len(s) : s[i] \in Events
  BY LenProperties, ElementOfSeq
<1>2. ev.count \in [Events -> 0..MaxCount] /\ MaxCount \in Nat
  BY EventTypes, MaxCountAssumption
<1>3. PICK I : I = {i \in 1..Len(s) : ev.count[s[i]] > 0}
  OBVIOUS
<1>4. I \in SUBSET Nat /\ I # {}
  BY <1>1, <1>3 DEF AnySignalled
<1>5. PICK i \in I : \A j \in I : i <= j
  BY <1>4, LeastExists
<1>6. i \in 1..Len(s) /\ ev.count[s[i]] > 0
  BY <1>3
<1>7. ASSUME NEW j \in 1..(i - 1) PROVE ev.count[s[j]] = 0
  <2>1. j \in 1..Len(s) /\ j \notin I
    BY <1>1, <1>5, <1>6
  <2>2. ev.count[s[j]] \in 0..MaxCount
    BY <1>1, <1>2, <2>1
  <2> QED
    BY <1>2, <1>3, <2>1, <2>2
<1>8. \E k \in 1..Len(s) : ev.count[s[k]] > 0 /\ \A j \in 1..(k - 1) : ev.count[s[j]] = 0
  BY <1>6, <1>7
<1> QED
  BY <1>8 DEF FirstSignalled

\* What is left behind are events.
LEMMA ComesBackType ==
    ASSUME TypeOK, NEW t \in Threads, NEW S, ComesBack(t, S)
    PROVE  leftBehind' \in SUBSET Events
<1>1. ev.wait.woken[t] \in SUBSET Events /\ leftBehind \in SUBSET Events
  BY EventTypes DEF TypeOK
<1> QED
  BY <1>1 DEF ComesBack

-----------------------------------------------------------------------------
(* The bookkeeping of waits. *)

\* A wait that returns leaves no trace of itself.
LEMMA ReturnKeepsBooks ==
    ASSUME Bookkeeping, NEW t \in Threads, HasLeft(t, ev'.wait), Returned(t),
           ev' \in EventRecords(Threads, Events), UNCHANGED killed,
           NEW S, ComesBack(t, S)
    PROVE  Bookkeeping'
<1> USE DEF Bookkeeping, TypeOK
<1>1. EventsOf(<<>>) = {} /\ <<>> \in Seq(Events) /\ "none" \in Deadlines
  BY EmptySeq DEF EventsOf, Deadlines
<1>2. /\ waitsFor'[t] = <<>>
      /\ \A u \in Threads \ {t} : waitsFor'[u] = waitsFor[u]
  BY DEF Returned
<1>3. TypeOK'
  <2>1. leftBehind' \in SUBSET Events
    BY ComesBackType
  <2> QED
    BY <1>1, <2>1 DEF Returned
<1>4. WaitsAreOurs'
  BY <1>2 DEF WaitsAreOurs
<1>5. ev.wait.woken \in [Threads -> SUBSET Events]
  BY EventTypes
<1>6. /\ ev'.wait.woken[t] = {}
      /\ \A u \in Threads \ {t} : ev'.wait.woken[u] = ev.wait.woken[u]
      /\ ev'.wait.state = ev.wait.state
  BY <1>5 DEF HasLeft
<1>7. NodesMatchWaits'
  <2>1. OneNodeEach(ev'.wait)
    BY DEF HasLeft
  <2>2. ASSUME NEW u \in Threads, NEW e \in Events
        PROVE  Queued(ev'.wait, e, u)
                 <=> e \in EventsOf(waitsFor'[u]) /\ e \notin ev'.wait.woken[u]
    <3>1. CASE u = t
      BY <1>1, <1>2, <3>1 DEF HasLeft
    <3>2. CASE u # t
      BY <1>2, <1>6, <3>2 DEF HasLeft, NodesMatchWaits
    <3> QED
      BY <3>1, <3>2
  <2> QED
    BY <2>1, <2>2 DEF NodesMatchWaits
<1>8. FiredMeansAwake'
  BY <1>1, <1>2, <1>6 DEF FiredMeansAwake, Ready
<1> QED
  BY <1>3, <1>4, <1>7, <1>8

\* A wait that blocks has a node on each of its events.
LEMMA BlockKeepsBooks ==
    ASSUME Bookkeeping, NEW t \in Threads, NEW w, HasLeft(t, w),
           NEW s \in WaitsOf[t], NEW d \in Deadlines,
           ev' = [count |-> ev.count, wait |-> Block(w, t, EventsOf(s), d = "ahead")],
           waitsFor' = [waitsFor EXCEPT ![t] = s],
           deadline' = [deadline EXCEPT ![t] = d], UNCHANGED killed,
           NEW S, ComesBack(t, S)
    PROVE  Bookkeeping'
<1> USE DEF Bookkeeping, TypeOK
<1>1. s \in Seq(Events) /\ EventsOf(s) \in SUBSET Events
  <2>1. s \in Seq(Events)
    BY WaitsOfAssumption
  <2> QED
    BY <2>1, ElementOfSeq DEF EventsOf
<1>2. /\ waitsFor'[t] = s
      /\ \A u \in Threads \ {t} : waitsFor'[u] = waitsFor[u]
  OBVIOUS
<1>3. w \in WaitRecords(Threads, Events) /\ OneNodeEach(w) /\ \A e \in Events : ~Queued(w, e, t)
  BY DEF HasLeft
<1>4. PICK b \in BOOLEAN : b = (d = "ahead")
  OBVIOUS
<1>5. PICK x : x = Block(w, t, EventsOf(s), b)
  OBVIOUS
<1>6. x \in WaitRecords(Threads, Events)
  BY <1>3, <1>5, BlockType
<1>7. /\ OneNodeEach(x)
      /\ \A e \in Events : \A u : Queued(x, e, u) <=> Queued(w, e, u) \/ (e \in EventsOf(s) /\ u = t)
  BY <1>3, <1>5, BlockMembers
<1>8. ev' = [count |-> ev.count, wait |-> x]
  BY <1>4, <1>5
<1>9. TypeOK'
  <2>1. ev' \in EventRecords(Threads, Events)
    BY <1>6, <1>8, EventRecordType, EventTypes
  <2>2. leftBehind' \in SUBSET Events
    BY ComesBackType
  <2> QED
    BY <1>1, <2>1, <2>2
<1>10. WaitsAreOurs'
  BY <1>2 DEF WaitsAreOurs
<1>11. ev.wait.woken \in [Threads -> SUBSET Events] /\ ev.wait.state \in [Threads -> RunStates]
  BY EventTypes
<1>12. /\ x.woken[t] = {}
       /\ \A u \in Threads \ {t} : x.woken[u] = ev.wait.woken[u]
       /\ \A u \in Threads \ {t} : x.state[u] = ev.wait.state[u]
  BY <1>5, <1>11 DEF HasLeft, Block
<1>13. NodesMatchWaits'
  <2>1. ASSUME NEW u \in Threads, NEW e \in Events
        PROVE  Queued(x, e, u) <=> e \in EventsOf(waitsFor'[u]) /\ e \notin x.woken[u]
    <3>1. CASE u = t
      BY <1>2, <1>3, <1>7, <1>12, <3>1
    <3>2. CASE u # t
      BY <1>2, <1>7, <1>12, <3>2 DEF HasLeft, NodesMatchWaits
    <3> QED
      BY <3>1, <3>2
  <2> QED
    BY <1>7, <1>8, <2>1 DEF NodesMatchWaits
<1>14. FiredMeansAwake'
  <2>1. ASSUME NEW u \in Threads
        PROVE  /\ x.woken[u] \subseteq EventsOf(waitsFor'[u])
               /\ x.woken[u] # {} => Ready(x, u)
    <3>1. CASE u = t
      BY <1>12, <3>1
    <3>2. CASE u # t
      BY <1>2, <1>12, <3>2 DEF FiredMeansAwake, Ready
    <3> QED
      BY <3>1, <3>2
  <2> QED
    BY <1>8, <2>1 DEF FiredMeansAwake
<1> QED
  BY <1>9, <1>10, <1>13, <1>14

\* The loop of waitMany keeps the books.
LEMMA WaitLoopKeepsBooks ==
    ASSUME Bookkeeping, NEW t \in Threads, NEW w, HasLeft(t, w),
           NEW s \in WaitsOf[t], NEW d \in Deadlines, WaitLoop(t, w, s, d),
           UNCHANGED killed
    PROVE  Bookkeeping'
<1>1. w \in WaitRecords(Threads, Events) /\ s \in Seq(Events)
  BY WaitsOfAssumption DEF HasLeft
<1>2. TypeOK /\ ev.count \in [Events -> 0..MaxCount] /\ ev = [count |-> ev.count, wait |-> ev.wait]
  BY EventTypes DEF Bookkeeping
<1>3. [ev EXCEPT !.wait = w] = [count |-> ev.count, wait |-> w]
  BY <1>2
<1>4. CASE /\ AnySignalled(s) /\ Returned(t)
           /\ ev' = Consume([ev EXCEPT !.wait = w], s[FirstSignalled(s)])
           /\ ComesBack(t, {s[FirstSignalled(s)]})
  <2>1. PICK f \in Events : f = s[FirstSignalled(s)] /\ ev.count[f] > 0
    BY <1>1, <1>2, <1>4, FirstSignalledIsOne, ElementOfSeq
  <2>2. ev' = [count |-> [ev.count EXCEPT ![f] = @ - 1], wait |-> w]
    BY <1>3, <1>4, <2>1 DEF Consume
  <2>3. [ev.count EXCEPT ![f] = @ - 1] \in [Events -> 0..MaxCount]
    BY <1>2, <2>1, MaxCountAssumption
  <2>4. ev' \in EventRecords(Threads, Events) /\ ev'.wait = w
    BY <1>1, <2>2, <2>3, EventRecordType
  <2> QED
    BY <1>4, <2>4, ReturnKeepsBooks
<1>5. CASE ev' = [ev EXCEPT !.wait = w] /\ Returned(t) /\ ComesBack(t, {})
  <2>1. ev' \in EventRecords(Threads, Events) /\ ev'.wait = w
    BY <1>1, <1>2, <1>3, <1>5, EventRecordType
  <2> QED
    BY <1>5, <2>1, ReturnKeepsBooks
<1>6. CASE /\ ev' = BlockOn([ev EXCEPT !.wait = w], t, EventsOf(s), d = "ahead")
           /\ waitsFor' = [waitsFor EXCEPT ![t] = s]
           /\ deadline' = [deadline EXCEPT ![t] = d]
           /\ ComesBack(t, {})
  <2>1. ev' = [count |-> ev.count, wait |-> Block(w, t, EventsOf(s), d = "ahead")]
    BY <1>3, <1>6 DEF BlockOn
  <2> QED
    BY <1>6, <2>1, BlockKeepsBooks
<1> QED
  BY <1>4, <1>5, <1>6 DEF WaitLoop

\* Being made runnable touches no node and no flag.
LEMMA UnblockKeepsBooks ==
    ASSUME Bookkeeping, NEW t \in Threads, ev' = [ev EXCEPT !.wait = Unblock(@, t)],
           UNCHANGED <<waitsFor, leftBehind>>, deadline' \in [Threads -> Deadlines],
           killed' \in SUBSET Killable
    PROVE  Bookkeeping' /\ (SignalsAreCovered => SignalsAreCovered')
<1>1. /\ ev.wait \in WaitRecords(Threads, Events) /\ ev.count \in [Events -> 0..MaxCount]
      /\ ev.wait.state \in [Threads -> RunStates]
      /\ OneNodeEach(ev.wait) /\ ev = [count |-> ev.count, wait |-> ev.wait]
  BY EventTypes DEF Bookkeeping, NodesMatchWaits
<1>2. PICK x : x = Unblock(ev.wait, t)
  OBVIOUS
<1>3. ev' = [count |-> ev.count, wait |-> x]
  BY <1>1, <1>2
<1>4. x \in WaitRecords(Threads, Events)
  BY <1>1, <1>2, UnblockType
<1>5. OneNodeEach(x) /\ \A q, u : Queued(x, q, u) <=> Queued(ev.wait, q, u)
  BY <1>1, <1>2, UnblockMembers
<1>6. x.woken = ev.wait.woken /\ x.state = [ev.wait.state EXCEPT ![t] = "ready"]
  BY <1>2 DEF Unblock
<1>7. TypeOK'
  <2>1. ev' \in EventRecords(Threads, Events)
    BY <1>1, <1>3, <1>4, EventRecordType
  <2> QED
    BY <2>1 DEF Bookkeeping, TypeOK
<1>8. WaitsAreOurs' /\ NodesMatchWaits'
  BY <1>3, <1>5, <1>6 DEF Bookkeeping, WaitsAreOurs, NodesMatchWaits
<1>9. FiredMeansAwake'
  BY <1>1, <1>3, <1>6 DEF Bookkeeping, FiredMeansAwake, Ready
<1>10. SignalsAreCovered => SignalsAreCovered'
  BY <1>3, <1>5, <1>6 DEF SignalsAreCovered, WokenBy
<1> QED
  BY <1>7, <1>8, <1>9, <1>10 DEF Bookkeeping

\* The threads woken by an event are finitely many.
LEMMA WokenIsFinite ==
    ASSUME NEW e PROVE IsFiniteSet(WokenBy(e)) /\ Cardinality(WokenBy(e)) \in Nat
<1>1. WokenBy(e) \in SUBSET Threads
  BY DEF WokenBy
<1> QED
  BY <1>1, KillableAssumption, FS_Subset, FS_CardinalityType

\* signalLocked wakes a thread for the signal it adds, if one has a node there.
LEMMA SignalKeepsAll ==
    ASSUME Bookkeeping, NEW e \in Events, Signal(e)
    PROVE  Bookkeeping' /\ (SignalsAreCovered => SignalsAreCovered')
<1>1. /\ ev.wait \in WaitRecords(Threads, Events) /\ ev.count \in [Events -> 0..MaxCount]
      /\ ev.wait.state \in [Threads -> RunStates] /\ ev.wait.woken \in [Threads -> SUBSET Events]
      /\ OneNodeEach(ev.wait) /\ MaxCount \in Nat
  BY EventTypes, MaxCountAssumption DEF Bookkeeping, NodesMatchWaits
<1>2. PICK c, x : /\ c = [ev.count EXCEPT ![e] = IF @ = MaxCount THEN @ ELSE @ + 1]
                  /\ x = WakeOne(ev.wait, e)
  OBVIOUS
<1>3. ev' = [count |-> c, wait |-> x]
  BY <1>2 DEF Signal, SignalLocked
<1>4. /\ c \in [Events -> 0..MaxCount]
      /\ \A f \in Events \ {e} : c[f] = ev.count[f]
      /\ c[e] <= ev.count[e] + 1
  BY <1>1, <1>2
<1>5. x \in WaitRecords(Threads, Events)
  BY <1>1, <1>2, WakeOneType
<1>6. TypeOK'
  <2>1. ev' \in EventRecords(Threads, Events)
    BY <1>3, <1>4, <1>5, EventRecordType
  <2> QED
    BY <2>1 DEF Bookkeeping, TypeOK, Signal
<1>7. WaitsAreOurs'
  BY DEF Bookkeeping, WaitsAreOurs, Signal
<1>8. OneNodeEach(x)
  BY <1>1, <1>2, WakeOneMembers
<1>9. CASE (\A t : ~Queued(ev.wait, e, t)) /\ x = ev.wait
  <2>1. NodesMatchWaits' /\ FiredMeansAwake'
    BY <1>3, <1>9 DEF Bookkeeping, NodesMatchWaits, FiredMeansAwake, Signal
  <2>2. SignalsAreCovered => SignalsAreCovered'
    BY <1>3, <1>4, <1>9 DEF SignalsAreCovered, WokenBy, Signal
  <2> QED
    BY <1>6, <1>7, <2>1, <2>2 DEF Bookkeeping
<1>10. ASSUME NEW t \in Threads, Woke(ev.wait, x, Events, e, t)
       PROVE  Bookkeeping' /\ (SignalsAreCovered => SignalsAreCovered')
  <2> USE DEF Woke
  <2>1. /\ x.woken[t] = ev.wait.woken[t] \cup {e}
        /\ \A u \in Threads \ {t} : x.woken[u] = ev.wait.woken[u]
        /\ x.state[t] = "ready"
        /\ \A u \in Threads \ {t} : x.state[u] = ev.wait.state[u]
    BY <1>1, <1>10
  <2>2. e \in EventsOf(waitsFor[t]) /\ e \notin ev.wait.woken[t]
    BY <1>10 DEF Bookkeeping, NodesMatchWaits
  <2>3. NodesMatchWaits'
    <3>1. ASSUME NEW u \in Threads, NEW f \in Events
          PROVE  Queued(x, f, u) <=> f \in EventsOf(waitsFor[u]) /\ f \notin x.woken[u]
      <4>1. Queued(ev.wait, f, u) <=> f \in EventsOf(waitsFor[u]) /\ f \notin ev.wait.woken[u]
        BY DEF Bookkeeping, NodesMatchWaits
      <4>2. CASE u = t
        BY <1>10, <2>1, <4>1, <4>2
      <4>3. CASE u # t
        BY <1>10, <2>1, <4>1, <4>3
      <4> QED
        BY <4>2, <4>3
    <3> QED
      BY <1>3, <1>8, <3>1 DEF NodesMatchWaits, Signal
  <2>4. FiredMeansAwake'
    <3>1. ASSUME NEW u \in Threads
          PROVE  x.woken[u] \subseteq EventsOf(waitsFor[u]) /\ (x.woken[u] # {} => Ready(x, u))
      <4>1. CASE u = t
        BY <2>1, <2>2, <4>1 DEF Bookkeeping, FiredMeansAwake, Ready
      <4>2. CASE u # t
        BY <2>1, <4>2 DEF Bookkeeping, FiredMeansAwake, Ready
      <4> QED
        BY <4>1, <4>2
    <3> QED
      BY <1>3, <3>1 DEF FiredMeansAwake, Signal
  <2>5. ASSUME SignalsAreCovered PROVE SignalsAreCovered'
    <3>1. e \notin leftBehind => ev.count[e] <= Cardinality(WokenBy(e))
      BY <1>10, <2>5 DEF SignalsAreCovered
    <3>2. WokenBy(e)' = WokenBy(e) \cup {t} /\ t \notin WokenBy(e)
      BY <1>3, <2>1, <2>2 DEF WokenBy
    <3>3. \A f \in Events \ {e} : WokenBy(f)' = WokenBy(f)
      BY <1>3, <2>1 DEF WokenBy
    <3>4. Cardinality(WokenBy(e)') = Cardinality(WokenBy(e)) + 1
      BY <3>2, WokenIsFinite, FS_AddElement
    <3>5. e \notin leftBehind => c[e] <= Cardinality(WokenBy(e)')
      BY <1>1, <1>4, <3>1, <3>4, WokenIsFinite
    <3>6. ASSUME NEW f \in Events \ leftBehind, \E u \in Threads : Queued(x, f, u)
          PROVE  c[f] <= Cardinality(WokenBy(f)')
      <4>1. CASE f = e
        BY <3>5, <4>1
      <4>2. CASE f # e
        BY <1>4, <1>10, <2>5, <3>3, <3>6, <4>2 DEF SignalsAreCovered
      <4> QED
        BY <4>1, <4>2
    <3> QED
      BY <1>3, <3>6 DEF SignalsAreCovered, Signal
  <2> QED
    BY <1>6, <1>7, <2>3, <2>4, <2>5 DEF Bookkeeping
<1>11. \/ (\A t : ~Queued(ev.wait, e, t)) /\ x = ev.wait
       \/ \E t \in Threads : Woke(ev.wait, x, Events, e, t)
  BY <1>1, <1>2, WakeOneMembers
<1> QED
  BY <1>9, <1>10, <1>11

-----------------------------------------------------------------------------
(* The signals on an event and the threads woken for them. *)

\* A thread that goes takes its woken flags with it; the events it was woken for
\* and did not take are left behind.
LEMMA LeavingIsCovered ==
    ASSUME IInv, NEW t \in Threads, HasLeft(t, ev'.wait),
           ev'.count \in [Events -> 0..MaxCount],
           \A e \in Events : ev'.count[e] <= ev.count[e],
           NEW S, ComesBack(t, S),
           \A e \in ev.wait.woken[t] \cap S : ev'.count[e] <= ev.count[e] - 1
    PROVE  SignalsAreCovered'
<1>1. /\ ev.count \in [Events -> 0..MaxCount] /\ MaxCount \in Nat
      /\ ev.wait.woken \in [Threads -> SUBSET Events]
  BY EventTypes, MaxCountAssumption DEF IInv, Bookkeeping
<1>2. SUFFICES ASSUME NEW e \in Events, e \notin leftBehind', NEW u \in Threads, Queued(ev'.wait, e, u)
               PROVE  ev'.count[e] <= Cardinality(WokenBy(e)')
  BY DEF SignalsAreCovered
<1>3. u # t /\ Queued(ev.wait, e, u)
  BY <1>2 DEF HasLeft
<1>4. WokenBy(e)' = WokenBy(e) \ {t}
  BY <1>1 DEF WokenBy, HasLeft
<1>5. Cardinality(WokenBy(e)') =
        IF t \in WokenBy(e) THEN Cardinality(WokenBy(e)) - 1 ELSE Cardinality(WokenBy(e))
  BY <1>4, WokenIsFinite, FS_RemoveElement
<1>6. /\ ev.count[e] \in Nat /\ ev'.count[e] \in Nat /\ Cardinality(WokenBy(e)) \in Nat
      /\ Cardinality(WokenBy(e)') \in Nat
  <2>1. ev.count[e] \in Nat /\ ev'.count[e] \in Nat
    BY <1>1
  <2>2. IsFiniteSet(WokenBy(e)) /\ IsFiniteSet(WokenBy(e)')
    BY <1>4, WokenIsFinite, FS_RemoveElement
  <2> QED
    BY <2>1, <2>2, FS_CardinalityType
<1>7. ev'.count[e] <= ev.count[e]
  OBVIOUS
<1>8. CASE ev'.count[e] = 0
  BY <1>6, <1>8
<1>9. CASE ev'.count[e] # 0
  <2>1. e \notin leftBehind /\ (e \in ev.wait.woken[t] => e \in S)
    <3>1. ev'.count[e] > 0
      BY <1>6, <1>9
    <3>2. e \notin {f \in leftBehind \cup (ev.wait.woken[t] \ S) : ev'.count[f] > 0}
      BY <1>2 DEF ComesBack
    <3> QED
      BY <3>1, <3>2
  <2>2. ev.count[e] <= Cardinality(WokenBy(e))
    BY <1>3, <2>1 DEF IInv, SignalsAreCovered
  <2>3. t \in WokenBy(e) => ev'.count[e] <= ev.count[e] - 1
    BY <2>1 DEF WokenBy
  <2> QED
    BY <1>5, <1>6, <1>7, <2>2, <2>3
<1> QED
  BY <1>8, <1>9

\* A thread that blocks found none of its events signalled.
LEMMA BlockingIsCovered ==
    ASSUME IInv, NEW t \in Threads, NEW w, HasLeft(t, w),
           NEW s \in WaitsOf[t], NEW b \in BOOLEAN, ~AnySignalled(s),
           ev.wait.woken[t] \subseteq EventsOf(s),
           ev' = [count |-> ev.count, wait |-> Block(w, t, EventsOf(s), b)],
           ComesBack(t, {})
    PROVE  SignalsAreCovered'
<1>1. /\ ev.count \in [Events -> 0..MaxCount] /\ MaxCount \in Nat
      /\ ev.wait.woken \in [Threads -> SUBSET Events]
  BY EventTypes, MaxCountAssumption DEF IInv, Bookkeeping
<1>2. PICK x : x = Block(w, t, EventsOf(s), b)
  OBVIOUS
<1>3. ev'.count = ev.count /\ ev'.wait = x
  BY <1>2
<1>4. \A e \in Events : \A u : Queued(x, e, u) <=> Queued(w, e, u) \/ (e \in EventsOf(s) /\ u = t)
  <2>1. w \in WaitRecords(Threads, Events) /\ OneNodeEach(w) /\ \A e \in Events : ~Queued(w, e, t)
    BY DEF HasLeft
  <2> QED
    BY <1>2, <2>1, BlockMembers
<1>5. SUFFICES ASSUME NEW e \in Events, e \notin leftBehind', NEW u \in Threads, Queued(x, e, u)
               PROVE  ev.count[e] <= Cardinality(WokenBy(e)')
  BY <1>3 DEF SignalsAreCovered
<1>6. x.woken = [ev.wait.woken EXCEPT ![t] = {}]
  BY <1>1, <1>2 DEF Block, HasLeft
<1>7. WokenBy(e)' = WokenBy(e) \ {t}
  BY <1>1, <1>3, <1>6 DEF WokenBy
<1>8. Cardinality(WokenBy(e)') \in Nat /\ ev.count[e] \in Nat
  BY <1>1, <1>7, WokenIsFinite, FS_RemoveElement, FS_CardinalityType
<1>9. CASE e \in EventsOf(s)
  <2>1. ev.count[e] = 0
    BY <1>1, <1>8, <1>9 DEF AnySignalled, EventsOf
  <2> QED
    BY <1>8, <2>1
<1>10. CASE e \notin EventsOf(s)
  <2>1. Queued(ev.wait, e, u)
    BY <1>4, <1>5, <1>10 DEF HasLeft
  <2>2. t \notin WokenBy(e)
    BY <1>10 DEF WokenBy
  <2>3. WokenBy(e)' = WokenBy(e)
    BY <1>7, <2>2
  <2>4. CASE ev.count[e] = 0
    BY <1>8, <2>4
  <2>5. CASE ev.count[e] # 0
    <3>1. e \notin leftBehind
      BY <1>3, <1>5, <1>8, <2>5 DEF ComesBack
    <3> QED
      BY <2>1, <2>3, <3>1 DEF IInv, SignalsAreCovered
  <2> QED
    BY <2>4, <2>5
<1> QED
  BY <1>9, <1>10

\* The loop of waitMany leaves no signal uncovered.
LEMMA WaitLoopIsCovered ==
    ASSUME IInv, NEW t \in Threads, NEW w, HasLeft(t, w),
           NEW s \in WaitsOf[t], NEW d \in Deadlines, WaitLoop(t, w, s, d),
           s = waitsFor[t] \/ ev.wait.woken[t] = {}
    PROVE  SignalsAreCovered'
<1>1. /\ ev.count \in [Events -> 0..MaxCount] /\ MaxCount \in Nat
      /\ ev = [count |-> ev.count, wait |-> ev.wait] /\ TypeOK
      /\ ev.wait.woken \in [Threads -> SUBSET Events]
  BY EventTypes, MaxCountAssumption DEF IInv, Bookkeeping
<1>2. s \in Seq(Events) /\ ev.wait.woken[t] \subseteq EventsOf(s)
  BY WaitsOfAssumption DEF IInv, Bookkeeping, FiredMeansAwake
<1>3. [ev EXCEPT !.wait = w] = [count |-> ev.count, wait |-> w]
  BY <1>1
<1>4. CASE /\ AnySignalled(s) /\ ev' = Consume([ev EXCEPT !.wait = w], s[FirstSignalled(s)])
           /\ ComesBack(t, {s[FirstSignalled(s)]})
  <2>1. PICK i \in 1..Len(s), f \in Events : i = FirstSignalled(s) /\ f = s[i] /\ ev.count[f] > 0
    BY <1>1, <1>2, <1>4, FirstSignalledIsOne, ElementOfSeq
  <2>2. ev'.count = [ev.count EXCEPT ![f] = @ - 1] /\ ev'.wait = w
    BY <1>3, <1>4, <2>1 DEF Consume
  <2>3. /\ ev'.count \in [Events -> 0..MaxCount]
        /\ \A e \in Events : ev'.count[e] <= ev.count[e]
        /\ ev'.count[f] <= ev.count[f] - 1
    BY <1>1, <2>1, <2>2
  <2>4. ComesBack(t, {f})
    BY <1>4, <2>1
  <2>5. \A e \in ev.wait.woken[t] \cap {f} : ev'.count[e] <= ev.count[e] - 1
    BY <2>3
  <2> QED
    BY <2>2, <2>3, <2>4, <2>5, LeavingIsCovered
<1>5. CASE ~AnySignalled(s) /\ ev' = [ev EXCEPT !.wait = w] /\ ComesBack(t, {})
  <2>1. ev'.count = ev.count /\ ev'.wait = w
    BY <1>3, <1>5
  <2>2. \A e \in ev.wait.woken[t] \cap {} : ev'.count[e] <= ev.count[e] - 1
    OBVIOUS
  <2>3. \A e \in Events : ev'.count[e] <= ev.count[e]
    BY <1>1, <2>1
  <2> QED
    BY <1>1, <1>5, <2>1, <2>2, <2>3, LeavingIsCovered
<1>6. CASE /\ ~AnySignalled(s) /\ ev' = BlockOn([ev EXCEPT !.wait = w], t, EventsOf(s), d = "ahead")
           /\ ComesBack(t, {})
  <2>1. PICK b \in BOOLEAN : b = (d = "ahead")
    OBVIOUS
  <2>2. ev' = [count |-> ev.count, wait |-> Block(w, t, EventsOf(s), b)]
    BY <1>3, <1>6, <2>1 DEF BlockOn
  <2> QED
    BY <1>2, <1>6, <2>2, BlockingIsCovered
<1> QED
  BY <1>4, <1>5, <1>6 DEF WaitLoop

-----------------------------------------------------------------------------
\* Nothing signalled, nobody waiting.
LEMMA InitIsSound == Init => IInv
<1> SUFFICES ASSUME Init PROVE IInv
  OBVIOUS
<1>1. EventsOf(<<>>) = {} /\ <<>> \in Seq(Events) /\ "none" \in Deadlines
  BY EmptySeq DEF EventsOf, Deadlines
<1>2. PICK w \in WaitRecords(Threads, Events) :
          w = NoWaits(Threads, Events) /\ ev.wait = w /\ ev.count = [e \in Events |-> 0]
  BY NoWaitsType DEF Init, QuietEvents
<1>3. ev \in EventRecords(Threads, Events)
  BY NoWaitsType, MaxCountAssumption DEF Init, QuietEvents, EventRecords
<1>4. /\ \A e \in Events : w.queue[e] = <<>>
      /\ DOMAIN w.queue = Events
      /\ \A t \in Threads : w.woken[t] = {}
  BY <1>2 DEF NoWaits
<1>5. OneNodeEach(w)
  BY <1>4, EmptySeq DEF OneNodeEach, NoTwice
<1>6. \A e \in Events, t \in Threads : ~Queued(w, e, t)
  BY <1>4, EmptyHasNobody
<1>7. TypeOK /\ WaitsAreOurs
  BY <1>1, <1>3 DEF Init, TypeOK, WaitsAreOurs
<1>8. NodesMatchWaits /\ FiredMeansAwake
  BY <1>1, <1>2, <1>4, <1>5, <1>6 DEF Init, NodesMatchWaits, FiredMeansAwake
<1>9. SignalsAreCovered
  BY <1>2, <1>6 DEF SignalsAreCovered
<1> QED
  BY <1>7, <1>8, <1>9 DEF IInv, Bookkeeping

\* A wait that comes back has its own events to look at.
LEMMA WaitIsKnown ==
    ASSUME Bookkeeping, NEW t \in Threads, Waiting(t)
    PROVE  waitsFor[t] \in WaitsOf[t] /\ deadline[t] \in Deadlines
BY DEF Bookkeeping, WaitsAreOurs, Waiting, TypeOK

\* Every step keeps the books, and the signals covered.
LEMMA StepIsSound ==
    ASSUME Bookkeeping, [Next]_vars
    PROVE  Bookkeeping' /\ (SignalsAreCovered => SignalsAreCovered')
<1>1. ASSUME NEW e \in Events, Signal(e)
      PROVE  Bookkeeping' /\ (SignalsAreCovered => SignalsAreCovered')
  BY <1>1, SignalKeepsAll
<1>2. ASSUME NEW t \in Threads, NEW s \in WaitsOf[t], NEW d \in Deadlines, WaitMany(t, s, d)
      PROVE  Bookkeeping' /\ (SignalsAreCovered => SignalsAreCovered')
  <2>1. HasLeft(t, ev.wait)
    BY <1>2, LeavesQueues DEF WaitMany
  <2>2. ev.wait.woken[t] = {}
    <3>1. EventsOf(<<>>) = {}
      BY EmptySeq DEF EventsOf
    <3> QED
      BY <1>2, <3>1 DEF WaitMany, Waiting, Bookkeeping, FiredMeansAwake
  <2> QED
    BY <1>2, <2>1, <2>2, WaitLoopKeepsBooks, WaitLoopIsCovered DEF WaitMany, IInv
<1>3. ASSUME NEW t \in Threads, WaitManyAgain(t)
      PROVE  Bookkeeping' /\ (SignalsAreCovered => SignalsAreCovered')
  <2>1. HasLeft(t, Leave(ev.wait, t))
    BY LeavesQueues
  <2>2. waitsFor[t] \in WaitsOf[t] /\ deadline[t] \in Deadlines
    BY <1>3, WaitIsKnown DEF WaitManyAgain
  <2>3. CASE WaitLoop(t, Leave(ev.wait, t), waitsFor[t], deadline[t])
    BY <1>3, <2>1, <2>2, <2>3, WaitLoopKeepsBooks, WaitLoopIsCovered DEF WaitManyAgain, IInv
  <2>4. CASE /\ ~Fired(ev.wait, t, killed) /\ ev' = [ev EXCEPT !.wait = Leave(@, t)] /\ Returned(t)
             /\ ComesBack(t, {})
    <3>1. /\ ev.count \in [Events -> 0..MaxCount] /\ MaxCount \in Nat
          /\ ev = [count |-> ev.count, wait |-> ev.wait]
      BY EventTypes, MaxCountAssumption DEF Bookkeeping
    <3>2. ev'.count = ev.count /\ ev'.wait = Leave(ev.wait, t)
          /\ ev' = [count |-> ev.count, wait |-> Leave(ev.wait, t)]
      BY <2>4, <3>1
    <3>3. ev' \in EventRecords(Threads, Events)
      BY <2>1, <3>1, <3>2, EventRecordType DEF HasLeft
    <3>4. Bookkeeping'
      BY <1>3, <2>1, <2>4, <3>2, <3>3, ReturnKeepsBooks DEF WaitManyAgain
    <3>5. \A e \in ev.wait.woken[t] \cap {} : ev'.count[e] <= ev.count[e] - 1
      OBVIOUS
    <3>6. \A e \in Events : ev'.count[e] <= ev.count[e]
      BY <3>1, <3>2
    <3>7. SignalsAreCovered => SignalsAreCovered'
      BY <2>1, <2>4, <3>1, <3>2, <3>5, <3>6, LeavingIsCovered DEF IInv
    <3> QED
      BY <3>4, <3>7
  <2> QED
    BY <1>3, <2>3, <2>4 DEF WaitManyAgain
<1>4. ASSUME NEW t \in Threads, NEW e \in Events, Poll(t, e)
      PROVE  Bookkeeping' /\ (SignalsAreCovered => SignalsAreCovered')
  <2>1. /\ ev.count \in [Events -> 0..MaxCount] /\ MaxCount \in Nat
        /\ ev.wait \in WaitRecords(Threads, Events)
    BY EventTypes, MaxCountAssumption DEF Bookkeeping
  <2>2. /\ ev' = [count |-> [ev.count EXCEPT ![e] = @ - 1], wait |-> ev.wait]
        /\ ev.count[e] > 0
    BY <1>4 DEF Poll, Consume
  <2>3. [ev.count EXCEPT ![e] = @ - 1] \in [Events -> 0..MaxCount]
    BY <2>1, <2>2
  <2>4. ev' \in EventRecords(Threads, Events) /\ ev'.wait = ev.wait
    BY <2>1, <2>2, <2>3, EventRecordType
  <2>5. Bookkeeping'
    BY <1>4, <2>4 DEF Poll, Bookkeeping, TypeOK, WaitsAreOurs, NodesMatchWaits, FiredMeansAwake
  <2>6. \A f \in Events : ev'.count[f] <= ev.count[f] /\ ev'.count[f] \in Nat /\ ev.count[f] \in Nat
    BY <2>1, <2>2
  <2>7. ASSUME SignalsAreCovered, NEW f \in Events, f \notin leftBehind', \E u \in Threads : Queued(ev'.wait, f, u)
        PROVE  ev'.count[f] <= Cardinality(WokenBy(f)')
    <3>1. WokenBy(f)' = WokenBy(f) /\ Cardinality(WokenBy(f)) \in Nat
      BY <2>4, WokenIsFinite DEF WokenBy
    <3>2. f \notin leftBehind => ev.count[f] <= Cardinality(WokenBy(f))
      BY <2>4, <2>7 DEF SignalsAreCovered
    <3>3. f \in leftBehind => ev'.count[f] = 0
      BY <1>4, <2>6, <2>7 DEF Poll
    <3> QED
      BY <2>6, <3>1, <3>2, <3>3
  <2> QED
    BY <2>5, <2>7 DEF SignalsAreCovered
<1>5. ASSUME NEW t \in Threads, Expire(t)
      PROVE  Bookkeeping' /\ (SignalsAreCovered => SignalsAreCovered')
  <2>1. deadline' \in [Threads -> Deadlines] /\ killed' \in SUBSET Killable
    BY <1>5 DEF Expire, Bookkeeping, TypeOK, Deadlines
  <2> QED
    BY <1>5, <2>1, UnblockKeepsBooks DEF Expire
<1>6. ASSUME NEW t \in Threads, Kill(t)
      PROVE  Bookkeeping' /\ (SignalsAreCovered => SignalsAreCovered')
  <2>1. deadline' \in [Threads -> Deadlines] /\ killed' \in SUBSET Killable
    BY <1>6 DEF Kill, Bookkeeping, TypeOK
  <2> QED
    BY <1>6, <2>1, UnblockKeepsBooks DEF Kill
<1>7. CASE UNCHANGED vars
  BY <1>7 DEF vars, Bookkeeping, TypeOK, WaitsAreOurs, NodesMatchWaits, FiredMeansAwake,
              SignalsAreCovered, WokenBy
<1> QED
  BY <1>1, <1>2, <1>3, <1>4, <1>5, <1>6, <1>7 DEF Next

\* Every variable keeps its type, and a thread has a waiter node on exactly the
\* events of its wait that have not fired for it (wait.zig:96-146), whatever
\* waits are made, whoever is killed.
THEOREM BookkeepingHolds == Spec => []Bookkeeping
<1>1. Init => Bookkeeping
  BY InitIsSound DEF IInv
<1>2. Bookkeeping /\ [Next]_vars => Bookkeeping'
  BY StepIsSound
<1> QED
  BY <1>1, <1>2, PTL DEF Spec

\* What is proved inductive: an event with a waiter on it, and not left behind by
\* a woken thread, holds no more signals than it has woken threads.
LEMMA IInvHolds == Spec => []IInv
<1>1. Init => IInv
  BY InitIsSound
<1>2. IInv /\ [Next]_vars => IInv'
  BY StepIsSound DEF IInv
<1> QED
  BY <1>1, <1>2, PTL DEF Spec

\* A signal never stays on an event beside a thread asleep for it unless a woken
\* thread is coming for it (event.zig:3-8, wait.zig:21-26) or one has come and
\* gone without it, whatever waits overlap and whoever is killed; and the count
\* stops at its limit (event.zig:52-54).
THEOREM NoLostWakeupHolds == Spec => []NoLostWakeup
<1>1. IInv => NoLostWakeup
  <2> SUFFICES ASSUME IInv, NEW t \in Threads, NEW e \in Events,
                      Asleep(t), e \in EventsOf(waitsFor[t]), e \notin leftBehind
               PROVE  ev.count[e] <= Cardinality(WokenBy(e))
    BY DEF NoLostWakeup, WokenBy, IInv, Bookkeeping
  <2>1. ev.wait.woken[t] = {}
    BY DEF IInv, Bookkeeping, FiredMeansAwake, Asleep
  <2>2. Queued(ev.wait, e, t)
    BY <2>1 DEF IInv, Bookkeeping, NodesMatchWaits
  <2> QED
    BY <2>2 DEF IInv, SignalsAreCovered
<1> QED
  BY <1>1, IInvHolds, PTL

-----------------------------------------------------------------------------
\* What TimeoutIsHonest says of one step.
HonestStep ==
    \A t \in Threads \ killed :
        Waiting(t) /\ waitsFor'[t] = <<>> /\ ev'.count = ev.count
            => \A e \in EventsOf(waitsFor[t]) \ leftBehind :
                   ev.count[e] <= Cardinality({u \in Threads \ {t} : e \in ev.wait.woken[u]})

\* Only a thread's own return ends its wait.
LEMMA OwnReturn ==
    ASSUME TypeOK, Next, NEW t \in Threads, Waiting(t), waitsFor'[t] = <<>>
    PROVE  WaitManyAgain(t)
<1>1. waitsFor[t] # <<>> /\ waitsFor \in [Threads -> Seq(Events)]
  BY DEF Waiting, TypeOK
<1>2. ASSUME NEW u \in Threads, NEW w, NEW s, NEW d, WaitLoop(u, w, s, d), u # t PROVE FALSE
  BY <1>1, <1>2 DEF WaitLoop, Returned
<1>3. ASSUME NEW e \in Events, Signal(e) PROVE FALSE
  BY <1>1, <1>3 DEF Signal
<1>4. ASSUME NEW u \in Threads, NEW s \in WaitsOf[u], NEW d \in Deadlines, WaitMany(u, s, d)
      PROVE  FALSE
  BY <1>2, <1>4 DEF WaitMany
<1>5. ASSUME NEW u \in Threads, WaitManyAgain(u), u # t PROVE FALSE
  BY <1>1, <1>2, <1>5 DEF WaitManyAgain, Returned
<1>6. ASSUME NEW u \in Threads, NEW e \in Events, Poll(u, e) PROVE FALSE
  BY <1>1, <1>6 DEF Poll
<1>7. ASSUME NEW u \in Threads, Expire(u) \/ Kill(u) PROVE FALSE
  BY <1>1, <1>7 DEF Expire, Kill
<1> QED
  BY <1>3, <1>4, <1>5, <1>6, <1>7 DEF Next

\* waitMany answers TimedOut to a thread nobody is ending only when every signal
\* its events hold is another woken thread's, or was left behind by one: a
\* deadline racing a signal is decided for the signal (event.zig:93-105,
\* wait.zig:138-146).
THEOREM TimeoutIsHonestHolds == Spec => TimeoutIsHonest
<1>1. IInv /\ [Next]_vars => [HonestStep]_vars
  <2> SUFFICES ASSUME IInv, Next, NEW t \in Threads \ killed,
                      Waiting(t), waitsFor'[t] = <<>>, ev'.count = ev.count,
                      NEW e \in EventsOf(waitsFor[t]) \ leftBehind
               PROVE  ev.count[e] <= Cardinality({u \in Threads \ {t} : e \in ev.wait.woken[u]})
    BY DEF HonestStep
  <2>1. /\ TypeOK /\ ev.count \in [Events -> 0..MaxCount] /\ MaxCount \in Nat
        /\ ev = [count |-> ev.count, wait |-> ev.wait] /\ ev.wait.woken \in [Threads -> SUBSET Events]
    BY EventTypes, MaxCountAssumption DEF IInv, Bookkeeping
  <2>2. WaitManyAgain(t)
    BY <2>1, OwnReturn
  <2>3. waitsFor[t] \in WaitsOf[t] /\ waitsFor[t] \in Seq(Events)
    BY <2>1, WaitIsKnown DEF IInv, TypeOK
  <2>4. e \in Events /\ ev.count[e] \in Nat
    BY <2>1, <2>3, ElementOfSeq DEF EventsOf
  <2>5. {u \in Threads \ {t} : e \in ev.wait.woken[u]} = WokenBy(e) \ {t}
    BY DEF WokenBy
  <2>6. Cardinality({u \in Threads \ {t} : e \in ev.wait.woken[u]}) \in Nat
    BY <2>5, WokenIsFinite, FS_RemoveElement, FS_CardinalityType
  <2>7. CASE Fired(ev.wait, t, killed)
    <3>1. ~AnySignalled(waitsFor[t])
      <4> SUFFICES ASSUME AnySignalled(waitsFor[t]) PROVE FALSE
        OBVIOUS
      <4>1. PICK f \in Events : f = waitsFor[t][FirstSignalled(waitsFor[t])] /\ ev.count[f] > 0
        BY <2>1, <2>3, FirstSignalledIsOne, ElementOfSeq
      <4>2. ev' = Consume([ev EXCEPT !.wait = Leave(ev.wait, t)], f)
        BY <2>2, <2>7, <4>1 DEF WaitManyAgain, WaitLoop
      <4>3. ev'.count = [ev.count EXCEPT ![f] = @ - 1]
        BY <2>1, <4>2 DEF Consume
      <4> QED
        BY <2>1, <4>1, <4>3
    <3>2. ev.count[e] = 0
      BY <2>4, <3>1 DEF AnySignalled, EventsOf
    <3> QED
      BY <2>6, <3>2
  <2>8. CASE ~Fired(ev.wait, t, killed)
    <3>1. ev.wait.woken[t] = {}
      BY <2>8 DEF Fired
    <3>2. Queued(ev.wait, e, t)
      BY <2>4, <3>1 DEF IInv, Bookkeeping, NodesMatchWaits
    <3>3. WokenBy(e) \ {t} = WokenBy(e)
      BY <3>1 DEF WokenBy
    <3> QED
      BY <2>4, <2>5, <3>2, <3>3 DEF IInv, SignalsAreCovered
  <2> QED
    BY <2>7, <2>8
<1> QED
  BY <1>1, IInvHolds, PTL DEF Spec, TimeoutIsHonest, HonestStep

==============================================================================
