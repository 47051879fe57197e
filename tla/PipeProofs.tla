------------------------------ MODULE PipeProofs ------------------------------
(***************************************************************************)
(* Pipe for any capacity, any bytes and any number of readers and writers: *)
(* the ring implements the byte stream, and no end is left asleep.         *)
(***************************************************************************)
EXTENDS Pipe, WaitQueueProofs, FiniteSetTheorems

\* A place at most one lap past the ring comes round once.
LEMMA Wraps ==
    ASSUME NEW x \in 0..(2 * Capacity - 1)
    PROVE  x % Capacity = IF x < Capacity THEN x ELSE x - Capacity
<1>1. Capacity \in Nat \ {0} /\ x \in Nat
  BY PipeAssumption
<1>2. CASE x < Capacity
  BY <1>1, <1>2
<1>3. CASE ~(x < Capacity)
  BY <1>1, <1>3
<1> QED
  BY <1>2, <1>3

-----------------------------------------------------------------------------
(* The ring is the byte stream. *)

\* n bytes of the ring b from its place h on.
RingContent(b, h, n) == [i \in 1..n |-> b[(h + i - 1) % Capacity]]

Rings == [0..(Capacity - 1) -> Bytes]
Places == 0..(Capacity - 1)

\* The place i further on from h, less than a lap away.
Ahead(h, i) == IF h + i < Capacity THEN h + i ELSE h + i - Capacity

LEMMA AheadIsPlace ==
    ASSUME NEW h \in Places, NEW i \in 0..Capacity
    PROVE  (h + i) % Capacity = Ahead(h, i) /\ Ahead(h, i) \in Places
<1>1. Capacity \in Nat \ {0} /\ h \in Nat /\ i \in Nat /\ h < Capacity /\ i <= Capacity
  BY PipeAssumption DEF Places
<1>2. PICK x \in 0..(2 * Capacity - 1) : x = h + i
  BY <1>1
<1>3. x % Capacity = IF x < Capacity THEN x ELSE x - Capacity
  BY Wraps
<1> QED
  BY <1>1, <1>2, <1>3 DEF Ahead, Places

\* The bytes in the ring are a stream no longer than it.
LEMMA ContentType ==
    ASSUME NEW b \in Rings, NEW h \in Places, NEW n \in 0..Capacity
    PROVE  /\ RingContent(b, h, n) \in Seq(Bytes) /\ Len(RingContent(b, h, n)) = n
           /\ RingContent(b, h, n) \in [1..n -> Bytes]
           /\ \A i \in 1..n : RingContent(b, h, n)[i] = b[Ahead(h, i - 1)]
<1>1. Capacity \in Nat \ {0} /\ n \in Nat /\ h \in Nat
  BY PipeAssumption DEF Places
<1>2. ASSUME NEW i \in 1..n
      PROVE  (h + i - 1) % Capacity = Ahead(h, i - 1) /\ Ahead(h, i - 1) \in Places
  <2>1. i - 1 \in 0..Capacity /\ h + i - 1 = h + (i - 1)
    BY <1>1
  <2> QED
    BY <2>1, AheadIsPlace
<1>3. \A i \in 1..n : b[Ahead(h, i - 1)] \in Bytes
  BY <1>2 DEF Places, Rings
<1>4. RingContent(b, h, n) \in [1..n -> Bytes]
  BY <1>2, <1>3 DEF RingContent
<1>5. RingContent(b, h, n) \in Seq(Bytes) /\ Len(RingContent(b, h, n)) = n
  BY <1>1, <1>4
<1>6. \A i \in 1..n : RingContent(b, h, n)[i] = b[Ahead(h, i - 1)]
  BY <1>2 DEF RingContent
<1> QED
  BY <1>4, <1>5, <1>6

\* read's copy takes the oldest bytes, over the edge of the ring or not.
LEMMA TakenContent ==
    ASSUME NEW b \in Rings, NEW h \in Places, NEW m \in 0..Capacity, NEW n \in 0..m
    PROVE  /\ (h + n) % Capacity \in Places
           /\ RingContent(b, (h + n) % Capacity, m - n) = SubSeq(RingContent(b, h, m), n + 1, m)
<1>1. Capacity \in Nat \ {0} /\ h \in Nat /\ m \in Nat /\ n \in Nat /\ n <= m /\ h < Capacity
      /\ m <= Capacity
  BY PipeAssumption DEF Places
<1>2. PICK g \in Places : g = (h + n) % Capacity /\ g = Ahead(h, n)
  <2>1. n \in 0..Capacity
    BY <1>1
  <2> QED
    BY <2>1, AheadIsPlace
<1>3. PICK c : c = RingContent(b, h, m)
  OBVIOUS
<1>4. /\ \A i \in 1..m : c[i] = b[Ahead(h, i - 1)] /\ c[i] \in Bytes
  BY <1>3, ContentType
<1>5. PICK d : d = RingContent(b, g, m - n)
  OBVIOUS
<1>6. d \in Seq(Bytes) /\ Len(d) = m - n /\ \A i \in 1..(m - n) : d[i] = b[Ahead(g, i - 1)]
  <2>1. m - n \in 0..Capacity
    BY <1>1
  <2> QED
    BY <1>5, <2>1, ContentType
<1>7. PICK r : r = SubSeq(c, n + 1, m)
  OBVIOUS
<1>8. r \in Seq(Bytes) /\ Len(r) = m - n /\ \A i \in 1..(m - n) : r[i] = c[n + i]
  <2>1. n + 1 \in Int /\ m \in Int /\ \A i \in (n + 1)..m : c[i] \in Bytes
    BY <1>1, <1>4
  <2>2. /\ r \in Seq(Bytes)
        /\ Len(r) = IF n + 1 <= m THEN m - (n + 1) + 1 ELSE 0
        /\ \A i \in 1..(m - (n + 1) + 1) : r[i] = c[n + 1 + i - 1]
    BY <1>7, <2>1, SubSeqProperties
  <2> QED
    BY <1>1, <2>2
<1>9. ASSUME NEW i \in 1..(m - n) PROVE d[i] = r[i]
  <2>1. n + i \in 1..m
    BY <1>1
  <2>2. r[i] = b[Ahead(h, (n + i) - 1)] /\ d[i] = b[Ahead(g, i - 1)]
    BY <1>4, <1>6, <1>8, <2>1
  <2>3. Ahead(h, (n + i) - 1) = Ahead(g, i - 1)
    BY <1>1, <1>2 DEF Ahead
  <2> QED
    BY <2>2, <2>3
<1>10. d = r
  BY <1>6, <1>8, <1>9, SeqEqual
<1> QED
  BY <1>2, <1>3, <1>5, <1>7, <1>10

\* The ring after write's copy of s behind its n bytes.
Filled(b, h, n, s) ==
    [i \in DOMAIN b |->
        LET at == (i + Capacity - ((h + n) % Capacity)) % Capacity
        IN  IF at < Len(s) THEN s[at + 1] ELSE b[i]]

\* write's copy adds the bytes behind the newest and leaves the others alone.
LEMMA FilledContent ==
    ASSUME NEW b \in Rings, NEW h \in Places, NEW n \in 0..Capacity,
           NEW s \in Seq(Bytes), Len(s) <= Capacity - n
    PROVE  /\ Filled(b, h, n, s) \in Rings /\ n + Len(s) \in 0..Capacity
           /\ RingContent(Filled(b, h, n, s), h, n + Len(s)) = RingContent(b, h, n) \o s
<1>1. Capacity \in Nat \ {0} /\ h \in Nat /\ n \in Nat /\ h < Capacity /\ n <= Capacity
      /\ Len(s) \in Nat /\ n + Len(s) \in 0..Capacity /\ DOMAIN b = Places
  BY PipeAssumption, LenProperties DEF Places, Rings
<1>2. PICK g \in Places : g = (h + n) % Capacity /\ g = Ahead(h, n)
  BY AheadIsPlace
<1>3. \A i \in 1..Len(s) : s[i] \in Bytes
  BY ElementOfSeq
\* How far place i is ahead of the first free one.
<1> DEFINE At(i) == IF i < g THEN i + Capacity - g ELSE i - g
<1>4. ASSUME NEW i \in Places
      PROVE  (i + Capacity - g) % Capacity = At(i)
  <2>1. PICK x \in 0..(2 * Capacity - 1) : x = i + Capacity - g
    BY <1>1 DEF Places
  <2>2. x % Capacity = IF x < Capacity THEN x ELSE x - Capacity
    BY Wraps
  <2> QED
    BY <1>1, <2>1, <2>2 DEF Places
<1>5. PICK f : f = Filled(b, h, n, s)
  OBVIOUS
<1>6. /\ DOMAIN f = Places
      /\ \A i \in Places : f[i] = IF At(i) < Len(s) THEN s[At(i) + 1] ELSE b[i]
  BY <1>1, <1>2, <1>4, <1>5 DEF Filled
<1>7. f \in Rings
  <2>1. ASSUME NEW i \in Places PROVE f[i] \in Bytes
    <3>1. At(i) \in Nat
      BY <1>1 DEF Places
    <3>2. CASE At(i) < Len(s)
      <4>1. At(i) + 1 \in 1..Len(s)
        BY <1>1, <3>1, <3>2
      <4> QED
        BY <1>3, <1>6, <3>2, <4>1
    <3>3. CASE ~(At(i) < Len(s))
      BY <1>6, <3>3 DEF Rings, Places
    <3> QED
      BY <3>2, <3>3
  <2>2. f = [i \in Places |-> f[i]]
    BY <1>5, <1>1 DEF Filled
  <2> QED
    BY <2>1, <2>2 DEF Rings, Places
<1>8. PICK c \in Seq(Bytes) : c = RingContent(b, h, n)
  BY ContentType
<1>9. Len(c) = n /\ \A i \in 1..n : c[i] = b[Ahead(h, i - 1)]
  BY <1>8, ContentType
<1>10. PICK d \in Seq(Bytes) : d = RingContent(f, h, n + Len(s))
  BY <1>1, <1>7, ContentType
<1>11. Len(d) = n + Len(s) /\ \A i \in 1..(n + Len(s)) : d[i] = f[Ahead(h, i - 1)]
  BY <1>1, <1>7, <1>10, ContentType
<1>12. /\ c \o s \in Seq(Bytes) /\ Len(c \o s) = n + Len(s)
       /\ \A i \in 1..(n + Len(s)) : (c \o s)[i] = IF i <= n THEN c[i] ELSE s[i - n]
  BY <1>9, ConcatProperties
<1>13. ASSUME NEW i \in 1..(n + Len(s)) PROVE d[i] = (c \o s)[i]
  <2>1. i - 1 \in 0..Capacity /\ i \in Nat
    BY <1>1
  <2>2. PICK j \in Places : j = Ahead(h, i - 1)
    BY <2>1, AheadIsPlace
  <2>3. CASE i <= n
    <3>1. ~(At(j) < Len(s))
      BY <1>1, <1>2, <2>1, <2>2, <2>3 DEF Ahead, Places
    <3>2. i \in 1..n
      BY <2>1, <2>3
    <3> QED
      BY <1>6, <1>9, <1>11, <1>12, <2>2, <2>3, <3>1, <3>2
  <2>4. CASE ~(i <= n)
    <3>1. At(j) = i - n - 1 /\ At(j) < Len(s)
      <4>1. i - n - 1 \in Nat /\ i - n - 1 < Len(s) /\ i - 1 < Capacity
        BY <1>1, <2>1, <2>4
      <4>2. CASE h + n < Capacity
        BY <1>1, <1>2, <2>1, <2>2, <4>1, <4>2 DEF Ahead, Places
      <4>3. CASE ~(h + n < Capacity)
        BY <1>1, <1>2, <2>1, <2>2, <4>1, <4>3 DEF Ahead, Places
      <4> QED
        BY <4>2, <4>3
    <3>2. d[i] = s[At(j) + 1] /\ At(j) + 1 = i - n
      BY <1>1, <1>6, <1>11, <2>1, <2>2, <3>1
    <3> QED
      BY <1>12, <2>4, <3>2
  <2> QED
    BY <2>3, <2>4
<1>14. d = c \o s
  BY <1>11, <1>12, <1>13, SeqEqual
<1> QED
  BY <1>1, <1>5, <1>7, <1>8, <1>10, <1>14

-----------------------------------------------------------------------------
(* The types. *)

IsCall(c) == c \in Calls \/ (c.call = "write" /\ c.rest \in Seq(Bytes))

\* What a call may be, and what it carries.
LEMMA CallFacts ==
    /\ IsCall(Idle) /\ IsCall(Due) /\ IsCall(Over) /\ IsCall(Await)
    /\ \A n \in 1..MaxRead : IsCall(Reading(n))
    /\ \A s \in Seq(Bytes) : IsCall(Writing(s))
    /\ \A c : IsCall(c) /\ c.call = "read" => c.size \in 1..MaxRead
    /\ \A c : IsCall(c) /\ c.call = "write" => c.rest \in Seq(Bytes)
<1> USE DEF IsCall, Calls, Idle, Due, Over, Await, Reading, Writing
<1>1. IsCall(Idle) /\ IsCall(Due) /\ IsCall(Over) /\ IsCall(Await)
  OBVIOUS
<1>2. \A n \in 1..MaxRead : IsCall(Reading(n))
  OBVIOUS
<1>3. \A s \in Seq(Bytes) : IsCall(Writing(s))
  OBVIOUS
<1>4. \A c : IsCall(c) /\ c.call = "read" => c.size \in 1..MaxRead
  OBVIOUS
<1>5. \A c : IsCall(c) /\ c.call = "write" => c.rest \in Seq(Bytes)
  OBVIOUS
<1> QED
  BY <1>1, <1>2, <1>3, <1>4, <1>5

EventsType(e) == e \in EventRecords(Threads, Ends)

\* rearm keeps the events events.
LEMMA RearmType ==
    ASSUME NEW e, EventsType(e), NEW n, NEW o
    PROVE  EventsType(Rearm(e, n, o))
<1>1. ASSUME NEW x, EventsType(x), NEW name \in Ends, NEW on \in BOOLEAN
      PROVE  EventsType(Level(x, name, on))
  <2>1. /\ x.count \in [Ends -> 0..MaxCount] /\ x.wait \in WaitRecords(Threads, Ends)
        /\ MaxCount \in Nat \ {0}
    BY <1>1, MaxCountAssumption DEF EventsType, EventRecords
  <2>2. WakeOne(x.wait, name) \in WaitRecords(Threads, Ends)
    BY <2>1, WakeOneType
  <2>3. EventsType(SignalLocked(x, name))
    BY <2>1, <2>2 DEF SignalLocked, EventsType, EventRecords
  <2>4. EventsType([count |-> [x.count EXCEPT ![name] = 0], wait |-> x.wait])
    BY <2>1 DEF EventsType, EventRecords
  <2> QED
    BY <1>1, <2>3, <2>4 DEF Level
<1>2. "readable" \in Ends /\ "writable" \in Ends
  BY DEF Ends
<1>3. PICK r \in BOOLEAN, w \in BOOLEAN : r = ReadableNow(n, o) /\ w = WritableNow(n, o)
  BY DEF ReadableNow, WritableNow
<1>4. EventsType(Level(e, "readable", r))
  BY <1>1, <1>2
<1>5. EventsType(Level(Level(e, "readable", r), "writable", w))
  BY <1>1, <1>2, <1>4
<1> QED
  BY <1>3, <1>5 DEF Rearm

\* What a step may do to the ring.
RingStep ==
    \/ UNCHANGED ring
    \/ \E n \in 1..len : TakeFromRing(n)
    \/ \E s \in Seq(Bytes) : Len(s) <= Capacity - len /\ PutInRing(s)

\* What a call of t may do to the calls.
CallStep(t) == \E c : IsCall(c) /\ op' = [op EXCEPT ![t] = c]

\* Going to sleep, or not, in a call.
LEMMA SleepType ==
    ASSUME NEW t \in Threads, NEW e, EventsType(e), NEW c, IsCall(c), Sleep(t, e, c)
    PROVE  EventsType(ev') /\ CallStep(t)
<1>1. e.wait \in WaitRecords(Threads, Ends) /\ e.count \in [Ends -> 0..MaxCount]
  BY DEF EventsType, EventRecords
<1>2. Block(e.wait, t, {EndOf(t)}, FALSE) \in WaitRecords(Threads, Ends)
  BY <1>1, BlockType
<1>3. EventsType(BlockOn(e, t, {EndOf(t)}, FALSE))
  BY <1>1, <1>2 DEF BlockOn, EventsType, EventRecords
<1> QED
  BY <1>3, CallFacts DEF Sleep, CallStep

\* The loop of read.
LEMMA ReadLoopType ==
    ASSUME TypeOK, NEW t \in Threads, NEW e, EventsType(e), NEW n \in 1..MaxRead, ReadLoop(t, e, n)
    PROVE  EventsType(ev') /\ CallStep(t) /\ RingStep
<1>1. CASE /\ len > 0 /\ TakeFromRing(Least(n, len))
           /\ ev' = Rearm(e, len - Least(n, len), open) /\ Answer(t, Idle)
  <2>1. Least(n, len) \in 1..len
    BY <1>1, PipeAssumption DEF TypeOK, Least
  <2> QED
    BY <1>1, <2>1, RearmType, CallFacts DEF Answer, CallStep, RingStep
<1>2. CASE ev' = e /\ Answer(t, Over) /\ UNCHANGED ring
  BY <1>2, CallFacts DEF Answer, CallStep, RingStep
<1>3. CASE Sleep(t, e, Reading(n)) /\ UNCHANGED ring
  BY <1>3, SleepType, CallFacts DEF RingStep
<1> QED
  BY <1>1, <1>2, <1>3 DEF ReadLoop

\* The loop of write.
LEMMA WriteLoopType ==
    ASSUME TypeOK, NEW t \in Threads, NEW e, EventsType(e), NEW s \in Seq(Bytes), WriteLoop(t, e, s)
    PROVE  EventsType(ev') /\ CallStep(t) /\ RingStep
<1>1. CASE ev' = e /\ Answer(t, Over) /\ UNCHANGED ring
  BY <1>1, CallFacts DEF Answer, CallStep, RingStep
<1>2. CASE Sleep(t, e, Writing(s)) /\ UNCHANGED ring
  BY <1>2, SleepType, CallFacts DEF RingStep
<1>3. ASSUME len < Capacity, NEW n, n = Least(Len(s), Capacity - len),
             PutInRing(SubSeq(s, 1, n)),
             \/ Answer(t, Idle) /\ ev' = Rearm(e, len + n, open)
             \/ Sleep(t, Rearm(e, len + n, open), Writing(SubSeq(s, n + 1, Len(s))))
      PROVE  EventsType(ev') /\ CallStep(t) /\ RingStep
  <2>1. n \in Nat /\ n <= Len(s) /\ n <= Capacity - len /\ Len(s) \in Nat
    BY <1>3, PipeAssumption, LenProperties DEF TypeOK, Least
  <2>2. \A i \in 1..Len(s) : s[i] \in Bytes
    BY ElementOfSeq
  <2>3. SubSeq(s, 1, n) \in Seq(Bytes) /\ Len(SubSeq(s, 1, n)) = n
    <3>1. 1 \in Int /\ n \in Int /\ \A i \in 1..n : s[i] \in Bytes
      BY <2>1, <2>2
    <3>2. SubSeq(s, 1, n) \in Seq(Bytes) /\ Len(SubSeq(s, 1, n)) = IF 1 <= n THEN n - 1 + 1 ELSE 0
      BY <3>1, SubSeqProperties
    <3> QED
      BY <2>1, <3>2
  <2>4. SubSeq(s, n + 1, Len(s)) \in Seq(Bytes)
    <3>1. n + 1 \in Int /\ Len(s) \in Int /\ \A i \in (n + 1)..Len(s) : s[i] \in Bytes
      BY <2>1, <2>2
    <3> QED
      BY <3>1, SubSeqProperties
  <2>5. RingStep
    BY <1>3, <2>1, <2>3 DEF RingStep
  <2>6. EventsType(Rearm(e, len + n, open))
    BY RearmType
  <2>7. IsCall(Writing(SubSeq(s, n + 1, Len(s))))
    BY <2>4, CallFacts
  <2>8. CASE Answer(t, Idle) /\ ev' = Rearm(e, len + n, open)
    BY <2>5, <2>6, <2>8, CallFacts DEF Answer, CallStep
  <2>9. CASE Sleep(t, Rearm(e, len + n, open), Writing(SubSeq(s, n + 1, Len(s))))
    BY <2>5, <2>6, <2>7, <2>9, SleepType
  <2> QED
    BY <1>3, <2>8, <2>9
<1> QED
  BY <1>1, <1>2, <1>3 DEF WriteLoop

\* waitMany on an end.
LEMMA AwaitLoopType ==
    ASSUME NEW t \in Threads, NEW e, EventsType(e), AwaitLoop(t, e)
    PROVE  EventsType(ev') /\ CallStep(t) /\ RingStep
<1>1. /\ e.wait \in WaitRecords(Threads, Ends) /\ e.count \in [Ends -> 0..MaxCount]
      /\ MaxCount \in Nat /\ EndOf(t) \in Ends
  BY MaxCountAssumption DEF EventsType, EventRecords, EndOf, Ends
<1>2. ASSUME e.count[EndOf(t)] > 0 PROVE EventsType(Consume(e, EndOf(t)))
  BY <1>1, <1>2 DEF Consume, EventsType, EventRecords
<1> QED
  BY <1>2, SleepType, CallFacts DEF AwaitLoop, CallStep, RingStep

\* Coming back from blockOn keeps the events events.
LEMMA LeftType ==
    ASSUME EventsType(ev), NEW t \in Threads
    PROVE  /\ EventsType([ev EXCEPT !.wait = Leave(@, t)])
           /\ EventsType([ev EXCEPT !.wait = Unblock(@, t)])
           /\ [ev EXCEPT !.wait = Leave(@, t)] = [count |-> ev.count, wait |-> Leave(ev.wait, t)]
           /\ [ev EXCEPT !.wait = Unblock(@, t)] = [count |-> ev.count, wait |-> Unblock(ev.wait, t)]
<1>1. /\ ev.wait \in WaitRecords(Threads, Ends) /\ ev.count \in [Ends -> 0..MaxCount]
      /\ ev = [count |-> ev.count, wait |-> ev.wait]
  BY DEF EventsType, EventRecords
<1>2. Leave(ev.wait, t) \in WaitRecords(Threads, Ends) /\ Unblock(ev.wait, t) \in WaitRecords(Threads, Ends)
  BY <1>1, LeaveType, UnblockType
<1>3. /\ [ev EXCEPT !.wait = Leave(@, t)] = [count |-> ev.count, wait |-> Leave(ev.wait, t)]
      /\ [ev EXCEPT !.wait = Unblock(@, t)] = [count |-> ev.count, wait |-> Unblock(ev.wait, t)]
  BY <1>1
<1> QED
  BY <1>1, <1>2, <1>3 DEF EventsType, EventRecords

\* A ring of its type stays one.
LEMMA RingStepType ==
    ASSUME buf \in Rings, head \in Places, len \in 0..Capacity, RingStep
    PROVE  /\ buf' \in Rings /\ head' \in Places /\ len' \in 0..Capacity
           /\ \/ Content' = Content
              \/ \E n \in 1..len : Content' = SubSeq(Content, n + 1, len)
              \/ \E s \in Seq(Bytes) : Len(s) <= Capacity - len /\ Content' = Content \o s
<1>1. /\ Content = RingContent(buf, head, len) /\ Content' = RingContent(buf', head', len')
      /\ Capacity \in Nat /\ len \in Nat
  BY PipeAssumption DEF Content, RingContent
<1>2. CASE UNCHANGED ring
  BY <1>1, <1>2 DEF ring
<1>3. ASSUME NEW n \in 1..len, TakeFromRing(n)
      PROVE  /\ buf' \in Rings /\ head' \in Places /\ len' \in 0..Capacity
             /\ Content' = SubSeq(Content, n + 1, len)
  <2>1. n \in 0..len /\ len - n \in 0..Capacity
    BY <1>1
  <2>2. /\ (head + n) % Capacity \in Places
        /\ RingContent(buf, (head + n) % Capacity, len - n)
             = SubSeq(RingContent(buf, head, len), n + 1, len)
    BY <2>1, TakenContent
  <2> QED
    BY <1>1, <1>3, <2>1, <2>2 DEF TakeFromRing
<1>4. ASSUME NEW s \in Seq(Bytes), Len(s) <= Capacity - len, PutInRing(s)
      PROVE  /\ buf' \in Rings /\ head' \in Places /\ len' \in 0..Capacity
             /\ Content' = Content \o s
  <2>1. buf' = Filled(buf, head, len, s) /\ len' = len + Len(s) /\ head' = head
    BY <1>4 DEF PutInRing, Filled
  <2> QED
    BY <1>1, <1>4, <2>1, FilledContent
<1> QED
  BY <1>2, <1>3, <1>4 DEF RingStep

\* Every step keeps the types and does one of three things to the ring.
LEMMA StepType ==
    ASSUME TypeOK, [Next]_vars
    PROVE  TypeOK' /\ RingStep
<1>1. /\ EventsType(ev) /\ DOMAIN op = Threads /\ \A t \in Threads : IsCall(op[t])
      /\ buf \in Rings /\ head \in Places /\ len \in 0..Capacity
      /\ open \subseteq Threads /\ killed \subseteq Killable /\ Killable \subseteq Threads
  BY PipeAssumption DEF TypeOK, IsCall, Rings, Places, EventsType
<1>2. ASSUME RingStep, EventsType(ev'), DOMAIN op' = Threads, \A t \in Threads : IsCall(op'[t]),
             open' \subseteq Threads, killed' \subseteq Killable
      PROVE  TypeOK' /\ RingStep
  <2>1. buf' \in Rings /\ head' \in Places /\ len' \in 0..Capacity
    BY <1>1, <1>2, RingStepType
  <2> QED
    BY <1>2, <2>1 DEF TypeOK, IsCall, Rings, Places, EventsType
<1>3. ASSUME NEW t \in Threads, CallStep(t)
      PROVE  DOMAIN op' = Threads /\ \A u \in Threads : IsCall(op'[u])
  BY <1>1, <1>3 DEF CallStep
<1>4. ASSUME NEW t \in Threads, NEW n \in 1..MaxRead, Read(t, n) PROVE TypeOK' /\ RingStep
  BY <1>1, <1>2, <1>3, <1>4, ReadLoopType DEF Read
<1>5. ASSUME NEW t \in Threads, NEW s \in Messages, Write(t, s) PROVE TypeOK' /\ RingStep
  <2>1. s \in Seq(Bytes)
    BY PipeAssumption
  <2> QED
    BY <1>1, <1>2, <1>3, <1>5, <2>1, WriteLoopType DEF Write
<1>6. ASSUME NEW t \in Threads, WaitMany(t) PROVE TypeOK' /\ RingStep
  BY <1>1, <1>2, <1>3, <1>6, AwaitLoopType DEF WaitMany
<1>7. ASSUME NEW t \in Threads, Again(t) PROVE TypeOK' /\ RingStep
  <2>1. PICK e : e = [ev EXCEPT !.wait = Leave(@, t)] /\ EventsType(e)
    BY <1>1, LeftType
  <2>2. CASE ev' = e /\ Answer(t, Over) /\ UNCHANGED ring
    <3>1. CallStep(t) /\ RingStep
      BY <2>2, CallFacts DEF Answer, CallStep, RingStep
    <3> QED
      BY <1>1, <1>2, <1>3, <1>7, <2>1, <2>2, <3>1 DEF Again
  <2>3. CASE op[t].call = "read" /\ ReadLoop(t, e, op[t].size)
    <3>1. op[t].size \in 1..MaxRead
      BY <1>1, <2>3, CallFacts
    <3> QED
      BY <1>1, <1>2, <1>3, <1>7, <2>1, <2>3, <3>1, ReadLoopType DEF Again
  <2>4. CASE op[t].call = "write" /\ WriteLoop(t, e, op[t].rest)
    <3>1. op[t].rest \in Seq(Bytes)
      BY <1>1, <2>4, CallFacts
    <3> QED
      BY <1>1, <1>2, <1>3, <1>7, <2>1, <2>4, <3>1, WriteLoopType DEF Again
  <2>5. CASE AwaitLoop(t, e)
    BY <1>1, <1>2, <1>3, <1>7, <2>1, <2>5, AwaitLoopType DEF Again
  <2> QED
    BY <1>7, <2>1, <2>2, <2>3, <2>4, <2>5 DEF Again
<1>8. ASSUME NEW t \in Threads, NEW u \in Threads, Retain(t, u) PROVE TypeOK' /\ RingStep
  BY <1>1, <1>2, <1>8, RearmType DEF Retain, RingStep
<1>9. ASSUME NEW t \in Threads, Release(t) PROVE TypeOK' /\ RingStep
  <2>1. PICK e : e = Rearm(ev, len, open') /\ EventsType(e)
    BY <1>1, RearmType
  <2>2. PICK x : x = WakeEach(e.wait, Ends)
    OBVIOUS
  <2>3. ev' = [count |-> e.count, wait |-> x]
    BY <1>9, <2>1, <2>2 DEF Release, EventsType, EventRecords
  <2>4. x \in WaitRecords(Threads, Ends)
    BY <2>1, <2>2, WakeEachType DEF EventsType, EventRecords
  <2>5. EventsType(ev')
    BY <2>1, <2>3, <2>4 DEF EventsType, EventRecords
  <2>6. CallStep(t) /\ RingStep
    BY <1>9, CallFacts DEF Release, CallStep, RingStep
  <2> QED
    BY <1>1, <1>2, <1>3, <1>9, <2>5, <2>6 DEF Release
<1>10. ASSUME NEW t \in Threads, Kill(t) PROVE TypeOK' /\ RingStep
  BY <1>1, <1>2, <1>10, LeftType DEF Kill, RingStep
<1>11. CASE UNCHANGED vars
  <2>1. RingStep
    BY <1>11 DEF vars, ring, RingStep
  <2> QED
    BY <1>1, <1>2, <1>11, <2>1 DEF vars
<1> QED
  BY <1>4, <1>5, <1>6, <1>7, <1>8, <1>9, <1>10, <1>11 DEF Next

\* create makes a pipe of its type.
LEMMA InitType == Init => TypeOK
<1> SUFFICES ASSUME Init PROVE TypeOK
  OBVIOUS
<1>1. Capacity \in Nat \ {0} /\ FirstReader \in Threads /\ FirstWriter \in Threads
  BY PipeAssumption DEF Threads
<1>2. buf \in Rings /\ head \in Places /\ len \in 0..Capacity
  BY <1>1, PipeAssumption DEF Init, Rings, Places
<1>3. EventsType(QuietEvents(Threads, Ends))
  BY NoWaitsType, MaxCountAssumption DEF QuietEvents, EventsType, EventRecords
<1>4. EventsType(ev)
  BY <1>3, RearmType DEF Init
<1>5. DOMAIN op = Threads /\ \A t \in Threads : IsCall(op[t])
  BY CallFacts DEF Init
<1> QED
  BY <1>1, <1>2, <1>4, <1>5 DEF Init, TypeOK, EventsType, IsCall, Rings, Places

\* The ring's places stay inside it, whatever the sizes of reads and writes, and
\* every other variable keeps its type (pipe.zig:75-124).
THEOREM TypeCorrect == Spec => []TypeOK
<1>1. TypeOK /\ [Next]_vars => TypeOK'
  BY StepType
<1> QED
  BY <1>1, InitType, PTL DEF Spec

\* However reads and writes wrap around the ring, block, resume and are cut
\* short, the pipe is a bounded first-in first-out stream (pipe.zig:75-124).
THEOREM ImplementsByteStreamHolds == Spec => ImplementsByteStream
<1>1. Init => Stream!Init
  <2> SUFFICES ASSUME Init PROVE Content = <<>>
    BY DEF Stream!Init
  <2>1. buf \in Rings /\ head \in Places /\ len = 0 /\ 0 \in 0..Capacity
    BY InitType, PipeAssumption DEF Init, TypeOK, Rings, Places
  <2>2. Content = RingContent(buf, head, 0)
    BY <2>1 DEF Content, RingContent
  <2>3. Content \in Seq(Bytes) /\ Len(Content) = 0
    BY <2>1, <2>2, ContentType
  <2> QED
    BY <2>3, EmptySeq
<1>2. TypeOK /\ [Next]_vars => [Stream!Next]_Content
  <2> SUFFICES ASSUME TypeOK, [Next]_vars PROVE [Stream!Next]_Content
    OBVIOUS
  <2>1. buf \in Rings /\ head \in Places /\ len \in 0..Capacity /\ Capacity \in Nat \ {0}
    BY PipeAssumption DEF TypeOK, Rings, Places
  <2>2. /\ \/ Content' = Content
           \/ \E n \in 1..len : Content' = SubSeq(Content, n + 1, len)
           \/ \E s \in Seq(Bytes) : Len(s) <= Capacity - len /\ Content' = Content \o s
    BY <2>1, StepType, RingStepType
  <2>3. Content \in Seq(Bytes) /\ Len(Content) = len
    <3>1. Content = RingContent(buf, head, len)
      BY DEF Content, RingContent
    <3> QED
      BY <2>1, <3>1, ContentType
  <2>4. ASSUME NEW n \in 1..len, Content' = SubSeq(Content, n + 1, len)
        PROVE  Stream!Take
    BY <2>3, <2>4 DEF Stream!Take
  <2>5. ASSUME NEW s \in Seq(Bytes), Len(s) <= Capacity - len, Content' = Content \o s
        PROVE  [Stream!Put]_Content
    <3>1. PICK c, d : c = Content /\ d = Content'
      OBVIOUS
    <3>2. /\ c \in Seq(Bytes) /\ Len(c) = len /\ d = c \o s
          /\ d \in Seq(Bytes) /\ Len(d) = len + Len(s)
          /\ \A i \in 1..(len + Len(s)) : d[i] = IF i <= len THEN c[i] ELSE s[i - len]
      BY <2>3, <2>5, <3>1, ConcatProperties
    <3>3. Len(s) \in Nat /\ len \in Nat /\ Len(d) <= Capacity
      BY <2>1, <2>5, <3>2, LenProperties
    <3>4. d \in Stream!BoundedSeq(Bytes, Capacity)
      <4>1. d \in [1..Len(d) -> Bytes] /\ Len(d) \in Nat
        BY <3>2, LenProperties
      <4>2. Len(d) \in 0..Capacity
        BY <2>1, <3>3, <4>1
      <4> QED
        BY <4>1, <4>2 DEF Stream!BoundedSeq, Stream!SeqOf
    <3>5. SubSeq(c, 1, len) = SubSeq(d, 1, len)
      <4>1. PICK a, b : a = SubSeq(c, 1, len) /\ b = SubSeq(d, 1, len)
        OBVIOUS
      <4>2. /\ 1 \in Int /\ len \in Int /\ \A i \in 1..len : c[i] = d[i] /\ c[i] \in Bytes
            /\ \A i \in 1..len : d[i] \in Bytes
        BY <3>2, <3>3, ElementOfSeq
      <4>3. /\ a \in Seq(Bytes) /\ Len(a) = (IF 1 <= len THEN len - 1 + 1 ELSE 0)
            /\ \A i \in 1..(len - 1 + 1) : a[i] = c[1 + i - 1]
        BY <4>1, <4>2, SubSeqProperties
      <4>4. /\ b \in Seq(Bytes) /\ Len(b) = (IF 1 <= len THEN len - 1 + 1 ELSE 0)
            /\ \A i \in 1..(len - 1 + 1) : b[i] = d[1 + i - 1]
        BY <4>1, <4>2, SubSeqProperties
      <4>5. Len(a) = Len(b) /\ \A i \in 1..Len(a) : a[i] = b[i]
        BY <3>3, <4>2, <4>3, <4>4
      <4>6. a = b
        BY <4>3, <4>4, <4>5, SeqEqual
      <4> QED
        BY <4>1, <4>6
    <3>6. c # d => Stream!IsStrictPrefix(c, d)
      BY <3>2, <3>3, <3>5 DEF Stream!IsStrictPrefix, Stream!IsPrefix
    <3> QED
      BY <3>1, <3>4, <3>6 DEF Stream!Put
  <2> QED
    BY <2>2, <2>4, <2>5 DEF Stream!Next
<1> QED
  BY <1>1, <1>2, TypeCorrect, PTL DEF Spec, ImplementsByteStream, Stream!Spec

-----------------------------------------------------------------------------
(* No end is left asleep. *)

InCall(c) == c.call \in {"read", "write", "await"}
Told == {Due, Over}

\* The condition an end waits for, in a ring of n bytes with the handles o open.
Can(end, n, o) == IF end = "readable" THEN ReadableNow(n, o) ELSE WritableNow(n, o)

\* Only an open handle is in a call, and in one of its own end.
Fits(t, c) ==
    /\ c.call = "read" => t \in Readers
    /\ c.call = "write" => t \in Writers
    /\ c.call = "await" => t \in Pollers
CallersAreOpen == \A t \in Threads : InCall(op[t]) => t \in open /\ Fits(t, op[t])

\* The waiter nodes of a pipe's queues are its callers', each on its own end.
NodesAreCallers ==
    \A end \in Ends, t \in Threads :
        Queued(ev.wait, end, t) => InCall(op[t]) /\ EndOf(t) = end

\* Whoever is asleep can be woken.
AsleepIsQueued == \A t \in Threads : Asleep(t) => Queued(ev.wait, EndOf(t), t)

\* An event is down while its end cannot go on; an end that can go on with its
\* event down has a holder that took the signal and has not used the end yet.
EventsFollow ==
    \A end \in Ends :
        /\ ~Can(end, len, open) => ev.count[end] = 0
        /\ Can(end, len, open) /\ ev.count[end] = 0
              => \E u \in Holders(end) \cap Pollers : op[u] \in Told

\* The inductive invariant of SomebodyGoesOn.
IInv ==
    /\ TypeOK
    /\ OneNodeEach(ev.wait) /\ CallersAreOpen /\ NodesAreCallers /\ AsleepIsQueued
    /\ EventsFollow
    /\ SomebodyGoesOn

\* Whoever is asleep after a step was asleep before it, with no handle closed
\* meanwhile, or cannot go on, or polls an end that another thread polls too.
SleepersWereBarred ==
    \A u \in Threads :
        Asleep(u)' =>
            \/ Asleep(u) /\ open \subseteq open'
            \/ ~Can(EndOf(u), len', open')
            \/ u \in Pollers /\ \E v \in Pollers : v # u /\ EndOf(v) = EndOf(u)

\* r is e after nobody, or one thread of an end whose event came up, was woken.
Moved(e, r) ==
    /\ EventsType(r) /\ OneNodeEach(r.wait)
    /\ \A end \in Ends, u \in Threads : Queued(r.wait, end, u) => Queued(e.wait, end, u)
    /\ \A end \in Ends, u \in Threads :
          Queued(e.wait, end, u) => Queued(r.wait, end, u) \/ Ready(r.wait, u)
    /\ \A u \in Threads : Ready(e.wait, u) => Ready(r.wait, u)
    /\ \A end \in Ends :
          e.count[end] = 0 /\ r.count[end] # 0
              => \/ \A u \in Threads : ~Queued(e.wait, end, u)
                 \/ \E u \in Threads : Queued(e.wait, end, u) /\ Ready(r.wait, u)

\* Half of rearm wakes a sleeper of the end when its event comes up.
LEMMA LevelMoves ==
    ASSUME NEW e, EventsType(e), OneNodeEach(e.wait), NEW name \in Ends, NEW on \in BOOLEAN
    PROVE  /\ Moved(e, Level(e, name, on))
           /\ Level(e, name, on).count[name] # 0 <=> on
           /\ \A end \in Ends \ {name} : Level(e, name, on).count[end] = e.count[end]
<1>1. /\ e.count \in [Ends -> 0..MaxCount] /\ e.wait \in WaitRecords(Threads, Ends)
      /\ MaxCount \in Nat \ {0}
  BY MaxCountAssumption DEF EventsType, EventRecords
<1>2. CASE ~on
  <2>1. PICK r : r = [count |-> [e.count EXCEPT ![name] = 0], wait |-> e.wait]
    OBVIOUS
  <2>2. Level(e, name, on) = r /\ EventsType(r)
    BY <1>1, <1>2, <2>1 DEF Level, EventsType, EventRecords
  <2>3. r.wait = e.wait /\ r.count = [e.count EXCEPT ![name] = 0]
    BY <2>1
  <2>4. r.count[name] = 0 /\ \A end \in Ends \ {name} : r.count[end] = e.count[end]
    BY <1>1, <2>3
  <2>5. Moved(e, r)
    BY <2>2, <2>3, <2>4 DEF Moved
  <2> QED
    BY <1>2, <2>2, <2>4, <2>5
<1>3. CASE on /\ e.count[name] # 0
  <2>1. Level(e, name, on) = e
    BY <1>3 DEF Level
  <2>2. Moved(e, e)
    BY DEF Moved
  <2> QED
    BY <1>3, <2>1, <2>2
<1>4. CASE on /\ e.count[name] = 0
  <2>1. PICK w, x : w = e.wait /\ x = WakeOne(w, name)
    OBVIOUS
  <2>2. PICK r : r = [count |-> [e.count EXCEPT ![name] = 1], wait |-> x]
    OBVIOUS
  <2>3. Level(e, name, on) = r
    <3>1. [e.count EXCEPT ![name] = IF @ = MaxCount THEN @ ELSE @ + 1]
            = [e.count EXCEPT ![name] = 1]
      BY <1>1, <1>4
    <3> QED
      BY <1>4, <2>1, <2>2, <3>1 DEF Level, SignalLocked
  <2>4. w \in WaitRecords(Threads, Ends) /\ OneNodeEach(w)
    BY <1>1, <2>1
  <2>5. x \in WaitRecords(Threads, Ends) /\ OneNodeEach(x)
    BY <2>1, <2>4, WakeOneType, WakeOneMembers
  <2>6. r.wait = x /\ r.count = [e.count EXCEPT ![name] = 1]
    BY <2>2
  <2>7. r.count[name] = 1 /\ \A end \in Ends \ {name} : r.count[end] = e.count[end]
    BY <1>1, <2>6
  <2>8. EventsType(r)
    BY <1>1, <2>2, <2>5 DEF EventsType, EventRecords
  <2>9. \/ (\A t : ~Queued(w, name, t)) /\ x = w
        \/ \E t \in Threads : Woke(w, x, Ends, name, t)
    BY <2>1, <2>4, WakeOneMembers
  <2>10. ASSUME \A t : ~Queued(w, name, t), x = w
         PROVE  Moved(e, r)
    BY <2>1, <2>5, <2>6, <2>7, <2>8, <2>10 DEF Moved
  <2>11. ASSUME NEW t \in Threads, Woke(w, x, Ends, name, t)
         PROVE  Moved(e, r)
    <3>1. /\ Queued(w, name, t)
          /\ \A u \in Threads : Ready(x, u) <=> Ready(w, u) \/ u = t
          /\ \A q \in Ends, u \in Threads : Queued(x, q, u) <=> Queued(w, q, u) /\ ~(q = name /\ u = t)
      BY <2>4, <2>11 DEF Woke, Ready, WaitRecords
    <3> QED
      BY <2>1, <2>5, <2>6, <2>7, <2>8, <3>1 DEF Moved
  <2>12. Moved(e, r)
    BY <2>9, <2>10, <2>11
  <2>13. r.count[name] # 0
    BY <2>7
  <2> QED
    BY <1>4, <2>3, <2>7, <2>12, <2>13, Zenon
<1> QED
  BY <1>2, <1>3, <1>4

\* rearm leaves each event up exactly while its end can go on, and wakes a
\* sleeper of every end whose event it raises.
LEMMA RearmMoves ==
    ASSUME NEW e, EventsType(e), OneNodeEach(e.wait), NEW n, NEW o
    PROVE  /\ Moved(e, Rearm(e, n, o))
           /\ \A end \in Ends : Rearm(e, n, o).count[end] # 0 <=> Can(end, n, o)
<1>1. PICK a \in BOOLEAN, b \in BOOLEAN : a = ReadableNow(n, o) /\ b = WritableNow(n, o)
  BY DEF ReadableNow, WritableNow
<1>2. PICK m, r : m = Level(e, "readable", a) /\ r = Level(m, "writable", b)
  OBVIOUS
<1>3. r = Rearm(e, n, o)
  BY <1>1, <1>2 DEF Rearm
<1>4. /\ Moved(e, m)
      /\ m.count["readable"] # 0 <=> a
      /\ m.count["writable"] = e.count["writable"]
  <2>1. "readable" \in Ends /\ "writable" \in Ends \ {"readable"}
    BY DEF Ends
  <2> QED
    BY <1>2, <2>1, LevelMoves
<1>5. /\ Moved(m, r)
      /\ r.count["writable"] # 0 <=> b
      /\ r.count["readable"] = m.count["readable"]
  <2>1. "writable" \in Ends /\ "readable" \in Ends \ {"writable"} /\ EventsType(m) /\ OneNodeEach(m.wait)
    BY <1>4 DEF Ends, Moved
  <2> QED
    BY <1>2, <2>1, LevelMoves
<1>6. \A end \in Ends : r.count[end] # 0 <=> Can(end, n, o)
  BY <1>1, <1>4, <1>5 DEF Ends, Can
<1>7. ASSUME NEW end \in Ends, e.count[end] = 0, r.count[end] # 0
      PROVE  \/ \A u \in Threads : ~Queued(e.wait, end, u)
             \/ \E u \in Threads : Queued(e.wait, end, u) /\ Ready(r.wait, u)
  <2>1. CASE end = "readable"
    BY <1>4, <1>5, <1>7, <2>1 DEF Moved
  <2>2. CASE end = "writable"
    BY <1>4, <1>5, <1>7, <2>2 DEF Moved
  <2> QED
    BY <2>1, <2>2 DEF Ends
<1>8. Moved(e, r)
  BY <1>4, <1>5, <1>7 DEF Moved
<1> QED
  BY <1>3, <1>6, <1>8

\* e is the events as a call of t finds them: t has left its queue.
Taken(e, t) ==
    /\ EventsType(e) /\ OneNodeEach(e.wait) /\ e.count = ev.count
    /\ \A end \in Ends, u \in Threads :
          Queued(e.wait, end, u) <=> Queued(ev.wait, end, u) /\ u # t
    /\ \A u \in Threads : Ready(e.wait, u) <=> Ready(ev.wait, u)

\* What a call of t that comes to c does to the waiters.
Passed(t, c) ==
    /\ EventsType(ev') /\ OneNodeEach(ev'.wait)
    /\ \A end \in Ends, u \in Threads :
          Queued(ev'.wait, end, u) =>
              \/ u # t /\ Queued(ev.wait, end, u)
              \/ u = t /\ InCall(c) /\ end = EndOf(t)
    /\ \A end \in Ends, u \in Threads \ {t} :
          Queued(ev.wait, end, u) => Queued(ev'.wait, end, u) \/ Ready(ev'.wait, u)
    /\ \A u \in Threads \ {t} : Ready(ev.wait, u) => Ready(ev'.wait, u)
    /\ InCall(c) => Queued(ev'.wait, EndOf(t), t)
    /\ \A end \in Ends :
          ev.count[end] = 0 /\ ev'.count[end] # 0
              => \/ \A u \in Threads \ {t} : ~Queued(ev.wait, end, u)
                 \/ \E u \in Threads \ {t} : Queued(ev.wait, end, u) /\ Ready(ev'.wait, u)

\* A call of t answers c without sleeping.
LEMMA AnswerPasses ==
    ASSUME NEW t \in Threads, NEW c, NEW e, NEW r, Taken(e, t), Moved(e, r), ~InCall(c), ev' = r
    PROVE  Passed(t, c)
<1>1. EventsType(ev') /\ OneNodeEach(ev'.wait)
  BY DEF Moved
<1>2. ASSUME NEW end \in Ends, NEW u \in Threads, Queued(ev'.wait, end, u)
      PROVE  u # t /\ Queued(ev.wait, end, u)
  BY <1>2 DEF Moved, Taken
<1>3. ASSUME NEW end \in Ends, NEW u \in Threads \ {t}, Queued(ev.wait, end, u)
      PROVE  Queued(ev'.wait, end, u) \/ Ready(ev'.wait, u)
  BY <1>3 DEF Moved, Taken
<1>4. ASSUME NEW u \in Threads \ {t}, Ready(ev.wait, u) PROVE Ready(ev'.wait, u)
  BY <1>4 DEF Moved, Taken
<1>5. ASSUME NEW end \in Ends, ev.count[end] = 0, ev'.count[end] # 0
      PROVE  \/ \A u \in Threads \ {t} : ~Queued(ev.wait, end, u)
             \/ \E u \in Threads \ {t} : Queued(ev.wait, end, u) /\ Ready(ev'.wait, u)
  <2>1. \/ \A u \in Threads : ~Queued(e.wait, end, u)
        \/ \E u \in Threads : Queued(e.wait, end, u) /\ Ready(r.wait, u)
    BY <1>5 DEF Moved, Taken
  <2>2. \A u \in Threads : Queued(e.wait, end, u) <=> Queued(ev.wait, end, u) /\ u # t
    BY DEF Taken
  <2> QED
    BY <2>1, <2>2
<1> QED
  BY <1>1, <1>2, <1>3, <1>4, <1>5 DEF Passed

\* A call of t goes to sleep in c.
LEMMA SleepPasses ==
    ASSUME NEW t \in Threads, NEW c, NEW e, NEW r, Taken(e, t), Moved(e, r), InCall(c),
           ev' = BlockOn(r, t, {EndOf(t)}, FALSE)
    PROVE  Passed(t, c)
<1>1. PICK w, x : w = r.wait /\ x = Block(w, t, {EndOf(t)}, FALSE)
  OBVIOUS
<1>2. /\ w \in WaitRecords(Threads, Ends) /\ r.count \in [Ends -> 0..MaxCount] /\ OneNodeEach(w)
  BY <1>1 DEF Moved, EventsType, EventRecords
<1>3. \A end \in Ends : ~Queued(w, end, t)
  BY <1>1 DEF Moved, Taken
<1>4. EndOf(t) \in Ends
  BY DEF EndOf, Ends
<1>5. /\ x \in WaitRecords(Threads, Ends) /\ OneNodeEach(x)
      /\ \A end \in Ends : \A u : Queued(x, end, u) <=> Queued(w, end, u) \/ (end = EndOf(t) /\ u = t)
  <2>1. PICK Q : Q = {EndOf(t)}
    OBVIOUS
  <2>2. PICK d \in BOOLEAN : x = Block(w, t, Q, d)
    BY <1>1, <2>1
  <2>3. x \in WaitRecords(Threads, Ends)
    BY <1>2, <2>2, BlockType
  <2>4. /\ OneNodeEach(x)
        /\ \A end \in Ends : \A u : Queued(x, end, u) <=> Queued(w, end, u) \/ (end \in Q /\ u = t)
    BY <1>2, <1>3, <2>2, BlockMembers
  <2> QED
    BY <2>1, <2>3, <2>4
<1>6. ev'.wait = x /\ ev'.count = r.count /\ EventsType(ev')
  BY <1>1, <1>2, <1>5 DEF BlockOn, EventsType, EventRecords
<1>7. \A u \in Threads \ {t} : Ready(x, u) <=> Ready(w, u)
  <2>1. x.state = [w.state EXCEPT ![t] = "blocked"] /\ w.state \in [Threads -> RunStates]
    BY <1>1, <1>2 DEF Block, WaitRecords
  <2> QED
    BY <2>1 DEF Ready
<1>8. ASSUME NEW end \in Ends, NEW u \in Threads, Queued(ev'.wait, end, u)
      PROVE  \/ u # t /\ Queued(ev.wait, end, u)
             \/ u = t /\ InCall(c) /\ end = EndOf(t)
  BY <1>1, <1>5, <1>6, <1>8 DEF Moved, Taken
<1>9. ASSUME NEW end \in Ends, NEW u \in Threads \ {t}, Queued(ev.wait, end, u)
      PROVE  Queued(ev'.wait, end, u) \/ Ready(ev'.wait, u)
  BY <1>1, <1>5, <1>6, <1>7, <1>9 DEF Moved, Taken
<1>10. ASSUME NEW u \in Threads \ {t}, Ready(ev.wait, u) PROVE Ready(ev'.wait, u)
  BY <1>1, <1>6, <1>7, <1>10 DEF Moved, Taken
<1>11. ASSUME NEW end \in Ends, ev.count[end] = 0, ev'.count[end] # 0
       PROVE  \/ \A u \in Threads \ {t} : ~Queued(ev.wait, end, u)
              \/ \E u \in Threads \ {t} : Queued(ev.wait, end, u) /\ Ready(ev'.wait, u)
  <2>1. \/ \A u \in Threads : ~Queued(e.wait, end, u)
        \/ \E u \in Threads : Queued(e.wait, end, u) /\ Ready(r.wait, u)
    BY <1>6, <1>11 DEF Moved, Taken
  <2>2. \A u \in Threads : Queued(e.wait, end, u) <=> Queued(ev.wait, end, u) /\ u # t
    BY DEF Taken
  <2> QED
    BY <1>1, <1>6, <1>7, <2>1, <2>2
<1>12. Queued(ev'.wait, EndOf(t), t)
  BY <1>4, <1>5, <1>6
<1> QED
  BY <1>5, <1>6, <1>8, <1>9, <1>10, <1>11, <1>12 DEF Passed

\* A call that leaves the waiters as it should, with the events following the
\* ring, keeps the invariant: it sleeps only where the end cannot go on, or
\* where another holder has been told.
LEMMA CallKeeps ==
    ASSUME IInv, TypeOK', NEW t \in Threads, t \in open, NEW c,
           op' = [op EXCEPT ![t] = c] \/ (op' = op /\ op[t] = c),
           open \subseteq open', Passed(t, c), EventsFollow', InCall(c) => Fits(t, c),
           InCall(c) /\ Can(EndOf(t), len', open')
               => t \in Pollers /\ \E u \in Holders(EndOf(t)) \cap Pollers : u # t /\ op[u] \in Told
    PROVE  IInv' /\ SleepersWereBarred
<1>1. /\ TypeOK /\ CallersAreOpen /\ NodesAreCallers /\ AsleepIsQueued /\ EventsFollow
      /\ SomebodyGoesOn /\ DOMAIN op = Threads /\ open' \subseteq Threads
  BY DEF IInv, TypeOK
<1>2. op'[t] = c /\ \A u \in Threads \ {t} : op'[u] = op[u]
  BY <1>1
<1>3. \A c1 \in Told : ~InCall(c1)
  BY DEF Told, InCall, Due, Over
<1>4. CallersAreOpen'
  BY <1>1, <1>2 DEF CallersAreOpen
<1>5. NodesAreCallers'
  <2> SUFFICES ASSUME NEW end \in Ends, NEW u \in Threads, Queued(ev'.wait, end, u)
               PROVE  InCall(op'[u]) /\ EndOf(u) = end
    BY DEF NodesAreCallers
  <2> QED
    BY <1>1, <1>2 DEF Passed, NodesAreCallers
<1>6. AsleepIsQueued'
  <2> SUFFICES ASSUME NEW u \in Threads, InCall(op'[u]), ~Ready(ev'.wait, u)
               PROVE  Queued(ev'.wait, EndOf(u), u)
    BY DEF AsleepIsQueued, Asleep, InCall
  <2>1. CASE u = t
    BY <1>2, <2>1 DEF Passed
  <2>2. CASE u # t
    <3>1. Asleep(u)
      BY <1>2, <2>2 DEF Passed, Asleep, InCall
    <3>2. EndOf(u) \in Ends
      BY DEF EndOf, Ends
    <3> QED
      BY <1>1, <2>2, <3>1, <3>2 DEF Passed, AsleepIsQueued
  <2> QED
    BY <2>1, <2>2
<1>7. SomebodyGoesOn'
  <2> SUFFICES ASSUME NEW v \in Threads, Asleep(v)', LevelOf(v)'
               PROVE  \E u \in open' : EndOf(u) = EndOf(v) /\ ~Asleep(u)'
    BY DEF SomebodyGoesOn, Holders
  <2>1. PICK end \in Ends : end = EndOf(v)
    BY DEF EndOf, Ends
  <2>2. Can(end, len', open')
    BY <2>1 DEF LevelOf, Can, EndOf
  <2>3. \A u : op'[u] \in Told => ~Asleep(u)'
    BY <1>3 DEF Asleep, InCall
  <2>4. CASE v = t
    <3>1. InCall(c)
      BY <1>2, <2>4 DEF Asleep, InCall
    <3>2. PICK u \in Holders(EndOf(t)) : u # t /\ op[u] \in Told
      BY <2>1, <2>2, <2>4, <3>1
    <3>3. u \in open' /\ op'[u] \in Told /\ EndOf(u) = EndOf(v)
      BY <1>1, <1>2, <2>4, <3>2 DEF Holders, TypeOK
    <3> QED
      BY <2>3, <3>3
  <2>5. CASE v # t /\ ev'.count[end] = 0
    <3>1. PICK u \in Holders(end)' \cap Pollers : op'[u] \in Told
      BY <2>2, <2>5 DEF EventsFollow
    <3> QED
      BY <2>1, <2>3, <3>1 DEF Holders
  <2>6. CASE v # t /\ ev'.count[end] # 0
    <3>1. Asleep(v)
      BY <1>2, <2>6 DEF Asleep, Passed
    <3>2. Queued(ev.wait, end, v)
      BY <1>1, <2>1, <3>1 DEF AsleepIsQueued
    <3>3. CASE ev.count[end] = 0
      <4>1. PICK u \in Threads \ {t} : Queued(ev.wait, end, u) /\ Ready(ev'.wait, u)
        BY <2>6, <3>2, <3>3 DEF Passed
      <4>2. u \in open /\ EndOf(u) = end
        BY <1>1, <4>1 DEF NodesAreCallers, CallersAreOpen
      <4> QED
        BY <2>1, <4>1, <4>2 DEF Asleep
    <3>4. CASE ev.count[end] # 0
      <4>1. LevelOf(v)
        BY <1>1, <2>1, <3>4 DEF EventsFollow, LevelOf, Can, EndOf
      <4>2. PICK u \in open : EndOf(u) = EndOf(v) /\ ~Asleep(u)
        BY <1>1, <3>1, <4>1 DEF SomebodyGoesOn, Holders
      <4>3. CASE u # t
        BY <1>1, <1>2, <4>2, <4>3 DEF Asleep, Passed, TypeOK
      <4>4. CASE u = t /\ ~InCall(c)
        BY <1>2, <4>2, <4>4 DEF Asleep, InCall
      <4>5. CASE u = t /\ InCall(c)
        <5>1. PICK y \in Holders(EndOf(t)) : y # t /\ op[y] \in Told
          BY <2>1, <2>2, <4>2, <4>5
        <5>2. y \in open' /\ op'[y] \in Told /\ EndOf(y) = EndOf(v)
          BY <1>1, <1>2, <4>2, <4>5, <5>1 DEF Holders, TypeOK
        <5> QED
          BY <2>3, <5>2
      <4> QED
        BY <4>3, <4>4, <4>5
    <3> QED
      BY <3>3, <3>4
  <2> QED
    BY <2>4, <2>5, <2>6
<1>8. SleepersWereBarred
  <2> SUFFICES ASSUME NEW v \in Threads, Asleep(v)'
               PROVE  \/ Asleep(v)
                      \/ ~Can(EndOf(v), len', open')
                      \/ v \in Pollers /\ \E u \in Pollers : u # v /\ EndOf(u) = EndOf(v)
    BY DEF SleepersWereBarred
  <2>1. CASE v = t
    <3>1. InCall(c)
      BY <1>2, <2>1 DEF Asleep, InCall
    <3> QED
      BY <2>1, <3>1 DEF Holders
  <2>2. CASE v # t
    BY <1>2, <2>2 DEF Asleep, Passed
  <2> QED
    BY <2>1, <2>2
<1> QED
  BY <1>4, <1>5, <1>6, <1>7, <1>8 DEF IInv, Passed

\* The events still follow a ring and handles that have not changed, unless the
\* call has used up what t was told.
LEMMA EventsKept ==
    ASSUME IInv, NEW t \in Threads, t \in open, NEW c, op' = [op EXCEPT ![t] = c],
           len' = len, open' = open, ev'.count = ev.count,
           c \in Told \/ op[t] \notin Told \/ ~Can(EndOf(t), len, open)
    PROVE  EventsFollow'
<1>1. DOMAIN op = Threads /\ open \subseteq Threads /\ EventsFollow
  BY DEF IInv, TypeOK
<1>2. op'[t] = c /\ \A u \in Threads \ {t} : op'[u] = op[u]
  BY <1>1
<1> SUFFICES ASSUME NEW end \in Ends, Can(end, len, open), ev.count[end] = 0
             PROVE  \E u \in Holders(end) \cap Pollers : op'[u] \in Told
  BY <1>1 DEF EventsFollow, Holders
<1>3. PICK u \in Holders(end) \cap Pollers : op[u] \in Told
  BY <1>1 DEF EventsFollow
<1>4. CASE u # t
  BY <1>1, <1>2, <1>3, <1>4 DEF Holders
<1>5. CASE u = t
  BY <1>2, <1>3, <1>5 DEF Holders
<1> QED
  BY <1>4, <1>5

\* They follow whatever rearm has just been given.
LEMMA EventsRearmed ==
    ASSUME NEW e, EventsType(e), OneNodeEach(e.wait), ev'.count = Rearm(e, len', open').count
    PROVE  EventsFollow'
<1>1. \A end \in Ends : ev'.count[end] # 0 <=> Can(end, len', open')
  BY RearmMoves
<1> QED
  BY <1>1 DEF EventsFollow

LEMMA MovedSelf ==
    ASSUME NEW e, EventsType(e), OneNodeEach(e.wait)
    PROVE  Moved(e, e)
BY DEF Moved

\* No answer is a call.
LEMMA AnswersAreOut ==
    /\ ~InCall(Idle) /\ ~InCall(Due) /\ ~InCall(Over) /\ Due \in Told /\ Over \in Told
    /\ InCall(Await) /\ \A x : InCall(Reading(x)) /\ InCall(Writing(x))
    /\ \A c : InCall(c) => c \notin Told
    /\ \A t \in Pollers : Fits(t, Await)
    /\ \A t, x : (t \in Readers => Fits(t, Reading(x))) /\ (t \in Writers => Fits(t, Writing(x)))
BY DEF Fits, InCall, Idle, Due, Over, Told, Await, Reading, Writing

\* A call of t that brought the events into line and answers Idle.
LEMMA RearmedKeeps ==
    ASSUME IInv, TypeOK', NEW t \in Threads, t \in open, NEW e, Taken(e, t),
           ev' = Rearm(e, len', open), open' = open, op' = [op EXCEPT ![t] = Idle]
    PROVE  IInv' /\ SleepersWereBarred
<1>1. EventsType(e) /\ OneNodeEach(e.wait)
  BY DEF Taken
<1>2. PICK r : r = Rearm(e, len', open) /\ Moved(e, r)
  BY <1>1, RearmMoves
<1>3. Passed(t, Idle)
  BY <1>2, AnswerPasses, AnswersAreOut
<1>4. EventsFollow'
  BY <1>1, EventsRearmed
<1> QED
  BY <1>3, <1>4, CallKeeps, AnswersAreOut

\* A call of t that ends with the pipe as it was.
LEMMA OverKeeps ==
    ASSUME IInv, TypeOK', NEW t \in Threads, t \in open, NEW e, Taken(e, t),
           ev' = e, len' = len, open' = open, op' = [op EXCEPT ![t] = Over]
    PROVE  IInv' /\ SleepersWereBarred
<1>1. Moved(e, e)
  BY MovedSelf DEF Taken
<1>2. Passed(t, Over)
  BY <1>1, AnswerPasses, AnswersAreOut
<1>3. EventsFollow'
  BY EventsKept, AnswersAreOut DEF Taken
<1> QED
  BY <1>2, <1>3, CallKeeps, AnswersAreOut

\* A call of t that would sleep where nothing has been done.
LEMMA SleepKeeps ==
    ASSUME IInv, TypeOK', NEW t \in Threads, t \in open, NEW e, Taken(e, t),
           NEW c, InCall(c), Fits(t, c), Sleep(t, e, c), len' = len, open' = open,
           Can(EndOf(t), len, open) => op[t] \notin Told /\ ev.count[EndOf(t)] = 0 /\ t \in Pollers
    PROVE  IInv' /\ SleepersWereBarred
<1>1. CASE t \in killed /\ ev' = e /\ op' = [op EXCEPT ![t] = Over]
  BY <1>1, OverKeeps
<1>2. CASE ev' = BlockOn(e, t, {EndOf(t)}, FALSE) /\ op' = [op EXCEPT ![t] = c]
  <2>1. Moved(e, e)
    BY MovedSelf DEF Taken
  <2>2. Passed(t, c)
    BY <1>2, <2>1, SleepPasses
  <2>3. ev'.count = ev.count
    BY <1>2 DEF BlockOn, Taken
  <2>4. EventsFollow'
    BY <1>2, <2>3, EventsKept
  <2>5. ASSUME Can(EndOf(t), len', open')
        PROVE  t \in Pollers /\ \E u \in Holders(EndOf(t)) \cap Pollers : u # t /\ op[u] \in Told
    <3>1. EndOf(t) \in Ends
      BY DEF EndOf, Ends
    <3> QED
      BY <2>5, <3>1 DEF IInv, EventsFollow
  <2> QED
    BY <1>2, <2>2, <2>4, <2>5, CallKeeps
<1> QED
  BY <1>1, <1>2 DEF Sleep

\* A write that filled the ring and sleeps with the rest of its bytes.
LEMMA FullSleepKeeps ==
    ASSUME IInv, TypeOK', NEW t \in Threads, t \in open, NEW e, Taken(e, t),
           NEW c, InCall(c), Fits(t, c), Sleep(t, Rearm(e, len', open), c), open' = open,
           ~Can(EndOf(t), len', open)
    PROVE  IInv' /\ SleepersWereBarred
<1>1. EventsType(e) /\ OneNodeEach(e.wait)
  BY DEF Taken
<1>2. PICK r : r = Rearm(e, len', open) /\ Moved(e, r)
  BY <1>1, RearmMoves
<1>3. CASE t \in killed /\ ev' = r /\ op' = [op EXCEPT ![t] = Over]
  <2>1. Passed(t, Over)
    BY <1>2, <1>3, AnswerPasses, AnswersAreOut
  <2>2. EventsFollow'
    BY <1>1, <1>2, <1>3, EventsRearmed
  <2> QED
    BY <1>3, <2>1, <2>2, CallKeeps, AnswersAreOut
<1>4. CASE ev' = BlockOn(r, t, {EndOf(t)}, FALSE) /\ op' = [op EXCEPT ![t] = c]
  <2>1. Passed(t, c)
    BY <1>2, <1>4, SleepPasses
  <2>2. ev'.count = r.count
    BY <1>4 DEF BlockOn
  <2>3. EventsFollow'
    BY <1>1, <1>2, <2>2, EventsRearmed
  <2> QED
    BY <1>4, <2>1, <2>3, CallKeeps
<1> QED
  BY <1>2, <1>3, <1>4 DEF Sleep

\* The loop of read.
LEMMA ReadKeeps ==
    ASSUME IInv, TypeOK', NEW t \in Readers, t \in open, NEW e, Taken(e, t), NEW n,
           ReadLoop(t, e, n), open' = open
    PROVE  IInv' /\ SleepersWereBarred
<1>1. t \in Threads /\ EndOf(t) = "readable"
  BY DEF Threads, EndOf
<1>2. CASE /\ TakeFromRing(Least(n, len)) /\ ev' = Rearm(e, len - Least(n, len), open)
           /\ Answer(t, Idle)
  BY <1>1, <1>2, RearmedKeeps DEF TakeFromRing, Answer
<1>3. CASE ev' = e /\ Answer(t, Over) /\ UNCHANGED ring
  BY <1>1, <1>3, OverKeeps DEF ring, Answer
<1>4. CASE len = 0 /\ OpenIn(open, Writers) > 0 /\ Sleep(t, e, Reading(n)) /\ UNCHANGED ring
  <2>1. ~Can(EndOf(t), len, open)
    BY <1>1, <1>4 DEF Can, ReadableNow
  <2> QED
    BY <1>1, <1>4, <2>1, SleepKeeps, AnswersAreOut DEF ring
<1> QED
  BY <1>2, <1>3, <1>4 DEF ReadLoop

\* The loop of write.
LEMMA WriteKeeps ==
    ASSUME IInv, TypeOK', NEW t \in Writers, t \in open, NEW e, Taken(e, t), NEW s \in Seq(Bytes),
           WriteLoop(t, e, s), open' = open
    PROVE  IInv' /\ SleepersWereBarred
<1>1. t \in Threads /\ EndOf(t) = "writable"
  BY PipeAssumption DEF Threads, EndOf
<1>2. CASE ev' = e /\ Answer(t, Over) /\ UNCHANGED ring
  BY <1>1, <1>2, OverKeeps DEF ring, Answer
<1>3. CASE OpenIn(open, Readers) > 0 /\ len = Capacity /\ Sleep(t, e, Writing(s)) /\ UNCHANGED ring
  <2>1. ~Can(EndOf(t), len, open)
    BY <1>1, <1>3, PipeAssumption DEF Can, WritableNow
  <2> QED
    BY <1>1, <1>3, <2>1, SleepKeeps, AnswersAreOut DEF ring
<1>4. ASSUME OpenIn(open, Readers) > 0, len < Capacity,
             NEW n, n = Least(Len(s), Capacity - len), PutInRing(SubSeq(s, 1, n)),
             \/ n = Len(s) /\ Answer(t, Idle) /\ ev' = Rearm(e, len + n, open)
             \/ n # Len(s) /\ Sleep(t, Rearm(e, len + n, open), Writing(SubSeq(s, n + 1, Len(s))))
      PROVE  IInv' /\ SleepersWereBarred
  <2>1. /\ n \in Nat /\ n <= Len(s) /\ Len(s) \in Nat /\ len \in Nat /\ Capacity \in Nat
        /\ n # Len(s) => len + n = Capacity
    <3>1. Len(s) \in Nat /\ len \in 0..Capacity /\ Capacity \in Nat
      BY PipeAssumption, LenProperties DEF IInv, TypeOK
    <3> QED
      BY <1>4, <3>1 DEF Least
  <2>2. Len(SubSeq(s, 1, n)) = n
    <3>1. 1 \in Int /\ n \in Int /\ \A i \in 1..n : s[i] \in Bytes
      BY <2>1, ElementOfSeq
    <3>2. Len(SubSeq(s, 1, n)) = IF 1 <= n THEN n - 1 + 1 ELSE 0
      BY <3>1, SubSeqProperties
    <3> QED
      BY <2>1, <3>2
  <2>3. len' = len + n
    BY <1>4, <2>2 DEF PutInRing
  <2>4. CASE Answer(t, Idle) /\ ev' = Rearm(e, len + n, open)
    BY <1>1, <2>3, <2>4, RearmedKeeps DEF Answer
  <2>5. CASE n # Len(s) /\ Sleep(t, Rearm(e, len + n, open), Writing(SubSeq(s, n + 1, Len(s))))
    <3>1. ~Can(EndOf(t), len', open)
      BY <1>1, <1>4, <2>1, <2>3, <2>5 DEF Can, WritableNow
    <3> QED
      BY <1>1, <2>3, <2>5, <3>1, FullSleepKeeps, AnswersAreOut
  <2> QED
    BY <1>4, <2>4, <2>5
<1> QED
  BY <1>2, <1>3, <1>4 DEF WriteLoop

\* waitMany on an end, by a thread that has been told nothing it has not used.
LEMMA AwaitKeeps ==
    ASSUME IInv, TypeOK', NEW t \in Threads, t \in open, NEW e, Taken(e, t), op[t] \notin Told,
           AwaitLoop(t, e), open' = open, t \in Pollers
    PROVE  IInv' /\ SleepersWereBarred
<1>1. EndOf(t) \in Ends /\ len' = len /\ e.count = ev.count /\ EventsType(e) /\ OneNodeEach(e.wait)
      /\ e.count \in [Ends -> 0..MaxCount] /\ MaxCount \in Nat
  BY MaxCountAssumption DEF EndOf, Ends, AwaitLoop, ring, Taken, EventsType, EventRecords
<1>2. CASE e.count[EndOf(t)] = 0 /\ Sleep(t, e, Await)
  BY <1>1, <1>2, SleepKeeps, AnswersAreOut
<1>3. CASE /\ e.count[EndOf(t)] > 0 /\ ev' = Consume(e, EndOf(t))
           /\ op' = [op EXCEPT ![t] = Due]
  <2>1. PICK r : r = Consume(e, EndOf(t))
    OBVIOUS
  <2>2. r.wait = e.wait /\ r.count = [e.count EXCEPT ![EndOf(t)] = e.count[EndOf(t)] - 1]
    BY <2>1 DEF Consume
  <2>3. EventsType(r)
    BY <1>1, <1>3, <2>1 DEF Consume, EventsType, EventRecords
  <2>4. \A end \in Ends : e.count[end] = 0 => r.count[end] = 0
    BY <1>1, <1>3, <2>2
  <2>5. Moved(e, r)
    BY <1>1, <2>2, <2>3, <2>4 DEF Moved
  <2>6. Passed(t, Due)
    BY <1>3, <2>1, <2>5, AnswerPasses, AnswersAreOut
  <2>7. EventsFollow'
    <3>1. DOMAIN op = Threads /\ EventsFollow /\ open \subseteq Threads
      BY DEF IInv, TypeOK
    <3>2. op'[t] = Due /\ \A u \in Threads \ {t} : op'[u] = op[u]
      BY <1>3, <3>1
    <3>3. ev'.count = [ev.count EXCEPT ![EndOf(t)] = ev.count[EndOf(t)] - 1]
      BY <1>1, <1>3, <2>1, <2>2
    <3>4. ASSUME NEW end \in Ends
          PROVE  /\ ~Can(end, len, open) => ev'.count[end] = 0
                 /\ Can(end, len, open) /\ ev'.count[end] = 0
                       => \E u \in Holders(end) \cap Pollers : op'[u] \in Told
      <4>1. CASE end = EndOf(t)
        <5>1. Can(end, len, open)
          BY <1>1, <1>3, <3>1, <4>1 DEF EventsFollow
        <5>2. t \in Holders(end) /\ op'[t] \in Told
          BY <3>2, <4>1, AnswersAreOut DEF Holders
        <5> QED
          BY <5>1, <5>2
      <4>2. CASE end # EndOf(t)
        <5>1. ev'.count[end] = ev.count[end]
          BY <1>1, <3>3, <4>2
        <5>2. \A u \in Holders(end) : op'[u] = op[u]
          BY <3>1, <3>2, <4>2 DEF Holders
        <5> QED
          BY <3>1, <5>1, <5>2 DEF EventsFollow
      <4> QED
        BY <4>1, <4>2
    <3>5. Holders("readable")' = Holders("readable") /\ Holders("writable")' = Holders("writable")
      BY DEF Holders
    <3> QED
      BY <1>1, <3>4, <3>5 DEF EventsFollow, Ends
  <2> QED
    BY <1>3, <2>6, <2>7, CallKeeps, AnswersAreOut
<1> QED
  BY <1>2, <1>3 DEF AwaitLoop

\* A thread out of its calls has no waiter node; one back from blockOn leaves it.
LEMMA FreeIsTaken ==
    ASSUME IInv, NEW t \in Threads, ~InCall(op[t])
    PROVE  Taken(ev, t)
<1>1. EventsType(ev) /\ OneNodeEach(ev.wait) /\ NodesAreCallers
  BY DEF IInv, TypeOK, EventsType
<1> QED
  BY <1>1 DEF Taken, NodesAreCallers

LEMMA LeftIsTaken ==
    ASSUME IInv, NEW t \in Threads, NEW e, e = [ev EXCEPT !.wait = Leave(@, t)]
    PROVE  Taken(e, t)
<1>1. EventsType(ev) /\ OneNodeEach(ev.wait)
  BY DEF IInv, TypeOK, EventsType
<1>2. PICK w, x : w = ev.wait /\ x = Leave(w, t)
  OBVIOUS
<1>3. e = [count |-> ev.count, wait |-> x] /\ EventsType(e)
  BY <1>1, <1>2, LeftType
<1>4. w \in WaitRecords(Threads, Ends) /\ OneNodeEach(w)
  BY <1>1, <1>2 DEF EventsType, EventRecords
<1>5. /\ OneNodeEach(x)
      /\ \A q \in Ends : \A u : Queued(x, q, u) <=> Queued(w, q, u) /\ u # t
  BY <1>2, <1>4, LeaveMembers
<1>6. x.state = w.state
  BY <1>2 DEF Leave
<1> QED
  BY <1>2, <1>3, <1>5, <1>6 DEF Taken, Ready

\* A child is given a copy of an end.
LEMMA RetainKeeps ==
    ASSUME IInv, TypeOK', NEW t \in Threads, NEW u \in Threads, Retain(t, u)
    PROVE  IInv' /\ SleepersWereBarred
<1>1. t \in open /\ ~InCall(op[t]) /\ DOMAIN op = Threads /\ len' = len
  BY AnswersAreOut DEF Retain, MayUse, Free, IInv, TypeOK, ring
<1>2. Taken(ev, t)
  BY <1>1, FreeIsTaken
<1>3. EventsType(ev) /\ OneNodeEach(ev.wait)
  BY <1>2 DEF Taken
<1>4. PICK o : o = open'
  OBVIOUS
<1>5. PICK r : r = Rearm(ev, len, o) /\ Moved(ev, r)
  BY <1>3, RearmMoves
<1>6. ev' = r /\ op' = op /\ open \subseteq open'
  BY <1>1, <1>4, <1>5 DEF Retain
<1>7. Passed(t, op[t])
  BY <1>1, <1>2, <1>5, <1>6, AnswerPasses
<1>8. EventsFollow'
  <2>1. ev'.count = Rearm(ev, len', open').count
    BY <1>1, <1>4, <1>5, <1>6
  <2> QED
    BY <1>3, <2>1, EventsRearmed
<1> QED
  BY <1>1, <1>6, <1>7, <1>8, CallKeeps

\* release wakes everybody, so nobody is asleep after it.
LEMMA ReleaseWakes ==
    ASSUME IInv, TypeOK', NEW t \in Threads, Release(t)
    PROVE  IInv' /\ SleepersWereBarred
<1>1. /\ EventsType(ev) /\ OneNodeEach(ev.wait) /\ DOMAIN op = Threads /\ len' = len
      /\ CallersAreOpen /\ NodesAreCallers /\ AsleepIsQueued /\ open \subseteq Threads
      /\ t \in open /\ open' = open \ {t}
  BY DEF IInv, TypeOK, EventsType, Release, Free, ring
<1>2. op'[t] = Idle /\ \A u \in Threads \ {t} : op'[u] = op[u]
  BY <1>1 DEF Release
<1>3. PICK o : o = open'
  OBVIOUS
<1>4. PICK r : r = Rearm(ev, len, o) /\ Moved(ev, r)
  BY <1>1, RearmMoves
<1>5. PICK w, x : w = r.wait /\ x = WakeEach(w, Ends)
  OBVIOUS
<1>6. r.count \in [Ends -> 0..MaxCount] /\ w \in WaitRecords(Threads, Ends) /\ OneNodeEach(w)
      /\ r = [count |-> r.count, wait |-> w]
  BY <1>4, <1>5 DEF Moved, EventsType, EventRecords
<1>7. ev' = [count |-> r.count, wait |-> x]
  BY <1>3, <1>4, <1>5, <1>6 DEF Release
<1>8. /\ OneNodeEach(x)
      /\ \A q \in Ends : \A u : Queued(x, q, u) <=> Queued(w, q, u) /\ q \notin Ends
  <2>1. PICK Q \in SUBSET Ends : Q = Ends
    OBVIOUS
  <2>2. x = WakeEach(w, Q)
    BY <1>5, <2>1
  <2>3. /\ OneNodeEach(x)
        /\ \A q \in Ends : \A u : Queued(x, q, u) <=> Queued(w, q, u) /\ q \notin Q
    BY <1>6, <2>2, WakeEachMembers
  <2> QED
    BY <2>1, <2>3
<1>9. \A u \in Threads : Ready(x, u) <=> Ready(w, u) \/ \E q \in Ends : Queued(w, q, u)
  <2>1. x.state = [u \in Threads |-> IF \E q \in Ends : Queued(w, q, u) THEN "ready" ELSE w.state[u]]
    BY <1>5, <1>6 DEF WakeEach, WaitRecords
  <2> QED
    BY <2>1 DEF Ready
<1>10. ASSUME NEW u \in Threads, Asleep(u)' PROVE FALSE
  <2>1. u # t /\ InCall(op[u]) /\ ~Ready(x, u) /\ ~Ready(w, u)
    BY <1>2, <1>7, <1>9, <1>10, AnswersAreOut DEF Asleep, InCall
  <2>2. EndOf(u) \in Ends
    BY DEF EndOf, Ends
  <2>3. Asleep(u)
    BY <1>4, <1>5, <2>1 DEF Asleep, InCall, Moved
  <2>4. Queued(ev.wait, EndOf(u), u)
    BY <1>1, <2>3 DEF AsleepIsQueued
  <2>5. Queued(w, EndOf(u), u)
    BY <1>4, <1>5, <2>1, <2>2, <2>4 DEF Moved
  <2> QED
    BY <1>9, <2>1, <2>2, <2>5
<1>11. EventsFollow'
  <2>1. ev'.count = Rearm(ev, len', open').count
    BY <1>1, <1>3, <1>4, <1>7
  <2> QED
    BY <1>1, <2>1, EventsRearmed
<1>12. CallersAreOpen'
  BY <1>1, <1>2, AnswersAreOut DEF CallersAreOpen
<1>13. NodesAreCallers'
  BY <1>7, <1>8 DEF NodesAreCallers
<1>14. AsleepIsQueued' /\ SomebodyGoesOn' /\ SleepersWereBarred
  BY <1>10 DEF AsleepIsQueued, SomebodyGoesOn, SleepersWereBarred
<1> QED
  BY <1>7, <1>8, <1>10, <1>11, <1>12, <1>13, <1>14 DEF IInv

\* kill only makes a thread runnable.
LEMMA KillKeeps ==
    ASSUME IInv, TypeOK', NEW t \in Threads, Kill(t)
    PROVE  IInv' /\ SleepersWereBarred
<1>1. /\ EventsType(ev) /\ OneNodeEach(ev.wait) /\ len' = len /\ open' = open /\ op' = op
      /\ CallersAreOpen /\ NodesAreCallers /\ AsleepIsQueued /\ EventsFollow /\ SomebodyGoesOn
      /\ open \subseteq Threads
  BY DEF IInv, TypeOK, EventsType, Kill, ring
<1>2. PICK w, x : w = ev.wait /\ x = Unblock(w, t)
  OBVIOUS
<1>3. ev' = [count |-> ev.count, wait |-> x]
  BY <1>1, <1>2, LeftType DEF Kill
<1>4. w \in WaitRecords(Threads, Ends) /\ OneNodeEach(w)
  BY <1>1, <1>2 DEF EventsType, EventRecords
<1>5. OneNodeEach(x) /\ \A q, u : Queued(x, q, u) <=> Queued(w, q, u)
  BY <1>2, <1>4, UnblockMembers
<1>6. \A u \in Threads : Ready(w, u) => Ready(x, u)
  <2>1. x.state = [w.state EXCEPT ![t] = "ready"] /\ w.state \in [Threads -> RunStates]
    BY <1>2, <1>4 DEF Unblock, WaitRecords
  <2> QED
    BY <2>1 DEF Ready
<1>7. \A u \in Threads : Asleep(u)' => Asleep(u)
  BY <1>1, <1>2, <1>3, <1>6 DEF Asleep
<1>8. CallersAreOpen'
  BY <1>1 DEF CallersAreOpen
<1>9. NodesAreCallers'
  BY <1>1, <1>2, <1>3, <1>5 DEF NodesAreCallers
<1>10. AsleepIsQueued'
  BY <1>1, <1>2, <1>3, <1>5, <1>7 DEF AsleepIsQueued
<1>11. EventsFollow'
  BY <1>1, <1>3 DEF EventsFollow, Holders
<1>12. SomebodyGoesOn'
  <2> SUFFICES ASSUME NEW v \in Threads, Asleep(v)', LevelOf(v)'
               PROVE  \E u \in open : EndOf(u) = EndOf(v) /\ ~Asleep(u)'
    BY <1>1 DEF SomebodyGoesOn, Holders
  <2>1. LevelOf(v) /\ Asleep(v)
    BY <1>1, <1>7 DEF LevelOf
  <2> QED
    BY <1>1, <1>7, <2>1 DEF SomebodyGoesOn, Holders
<1>13. SleepersWereBarred
  BY <1>1, <1>7 DEF SleepersWereBarred
<1> QED
  BY <1>3, <1>5, <1>8, <1>9, <1>10, <1>11, <1>12, <1>13 DEF IInv

\* create leaves the events following an empty pipe and nobody waiting.
LEMMA InitKeeps == Init => IInv
<1> SUFFICES ASSUME Init PROVE IInv
  OBVIOUS
<1>1. TypeOK
  BY InitType
<1>2. PICK e : e = QuietEvents(Threads, Ends)
  OBVIOUS
<1>3. e.wait = NoWaits(Threads, Ends) /\ EventsType(e)
  BY <1>2, NoWaitsType, MaxCountAssumption DEF QuietEvents, EventsType, EventRecords
<1>4. \A q \in Ends : e.wait.queue[q] = <<>>
  BY <1>3 DEF NoWaits
<1>5. OneNodeEach(e.wait)
  BY <1>3, <1>4, EmptySeq DEF OneNodeEach, NoTwice, NoWaits
<1>6. \A q \in Ends, u \in Threads : ~Queued(e.wait, q, u)
  BY <1>3, <1>4, EmptyHasNobody DEF EventsType, EventRecords
<1>7. /\ Moved(e, ev) /\ \A end \in Ends : ev.count[end] # 0 <=> Can(end, len, open)
  BY <1>2, <1>3, <1>5, RearmMoves DEF Init
<1>8. \A t \in Threads : ~InCall(op[t])
  BY AnswersAreOut DEF Init
<1>9. EventsFollow
  BY <1>7 DEF EventsFollow
<1>10. CallersAreOpen /\ AsleepIsQueued /\ SomebodyGoesOn
  BY <1>8 DEF CallersAreOpen, AsleepIsQueued, SomebodyGoesOn, Asleep, InCall
<1>11. NodesAreCallers
  BY <1>6, <1>7 DEF NodesAreCallers, Moved
<1> QED
  BY <1>1, <1>7, <1>9, <1>10, <1>11 DEF IInv, Moved

\* Every step keeps the invariant, whoever polls what.
LEMMA StepKeeps ==
    ASSUME CarefulHolders, IInv, [Next]_vars
    PROVE  IInv' /\ SleepersWereBarred
<1>1. TypeOK /\ TypeOK'
  BY StepType DEF IInv
<1>2. \A t \in Threads : MayUse(t) => t \in open /\ ~InCall(op[t])
  BY AnswersAreOut DEF MayUse, Free
<1>3. ASSUME NEW t \in Threads, NEW n \in 1..MaxRead, Read(t, n) PROVE IInv' /\ SleepersWereBarred
  BY <1>1, <1>2, <1>3, FreeIsTaken, ReadKeeps DEF Read
<1>4. ASSUME NEW t \in Threads, NEW s \in Messages, Write(t, s) PROVE IInv' /\ SleepersWereBarred
  <2>1. s \in Seq(Bytes) /\ Taken(ev, t)
    BY <1>2, <1>4, FreeIsTaken, PipeAssumption DEF Write
  <2> QED
    BY <1>1, <1>2, <1>4, <2>1, WriteKeeps DEF Write
<1>5. ASSUME NEW t \in Threads, WaitMany(t) PROVE IInv' /\ SleepersWereBarred
  <2>1. op[t] \notin Told
    BY <1>5 DEF WaitMany, MayUse, CarefulHolders, Told
  <2> QED
    BY <1>1, <1>2, <1>5, <2>1, FreeIsTaken, AwaitKeeps DEF WaitMany
<1>6. ASSUME NEW t \in Threads, Again(t) PROVE IInv' /\ SleepersWereBarred
  <2>1. PICK e : e = [ev EXCEPT !.wait = Leave(@, t)] /\ Taken(e, t)
    BY LeftIsTaken
  <2>2. InCall(op[t]) /\ t \in open /\ op[t] \notin Told /\ open' = open
    BY <1>6, AnswersAreOut DEF Again, InCall, IInv, CallersAreOpen
  <2>3. IsCall(op[t])
    BY <1>1 DEF TypeOK, IsCall
  <2>4. CASE ev' = e /\ Answer(t, Over) /\ UNCHANGED ring
    BY <1>1, <2>1, <2>2, <2>4, OverKeeps DEF Answer, ring
  <2>5. CASE op[t].call = "read" /\ ReadLoop(t, e, op[t].size)
    <3>1. t \in Readers
      BY <2>2, <2>5 DEF IInv, CallersAreOpen, Fits
    <3> QED
      BY <1>1, <2>1, <2>2, <2>5, <3>1, ReadKeeps
  <2>6. CASE op[t].call = "write" /\ WriteLoop(t, e, op[t].rest)
    <3>1. op[t].rest \in Seq(Bytes) /\ t \in Writers
      BY <2>2, <2>3, <2>6, CallFacts DEF IInv, CallersAreOpen, Fits
    <3> QED
      BY <1>1, <2>1, <2>2, <2>6, <3>1, WriteKeeps
  <2>7. CASE op[t].call = "await" /\ AwaitLoop(t, e)
    <3>1. t \in Pollers
      BY <2>2, <2>7 DEF IInv, CallersAreOpen, Fits
    <3> QED
      BY <1>1, <2>1, <2>2, <2>7, <3>1, AwaitKeeps
  <2> QED
    BY <1>6, <2>1, <2>4, <2>5, <2>6, <2>7 DEF Again
<1>7. ASSUME NEW t \in Threads, NEW u \in Threads, Retain(t, u) PROVE IInv' /\ SleepersWereBarred
  BY <1>1, <1>7, RetainKeeps
<1>8. ASSUME NEW t \in Threads, Release(t) PROVE IInv' /\ SleepersWereBarred
  BY <1>1, <1>8, ReleaseWakes
<1>9. ASSUME NEW t \in Threads, Kill(t) PROVE IInv' /\ SleepersWereBarred
  BY <1>1, <1>9, KillKeeps
<1>10. CASE UNCHANGED vars
  BY <1>10 DEF vars, IInv, TypeOK, CallersAreOpen, NodesAreCallers, AsleepIsQueued, EventsFollow,
               SomebodyGoesOn, SleepersWereBarred, Asleep, LevelOf, Holders
<1> QED
  BY <1>3, <1>4, <1>5, <1>6, <1>7, <1>8, <1>9, <1>10 DEF Next

\* While there are bytes, room, or nobody left on the other side, some holder of
\* the end is out of its call or woken to look again, however many share an end,
\* whoever is killed and whoever polls (pipe.zig:42-47, 57-69, 75-131).
THEOREM SomebodyGoesOnHolds == CarefulHolders => (Spec => []SomebodyGoesOn)
<1> SUFFICES ASSUME CarefulHolders PROVE Spec => []SomebodyGoesOn
  OBVIOUS
<1>1. IInv /\ [Next]_vars => IInv'
  BY StepKeeps
<1>2. IInv => SomebodyGoesOn
  BY DEF IInv
<1> QED
  BY <1>1, <1>2, InitKeeps, PTL DEF Spec

\* An end that cannot go on has somebody on the other side.
LEMMA BarredIsOpen ==
    ASSUME NEW t \in Threads, NEW o \in SUBSET Threads, NEW n, ~Can(EndOf(t), n, o)
    PROVE  OpenIn(o, IF t \in Readers THEN Writers ELSE Readers) > 0
<1>1. IsFiniteSet(o)
  BY PipeAssumption, FS_Subset
<1>2. IsFiniteSet(o \cap Writers) /\ IsFiniteSet(o \cap Readers)
  BY <1>1, FS_Intersection
<1>3. OpenIn(o, Writers) \in Nat /\ OpenIn(o, Readers) \in Nat
  BY <1>2, FS_CardinalityType DEF OpenIn
<1> QED
  BY <1>3 DEF Can, EndOf, ReadableNow, WritableNow

\* More handles open leave nobody alone.
LEMMA MoreIsOpen ==
    ASSUME NEW o \in SUBSET Threads, NEW p \in SUBSET Threads, o \subseteq p, NEW S, OpenIn(o, S) > 0
    PROVE  OpenIn(p, S) > 0
<1>1. IsFiniteSet(p)
  BY PipeAssumption, FS_Subset
<1>2. IsFiniteSet(p \cap S)
  BY <1>1, FS_Intersection
<1>3. o \cap S \subseteq p \cap S
  OBVIOUS
<1>4. OpenIn(o, S) <= OpenIn(p, S) /\ OpenIn(o, S) \in Nat /\ OpenIn(p, S) \in Nat
  BY <1>2, <1>3, FS_Subset, FS_CardinalityType DEF OpenIn
<1> QED
  BY <1>4

\* The ring's places stay inside it and no end is left asleep, by the bytes and
\* the room there are or by the last close of the other end (pipe.zig:57-163).
THEOREM NoStrandedEndHolds == CarefulHolders /\ OnePollerEach => (Spec => []NoStrandedEnd)
<1> SUFFICES ASSUME CarefulHolders, OnePollerEach PROVE Spec => []NoStrandedEnd
  OBVIOUS
<1>1. IInv /\ EndReachesEveryone /\ [Next]_vars => IInv' /\ EndReachesEveryone'
  <2> SUFFICES ASSUME IInv, EndReachesEveryone, [Next]_vars
               PROVE  IInv' /\ EndReachesEveryone'
    OBVIOUS
  <2>1. IInv' /\ SleepersWereBarred
    BY StepKeeps
  <2>2. open \subseteq Threads /\ open' \subseteq Threads
    BY <2>1 DEF IInv, TypeOK
  <2>3. ASSUME NEW t \in Threads, Asleep(t)'
        PROVE  OpenIn(open', IF t \in Readers THEN Writers ELSE Readers) > 0
    <3>1. CASE Asleep(t) /\ open \subseteq open'
      BY <2>2, <3>1, MoreIsOpen DEF EndReachesEveryone
    <3>2. CASE ~Can(EndOf(t), len', open')
      BY <2>2, <3>2, BarredIsOpen
    <3> QED
      BY <2>1, <2>3, <3>1, <3>2 DEF SleepersWereBarred, OnePollerEach
  <2> QED
    BY <2>1, <2>3 DEF EndReachesEveryone
<1>2. Init => EndReachesEveryone
  BY AnswersAreOut DEF Init, EndReachesEveryone, Asleep, InCall
<1>3. IInv /\ EndReachesEveryone => NoStrandedEnd
  BY DEF IInv, NoStrandedEnd
<1> QED
  BY <1>1, <1>2, <1>3, InitKeeps, PTL DEF Spec

==============================================================================
