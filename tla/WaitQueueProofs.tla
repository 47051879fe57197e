--------------------------- MODULE WaitQueueProofs ---------------------------
(***************************************************************************)
(* What the operations of WaitQueue preserve, for any threads and queues.  *)
(***************************************************************************)
EXTENDS WaitQueue, SequenceTheorems, WellFoundedInduction, TLAPS

\* A set of numbers has a least one: the entry a scan from the front finds.
LEMMA LeastExists ==
    ASSUME NEW T \in SUBSET Nat, T # {}
    PROVE  \E x \in T : \A y \in T : x <= y
<1>1. PICK x \in T : \A y \in T : <<y, x>> \notin OpToRel(<, Nat)
  BY NatLessThanWellFounded, WFMin
<1>2. \A y \in T : ~(y < x)
  BY <1>1 DEF OpToRel
<1> QED
  BY <1>2

\* Queue.remove leaves a list of the same kind of thing.
LEMMA WithoutType ==
    ASSUME NEW S, NEW s \in Seq(S), NEW t
    PROVE  Without(s, t) \in Seq(S)
<1>1. CASE ~ \E i \in 1..Len(s) : s[i] = t
  BY <1>1 DEF Without
<1>2. CASE \E i \in 1..Len(s) : s[i] = t
  <2> DEFINE at == CHOOSE i \in 1..Len(s) : s[i] = t
  <2>1. at \in 1..Len(s)
    BY <1>2
  <2> HIDE DEF at
  <2>2. SubSeq(s, 1, at - 1) \in Seq(S) /\ SubSeq(s, at + 1, Len(s)) \in Seq(S)
    <3>1. Len(s) \in Nat /\ at \in Int /\ at \in 1..Len(s)
      BY <2>1, LenProperties
    <3>2. \A i \in 1..Len(s) : s[i] \in S
      BY ElementOfSeq
    <3>3. SubSeq(s, 1, at - 1) \in Seq(S)
      <4>1. \A i \in 1..(at - 1) : s[i] \in S
        BY <3>1, <3>2
      <4>2. 1 \in Int /\ at - 1 \in Int
        BY <3>1
      <4> QED
        BY <4>1, <4>2, SubSeqProperties
    <3>4. SubSeq(s, at + 1, Len(s)) \in Seq(S)
      <4>1. \A i \in (at + 1)..Len(s) : s[i] \in S
        BY <3>1, <3>2
      <4>2. at + 1 \in Int /\ Len(s) \in Int
        BY <3>1
      <4> QED
        BY <4>1, <4>2, SubSeqProperties
    <3> QED
      BY <3>3, <3>4
  <2>3. Without(s, t) = SubSeq(s, 1, at - 1) \o SubSeq(s, at + 1, Len(s))
    BY <1>2 DEF Without, at
  <2> QED
    BY <2>2, <2>3
<1> QED
  BY <1>1, <1>2

\* Nobody waiting is a waiting state.
LEMMA NoWaitsType ==
    ASSUME NEW Threads, NEW Queues
    PROVE  NoWaits(Threads, Queues) \in WaitRecords(Threads, Queues)
BY DEF NoWaits, WaitRecords, RunStates

\* Queue.wakeOne keeps a waiting state one.
LEMMA WakeOneType ==
    ASSUME NEW Threads, NEW Queues, NEW q \in Queues,
           NEW w \in WaitRecords(Threads, Queues)
    PROVE  WakeOne(w, q) \in WaitRecords(Threads, Queues)
<1>1. CASE w.queue[q] = <<>>
  BY <1>1 DEF WakeOne
<1>2. CASE w.queue[q] # <<>>
  <2>1. w.queue[q] \in Seq(Threads)
    BY DEF WaitRecords
  <2>2. Head(w.queue[q]) \in Threads /\ Tail(w.queue[q]) \in Seq(Threads)
    BY <1>2, <2>1, HeadTailProperties
  <2> QED
    BY <1>2, <2>2 DEF WakeOne, WaitRecords, RunStates
<1> QED
  BY <1>1, <1>2

\* sched.unblock keeps a waiting state one.
LEMMA UnblockType ==
    ASSUME NEW Threads, NEW Queues, NEW t \in Threads,
           NEW w \in WaitRecords(Threads, Queues)
    PROVE  Unblock(w, t) \in WaitRecords(Threads, Queues)
BY DEF Unblock, WaitRecords, RunStates

\* The first half of blockOn keeps a waiting state one.
LEMMA BlockType ==
    ASSUME NEW Threads, NEW Queues, NEW t \in Threads, NEW Q, NEW d \in BOOLEAN,
           NEW w \in WaitRecords(Threads, Queues)
    PROVE  Block(w, t, Q, d) \in WaitRecords(Threads, Queues)
<1>1. \A q \in Queues : Append(w.queue[q], t) \in Seq(Threads)
  BY AppendProperties DEF WaitRecords
<1> QED
  BY <1>1 DEF Block, WaitRecords, RunStates

\* The second half of blockOn keeps a waiting state one.
LEMMA LeaveType ==
    ASSUME NEW Threads, NEW Queues, NEW t \in Threads,
           NEW w \in WaitRecords(Threads, Queues)
    PROVE  Leave(w, t) \in WaitRecords(Threads, Queues)
<1>1. \A q \in Queues : Without(w.queue[q], t) \in Seq(Threads)
  BY WithoutType DEF WaitRecords
<1> QED
  BY <1>1 DEF Leave, WaitRecords

-----------------------------------------------------------------------------
(* Who is on a queue: each operation as a change of the set of waiters. *)

\* A thread has at most one waiter node on a queue.
On(s, u) == \E i \in 1..Len(s) : s[i] = u
NoTwice(s) == \A i, j \in 1..Len(s) : s[i] = s[j] => i = j
OneNodeEach(w) == \A q \in DOMAIN w.queue : NoTwice(w.queue[q])

\* Being queued says the same of the list of waiters.
LEMMA QueuedIsOn ==
    ASSUME NEW w, NEW q, NEW t
    PROVE  Queued(w, q, t) <=> On(w.queue[q], t)
BY DEF Queued, On

\* Queue.remove takes out the thread named, and nobody else.
LEMMA WithoutMembers ==
    ASSUME NEW S, NEW s \in Seq(S), NEW t, NoTwice(s)
    PROVE  /\ NoTwice(Without(s, t))
           /\ \A u : On(Without(s, t), u) <=> u # t /\ On(s, u)
<1> USE DEF On
<1>1. CASE ~ \E i \in 1..Len(s) : s[i] = t
  BY <1>1 DEF Without
<1>2. CASE \E i \in 1..Len(s) : s[i] = t
  <2>1. PICK at \in 1..Len(s) :
            /\ s[at] = t
            /\ Without(s, t) = SubSeq(s, 1, at - 1) \o SubSeq(s, at + 1, Len(s))
    <3> DEFINE at == CHOOSE i \in 1..Len(s) : s[i] = t
    <3>1. at \in 1..Len(s) /\ s[at] = t
      BY <1>2
    <3>2. Without(s, t) = SubSeq(s, 1, at - 1) \o SubSeq(s, at + 1, Len(s))
      BY <1>2 DEF Without
    <3> HIDE DEF at
    <3> QED
      BY <3>1, <3>2
  <2>2. Len(s) \in Nat /\ at \in Int /\ 1 <= at /\ at <= Len(s)
    BY LenProperties
  <2>3. /\ SubSeq(s, 1, at - 1) \in Seq(S)
        /\ Len(SubSeq(s, 1, at - 1)) = at - 1
        /\ \A i \in 1..(at - 1) : SubSeq(s, 1, at - 1)[i] = s[i]
    <3>1. \A i \in 1..(at - 1) : s[i] \in S
      BY <2>2, ElementOfSeq
    <3>2. 1 \in Int /\ at - 1 \in Int
      BY <2>2
    <3>3. /\ SubSeq(s, 1, at - 1) \in Seq(S)
          /\ Len(SubSeq(s, 1, at - 1)) = IF 1 <= at - 1 THEN (at - 1) - 1 + 1 ELSE 0
          /\ \A i \in 1..((at - 1) - 1 + 1) : SubSeq(s, 1, at - 1)[i] = s[1 + i - 1]
      BY <3>1, <3>2, SubSeqProperties
    <3> QED
      BY <2>2, <3>3
  <2>4. /\ SubSeq(s, at + 1, Len(s)) \in Seq(S)
        /\ Len(SubSeq(s, at + 1, Len(s))) = Len(s) - at
        /\ \A i \in 1..(Len(s) - at) : SubSeq(s, at + 1, Len(s))[i] = s[at + i]
    <3>1. \A i \in (at + 1)..Len(s) : s[i] \in S
      BY <2>2, ElementOfSeq
    <3>2. at + 1 \in Int /\ Len(s) \in Int
      BY <2>2
    <3>3. /\ SubSeq(s, at + 1, Len(s)) \in Seq(S)
          /\ Len(SubSeq(s, at + 1, Len(s)))
               = IF at + 1 <= Len(s) THEN Len(s) - (at + 1) + 1 ELSE 0
          /\ \A i \in 1..(Len(s) - (at + 1) + 1) :
                 SubSeq(s, at + 1, Len(s))[i] = s[at + 1 + i - 1]
      BY <3>1, <3>2, SubSeqProperties
    <3> QED
      BY <2>2, <3>3
  <2>5. /\ Len(Without(s, t)) = Len(s) - 1
        /\ \A i \in 1..(Len(s) - 1) :
               Without(s, t)[i] = IF i < at THEN s[i] ELSE s[i + 1]
    <3>1. PICK a \in Seq(S), b \in Seq(S) :
              a = SubSeq(s, 1, at - 1) /\ b = SubSeq(s, at + 1, Len(s))
      BY <2>3, <2>4
    <3>2. /\ Len(a \o b) = Len(a) + Len(b)
          /\ \A i \in 1..Len(a) + Len(b) :
                 (a \o b)[i] = IF i <= Len(a) THEN a[i] ELSE b[i - Len(a)]
      BY ConcatProperties
    <3>3. /\ Len(a) = at - 1 /\ \A i \in 1..(at - 1) : a[i] = s[i]
          /\ Len(b) = Len(s) - at /\ \A i \in 1..(Len(s) - at) : b[i] = s[at + i]
          /\ Without(s, t) = a \o b
      BY <2>1, <2>3, <2>4, <3>1
    <3>4. Len(Without(s, t)) = Len(s) - 1
      BY <2>2, <3>2, <3>3
    <3>5. ASSUME NEW i \in 1..(Len(s) - 1)
          PROVE  Without(s, t)[i] = IF i < at THEN s[i] ELSE s[i + 1]
      <4>1. (a \o b)[i] = IF i <= at - 1 THEN a[i] ELSE b[i - (at - 1)]
        BY <2>2, <3>2, <3>3
      <4>2. CASE i < at
        BY <2>2, <3>3, <4>1, <4>2
      <4>3. CASE ~(i < at)
        <5>1. i - (at - 1) \in 1..(Len(s) - at) /\ at + (i - (at - 1)) = i + 1
          BY <2>2, <4>3
        <5>2. b[i - (at - 1)] = s[at + (i - (at - 1))]
          BY <3>3, <5>1
        <5> QED
          BY <2>2, <3>3, <4>1, <4>3, <5>1, <5>2
      <4> QED
        BY <4>2, <4>3
    <3> QED
      BY <3>4, <3>5
  <2>6. NoTwice(Without(s, t))
    BY <2>2, <2>5 DEF NoTwice
  <2>7. ASSUME NEW u, NEW i \in 1..Len(Without(s, t)), Without(s, t)[i] = u
        PROVE  u # t /\ \E j \in 1..Len(s) : s[j] = u
    <3>1. i \in 1..(Len(s) - 1) /\ i \in Int
      BY <2>2, <2>5
    <3>2. CASE i < at
      <4>1. i \in 1..Len(s) /\ s[i] = u /\ i # at
        BY <2>2, <2>5, <2>7, <3>1, <3>2
      <4> QED
        BY <2>1, <4>1 DEF NoTwice
    <3>3. CASE ~(i < at)
      <4>1. i + 1 \in 1..Len(s) /\ s[i + 1] = u /\ i + 1 # at
        BY <2>2, <2>5, <2>7, <3>1, <3>3
      <4> QED
        BY <2>1, <4>1 DEF NoTwice
    <3> QED
      BY <3>2, <3>3
  <2>8. ASSUME NEW u, u # t, NEW j \in 1..Len(s), s[j] = u
        PROVE  \E i \in 1..Len(Without(s, t)) : Without(s, t)[i] = u
    <3>1. CASE j < at
      BY <2>2, <2>5, <2>8, <3>1
    <3>2. CASE j > at
      <4>1. j - 1 \in 1..(Len(s) - 1) /\ ~(j - 1 < at)
        BY <2>2, <3>2
      <4>2. Without(s, t)[j - 1] = s[(j - 1) + 1] /\ (j - 1) + 1 = j
        BY <2>2, <2>5, <4>1
      <4> QED
        BY <2>5, <2>8, <4>1, <4>2
    <3>3. CASE j = at
      BY <2>1, <2>8, <3>3
    <3>4. j \in Int
      BY <2>2
    <3> QED
      BY <2>2, <3>1, <3>2, <3>3, <3>4
  <2> QED
    BY <2>6, <2>7, <2>8
<1> QED
  BY <1>1, <1>2

\* An empty queue has no waiters.
LEMMA EmptyHasNobody ==
    ASSUME NEW Threads, NEW Queues, NEW q \in Queues,
           NEW w \in WaitRecords(Threads, Queues)
    PROVE  w.queue[q] = <<>> <=> \A t : ~Queued(w, q, t)
<1>1. w.queue[q] \in Seq(Threads)
  BY DEF WaitRecords
<1>2. ASSUME w.queue[q] # <<>> PROVE \E t : Queued(w, q, t)
  <2>1. Len(w.queue[q]) \in Nat \ {0}
    BY <1>1, <1>2, EmptySeq
  <2>2. 1 \in 1..Len(w.queue[q])
    BY <2>1
  <2>3. Queued(w, q, w.queue[q][1])
    BY <2>2, Zenon DEF Queued
  <2> QED
    BY <2>3
<1>3. ASSUME w.queue[q] = <<>>, NEW t PROVE ~Queued(w, q, t)
  <2>1. 1..Len(w.queue[q]) = {}
    BY <1>3, EmptySeq
  <2> QED
    BY <2>1 DEF Queued
<1> QED
  BY <1>2, <1>3, Zenon

\* x is w with thread t taken off queue q, flagged and made runnable.
Woke(w, x, Queues, q, t) ==
    /\ Queued(w, q, t)
    /\ x.state = [w.state EXCEPT ![t] = "ready"]
    /\ x.woken = [w.woken EXCEPT ![t] = @ \cup {q}]
    /\ \A p \in Queues : \A u : Queued(x, p, u) <=> Queued(w, p, u) /\ ~(p = q /\ u = t)

\* Queue.wakeOne: nobody was there, or one thread of the queue leaves it and is
\* made runnable.
LEMMA WakeOneMembers ==
    ASSUME NEW Threads, NEW Queues, NEW q \in Queues,
           NEW w \in WaitRecords(Threads, Queues), OneNodeEach(w)
    PROVE  /\ OneNodeEach(WakeOne(w, q))
           /\ \/ /\ \A t : ~Queued(w, q, t)
                 /\ WakeOne(w, q) = w
              \/ \E t \in Threads : Woke(w, WakeOne(w, q), Queues, q, t)
<1>1. CASE w.queue[q] = <<>>
  BY <1>1, EmptyHasNobody DEF WakeOne
<1>2. CASE w.queue[q] # <<>>
  <2>1. w.queue[q] \in Seq(Threads) /\ DOMAIN w.queue = Queues
    BY DEF WaitRecords
  <2>2. PICK s \in Seq(Threads) : s = w.queue[q]
    BY <2>1
  <2>3. PICK t : t = Head(s)
    OBVIOUS
  <2>4. /\ Len(s) \in Nat \ {0} /\ t = s[1] /\ t \in Threads
        /\ Len(Tail(s)) = Len(s) - 1
        /\ \A i \in 1..(Len(s) - 1) : Tail(s)[i] = s[i + 1]
    <3>1. s # <<>> /\ Len(s) \in Nat \ {0}
      BY <1>2, <2>2, EmptySeq
    <3>2. /\ t \in Threads /\ Len(Tail(s)) = Len(s) - 1
          /\ \A i \in 1..Len(Tail(s)) : Tail(s)[i] = s[i + 1]
      BY <2>3, <3>1, HeadTailProperties
    <3>3. t = s[1]
      BY <2>3, <3>1
    <3> QED
      BY <3>1, <3>2, <3>3
  <2>5. NoTwice(s)
    BY <2>1, <2>2 DEF OneNodeEach
  <2>6. NoTwice(Tail(s))
    BY <2>4, <2>5 DEF NoTwice
  <2>7. \A u : On(Tail(s), u) <=> On(s, u) /\ u # t
    <3>1. ASSUME NEW u, NEW i \in 1..Len(Tail(s)), Tail(s)[i] = u
          PROVE  (\E j \in 1..Len(s) : s[j] = u) /\ u # t
      <4>1. i + 1 \in 1..Len(s) /\ s[i + 1] = u /\ i + 1 # 1
        BY <2>4, <3>1
      <4>2. 1 \in 1..Len(s)
        BY <2>4
      <4> QED
        BY <2>4, <2>5, <4>1, <4>2 DEF NoTwice
    <3>2. ASSUME NEW u, NEW j \in 1..Len(s), s[j] = u, u # t
          PROVE  \E i \in 1..Len(Tail(s)) : Tail(s)[i] = u
      <4>1. j - 1 \in 1..(Len(s) - 1) /\ (j - 1) + 1 = j
        BY <2>4, <3>2
      <4>2. Tail(s)[j - 1] = s[(j - 1) + 1]
        BY <2>4, <4>1
      <4> QED
        BY <2>4, <3>2, <4>1, <4>2
    <3> QED
      BY <3>1, <3>2 DEF On
  <2>8. /\ WakeOne(w, q).queue = [w.queue EXCEPT ![q] = Tail(s)]
        /\ WakeOne(w, q).state = [w.state EXCEPT ![t] = "ready"]
        /\ WakeOne(w, q).woken = [w.woken EXCEPT ![t] = @ \cup {q}]
    BY <1>2, <2>2, <2>3 DEF WakeOne
  <2>9. OneNodeEach(WakeOne(w, q))
    BY <2>1, <2>6, <2>8 DEF OneNodeEach
  <2>10. Queued(w, q, t)
    BY <2>2, <2>4 DEF Queued
  <2>11. ASSUME NEW p \in Queues, NEW u
         PROVE  Queued(WakeOne(w, q), p, u) <=> Queued(w, p, u) /\ ~(p = q /\ u = t)
    <3>1. CASE p = q
      <4>1. WakeOne(w, q).queue[p] = Tail(s)
        BY <2>1, <2>8, <3>1
      <4> QED
        BY <2>2, <2>7, <3>1, <4>1, QueuedIsOn
    <3>2. CASE p # q
      <4>1. WakeOne(w, q).queue[p] = w.queue[p]
        BY <2>1, <2>8, <3>2
      <4> QED
        BY <3>2, <4>1 DEF Queued
    <3> QED
      BY <3>1, <3>2
  <2>12. Woke(w, WakeOne(w, q), Queues, q, t)
    BY <2>8, <2>10, <2>11 DEF Woke
  <2> QED
    BY <2>4, <2>9, <2>12
<1> QED
  BY <1>1, <1>2

\* sched.unblock touches no queue.
LEMMA UnblockMembers ==
    ASSUME NEW Threads, NEW Queues, NEW t \in Threads,
           NEW w \in WaitRecords(Threads, Queues), OneNodeEach(w)
    PROVE  /\ OneNodeEach(Unblock(w, t))
           /\ \A q, u : Queued(Unblock(w, t), q, u) <=> Queued(w, q, u)
BY DEF Unblock, OneNodeEach, Queued

\* The first half of blockOn adds the thread to the queues named.
LEMMA BlockMembers ==
    ASSUME NEW Threads, NEW Queues, NEW t \in Threads, NEW Q,
           NEW d \in BOOLEAN,
           NEW w \in WaitRecords(Threads, Queues), OneNodeEach(w),
           \A q \in Queues : ~Queued(w, q, t)
    PROVE  /\ OneNodeEach(Block(w, t, Q, d))
           /\ \A q \in Queues : \A u :
                 Queued(Block(w, t, Q, d), q, u) <=> Queued(w, q, u) \/ (q \in Q /\ u = t)
<1>1. DOMAIN w.queue = Queues /\ \A q \in Queues : w.queue[q] \in Seq(Threads)
  BY DEF WaitRecords
<1>2. /\ DOMAIN Block(w, t, Q, d).queue = Queues
      /\ \A q \in Queues : Block(w, t, Q, d).queue[q]
                              = IF q \in Q THEN Append(w.queue[q], t) ELSE w.queue[q]
  BY <1>1 DEF Block
<1>3. ASSUME NEW q \in Queues
      PROVE  /\ NoTwice(Block(w, t, Q, d).queue[q])
             /\ \A u : Queued(Block(w, t, Q, d), q, u)
                          <=> Queued(w, q, u) \/ (q \in Q /\ u = t)
  <2>1. CASE q \notin Q
    BY <1>1, <1>2, <2>1 DEF Queued, OneNodeEach
  <2>2. CASE q \in Q
    <3>1. PICK s \in Seq(Threads) : s = w.queue[q]
      BY <1>1
    <3>2. /\ Len(s) \in Nat /\ Len(Append(s, t)) = Len(s) + 1
          /\ \A i \in 1..Len(s) : Append(s, t)[i] = s[i]
          /\ Append(s, t)[Len(s) + 1] = t
      BY AppendProperties, LenProperties
    <3>3. NoTwice(s) /\ \A i \in 1..Len(s) : s[i] # t
      BY <1>1, <2>2, <3>1 DEF OneNodeEach, Queued
    <3>4. NoTwice(Append(s, t))
      BY <3>2, <3>3 DEF NoTwice
    <3>5. \A u : (\E i \in 1..Len(Append(s, t)) : Append(s, t)[i] = u)
                   <=> (\E i \in 1..Len(s) : s[i] = u) \/ u = t
      <4>1. Len(s) + 1 \in 1..(Len(s) + 1) /\ \A i \in 1..Len(s) : i \in 1..(Len(s) + 1)
        BY <3>2
      <4>2. \A i \in 1..(Len(s) + 1) : i \in 1..Len(s) \/ i = Len(s) + 1
        BY <3>2
      <4> QED
        BY <3>2, <4>1, <4>2
    <3> QED
      BY <1>2, <2>2, <3>1, <3>4, <3>5 DEF Queued
  <2> QED
    BY <2>1, <2>2
<1> QED
  BY <1>2, <1>3 DEF OneNodeEach

\* The second half of blockOn takes the thread off every queue.
LEMMA LeaveMembers ==
    ASSUME NEW Threads, NEW Queues, NEW t \in Threads,
           NEW w \in WaitRecords(Threads, Queues), OneNodeEach(w)
    PROVE  /\ OneNodeEach(Leave(w, t))
           /\ \A q \in Queues : \A u :
                 Queued(Leave(w, t), q, u) <=> Queued(w, q, u) /\ u # t
<1>1. DOMAIN w.queue = Queues /\ \A q \in Queues : w.queue[q] \in Seq(Threads)
  BY DEF WaitRecords
<1>2. /\ DOMAIN Leave(w, t).queue = Queues
      /\ \A q \in Queues : Leave(w, t).queue[q] = Without(w.queue[q], t)
  BY <1>1 DEF Leave
<1>3. ASSUME NEW q \in Queues
      PROVE  /\ NoTwice(Without(w.queue[q], t))
             /\ \A u : Queued(Leave(w, t), q, u) <=> Queued(w, q, u) /\ u # t
  <2>1. NoTwice(w.queue[q])
    BY <1>1 DEF OneNodeEach
  <2> QED
    <3>1. PICK s \in Seq(Threads) : s = w.queue[q]
      BY <1>1
    <3>2. /\ NoTwice(Without(s, t))
          /\ \A u : On(Without(s, t), u) <=> u # t /\ On(s, u)
      BY <2>1, <3>1, WithoutMembers
    <3> QED
      BY <1>2, <3>1, <3>2, QueuedIsOn
<1> QED
  BY <1>2, <1>3 DEF OneNodeEach

\* Queue.wakeAll keeps a waiting state one.
LEMMA WakeEachType ==
    ASSUME NEW Threads, NEW Queues, NEW Q \in SUBSET Queues,
           NEW w \in WaitRecords(Threads, Queues)
    PROVE  WakeEach(w, Q) \in WaitRecords(Threads, Queues)
<1>1. /\ w.queue \in [Queues -> Seq(Threads)] /\ w.state \in [Threads -> RunStates]
      /\ w.woken \in [Threads -> SUBSET Queues]
  BY DEF WaitRecords
<1>2. /\ WakeEach(w, Q).queue = [q \in Queues |-> IF q \in Q THEN <<>> ELSE w.queue[q]]
      /\ WakeEach(w, Q).state = [t \in Threads |->
             IF \E q \in Q : Queued(w, q, t) THEN "ready" ELSE w.state[t]]
      /\ WakeEach(w, Q).woken = [t \in Threads |->
             w.woken[t] \cup {q \in Q : Queued(w, q, t)}]
  BY <1>1 DEF WakeEach
<1>3. /\ WakeEach(w, Q).queue \in [Queues -> Seq(Threads)]
      /\ WakeEach(w, Q).state \in [Threads -> RunStates]
      /\ WakeEach(w, Q).woken \in [Threads -> SUBSET Queues]
  BY <1>1, <1>2, EmptySeq DEF RunStates
<1> QED
  BY <1>3 DEF WaitRecords, WakeEach

\* Queue.wakeAll empties the queues named and makes their waiters runnable.
LEMMA WakeEachMembers ==
    ASSUME NEW Threads, NEW Queues, NEW Q \in SUBSET Queues,
           NEW w \in WaitRecords(Threads, Queues), OneNodeEach(w)
    PROVE  /\ OneNodeEach(WakeEach(w, Q))
           /\ \A q \in Queues : \A u :
                 Queued(WakeEach(w, Q), q, u) <=> Queued(w, q, u) /\ q \notin Q
<1>1. /\ w.queue \in [Queues -> Seq(Threads)]
      /\ WakeEach(w, Q).queue = [q \in Queues |-> IF q \in Q THEN <<>> ELSE w.queue[q]]
  BY DEF WakeEach, WaitRecords
<1>2. NoTwice(<<>>) /\ \A u : ~ \E i \in 1..Len(<<>>) : <<>>[i] = u
  BY EmptySeq DEF NoTwice
<1>3. OneNodeEach(WakeEach(w, Q))
  BY <1>1, <1>2 DEF OneNodeEach
<1>4. ASSUME NEW q \in Queues, NEW u
      PROVE  Queued(WakeEach(w, Q), q, u) <=> Queued(w, q, u) /\ q \notin Q
  BY <1>1, <1>2 DEF Queued
<1> QED
  BY <1>3, <1>4

==============================================================================
