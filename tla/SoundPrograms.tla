--------------------------- MODULE SoundPrograms ---------------------------
(***************************************************************************)
(* The programs that play, over the service of SoundService: one action    *)
(* for each stretch between two points where the service may be seen or    *)
(* may see the program.  A write is three of them: the frames are copied   *)
(* into the ring, the head is published, the doorbell is rung.             *)
(***************************************************************************)
EXTENDS SoundService

SoundUnchanged == UNCHANGED <<graph, engine, fate, heard>>

Final == {"ended", "refused", "killed", "fault"}

\* main up to vb_sound_open, in a process of its own each time.
Start(p) ==
    /\ prog[p].at = "off" \/ (prog[p].at \in {"ended", "refused"} /\ prog[p].runs < Runs)
    /\ prog' = [prog EXCEPT ![p].at = "node", ![p].runs = @ + 1, ![p].done = 0,
                            ![p].part = 1, ![p].left = 0, ![p].n = 0]
    /\ bank' = [bank EXCEPT ![p] = EmptyBank]
    /\ UNCHANGED <<ring, ev, bell>> /\ SoundUnchanged

Enough(p) == prog[p].done >= (IF prog[p].part = 1 THEN Wanted[p] ELSE 1)

\* How many of the frames offered Ring.push takes, and where p's view of the
\* ring puts them.
Pushed(p, offered) == Lesser(Lesser(offered, AtOnce[p]), Room(p))
Places(p, n) == {(ring[prog[p].port].head + i) % Holds[p] : i \in 0..(n - 1)}

\* vb_sound_write of beep.c and each turn of vb_mix_pump, with `left` frames
\* to go: Mixer.fill and the copy of Ring.push.  Past the end of the segment
\* nothing is mapped and the program is stopped.
Mix(p, left) ==
    LET q == prog[p].port
        n == Pushed(p, left)
    IN  /\ bank' = [bank EXCEPT ![p] = Fill(@, n)]
        /\ ring' = [ring EXCEPT ![q].cell =
                      [i \in DOMAIN @ |->
                         IF i \in Places(p, n)
                         THEN <<p, prog[p].made + 1 + ((i - ring[q].head) % Holds[p])>>
                         ELSE @[i]]]
        /\ prog' = [prog EXCEPT ![p].left = left, ![p].n = n,
                      ![p].at = IF \A i \in Places(p, n) : i < ring[q].made
                                THEN "publish" ELSE "fault"]

\* beep.c's loop: a full ring is waited on, never spun on.
BeepLoop(p) ==
    /\ KindOf[p] = "beep" /\ prog[p].at = "loop"
    /\ IF ~Enough(p) /\ Room(p) > 0
       THEN Mix(p, Lesser(Lesser(Room(p), AtOnce[p]), Wanted[p] - prog[p].done))
       ELSE /\ Goto(p, IF Enough(p) THEN "drain" ELSE "wait")
            /\ UNCHANGED <<ring, bank>>
    /\ UNCHANGED <<ev, bell>> /\ SoundUnchanged

\* mixing.c: pump and wait until enough was handed over, three notes and then
\* the middle one alone, then silence.  Doom pumps on its engine's beat
\* (vb_UpdateSound) and, shutting down, does not wait for what it handed over.
PumpLoop(p) ==
    /\ KindOf[p] # "beep" /\ prog[p].at = "loop"
    /\ CASE ~Enough(p) /\ Room(p) > 0 -> Mix(p, Room(p))
         [] ~Enough(p) /\ Room(p) = 0 ->
              /\ Goto(p, IF KindOf[p] = "mixing" THEN "wait" ELSE "loop")
              /\ UNCHANGED <<ring, bank>>
         [] Enough(p) /\ KindOf[p] = "mixing" /\ prog[p].part = 1 ->
              /\ prog' = [prog EXCEPT ![p].part = 2, ![p].done = 0]
              /\ bank' = [bank EXCEPT ![p] = Put(Put(@, 0, None), 2, None)]
              /\ UNCHANGED ring
         [] OTHER ->
              /\ Goto(p, IF KindOf[p] = "mixing" THEN "drain" ELSE "drop")
              /\ bank' = [bank EXCEPT ![p] = EmptyBank]
              /\ UNCHANGED ring
    /\ UNCHANGED <<ev, bell>> /\ SoundUnchanged

\* vb_mix_pump goes round: room was measured once, before the first turn.
PumpOn(p) ==
    /\ prog[p].at = "mix"
    /\ Mix(p, prog[p].left)
    /\ UNCHANGED <<ev, bell>> /\ SoundUnchanged

\* The release store of Ring.push: the frames are the service's to take.
Publish(p) ==
    /\ prog[p].at = "publish"
    /\ ring' = [ring EXCEPT ![prog[p].port].head = (@ + prog[p].n) % IndexSpan]
    /\ prog' = [prog EXCEPT ![p].at = "ring", ![p].made = @ + prog[p].n]
    /\ UNCHANGED <<ev, bell, bank>> /\ SoundUnchanged

\* Port.write's eventSignal, and the caller counting what was taken.
RingBell(p) ==
    /\ prog[p].at = "ring"
    /\ bell' = Signal(bell)
    /\ LET rest == prog[p].left - prog[p].n
       IN  prog' = [prog EXCEPT ![p].done = @ + prog[p].n, ![p].n = 0, ![p].left = rest,
                      ![p].at = IF rest > 0 THEN "mix"
                                ELSE IF KindOf[p] = "mixing" THEN "wait" ELSE "loop"]
    /\ UNCHANGED <<ring, ev, bank>> /\ SoundUnchanged

\* vb_sound_wait returns because the port's event was signalled.
Woken(p) ==
    /\ prog[p].at = "wait"
    /\ ev[prog[p].port] > 0
    /\ ev' = [ev EXCEPT ![prog[p].port] = @ - 1]
    /\ Goto(p, "loop")
    /\ UNCHANGED <<ring, bell, bank>> /\ SoundUnchanged

\* vb_sound_wait times out: beep.c's, with VB_WAIT_FOREVER, does not.
TimedOut(p) ==
    /\ prog[p].at = "wait" /\ KindOf[p] # "beep"
    /\ Goto(p, "loop")
    /\ UNCHANGED <<ring, ev, bell, bank>> /\ SoundUnchanged

\* A plausible slip: close as soon as everything was handed over.
WrittenIsHeard(p) == TRUE

\* vb_sound_drained
Drained(p) == Readable(prog[p].port, Holds[p]) = 0

\* while (!vb_sound_drained()) vb_sound_wait(...), then vb_sound_close.
Drain(p) ==
    /\ prog[p].at = "drain"
    /\ \/ Drained(p) /\ Goto(p, "drop") /\ UNCHANGED ev
       \/ /\ ~Drained(p) /\ ev[prog[p].port] > 0
          /\ ev' = [ev EXCEPT ![prog[p].port] = @ - 1]
          /\ UNCHANGED prog
    /\ UNCHANGED <<ring, bell, bank>> /\ SoundUnchanged

\* A program killed leaves its port, its link and its frames behind.
Kill(p) ==
    /\ p \in Killable /\ Unhurt /\ prog[p].at \notin Final \cup {"off"}
    /\ prog' = [prog EXCEPT ![p].at = "killed", ![p].left = 0, ![p].n = 0]
    /\ UNCHANGED <<ring, ev, bell, bank>> /\ SoundUnchanged

Request(p) ==
    NodeCreate(p) \/ PortCreate(p) \/ PortRefused(p) \/ Link(p) \/ OpenFails(p)
        \/ PortDrop(p) \/ RequestFails(p)

Step(p) ==
    \/ BeepLoop(p) \/ PumpLoop(p)
    \/ PumpOn(p) \/ Publish(p) \/ RingBell(p) \/ Woken(p) \/ TimedOut(p) \/ Drain(p)

Pass == \E q \in Ports : TakeFrom(q) \/ Skip(q) \/ TellFeeder(q)

Next ==
    \/ \E p \in Programs : Start(p) \/ Request(p) \/ Step(p) \/ Kill(p)
    \/ Doorbell \/ WakeSinks \/ PeriodInterrupt \/ Pass
    \/ TakeTheHardwareAgain \/ Quit

\* A program that can run does, and the service ends what it began; nothing
\* makes a start succeed or the device interrupt, or anybody be killed, started
\* or put to sleep.
Fairness ==
    /\ \A p \in Programs : WF_vars(Request(p) \/ Step(p))
    /\ WF_vars(Doorbell) /\ WF_vars(WakeSinks) /\ WF_vars(Pass)

Spec == Init /\ [][Next]_vars /\ Fairness

-----------------------------------------------------------------------------
(* What the service and its programs have to keep.                         *)

\* Every frame is heard once, in the order it was written and as it was
\* written: none is overwritten in the ring before the service took it, none
\* is read before it is there, nothing of an earlier stream in the segment is
\* heard, and no program is stopped for writing past its ring.  A program
\* that drained its stream and closed it was heard to the end.
StreamIsWhole ==
    \A p \in Programs :
        /\ heard[p] = [i \in 1..Len(heard[p]) |-> <<p, i>>]
        /\ Len(heard[p]) <= prog[p].made
        /\ prog[p].at # "fault"
        /\ prog[p].at = "ended" /\ KindOf[p] # "doom" => Len(heard[p]) = prog[p].made

\* Nobody is left waiting on the other side.  Frames in the ring of a running
\* program have a device that plays, a service about to start one or a doorbell
\* that will make it, and a program asleep on a full ring that is no longer
\* full has been or is being signalled.  The first of them fails only after a
\* start that was refused or a sleep of the machine, and holds again from the
\* next start that succeeds; a service that went keeps neither.
NoStrandedPlayer ==
    fate # "gone" =>
        \A p \in Programs : LET q == prog[p].port IN
            /\ q # None /\ prog[p].at \notin Final /\ q \in links /\ Ahead(q) > 0
                  => \/ engine.running \/ engine.at = "wake" \/ engine.down
                     \/ bell > 0 \/ prog[p].at = "ring"
            /\ KindOf[p] = "beep" /\ prog[p].at = "wait" /\ Room(p) > 0
                  => ev[q] > 0 \/ (engine.at = "tell" /\ engine.from = q)

AtWork(p) == prog[p].at \notin Final \cup {"off"}

\* A device that plays keeps interrupting.  Nothing in the service makes up
\* for one that does not.
DeviceInterrupts == WF_vars(PeriodInterrupt)

\* While the device interrupts, programs that ask for a stream are refused or
\* play to their end, all of them, also with starts refused and the machine
\* asleep in between and beside a program that was killed: as long as playback
\* does not stay down for good and the service does not go.
EveryPlayerEnds ==
    DeviceInterrupts =>
        ((\E p \in Programs : AtWork(p)) ~>
            (\A p \in Programs : ~AtWork(p)) \/ fate = "gone" \/ []engine.down)

-----------------------------------------------------------------------------
(* The stream each program was promised.                                   *)

PortOf(p) == {q \in Ports : owner[q] = p}

QueueOf(p) ==
    IF PortOf(p) = {} THEN << >>
    ELSE LET q == Min(PortOf(p))
         IN  [i \in 1..Ahead(q) |-> ring[q].cell[(ring[q].tail + i - 1) % ring[q].made]]

Contract == INSTANCE SoundContract WITH
    Holds  <- Holds,
    stream <- [p \in Programs |-> PortOf(p) # {}],
    queue  <- [p \in Programs |-> QueueOf(p)],
    made   <- [p \in Programs |-> prog[p].made],
    heard  <- heard

\* What a program sees of its stream is what vibeee.h says: frames wait in
\* order, never more than it asked to have held, until they are played.
ImplementsContract == Contract!Spec

==============================================================================
