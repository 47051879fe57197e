---------------------------- MODULE SoundService ----------------------------
(***************************************************************************)
(* The sound service (src/src/user/sndd/main.zig) with the rings its       *)
(* clients share with it (src/src/user/proto/audio.zig, src/src/lib/       *)
(* spsc.zig), and the programs that play through vb_sound_* and vb_mix_*:  *)
(* examples/beep.c, examples/mixing.c and the sound half of Doom.          *)
(*                                                                         *)
(* The service is one loop: a request, a doorbell, a period interrupt, the *)
(* machine's wake and the supervisor's request to go are each handled to   *)
(* the end before the next.  A program and the service meet only in a ring *)
(* of shared memory, in the doorbell and in the port's event.              *)
(*                                                                         *)
(*   nodes      graph.nodes: how many of the node slots are taken          *)
(*   owner[q]   graph.ports: the program whose live port q is, or None     *)
(*   links      graph.links: the ports linked to the default sink          *)
(*   ring[q]    rings[q]: the segment of slot q, with the depth it was     *)
(*              made for (0: none yet), its two indices and its frames     *)
(*   ev[q]      the event of slot q; bell: the doorbell (signals pending)  *)
(*   engine     whether the device plays, the periods it was silent, what  *)
(*              the service is in the middle of, and `down`: playback was  *)
(*              ended by a sleep or did not start, and has not since       *)
(*   fate       whether the service is "up" or "gone"                      *)
(*   prog[p]    a program: where it is, its port, what it has done         *)
(*   bank[p]    its mixer                                                  *)
(*   heard[p]   the frames of p the service mixed, in that order           *)
(***************************************************************************)
EXTENDS MixBank, Sequences, FiniteSetsExt

CONSTANTS
    Programs,
    KindOf,         \* which program each is: "beep", "mixing" or "doom"
    Ports,          \* the port slots a program may be given, by number
    MaxNodes,       \* MAX_NODES, less the device's own
    Frames,         \* Depth.frames: [prompt |-> ..., steady |-> ...]
    IndexSpan,      \* how far a free-running index counts (2^32)
    Period,         \* PERIOD_FRAMES
    QuietLimit,     \* QUIET_LIMIT
    AtOnce,         \* the frames one write of each program carries at most
    Wanted,         \* the frames each program plays at least (mixing.c then one more)
    Runs,           \* how often each program is run
    Killable,       \* the programs that may be killed
    MaxSignals      \* where an event's count saturates

\* The depth each program opens with.
DepthOf == [p \in Programs |-> IF KindOf[p] = "doom" THEN "steady" ELSE "prompt"]

ASSUME SoundAssumption ==
    /\ Ports \subseteq Nat /\ IsFiniteSet(Ports)
    /\ \A d \in {"prompt", "steady"} : Frames[d] \in Nat \ {0} /\ IndexSpan % Frames[d] = 0
    /\ \A p \in Programs : AtOnce[p] \in Nat \ {0} /\ Frames[DepthOf[p]] < IndexSpan
    /\ Period \in Nat \ {0} /\ MaxSignals \in Nat \ {0}

VARIABLES nodes, owner, links, ring, ev, bell, engine, fate, prog, bank, heard

graph == <<nodes, owner, links>>
vars == <<graph, ring, ev, bell, engine, fate, prog, bank, heard>>

-----------------------------------------------------------------------------
(* The ring: a port is seen at the depth of whoever looks at it.           *)

Ahead(q) == (ring[q].head - ring[q].tail) % IndexSpan

\* Ring.readable, of a view of `holds` frames.
Readable(q, holds) == IF Ahead(q) > holds THEN holds ELSE Ahead(q)

\* A plausible slip: the room of a ring that keeps no place free is counted
\* one too many.
WritableAndOne(q, holds) == holds + 1 - Readable(q, holds)

\* Ring.writable
Writable(q, holds) == holds - Readable(q, holds)

\* The number of frames p's view of its ring has.
Holds == [p \in Programs |-> Frames[DepthOf[p]]]
Room(p) == Writable(prog[p].port, Holds[p])

Lesser(m, n) == IF m < n THEN m ELSE n

Signal(n) == Lesser(n + 1, MaxSignals)

-----------------------------------------------------------------------------
Init ==
    /\ nodes = 0
    /\ owner = [q \in Ports |-> None]
    /\ links = {}
    /\ ring = [q \in Ports |-> [made |-> 0, head |-> 0, tail |-> 0, cell |-> << >>]]
    /\ ev = [q \in Ports |-> 0]
    /\ bell = 0
    /\ engine = [running |-> FALSE, quiet |-> 0, feeders |-> {}, at |-> "loop",
                 from |-> None, took |-> << >>, sounded |-> FALSE, down |-> FALSE]
    /\ fate = "up"
    /\ prog = [p \in Programs |->
                 [at |-> "off", port |-> None, left |-> 0, n |-> 0, done |-> 0,
                  part |-> 1, made |-> 0, runs |-> 0]]
    /\ bank = [p \in Programs |-> EmptyBank]
    /\ heard = [p \in Programs |-> << >>]

Goto(p, where) == prog' = [prog EXCEPT ![p].at = where]

-----------------------------------------------------------------------------
(* The service: requests.  It takes one only between two passes.           *)

Serving == fate # "gone" /\ engine.at = "loop"

\* At most one loss a behaviour: a program is killed or the service goes.
Unhurt == fate = "up" /\ \A p \in Programs : prog[p].at # "killed"

\* device.ops.start, of a device that stands still: it may answer false, for
\* a controller that did not open again or an engine that does not reset.
Started(e) ==
    {[e EXCEPT !.quiet = 0, !.running = started, !.down = ~started] :
        started \in IF Unhurt THEN BOOLEAN ELSE {TRUE}}

\* A plausible slip: a device that went quiet is not started again.
StartFirst(e, fed) == IF e.running \/ fed = {} \/ e.quiet > 0 THEN {e} ELSE Started(e)

\* startPlaybackIfFed: the device is started when anything feeds the sink.
StartIfFed(e, fed) == IF e.running \/ fed = {} THEN {e} ELSE Started(e)

\* nodeCreate.  A node is never given back: nothing calls removeNode.
NodeCreate(p) ==
    /\ Serving /\ prog[p].at = "node"
    /\ IF nodes < MaxNodes
       THEN nodes' = nodes + 1 /\ Goto(p, "port")
       ELSE nodes' = nodes /\ Goto(p, "refused")
    /\ UNCHANGED <<owner, links, ring, ev, bell, engine, fate, bank, heard>>

\* portCreate: the first free slot; its segment and event are made once and
\* kept, and the indices begin again for every port.
PortCreate(p) ==
    /\ Serving /\ prog[p].at = "port"
    /\ LET free == {q \in Ports : owner[q] = None}
           q == Min(free)
           holds == Frames[DepthOf[p]]
       IN  /\ free # {}
           /\ owner' = [owner EXCEPT ![q] = p]
           /\ ring' = [ring EXCEPT ![q].head = 0, ![q].tail = 0,
                         ![q].made = IF @ = 0 THEN holds ELSE @,
                         ![q].cell = IF @ = << >> THEN [i \in 0..(holds - 1) |-> None] ELSE @]
           /\ prog' = [prog EXCEPT ![p].at = "link", ![p].port = q]
    /\ UNCHANGED <<nodes, links, ev, bell, engine, fate, bank, heard>>

\* portCreate refused: no slot, or no memory for a segment not made before.
PortRefused(p) ==
    /\ Serving /\ prog[p].at = "port"
    /\ LET free == {q \in Ports : owner[q] = None}
       IN  free = {} \/ ring[Min(free)].made = 0
    /\ Goto(p, "refused")
    /\ UNCHANGED <<graph, ring, ev, bell, engine, fate, bank, heard>>

\* mixing.c: three looping voices in slots 0 to 2, leaning left, on neither
\* side and right.
Chord == [s \in Slots |-> CASE s = 0 -> Voice(0, 2, 255, 90, TRUE)
                            [] s = 1 -> Voice(0, 2, 160, 160, TRUE)
                            [] s = 2 -> Voice(0, 2, 90, 255, TRUE)
                            [] OTHER -> None]

\* joinPorts, the end of vb_sound_open: the answer goes out, and wakeSinks
\* comes after it.  The program goes on to its loop; mixing.c starts its notes
\* first.
Link(p) ==
    /\ Serving /\ prog[p].at = "link"
    /\ links' = links \cup {prog[p].port}
    /\ engine' = [engine EXCEPT !.at = "wake"]
    /\ bank' = [bank EXCEPT ![p] = IF KindOf[p] = "mixing" THEN Chord ELSE @]
    /\ Goto(p, "loop")
    /\ UNCHANGED <<nodes, owner, ring, ev, bell, fate, heard>>

\* The port is granted and the rest of the opening fails: the segment is not
\* mapped, no port is the default sink, or graph.link finds its table full.
\* The port is to be dropped again.
OpenFails(p) ==
    /\ prog[p].at = "link"
    /\ Goto(p, "undo")
    /\ UNCHANGED <<graph, ring, ev, bell, engine, fate, bank, heard>>

\* portDrop: the first half of Port.close, and of an opening that failed
PortDrop(p) ==
    /\ Serving /\ prog[p].at \in {"drop", "undo"}
    /\ owner' = [owner EXCEPT ![prog[p].port] = None]
    /\ links' = links \ {prog[p].port}
    /\ prog' = [prog EXCEPT ![p].at = IF @ = "drop" THEN "ended" ELSE "refused",
                            ![p].port = None]
    /\ UNCHANGED <<nodes, ring, ev, bell, engine, fate, bank, heard>>

\* A request to a service that has gone fails; Port.close takes no notice.
RequestFails(p) ==
    /\ fate = "gone"
    /\ prog[p].at \in {"node", "port", "link", "drop", "undo"}
    /\ prog' = [prog EXCEPT ![p].at = IF @ = "drop" THEN "ended" ELSE "refused",
                            ![p].port = None]
    /\ UNCHANGED <<graph, ring, ev, bell, engine, fate, bank, heard>>

-----------------------------------------------------------------------------
(* The service: the device.                                                *)

\* waitMany answers the doorbell
Doorbell ==
    /\ Serving /\ bell > 0
    /\ bell' = bell - 1
    /\ engine' = [engine EXCEPT !.at = "wake"]
    /\ UNCHANGED <<graph, ring, ev, fate, prog, bank, heard>>

\* wakeSinks
WakeSinks ==
    /\ engine.at = "wake"
    /\ engine' \in StartIfFed([engine EXCEPT !.at = "loop"], links)
    /\ UNCHANGED <<graph, ring, ev, bell, fate, prog, bank, heard>>

\* The end of mix and of advance, once no feeder is left: a device silent for
\* long enough stops.
EndPass(e) ==
    IF e.feeders # {} THEN [e EXCEPT !.at = "pass"]
    ELSE LET quiet == IF e.sounded THEN 0 ELSE e.quiet + 1
         IN  [e EXCEPT !.at = "loop", !.quiet = quiet, !.running = quiet < QuietLimit,
                       !.sounded = FALSE]

\* A period finished: mix walks whatever feeds the sink.  A device that is
\* never heard of again is waited for with a deadline, but waitMany answers
\* that as an error, which `catch continue` takes: recoverStall is not reached.
PeriodInterrupt ==
    /\ Serving /\ engine.running
    /\ engine' = EndPass([engine EXCEPT !.feeders = links])
    /\ UNCHANGED <<graph, ring, ev, bell, fate, prog, bank, heard>>

\* Ring.peek of a feeder: copied out where the service's own view says.
Pop(q) ==
    LET n == Lesser(Readable(q, ring[q].made), Period)
    IN  [i \in 1..n |-> ring[q].cell[(ring[q].tail + i - 1) % ring[q].made]]

TakeFrom(q) ==
    /\ engine.at = "pass" /\ q \in engine.feeders
    /\ LET took == Pop(q)
       IN  engine' = IF took = << >>
                     THEN EndPass([engine EXCEPT !.feeders = @ \ {q}])
                     ELSE [engine EXCEPT !.at = "took", !.from = q, !.took = took]
    /\ UNCHANGED <<graph, ring, ev, bell, fate, prog, bank, heard>>

\* Ring.skip: what was copied out is the service's, and the room the
\* program's.
Skip(q) ==
    /\ engine.at = "took" /\ engine.from = q
    /\ ring' = [ring EXCEPT ![q].tail = (@ + Len(engine.took)) % IndexSpan]
    /\ heard' = [heard EXCEPT ![owner[q]] = @ \o engine.took]
    /\ engine' = [engine EXCEPT !.at = "tell", !.took = << >>, !.sounded = TRUE]
    /\ UNCHANGED <<graph, ev, bell, fate, prog, bank>>

\* A plausible slip: a feeder is told of room only when its ring is empty.
TellEmptied(q) == IF Ahead(q) = 0 THEN Signal(ev[q]) ELSE ev[q]

\* eventSignal of the feeder's event, after each period that took anything
Tell(q) == Signal(ev[q])

\* The feeder is told, its frames are blended and the pass goes on.
TellFeeder(q) ==
    /\ engine.at = "tell" /\ engine.from = q
    /\ ev' = [ev EXCEPT ![q] = Tell(q)]
    /\ engine' = EndPass([engine EXCEPT !.feeders = @ \ {q}, !.from = None])
    /\ UNCHANGED <<graph, ring, bell, fate, prog, bank, heard>>

\* takeTheHardwareAgain: the machine slept, and what was playing is not
\* resumed.  (With nothing playing it changes nothing that is modelled.)
TakeTheHardwareAgain ==
    /\ Serving /\ engine.running /\ Unhurt
    /\ engine' = [engine EXCEPT !.running = FALSE, !.down = TRUE]
    /\ UNCHANGED <<graph, ring, ev, bell, fate, prog, bank, heard>>

\* The supervisor asked: playback is stopped and the service exits.
Quit ==
    /\ Serving /\ Unhurt
    /\ fate' = "gone"
    /\ engine' = [engine EXCEPT !.running = FALSE]
    /\ UNCHANGED <<graph, ring, ev, bell, prog, bank, heard>>

==============================================================================
