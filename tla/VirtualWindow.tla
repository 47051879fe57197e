---------------------------- MODULE VirtualWindow ----------------------------
(***************************************************************************)
(* What include/vibeee.h gives a program to draw on and to hear keys from: *)
(* the screen, the keyboard, and the virtual framebuffer, which is one of  *)
(* the desktop's windows where a desktop runs and the screen where none    *)
(* does.                                                                   *)
(*                                                                         *)
(*   desk      the window manager: none was started, it is up, it is gone  *)
(*   screen    whose the display is (kernel/display.zig, owner)            *)
(*   keyOwner  whose the keyboard is (kernel/input.zig, key_owner)         *)
(*   raw       the kernel's queue of keys for keyOwner                     *)
(*   ring      the manager's ring of events for the window's program       *)
(*   win       the window: where it is shown, whether it was closed, and   *)
(*             whether the manager still knows it                          *)
(*   pixels    the framebuffer's memory                                    *)
(*   down      the keys somebody is pressing                               *)
(*   lost      the keys whose last release the window was not told of      *)
(*                                                                         *)
(* The manager holds screen and keyboard while it is up, and passes keys   *)
(* on faster than its own queue fills.                                     *)
(***************************************************************************)
EXTENDS Integers, Sequences, FiniteSets

CONSTANTS Codes,        \* the keys pressed
          MaxDown,      \* how many of them are held down at once
          MaxEvents,    \* what a queue of events holds
          Nobody

ASSUME MaxEventsAssumption == MaxEvents \in Nat \ {0}

VARIABLES desk, screen, keyOwner, raw, ring, win, pixels, down, lost

machine == <<desk, screen, keyOwner, raw, down, lost>>
window == <<ring, win, pixels>>

\* vb_key: what happened to a key.  What the layout makes of it is left out.
Key(code, pressed) == [tag |-> "key", code |-> code, pressed |-> pressed]

Configure == [tag |-> "configure"]
CloseReq == [tag |-> "close_req"]

NoWindow == [where |-> "none", closed |-> FALSE, known |-> FALSE]

WindowInit ==
    /\ desk \in {"none", "up"}
    /\ screen = IF desk = "up" THEN "desk" ELSE Nobody
    /\ keyOwner = IF desk = "up" THEN "desk" ELSE Nobody
    /\ raw = <<>> /\ ring = <<>>
    /\ win = NoWindow /\ pixels = "none"
    /\ down = {} /\ lost = {}

\* A queue that is full keeps what was put in it first (Client.post, postRaw).
Posted(queue, event) ==
    IF Len(queue) < MaxEvents THEN Append(queue, event) ELSE queue

-----------------------------------------------------------------------------
\* The person and the manager.

Shown == desk = "up" /\ win.where = "desktop" /\ win.known

\* The window is the screen, and its program reads the keyboard.
Bare == win.where = "screen" /\ keyOwner = screen

\* A key goes down or comes up.  The manager keeps one that belongs to a
\* chord of its own, or that comes while another window has the focus.
KeyEdge(code) ==
    /\ code \in down \/ Cardinality(down) < MaxDown
    /\ down' = IF code \in down THEN down \ {code} ELSE down \cup {code}
    /\ LET event == Key(code, code \notin down)
       IN  \/ /\ ring' = IF Shown THEN Posted(ring, event) ELSE ring
              /\ raw' = IF keyOwner \notin {Nobody, "desk"} THEN Posted(raw, event) ELSE raw
           \/ /\ desk = "up"
              /\ UNCHANGED <<ring, raw>>
    /\ lost' = IF code \notin down \/ win.where = "none" THEN lost
               ELSE IF ring' # ring \/ (Bare /\ raw' # raw) THEN lost \ {code}
               ELSE lost \cup {code}
    /\ UNCHANGED <<desk, screen, keyOwner, win, pixels>>

\* tellSize and requestClose
ManagerSays(event) ==
    /\ Shown
    /\ ring' = Posted(ring, event)
    /\ UNCHANGED <<machine, win, pixels>>

\* .kill_window: the window is taken away without asking.
DropWindow ==
    /\ Shown
    /\ win' = [win EXCEPT !.known = FALSE]
    /\ UNCHANGED <<machine, ring, pixels>>

\* The manager's process ends; the kernel takes back what it held.
DeskEnds ==
    /\ desk = "up"
    /\ desk' = "gone" /\ screen' = Nobody /\ keyOwner' = Nobody
    /\ UNCHANGED <<raw, window, down, lost>>

-----------------------------------------------------------------------------
\* The screen and the keyboard.

vb_display_acquire(p) ==
    /\ screen = Nobody
    /\ screen' = p

vb_display_release(p) == screen' = IF screen = p THEN Nobody ELSE screen

CanClaim(p) == keyOwner \in {Nobody, p}

Least(a, b) == IF a < b THEN a ELSE b

\* Up to n keys, without waiting; none for who may not claim the keyboard.
KeysFor(p, n) == IF CanClaim(p) THEN SubSeq(raw, 1, Least(n, Len(raw))) ELSE <<>>

vb_key_read(p, n) ==
    /\ keyOwner' = IF CanClaim(p) THEN p ELSE keyOwner
    /\ raw' = SubSeq(raw, Len(KeysFor(p, n)) + 1, Len(raw))

\* The end of a process: a key it had not read is nobody's (releaseKeys).
Ended(p) ==
    /\ screen' = IF screen = p THEN Nobody ELSE screen
    /\ keyOwner' = IF keyOwner = p THEN Nobody ELSE keyOwner
    /\ raw' = IF keyOwner = p THEN <<>> ELSE raw

-----------------------------------------------------------------------------
\* The virtual framebuffer of program p.

\* Window.open as far as showSomewhere: the pixels, then a window of the
\* desktop, which the manager tells its size at once, or else the screen.
vb_window_open(p) ==
    /\ pixels' = "live"
    /\ IF desk = "up"
       THEN /\ win' = [where |-> "desktop", closed |-> FALSE, known |-> TRUE]
            /\ ring' = <<Configure>>
            /\ UNCHANGED screen
       ELSE /\ vb_display_acquire(p)
            /\ win' = [where |-> "screen", closed |-> FALSE, known |-> TRUE]
            /\ UNCHANGED ring
    /\ UNCHANGED <<desk, keyOwner, raw, down, lost>>

\* It was refused: there was no memory, the manager would not have another
\* window, or the screen was somebody's.
WindowRefused ==
    /\ pixels' \in {"none", "freed"}
    /\ UNCHANGED <<machine, ring, win>>

\* Both errdefers of Window.open run: close() frees the pixels and forgets
\* its own reference to them, and the first then frees them again.
OpenAbandoned ==
    /\ pixels' = "twice"
    /\ win' = [NoWindow EXCEPT !.closed = TRUE]
    /\ UNCHANGED <<machine, ring>>

\* Window.present: a commit fails where nobody answers it.  The answer itself
\* is not looked at, so one for a window the manager has dropped, which says
\* that there is no such window, is as good as any.
CanPresent == ~win.closed /\ (win.where = "desktop" => desk = "up")

\* Connection.attach and map may fail, and do where the window is not known.
Attaches == IF Shown THEN BOOLEAN ELSE {FALSE}

\* What vb_window_key_read(p, 1, 0) finds first, nothing being Nobody.
NextEvent(p) ==
    LET from == IF win.where = "desktop" THEN ring ELSE KeysFor(p, 1)
    IN  IF win.closed \/ from = <<>> THEN Nobody ELSE Head(from)

\* Window.next: a size that cannot be attached ends the window as a close
\* does.  Reading the bare keyboard claims it, whether or not a key is there.
vb_window_key_read(p, attached) ==
    /\ IF win.where = "desktop"
       THEN /\ ring' = IF NextEvent(p) = Nobody THEN ring ELSE Tail(ring)
            /\ win' = [win EXCEPT !.closed =
                          \/ @
                          \/ NextEvent(p) = CloseReq
                          \/ NextEvent(p) = Configure /\ ~attached]
            /\ UNCHANGED <<keyOwner, raw>>
       ELSE /\ vb_key_read(p, 1)
            /\ UNCHANGED <<ring, win>>
    /\ UNCHANGED <<desk, screen, down, lost, pixels>>

\* vb_window_close; the manager may be gone, which is no matter.
vb_window_close(p) ==
    /\ win' = [win EXCEPT !.closed = TRUE, !.known = FALSE]
    /\ pixels' = IF pixels = "live" THEN "freed" ELSE "twice"
    /\ ring' = <<>>

==============================================================================
