------------------------------- MODULE DoomPort -------------------------------
(***************************************************************************)
(* The platform half of apps/doom (doomgeneric_vibeee.c) on the window of  *)
(* VirtualWindow and the sound of DoomSound, beside examples/frames.c,     *)
(* which wants the bare screen.                                            *)
(*                                                                         *)
(*   doom     where the port is: starting, waiting for its surface, in     *)
(*            the engine's loop, leaving, in exit's handlers, ended        *)
(*   canvas   DG_ScreenBuffer: the engine's own memory or the window's     *)
(*   held     the keys the engine was told are down and not that they are  *)
(*            up again                                                     *)
(*   frames   where frames.c is; `elapsed` its clock, `display` its screen *)
(***************************************************************************)
EXTENDS VirtualWindow, DoomSound

CONSTANTS Displays,         \* the screens: [width, height, stride]
          BackW, BackH, Scale,
          FrameTime         \* frames drawn in the five seconds frames.c runs

VARIABLES doom, canvas, held, frames, elapsed, display

engine == <<canvas, held>>
framesVars == <<frames, elapsed, display>>
vars == <<machine, window, sound, doom, engine, framesVars>>

Init ==
    /\ WindowInit /\ SoundInit
    /\ doom = "start" /\ canvas = "own" /\ held = {}
    /\ frames = "start" /\ elapsed = 0
    /\ display = None

-----------------------------------------------------------------------------
\* The engine's name of a key, by where it sits; "0" is a key it has no use
\* for.  Two keys of a pair are one to the engine.
Engines(code) ==
    CASE code \in {"CONTROL_LEFT", "CONTROL_RIGHT"} -> "KEY_FIRE"
      [] code \in {"SHIFT_LEFT", "SHIFT_RIGHT"} -> "KEY_RSHIFT"
      [] code \in {"ALT_LEFT", "ALT_RIGHT"} -> "KEY_LALT"
      [] code \in {"SUPER_LEFT", "SUPER_RIGHT", "MENU", "ISO_EXTRA"} -> "0"
      [] OTHER -> code

\* A plausible slip: the name is what the layout makes of the key and of what
\* is down with it, so that a release may have another name than its press.
ByLayout(code) == IF "ISO_EXTRA" \in down THEN code ELSE Engines(code)

by_position(code) == Engines(code)

\* DG_Init as far as the window.
DG_Init ==
    /\ doom = "start"
    /\ \/ /\ vb_window_open("doom")
          /\ doom' = IF desk = "up" THEN "opening" ELSE "tick"
          /\ canvas' = IF desk = "up" THEN canvas ELSE "surface"
          /\ UNCHANGED <<sound, held, framesVars>>
       \/ /\ WindowRefused
          /\ doom' = "exit1"
          /\ UNCHANGED <<sound, engine, framesVars>>

\* Window.open still waiting for a surface to draw on.
WaitForSurface ==
    /\ doom = "opening" /\ ring # <<>>
    /\ \/ /\ Head(ring) = Configure /\ TRUE \in Attaches
          /\ ring' = Tail(ring)
          /\ doom' = "tick" /\ canvas' = "surface"
          /\ UNCHANGED <<machine, win, pixels>>
       \/ /\ OpenAbandoned
          /\ doom' = "exit1"
          /\ UNCHANGED canvas
    /\ UNCHANGED <<sound, held, framesVars>>

\* What the engine believes of its keys once it was told of one.
Told(event) ==
    IF event.pressed THEN held \cup {by_position(event.code)}
    ELSE held \ {by_position(event.code)}

\* DG_GetKey takes one event; passing over one the engine has no use for is
\* the next round of its loop.
DG_GetKey ==
    /\ doom = "tick"
    /\ \E attached \in Attaches : vb_window_key_read("doom", attached)
    /\ doom' = IF win'.closed /\ ~win.closed THEN "leaving" ELSE doom
    /\ held' = LET event == NextEvent("doom")
               IN  IF event = Nobody \/ event \in {Configure, CloseReq} THEN held
                   ELSE IF by_position(event.code) = "0" THEN held
                   ELSE Told(event)
    /\ UNCHANGED <<sound, canvas, framesVars>>

DG_DrawFrame ==
    /\ doom = "tick"
    /\ doom' = IF CanPresent THEN doom ELSE "leaving"
    /\ UNCHANGED <<machine, window, sound, engine, framesVars>>

\* The menu's own way out, which is I_Quit too.
EngineQuits ==
    /\ doom = "tick"
    /\ doom' = "leaving"
    /\ UNCHANGED <<machine, window, sound, engine, framesVars>>

EngineSounds ==
    /\ doom = "tick"
    /\ SoundCall
    /\ UNCHANGED <<machine, window, doom, engine, framesVars>>

\* A plausible slip: leave() without its exit, for an I_Quit that returns.
LeaveToTheEngine ==
    /\ doom = "leaving"
    /\ ShutdownSound
    /\ doom' = "tick"
    /\ UNCHANGED <<machine, window, engine, framesVars>>

\* leave: the engine's exit list, sound among it, and then exit(0).
leave ==
    /\ doom = "leaving"
    /\ ShutdownSound
    /\ doom' = "exit0"
    /\ UNCHANGED <<machine, window, engine, framesVars>>

\* exit's handlers, of which there is one once the window is open, and the
\* end of the process.  A killed process runs none.
EndDoom ==
    /\ \/ doom = "exit0" /\ vb_window_close("doom")
       \/ doom = "exit1" /\ UNCHANGED <<ring, win, pixels>>
       \/ /\ doom \notin {"exit0", "exit1", "ended"}
          /\ ring' = <<>> /\ win' = NoWindow /\ pixels' = "none"
    /\ doom' = "ended"
    /\ Ended("doom")
    /\ soundUp' = FALSE /\ speaking' = FALSE /\ bank' = EmptyBank
    /\ ready' = [s \in Sfx |-> None]
    /\ held' = {} /\ lost' = {} /\ canvas' = "own"
    /\ UNCHANGED <<desk, down, framesVars>>

-----------------------------------------------------------------------------
\* frames.c

\* main up to its loop
FramesStart ==
    /\ frames = "start"
    /\ \/ vb_display_acquire("frames") /\ frames' = "loop" /\ display' \in Displays
       \/ screen # Nobody /\ frames' = "ended" /\ UNCHANGED <<screen, display>>
    /\ UNCHANGED <<desk, keyOwner, raw, down, lost, window, sound, doom, engine, elapsed>>

\* A plausible slip: the last row and column are tested by where they start.
FitsByStart(at, size) == at <= size

Fits(at, size) == at + Scale <= size

\* present: the cells of the screen it writes, as places in the buffer.
Margin(size, back) == IF size < back * Scale THEN 0 ELSE (size - back * Scale) \div 2

Painted(d) ==
    LET left == Margin(d.width, BackW)
        top == Margin(d.height, BackH)
    IN  {(top + y * Scale + s) * d.stride + left + x * Scale + k :
            y \in {r \in 0..(BackH - 1) : Fits(top + r * Scale, d.height)},
            x \in {c \in 0..(BackW - 1) : Fits(left + c * Scale, d.width)},
            s \in 0..(Scale - 1), k \in 0..(Scale - 1)}

Quits(event) == event.pressed /\ event.code \in {"ESCAPE", "Q"}

\* One round of the loop: a frame, the keys there are, and the clock.
FramesRound ==
    /\ frames = "loop"
    /\ vb_key_read("frames", 8)
    /\ elapsed' = elapsed + 1
    /\ LET keys == KeysFor("frames", 8)
       IN  frames' = IF (\E i \in DOMAIN keys : Quits(keys[i])) \/ elapsed' >= FrameTime
                     THEN "done" ELSE frames
    /\ UNCHANGED <<desk, screen, down, lost, window, sound, doom, engine, display>>

\* The screen goes back before the figures are printed.
FramesRelease ==
    /\ frames = "done"
    /\ vb_display_release("frames")
    /\ frames' = "printing" /\ elapsed' = 0 /\ display' = None
    /\ UNCHANGED <<desk, keyOwner, raw, down, lost, window, sound, doom, engine>>

\* main returns, or the process is killed before it does.
EndFrames ==
    /\ frames \in {"loop", "done", "printing"}
    /\ frames' = "ended" /\ elapsed' = 0 /\ display' = None
    /\ Ended("frames")
    /\ UNCHANGED <<desk, down, lost, window, sound, doom, engine>>

-----------------------------------------------------------------------------
\* What happens around the programs.  (frames.c has been started by the time
\* the manager ends: a bound.)
Environment ==
    \/ \E code \in Codes : KeyEdge(code)
    \/ ManagerSays(Configure) \/ ManagerSays(CloseReq)
    \/ DropWindow
    \/ frames # "start" /\ DeskEnds

Next ==
    \/ Environment /\ UNCHANGED <<sound, doom, engine, framesVars>>
    \/ DG_Init \/ WaitForSurface \/ DG_GetKey \/ DG_DrawFrame
    \/ EngineQuits \/ EngineSounds \/ leave \/ EndDoom
    \/ FramesStart \/ FramesRound \/ FramesRelease \/ EndFrames

\* The engine's loop asks for keys and draws again and again; a program is
\* scheduled, and one that is leaving gets to its end.
Fairness ==
    /\ WF_vars(DG_GetKey) /\ WF_vars(DG_DrawFrame) /\ WF_vars(leave)
    /\ WF_vars(doom \in {"exit0", "exit1"} /\ EndDoom)
    /\ WF_vars(FramesRound) /\ WF_vars(FramesRelease)
    /\ WF_vars(frames = "printing" /\ EndFrames)

Spec == Init /\ [][Next]_vars /\ Fairness

-----------------------------------------------------------------------------
\* What a program draws into is its own for as long as it draws: the engine's
\* canvas is memory the window has not freed, the bare screen is the drawing
\* program's alone, frames.c writes no pixel outside the screen's rows, and a
\* framebuffer that was handed out is freed once.
DrawsIntoItsOwn ==
    /\ canvas = "surface" => pixels = "live" \/ doom = "ended"
    /\ doom \in {"tick", "leaving"} => canvas = "surface"
    /\ doom \in {"tick", "leaving"} /\ win.where = "screen" => screen = "doom"
    /\ frames \in {"loop", "done"} =>
          /\ screen = "frames"
          /\ \A at \in Painted(display) :
                at \div display.stride < display.height /\ at % display.stride < display.width
    /\ pixels = "twice" => win.where = "none"

\* A key the engine believes is down is down, or word that it came up is on
\* the way, or that word was never sent to this program: neither by_position
\* nor DG_GetKey loses or renames a release.
NoStuckKey ==
    \A k \in held :
        \E code \in Codes :
            /\ by_position(code) = k
            /\ \/ code \in down \/ code \in lost
               \/ \E i \in DOMAIN ring : ring[i] = Key(code, FALSE)
               \/ \E i \in DOMAIN raw : raw[i] = Key(code, FALSE)

\* What plays was found in a lump and stays in it, into a stream that is open.
VoicesAreSound == ReadsStayInLump /\ VoicesHaveAStream

\* A window asked to close, one that cannot be given a surface and one whose
\* manager died end the game, whatever the engine is doing, and frames.c gives
\* the screen back.  (A window the manager dropped goes on being presented.)
CloseEndsTheGame ==
    /\ (doom = "tick" /\ (win.closed \/ ~CanPresent \/ \E i \in DOMAIN ring : ring[i] = CloseReq))
          ~> (doom = "ended")
    /\ (frames = "loop") ~> (screen # "frames")

==============================================================================
