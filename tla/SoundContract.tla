---------------------------- MODULE SoundContract ----------------------------
(***************************************************************************)
(* What include/vibeee.h promises a program about its sound stream,        *)
(* whatever serves it.  A stream holds the frames handed over and not yet  *)
(* played, never more than the program asked it to hold, and they are      *)
(* played once each, in the order they were handed over.                   *)
(*                                                                         *)
(*   stream[p]   whether p has its one output                              *)
(*   queue[p]    the frames p handed over that are still to be played      *)
(*   made[p]     how many frames p has handed over, which numbers them     *)
(*   heard[p]    the frames of p that were played                          *)
(*                                                                         *)
(* A frame is its program and its number: how it sounds is left out.       *)
(***************************************************************************)
EXTENDS Naturals, Sequences

CONSTANTS Programs, Holds   \* Holds[p]: the depth p opens with, in frames

VARIABLES stream, queue, made, heard

contract == <<stream, queue, made, heard>>

Init ==
    /\ stream = [p \in Programs |-> FALSE]
    /\ queue = [p \in Programs |-> << >>]
    /\ made = [p \in Programs |-> 0]
    /\ heard = [p \in Programs |-> << >>]

\* vb_sound_open answered 0; answered -1 it changes nothing.
Open(p) ==
    /\ ~stream[p]
    /\ stream' = [stream EXCEPT ![p] = TRUE]
    /\ UNCHANGED <<queue, made, heard>>

\* vb_sound_room
Room(p) == Holds[p] - Len(queue[p])

\* vb_sound_drained
Drained(p) == queue[p] = << >>

\* vb_sound_write, and each write vb_mix_pump makes: n frames are taken.
Write(p, n) ==
    /\ stream[p]
    /\ n \in 1..Room(p)
    /\ queue' = [queue EXCEPT ![p] = @ \o [i \in 1..n |-> <<p, made[p] + i>>]]
    /\ made' = [made EXCEPT ![p] = @ + n]
    /\ UNCHANGED <<stream, heard>>

\* The engine takes the oldest n frames: what vb_sound_wait waits for.
Play(p, n) ==
    /\ n \in 1..Len(queue[p])
    /\ heard' = [heard EXCEPT ![p] = @ \o SubSeq(queue[p], 1, n)]
    /\ queue' = [queue EXCEPT ![p] = SubSeq(@, n + 1, Len(@))]
    /\ UNCHANGED <<stream, made>>

\* vb_sound_close.  What was not played by then is not played.
Close(p) ==
    /\ stream[p]
    /\ stream' = [stream EXCEPT ![p] = FALSE]
    /\ queue' = [queue EXCEPT ![p] = << >>]
    /\ UNCHANGED <<made, heard>>

Next ==
    \E p \in Programs :
        \/ Open(p)
        \/ Close(p)
        \/ \E n \in 1..Holds[p] : Write(p, n) \/ Play(p, n)

Spec == Init /\ [][Next]_contract

==============================================================================
