------------------------------- MODULE MixBank -------------------------------
(***************************************************************************)
(* The bank of voices behind vb_mix_* (src/src/lib/audio.zig, Mixer) as    *)
(* functions of a bank: one voice or None for each slot.                   *)
(*                                                                         *)
(* A voice is [from, count, at, looping, left, right]: it reads the `count`*)
(* samples that begin at `from`, has come to sample `at`, and is as loud   *)
(* as `left` and `right` say.  A step is one sample a frame; resampling    *)
(* and what a sum of samples comes to are left out.                        *)
(***************************************************************************)
EXTENDS Integers, FiniteSets

CONSTANTS Slots,    \* 0..VB_MIX_VOICES - 1
          None

EmptyBank == [s \in Slots |-> None]

Voice(from, count, left, right, looping) ==
    [from |-> from, count |-> count, at |-> 0, looping |-> looping,
     left |-> left, right |-> right]

\* vb_mix_start: refused for a slot that is not one or for no samples.
Startable(slot, count) == slot \in Slots /\ count > 0

\* Mixer.start and Mixer.stop; a slot past the bank is left alone.
Put(bank, slot, voice) ==
    IF slot \in Slots THEN [bank EXCEPT ![slot] = voice] ELSE bank

Playing(bank, slot) == slot \in Slots /\ bank[slot] # None

\* Mixer.setGain: a sound that ended is not made louder.
SetGain(bank, slot, left, right) ==
    IF Playing(bank, slot)
    THEN [bank EXCEPT ![slot].left = left, ![slot].right = right]
    ELSE bank

Silent(voice) == voice.left = 0 /\ voice.right = 0

\* The sample a line is drawn to from sample `at`.
After(voice, at) ==
    IF at + 1 < voice.count THEN at + 1 ELSE IF voice.looping THEN 0 ELSE at

\* The samples a voice is read at over the next n frames, two for each frame.
\* A voice turned down is moved on and not read; one past its end is not read
\* either.
Reads(voice, n) ==
    LET at == {IF voice.looping THEN (voice.at + i) % voice.count ELSE voice.at + i :
                 i \in {j \in 0..(n - 1) : voice.looping \/ voice.at + j < voice.count}}
    IN  IF Silent(voice) THEN {} ELSE at \cup {After(voice, a) : a \in at}

\* Where a voice is n frames on; a finished one is forgotten.
Moved(voice, n) ==
    LET at == voice.at + n
    IN  IF voice.looping THEN [voice EXCEPT !.at = at % voice.count]
        ELSE IF at >= voice.count THEN None
        ELSE [voice EXCEPT !.at = at]

\* Mixer.fill
Fill(bank, n) ==
    [s \in Slots |-> IF bank[s] = None THEN None ELSE Moved(bank[s], n)]

==============================================================================
