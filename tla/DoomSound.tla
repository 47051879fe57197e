------------------------------ MODULE DoomSound ------------------------------
(***************************************************************************)
(* The sound half of apps/doom/doomgeneric_vibeee.c: the module the engine *)
(* calls, over the mixer of MixBank.  The engine is not this project's: it *)
(* calls any of these, at any time, with any sound and channel.            *)
(*                                                                         *)
(*   soundUp    sound_up                                                   *)
(*   speaking   whether vb_sound_open gave the program its stream          *)
(*   ready      sfxinfo.driver_data: the samples of a sound once found     *)
(*   bank       the mixer's voices                                         *)
(***************************************************************************)
EXTENDS MixBank

CONSTANTS
    Sfx,            \* the engine's sounds
    LumpOf,         \* the lump a sound's name finds, its link's where it has one
    Lump,           \* a lump: [start, length, format, rate, count], as a wad holds it
    Loudness,       \* the volumes and separations the engine asks for
    Beat            \* the frames one pump mixes

VARIABLES soundUp, speaking, ready, bank

sound == <<soundUp, speaking, ready, bank>>

SoundInit ==
    /\ soundUp = FALSE /\ speaking = FALSE
    /\ ready = [s \in Sfx |-> None]
    /\ bank = EmptyBank

\* A plausible slip: the header is counted among the samples.
SamplesWithHeader(lump) ==
    IF lump.length < 8 \/ ~lump.format \/ lump.rate = 0 \/ lump.count = 0
          \/ lump.count > lump.length
    THEN None
    ELSE IF lump.count > 48 THEN [from |-> lump.start + 24, count |-> lump.count - 32]
    ELSE [from |-> lump.start + 8, count |-> lump.count]

\* sfx_of, for a sound not found before: where in its lump the samples are.
\* The first and last sixteen of a sound that has them to spare are padding.
Samples(lump) ==
    IF lump.length < 8 \/ ~lump.format \/ lump.rate = 0 \/ lump.count = 0
          \/ lump.count > lump.length - 8
    THEN None
    ELSE IF lump.count > 48 THEN [from |-> lump.start + 24, count |-> lump.count - 32]
    ELSE [from |-> lump.start + 8, count |-> lump.count]

\* vb_GetSfxLumpNum and sfx_of
Found(s) == IF ready[s] # None THEN ready[s] ELSE Samples(Lump[LumpOf[s]])

Clamped(n) == IF n < 0 THEN 0 ELSE IF n > 255 THEN 255 ELSE n

\* Doom's volume and separation as the loudness of each side.  The division
\* is C's; the quotient of a negative number is clamped to nought either way.
Left(vol, sep) == Clamped(((254 - sep) * vol) \div 127)
Right(vol, sep) == Clamped((sep * vol) \div 127)

\* vb_InitSound, which the engine calls once: the stream may be refused, and
\* the game goes on without.
InitSound ==
    /\ ~soundUp
    /\ \E up \in BOOLEAN : soundUp' = up /\ speaking' = up
    /\ UNCHANGED <<ready, bank>>

\* vb_StartSound: a sound already in the channel is replaced.
StartSound(s, channel, vol, sep) ==
    /\ soundUp /\ channel \in Slots
    /\ ready' = [ready EXCEPT ![s] = Found(s)]
    /\ LET sfx == Found(s)
       IN  IF sfx = None \/ ~Startable(channel, sfx.count) THEN UNCHANGED bank
           ELSE bank' = Put(bank, channel, Voice(sfx.from, sfx.count,
                                Left(vol, sep), Right(vol, sep), FALSE))
    /\ UNCHANGED <<soundUp, speaking>>

\* vb_UpdateSoundParams
UpdateSoundParams(channel, vol, sep) ==
    /\ bank' = SetGain(bank, channel, Left(vol, sep), Right(vol, sep))
    /\ UNCHANGED <<soundUp, speaking, ready>>

\* vb_StopSound
StopSound(channel) ==
    /\ bank' = Put(bank, channel, None)
    /\ UNCHANGED <<soundUp, speaking, ready>>

\* vb_UpdateSound: one pass of the mixer when the ring has room for it
UpdateSound ==
    /\ soundUp
    /\ bank' = Fill(bank, Beat)
    /\ UNCHANGED <<soundUp, speaking, ready>>

\* The engine is ahead of its clock, and vb_mix_sleep feeds the stream while
\* it waits; without a stream it only waits.
DG_SleepMs ==
    /\ bank' = IF speaking THEN Fill(bank, Beat) ELSE bank
    /\ UNCHANGED <<soundUp, speaking, ready>>

\* vb_PrecacheSounds
PrecacheSounds ==
    /\ ready' = [s \in Sfx |-> Found(s)]
    /\ UNCHANGED <<soundUp, speaking, bank>>

\* vb_ShutdownSound; without sound there is nothing to do.
ShutdownSound ==
    /\ soundUp' = FALSE
    /\ speaking' = IF soundUp THEN FALSE ELSE speaking
    /\ bank' = IF soundUp THEN EmptyBank ELSE bank
    /\ UNCHANGED ready

SoundCall ==
    \/ InitSound \/ UpdateSound \/ DG_SleepMs \/ PrecacheSounds
    \/ \E channel \in Slots \cup {-1} :
          \/ StopSound(channel)
          \/ \E v \in Loudness : UpdateSoundParams(channel, v[1], v[2])
          \/ \E s \in Sfx, v \in Loudness : StartSound(s, channel, v[1], v[2])

-----------------------------------------------------------------------------
\* The mixer reads only samples of the lump a sound was found in, however the
\* lump was made: no voice reaches before its first sample or past the end of
\* the lump (sfx_of trusts no count a wad gives).
ReadsStayInLump ==
    \A c \in Slots :
        bank[c] # None =>
            \A at \in Reads(bank[c], Beat) :
                \E s \in Sfx : LET lump == Lump[LumpOf[s]]
                              IN  bank[c].from + at \in
                                    (lump.start + 8)..(lump.start + lump.length - 1)

\* A voice plays only into a stream that is open, and the stream is open
\* exactly while the module says sound is up.
VoicesHaveAStream ==
    (speaking <=> soundUp) /\ \A c \in Slots : bank[c] # None => speaking

==============================================================================
