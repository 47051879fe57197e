----------------------------- MODULE MCDoomPort -----------------------------
(***************************************************************************)
(* DoomPort for TLC: two keys of one name and one of none; a lump with     *)
(* padding to cut whose count is every byte after its header, and one that *)
(* claims its header too.                                                  *)
(***************************************************************************)
EXTENDS DoomPort

MCLump == [
    pistol |-> [start |-> 0,   length |-> 57, format |-> TRUE, rate |-> 11025, count |-> 49],
    liar   |-> [start |-> 200, length |-> 12, format |-> TRUE, rate |-> 11025, count |-> 12]]

MCLumpOf == [pistol |-> "pistol", liar |-> "liar"]

MCLoudness == {<<127, 128>>}

MCDisplays == {[width |-> 7, height |-> 5, stride |-> 8],
               [width |-> 5, height |-> 3, stride |-> 5]}

==============================================================================
