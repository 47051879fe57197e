--------------------------- MODULE MCSoundPrograms ---------------------------
(***************************************************************************)
(* SoundPrograms for TLC: rings of two and four frames, indices that wrap, *)
(* and streams longer than their rings.                                    *)
(***************************************************************************)
EXTENDS SoundPrograms

CONSTANTS beep, mixing, doom

Kinds == [p \in Programs |-> CASE p = beep -> "beep" [] p = mixing -> "mixing" [] OTHER -> "doom"]

Lengths == [p \in Programs |-> IF p = beep THEN 3 ELSE 1]

Blocks == [p \in Programs |-> IF p = beep THEN 2 ELSE 1]

Depths == [prompt |-> 2, steady |-> 4]

==============================================================================
