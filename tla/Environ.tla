-------------------------------- MODULE Environ --------------------------------
(***************************************************************************)
(* The environment of a C program (user/libc/env.zig) as functions of      *)
(*                                                                         *)
(*   list    environ up to its null: entries NAME=value, as characters     *)
(*   owned   whether the list was copied to where it can grow              *)
(*   room    how many entries the copy has cells for, its null besides     *)
(*                                                                         *)
(* An operation that needs memory takes `memory`, whether there is any,    *)
(* and answers [env, ok].                                                  *)
(***************************************************************************)
EXTENDS Integers, SequencesExt

CONSTANT STEP

ASSUME EnvironAssumption == STEP \in Nat \ {0}

Handed(list) == [list |-> list, owned |-> FALSE, room |-> Len(list)]

join(name, value) == name \o <<"=">> \o value

\* The whole name has to match and the next character has to be the sign.
names(entry, name) == IsPrefix(name \o <<"=">>, entry)

\* Where a name first is in the list, 0 where it is not.
find(e, name) == SelectInSeq(e.list, LAMBDA entry : names(entry, name))

Legal(name) == name # <<>> /\ ~Contains(name, "=")

\* The value, or "none".
getenv(e, name) ==
    IF name = <<>> \/ find(e, name) = 0 THEN "none"
    ELSE LET entry == e.list[find(e, name)]
         IN  SubSeq(entry, Len(name) + 2, Len(entry))

\* take: the first change copies the list.
own(e) == IF e.owned THEN e ELSE [e EXCEPT !.owned = TRUE, !.room = Len(e.list) + STEP]

Done(e) == [env |-> e, ok |-> TRUE]
Failed(e) == [env |-> e, ok |-> FALSE]

append(e, entry, memory) ==
    LET grows == Len(e.list) + 1 >= e.room
    IN  IF grows /\ ~memory THEN Failed(e)
        ELSE Done([e EXCEPT !.list = Append(@, entry), !.room = IF grows THEN @ + STEP ELSE @])

\* C's older way in: the entry is the caller's own string.
putenv(e, entry, memory) ==
    LET sign == SelectInSeq(entry, LAMBDA c : c = "=")
        at == find(e, SubSeq(entry, 1, sign - 1))
    IN  IF sign = 0 \/ (~e.owned /\ ~memory) THEN Failed(e)
        ELSE IF at # 0 THEN Done([own(e) EXCEPT !.list[at] = entry])
        ELSE append(own(e), entry, memory)

setenv(e, name, value, overwrite, memory) ==
    LET at == find(e, name)
    IN  IF ~Legal(name) \/ (~e.owned /\ ~memory) THEN Failed(e)
        ELSE IF at # 0 /\ ~overwrite THEN Done(own(e))
        ELSE IF ~memory THEN Failed(own(e))
        ELSE IF at # 0 THEN Done([own(e) EXCEPT !.list[at] = join(name, value)])
        ELSE append(own(e), join(name, value), memory)

\* The last entry moves into the gap.
unsetenv(e, name, memory) ==
    LET at == find(e, name)
        last == e.list[Len(e.list)]
    IN  IF ~Legal(name) \/ (~e.owned /\ ~memory) THEN Failed(e)
        ELSE IF at = 0 THEN Done(own(e))
        ELSE Done([own(e) EXCEPT !.list = Front(ReplaceAt(e.list, at, last))])

==============================================================================
