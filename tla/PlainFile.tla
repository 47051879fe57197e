------------------------------- MODULE PlainFile -------------------------------
(***************************************************************************)
(* What a C program may believe of a FILE: bytes, a place among them that  *)
(* reads and writes move, a flag for having met the end, and one for a     *)
(* write that failed, after which it may believe nothing more.             *)
(***************************************************************************)
EXTENDS Integers, Sequences

CONSTANTS Runs, MaxRead

VARIABLES bytes, pos, eof, error, answer

Overlay(b, at, new) ==
    [i \in 1..(IF at + Len(new) > Len(b) THEN at + Len(new) ELSE Len(b)) |->
        IF i > at /\ i <= at + Len(new) THEN new[i - at] ELSE b[i]]

Init == bytes = <<>> /\ pos = 0 /\ eof = FALSE /\ error = FALSE /\ answer = <<>>

Open == /\ bytes' \in {bytes, <<>>}
        /\ pos' = 0 /\ eof' = FALSE /\ error' = FALSE /\ answer' = <<>>

Put(new) == /\ bytes' = Overlay(bytes, pos, new)
            /\ pos' = pos + Len(new) /\ answer' = <<>>
            /\ UNCHANGED <<eof, error>>

\* Up to n bytes; fewer only where the file ends, which is then known.
Get(n) ==
    LET left == Len(bytes) - pos
    IN  /\ answer' = SubSeq(bytes, pos + 1, pos + (IF n < left THEN n ELSE left))
        /\ pos' = pos + Len(answer')
        /\ eof' = (eof \/ left < n)
        /\ UNCHANGED <<bytes, error>>

Unget == /\ pos > 0 /\ pos' = pos - 1 /\ eof' = FALSE /\ answer' = <<>>
         /\ UNCHANGED <<bytes, error>>

\* The answer here is the place asked for.
Seek == /\ pos' \in 0..Len(bytes) /\ answer' = <<pos'>> /\ eof' = FALSE
        /\ UNCHANGED <<bytes, error>>

Tell == answer' = <<pos>> /\ UNCHANGED <<bytes, pos, eof, error>>

\* Flushing and closing change nothing that can be seen, if they do not fail.
Close == answer' = <<>> /\ UNCHANGED <<bytes, pos, eof, error>>

Next ==
    \/ error' = TRUE
    \/ Open \/ Unget \/ Seek \/ Tell \/ Close
    \/ \E new \in Runs : Put(new)
    \/ \E n \in 1..MaxRead : Get(n)

Spec == Init /\ [][Next]_<<bytes, pos, eof, error, answer>>

==============================================================================
