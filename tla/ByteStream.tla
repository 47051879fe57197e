------------------------------ MODULE ByteStream ------------------------------
(***************************************************************************)
(* What a pipe promises: a bounded first-in first-out stream of bytes, in  *)
(* which nothing is lost, invented or reordered.                           *)
(***************************************************************************)
EXTENDS Naturals, Sequences, SequencesExt

CONSTANTS Bytes, Capacity

VARIABLE content        \* the bytes written and not yet read, oldest first

Init == content = <<>>

\* Some bytes go in at the end.
Put == /\ IsStrictPrefix(content, content')
       /\ content' \in BoundedSeq(Bytes, Capacity)

\* The oldest bytes come out.
Take == \E n \in 1..Len(content) : content' = SubSeq(content, n + 1, Len(content))

Next == Put \/ Take

Spec == Init /\ [][Next]_content

==============================================================================
