--------------------------------- MODULE Stdio ---------------------------------
(***************************************************************************)
(* A FILE of the C library (user/libc/stdio.zig over user/lib/stream.zig)  *)
(* on a file of a disk, as functions of                                    *)
(*                                                                         *)
(*   disk, fd   the file's bytes and where its descriptor is               *)
(*   buf, at    the buffer in use and how far reading has got in it        *)
(*   writing    whether buf waits to go out rather than to be read         *)
(*   pushed     the byte ungetc gave back, EOF where there is none         *)
(*   at_end, failed, open                                                  *)
(*                                                                         *)
(* A disk holds DiskMax bytes; a write takes what fits.                    *)
(***************************************************************************)
EXTENDS Integers, SequencesExt

CONSTANTS BUFSIZ, DiskMax

ASSUME StdioAssumption == BUFSIZ \in Nat \ {0} /\ DiskMax \in Nat

EOF == -1

Opened(disk) ==
    [disk |-> disk, fd |-> 0, buf |-> <<>>, at |-> 0, writing |-> FALSE,
     pushed |-> EOF, at_end |-> FALSE, failed |-> FALSE, open |-> TRUE]

fopen(f, truncate) == Opened(IF truncate THEN <<>> ELSE f.disk)

Laid(b, at, new) ==
    [i \in 1..(IF at + Len(new) > Len(b) THEN at + Len(new) ELSE Len(b)) |->
        IF i > at /\ i <= at + Len(new) THEN new[i - at] ELSE b[i]]

\* Stream.pour: written until all is written or nothing more is taken.
pour(f, new) ==
    LET fits == IF f.fd + Len(new) <= DiskMax THEN Len(new)
                ELSE IF f.fd < DiskMax THEN DiskMax - f.fd ELSE 0
    IN  [f EXCEPT !.disk = Laid(@, f.fd, SubSeq(new, 1, fits)),
                  !.fd = @ + fits,
                  !.failed = @ \/ fits < Len(new)]

\* Stream.flush
flushed(f) == IF f.writing THEN [pour(f, f.buf) EXCEPT !.buf = <<>>] ELSE f

beginWriting(f) == IF f.writing THEN f ELSE [f EXCEPT !.buf = <<>>, !.at = 0, !.writing = TRUE]

\* Stream.writeByte on a fully buffered stream.
fputc(f, byte) ==
    LET g == [beginWriting(f) EXCEPT !.buf = Append(@, byte)]
    IN  IF Len(g.buf) = BUFSIZ THEN flushed(g) ELSE g

\* Stream.write copies in runs; what is flushed when is the same.
fwrite(f, bytes) == FoldLeft(fputc, f, bytes)

\* Stream.readByte: [file, byte], EOF where there is none.  A failed read
\* cannot be told from an end here and is left out.
readByte(f) ==
    LET g == IF f.writing THEN [flushed(f) EXCEPT !.writing = FALSE] ELSE f
        n == IF Len(g.disk) - g.fd < BUFSIZ THEN Len(g.disk) - g.fd ELSE BUFSIZ
        filled == IF g.at < Len(g.buf) THEN g
                  ELSE IF n <= 0 THEN [g EXCEPT !.at_end = TRUE]
                  ELSE [g EXCEPT !.buf = SubSeq(g.disk, g.fd + 1, g.fd + n),
                                 !.at = 0, !.fd = @ + n]
    IN  IF filled.at < Len(filled.buf)
        THEN [file |-> [filled EXCEPT !.at = @ + 1], byte |-> filled.buf[filled.at + 1]]
        ELSE [file |-> filled, byte |-> EOF]

fgetc(f) ==
    IF f.pushed # EOF THEN [file |-> [f EXCEPT !.pushed = EOF], byte |-> f.pushed]
    ELSE readByte(f)

\* Stream.read, which does not look at what was pushed back.
fread(f, n) ==
    FoldLeft(LAMBDA got, i :
                LET one == readByte(got.file)
                IN  IF got.done THEN got
                    ELSE [file |-> one.file, done |-> one.byte = EOF,
                          bytes |-> got.bytes \o (IF one.byte = EOF THEN <<>> ELSE <<one.byte>>)],
             [file |-> f, done |-> FALSE, bytes |-> <<>>], [i \in 1..n |-> i])

ungetc(f, byte) == [f EXCEPT !.pushed = byte, !.at_end = FALSE]

\* A plausible slip: the byte pushed back is forgotten.
behindTheBuffer(f) == IF f.writing THEN 0 ELSE Len(f.buf) - f.at

\* How far the caller is behind the descriptor.
behind(f) == (IF f.writing THEN 0 ELSE Len(f.buf) - f.at) + (IF f.pushed # EOF THEN 1 ELSE 0)

\* To `offset` from where `whence` says; the buffer goes whatever comes of it.
fseek(f, offset, whence) ==
    LET g == flushed(f)
        to == CASE whence = "SET" -> offset
                [] whence = "CUR" -> g.fd + offset - behind(g)
                [] whence = "END" -> Len(g.disk) + offset
    IN  [g EXCEPT !.buf = <<>>, !.at = 0, !.at_end = FALSE, !.pushed = EOF,
                  !.fd = IF to >= 0 THEN to ELSE @]

\* ftell flushes and answers.
ftell(f) == flushed(f).fd - behind(flushed(f))

fclose(f) == [flushed(f) EXCEPT !.open = FALSE]

-----------------------------------------------------------------------------
\* What a program that uses the file sees of it.
SeenBytes(f) == IF f.writing THEN Laid(f.disk, f.fd, f.buf) ELSE f.disk
SeenPos(f) == IF f.writing THEN f.fd + Len(f.buf) ELSE f.fd - behind(f)

==============================================================================
