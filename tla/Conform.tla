-------------------------------- MODULE Conform --------------------------------
(***************************************************************************)
(* examples/conform.c, bigheap.c and greet.c as programs of this system's  *)
(* C library.  conform.c goes through its sections and says, of each fact, *)
(* what the library answered; what it is compared with is another library, *)
(* here C's own definition of the answer.  Where conform.c makes a call    *)
(* with one argument this makes it with any of a small set, in any order   *)
(* a C program may: which ones is the constants' to say, all that small    *)
(* widths allow or the ones of conform.c itself.                           *)
(*                                                                         *)
(*   section       the section conform.c is in                             *)
(*   said          the last fact: what it is about, the library's answer   *)
(*                 and C's                                                 *)
(*   env, expect   the environment, and what it should answer              *)
(*   heap, held    the heap, and the blocks the program holds              *)
(*   file, last, answer   a FILE, what was last done with it (C forbids a  *)
(*                 write right after a read), and what that answered; of   *)
(*                 a seek, where the program asked to be                   *)
(***************************************************************************)
EXTENDS CFormat, Environ, Heap, Stdio

CONSTANTS Specs, Widths, Passed, \* how a value is laid out, how wide its type is, the value
          Wholes, Fractions,    \* the figures of a real before and after its point
          Mantissas, Exponents, Precisions, \* reals as figures and a power of ten, and for %g
          Inputs, Formats,      \* what is scanned, and the verbs
          Texts, Separators,    \* strings
          Numerals, Bases,      \* numbers read
          Arrays,               \* what is sorted
          Names, Values,        \* the environment's
          Inherited,            \* the environment a program is started with
          Sizes, MaxHeld,       \* blocks asked for, and held at once
          WANTED,               \* what bigheap.c asks for
          Runs, MaxRead         \* bytes written at once, and read at once

VARIABLES section, said, env, expect, heap, held, file, last, answer

vars == <<section, said, env, expect, heap, held, file, last, answer>>

Sections == <<"formatting", "strings", "numbers", "environment", "sorting", "allocation", "bigheap", "greet", "files">>

Nothing == [what |-> "", got |-> <<>>, want |-> <<>>]

Init ==
    /\ section = 1 /\ said = Nothing
    /\ env = Handed(Inherited)
    /\ expect = [n \in Names |-> getenv(Handed(Inherited), n)]
    /\ heap = Fresh /\ held = << >>
    /\ file = [Opened(<<>>) EXCEPT !.open = FALSE] /\ last = "none" /\ answer = <<>>

In(name) == Sections[section] = name

\* say, sayn and sayu
Say(what, got, want) == said' = [what |-> what, got |-> got, want |-> want]

\* main: one section after another, each leaving nothing to the next.
NextSection ==
    /\ section < Len(Sections)
    /\ section' = section + 1
    /\ said' = Nothing
    /\ env' = Handed(Inherited)
    /\ expect' = [n \in Names |-> getenv(Handed(Inherited), n)]
    /\ heap' = Fresh /\ held' = << >>
    /\ UNCHANGED <<file, last, answer>>

-----------------------------------------------------------------------------
\* A fact of formatting, strings, numbers and sorting owes nothing to the one
\* before it: each is said at the start of its section.
Fact(name) == /\ In(name) /\ said = Nothing
              /\ UNCHANGED <<section, env, expect, heap, held, file, last, answer>>

(***************************************************************************)
(* Where the library does not answer what C says, each under a name of its *)
(* own that no other fact is said by:                                      *)
(*   %.0d          0 with a precision of 0 is one figure too many          *)
(*   %#.2o         and so is an octal number whose precision has put a 0   *)
(*                 before it already                                       *)
(*   %g.carry      the exponent of %g is taken from one rounded figure     *)
(*   %G            its E is not seen when the zeroes before it are cut     *)
(*   sscanf.sign   a sign and then the end is taken for nothing at all     *)
(*   strtoul.below a number below zero and past the type answers 1         *)
(*   strtol.0x     a prefix with no figure after it is not read as its 0   *)
(***************************************************************************)
Departures == {"%.0d", "%#.2o", "%g.carry", "%G", "sscanf.sign", "strtoul.below", "strtol.0x"}

\* formatting
IntegerFacts ==
    \E spec \in Specs, width \in Widths, passed \in Passed :
        LET asSigned == takeAs(passed, width, "signed")
            size == IF asSigned < 0 THEN -asSigned ELSE asSigned
            asUnsigned == takeAs(passed, width, "unsigned")
            octal(base) == spec.alt /\ base = 8
        IN  \/ Say(IF size = 0 /\ spec.precision = 0 THEN "%.0d" ELSE "%d",
                   IsInteger(signed(asSigned, spec), spec, SignSaid(asSigned < 0, spec), size, 10), TRUE)
            \/ \E base \in {8, 10, 16} :
                 Say(CASE asUnsigned = 0 /\ spec.precision = 0 /\ ~octal(base) -> "%.0d"
                       [] octal(base) /\ asUnsigned # 0 /\ base^Beyond(spec.precision, 1) > asUnsigned -> "%#.2o"
                       [] OTHER -> "%u",
                     IsInteger(unsigned(asUnsigned, spec, base), spec, <<>>, asUnsigned, base), TRUE)
            \/ Say("%hh", <<asSigned, asUnsigned>>,
                   <<CHOOSE n \in -2^(width - 1)..(2^(width - 1) - 1) : (n - passed) % 2^width = 0,
                     CHOOSE n \in 0..(2^width - 1) : (n - passed) % 2^width = 0>>)

TextFacts ==
    \E text \in Texts :
        \/ \E spec \in Specs :
              Say("%s", IsSpelled(text_of(Chars(text), spec), spec, <<>>,
                                  SubSeq(text, 1, IF spec.precision = None THEN strlen(text)
                                                  ELSE Least(spec.precision, strlen(text))), FALSE), TRUE)
        \/ \E size \in 0..(Len(text) + 1) :
              LET into == Fill(9, Len(text) + 2)
              IN  Say("snprintf", IsCopy(into, size, Chars(text), vsnprintf(into, size, Chars(text))), TRUE)

\* One figure rounds up to the next power of ten, and the figures that leaves
\* are too few or in the other notation.
Carries(digits, exponent, figures) ==
    /\ exponentOf(digits, exponent) # exponent
    /\ \/ exponent \in {-5, figures - 1}
       \/ exponent \in -4..(figures - 2) /\ Len(digits) = figures

\* An exponent after zeroes, or with a 0 at its own end.
KeepsZeroes(digits, exponent, figures) ==
    /\ exponent \notin -4..(figures - 1)
    /\ Len(digits) < figures \/ exponent % 10 = 0

RealFacts ==
    \/ \E whole \in Wholes, frac \in Fractions, places \in 0..3 :
          Say("%f", IsNearest(round(whole, frac, places), whole, frac, places), TRUE)
    \/ \E spec \in Specs, negative \in BOOLEAN :
          Say("%08f", IsSpelled(padded(round(<<3>>, <<5>>, 2), spec, signOf(negative, spec), "real"), spec,
                                SignSaid(negative, spec), <<3, POINT, 5, 0>>, TRUE), TRUE)
    \/ \E digits \in Mantissas, exponent \in Exponents, figures \in Precisions, upper \in BOOLEAN :
          /\ Len(digits) <= figures
          /\ Say(CASE Carries(digits, exponent, figures) -> "%g.carry"
                   [] upper /\ ~Carries(digits, exponent, figures) /\ KeepsZeroes(digits, exponent, figures) -> "%G"
                   [] OTHER -> "%g",
                 IsGeneral(general(digits, exponent, figures, upper), digits, exponent, figures,
                           IF upper THEN UPPER_E ELSE E), TRUE)

ScanFacts ==
    \/ \E text \in Inputs, format \in Formats :
          LET first == SelectInSeq(text, LAMBDA c : c # BLANK)
          IN  Say(IF format[1] \in {"d", "x"} /\ SubSeq(text, first, Len(text)) = <<MINUS, END>>
                  THEN "sscanf.sign" ELSE "sscanf",
                  vsscanf(text, format), SaidOfScan(text, format))
    \/ \E n \in -70..70, length \in {1, 2}, at \in {1, 2} :
          LET cells == store(<<3, 2, 1, 0>>, at, length, n)
          IN  Say("sscanf.int8",
                  <<Exact(Reverse(SubSeq(cells, at, at + length - 1)), 4), cells[4], at > 1 => cells[1] = 3>>,
                  <<n % 4^length, 0, TRUE>>)

Formatting == Fact("formatting") /\ (IntegerFacts \/ TextFacts \/ RealFacts \/ ScanFacts)

-----------------------------------------------------------------------------
\* strings

Fields(text) ==
    LET starts == SetToSortSeq(FieldStarts(text, Separators), <)
        stop(i) == CHOOSE j \in i..strlen(text) :
                      /\ \A k \in i..j : text[k] \notin Separators
                      /\ j = strlen(text) \/ text[j + 1] \in Separators
    IN  [k \in DOMAIN starts |-> SubSeq(text, starts[k], stop(starts[k]))]

TokenFacts == \E text \in Texts : Say("strtok", Pieces(text, Separators), Fields(text))

CopyFacts ==
    \E dest, src \in Texts : \E n \in 1..Len(dest) :
        \/ Say("strncpy", strlen(strncpy(dest, src, n)),
               IF strlen(src) < n THEN strlen(src) ELSE n + strlen(SubSeq(dest, n + 1, Len(dest))))
        \/ /\ strlen(dest) + n < Len(dest)
           /\ Say("strncat", Chars(strncat(dest, src, n)),
                  Chars(dest) \o SubSeq(src, 1, Least(strlen(src), n)))

OrderFacts ==
    \E a, b \in Texts :
        \/ Say("strcmp", Sign(strcmp(a, b)), Order(Chars(a), Chars(b)))
        \/ \E n \in 0..Len(a) :
              Say("strncmp", Sign(strncmp(a, b, n)),
                  Order(SubSeq(a, 1, Least(n, strlen(a))), SubSeq(b, 1, Least(n, strlen(b)))))
        \/ Say("strcasecmp", strcasecmp(a, b) = 0,
               /\ strlen(a) = strlen(b)
               /\ \A i \in DOMAIN a : a[i] = b[i] \/ (isalpha(a[i]) /\ toupper(a[i]) = toupper(b[i])))

\* The first or the last of the places that C names, 0 for none of them.
LeastOf(places) == IF places = {} THEN 0 ELSE CHOOSE i \in places : \A j \in places : i <= j
LastOf(places) == IF places = {} THEN 0 ELSE CHOOSE i \in places : \A j \in places : j <= i

SearchFacts ==
    \E text \in Texts :
        \/ \E needle \in Texts :
              LET at == {i \in 1..Len(text) : IsPrefix(Chars(needle), SubSeq(Chars(text), i, strlen(text)))}
              IN  Say("strstr", strstr(text, needle), LeastOf(at))
        \/ \E c \in ToSet(text) \cup Separators :
              LET at == {i \in 1..(strlen(text) + 1) : text[i] = c}
              IN  Say("strchr.last", <<strchr(text, c), strrchr(text, c)>>, <<LeastOf(at), LastOf(at)>>)
        \/ \E limit \in 0..Len(text) : Say("strnlen", strnlen(text, limit), Least(limit, strlen(text)))

\* strspn, strcspn and strpbrk
SpanFacts ==
    \E text \in Texts, set \in SUBSET {65, 97} :
        LET inside == {n \in 0..strlen(text) : ToSet(SubSeq(text, 1, n)) \subseteq set}
            outside == {n \in 0..strlen(text) : ToSet(SubSeq(text, 1, n)) \cap set = {}}
        IN  Say("strspn", <<spanOfAny(text, set), spanUntilAny(text, set), indexOfAny(text, set)>>,
                <<LastOf(inside), LastOf(outside), LeastOf({i \in 1..strlen(text) : text[i] \in set})>>)

\* Each code is of one kind, and EOF of none.
ClassFacts ==
    \E c \in -1..127 :
        LET kinds == {k \in {<<"control", iscntrl(c)>>, <<"letter", isalpha(c)>>, <<"digit", isdigit(c)>>,
                             <<"mark", ispunct(c)>>, <<"blank", isspace(c) /\ isprint(c)>>} : k[2]}
        IN  Say("iscntrl", <<Cardinality(kinds), isprint(c), toupper(c) # c>>,
                <<IF c = -1 THEN 0 ELSE 1, c # -1 /\ ~iscntrl(c), c \in 97..122>>)

Strings == Fact("strings") /\ (TokenFacts \/ CopyFacts \/ OrderFacts \/ SearchFacts \/ SpanFacts \/ ClassFacts)

\* A prefix of base 16 with nothing C reads after its 0.
IsBare(text, read, base) ==
    /\ base \in {0, 16}
    /\ read.part \in {<<0>>, <<MINUS, 0>>} /\ text[read.at] = EX

\* numbers, and the limits strings asks about
LimitFacts ==
    \E text \in Numerals, base \in Bases :
        LET read == LongestPart(text, LAMBDA s : IsWhole(s, base))
            bare == IsBare(text, read, base)
            unsignedly == SaidOfUnsigned(text, base)
        IN  \/ Say(IF bare THEN "strtol.0x" ELSE "strtol", strtol(text, base), SaidOfLong(text, base))
            \/ Say(CASE bare -> "strtol.0x"
                     [] ~bare /\ read.part # <<>> /\ read.part[1] = MINUS /\ unsignedly.erange -> "strtoul.below"
                     [] OTHER -> "strtoul",
                   strtoul(text, base), unsignedly)

PointFacts ==
    \E text \in Numerals :
        /\ text[1] # BLANK
        /\ Say("strtod.end", numberSpan(text), Len(LongestPart(text, IsReal).part))

\* atoi and labs, of a number the type holds
PlainFacts ==
    \E text \in Numerals :
        LET meant == SaidOfLong(text, 10)
        IN  /\ ~meant.erange /\ meant.value >= -LONG_MAX
            /\ Say("atoi", <<atoi(text), labs(atoi(text))>>,
                   <<meant.value, IF meant.value < 0 THEN -meant.value ELSE meant.value>>)

Numbers == Fact("numbers") /\ (LimitFacts \/ PlainFacts \/ PointFacts)

\* qsort.wide: an element goes with its key.
SortFacts == \E array \in Arrays : Say("qsort.wide", IsSortOf(qsort(array), array), TRUE)

\* sorting
FindFacts ==
    \E array \in Arrays, wanted \in 0..3 :
        LET sorted == qsort(array)
            found == bsearch(<<wanted>>, sorted)
        IN  Say("bsearch", found # 0 /\ sorted[found][1] = wanted,
                \E i \in DOMAIN array : array[i][1] = wanted)

Sorting == Fact("sorting") /\ (SortFacts \/ FindFacts)

-----------------------------------------------------------------------------
\* environment

\* A change and what the environment should then answer.
Changed(result, name, value) ==
    /\ env' = result.env
    /\ expect' = IF result.ok THEN [expect EXCEPT ![name] = value] ELSE expect
    /\ Say("getenv", [n \in Names |-> getenv(env', n)], expect')

Environment ==
    /\ In("environment")
    /\ \E name \in Names, memory \in BOOLEAN :
          \/ Changed(unsetenv(env, name, memory), name, "none")
          \/ \E value \in Values :
                \/ Changed(setenv(env, name, value, TRUE, memory), name, value)
                \/ Changed(setenv(env, name, value, FALSE, memory), name,
                           IF expect[name] = "none" THEN value ELSE expect[name])
                \/ Changed(setenv(env, join(name, value), value, TRUE, memory), name, value)
                \/ Changed(putenv(env, join(name, value), memory), name, value)
    /\ UNCHANGED <<section, heap, held, file, last, answer>>

-----------------------------------------------------------------------------
\* allocation

Without(block) == [at \in DOMAIN held \ {block} |-> held[at]]
With(blocks, block, size) ==
    [at \in DOMAIN blocks \cup {block} |-> IF at = block THEN size ELSE blocks[at]]

Obtained(got, others, size) ==
    /\ heap' = got.heap
    /\ held' = IF got.at = -1 THEN held ELSE With(others, got.at, size)

malloc(size) == Cardinality(DOMAIN held) < MaxHeld /\ Obtained(alloc(heap, size), held, size)

Released(block) == heap' = free(heap, block) /\ held' = Without(block)

\* realloc(p, 0) is free, realloc(NULL, n) is malloc.
Resized(block, size) == Obtained(realloc(heap, block, size), Without(block), size)

Allocation ==
    /\ In("allocation")
    /\ \/ \E size \in Sizes : malloc(size)
       \/ \E block \in DOMAIN held : Released(block) \/ \E size \in Sizes : Resized(block, size)
    /\ UNCHANGED <<section, said, env, expect, file, last, answer>>

\* bigheap.c: one block for everything, all of it real, and then back.
BigHeap ==
    /\ In("bigheap")
    /\ \/ held = << >> /\ malloc(WANTED)
       \/ \E block \in DOMAIN held : Released(block)
    /\ UNCHANGED <<section, said, env, expect, file, last, answer>>

\* greet.c: a copy on the heap, as large as its text and the zero after it, or
\* the answer that there is no memory; then back.
strdup(text) == malloc(strlen(text) + 1)

Greet ==
    /\ In("greet")
    /\ \/ held = << >> /\ \E text \in Texts : strdup(text)
       \/ \E block \in DOMAIN held : Released(block)
    /\ UNCHANGED <<section, said, env, expect, file, last, answer>>

-----------------------------------------------------------------------------
\* files

Opens == /\ ~file.open
         /\ \E truncate \in BOOLEAN : file' = fopen(file, truncate)
         /\ last' = "none" /\ answer' = <<>>

Writes == /\ last \notin {"read", "told"} /\ SeenPos(file) < DiskMax + 1
          /\ \E new \in Runs : file' = fwrite(file, new)
          /\ last' = "write" /\ answer' = <<>>

ReadsOne == LET got == fgetc(file)
            IN  /\ file' = got.file
                /\ last' = "read"
                /\ answer' = IF got.byte = EOF THEN <<>> ELSE <<got.byte>>

\* What was pushed back is read with fgetc: fread passes it over.
ReadsSome == /\ file.pushed = EOF
             /\ \E n \in 2..MaxRead : file' = fread(file, n).file /\ answer' = fread(file, n).bytes
             /\ last' = "read"

PushesBack == /\ last = "read" /\ file.pushed = EOF /\ answer # <<>>
              /\ file' = ungetc(file, Last(answer))
              /\ answer' = <<>> /\ UNCHANGED last

\* To a place the file has: a seek that fails has thrown the buffer away.
Seeks == /\ \E whence \in {"SET", "CUR", "END"}, offset \in -(DiskMax + 2)..(DiskMax + 2) :
              LET from == CASE whence = "SET" -> 0
                            [] whence = "CUR" -> SeenPos(file)
                            [] whence = "END" -> Len(SeenBytes(file))
              IN  /\ from + offset \in 0..Len(flushed(file).disk)
                  /\ file' = fseek(file, offset, whence)
                  /\ answer' = <<from + offset>>
         /\ last' = "none"

Tells == /\ answer' = <<ftell(file)>> /\ file' = flushed(file)
         /\ last' = IF last = "read" THEN "told" ELSE last

Closes == /\ file' = fclose(file)
          /\ last' = "none" /\ answer' = <<>>

Files ==
    /\ In("files")
    /\ \/ Opens
       \/ /\ file.open
          /\ \/ Writes \/ ReadsOne \/ ReadsSome \/ PushesBack \/ Seeks \/ Tells \/ Closes
    /\ UNCHANGED <<section, said, env, expect, heap, held>>

-----------------------------------------------------------------------------
Next == NextSection \/ Formatting \/ Strings \/ Numbers \/ Sorting \/ Environment \/ Allocation \/ BigHeap \/ Greet \/ Files

Spec == Init /\ [][Next]_vars

\* What the library answers is what C says: fields laid out by every mix of
\* flags, reals rounded at exact halves, what a scan stores and counts, texts
\* compared, searched and cut in pieces, numbers at their limits, sorted arrays,
\* and, after any sequence of changes of which some found no memory, each name's
\* value in the environment.  It answers otherwise in the cases Departures
\* names, always in those and in no other.
AnswersAreRight == said.got # said.want <=> said.what \in Departures

\* "Every line is a fact with one right answer" (examples/conform.c:3), and the
\* library's must match it exactly (docs/status.md:171): of what conform.c asks,
\* with no case excepted.
MustMatchExactly == said.got = said.want

\* After any sequence of calls the heap's blocks tile its pieces with true
\* marks, free memory is merged and found on its bin, the blocks a program
\* holds are apart and large enough, and the list of the environment ends
\* inside the memory it was given.
MemoryIsSound ==
    /\ Tiles(heap) /\ Hung(heap) /\ HeldApart(heap, held)
    /\ env.owned => Len(env.list) <= env.room

PF == INSTANCE PlainFile WITH
        bytes <- SeenBytes(file), pos <- SeenPos(file), eof <- file.at_end,
        error <- file.failed, answer <- answer

\* A buffered FILE is a plain file to the program that uses it: no read, write,
\* push back, seek or tell shows that there is a buffer, until a write fails
\* and the stream says so.
ImplementsPlainFile == PF!Spec

==============================================================================
