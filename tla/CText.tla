--------------------------------- MODULE CText ---------------------------------
(***************************************************************************)
(* What the C library computes from text and arrays (user/libc/string.zig, *)
(* stdlib.zig, lib/str.zig), beside what C says the answer is.  An array   *)
(* is a sequence, a string one whose characters stop at the first 0.  In a *)
(* numeral a figure, or a letter that can be one, is its value, and the    *)
(* other characters have the names below.                                  *)
(***************************************************************************)
EXTENDS Integers, SequencesExt

CONSTANT LONG_MAX       \* of a long: -LONG_MAX - 1 .. LONG_MAX

ULONG_MAX == 2 * LONG_MAX + 1

E == 14
EX == 33
UPPER_E == 99            \* an E told from an e
BLANK == 100
MINUS == 101
PLUS == 102
POINT == 103
END == 104

Least(a, b) == IF a < b THEN a ELSE b

\* The first place at or after `at` where a loop over a text stops.
From(text, at, Stops(_)) == SelectInSubSeq(text, at, Len(text), Stops)

strlen(s) == LET end == SelectInSeq(s, LAMBDA c : c = 0)
             IN  IF end = 0 THEN Len(s) ELSE end - 1

strnlen(s, limit) == Least(strlen(SubSeq(s, 1, Least(limit, Len(s)))), limit)

\* Two loops: the characters of src, then zeroes to the n-th.
strncpy(dest, src, n) ==
    [i \in DOMAIN dest |-> IF i > n THEN dest[i]
                           ELSE IF i <= strlen(src) THEN src[i] ELSE 0]

strncat(dest, src, n) ==
    LET at == strlen(dest)
        taken == strnlen(src, n)
    IN  [i \in DOMAIN dest |-> IF i <= at \/ i > at + taken + 1 THEN dest[i]
                               ELSE IF i = at + taken + 1 THEN 0 ELSE src[i - at]]

\* Of two strings, the difference where a loop over both stops.
strcmp(a, b) ==
    LET i == From(a, 1, LAMBDA c : c = 0)
        j == CHOOSE k \in 1..i : (k = i \/ a[k] # b[k]) /\ \A l \in 1..(k - 1) : a[l] = b[l]
    IN  a[j] - b[j]

strncmp(a, b, n) ==
    LET stops == {k \in 1..n : k <= Len(a) /\ k <= Len(b) /\ (a[k] # b[k] \/ a[k] = 0)}
        at == CHOOSE k \in stops : \A l \in stops : k <= l
    IN  IF stops = {} THEN 0 ELSE a[at] - b[at]

lower(c) == IF c \in 65..90 THEN c + 32 ELSE c

strcasecmp(a, b) == strcmp([i \in DOMAIN a |-> lower(a[i])], [i \in DOMAIN b |-> lower(b[i])])

\* The place found, or 0; the terminator is a character they find.
strchr(s, c) == LET i == From(s, 1, LAMBDA d : d = c \/ d = 0) IN IF s[i] = c THEN i ELSE 0

strrchr(s, c) == SelectLastInSeq(SubSeq(s, 1, strlen(s) + 1), LAMBDA d : d = c)

strstr(haystack, needle) ==
    LET want == strlen(needle)
        within == strlen(haystack)
        at == {i \in 1..(within - want + 1) :
                  strncmp(SubSeq(haystack, i, Len(haystack)), needle, want) = 0}
    IN  IF want = 0 THEN 1 ELSE IF at = {} THEN 0 ELSE CHOOSE i \in at : \A j \in at : i <= j

spanOfAny(text, set) == From(text, 1, LAMBDA c : c = 0 \/ c \notin set) - 1
spanUntilAny(text, set) == From(text, 1, LAMBDA c : c = 0 \/ c \in set) - 1
indexOfAny(text, set) == LET at == spanUntilAny(text, set) IN IF at = strlen(text) THEN 0 ELSE at + 1

\* The character tests, of a code or of EOF, which is -1.
isdigit(c) == c \in 48..57
isalpha(c) == c \in 97..122 \/ c \in 65..90
isalnum(c) == isalpha(c) \/ isdigit(c)
isspace(c) == c = 32 \/ c \in 9..13
isgraph(c) == c > 32 /\ c < 127
isprint(c) == c >= 32 /\ c < 127
iscntrl(c) == (c >= 0 /\ c < 32) \/ c = 127
ispunct(c) == isgraph(c) /\ ~isalnum(c)
toupper(c) == IF c \in 97..122 THEN c - 32 ELSE c

\* strtok_r from `at` (1-based): [start, end, save], start 0 where no piece is
\* left.  The separator after a piece is overwritten, which nothing reads.
strtok(text, at, separators) ==
    LET start == SelectInSubSeq(text, at, Len(text), LAMBDA c : c = 0 \/ c \notin separators)
        end == SelectInSubSeq(text, start, Len(text), LAMBDA c : c = 0 \/ c \in separators)
    IN  IF text[start] = 0 THEN [start |-> 0, end |-> 0, save |-> start]
        ELSE [start |-> start, end |-> end - 1,
              save |-> IF text[end] = 0 THEN end ELSE end + 1]

\* All the pieces of a text, one call after another.
Pieces(text, separators) ==
    LET calls == FoldLeft(LAMBDA got, i :
                    LET piece == strtok(text, got.save, separators)
                    IN  [save |-> piece.save,
                         pieces |-> IF piece.start = 0 THEN got.pieces
                                    ELSE Append(got.pieces, SubSeq(text, piece.start, piece.end))],
                    [save |-> 1, pieces |-> <<>>], text)
    IN  calls.pieces

\* A plausible slip: the sum is kept in the answer's own width.
GatheredWrapping(digits, radix, bound) ==
    FoldLeft(LAMBDA v, d : [value |-> (v.value * radix + d) % (ULONG_MAX + 1), over |-> FALSE],
             [value |-> 0, over |-> FALSE], digits)

\* parse on digits after a sign: the value is no longer gathered once it is
\* past the bound, and the answer is then the limit, as bits of T's width.
Gathered(digits, radix, bound) ==
    FoldLeft(LAMBDA v, d : IF v.over THEN v
                           ELSE [value |-> v.value * radix + d, over |-> v.value * radix + d > bound],
             [value |-> 0, over |-> FALSE], digits)

Bits(n) == n % (ULONG_MAX + 1)
Signed(bits) == IF bits > LONG_MAX THEN bits - (ULONG_MAX + 1) ELSE bits

\* parse: blanks, a sign, the prefix of its base and then figures.  `at` is the
\* first place that was not read, the beginning where there was no figure.
AfterSign(text, start) == IF text[start] \in {MINUS, PLUS} THEN start + 1 ELSE start

IsHex(text, signed, base) == text[signed] = 0 /\ text[signed + 1] = EX /\ base \in {0, 16}

RadixOf(text, signed, base) ==
    IF base # 0 THEN base
    ELSE IF IsHex(text, signed, base) THEN 16 ELSE IF text[signed] = 0 THEN 8 ELSE 10

FiguresFrom(text, first, past, radix, negative) ==
    [negative |-> negative, radix |-> radix,
     digits |-> SubSeq(text, first, past - 1), at |-> IF past > first THEN past ELSE 1]

NumeralFrom(text, first, radix, negative) ==
    FiguresFrom(text, first, From(text, first, LAMBDA c : c >= radix), radix, negative)

NumeralAfter(text, signed, base) ==
    NumeralFrom(text, IF IsHex(text, signed, base) THEN signed + 2 ELSE signed,
                RadixOf(text, signed, base), signed > 1 /\ text[signed - 1] = MINUS)

Numeral(text, base) == NumeralAfter(text, AfterSign(text, From(text, 1, LAMBDA c : c # BLANK)), base)

\* The answer [value, erange, at]: the magnitude, or the limit, and the sign.
LongOf(n, bound, got) ==
    LET magnitude == Bits(IF got.over THEN bound ELSE got.value)
    IN  [value |-> Signed(Bits(IF n.negative THEN -magnitude ELSE magnitude)),
         erange |-> got.over, at |-> n.at]

LongWithin(n, bound) == LongOf(n, bound, Gathered(n.digits, n.radix, bound))
LongOfNumeral(n) == LongWithin(n, IF n.negative THEN LONG_MAX + 1 ELSE LONG_MAX)
strtol(text, base) == LongOfNumeral(Numeral(text, base))

UnsignedOf(n, got) ==
    LET magnitude == IF got.over THEN ULONG_MAX ELSE Bits(got.value)
    IN  [value |-> Bits(IF n.negative THEN -magnitude ELSE magnitude), erange |-> got.over, at |-> n.at]

UnsignedOfNumeral(n) == UnsignedOf(n, Gathered(n.digits, n.radix, ULONG_MAX))
strtoul(text, base) == UnsignedOfNumeral(Numeral(text, base))

\* An int and a long are of one width here.
atoi(text) == strtol(text, 10).value
labs(n) == IF n < 0 THEN -n ELSE n

\* How much of a text reads as a number with a point in it.
numberSpan(text) ==
    LET NoFigure(c) == c > 9
        first == IF text[1] \in {MINUS, PLUS} THEN 2 ELSE 1
        whole == From(text, first, NoFigure)
        past == IF text[whole] = POINT THEN From(text, whole + 1, NoFigure) ELSE whole
        digits == past - first - (IF text[whole] = POINT THEN 1 ELSE 0)
        after == IF text[past] = E /\ text[past + 1] \in {MINUS, PLUS} THEN past + 2 ELSE past + 1
        exponent == IF text[past] = E THEN From(text, after, NoFigure) ELSE after
    IN  IF digits = 0 THEN 0 ELSE IF exponent > after THEN exponent - 1 ELSE past - 1

\* The comparison conform.c hands to qsort and bsearch, of elements that begin
\* with their key (by_value is the same of an int): (x > y) - (x < y)
by_key(a, b) == IF a[1] > b[1] THEN 1 ELSE IF a[1] < b[1] THEN -1 ELSE 0

\* Insertion sort by exchange of neighbours.
Sunk(array, i) ==
    LET stops == {j \in 1..i : j = 1 \/ by_key(array[j - 1], array[i]) <= 0}
        to == CHOOSE j \in stops : \A k \in stops : k <= j
    IN  [k \in DOMAIN array |-> IF k < to \/ k > i THEN array[k]
                                ELSE IF k = to THEN array[i] ELSE array[k - 1]]

qsort(array) == FoldLeftDomain(Sunk, array, array)

\* The element found, or 0.
bsearch(key, array) ==
    LET probe[span \in (0..Len(array)) \X (0..Len(array))] ==
            LET low == span[1] high == span[2] middle == low + (high - low) \div 2
                order == by_key(key, array[middle + 1])
            IN  IF low >= high THEN 0
                ELSE IF order = 0 THEN middle + 1
                ELSE IF order < 0 THEN probe[<<low, middle>>]
                ELSE probe[<<middle + 1, high>>]
    IN  probe[<<0, Len(array)>>]

-----------------------------------------------------------------------------
\* What C says.

Exact(digits, radix) == FoldLeft(LAMBDA v, d : v * radix + d, 0, digits)

\* A text before its first 0, and the order of two such.
Chars(s) == SubSeq(s, 1, strlen(s))

Before(a, b) ==
    \/ Len(a) < Len(b) /\ IsPrefix(a, b)
    \/ \E i \in DOMAIN a \cap DOMAIN b : a[i] < b[i] /\ SubSeq(a, 1, i - 1) = SubSeq(b, 1, i - 1)

Order(a, b) == IF Before(a, b) THEN -1 ELSE IF Before(b, a) THEN 1 ELSE 0
Sign(n) == IF n < 0 THEN -1 ELSE IF n > 0 THEN 1 ELSE 0

\* The part of a text that C reads as a whole number of a base: the longest
\* that is a sign, a prefix and figures, after blanks.
IsWhole(s, base) ==
    \E negative, hex \in BOOLEAN, digits \in {SubSeq(s, i, Len(s)) : i \in DOMAIN s} :
        /\ s = (IF negative THEN <<MINUS>> ELSE <<>>) \o (IF hex THEN <<0, EX>> ELSE <<>>) \o digits
        /\ hex => base \in {0, 16}
        /\ \A i \in DOMAIN digits :
              digits[i] < IF hex THEN 16 ELSE IF base # 0 THEN base ELSE IF digits[1] = 0 THEN 8 ELSE 10

PartsFrom(text, first, parts) ==
    IF parts = {} THEN [part |-> <<>>, at |-> 1]
    ELSE LET end == CHOOSE j \in parts : \A k \in parts : k <= j
         IN  [part |-> SubSeq(text, first, end), at |-> end + 1]

LongestFrom(text, first, Reads(_)) ==
    PartsFrom(text, first, {k \in first..Len(text) : Reads(SubSeq(text, first, k))})

LongestPart(text, Reads(_)) ==
    LongestFrom(text, CHOOSE i \in DOMAIN text : text[i] # BLANK /\ \A j \in 1..(i - 1) : text[j] = BLANK,
                Reads)

\* The number a part stands for; a base of 0 is told from the part.
Meant(part, base) ==
    LET negative == part # <<>> /\ part[1] = MINUS
        figures == SelectSeq(part, LAMBDA c : c < 36 /\ c # EX)
        radix == IF Contains(part, EX) THEN 16 ELSE IF base # 0 THEN base
                 ELSE IF figures # <<>> /\ figures[1] = 0 THEN 8 ELSE 10
    IN  IF negative THEN -Exact(figures, radix) ELSE Exact(figures, radix)

\* The number itself where the type holds it and the nearest limit otherwise.
NearestLong(n, at) ==
    [value |-> IF n > LONG_MAX THEN LONG_MAX ELSE IF n < -LONG_MAX - 1 THEN -LONG_MAX - 1 ELSE n,
     erange |-> n > LONG_MAX \/ n < -LONG_MAX - 1, at |-> at]

LongMeant(read, base) == NearestLong(Meant(read.part, base), read.at)
SaidOfLong(text, base) == LongMeant(LongestPart(text, LAMBDA s : IsWhole(s, base)), base)

NearestUnsigned(n, size, at) ==
    [value |-> IF size > ULONG_MAX THEN ULONG_MAX ELSE Bits(n), erange |-> size > ULONG_MAX, at |-> at]

UnsignedMeant(n, at) == NearestUnsigned(n, IF n < 0 THEN -n ELSE n, at)
UnsignedRead(read, base) == UnsignedMeant(Meant(read.part, base), read.at)
SaidOfUnsigned(text, base) == UnsignedRead(LongestPart(text, LAMBDA s : IsWhole(s, base)), base)

\* A sign, figures with at most one point among them, and an exponent.
IsReal(s) ==
    LET Unsigned(t) == IF t # <<>> /\ t[1] \in {MINUS, PLUS} THEN Tail(t) ELSE t
        IsFigures(t) == t # <<>> /\ \A i \in DOMAIN t : t[i] <= 9
    IN  \E p \in DOMAIN s :
          LET mantissa == Unsigned(SubSeq(s, 1, p))
              exponent == SubSeq(s, p + 1, Len(s))
          IN  /\ Len(SelectSeq(mantissa, LAMBDA c : c = POINT)) <= 1
              /\ IsFigures(SelectSeq(mantissa, LAMBDA c : c # POINT))
              /\ exponent # <<>> => exponent[1] = E /\ IsFigures(Unsigned(Tail(exponent)))

\* Sorted, and equals in the order they came.
IsSortOf(sorted, array) ==
    /\ Len(sorted) = Len(array)
    /\ \A i \in DOMAIN array : Contains(sorted, array[i])
    /\ \A i, j \in DOMAIN sorted : i < j =>
          \/ sorted[i][1] < sorted[j][1]
          \/ sorted[i][1] = sorted[j][1] /\ sorted[i][2] < sorted[j][2]

\* The longest runs of what is no separator, from left to right.
FieldStarts(text, separators) ==
    {i \in 1..strlen(text) : text[i] \notin separators /\ (i = 1 \/ text[i - 1] \in separators)}

==============================================================================
