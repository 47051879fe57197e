-------------------------------- MODULE CFormat --------------------------------
(***************************************************************************)
(* printf and scanf of the C library (user/libc/format.zig, length.zig)    *)
(* and the decimal rounding under them (lib/decimal.zig), beside what C    *)
(* says of them.                                                           *)
(***************************************************************************)
EXTENDS CText

None == -1                              \* no precision given
Beyond(a, b) == IF a > b THEN a - b ELSE 0          \* -|
Fill(c, n) == [i \in 1..n |-> c]

\* The figures of a number, which may be none at all where `least` is 0.
Figures(n, base, least) ==
    LET count == CHOOSE k \in least..(n + 1) :
                    /\ base^k > n
                    /\ k = least \/ base^(k - 1) <= n
    IN  [i \in 1..count |-> (n \div base^(count - i)) % base]

-----------------------------------------------------------------------------
\* Writing.  A spec is [left, zero, plus, space, alt, width, precision].

\* Length.take: an argument is its own low bits, widened again.
takeAs(passed, width, sign) ==
    LET low == passed % 2^width
    IN  IF sign = "signed" /\ low >= 2^(width - 1) THEN low - 2^width ELSE low

padded(body, spec, prefix, kind) ==
    LET counts == kind = "number" /\ spec.precision # None
        zeroes == IF counts THEN Beyond(spec.precision, Len(body)) ELSE 0
        pad == Beyond(spec.width, Len(prefix) + zeroes + Len(body))
        zero_pad == kind # "text" /\ spec.zero /\ ~spec.left /\ ~counts
    IN  (IF ~spec.left /\ ~zero_pad THEN Fill(BLANK, pad) ELSE <<>>)
          \o prefix
          \o (IF zero_pad THEN Fill(0, pad) ELSE <<>>)
          \o Fill(0, zeroes) \o body
          \o (IF spec.left THEN Fill(BLANK, pad) ELSE <<>>)

signOf(negative, spec) == CASE negative -> <<MINUS>>
                            [] ~negative /\ spec.plus -> <<PLUS>>
                            [] ~negative /\ ~spec.plus /\ spec.space -> <<BLANK>>
                            [] OTHER -> <<>>

prefixOf(value, base, spec) == CASE spec.alt /\ value # 0 /\ base = 16 -> <<0, EX>>
                                 [] spec.alt /\ value # 0 /\ base = 8 -> <<0>>
                                 [] OTHER -> <<>>

signed(value, spec) ==
    padded(Figures(IF value < 0 THEN -value ELSE value, 10, 1), spec, signOf(value < 0, spec), "number")

unsigned(value, spec, base) == padded(Figures(value, base, 1), spec, prefixOf(value, base, spec), "number")

\* 's': a precision is the most of the text there is to be.
text_of(text, spec) ==
    padded(IF spec.precision = None THEN text ELSE SubSeq(text, 1, Least(Len(text), spec.precision)),
           spec, <<>>, "text")

\* ToBuffer: what is put past the room is counted and not written.
vsnprintf(into, size, text) ==
    LET room == Beyond(size, 1)
        end == Least(Len(text), room)
    IN  [buffer |-> [i \in DOMAIN into |-> IF i <= end THEN text[i]
                                           ELSE IF i = end + 1 /\ size > 0 THEN 0 ELSE into[i]],
         count |-> Len(text)]

-----------------------------------------------------------------------------
\* A real is its exact expansion, figures before the point and after it.

roundsUp(frac, places, kept) ==
    /\ Len(frac) > places
    /\ \/ frac[places + 1] > 5
       \/ /\ frac[places + 1] = 5
          /\ \/ \E i \in (places + 2)..Len(frac) : frac[i] # 0
             \/ kept # <<>> /\ Last(kept) % 2 = 1

\* carryOne, and the figure the carry runs off the front into.
Carried(digits) ==
    LET at == SelectLastInSeq(digits, LAMBDA d : d < 9)
        low == [i \in DOMAIN digits |-> IF i > at THEN 0 ELSE IF i = at THEN digits[i] + 1 ELSE digits[i]]
    IN  IF at = 0 THEN <<1>> \o low ELSE low

\* round and place: `places` figures after the point, and one before it.
round(whole, frac, places) ==
    LET built == whole \o [i \in 1..places |-> IF i <= Len(frac) THEN frac[i] ELSE 0]
        rounded == IF roundsUp(frac, places, built) THEN Carried(built) ELSE built
        head == SubSeq(rounded, 1, Len(rounded) - places)
    IN  (IF head = <<>> THEN <<0>> ELSE head)
          \o (IF places = 0 THEN <<>> ELSE <<POINT>> \o SubSeq(rounded, Len(head) + 1, Len(rounded)))

\* trimmed: the zeroes at the end of a fraction, and then its point.  Only the
\* small letter is seen as the mark of an exponent.
trimmed(text) ==
    LET exponent == SelectInSeq(text, LAMBDA c : c = E)
        stop == IF exponent = 0 THEN Len(text) ELSE exponent - 1
        head == SubSeq(text, 1, stop)
        kept == SelectLastInSeq(head, LAMBDA c : c # 0)
        end == IF head[kept] = POINT THEN kept - 1 ELSE kept
    IN  IF ~Contains(head, POINT) THEN text
        ELSE SubSeq(text, 1, end) \o SubSeq(text, stop + 1, Len(text))

\* spell: mantissa, sign of the exponent and two figures of it or more.
scientific(digits, exponent, places, upper) ==
    <<digits[1]>>
      \o (IF places = 0 THEN <<>>
          ELSE <<POINT>> \o [i \in 1..places |-> IF i < Len(digits) THEN digits[i + 1] ELSE 0])
      \o <<IF upper THEN UPPER_E ELSE E, IF exponent < 0 THEN MINUS ELSE PLUS>>
      \o Figures(IF exponent < 0 THEN -exponent ELSE exponent, 10, 2)

\* The exponent of the number written with one figure, rounded to it.
exponentOf(digits, exponent) ==
    IF digits[1] = 9 /\ Len(digits) > 1 /\ digits[2] >= 5 THEN exponent + 1 ELSE exponent

\* %g, and %G, of digits[1].digits[2..] times ten to the exponent.
general(digits, exponent, figures, upper) ==
    LET x == exponentOf(digits, exponent)
        whole == [i \in 1..(exponent + 1) |-> IF i <= Len(digits) THEN digits[i] ELSE 0]
        frac == IF exponent < 0 THEN Fill(0, -exponent - 1) \o digits
                ELSE SubSeq(digits, exponent + 2, Len(digits))
    IN  trimmed(IF x < -4 \/ x >= figures THEN scientific(digits, exponent, figures - 1, upper)
                ELSE round(whole, frac, figures - 1 - x))

-----------------------------------------------------------------------------
\* Reading.  A format is a sequence of verbs, each after a blank.

\* [ok, at, value]: `at` where the reading stopped, also when it failed.
scanOne(text, at, verb) ==
    LET start == IF verb = "c" THEN at ELSE From(text, at, LAMBDA c : c # BLANK)
        base == IF verb = "x" THEN 16 ELSE 10
        first == IF text[start] = MINUS THEN start + 1 ELSE start
        past == From(text, first, LAMBDA c : c >= base)
        magnitude == FoldLeft(LAMBDA v, d : v * base + d, 0, SubSeq(text, first, past - 1))
        stop == From(text, start, LAMBDA c : c \in {BLANK, END})
    IN  CASE verb \in {"d", "x"} ->
               [ok |-> past > first, at |-> past,
                value |-> <<IF first > start THEN -magnitude ELSE magnitude>>]
          [] verb = "c" ->
               [ok |-> text[start] # END, at |-> IF text[start] = END THEN start ELSE start + 1,
                value |-> <<text[start]>>]
          [] verb = "s" ->
               [ok |-> text[start] # END, at |-> stop, value |-> SubSeq(text, start, stop - 1)]

\* [count, stored]; the format's blanks are skipped, and so are none.
vsscanf(text, format) ==
    LET step(got, verb) ==
            LET from == From(text, got.at, LAMBDA c : c # BLANK)
                one == scanOne(text, from, verb)
            IN  IF got.over THEN got
                ELSE IF one.ok THEN [got EXCEPT !.at = one.at, !.stored = Append(@, one.value)]
                ELSE [got EXCEPT !.at = one.at, !.over = TRUE]
        all == FoldLeft(step, [at |-> 1, stored |-> <<>>, over |-> FALSE], format)
    IN  [stored |-> all.stored,
         count |-> IF all.over /\ all.stored = <<>> /\ text[all.at] = END THEN -1 ELSE Len(all.stored)]

\* Length.store: as many cells of two bits as the object has, from the lowest.
store(cells, at, length, n) ==
    [i \in DOMAIN cells |-> IF i \in at..(at + length - 1) THEN (n \div 4^(i - at)) % 4
                            ELSE cells[i]]

-----------------------------------------------------------------------------
\* What C says.

\* The sign of a number: + comes before a blank where both are asked for.
SignSaid(negative, spec) ==
    IF negative THEN <<MINUS>>
    ELSE IF spec.plus THEN <<PLUS>> ELSE IF spec.space THEN <<BLANK>> ELSE <<>>

\* A field: no longer than it has to be, blanks on the side the flags say.
IsField(out, spec, Reads(_)) ==
    \E before, after \in 0..Len(out) :
        /\ out = Fill(BLANK, before) \o SubSeq(out, before + 1, Len(out) - after) \o Fill(BLANK, after)
        /\ IF spec.left THEN before = 0 ELSE after = 0
        /\ IF before + after > 0 THEN Len(out) = spec.width ELSE Len(out) >= spec.width
        /\ Reads(SubSeq(out, before + 1, Len(out) - after))

\* The figures of a number: no more than the least asked for and the number
\* need, but for the one 0 that # puts before an octal number without one.
IsFigures(figures, size, base, least, octal) ==
    /\ \A i \in DOMAIN figures : figures[i] < base
    /\ Exact(figures, base) = size
    /\ Len(figures) >= least
    /\ octal => figures # <<>> /\ figures[1] = 0
    /\ Len(figures) > least =>
          \/ figures[1] # 0
          \/ octal /\ (Len(figures) = 1 \/ figures[2] # 0)

\* An integer: its sign or the mark of its base and then its figures, as many
\* as the precision says, or as fill the width.
IsInteger(out, spec, sign, size, base) ==
    LET prefix == IF spec.alt /\ base = 16 /\ size # 0 THEN <<0, EX>> ELSE sign
        least == IF spec.precision # None THEN spec.precision
                 ELSE IF spec.zero /\ ~spec.left /\ spec.width > Len(prefix) + 1
                 THEN spec.width - Len(prefix) ELSE 1
    IN  IsField(out, spec, LAMBDA s :
            /\ IsPrefix(prefix, s)
            /\ IsFigures(SubSeq(s, Len(prefix) + 1, Len(s)), size, base, least, spec.alt /\ base = 8))

\* A text, or a number already spelled, which the zero flag may fill.
IsSpelled(out, spec, sign, body, fills) ==
    IsField(out, spec, LAMBDA s :
        \E zeroes \in 0..Len(s) :
            /\ s = sign \o Fill(0, zeroes) \o body
            /\ IF fills /\ spec.zero /\ ~spec.left THEN Len(s) >= spec.width ELSE zeroes = 0
            /\ zeroes > 0 => Len(s) = spec.width)

\* What is in an array after size characters were allowed, and around it.
IsCopy(into, size, text, result) ==
    LET held == Least(Len(text), Beyond(size, 1))
    IN  /\ result.count = Len(text)
        /\ size > 0 => Chars(result.buffer) = SubSeq(text, 1, held)
        /\ \A i \in DOMAIN into : i > size => result.buffer[i] = into[i]

\* The nearest number of so many places, and of two as near the even one.
IsNearest(text, whole, frac, places) ==
    LET figures == SelectSeq(text, LAMBDA c : c # POINT)
        got == Exact(figures, 10)
        number == Exact(whole \o frac, 10)
        unit == 10^Beyond(Len(frac), places)
        off == got * unit - number * 10^Beyond(places, Len(frac))
    IN  /\ 2 * off < unit \/ (2 * off = unit /\ got % 2 = 0)
        /\ 2 * off > -unit \/ (2 * off = -unit /\ got % 2 = 0)
        /\ Len(figures) > places
        /\ SelectInSeq(text, LAMBDA c : c = POINT) = IF places = 0 THEN 0 ELSE Len(text) - places

\* %g: the notation by the exponent, the number itself, and nothing to trim.
IsGeneral(text, digits, exponent, figures, letter) ==
    LET mark == SelectInSeq(text, LAMBDA c : c = letter)
        mantissa == IF mark = 0 THEN text ELSE SubSeq(text, 1, mark - 1)
        size == Exact(SubSeq(text, mark + 2, Len(text)), 10)
        shift == IF mark = 0 THEN 0 ELSE IF text[mark + 1] = MINUS THEN -size ELSE size
        point == SelectInSeq(mantissa, LAMBDA c : c = POINT)
        value == Exact(SelectSeq(mantissa, LAMBDA c : c # POINT), 10)
        power == IF point = 0 THEN shift ELSE shift - (Len(mantissa) - point)
        least == exponent - Len(digits) + 1
    IN  /\ (mark # 0) <=> (exponent < -4 \/ exponent >= figures)
        /\ mark # 0 => point \in {0, 2} /\ mantissa[1] # 0 /\ Len(text) >= mark + 3
        /\ value * 10^Beyond(power, least) = Exact(digits, 10) * 10^Beyond(least, power)
        /\ point # 0 => Last(mantissa) \notin {0, POINT}

\* An item is the longest part of the input that is what its verb asks for.
IsItem(item, verb) ==
    LET figures == IF item[1] = MINUS THEN Tail(item) ELSE item
    IN  CASE verb = "d" -> figures # <<>> /\ \A i \in DOMAIN figures : figures[i] < 10
          [] verb = "x" -> figures # <<>> /\ \A i \in DOMAIN figures : figures[i] < 16
          [] verb = "c" -> Len(item) = 1 /\ item # <<END>>
          [] verb = "s" -> \A i \in DOMAIN item : item[i] \notin {BLANK, END}

SaidOfScan(text, format) ==
    LET read(got, verb) ==
            LET next == LongestPart(got.rest, LAMBDA item : IsItem(item, verb))
                base == IF verb = "x" THEN 16 ELSE 10
            IN  IF got.over THEN got
                ELSE IF next.part = <<>>
                THEN [got EXCEPT !.over = TRUE, !.none = \A i \in DOMAIN got.rest : got.rest[i] \in {BLANK, END}]
                ELSE [got EXCEPT !.rest = SubSeq(@, next.at, Len(@)),
                                 !.stored = Append(@, IF verb \in {"d", "x"} THEN <<Meant(next.part, base)>>
                                                      ELSE next.part)]
        all == FoldLeft(read, [rest |-> text, stored |-> <<>>, over |-> FALSE, none |-> FALSE], format)
    IN  [stored |-> all.stored,
         count |-> IF all.none /\ all.stored = <<>> THEN -1 ELSE Len(all.stored)]

==============================================================================
