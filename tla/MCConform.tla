------------------------------- MODULE MCConform -------------------------------
(***************************************************************************)
(* Conform for TLC: every mix of flags over small widths, strings over two *)
(* cases of a letter and a comma, numerals of up to four characters read   *)
(* into a type of four bits, arrays of up to four elements, a name that    *)
(* begins another.                                                         *)
(***************************************************************************)
EXTENDS Conform

\* Everything there is at a small size.
MCSpecs == [left : BOOLEAN, zero : BOOLEAN, plus : BOOLEAN, space : BOOLEAN, alt : BOOLEAN,
            width : {0, 3, 4}, precision : {None, 0, 2}]
MCWholes == BoundedSeq({0, 1, 8, 9}, 2)
MCFractions == BoundedSeq({0, 1, 5, 9}, 4)
MCMantissas == {<<1>>, <<1, 5>>, <<9, 4>>, <<9, 5>>, <<4, 0, 2>>, <<9, 6, 1>>}
MCInputs == {Append(t, END) : t \in BoundedSeq({1, 2, 10, BLANK, MINUS}, 4)}
MCFormats == {<<"d">>, <<"d", "s">>, <<"x", "d">>, <<"c", "d">>}
MCTexts == {Append(t, 0) : t \in BoundedSeq({65, 97, 44}, 3)}
MCNumerals == {Append(t, END) : t \in BoundedSeq({0, 1, 9, E, EX, BLANK, MINUS, POINT}, 4)}
MCArrays == {[i \in DOMAIN keys |-> <<keys[i], i>>] : keys \in BoundedSeq(0..2, 4)}
MCNames == {<<"T">>, <<"T", "T">>, <<"U">>}
MCValues == {<<>>, <<"x">>}
MCInherited == <<<<"T", "T", "=", "x">>>>
MCRuns == {<<1>>, <<2>>, <<1, 2>>}
MCExponents == (-6..5) \cup {10}
MCPassed == -8..15

\* What conform.c itself asks, at this size: %d, %5d, %-5d and %05d; %g and %G
\* of 0.00001234; a number, a number and a word, and nothing at all; a prefix
\* with a figure, a number that fits and one that does not.
AskedSpecs == [left : BOOLEAN, zero : BOOLEAN, plus : {FALSE}, space : {FALSE}, alt : {FALSE},
               width : {0, 4}, precision : {None}]
AskedMantissas == {<<1, 2, 3, 4>>}
AskedExponents == {-5}
AskedInputs == {<<1, 2, BLANK, MINUS, 4, BLANK, 10, END>>, <<END>>}
AskedFormats == {<<"d">>, <<"d", "d", "s">>}
AskedNumerals == {<<0, EX, 1, END>>, <<1, END>>, <<9, 9, END>>}

==============================================================================
