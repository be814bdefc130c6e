-------------------------------- MODULE Pla --------------------------------
(***************************************************************************)
(* PLA files, as write_pla (source/io/write_pla.hpp) writes them: a header *)
(* of three lines, a row per cube, and an end.  A text is a sequence of    *)
(* characters, strings of length 1.                                        *)
(***************************************************************************)
EXTENDS Cube32, Sequences, SequencesExt

\* Mutant of str: a negative literal is taken for one that does not appear.
str_negative(c) == [k \in 1 .. NVars |-> IF k - 1 \in c.polarity THEN "1"
                                         ELSE IF k - 1 \in c.mask THEN "-" ELSE "0"]

\* cube32::str
str(c) == [k \in 1 .. NVars |-> IF k - 1 \notin c.mask THEN "-"
                                ELSE IF k - 1 \in c.polarity THEN "1" ELSE "0"]

Digits == <<"0", "1", "2", "3", "4", "5", "6", "7", "8", "9">>

\* n without its last j digits, for every j.
Tenths(n) ==
  LET tenths[j \in Nat] == IF j = 0 THEN n ELSE tenths[j - 1] \div 10 IN tenths

\* The numbers of a header, in as few digits as they have.
Numeral(n) ==
  LET size == Min({j \in 1 .. n + 1 : Tenths(n)[j] = 0})
  IN  [k \in 1 .. size |-> Digits[(Tenths(n)[size - k] % 10) + 1]]

Line(chars)      == chars \o <<"\n">>
Directive(c, n)  == Line(<<".", c, " ">> \o Numeral(n))
Row(in, out)     == Line(in \o <<" ">> \o out)

\* The file of one output, a row per cube.
write_pla(s) == <<Directive("i", NVars), Directive("o", 1), Directive("p", Len(s))>>
                  \o [k \in DOMAIN s |-> Row(str(s[k]), <<"1">>)]
                  \o <<Line(<<".", "e">>)>>
=============================================================================
