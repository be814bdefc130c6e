--------------------------- MODULE MCExorcismTool ---------------------------
(***************************************************************************)
(* Files with up to two rows: as they were written, with one or two lines  *)
(* put in between, or cut off after any character; one with ten outputs;   *)
(* and the command lines, of those that differ in nothing the tool looks   *)
(* at only one.                                                            *)
(***************************************************************************)
EXTENDS ExorcismTool

CONSTANTS MaxRows, MaxInserted

\* The last comment looks like a row of two inputs and an output, and the last
\* directive has a number that is too large.
RowLike  == <<"#", "c", " ", "1">>
Comments == {<<"#", " ", "c">>, <<"#", "c">>, <<"#">>, RowLike}
Esop     == <<".", "t", "y", "p", "e", " ", "E", "s", "o", "p">>
Sop      == <<".", "t", "y", "p", "e", " ", "S", "O", "P">>
Ilb      == <<".", "i", "l", "b", " ", "a", " ", "b">>
Huge     == <<".", "p", " ">> \o Numeral(MaxNumber + 1)
Extra    == Comments \cup {Esop, Sop, Ilb, Huge}

Kept == {Cube({0, 1}, {1}), Cube({1}, {})}

RowsFor(o) == BoundedSeq([cube : Kept, outs : SUBSET (1 .. o) \ {{}}], MaxRows)

Outs(r, o) == [k \in 1 .. o |-> IF k \in r.outs THEN "1" ELSE "0"]

\* The lines of a file with o outputs; write_pla writes those with one.
Lines(rows, o) ==
  IF o = 1
    THEN write_pla([k \in DOMAIN rows |-> rows[k].cube])
    ELSE <<Directive("i", NVars), Directive("o", o), Directive("p", Len(rows))>>
           \o [k \in DOMAIN rows |-> Row(str(rows[k].cube), Outs(rows[k], o))]
           \o <<Line(<<".", "e">>)>>

\* Lines put in: [at |-> before which line, line |-> what].
Insertions(n) == BoundedSeq([at : 1 .. n, line : Extra], MaxInserted)

Put(lists, ins, Of(_)) ==
  LET of(k) == FlattenSeq([j \in DOMAIN ins |-> IF ins[j].at = k THEN Of(ins[j].line) ELSE <<>>])
  IN  FlattenSeq([k \in DOMAIN lists |-> of(k) \o lists[k]])

\* A line with a blank, as a list of one entry.
Entry(chars) ==
  LET k == SelectInSeq(chars, LAMBDA c : c = " ")
  IN  <<[word |-> SubSeq(chars, 1, k - 1), rest |-> SubSeq(chars, k + 1, Len(chars))]>>

HeadOf(lines, ins) ==
  Put([k \in 1 .. 4 |-> IF k < 4 THEN Entry(Front(lines[k])) ELSE <<>>], ins, Entry)

\* The rows, and what looks like one behind the first of them.
LinesOf(rows, ins) ==
  Put(<<<<>>, <<>>, <<>>>> \o [m \in DOMAIN rows |-> <<rows[m]>>] \o <<<<>>>>,
      SelectSeq(ins, LAMBDA i : i.at > 4),
      LAMBDA chars : IF chars = RowLike THEN <<[cube |-> cube32_one, outs |-> {1}]>> ELSE <<>>)

KindOf(ins) ==
  LET types == SelectSeq(ins, LAMBDA i : i.line \in {Esop, Sop})
  IN  IF types = <<>> THEN "UNDEF" ELSE IF Last(types).line = Esop THEN "ESOP" ELSE "SOP"

Ordered(ins) == \A j \in 2 .. Len(ins) : ins[j - 1].at <= ins[j].at

IsPlain(ins) ==
  \A j \in DOMAIN ins : ins[j].at <= 4 /\ ins[j].line \in {<<"#", " ", "c">>, RowLike, Esop, Sop}

Inserted(rows, o) ==
  LET lines == Lines(rows, o)
  IN  {[text |-> Put(lines, ins, Line), rows |-> rows, n_outputs |-> o, kind |-> KindOf(ins),
        lines |-> LinesOf(rows, ins),
        head |-> IF IsPlain(ins) THEN HeadOf(lines, ins) ELSE <<>>,
        plain |-> IsPlain(ins),
        spaced |-> \A j \in DOMAIN ins : ins[j].line \notin {<<"#", "c">>, <<"#">>}] :
         ins \in {i \in Insertions(Len(lines)) : Ordered(i)}}

CutOff(rows, o) ==
  LET lines == Lines(rows, o)
      text  == FlattenSeq(lines)
  IN  {[text |-> SubSeq(text, 1, k), rows |-> rows, n_outputs |-> o, kind |-> "UNDEF",
        lines |-> rows,
        head |-> IF k = Len(text) THEN HeadOf(lines, <<>>) ELSE <<>>,
        plain |-> k = Len(text), spaced |-> TRUE] : k \in 0 .. Len(text)}

TwoRows == <<[cube |-> Cube({0, 1}, {1}), outs |-> {1}], [cube |-> Cube({1}, {}), outs |-> {1}]>>

MCFiles == UNION {Inserted(SubSeq(TwoRows, 1, n), 1) : n \in 0 .. MaxRows}
             \cup UNION {CutOff(rows, 1) : rows \in RowsFor(1)}
             \cup UNION {CutOff(rows, 2) : rows \in RowsFor(2)}
             \cup CutOff(<<[cube |-> Cube({0, 1}, {1}), outs |-> {1, 10}]>>, 10)

CommandLine(help, in, out, opens) ==
  [help |-> help, in_fname |-> in, out_fname |-> out, opens |-> opens]

MCCommandLines ==
  {CommandLine(TRUE, "other", "none", TRUE), CommandLine(FALSE, "none", "none", TRUE),
   CommandLine(FALSE, "other", "none", TRUE),
   CommandLine(FALSE, "name.pla", "other", TRUE),
   CommandLine(FALSE, "name.pla", "none", TRUE),
   CommandLine(FALSE, "name.pla", "name.pla", FALSE)}
=============================================================================
