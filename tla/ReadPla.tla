------------------------------ MODULE ReadPla ------------------------------
(***************************************************************************)
(* read_pla (source/io/read_pla.hpp): a PLA file is read from a stream,    *)
(* the header up to blanks and ends of lines, then row after row.          *)
(***************************************************************************)
EXTENDS Pla

CONSTANTS
  MaxNumber,   \* the largest number that an std::uint32_t holds
  Files        \* the files that may be given

ASSUME NumbersAssumption == MaxNumber \in Nat /\ NVars <= MaxNumber

-----------------------------------------------------------------------------
(* A file: its text, and what went into it -- the rows, cubes with the set of *)
(* outputs they are listed for, the number of outputs, and the type, if any; *)
(* of a plain file also its head, and the text is made of these.  Of others *)
(* only the lines behind the head that look like rows are known.            *)

\* A line is a word, up to the first blank, and the rest.
Entries(f) ==
  f.head \o [m \in DOMAIN f.rows |->
                [word |-> str(f.rows[m].cube),
                 rest |-> [k \in 1 .. f.n_outputs |->
                             IF k \in f.rows[m].outs THEN "1" ELSE "0"]]]

\* The text of the last lines, so many of them, and the end.
LastLines(es) ==
  LET text[n \in 0 .. Len(es)] ==
        IF n = 0 THEN Line(<<".", "e">>)
        ELSE LET e == es[Len(es) + 1 - n] IN Row(e.word, e.rest) \o text[n - 1]
  IN  text

TypeWord  == <<".", "t", "y", "p", "e">>
TypeNames == [ESOP |-> <<"E", "s", "o", "p">>, SOP |-> <<"S", "O", "P">>]
Types(f)  == {j \in DOMAIN f.head : f.head[j].word = TypeWord}

Comment(e) ==
  /\ e.word \in Seq(STRING) /\ e.rest \in Seq(STRING)
  /\ e.word # <<>> /\ e.word[1] = "#"
  /\ \A k \in DOMAIN e.word : e.word[k] \notin {" ", "\n"}
  /\ \A k \in DOMAIN e.rest : e.rest[k] # "\n"

\* A line of the head: one that write_pla writes, a type or a comment.
HeadLine(e, f) ==
  \/ e.word = <<".", "i">> /\ e.rest = Numeral(NVars)
  \/ e.word = <<".", "o">> /\ e.rest = Numeral(f.n_outputs)
  \/ e.word = <<".", "p">> /\ \E n \in 0 .. MaxNumber : e.rest = Numeral(n)
  \/ e.word = TypeWord /\ \E t \in DOMAIN TypeNames : e.rest = TypeNames[t]
  \/ Comment(e)

\* The last type counts.
PlainFile(f) ==
  /\ f.head \in Seq(Range(f.head))
  /\ \A j \in DOMAIN f.head : HeadLine(f.head[j], f)
  /\ \A c \in {"i", "o"} : \E j \in DOMAIN f.head : f.head[j].word = <<".", c>>
  /\ Types(f) = {} => f.kind = "UNDEF"
  /\ \A j \in Types(f) : (\A k \in Types(f) : k <= j) =>
       f.kind \in DOMAIN TypeNames /\ f.head[j].rest = TypeNames[f.kind]
  /\ f.text = LastLines(Entries(f))[Len(Entries(f))]

ASSUME FilesAssumption ==
  \A f \in Files : /\ f.rows \in Seq([cube : Cubes, outs : SUBSET Nat])
                   /\ f.lines \in Seq([cube : Cubes, outs : SUBSET Nat])
                   /\ f.n_outputs \in 0 .. MaxNumber
                   /\ f.plain \in BOOLEAN
                   /\ f.plain => PlainFile(f)

VARIABLES
  pc,
  file,
  buffer,      \* the stream: the text that is left, and whether it is good()
  line,        \* what has been read last, up to a blank
  n_inputs, n_outputs,
  type,
  _cubes       \* a list of cubes per output

vars == <<pc, file, buffer, line, n_inputs, n_outputs, type, _cubes>>

-----------------------------------------------------------------------------
(* The stream (external: std::stringstream).  Once it has met its end or    *)
(* failed to read a number it is not good() and nothing more can be read.  *)

Blanks == {" ", "\n"}

peek(b) == IF b.good /\ b.text # <<>> THEN Head(b.text) ELSE "EOF"

\* getline(b, line, d): what comes before the next d, which is removed.
getline(b, d) ==
  LET ends == {k \in DOMAIN b.text : b.text[k] = d}
  IN  IF ~ b.good
        THEN [line |-> <<>>, rest |-> b]
      ELSE IF ends = {}
        THEN [line |-> b.text, rest |-> [text |-> <<>>, good |-> FALSE]]
        ELSE [line |-> SubSeq(b.text, 1, Min(ends) - 1),
              rest |-> [text |-> SubSeq(b.text, Min(ends) + 1, Len(b.text)), good |-> TRUE]]

\* The number of some digits.
DigitOf(c) == CHOOSE d \in 0 .. 9 : Digits[d + 1] = c

Value(chars) ==
  LET value[k \in 0 .. Len(chars)] ==
        IF k = 0 THEN 0 ELSE 10 * value[k - 1] + DigitOf(chars[k])
  IN  value[Len(chars)]

\* b >> n: the next number, across ends of lines.  n keeps its value when there
\* is nothing, becomes 0 when there is something else, and the largest number
\* when it is not large enough.  Numbers have no sign here.
extract(b, n) ==
  LET from    == {k \in DOMAIN b.text : b.text[k] \notin Blanks}
      k       == Min(from)
      end     == Min({m \in k .. Len(b.text) + 1 :
                        m <= Len(b.text) => ~ Contains(Digits, b.text[m])})
      number  == Value(SubSeq(b.text, k, end - 1))
      left(g) == [text |-> SubSeq(b.text, end, Len(b.text)), good |-> g]
  IN  IF ~ b.good \/ from = {}
        THEN [value |-> n, rest |-> [text |-> <<>>, good |-> FALSE]]
      ELSE IF end = k THEN [value |-> 0, rest |-> left(FALSE)]
      ELSE IF number > MaxNumber THEN [value |-> MaxNumber, rest |-> left(FALSE)]
      ELSE [value |-> number, rest |-> left(end <= Len(b.text))]

-----------------------------------------------------------------------------
(* The header *)

\* The character at a position of the line, none behind its end.
At(k) == IF k <= Len(line) THEN line[k] ELSE "NUL"

ReadWord(next) ==
  LET word == getline(buffer, " ")
  IN  line' = word.line /\ buffer' = word.rest /\ pc' = next

\* A line begins with what comes before the next blank, ends of lines included:
\* a comment without a blank takes the beginning of the next line with it.
HeaderLine ==
  /\ pc = "header" /\ peek(buffer) \in {".", "#"}
  /\ ReadWord("directive")
  /\ UNCHANGED <<file, n_inputs, n_outputs, type, _cubes>>

InDirective(letters) == pc = "directive" /\ At(1) = "." /\ At(2) \in letters

\* The number of terms is read, and used by nobody.
Number ==
  /\ InDirective({"i", "o", "p"})
  /\ n_inputs' = IF At(2) = "i" THEN extract(buffer, n_inputs).value ELSE n_inputs
  /\ n_outputs' = IF At(2) = "o" THEN extract(buffer, n_outputs).value ELSE n_outputs
  /\ buffer' = extract(buffer, 0).rest
  /\ pc' = "skip"
  /\ UNCHANGED <<file, line, type, _cubes>>

Type ==
  /\ InDirective({"t"})
  /\ LET rest == getline(buffer, "\n")
     IN  /\ type' = IF buffer.good THEN rest.line ELSE type
         /\ buffer' = rest.rest
  /\ pc' = "header"
  /\ UNCHANGED <<file, line, n_inputs, n_outputs, _cubes>>

\* Mutant of Ignored: of a comment only the beginning of the line is removed.
IgnoredUpToBlank ==
  /\ pc = "directive" /\ ~ InDirective({"i", "o", "p", "t"})
  /\ pc' = IF At(1) = "#" THEN "header" ELSE "skip"
  /\ UNCHANGED <<file, buffer, line, n_inputs, n_outputs, type, _cubes>>

\* Comments and other directives.
Ignored ==
  /\ pc = "directive" /\ ~ InDirective({"i", "o", "p", "t"})
  /\ pc' = "skip"
  /\ UNCHANGED <<file, buffer, line, n_inputs, n_outputs, type, _cubes>>

SkipLine ==
  /\ pc = "skip"
  /\ buffer' = getline(buffer, "\n").rest
  /\ pc' = "header"
  /\ UNCHANGED <<file, line, n_inputs, n_outputs, type, _cubes>>

HeaderRead ==
  /\ pc = "header" /\ peek(buffer) \notin {".", "#"}
  /\ _cubes' = [k \in 1 .. n_outputs |-> <<>>]
  /\ pc' = "rows"
  /\ UNCHANGED <<file, buffer, line, n_inputs, n_outputs, type>>

-----------------------------------------------------------------------------
(* The kind *)

Lower == [E |-> "e", S |-> "s", O |-> "o", P |-> "p"]

tolower(s) == [k \in DOMAIN s |-> IF s[k] \in DOMAIN Lower THEN Lower[s[k]] ELSE s[k]]

Finds(s, w) == \E k \in DOMAIN s : IsPrefix(w, SubSeq(s, k, Len(s)))

kind(t) ==
  IF Finds(tolower(t), <<"e", "s", "o", "p">>) THEN "ESOP"
  ELSE IF Finds(tolower(t), <<"s", "o", "p">>) THEN "SOP" ELSE "UNDEF"

-----------------------------------------------------------------------------
(* Rows *)

ReadInput ==
  /\ pc = "rows"
  /\ ReadWord("input")
  /\ UNCHANGED <<file, n_inputs, n_outputs, type, _cubes>>

AtEnd == At(1) = "." /\ At(2) = "e"

\* Mutant of InputOK: the inputs are not counted.
InputUncounted == ~ AtEnd

InputOK == ~ AtEnd /\ Len(line) = n_inputs

\* Mutant of OutputOK: the outputs are not counted.
OutputUncounted(out) == TRUE

OutputOK(out) == Len(out) = n_outputs

\* The cube of a row: other characters than 0 and 1 stand for no literal.
CubeOf(chars) ==
  LET cube[k \in 0 .. Len(chars)] ==
        IF k = 0 THEN cube32_one
        ELSE IF chars[k] = "1" THEN add_lit(cube[k - 1], k - 1, 1)
        ELSE IF chars[k] = "0" THEN add_lit(cube[k - 1], k - 1, 0)
        ELSE cube[k - 1]
  IN  cube[Len(chars)]

add_cube(out) ==
  [k \in DOMAIN _cubes |->
     IF k <= Len(out) /\ out[k] = "1" THEN Append(_cubes[k], CubeOf(line)) ELSE _cubes[k]]

AddRow ==
  /\ pc = "input" /\ InputOK
  /\ LET rest == getline(buffer, "\n")
     IN  /\ OutputOK(rest.line)
         /\ _cubes' = add_cube(rest.line)
         /\ buffer' = rest.rest
  /\ pc' = "rows"
  /\ UNCHANGED <<file, line, n_inputs, n_outputs, type>>

\* Whatever does not look like a row ends the file, with a message only.
LastRow ==
  /\ pc = "input" /\ (InputOK => ~ OutputOK(getline(buffer, "\n").line))
  /\ pc' = "done"
  /\ UNCHANGED <<file, buffer, line, n_inputs, n_outputs, type, _cubes>>

-----------------------------------------------------------------------------
Init ==
  /\ pc = "header"
  /\ file \in Files
  /\ buffer = [text |-> file.text, good |-> TRUE]
  /\ line = <<>>
  /\ n_inputs = 0 /\ n_outputs = 0
  /\ type = <<>>
  /\ _cubes = <<>>

Header == HeaderLine \/ Number \/ Type \/ Ignored \/ SkipLine \/ HeaderRead

Next == Header \/ ReadInput \/ AddRow \/ LastRow

-----------------------------------------------------------------------------
(* Properties *)

\* The cubes of the first rows, so many of them, that are listed for an output.
Listed(rows, k) ==
  LET own[n \in 0 .. Len(rows)] ==
        IF n = 0 THEN <<>>
        ELSE IF k \in rows[n].outs THEN Append(own[n - 1], rows[n].cube) ELSE own[n - 1]
  IN  own

\* The covers that rows stand for, one per output.
Covers32(rows, n) == [k \in 1 .. n |-> Listed(rows, k)[Len(rows)]]

\* A list without the entries at some positions.
RemoveAll(rows, lost) ==
  FoldLeftDomain(LAMBDA r, k : IF k \in lost THEN r ELSE Append(r, rows[k]), <<>>, rows)

\* A file written by write_pla, to which a type or comments with a blank may
\* have been added in the header, is read back as it was written.
ReadsBack ==
  pc = "done" /\ file.plain =>
    /\ n_inputs = NVars
    /\ _cubes = Covers32(file.rows, file.n_outputs)
    /\ kind(type) = file.kind

\* The covers that are returned are those of the lines behind the head that look
\* like rows -- the rows, and also comments with as many characters before and
\* behind their blank, although they ought to be ignored; of all these before
\* the first line that is not understood or where the file is cut off, unless a
\* comment without a blank has swallowed one.
RowsRead ==
  pc = "done" =>
    \E n \in 0 .. Len(file.lines), lost \in SUBSET (1 .. Len(file.lines)) :
      /\ file.spaced => lost = {}
      /\ _cubes = Covers32(RemoveAll(SubSeq(file.lines, 1, n), lost), n_outputs)

\* Once the header has given inputs or outputs, reading ends, also where the
\* file is cut off: an exhausted stream does not look like a row.
EndsWithDimensions == pc = "rows" /\ n_inputs + n_outputs > 0 ~> pc = "done"
=============================================================================
