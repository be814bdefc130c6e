------------------------- MODULE ExorcismToolProofs -------------------------
(***************************************************************************)
(* A file as write_pla writes it, with types and comments in its header,   *)
(* is read back, and the program tools/exorcism/main.cpp keeps the function *)
(* of each of its outputs: for every number of inputs and outputs that an  *)
(* std::uint32_t holds, any rows, and everything that minimising may return. *)
(***************************************************************************)
EXTENDS ExorcismTool, Cube32Lemmas

-----------------------------------------------------------------------------
(* The stream. *)

Chars == STRING \cup {" ", "\n", "#", "."} \cup {"-", "0", "1"} \cup {Digits[k] : k \in 1 .. 10}
           \cup {"e", "i", "o", "p", "t", "y", "s", "E", "O", "P", "S"}
Text  == Seq(Chars)

Good(t)   == [text |-> t, good |-> TRUE]
Exhausted == [text |-> <<>>, good |-> FALSE]

\* A character that occurs nowhere in a text.
Free(u, d) == \A k \in 1 .. Len(u) : u[k] # d

\* The least number of a set.
LEMMA MinIs ==
  ASSUME NEW S \in SUBSET Nat, NEW n \in S, \A m \in S : n <= m
  PROVE  Min(S) = n
<1>1. \A m \in S : (\A k \in S : m <= k) => m = n
  OBVIOUS
<1> QED  BY <1>1 DEF Min

\* getline on a text with the character it looks for.
LEMMA GetlineCut ==
  ASSUME NEW u \in Text, NEW v \in Text, NEW d \in Chars, Free(u, d)
  PROVE  /\ u \o (<<d>> \o v) \in Text
         /\ getline(Good(u \o (<<d>> \o v)), d).line = u
         /\ getline(Good(u \o (<<d>> \o v)), d).rest = Good(v)
<1> DEFINE w    == <<d>> \o v
           t    == u \o w
           ends == {k \in DOMAIN t : t[k] = d}
           n    == Len(u)
<1>0. u \in Seq(Chars) /\ v \in Seq(Chars)
  BY DEF Text
<1>1. w \in Seq(Chars) /\ Len(w) = Len(v) + 1 /\ w[1] = d /\ \A k \in 1 .. Len(v) : w[1 + k] = v[k]
  <2> DEFINE s == <<d>>
  <2>1. s \in Seq(Chars) /\ Len(s) = 1 /\ s[1] = d
    OBVIOUS
  <2> HIDE DEF s
  <2>2. s \o v \in Seq(Chars) /\ IsJoin(s \o v, s, v)
    BY <1>0, <2>1, Joined
  <2>3. 1 \in 1 .. 1
    OBVIOUS
  <2> QED  BY <2>1, <2>2, <2>3 DEF IsJoin, s
<1> HIDE DEF w
<1>2. /\ t \in Seq(Chars) /\ Len(t) = n + Len(w) /\ n \in Nat /\ Len(v) \in Nat
      /\ \A k \in 1 .. n : t[k] = u[k]
      /\ \A k \in 1 .. Len(w) : t[n + k] = w[k]
  <2>1. t \in Seq(Chars) /\ IsJoin(t, u, w)
    BY <1>0, <1>1, Joined
  <2>2. Len(v) \in Nat
    OBVIOUS
  <2> QED  BY <2>1, <2>2 DEF IsJoin
<1> HIDE DEF t
<1>3. DOMAIN t = 1 .. n + 1 + Len(v) /\ Len(t) = n + 1 + Len(v)
  BY <1>1, <1>2
<1>4. n + 1 \in ends
  <2>1. t[n + 1] = w[1]
    <3>1. 1 \in 1 .. Len(w)
      BY <1>1, <1>2
    <3> QED  BY <1>2, <3>1
  <2> QED  BY <1>1, <1>2, <1>3, <2>1
<1>5. \A k \in ends : k \in Nat /\ n + 1 <= k
  <2>1. \A k \in 1 .. n : t[k] # d
    BY <1>2 DEF Free
  <2>2. \A k \in ends : k \in 1 .. n + 1 + Len(v) /\ t[k] = d
    BY <1>3
  <2> HIDE DEF ends
  <2> QED  BY <1>2, <2>1, <2>2
<1>6. ends \in SUBSET Nat
  BY <1>5
<1> HIDE DEF ends
<1>7. Min(ends) = n + 1
  BY <1>4, <1>5, <1>6, MinIs
<1>8. SubSeq(t, 1, n) = u
  <2>1. \A k \in 1 .. n : t[k] \in Chars /\ t[k] = u[k]
    BY <1>2
  <2>2. /\ SubSeq(t, 1, n) \in Seq(Chars)
        /\ Len(SubSeq(t, 1, n)) = n
        /\ \A k \in 1 .. n : SubSeq(t, 1, n)[k] = t[k]
    <3>1. /\ SubSeq(t, 1, n) \in Seq(Chars)
          /\ Len(SubSeq(t, 1, n)) = IF 1 <= n THEN n - 1 + 1 ELSE 0
          /\ \A k \in 1 .. n - 1 + 1 : SubSeq(t, 1, n)[k] = t[1 + k - 1]
      BY <1>2, <2>1, SubSeqProperties
    <3>2. n - 1 + 1 = n /\ (~ (1 <= n) => n = 0) /\ \A k \in 1 .. n : 1 + k - 1 = k
      BY <1>2
    <3> QED  BY <3>1, <3>2
  <2> QED  BY <1>0, <2>1, <2>2, SeqEqual
<1>9. SubSeq(t, n + 2, Len(t)) = v
  <2> DEFINE m == Len(v)
             s == SubSeq(t, n + 2, n + 1 + m)
  <2>1. \A k \in 1 .. m : n + 1 + k \in 1 .. n + 1 + m /\ t[n + 1 + k] = v[k]
    <3> SUFFICES ASSUME NEW k \in 1 .. m
                 PROVE  n + 1 + k \in 1 .. n + 1 + m /\ t[n + 1 + k] = v[k]
      OBVIOUS
    <3>1. 1 + k \in 1 .. Len(w) /\ n + (1 + k) = n + 1 + k
      BY <1>1, <1>2
    <3>2. t[n + (1 + k)] = w[1 + k] /\ w[1 + k] = v[k]
      BY <1>1, <1>2, <3>1
    <3> QED  BY <1>2, <3>1, <3>2
  <2>2. \A k \in n + 2 .. n + 1 + m : k \in 1 .. Len(t)
    BY <1>2, <1>3
  <2>3. \A k \in n + 2 .. n + 1 + m : t[k] \in Chars
    BY <1>2, <2>2, ElementOfSeq
  <2>4. /\ s \in Seq(Chars)
        /\ Len(s) = IF n + 2 <= n + 1 + m THEN n + 1 + m - (n + 2) + 1 ELSE 0
        /\ \A k \in 1 .. n + 1 + m - (n + 2) + 1 : s[k] = t[n + 2 + k - 1]
    <3>1. n + 2 \in Int /\ n + 1 + m \in Int
      BY <1>2
    <3> QED  BY <2>3, <3>1, SubSeqProperties
  <2>5. Len(s) = m /\ \A k \in 1 .. m : s[k] = t[n + 1 + k]
    <3>1. n + 1 + m - (n + 2) + 1 = m /\ (~ (n + 2 <= n + 1 + m) => m = 0)
      BY <1>2
    <3>2. \A k \in 1 .. m : n + 2 + k - 1 = n + 1 + k
      BY <1>2
    <3> QED  BY <2>4, <3>1, <3>2
  <2> HIDE DEF s
  <2>6. s = v
    BY <1>0, <2>1, <2>4, <2>5, SeqEqual
  <2> QED  BY <1>3, <2>6 DEF s
<1>10. n + 1 - 1 = n /\ n + 1 + 1 = n + 2
  BY <1>2
<1>11. /\ SubSeq(t, 1, Min(ends) - 1) = u /\ SubSeq(t, Min(ends) + 1, Len(t)) = v
  BY <1>7, <1>8, <1>9, <1>10
<1>12. t \in Seq(Chars) /\ ends # {}
  BY <1>2, <1>4
<1>13. Good(t).text = t /\ Good(t).good = TRUE
  BY DEF Good
<1>14. getline(Good(t), d).line = u /\ getline(Good(t), d).rest = Good(v)
  <2> DEFINE r == [line |-> SubSeq(t, 1, Min(ends) - 1),
                   rest |-> [text |-> SubSeq(t, Min(ends) + 1, Len(t)), good |-> TRUE]]
  <2>1. r.line = u /\ r.rest = Good(v)
    BY <1>11 DEF Good
  <2>2. getline(Good(t), d) = r
    BY <1>12, <1>13 DEF getline, ends
  <2> HIDE DEF r
  <2> QED  BY <2>1, <2>2
<1> QED  BY <1>12, <1>14 DEF t, w, Text

\* getline on a text without it.
LEMMA GetlineAll ==
  ASSUME NEW u \in Text, NEW d, Free(u, d)
  PROVE  getline(Good(u), d).line = u /\ getline(Good(u), d).rest = Exhausted
<1>1. {k \in DOMAIN u : u[k] = d} = {}
  BY DEF Free, Text
<1> QED  BY <1>1 DEF getline, Good, Exhausted

\* getline when nothing can be read any more.
LEMMA GetlineEnd ==
  \A d : getline(Exhausted, d).line = <<>> /\ getline(Exhausted, d).rest = Exhausted
BY DEF getline, Exhausted

-----------------------------------------------------------------------------
(* Texts. *)

\* Characters of their own.
LEMMA CharsAre ==
  /\ " " \in Chars /\ "\n" \in Chars /\ "." \in Chars /\ "#" \in Chars
  /\ "-" \in Chars /\ "0" \in Chars /\ "1" \in Chars
  /\ "e" \in Chars /\ "i" \in Chars /\ "o" \in Chars /\ "p" \in Chars
  /\ "t" \in Chars /\ "y" \in Chars /\ "s" \in Chars
  /\ "E" \in Chars /\ "O" \in Chars /\ "P" \in Chars /\ "S" \in Chars
  /\ \A k \in 1 .. 10 : Digits[k] \in Chars
  /\ STRING \subseteq Chars
BY DEF Chars

\* Texts put together are texts, however they are bracketed.
LEMMA TextJoin ==
  /\ \A u, v \in Text : u \o v \in Text
  /\ \A u, v, w \in Text : (u \o v) \o w = u \o (v \o w)
  /\ <<>> \in Text
  /\ \A c \in Chars : <<c>> \in Text
BY ConcatProperties, ConcatAssociative, EmptySeq DEF Text

\* A line put before a text.
LEMMA RowBefore ==
  ASSUME NEW u \in Text, NEW v \in Text, NEW t \in Text
  PROVE  /\ Row(u, v) \o t = u \o (<<" ">> \o (v \o (<<"\n">> \o t)))
         /\ Row(u, v) \o t \in Text
<1> DEFINE b == <<" ">>
           n == <<"\n">>
<1>1. b \in Text /\ n \in Text
  BY CharsAre, TextJoin
<1> DEFINE x == u \o b
           y == x \o v
           z == y \o n
<1>2. Row(u, v) = z
  BY DEF Row, Line
<1> HIDE DEF b, n
<1>3. x \in Text /\ \A w \in Text : x \o w = u \o (b \o w)
  BY <1>1, TextJoin
<1> HIDE DEF x
<1>4. y \in Text /\ \A w \in Text : y \o w = x \o (v \o w)
  BY <1>3, TextJoin
<1> HIDE DEF y
<1>5. z \in Text /\ z \o t = y \o (n \o t)
  BY <1>1, <1>4, TextJoin
<1> HIDE DEF z
<1>6. n \o t \in Text /\ v \o (n \o t) \in Text /\ z \o t \in Text
  BY <1>1, <1>5, TextJoin
<1>7. z \o t = u \o (b \o (v \o (n \o t)))
  BY <1>3, <1>4, <1>5, <1>6
<1> QED  BY <1>2, <1>6, <1>7 DEF b, n

\* The characters of a cube.
LEMMA StrIs ==
  ASSUME NEW c \in Cubes
  PROVE  /\ str(c) \in Text /\ Len(str(c)) = NVars /\ NVars \in Nat
         /\ \A k \in 1 .. NVars : str(c)[k] = IF k - 1 \notin c.mask THEN "-"
                                    ELSE IF k - 1 \in c.polarity THEN "1" ELSE "0"
<1>1. NVars \in Nat
  BY NVarsAssumption, WidthAssumption
<1>2. str(c) \in [1 .. NVars -> Chars]
  BY CharsAre DEF str
<1>3. \A k \in 1 .. NVars : str(c)[k] = IF k - 1 \notin c.mask THEN "-"
                                        ELSE IF k - 1 \in c.polarity THEN "1" ELSE "0"
  BY DEF str
<1> QED  BY <1>1, <1>2, <1>3 DEF Text

-----------------------------------------------------------------------------
(* The lines of a plain file. *)

NRows(f)  == Len(f.rows)
NHead(f)  == Len(f.head)
NLines(f) == Len(Entries(f))

\* The text that is left when so many lines have been read.
After(f, n) == LastLines(Entries(f))[NLines(f) - n]

EndLine == Line(<<".", "e">>)

\* The rows as lines.
Outs(f, m) == [k \in 1 .. f.n_outputs |-> IF k \in f.rows[m].outs THEN "1" ELSE "0"]

\* What is known of a file.
LEMMA FileIs ==
  ASSUME NEW f \in Files
  PROVE  /\ f.rows \in Seq([cube : Cubes, outs : SUBSET Nat])
         /\ NRows(f) \in Nat
         /\ \A m \in 1 .. NRows(f) : f.rows[m].cube \in Cubes /\ f.rows[m].outs \in SUBSET Nat
         /\ f.n_outputs \in Nat /\ f.n_outputs \in 0 .. MaxNumber
         /\ NVars \in 0 .. MaxNumber /\ MaxNumber \in Nat
         /\ f.plain => PlainFile(f)
<1> DEFINE R == [cube : Cubes, outs : SUBSET Nat]
<1>1. /\ f.rows \in Seq(R) /\ f.n_outputs \in 0 .. MaxNumber
      /\ f.plain => PlainFile(f)
  BY FilesAssumption
<1>2. \A m \in 1 .. NRows(f) : f.rows[m] \in R
  <2> HIDE DEF R
  <2> QED  BY <1>1, ElementOfSeq DEF NRows
<1>3. NRows(f) \in Nat
  BY <1>1 DEF NRows
<1>4. NVars \in 0 .. MaxNumber /\ MaxNumber \in Nat
  <2>1. NVars \in Nat
    BY NVarsAssumption, WidthAssumption
  <2> QED  BY <2>1, NumbersAssumption
<1> QED  BY <1>1, <1>2, <1>3, <1>4

\* The columns of outputs.
LEMMA OutsAre ==
  ASSUME NEW f \in Files, NEW m
  PROVE  /\ Outs(f, m) \in Text /\ Len(Outs(f, m)) = f.n_outputs
         /\ \A k \in 1 .. f.n_outputs : Outs(f, m)[k] = IF k \in f.rows[m].outs THEN "1" ELSE "0"
         /\ Free(Outs(f, m), "\n")
<1>1. Outs(f, m) \in [1 .. f.n_outputs -> Chars]
  BY CharsAre DEF Outs
<1>2. \A k \in 1 .. f.n_outputs : Outs(f, m)[k] = IF k \in f.rows[m].outs THEN "1" ELSE "0"
  BY DEF Outs
<1>3. f.n_outputs \in Nat
  BY FileIs
<1> QED  BY <1>1, <1>2, <1>3 DEF Text, Free

\* Lists of characters.
LEMMA WordsAreText ==
  /\ \A c \in {"i", "o", "p"} : <<".", c>> \in Text
  /\ TypeWord \in Text /\ \A t \in DOMAIN TypeNames : TypeNames[t] \in Text
  /\ Seq(STRING) \subseteq Text
<1> DEFINE D == "."
           E == "e"
           I == "i"
           O == "o"
           P == "p"
           T == "t"
           Y == "y"
           S == "s"
           CE == "E"
           CO == "O"
           CP == "P"
           CS == "S"
<1>1. /\ D \in Chars /\ E \in Chars /\ I \in Chars /\ O \in Chars /\ P \in Chars /\ T \in Chars
      /\ Y \in Chars /\ S \in Chars /\ CE \in Chars /\ CO \in Chars /\ CP \in Chars /\ CS \in Chars
  BY CharsAre
<1> HIDE DEF D, E, I, O, P, T, Y, S, CE, CO, CP, CS
<1>2. <<D, I>> \in Text /\ <<D, O>> \in Text /\ <<D, P>> \in Text
  BY <1>1 DEF Text
<1>3. <<D, T, Y, P, E>> \in Text
  BY <1>1 DEF Text
<1>4. <<CE, S, O, P>> \in Text /\ <<CS, CO, CP>> \in Text
  BY <1>1 DEF Text
<1>5. \A c \in {"i", "o", "p"} : <<".", c>> \in Text
  BY <1>2 DEF D, I, O, P
<1>6. TypeWord \in Text
  BY <1>3 DEF TypeWord, D, T, Y, P, E
<1>7. \A t \in DOMAIN TypeNames : TypeNames[t] \in Text
  <2>1. TypeNames.ESOP \in Text /\ TypeNames.SOP \in Text
    BY <1>4 DEF TypeNames, CE, S, O, P, CS, CO, CP
  <2>2. DOMAIN TypeNames = {"ESOP", "SOP"}
    BY DEF TypeNames
  <2> QED  BY <2>1, <2>2
<1>8. Seq(STRING) \subseteq Text
  <2> DEFINE A == STRING
  <2>1. A \subseteq Chars
    BY CharsAre
  <2> HIDE DEF A
  <2>2. \A q \in Seq(A) : q \in Seq(Chars)
    BY <2>1, SeqMonotonic
  <2> QED  BY <2>2 DEF Text, A
<1> QED  BY <1>5, <1>6, <1>7, <1>8

\* A number is a text of digits: the last one of the number, before it the last
\* one of its tenth, and so on.
LEMMA NumeralIs ==
  ASSUME NEW n \in Nat
  PROVE  /\ Numeral(n) \in Text /\ Len(Numeral(n)) \in Nat \ {0}
         /\ Tenths(n) \in [Nat -> Nat] /\ Tenths(n)[0] = n
         /\ Tenths(n)[Len(Numeral(n))] = 0
         /\ \A j \in Nat : Tenths(n)[j + 1] = Tenths(n)[j] \div 10
         /\ \A k \in 1 .. Len(Numeral(n)) :
              Numeral(n)[k] = Digits[(Tenths(n)[Len(Numeral(n)) - k] % 10) + 1]
<1> DEFINE t        == Tenths(n)
           size     == Min({j \in 1 .. n + 1 : t[j] = 0})
           digit(k) == Digits[(t[size - k] % 10) + 1]
<1>1. /\ t \in [Nat -> Nat] /\ t[0] = n /\ \A j \in Nat : t[j + 1] = t[j] \div 10
      /\ size \in 1 .. n + 1 /\ t[size] = 0
  BY TenthsRec DEF Tenths
<1>2. Numeral(n) = [k \in 1 .. size |-> digit(k)]
  BY DEF Numeral
<1> HIDE DEF t, size
<1>3. size \in Nat \ {0}
  BY <1>1
<1>4. ASSUME NEW k \in 1 .. size  PROVE digit(k) \in Chars
  <2>1. size - k \in Nat
    BY <1>3
  <2>2. t[size - k] \in Nat
    BY <1>1, <2>1
  <2>3. (t[size - k] % 10) + 1 \in 1 .. 10
    BY <2>2
  <2> QED  BY <2>3, CharsAre
<1>5. Len(Numeral(n)) = size /\ \A k \in 1 .. size : Numeral(n)[k] = digit(k)
  BY <1>2, <1>3
<1>6. Numeral(n) \in Text
  <2> HIDE DEF digit
  <2>1. Numeral(n) \in [1 .. size -> Chars]
    BY <1>2, <1>4
  <2> QED  BY <1>3, <2>1 DEF Text
<1>7. \A k \in 1 .. size : Numeral(n)[k] = Digits[(t[size - k] % 10) + 1]
  BY <1>5
<1> HIDE DEF digit
<1> QED  BY <1>1, <1>3, <1>5, <1>6, <1>7 DEF t

\* The lines of the head are texts.
LEMMA HeadIsText ==
  ASSUME NEW f \in Files, NEW e, HeadLine(e, f)
  PROVE  e.word \in Text /\ e.rest \in Text
<1>1. NVars \in Nat /\ f.n_outputs \in Nat /\ MaxNumber \in Nat
  BY FileIs
<1>2. \A n \in Nat : Numeral(n) \in Text
  BY NumeralIs
<1>3. Comment(e) => e.word \in Text /\ e.rest \in Text
  BY WordsAreText DEF Comment
<1>4. \/ e.word = <<".", "i">> /\ e.rest = Numeral(NVars)
      \/ e.word = <<".", "o">> /\ e.rest = Numeral(f.n_outputs)
      \/ e.word = <<".", "p">> /\ \E n \in Nat : e.rest = Numeral(n)
      \/ e.word = TypeWord /\ \E t \in DOMAIN TypeNames : e.rest = TypeNames[t]
      \/ Comment(e)
  BY <1>1 DEF HeadLine
<1>5. e.word \in Text
  BY <1>3, <1>4, WordsAreText
<1>6. e.rest \in Text
  BY <1>1, <1>2, <1>3, <1>4, WordsAreText
<1> QED  BY <1>5, <1>6

\* The lines are texts, those of the head first and a row per cube.
LEMMA EntriesAre ==
  ASSUME NEW f \in Files, f.plain
  PROVE  /\ NHead(f) \in Nat /\ NLines(f) = NHead(f) + NRows(f)
         /\ \A j \in 1 .. NHead(f) : Entries(f)[j] = f.head[j] /\ HeadLine(f.head[j], f)
         /\ \A m \in 1 .. NRows(f) : /\ Entries(f)[NHead(f) + m].word = str(f.rows[m].cube)
                                     /\ Entries(f)[NHead(f) + m].rest = Outs(f, m)
         /\ \A j \in 1 .. NLines(f) : Entries(f)[j].word \in Text /\ Entries(f)[j].rest \in Text
<1> DEFINE A == Range(f.head)
           B == [word : Text, rest : Text]
           E == A \cup B
           r == [m \in 1 .. NRows(f) |-> [word |-> str(f.rows[m].cube), rest |-> Outs(f, m)]]
           es == f.head \o r
<1>1. f.head \in Seq(A) /\ \A j \in DOMAIN f.head : HeadLine(f.head[j], f)
  BY FileIs DEF PlainFile
<1>2. r \in Seq(B) /\ Len(r) = NRows(f)
  <2>1. \A m \in 1 .. NRows(f) : str(f.rows[m].cube) \in Text /\ Outs(f, m) \in Text
    BY FileIs, StrIs, OutsAre
  <2>2. r \in [1 .. NRows(f) -> B]
    BY <2>1
  <2> HIDE DEF r, B
  <2> QED  BY <2>2, FileIs
<1>3. \A m \in 1 .. NRows(f) : r[m].word = str(f.rows[m].cube) /\ r[m].rest = Outs(f, m)
  OBVIOUS
<1>4. Entries(f) = es
  <2>1. DOMAIN f.rows = 1 .. NRows(f)
    BY FileIs DEF NRows
  <2> QED  BY <2>1 DEF Entries, Outs
<1> HIDE DEF r, A
<1>5. f.head \in Seq(E) /\ r \in Seq(E)
  <2>1. A \subseteq E /\ B \subseteq E
    OBVIOUS
  <2> HIDE DEF B, E
  <2> QED  BY <1>1, <1>2, <2>1, SeqMonotonic
<1>6. es \in Seq(E) /\ IsJoin(es, f.head, r)
  <2> HIDE DEF E
  <2> QED  BY <1>5, Joined
<1>7. NHead(f) \in Nat /\ DOMAIN f.head = 1 .. NHead(f)
  BY <1>1 DEF NHead
<1>8. NLines(f) = NHead(f) + NRows(f) /\ NRows(f) \in Nat
  BY <1>2, <1>4, <1>6, FileIs DEF IsJoin, NLines, NHead
<1>9. \A j \in 1 .. NHead(f) : Entries(f)[j] = f.head[j] /\ HeadLine(f.head[j], f)
  <2>1. \A j \in 1 .. NHead(f) : Entries(f)[j] = f.head[j]
    BY <1>4, <1>6 DEF IsJoin, NHead
  <2> QED  BY <1>1, <1>7, <2>1
<1>10. \A m \in 1 .. NRows(f) : Entries(f)[NHead(f) + m] = r[m]
  BY <1>2, <1>4, <1>6 DEF IsJoin, NHead
<1>11. ASSUME NEW j \in 1 .. NLines(f)
       PROVE  Entries(f)[j].word \in Text /\ Entries(f)[j].rest \in Text
  <2>1. CASE j \in 1 .. NHead(f)
    BY <1>9, <2>1, HeadIsText
  <2>2. CASE j \notin 1 .. NHead(f)
    <3>1. PICK m : m = j - NHead(f)
      OBVIOUS
    <3>2. m \in 1 .. NRows(f) /\ j = NHead(f) + m
      BY <1>7, <1>8, <2>2, <3>1
    <3>3. Entries(f)[j].word = str(f.rows[m].cube) /\ Entries(f)[j].rest = Outs(f, m)
      BY <1>3, <1>10, <3>2
    <3> QED  BY <3>2, <3>3, FileIs, StrIs, OutsAre
  <2> QED  BY <2>1, <2>2
<1> QED  BY <1>3, <1>7, <1>8, <1>9, <1>10, <1>11

\* The end.
LEMMA EndLineIs ==
  /\ EndLine \in Text /\ Len(EndLine) = 3
  /\ EndLine[1] = "." /\ EndLine[2] = "e" /\ EndLine[3] = "\n"
<1>1. Len(EndLine) = 3 /\ EndLine[1] = "." /\ EndLine[2] = "e" /\ EndLine[3] = "\n"
  BY DEF EndLine, Line
<1> DEFINE u == <<".", "e">>
           v == <<"\n">>
<1>2. u \in Text /\ v \in Text
  <2> DEFINE a == "."
             b == "e"
             c == "\n"
  <2>1. a \in Chars /\ b \in Chars /\ c \in Chars
    BY CharsAre
  <2> HIDE DEF a, b, c
  <2>2. <<a, b>> \in Text /\ <<c>> \in Text
    BY <2>1 DEF Text
  <2> QED  BY <2>2 DEF a, b, c
<1>3. EndLine = u \o v
  BY DEF EndLine, Line
<1> HIDE DEF u, v
<1> QED  BY <1>1, <1>2, <1>3, TextJoin

\* The recursive definition of the last lines.
LEMMA LastLinesRec ==
  ASSUME NEW es, Len(es) \in Nat,
         \A j \in 1 .. Len(es) : es[j].word \in Text /\ es[j].rest \in Text
  PROVE  /\ LastLines(es) \in [0 .. Len(es) -> Text]
         /\ LastLines(es)[0] = EndLine
         /\ \A n \in 1 .. Len(es) : LastLines(es)[n] =
              Row(es[Len(es) + 1 - n].word, es[Len(es) + 1 - n].rest) \o LastLines(es)[n - 1]
<1> DEFINE N    == Len(es)
           R(n) == Row(es[N + 1 - n].word, es[N + 1 - n].rest)
           G    == [p \in (1 .. N) \X Text |-> R(p[1]) \o p[2]]
           text == CHOOSE text : text = [n \in 0 .. N |->
                     IF n = 0 THEN EndLine ELSE R(n) \o text[n - 1]]
<1>0. LastLines(es) = text
  BY DEF LastLines, EndLine
<1> HIDE DEF text
<1>00. N \in Nat /\ \A j \in 1 .. N : es[j].word \in Text /\ es[j].rest \in Text
  OBVIOUS
<1> HIDE DEF N
<1>1. EndLine \in Text
  BY EndLineIs
<1>2. \A n \in 1 .. N, t \in Text : R(n) \o t \in Text
  <2> SUFFICES ASSUME NEW n \in 1 .. N, NEW t \in Text PROVE R(n) \o t \in Text
    OBVIOUS
  <2>1. N + 1 - n \in 1 .. N
    BY <1>00
  <2>2. es[N + 1 - n].word \in Text /\ es[N + 1 - n].rest \in Text
    BY <1>00, <2>1
  <2> QED  BY <2>2, RowBefore
<1> HIDE DEF R
<1>3. \A n \in 1 .. N, t \in Text : G[<<n, t>>] = R(n) \o t
  <2>1. \A n \in 1 .. N, t \in Text : /\ <<n, t>> \in (1 .. N) \X Text
                                      /\ <<n, t>>[1] = n /\ <<n, t>>[2] = t
    OBVIOUS
  <2> QED  BY <2>1
<1>4. G \in [(1 .. N) \X Text -> Text]
  <2>1. \A p \in (1 .. N) \X Text : p[1] \in 1 .. N /\ p[2] \in Text
    OBVIOUS
  <2> QED  BY <1>2, <2>1
<1> HIDE DEF G
<1>5. PICK f \in [0 .. N -> Text] : f[0] = EndLine /\ \A n \in 1 .. N : f[n] = G[<<n, f[n - 1]>>]
  <2> DEFINE a == EndLine
             T == Text
  <2>1. a \in T /\ G \in [(1 .. N) \X T -> T]
    BY <1>1, <1>4
  <2> HIDE DEF a, T
  <2>2. \E f \in [0 .. N -> T] : StepsUpto(f, N, a, G)
    BY <1>00, <2>1, RecursionUpto
  <2> QED  BY <2>2 DEF a, T, StepsUpto
<1>6. \A n \in 0 .. N : n # 0 => n \in 1 .. N /\ n - 1 \in 0 .. N
  BY <1>00
<1>7. ASSUME NEW n \in 1 .. N  PROVE f[n] = R(n) \o f[n - 1]
  <2>1. n - 1 \in 0 .. N
    BY <1>00
  <2>2. f[n - 1] \in Text
    BY <1>5, <2>1
  <2> QED  BY <1>3, <1>5, <2>2
<1>8. f = [n \in 0 .. N |-> IF n = 0 THEN EndLine ELSE R(n) \o f[n - 1]]
  BY <1>5, <1>6, <1>7
<1>9. text = [n \in 0 .. N |-> IF n = 0 THEN EndLine ELSE R(n) \o text[n - 1]]
  BY <1>8 DEF text
<1> DEFINE S == {n \in Nat : n \in 0 .. N => text[n] = f[n]}
<1>11. 0 \in S
  BY <1>00, <1>5, <1>9
<1>12. ASSUME NEW n \in Nat, n \in S  PROVE n + 1 \in S
  <2> SUFFICES ASSUME n + 1 \in 0 .. N PROVE text[n + 1] = f[n + 1]
    OBVIOUS
  <2>1. PICK m : m = n + 1
    OBVIOUS
  <2>2. n \in 0 .. N /\ m \in 1 .. N /\ m \in 0 .. N /\ m # 0 /\ m - 1 = n
    BY <1>00, <2>1
  <2>3. text[n] = f[n]
    BY <1>12, <2>2
  <2>4. text[m] = R(m) \o text[n] /\ f[m] = R(m) \o f[n]
    BY <1>7, <1>9, <2>2
  <2> QED  BY <2>1, <2>3, <2>4
<1> HIDE DEF S
<1>13. \A n \in Nat : n \in S
  BY <1>11, <1>12, AllNumbers
<1>14. \A n \in 0 .. N : n \in Nat
  BY <1>00
<1>15. \A n \in 0 .. N : text[n] = f[n]
  BY <1>13, <1>14 DEF S
<1>16. text = f
  BY <1>5, <1>9, <1>15
<1> QED  BY <1>5, <1>7, <1>0, <1>16 DEF R, N

\* The text that is left begins with the next line.
LEMMA AfterIs ==
  ASSUME NEW f \in Files, f.plain
  PROVE  /\ f.text = After(f, 0)
         /\ \A n \in 0 .. NLines(f) : After(f, n) \in Text
         /\ After(f, NLines(f)) = EndLine
         /\ \A n \in Nat : n + 1 \in 1 .. NLines(f) =>
              LET e == Entries(f)[n + 1] IN
                After(f, n) = e.word \o (<<" ">> \o (e.rest \o (<<"\n">> \o After(f, n + 1))))
<1> DEFINE es == Entries(f)
           N  == NLines(f)
           L  == LastLines(es)
<1>1. N \in Nat /\ Len(es) = N
  BY EntriesAre, FileIs DEF NLines
<1>2. \A j \in 1 .. N : es[j].word \in Text /\ es[j].rest \in Text
  BY EntriesAre
<1>3. f.text = L[N - 0]
  BY <1>1, FileIs DEF PlainFile
<1> HIDE DEF es, N
<1>4. /\ L \in [0 .. N -> Text] /\ L[0] = EndLine
      /\ \A n \in 1 .. N :
           L[n] = Row(es[N + 1 - n].word, es[N + 1 - n].rest) \o L[n - 1]
  <2>1. Len(es) \in Nat /\ \A j \in 1 .. Len(es) : es[j].word \in Text /\ es[j].rest \in Text
    BY <1>1, <1>2
  <2> QED  BY <1>1, <2>1, LastLinesRec
<1> HIDE DEF L
<1>5. \A n \in 0 .. N : N - n \in 0 .. N /\ N - N = 0
  BY <1>1
<1>6. ASSUME NEW n \in Nat, n + 1 \in 1 .. N
      PROVE  L[N - n] = es[n + 1].word \o (<<" ">> \o (es[n + 1].rest \o (<<"\n">> \o L[N - (n + 1)])))
  <2>0. PICK m : m = N - n
    OBVIOUS
  <2>1. m \in 1 .. N /\ m - 1 = N - (n + 1) /\ N - (n + 1) \in 0 .. N /\ N + 1 - m = n + 1
    BY <1>1, <1>6, <2>0
  <2>2. L[N - n] = Row(es[n + 1].word, es[n + 1].rest) \o L[N - (n + 1)]
    <3>1. L[m] = Row(es[N + 1 - m].word, es[N + 1 - m].rest) \o L[m - 1]
      BY <1>4, <2>1
    <3> QED  BY <2>0, <2>1, <3>1
  <2> DEFINE u == es[n + 1].word
             v == es[n + 1].rest
             t == L[N - (n + 1)]
  <2>3. u \in Text /\ v \in Text /\ t \in Text
    BY <1>2, <1>4, <1>6, <2>1
  <2>4. L[N - n] = Row(u, v) \o t
    BY <2>2
  <2> HIDE DEF u, v, t
  <2>5. L[N - n] = u \o (<<" ">> \o (v \o (<<"\n">> \o t)))
    BY <2>3, <2>4, RowBefore
  <2> QED  BY <2>5 DEF u, v, t
<1>7. \A n : After(f, n) = L[N - n]
  BY DEF After, L, N, es
<1>8. \A n \in 0 .. N : L[N - n] \in Text
  BY <1>4, <1>5
<1>9. L[N - N] = EndLine
  BY <1>1, <1>4
<1> QED  BY <1>3, <1>6, <1>7, <1>8, <1>9 DEF N, es


-----------------------------------------------------------------------------
(* Lines one after the other. *)

\* Texts one after the other.
LEMMA Flattened ==
  ASSUME NEW x \in Seq(Text), Len(x) > 0
  PROVE  \E f \in [0 .. Len(x) -> Text] :
           /\ f[0] = <<>> /\ \A i \in 1 .. Len(x) : f[i] = f[i - 1] \o x[i]
           /\ FlattenSeq(x) = f[Len(x)]
<1> DEFINE N == Len(x)
           G == [p \in (1 .. N) \X Text |-> p[2] \o x[p[1]]]
           flatten == CHOOSE flatten : flatten = [i \in 1 .. Len(x) |->
                        IF i = 1 THEN x[i] ELSE flatten[i - 1] \o x[i]]
<1>1. N \in Nat /\ N > 0 /\ \A i \in 1 .. N : x[i] \in Text
  <2> HIDE DEF G
  <2>1. \A i \in 1 .. Len(x) : x[i] \in Text
    BY ElementOfSeq
  <2> QED  BY <2>1
<1>2. FlattenSeq(x) = flatten[N]
  BY <1>1 DEF FlattenSeq
<1> HIDE DEF flatten, N
<1>3. \A i \in 1 .. N, t \in Text : G[<<i, t>>] = t \o x[i]
  <2>1. \A i \in 1 .. N, t \in Text : /\ <<i, t>> \in (1 .. N) \X Text
                                      /\ <<i, t>>[1] = i /\ <<i, t>>[2] = t
    OBVIOUS
  <2> QED  BY <2>1
<1>4. G \in [(1 .. N) \X Text -> Text]
  <2>1. \A p \in (1 .. N) \X Text : p[1] \in 1 .. N /\ p[2] \in Text
    OBVIOUS
  <2>2. \A i \in 1 .. N, t \in Text : t \o x[i] \in Text
    BY <1>1, TextJoin
  <2> QED  BY <2>1, <2>2
<1> HIDE DEF G
<1>5. PICK f \in [0 .. N -> Text] : f[0] = <<>> /\ \A n \in 1 .. N : f[n] = G[<<n, f[n - 1]>>]
  <2> DEFINE a == <<>>
             T == Text
  <2>1. a \in T /\ G \in [(1 .. N) \X T -> T]
    BY <1>4, TextJoin
  <2> HIDE DEF a, T
  <2>2. \E f \in [0 .. N -> T] : StepsUpto(f, N, a, G)
    BY <1>1, <2>1, RecursionUpto
  <2> QED  BY <2>2 DEF a, T, StepsUpto
<1>6. ASSUME NEW i \in 1 .. N  PROVE f[i] = f[i - 1] \o x[i]
  <2>1. i - 1 \in 0 .. N
    BY <1>1
  <2>2. f[i - 1] \in Text
    BY <1>5, <2>1
  <2> QED  BY <1>3, <1>5, <2>2
<1>7. f[1] = x[1]
  <2>1. 1 \in 1 .. N /\ 1 - 1 = 0
    BY <1>1
  <2>2. f[1] = <<>> \o x[1] /\ x[1] \in Text
    BY <1>1, <1>5, <1>6, <2>1
  <2> QED  BY <2>2, ConcatEmptySeq DEF Text
<1> DEFINE g == [i \in 1 .. N |-> f[i]]
<1>8. \A i \in 1 .. N : i # 1 => i - 1 \in 1 .. N
  BY <1>1
<1>9. g = [i \in 1 .. N |-> IF i = 1 THEN x[i] ELSE g[i - 1] \o x[i]]
  BY <1>6, <1>7, <1>8
<1> HIDE DEF g
<1>10. flatten = [i \in 1 .. N |-> IF i = 1 THEN x[i] ELSE flatten[i - 1] \o x[i]]
  BY <1>9 DEF flatten, N
<1> DEFINE S == {n \in Nat : n \in 1 .. N => flatten[n] = f[n]}
<1>11. 0 \in S
  OBVIOUS
<1>12. ASSUME NEW n \in Nat, n \in S  PROVE n + 1 \in S
  <2> SUFFICES ASSUME n + 1 \in 1 .. N PROVE flatten[n + 1] = f[n + 1]
    OBVIOUS
  <2>1. PICK m : m = n + 1
    OBVIOUS
  <2>2. m \in 1 .. N /\ m - 1 = n
    BY <2>1
  <2>3. CASE m = 1
    BY <1>7, <1>10, <2>1, <2>2, <2>3
  <2>4. CASE m # 1
    <3>1. n \in 1 .. N
      BY <1>8, <2>2, <2>4
    <3>2. flatten[n] = f[n]
      BY <1>12, <3>1
    <3>3. flatten[m] = flatten[n] \o x[m] /\ f[m] = f[n] \o x[m]
      BY <1>6, <1>10, <2>2, <2>4
    <3> QED  BY <2>1, <3>2, <3>3
  <2> QED  BY <2>3, <2>4
<1> HIDE DEF S
<1>13. \A n \in Nat : n \in S
  BY <1>11, <1>12, AllNumbers
<1>14. flatten[N] = f[N]
  <2>1. N \in 1 .. N /\ N \in Nat
    BY <1>1
  <2> QED  BY <1>13, <2>1 DEF S
<1> QED  BY <1>2, <1>5, <1>6, <1>14 DEF N

\* Lines, and the end, one after the other are the text of the lines.
LEMMA FlattenedLines ==
  ASSUME NEW es, NEW x \in Seq(Text), Len(es) \in Nat, Len(x) = Len(es) + 1,
         \A j \in 1 .. Len(es) : es[j].word \in Text /\ es[j].rest \in Text,
         \A j \in 1 .. Len(es) : x[j] = Row(es[j].word, es[j].rest),
         x[Len(es) + 1] = EndLine
  PROVE  FlattenSeq(x) = LastLines(es)[Len(es)]
<1> DEFINE N == Len(es)
           L == LastLines(es)
<1>1. /\ L \in [0 .. N -> Text] /\ L[0] = EndLine
      /\ \A n \in 1 .. N : L[n] = Row(es[N + 1 - n].word, es[N + 1 - n].rest) \o L[n - 1]
  BY LastLinesRec
<1>2. PICK f \in [0 .. N + 1 -> Text] :
        /\ f[0] = <<>> /\ \A i \in 1 .. N + 1 : f[i] = f[i - 1] \o x[i]
        /\ FlattenSeq(x) = f[N + 1]
  <2>1. Len(x) > 0
    OBVIOUS
  <2> QED  BY <2>1, Flattened
<1>3. /\ N \in Nat /\ \A j \in 1 .. N : x[j] = Row(es[j].word, es[j].rest)
      /\ \A j \in 1 .. N : x[j] \in Text /\ x[N + 1] = EndLine
  <2>1. \A j \in 1 .. Len(x) : x[j] \in Text
    BY ElementOfSeq
  <2>2. \A j \in 1 .. N : j \in 1 .. Len(x)
    OBVIOUS
  <2> QED  BY <2>1, <2>2
<1> HIDE DEF N, L
<1> DEFINE S == {i \in Nat : i \in 0 .. N => f[i] \o L[N - i] = L[N]}
<1>4. 0 \in S
  <2>1. N - 0 = N /\ N \in 0 .. N
    BY <1>3
  <2>2. L[N] \in Text
    BY <1>1, <2>1
  <2>3. <<>> \o L[N] = L[N]
    BY <2>2, ConcatEmptySeq DEF Text
  <2> QED  BY <1>2, <2>1, <2>3
<1>5. ASSUME NEW i \in Nat, i \in S  PROVE i + 1 \in S
  <2> SUFFICES ASSUME i + 1 \in 0 .. N PROVE f[i + 1] \o L[N - (i + 1)] = L[N]
    <3>1. i + 1 \in Nat
      OBVIOUS
    <3> QED  BY <3>1, Zenon
  <2>1. PICK m : m = i + 1
    OBVIOUS
  <2>2. PICK n : n = N - i
    OBVIOUS
  <2>3. /\ i \in 0 .. N /\ m \in 1 .. N /\ m \in 1 .. N + 1 /\ m - 1 = i
        /\ n \in 1 .. N /\ n - 1 = N - (i + 1) /\ N + 1 - n = m /\ i \in 0 .. N + 1 /\ n - 1 \in 0 .. N
    BY <1>3, <2>1, <2>2
  <2>4. f[i] \o L[n] = L[N]
    BY <1>5, <2>2, <2>3
  <2>5. f[m] = f[i] \o x[m] /\ L[n] = x[m] \o L[n - 1]
    <3>1. L[n] = Row(es[N + 1 - n].word, es[N + 1 - n].rest) \o L[n - 1]
      BY <1>1, <2>3
    <3>2. x[m] = Row(es[m].word, es[m].rest)
      BY <1>3, <2>3
    <3>3. f[m] = f[m - 1] \o x[m]
      BY <1>2, <2>3
    <3> QED  BY <2>3, <3>1, <3>2, <3>3
  <2>6. f[i] \in Text /\ x[m] \in Text /\ L[n - 1] \in Text
    BY <1>1, <1>2, <1>3, <2>3
  <2>7. (f[i] \o x[m]) \o L[n - 1] = f[i] \o (x[m] \o L[n - 1])
    BY <2>6, TextJoin
  <2>8. f[m] \o L[n - 1] = L[N]
    BY <2>4, <2>5, <2>7
  <2> QED  BY <2>1, <2>3, <2>8
<1> HIDE DEF S
<1>6. \A i \in Nat : i \in S
  BY <1>4, <1>5, AllNumbers
<1>7. f[N] \o L[0] = L[N]
  <2>1. N \in 0 .. N /\ N - N = 0
    BY <1>3
  <2> QED  BY <1>3, <1>6, <2>1 DEF S
<1>8. f[N + 1] = f[N] \o EndLine
  <2>1. PICK m : m = N + 1
    OBVIOUS
  <2>2. m \in 1 .. N + 1 /\ m - 1 = N
    BY <1>3, <2>1
  <2>3. f[m] = f[m - 1] \o x[m]
    BY <1>2, <2>1, <2>2
  <2>4. x[m] = EndLine
    BY <2>1 DEF N
  <2> QED  BY <2>1, <2>2, <2>3, <2>4
<1> QED  BY <1>1, <1>2, <1>7, <1>8 DEF N, L

-----------------------------------------------------------------------------
(* Numbers and types. *)

\* The digits differ.
LEMMA DigitsDiffer ==
  /\ Len(Digits) = 10
  /\ \A j, k \in 1 .. 10 : Digits[j] = Digits[k] => j = k
  /\ \A k \in 1 .. 10 : Digits[k] # " " /\ Digits[k] # "\n"
<1>1. Len(Digits) = 10
  BY DEF Digits
<1>2. /\ Digits[1] = "0" /\ Digits[2] = "1" /\ Digits[3] = "2" /\ Digits[4] = "3"
      /\ Digits[5] = "4" /\ Digits[6] = "5" /\ Digits[7] = "6" /\ Digits[8] = "7"
      /\ Digits[9] = "8" /\ Digits[10] = "9"
  BY DEF Digits
<1>3. \A k \in 1 .. 10 : \/ k = 1 \/ k = 2 \/ k = 3 \/ k = 4 \/ k = 5
                          \/ k = 6 \/ k = 7 \/ k = 8 \/ k = 9 \/ k = 10
  OBVIOUS
<1> DEFINE D == Digits
<1>4. /\ D[1] = "0" /\ D[2] = "1" /\ D[3] = "2" /\ D[4] = "3" /\ D[5] = "4" /\ D[6] = "5"
      /\ D[7] = "6" /\ D[8] = "7" /\ D[9] = "8" /\ D[10] = "9"
  BY <1>2
<1> HIDE DEF D
<1>5. ASSUME NEW k \in 1 .. 10  PROVE D[k] # " " /\ D[k] # "\n"
  BY <1>3, <1>4
<1>6. ASSUME NEW j \in 1 .. 10, NEW k \in 1 .. 10, D[j] = D[k]  PROVE j = k
  BY <1>3, <1>4, <1>6
<1> QED  BY <1>1, <1>5, <1>6 DEF D

\* A digit stands for its place in the list.
LEMMA DigitOfIs ==
  ASSUME NEW d \in 0 .. 9
  PROVE  d + 1 \in 1 .. 10 /\ DigitOf(Digits[d + 1]) = d
<1>1. \A j \in 0 .. 9 : j + 1 \in 1 .. 10 /\ (j + 1 = d + 1 => j = d)
  OBVIOUS
<1>2. \A j \in 0 .. 9 : Digits[j + 1] = Digits[d + 1] => j = d
  BY <1>1, DigitsDiffer
<1>3. DigitOf(Digits[d + 1]) = CHOOSE j \in 0 .. 9 : Digits[j + 1] = Digits[d + 1]
  BY DEF DigitOf
<1>4. DigitOf(Digits[d + 1]) = d
  BY <1>2, <1>3
<1> QED  BY <1>1, <1>4

\* A number has digits only, no blank and no end of a line.
LEMMA NumeralChars ==
  ASSUME NEW n \in Nat
  PROVE  \A k \in 1 .. Len(Numeral(n)) :
           /\ Contains(Digits, Numeral(n)[k])
           /\ Numeral(n)[k] # " " /\ Numeral(n)[k] # "\n"
<1> SUFFICES ASSUME NEW k \in 1 .. Len(Numeral(n))
             PROVE  /\ Contains(Digits, Numeral(n)[k])
                    /\ Numeral(n)[k] # " " /\ Numeral(n)[k] # "\n"
  OBVIOUS
<1>1. PICK m \in Nat : Numeral(n)[k] = Digits[(m % 10) + 1]
  <2>1. Len(Numeral(n)) - k \in Nat
    BY NumeralIs
  <2>2. Tenths(n)[Len(Numeral(n)) - k] \in Nat
    BY <2>1, NumeralIs
  <2>3. Numeral(n)[k] = Digits[(Tenths(n)[Len(Numeral(n)) - k] % 10) + 1]
    BY NumeralIs
  <2> QED  BY <2>2, <2>3
<1>2. (m % 10) + 1 \in 1 .. 10
  OBVIOUS
<1> QED  BY <1>1, <1>2, DigitsDiffer DEF Contains

\* The digits of a number have its value.
LEMMA ValueIs ==
  ASSUME NEW n \in Nat
  PROVE  Value(Numeral(n)) = n
<1> DEFINE s == Numeral(n)
           N == Len(s)
           t == Tenths(n)
           f == [k \in 0 .. N |-> t[N - k]]
           value[k \in 0 .. N] == IF k = 0 THEN 0 ELSE 10 * value[k - 1] + DigitOf(s[k])
<1>1. /\ N \in Nat \ {0} /\ t \in [Nat -> Nat] /\ t[0] = n /\ t[N] = 0
      /\ \A j \in Nat : t[j + 1] = t[j] \div 10
      /\ \A k \in 1 .. N : s[k] = Digits[(t[N - k] % 10) + 1]
  BY NumeralIs
<1>2. Value(s) = value[N]
  BY DEF Value
<1> HIDE DEF s, N, t
<1>3. /\ \A k \in 0 .. N : k \in Nat /\ N - k \in Nat /\ (k # 0 => k \in 1 .. N /\ k - 1 \in 0 .. N)
      /\ \A k \in 0 .. N : k # 0 => N - (k - 1) = (N - k) + 1
  BY <1>1
<1>4. ASSUME NEW k \in 0 .. N, k # 0  PROVE f[k] = 10 * f[k - 1] + DigitOf(s[k])
  <2> DEFINE m == t[N - k]
  <2>1. m \in Nat /\ f[k] = m
    BY <1>1, <1>3
  <2>2. f[k - 1] = m \div 10
    <3>1. f[k - 1] = t[(N - k) + 1]
      BY <1>3, <1>4
    <3> QED  BY <1>1, <1>3, <3>1
  <2>3. s[k] = Digits[(m % 10) + 1]
    BY <1>1, <1>3, <1>4
  <2> HIDE DEF m, f
  <2>4. m % 10 \in 0 .. 9 /\ m = 10 * (m \div 10) + (m % 10)
    BY <2>1
  <2>5. DigitOf(s[k]) = m % 10
    BY <2>3, <2>4, DigitOfIs
  <2> QED  BY <2>1, <2>2, <2>4, <2>5
<1>5. f[0] = 0 /\ f[N] = n
  <2>1. N - 0 = N /\ N - N = 0 /\ 0 \in 0 .. N /\ N \in 0 .. N
    BY <1>1
  <2> QED  BY <1>1, <2>1
<1>6. f = [k \in 0 .. N |-> IF k = 0 THEN 0 ELSE 10 * f[k - 1] + DigitOf(s[k])]
  <2> DEFINE g == [k \in 0 .. N |-> IF k = 0 THEN 0 ELSE 10 * f[k - 1] + DigitOf(s[k])]
  <2>1. \A k \in 0 .. N : f[k] = g[k]
    BY <1>4, <1>5
  <2>2. f = [k \in 0 .. N |-> f[k]]
    OBVIOUS
  <2> HIDE DEF f
  <2> QED  BY <2>1, <2>2
<1>7. value = [k \in 0 .. N |-> IF k = 0 THEN 0 ELSE 10 * value[k - 1] + DigitOf(s[k])]
  <2> HIDE DEF f
  <2> QED  BY <1>6
<1> HIDE DEF value
<1> DEFINE S == {k \in Nat : k \in 0 .. N => value[k] = f[k]}
<1>8. 0 \in S
  <2> HIDE DEF f
  <2>1. 0 \in 0 .. N
    BY <1>1
  <2> QED  BY <1>5, <1>7, <2>1
<1>9. ASSUME NEW k \in Nat, k \in S  PROVE k + 1 \in S
  <2> HIDE DEF f
  <2> SUFFICES ASSUME k + 1 \in 0 .. N PROVE value[k + 1] = f[k + 1]
    OBVIOUS
  <2>1. k + 1 # 0 /\ (k + 1) - 1 = k /\ k \in 0 .. N
    BY <1>1
  <2>2. value[k] = f[k]
    BY <1>9, <2>1
  <2>3. value[k + 1] = 10 * value[k] + DigitOf(s[k + 1])
    BY <1>7, <2>1
  <2>4. f[k + 1] = 10 * f[k] + DigitOf(s[k + 1])
    BY <1>4, <2>1
  <2> QED  BY <2>2, <2>3, <2>4
<1> HIDE DEF S
<1>10. N \in S
  BY <1>1, <1>8, <1>9, AllNumbers
<1>11. value[N] = f[N]
  <2>1. N \in 0 .. N
    BY <1>1
  <2> QED  BY <1>10, <2>1 DEF S
<1> QED  BY <1>2, <1>5, <1>11 DEF s

\* The two halves of a text.
LEMMA Halves ==
  ASSUME NEW u \in Text, NEW v \in Text, u # <<>>, v # <<>>
  PROVE  /\ SubSeq(u \o v, 1, Len(u)) = u
         /\ SubSeq(u \o v, Len(u) + 1, Len(u \o v)) = v
<1> DEFINE m == Len(u)
           n == Len(v)
<1>1. u \in Seq(Chars) /\ v \in Seq(Chars) /\ m \in Nat \ {0} /\ n \in Nat \ {0}
  BY EmptySeq DEF Text
<1>2. Len(u \o v) = m + n
  BY <1>1, ConcatProperties
<1>3. 1 \in 1 .. m /\ m \in 1 .. m /\ m + 1 \in m + 1 .. m + n /\ m + n \in m + 1 .. m + n
      /\ (m + 1) - m = 1 /\ (m + n) - m = n
  BY <1>1
<1>4. SubSeq(u \o v, 1, m) = SubSeq(u, 1, m)
  BY <1>1, <1>3, SubSeqOfConcat1
<1>5. SubSeq(u \o v, m + 1, m + n) = SubSeq(v, 1, n)
  BY <1>1, <1>3, SubSeqOfConcat2
<1>6. SubSeq(u, 1, m) = u /\ SubSeq(v, 1, n) = v
  BY <1>1, SubSeqFull
<1> QED  BY <1>2, <1>4, <1>5, <1>6

\* A number at the end of a line is read as it was written, whatever was known
\* before, and its line ends there.
LEMMA ExtractNumeral ==
  ASSUME NEW n \in 0 .. MaxNumber, NEW a \in Text, NEW x
  PROVE  /\ extract(Good(Numeral(n) \o (<<"\n">> \o a)), x).value = n
         /\ extract(Good(Numeral(n) \o (<<"\n">> \o a)), x).rest = Good(<<"\n">> \o a)
<1> DEFINE c    == "\n"
           u    == Numeral(n)
           w    == <<c>> \o a
           t    == u \o w
           N    == Len(u)
           from == {k \in DOMAIN t : t[k] \notin Blanks}
           ends == {m \in 1 .. Len(t) + 1 : m <= Len(t) => ~ Contains(Digits, t[m])}
           b    == Good(t)
<1>1. /\ n \in Nat /\ n <= MaxNumber /\ MaxNumber \in Nat
      /\ u \in Text /\ N \in Nat \ {0} /\ Value(u) = n
      /\ \A k \in 1 .. N : Contains(Digits, u[k]) /\ u[k] \notin Blanks
  <2>1. n \in Nat /\ n <= MaxNumber /\ MaxNumber \in Nat
    BY NumbersAssumption
  <2> QED  BY <2>1, NumeralIs, NumeralChars, ValueIs DEF Blanks
<1> HIDE DEF u
<1>2. w \in Text /\ Len(w) \in Nat \ {0} /\ w[1] = c
  <2>1. c \in Chars
    BY CharsAre
  <2> HIDE DEF c
  <2> DEFINE s == <<c>>
  <2>2. s \in Text /\ s \in Seq(Chars) /\ a \in Seq(Chars) /\ Len(s) = 1 /\ s[1] = c
    BY <2>1, TextJoin DEF Text
  <2> HIDE DEF s
  <2>3. s \o a \in Text /\ IsJoin(s \o a, s, a)
    BY <2>2, TextJoin, Joined
  <2>4. Len(s \o a) \in Nat \ {0} /\ 1 \in 1 .. Len(s)
    <3>1. Len(a) \in Nat
      BY <2>2
    <3> QED  BY <2>2, <2>3, <3>1 DEF IsJoin
  <2>5. (s \o a)[1] = c
    BY <2>2, <2>3, <2>4 DEF IsJoin
  <2> QED  BY <2>3, <2>4, <2>5 DEF s
<1>3. ~ Contains(Digits, c)
  BY DigitsDiffer DEF Contains
<1> HIDE DEF w, c
<1>4. /\ t \in Text /\ Len(t) = N + Len(w) /\ DOMAIN t = 1 .. N + Len(w)
      /\ \A k \in 1 .. N : t[k] = u[k]
      /\ t[N + 1] = c
  <2>1. u \in Seq(Chars) /\ w \in Seq(Chars)
    BY <1>1, <1>2 DEF Text
  <2>2. t \in Seq(Chars) /\ IsJoin(t, u, w)
    BY <2>1, Joined
  <2>3. 1 \in 1 .. Len(w)
    BY <1>2
  <2> QED  BY <1>2, <2>2, <2>3 DEF IsJoin, Text
<1>5. SubSeq(t, 1, N) = u /\ SubSeq(t, N + 1, Len(t)) = w
  <2>1. u # <<>> /\ w # <<>>
    BY <1>1, <1>2
  <2> QED  BY <1>1, <1>2, <2>1, Halves
<1> HIDE DEF t, N
<1>6. Min(from) = 1 /\ from # {}
  <2>1. 1 \in 1 .. N /\ 1 \in DOMAIN t
    BY <1>1, <1>2, <1>4
  <2>2. 1 \in from
    BY <1>1, <1>4, <2>1
  <2>3. from \in SUBSET Nat /\ \A k \in from : 1 <= k
    BY <1>4
  <2> HIDE DEF from
  <2> QED  BY <2>2, <2>3, MinIs
<1>7. Min(ends) = N + 1
  <2>1. N + 1 \in ends
    BY <1>1, <1>2, <1>3, <1>4
  <2>2. ends \in SUBSET Nat
    BY <1>1, <1>2, <1>4
  <2>3. ASSUME NEW m \in ends  PROVE N + 1 <= m
    <3>1. m \in 1 .. Len(t) + 1 /\ (m <= Len(t) => ~ Contains(Digits, t[m]))
      OBVIOUS
    <3>2. m \notin 1 .. N
      <4> SUFFICES ASSUME m \in 1 .. N PROVE FALSE
        OBVIOUS
      <4>1. m <= Len(t)
        BY <1>1, <1>2, <1>4
      <4> QED  BY <1>1, <1>4, <3>1, <4>1
    <3> HIDE DEF ends
    <3> QED  BY <1>1, <1>2, <1>4, <3>1, <3>2
  <2> HIDE DEF ends
  <2> QED  BY <2>1, <2>2, <2>3, MinIs
<1>8. b.text = t /\ b.good = TRUE
  BY DEF Good
<1> HIDE DEF b
<1> DEFINE r == [value |-> n, rest |-> [text |-> w, good |-> TRUE]]
<1>9. extract(b, x) = r
  <2> DEFINE number   == Value(SubSeq(t, 1, (N + 1) - 1))
             left(g)  == [text |-> SubSeq(t, N + 1, Len(t)), good |-> g]
             short    == [value |-> number, rest |-> left(N + 1 <= Len(t))]
  <2>1. extract(b, x) = IF N + 1 = 1 THEN [value |-> 0, rest |-> left(FALSE)]
                        ELSE IF number > MaxNumber
                          THEN [value |-> MaxNumber, rest |-> left(FALSE)]
                        ELSE short
    BY <1>6, <1>7, <1>8 DEF extract, from, ends
  <2>2. (N + 1) - 1 = N /\ N + 1 # 1 /\ N + 1 <= Len(t)
    BY <1>1, <1>2, <1>4
  <2>3. number = n
    BY <1>1, <1>5, <2>2
  <2> HIDE DEF number
  <2>4. left(N + 1 <= Len(t)) = [text |-> w, good |-> TRUE]
    BY <1>5, <2>2
  <2> HIDE DEF left
  <2>5. ~ (number > MaxNumber)
    BY <1>1, <2>3
  <2>6. extract(b, x) = short
    BY <2>1, <2>2, <2>5
  <2> QED  BY <2>3, <2>4, <2>6
<1>10. r.value = n /\ r.rest = Good(w)
  BY DEF Good
<1> HIDE DEF r
<1> QED  BY <1>9, <1>10 DEF b, t, u, w, c


\* A word is found at its beginning.
LEMMA FindsItself ==
  ASSUME NEW s \in Seq(STRING \cup Chars), s # <<>>
  PROVE  Finds(s, s)
<1>1. Len(s) \in Nat \ {0} /\ DOMAIN s = 1 .. Len(s)
  BY EmptySeq
<1>2. SubSeq(s, 1, Len(s)) = s
  BY SubSeqFull
<1>3. IsPrefix(s, SubSeq(s, 1, Len(s)))
  BY <1>1, <1>2 DEF IsPrefix
<1> QED  BY <1>1, <1>3 DEF Finds

\* The type names in lower case.
LEMMA LowerNames ==
  /\ tolower(TypeNames.ESOP) = <<"e", "s", "o", "p">>
  /\ tolower(TypeNames.SOP) = <<"s", "o", "p">>
<1>1. /\ DOMAIN Lower = {"E", "S", "O", "P"}
      /\ Lower["E"] = "e" /\ Lower["S"] = "s" /\ Lower["O"] = "o" /\ Lower["P"] = "p"
  BY DEF Lower
<1> DEFINE low(c) == IF c \in DOMAIN Lower THEN Lower[c] ELSE c
<1>2. /\ low("E") = "e" /\ low("s") = "s" /\ low("o") = "o" /\ low("p") = "p"
      /\ low("S") = "s" /\ low("O") = "o" /\ low("P") = "p"
  BY <1>1
<1>3. \A s : tolower(s) = [k \in DOMAIN s |-> low(s[k])]
  BY DEF tolower
<1> HIDE DEF low
<1>4. ASSUME NEW s, s = <<"E", "s", "o", "p">>  PROVE tolower(s) = <<"e", "s", "o", "p">>
  <2>1. DOMAIN s = 1 .. 4 /\ s[1] = "E" /\ s[2] = "s" /\ s[3] = "o" /\ s[4] = "p"
    BY <1>4
  <2>2. \A k \in 1 .. 4 : k = 1 \/ k = 2 \/ k = 3 \/ k = 4
    OBVIOUS
  <2>3. \A k \in 1 .. 4 : low(s[k]) = <<"e", "s", "o", "p">>[k]
    BY <1>2, <2>1, <2>2
  <2> QED  BY <1>3, <2>1, <2>3
<1>5. ASSUME NEW s, s = <<"S", "O", "P">>  PROVE tolower(s) = <<"s", "o", "p">>
  <2>1. DOMAIN s = 1 .. 3 /\ s[1] = "S" /\ s[2] = "O" /\ s[3] = "P"
    BY <1>5
  <2>2. \A k \in 1 .. 3 : k = 1 \/ k = 2 \/ k = 3
    OBVIOUS
  <2>3. \A k \in 1 .. 3 : low(s[k]) = <<"s", "o", "p">>[k]
    BY <1>2, <2>1, <2>2
  <2> QED  BY <1>3, <2>1, <2>3
<1> QED  BY <1>4, <1>5 DEF TypeNames

\* The kinds of the type names, and of no type.
LEMMA KindIs ==
  /\ \A t \in DOMAIN TypeNames : kind(TypeNames[t]) = t
  /\ kind(<<>>) = "UNDEF"
<1> DEFINE esop == <<"e", "s", "o", "p">>
           sop  == <<"s", "o", "p">>
<1>0. esop \in Text /\ sop \in Text /\ esop # <<>> /\ sop # <<>> /\ Len(esop) = 4 /\ Len(sop) = 3
  <2> DEFINE a == "e"
             b == "s"
             c == "o"
             d == "p"
  <2>1. a \in Chars /\ b \in Chars /\ c \in Chars /\ d \in Chars
    BY CharsAre
  <2> HIDE DEF a, b, c, d
  <2>2. <<a, b, c, d>> \in Seq(Chars) /\ <<b, c, d>> \in Seq(Chars)
    BY <2>1
  <2> QED  BY <2>2 DEF a, b, c, d, Text
<1>1. kind(TypeNames.ESOP) = "ESOP"
  <2>1. tolower(TypeNames.ESOP) = esop
    BY LowerNames
  <2> HIDE DEF esop
  <2>2. Finds(esop, esop)
    BY <1>0, FindsItself, CharsAre DEF Text
  <2> QED  BY <2>1, <2>2 DEF kind, esop
<1>2. kind(TypeNames.SOP) = "SOP"
  <2>1. tolower(TypeNames.SOP) = sop
    BY LowerNames
  <2>2. Finds(sop, sop)
    <3> HIDE DEF sop
    <3> QED  BY <1>0, FindsItself, CharsAre DEF Text
  <2>3. ~ Finds(sop, esop)
    <3> SUFFICES ASSUME NEW k \in DOMAIN sop, IsPrefix(esop, SubSeq(sop, k, Len(sop))) PROVE FALSE
      BY DEF Finds
    <3>1. Len(esop) <= Len(SubSeq(sop, k, Len(sop)))
      BY DEF IsPrefix
    <3> HIDE DEF sop, esop
    <3>2. k \in 1 .. 3 /\ \A j \in k .. 3 : sop[j] \in Chars
      <4>1. DOMAIN sop = 1 .. 3
        BY <1>0 DEF Text
      <4>2. \A j \in 1 .. 3 : sop[j] \in Chars
        BY <1>0, ElementOfSeq DEF Text
      <4>3. \A j \in k .. 3 : j \in 1 .. 3
        BY <4>1
      <4> QED  BY <4>1, <4>2, <4>3
    <3>3. Len(SubSeq(sop, k, 3)) = IF k <= 3 THEN 3 - k + 1 ELSE 0
      BY <3>2, SubSeqProperties
    <3> QED  BY <1>0, <3>1, <3>2, <3>3
  <2> QED  BY <2>1, <2>2, <2>3 DEF kind
<1>3. kind(<<>>) = "UNDEF"
  <2>1. DOMAIN tolower(<<>>) = {}
    BY DEF tolower
  <2>2. \A w : ~ Finds(tolower(<<>>), w)
    BY <2>1 DEF Finds
  <2> QED  BY <2>2 DEF kind
<1>4. DOMAIN TypeNames = {"ESOP", "SOP"}
  BY DEF TypeNames
<1>5. TypeNames["ESOP"] = TypeNames.ESOP /\ TypeNames["SOP"] = TypeNames.SOP
  OBVIOUS
<1> QED  BY <1>1, <1>2, <1>3, <1>4, <1>5

\* A line of the head: it begins with a dot or a number sign and its word ends
\* at the first blank.
LEMMA HeadLineIs ==
  ASSUME NEW f \in Files, NEW e, HeadLine(e, f), e.word \in Text, e.rest \in Text
  PROVE  /\ Len(e.word) \in Nat \ {0} /\ e.word[1] \in {".", "#"}
         /\ Free(e.word, " ") /\ Free(e.rest, "\n")
<1> DEFINE Shown == /\ Len(e.word) \in Nat \ {0} /\ e.word[1] \in {".", "#"}
                    /\ Free(e.word, " ") /\ Free(e.rest, "\n")
<1>1. ASSUME Comment(e)  PROVE Shown
  <2>1. e.word # <<>> /\ e.word[1] = "#"
    BY <1>1 DEF Comment
  <2>2. Len(e.word) \in Nat \ {0}
    BY <2>1, EmptySeq DEF Text
  <2>3. DOMAIN e.word = 1 .. Len(e.word) /\ DOMAIN e.rest = 1 .. Len(e.rest)
    BY DEF Text
  <2>4. Free(e.word, " ") /\ Free(e.rest, "\n")
    BY <1>1, <2>3 DEF Comment, Free
  <2> QED  BY <2>1, <2>2, <2>4
<1>2. ASSUME NEW c \in {"i", "o", "p"}, e.word = <<".", c>>
      PROVE  Len(e.word) \in Nat \ {0} /\ e.word[1] = "." /\ Free(e.word, " ")
  <2> DEFINE w == e.word
  <2>1. Len(w) = 2 /\ w[1] = "." /\ w[2] = c
    BY <1>2
  <2> HIDE DEF w
  <2>2. \A k \in 1 .. 2 : k = 1 \/ k = 2
    OBVIOUS
  <2>3. c # " "
    OBVIOUS
  <2>4. \A k \in 1 .. Len(w) : w[k] # " "
    BY <2>1, <2>2, <2>3
  <2>5. Free(w, " ") /\ Len(w) \in Nat \ {0} /\ w[1] = "."
    <3>1. Free(w, " ")
      BY <2>4 DEF Free
    <3>2. Len(w) \in Nat \ {0}
      BY <2>1
    <3>3. w[1] = "."
      BY <2>1
    <3> QED  BY <3>1, <3>2, <3>3
  <2> QED  BY <2>5 DEF w
<1>3. ASSUME NEW n \in Nat, e.rest = Numeral(n)  PROVE Free(e.rest, "\n")
  BY <1>3, NumeralChars DEF Free
<1>4. ASSUME e.word = <<".", "i">> /\ e.rest = Numeral(NVars) PROVE Shown
  <2>1. NVars \in Nat
    BY FileIs
  <2>2. Free(e.rest, "\n")
    BY <1>3, <1>4, <2>1
  <2> QED  BY <1>2, <1>4, <2>2
<1>5. ASSUME e.word = <<".", "o">> /\ e.rest = Numeral(f.n_outputs) PROVE Shown
  <2>1. f.n_outputs \in Nat
    BY FileIs
  <2>2. Free(e.rest, "\n")
    BY <1>3, <1>5, <2>1
  <2> QED  BY <1>2, <1>5, <2>2
<1>6. ASSUME e.word = <<".", "p">> /\ \E n \in Nat : e.rest = Numeral(n) PROVE Shown
  <2>1. Free(e.rest, "\n")
    BY <1>3, <1>6
  <2> QED  BY <1>2, <1>6, <2>1
<1>7. ASSUME e.word = TypeWord /\ \E t \in DOMAIN TypeNames : e.rest = TypeNames[t] PROVE Shown
  <2>1. Len(e.word) \in Nat \ {0} /\ e.word[1] = "." /\ Free(e.word, " ")
    <3> DEFINE w == e.word
    <3>1. Len(w) = 5 /\ w[1] = "." /\ w[2] = "t" /\ w[3] = "y" /\ w[4] = "p" /\ w[5] = "e"
      BY <1>7 DEF TypeWord
    <3> HIDE DEF w
    <3>2. \A k \in 1 .. 5 : k = 1 \/ k = 2 \/ k = 3 \/ k = 4 \/ k = 5
      OBVIOUS
    <3>3. Free(w, " ")
      BY <3>1, <3>2 DEF Free
    <3>4. Len(w) \in Nat \ {0}
      BY <3>1
    <3>5. w[1] = "."
      BY <3>1
    <3> QED  BY <3>3, <3>4, <3>5 DEF w
  <2>2. e.rest = <<"E", "s", "o", "p">> \/ e.rest = <<"S", "O", "P">>
    BY <1>7 DEF TypeNames
  <2>3. e.rest = <<"E", "s", "o", "p">> => Free(e.rest, "\n")
    BY DEF Free
  <2>4. e.rest = <<"S", "O", "P">> => Free(e.rest, "\n")
    BY DEF Free
  <2>5. Free(e.rest, "\n")
    BY <2>2, <2>3, <2>4
  <2>6. e.word[1] \in {".", "#"}
    BY <2>1
  <2> QED  BY <2>1, <2>5, <2>6
<1>8. Shown
  <2> HIDE DEF Shown
  <2>1. \/ e.word = <<".", "i">> /\ e.rest = Numeral(NVars)
        \/ e.word = <<".", "o">> /\ e.rest = Numeral(f.n_outputs)
        \/ e.word = <<".", "p">> /\ \E n \in Nat : e.rest = Numeral(n)
        \/ e.word = TypeWord /\ \E t \in DOMAIN TypeNames : e.rest = TypeNames[t]
        \/ Comment(e)
    BY FileIs DEF HeadLine
  <2> QED  BY <1>1, <1>4, <1>5, <1>6, <1>7, <2>1
<1> QED  BY <1>8

-----------------------------------------------------------------------------
(* Rows. *)

\* The cube of a row is the one that was written.
LEMMA CubeIsRead ==
  ASSUME NEW c \in Cubes
  PROVE  CubeOf(str(c)) = c
<1> DEFINE chars == str(c)
           N    == Len(chars)
           Step(d, k) == IF chars[k] = "1" THEN add_lit(d, k - 1, 1)
                         ELSE IF chars[k] = "0" THEN add_lit(d, k - 1, 0) ELSE d
           P(k) == Cube(c.mask \cap (0 .. k - 1), c.polarity \cap (0 .. k - 1))
           f    == [k \in 0 .. N |-> P(k)]
           cube == CHOOSE cube : cube = [k \in 0 .. N |->
                     IF k = 0 THEN cube32_one
                     ELSE IF chars[k] = "1" THEN add_lit(cube[k - 1], k - 1, 1)
                     ELSE IF chars[k] = "0" THEN add_lit(cube[k - 1], k - 1, 0)
                     ELSE cube[k - 1]]
<1>1. CubeOf(chars) = cube[N]
  BY DEF CubeOf
<1>2. N = NVars /\ N \in Nat
  BY StrIs
<1>3. P(0) = cube32_one
  BY DEF Cube, cube32_one
<1>4. ASSUME NEW k \in 1 .. N  PROVE P(k) = Step(P(k - 1), k)
  <2> DEFINE v == k - 1
             A == 0 .. v - 1
             B == 0 .. v
             m == c.mask
             p == c.polarity
             x == chars[k]
  <2>1. B = A \cup {v}
    BY <1>2
  <2>2. x = IF v \notin m THEN "-" ELSE IF v \in p THEN "1" ELSE "0"
    BY <1>2, StrIs
  <2>3. P(k) = Cube(m \cap B, p \cap B) /\ P(v) = Cube(m \cap A, p \cap A)
    OBVIOUS
  <2>4. Step(P(v), k) = IF x = "1" THEN add_lit(P(v), v, 1)
                        ELSE IF x = "0" THEN add_lit(P(v), v, 0) ELSE P(v)
    OBVIOUS
  <2>5. p \subseteq m
    BY CubeFields
  <2> DEFINE here == P(k)
             old  == P(v)
             new  == Step(old, k)
  <2>6. P(k) = here /\ Step(P(k - 1), k) = new
    OBVIOUS
  <2>7. here = Cube(m \cap B, p \cap B) /\ old = Cube(m \cap A, p \cap A)
    BY <2>3
  <2>8. new = IF x = "1" THEN add_lit(old, v, 1)
              ELSE IF x = "0" THEN add_lit(old, v, 0) ELSE old
    BY <2>4
  <2>9. old.mask = m \cap A /\ old.polarity = p \cap A
    BY <2>7 DEF Cube
  <2> HIDE DEF here, old, new, x, m, p, A, B, v
  <2>10. ASSUME v \notin m  PROVE here = new
    <3>1. m \cap B = m \cap A /\ p \cap B = p \cap A
      BY <2>1, <2>5, <2>10
    <3>2. x = "-"
      BY <2>2, <2>10
    <3> QED  BY <2>7, <2>8, <3>1, <3>2
  <2>11. ASSUME v \in p  PROVE here = new
    <3>1. m \cap B = (m \cap A) \cup {v} /\ p \cap B = (p \cap A) \cup {v}
      BY <2>1, <2>5, <2>11
    <3>2. new = add_lit(old, v, 1)
      BY <2>2, <2>5, <2>8, <2>11
    <3>3. add_lit(old, v, 1) = Cube((m \cap A) \cup {v}, (p \cap A) \cup {v})
      BY <2>9 DEF add_lit
    <3> QED  BY <2>7, <3>1, <3>2, <3>3
  <2>12. ASSUME v \in m, v \notin p  PROVE here = new
    <3>1. m \cap B = (m \cap A) \cup {v} /\ p \cap B = (p \cap A) \cup {}
      BY <2>1, <2>5, <2>12
    <3>2. new = add_lit(old, v, 0)
      BY <2>2, <2>8, <2>12
    <3>3. add_lit(old, v, 0) = Cube((m \cap A) \cup {v}, (p \cap A) \cup {})
      BY <2>9 DEF add_lit
    <3> QED  BY <2>7, <3>1, <3>2, <3>3
  <2>13. here = new
    BY <2>10, <2>11, <2>12
  <2> QED  BY <2>6, <2>13
<1> HIDE DEF chars, P, N
<1>5. f = [k \in 0 .. N |->
             IF k = 0 THEN cube32_one
             ELSE IF chars[k] = "1" THEN add_lit(f[k - 1], k - 1, 1)
             ELSE IF chars[k] = "0" THEN add_lit(f[k - 1], k - 1, 0)
             ELSE f[k - 1]]
  <2>1. \A k \in 0 .. N : k # 0 => k \in 1 .. N /\ k - 1 \in 0 .. N
    BY <1>2
  <2> QED  BY <1>3, <1>4, <2>1
<1> HIDE DEF f
<1>6. cube = [k \in 0 .. N |->
                IF k = 0 THEN cube32_one
                ELSE IF chars[k] = "1" THEN add_lit(cube[k - 1], k - 1, 1)
                ELSE IF chars[k] = "0" THEN add_lit(cube[k - 1], k - 1, 0)
                ELSE cube[k - 1]]
  BY <1>5
<1> HIDE DEF cube
<1> DEFINE S == {k \in Nat : k \in 0 .. N => cube[k] = P(k)}
<1>7. 0 \in S
  BY <1>2, <1>3, <1>6
<1>8. ASSUME NEW n \in Nat, n \in S  PROVE n + 1 \in S
  <2> SUFFICES ASSUME n + 1 \in 0 .. N PROVE cube[n + 1] = P(n + 1)
    OBVIOUS
  <2>1. PICK m : m = n + 1
    OBVIOUS
  <2>2. n \in 0 .. N /\ m \in 1 .. N /\ m \in 0 .. N /\ m # 0 /\ m - 1 = n
    BY <1>2, <2>1
  <2>3. cube[n] = P(n)
    BY <1>8, <2>2
  <2>4. cube[m] = Step(cube[m - 1], m)
    BY <1>6, <2>2
  <2>5. P(m) = Step(P(m - 1), m)
    BY <1>4, <2>2
  <2> QED  BY <2>1, <2>2, <2>3, <2>4, <2>5
<1> HIDE DEF S
<1>9. \A k \in Nat : k \in S
  BY <1>7, <1>8, AllNumbers
<1>10. cube[N] = P(N)
  <2>1. N \in 0 .. N /\ N \in Nat
    BY <1>2
  <2> QED  BY <1>9, <2>1 DEF S
<1>11. P(N) = c
  <2>1. /\ c.mask \in SUBSET Vars /\ c.polarity \in SUBSET Vars
        /\ c = Cube(c.mask, c.polarity)
    BY CubeFields
  <2>2. c.mask \cap Vars = c.mask /\ c.polarity \cap Vars = c.polarity
    BY <2>1
  <2> QED  BY <1>2, <2>1, <2>2 DEF P, Vars
<1> QED  BY <1>1, <1>10, <1>11 DEF chars

\* The equations of the list of the cubes of an output.
LEMMA ListedRec ==
  ASSUME NEW f \in Files, NEW k
  PROVE  LET own == Listed(f.rows, k) IN
         /\ own \in [0 .. NRows(f) -> Seq(Cubes)] /\ own[0] = <<>>
         /\ \A n \in 1 .. NRows(f) :
              own[n] = IF k \in f.rows[n].outs THEN Append(own[n - 1], f.rows[n].cube)
                       ELSE own[n - 1]
<1> DEFINE rows == f.rows
           N    == Len(rows)
           T    == Seq(Cubes)
           Step(s, n) == IF k \in rows[n].outs THEN Append(s, rows[n].cube) ELSE s
           G    == [p \in (1 .. N) \X T |-> Step(p[2], p[1])]
           own  == CHOOSE own : own = [n \in 0 .. N |->
                     IF n = 0 THEN <<>>
                     ELSE IF k \in rows[n].outs THEN Append(own[n - 1], rows[n].cube)
                     ELSE own[n - 1]]
<1>1. Listed(rows, k) = own
  BY DEF Listed
<1> HIDE DEF own
<1>2. N \in Nat /\ \A n \in 1 .. N : rows[n].cube \in Cubes
  BY FileIs DEF NRows
<1> HIDE DEF N, rows
<1>3. \A n \in 1 .. N, s \in T : Step(s, n) \in T
  BY <1>2, AppendProperties
<1>4. <<>> \in T
  OBVIOUS
<1> HIDE DEF T, Step
<1>5. \A n \in 1 .. N, s \in T : G[<<n, s>>] = Step(s, n)
  <2>1. \A n \in 1 .. N, s \in T : <<n, s>> \in (1 .. N) \X T /\ <<n, s>>[1] = n /\ <<n, s>>[2] = s
    OBVIOUS
  <2> QED  BY <2>1
<1>6. G \in [(1 .. N) \X T -> T]
  <2>1. \A p \in (1 .. N) \X T : p[1] \in 1 .. N /\ p[2] \in T
    OBVIOUS
  <2> QED  BY <1>3, <2>1
<1> HIDE DEF G
<1>7. PICK g \in [0 .. N -> T] : StepsUpto(g, N, <<>>, G)
  <2> DEFINE a == <<>>
  <2>1. a \in T
    BY <1>4
  <2> HIDE DEF a
  <2>2. \E g \in [0 .. N -> T] : StepsUpto(g, N, a, G)
    BY <1>2, <1>6, <2>1, RecursionUpto
  <2> QED  BY <2>2 DEF a
<1>8. \A n \in 0 .. N : n # 0 => n \in 1 .. N /\ n - 1 \in 0 .. N
  BY <1>2
<1>9. g[0] = <<>> /\ \A n \in 1 .. N : g[n] = Step(g[n - 1], n)
  <2>1. ASSUME NEW n \in 1 .. N  PROVE g[n] = Step(g[n - 1], n)
    <3>1. n - 1 \in 0 .. N
      BY <1>2
    <3>2. g[n - 1] \in T /\ g[n] = G[<<n, g[n - 1]>>]
      BY <1>7, <3>1 DEF StepsUpto
    <3> QED  BY <1>5, <3>2
  <2> QED  BY <1>7, <2>1 DEF StepsUpto
<1>10. g = [n \in 0 .. N |->
              IF n = 0 THEN <<>>
              ELSE IF k \in rows[n].outs THEN Append(g[n - 1], rows[n].cube)
              ELSE g[n - 1]]
  BY <1>7, <1>8, <1>9 DEF Step
<1>11. own = [n \in 0 .. N |->
                IF n = 0 THEN <<>>
                ELSE IF k \in rows[n].outs THEN Append(own[n - 1], rows[n].cube)
                ELSE own[n - 1]]
  BY <1>10 DEF own
<1>12. own[0] = <<>> /\ \A n \in 1 .. N : own[n] = Step(own[n - 1], n)
  <2>1. 0 \in 0 .. N /\ \A n \in 1 .. N : n \in 0 .. N /\ n # 0
    BY <1>2
  <2> QED  BY <1>11, <2>1 DEF Step
<1> DEFINE S == {n \in Nat : n \in 0 .. N => own[n] = g[n]}
<1>13. 0 \in S
  BY <1>9, <1>12
<1>14. ASSUME NEW n \in Nat, n \in S  PROVE n + 1 \in S
  <2> SUFFICES ASSUME n + 1 \in 0 .. N PROVE own[n + 1] = g[n + 1]
    OBVIOUS
  <2>1. PICK m : m = n + 1
    OBVIOUS
  <2>2. n \in 0 .. N /\ m \in 1 .. N /\ m - 1 = n
    BY <1>2, <2>1
  <2>3. own[n] = g[n]
    BY <1>14, <2>2
  <2>4. own[m] = Step(own[n], m) /\ g[m] = Step(g[n], m)
    BY <1>9, <1>12, <2>2
  <2> QED  BY <2>1, <2>3, <2>4
<1> HIDE DEF S
<1>15. \A n \in Nat : n \in S
  BY <1>13, <1>14, AllNumbers
<1>16. \A n \in 0 .. N : own[n] = g[n]
  BY <1>15 DEF S
<1>17. own = g
  BY <1>7, <1>11, <1>16
<1>18. N = NRows(f) /\ rows = f.rows
  BY DEF N, rows, NRows
<1> QED  BY <1>1, <1>7, <1>12, <1>17, <1>18 DEF T, Step


-----------------------------------------------------------------------------
(* The invariant. *)

\* The first lines of the head, so many of them, have a line with a word.
HasWord(f, w, n) == \E j \in 1 .. n : f.head[j].word = w

\* The type is the one of the last type line among them.
TypeIs(f, n, t) ==
  \/ t = <<>> /\ ~ HasWord(f, TypeWord, n)
  \/ \E j \in 1 .. n : /\ f.head[j].word = TypeWord /\ t = f.head[j].rest
                       /\ \A k \in 1 .. n : f.head[k].word = TypeWord => k <= j

\* What has been read from them.
HeadRead(f, n, i, o, t) ==
  /\ i = IF HasWord(f, <<".", "i">>, n) THEN NVars ELSE 0
  /\ o = IF HasWord(f, <<".", "o">>, n) THEN f.n_outputs ELSE 0
  /\ TypeIs(f, n, t)

HeadIsRead(n) == HeadRead(file, n, n_inputs, n_outputs, type)

\* Behind the head of a file without rows the end has been read as a directive.
HeadEnds ==
  NRows(file) = 0 /\ HeadIsRead(NHead(file)) /\ buffer = Exhausted

\* The covers of the first rows.
CoversOf(f, r) == [k \in 1 .. f.n_outputs |-> Listed(f.rows, k)[r]]

RowsEnd == buffer = Exhausted /\ _cubes = CoversOf(file, NRows(file))

\* The text that is left behind the word of a line, or a part of it.
Behind(u, n) == Good(u \o (<<"\n">> \o After(file, n)))

InHeader ==
  \/ \E n \in 0 .. NHead(file) : HeadIsRead(n) /\ buffer = Good(After(file, n))
  \/ HeadEnds

InLine ==
  \/ \E n \in 0 .. NHead(file) - 1 :
       /\ HeadIsRead(n) /\ line = file.head[n + 1].word
       /\ buffer = Behind(file.head[n + 1].rest, n + 1)
  \/ HeadEnds /\ line = EndLine

InSkip ==
  \/ \E n \in 0 .. NHead(file), u \in Text :
       HeadIsRead(n) /\ Free(u, "\n") /\ buffer = Behind(u, n)
  \/ HeadEnds

InRows ==
  \/ \E r \in 0 .. NRows(file) :
       buffer = Good(After(file, NHead(file) + r)) /\ _cubes = CoversOf(file, r)
  \/ RowsEnd

InRow ==
  \/ \E r \in 0 .. NRows(file) - 1 :
       /\ line = str(file.rows[r + 1].cube)
       /\ buffer = Behind(Outs(file, r + 1), NHead(file) + (r + 1))
       /\ _cubes = CoversOf(file, r)
  \/ RowsEnd /\ line \in {EndLine, <<>>}

\* All of the head.
HeadDone == n_inputs = NVars /\ n_outputs = file.n_outputs /\ kind(type) = file.kind

PlainInv ==
  /\ pc = "header" => InHeader
  /\ pc = "directive" => InLine
  /\ pc = "skip" => InSkip
  /\ pc = "rows" => HeadDone /\ InRows
  /\ pc = "input" => HeadDone /\ InRow
  /\ pc = "done" => HeadDone /\ _cubes = CoversOf(file, NRows(file))

ReadInv == file \in Files /\ (file.plain => PlainInv)

-----------------------------------------------------------------------------
(* What the stream gives where a plain file has got to. *)

\* The first character of a text that is put together.
LEMMA PeekIs ==
  ASSUME NEW u \in Text, NEW v \in Text, NEW c \in Chars
  PROVE  peek(Good(u \o (<<c>> \o v))) = IF Len(u) = 0 THEN c ELSE u[1]
<1> DEFINE w == <<c>> \o v
           t == u \o w
<1>0. u \in Seq(Chars) /\ v \in Seq(Chars) /\ Len(u) \in Nat
  BY DEF Text
<1>1. w \in Seq(Chars) /\ Len(w) \in Nat /\ Len(w) > 0 /\ w[1] = c
  <2> DEFINE s == <<c>>
  <2>1. s \in Seq(Chars) /\ Len(s) = 1 /\ s[1] = c
    OBVIOUS
  <2> HIDE DEF s
  <2>2. s \o v \in Seq(Chars) /\ IsJoin(s \o v, s, v)
    BY <1>0, <2>1, Joined
  <2>3. 1 \in 1 .. 1
    OBVIOUS
  <2> QED  BY <1>0, <2>1, <2>2, <2>3 DEF IsJoin, s
<1> HIDE DEF w
<1>2. t \in Seq(Chars) /\ IsJoin(t, u, w)
  BY <1>0, <1>1, Joined
<1> HIDE DEF t
<1>3. Len(t) > 0 /\ t # <<>>
  <2>1. Len(t) > 0
    BY <1>0, <1>1, <1>2 DEF IsJoin
  <2> QED  BY <2>1, <1>2, EmptySeq
<1>4. t[1] = IF Len(u) = 0 THEN c ELSE u[1]
  <2>1. CASE Len(u) = 0
    <3>1. 1 \in 1 .. Len(w) /\ Len(u) + 1 = 1
      BY <1>1, <2>1
    <3>2. t[Len(u) + 1] = w[1]
      BY <1>2, <3>1 DEF IsJoin
    <3> QED  BY <1>1, <2>1, <3>1, <3>2
  <2>2. CASE Len(u) # 0
    <3>1. 1 \in 1 .. Len(u)
      BY <1>0, <2>2
    <3> QED  BY <1>2, <2>2, <3>1 DEF IsJoin
  <2> QED  BY <2>1, <2>2
<1>5. Head(t) = t[1]
  BY <1>2, <1>3, HeadTailProperties
<1>6. Good(t).text = t /\ Good(t).good = TRUE
  BY DEF Good
<1>7. peek(Good(t)) = Head(t)
  BY <1>3, <1>6 DEF peek
<1> QED  BY <1>4, <1>5, <1>7 DEF t, w

\* At a line of the head.
LEMMA AtLine ==
  ASSUME NEW f \in Files, f.plain, NEW n \in 0 .. NHead(f) - 1
  PROVE  /\ n + 1 \in 1 .. NHead(f)
         /\ f.head[n + 1].word \in Text /\ f.head[n + 1].rest \in Text
         /\ After(f, n + 1) \in Text
         /\ HeadLine(f.head[n + 1], f)
         /\ peek(Good(After(f, n))) \in {".", "#"}
         /\ getline(Good(After(f, n)), " ").line = f.head[n + 1].word
         /\ getline(Good(After(f, n)), " ").rest =
              Good(f.head[n + 1].rest \o (<<"\n">> \o After(f, n + 1)))
         /\ Free(f.head[n + 1].rest, "\n")
<1> DEFINE h == NHead(f)
           u == f.head[n + 1].word
           v == f.head[n + 1].rest
           a == After(f, n + 1)
           z == v \o (<<"\n">> \o a)
<1>1. h \in Nat /\ NRows(f) \in Nat /\ NLines(f) = h + NRows(f)
  BY EntriesAre, FileIs
<1>2. n \in Nat /\ n + 1 \in 1 .. h /\ n + 1 \in 1 .. NLines(f) /\ n + 1 \in 0 .. NLines(f)
  BY <1>1
<1>3. Entries(f)[n + 1] = f.head[n + 1] /\ HeadLine(f.head[n + 1], f)
  BY <1>2, EntriesAre
<1>4. u \in Text /\ v \in Text
  <2>1. Entries(f)[n + 1].word \in Text /\ Entries(f)[n + 1].rest \in Text
    BY <1>2, EntriesAre
  <2> QED  BY <1>3, <2>1
<1>5. a \in Text
  BY <1>2, AfterIs
<1>6. After(f, n) = u \o (<<" ">> \o z)
  <2>1. LET e == Entries(f)[n + 1] IN
          After(f, n) = e.word \o (<<" ">> \o (e.rest \o (<<"\n">> \o After(f, n + 1))))
    BY <1>2, AfterIs
  <2> QED  BY <1>3, <2>1
<1>7. Len(u) \in Nat \ {0} /\ u[1] \in {".", "#"} /\ Free(u, " ") /\ Free(v, "\n")
  <2> DEFINE e == f.head[n + 1]
  <2>1. e.word \in Text /\ e.rest \in Text /\ HeadLine(e, f)
    BY <1>3, <1>4
  <2> HIDE DEF e
  <2>2. /\ Len(e.word) \in Nat \ {0} /\ e.word[1] \in {".", "#"}
        /\ Free(e.word, " ") /\ Free(e.rest, "\n")
    BY <2>1, HeadLineIs
  <2> QED  BY <2>2 DEF e
<1> DEFINE b == " "
           c == "\n"
<1>8. b \in Chars /\ c \in Chars
  BY CharsAre
<1>9. z = v \o (<<c>> \o a) /\ After(f, n) = u \o (<<b>> \o z) /\ Free(u, b)
  BY <1>6, <1>7
<1> HIDE DEF b, c, u, v, a, z
<1>10. z \in Text
  <2>1. <<c>> \in Text
    BY <1>8, TextJoin
  <2>2. <<c>> \o a \in Text
    BY <1>5, <2>1, TextJoin
  <2> QED  BY <1>4, <1>9, <2>2, TextJoin
<1>11. getline(Good(After(f, n)), b).line = u /\ getline(Good(After(f, n)), b).rest = Good(z)
  <2>1. /\ getline(Good(u \o (<<b>> \o z)), b).line = u
        /\ getline(Good(u \o (<<b>> \o z)), b).rest = Good(z)
    <3>1. u \in Text /\ z \in Text /\ b \in Chars /\ Free(u, b)
      BY <1>4, <1>8, <1>9, <1>10
    <3> QED  BY <3>1, GetlineCut
  <2> QED  BY <1>9, <2>1
<1>12. peek(Good(After(f, n))) = u[1]
  <2>1. peek(Good(After(f, n))) = IF Len(u) = 0 THEN b ELSE u[1]
    BY <1>4, <1>8, <1>9, <1>10, PeekIs
  <2> QED  BY <1>7, <2>1
<1>13. Good(z) = Good(v \o (<<"\n">> \o a))
  BY DEF z
<1> QED  BY <1>2, <1>3, <1>4, <1>5, <1>7, <1>11, <1>12, <1>13 DEF b, u, v, a

\* At a row.
LEMMA AtRow ==
  ASSUME NEW f \in Files, f.plain, NEW r \in 0 .. NRows(f) - 1
  PROVE  /\ r + 1 \in 1 .. NRows(f) /\ f.rows[r + 1].cube \in Cubes
         /\ peek(Good(After(f, NHead(f) + r))) \notin {".", "#"}
         /\ getline(Good(After(f, NHead(f) + r)), " ").line = str(f.rows[r + 1].cube)
         /\ getline(Good(After(f, NHead(f) + r)), " ").rest =
              Good(Outs(f, r + 1) \o (<<"\n">> \o After(f, NHead(f) + (r + 1))))
         /\ After(f, NHead(f) + (r + 1)) \in Text
<1> DEFINE h == NHead(f)
           n == h + r
           u == str(f.rows[r + 1].cube)
           v == Outs(f, r + 1)
           a == After(f, h + (r + 1))
           z == v \o (<<"\n">> \o a)
<1>1. h \in Nat /\ NRows(f) \in Nat /\ NLines(f) = h + NRows(f)
  BY EntriesAre, FileIs
<1>2. /\ r + 1 \in 1 .. NRows(f) /\ n \in Nat /\ n + 1 \in 1 .. NLines(f)
      /\ n + 1 \in 0 .. NLines(f) /\ n + 1 = h + (r + 1)
  BY <1>1
<1>3. f.rows[r + 1].cube \in Cubes
  BY <1>2, FileIs
<1>4. Entries(f)[h + (r + 1)].word = u /\ Entries(f)[h + (r + 1)].rest = v
  BY <1>2, EntriesAre
<1>5. u \in Text /\ v \in Text /\ Len(u) = NVars
  BY <1>3, StrIs, OutsAre
<1>6. a \in Text
  BY <1>2, AfterIs
<1>7. After(f, n) = u \o (<<" ">> \o z)
  <2>1. LET e == Entries(f)[n + 1] IN
          After(f, n) = e.word \o (<<" ">> \o (e.rest \o (<<"\n">> \o After(f, n + 1))))
    BY <1>2, AfterIs
  <2>2. Entries(f)[n + 1].word = u /\ Entries(f)[n + 1].rest = v /\ After(f, n + 1) = a
    BY <1>2, <1>4
  <2> QED  BY <2>1, <2>2
<1>8. \A k \in 1 .. Len(u) : u[k] \in {"-", "0", "1"}
  BY <1>3, <1>5, StrIs
<1> DEFINE b == " "
           c == "\n"
<1>9. b \in Chars /\ c \in Chars
  BY CharsAre
<1>10. /\ z = v \o (<<c>> \o a) /\ After(f, n) = u \o (<<b>> \o z)
       /\ Free(u, b) /\ b \notin {".", "#"} /\ (Len(u) # 0 => u[1] \notin {".", "#"})
  <2>1. Len(u) \in Nat
    BY <1>5 DEF Text
  <2>2. Len(u) # 0 => u[1] \notin {".", "#"}
    <3>1. Len(u) # 0 => 1 \in 1 .. Len(u)
      BY <2>1
    <3> QED  BY <1>8, <3>1
  <2>3. Free(u, b)
    BY <1>8 DEF Free
  <2> QED  BY <1>7, <2>2, <2>3
<1> HIDE DEF b, c, u, v, a, z, n
<1>11. z \in Text
  <2>1. <<c>> \in Text
    BY <1>9, TextJoin
  <2>2. <<c>> \o a \in Text
    BY <1>6, <2>1, TextJoin
  <2> QED  BY <1>5, <1>10, <2>2, TextJoin
<1>12. getline(Good(After(f, n)), b).line = u /\ getline(Good(After(f, n)), b).rest = Good(z)
  <2>1. /\ getline(Good(u \o (<<b>> \o z)), b).line = u
        /\ getline(Good(u \o (<<b>> \o z)), b).rest = Good(z)
    <3>1. u \in Text /\ z \in Text /\ b \in Chars /\ Free(u, b)
      BY <1>5, <1>9, <1>10, <1>11
    <3> QED  BY <3>1, GetlineCut
  <2> QED  BY <1>10, <2>1
<1>13. peek(Good(After(f, n))) \notin {".", "#"}
  <2>1. peek(Good(After(f, n))) = IF Len(u) = 0 THEN b ELSE u[1]
    BY <1>5, <1>9, <1>10, <1>11, PeekIs
  <2> QED  BY <1>10, <2>1
<1>14. Good(z) = Good(v \o (<<"\n">> \o a))
  BY DEF z
<1> QED  BY <1>2, <1>3, <1>6, <1>12, <1>13, <1>14 DEF b, u, v, a, n

\* At the end.
LEMMA AtEndLine ==
  /\ peek(Good(EndLine)) = "."
  /\ getline(Good(EndLine), " ").line = EndLine
  /\ getline(Good(EndLine), " ").rest = Exhausted
  /\ \A d : getline(Exhausted, d).line = <<>> /\ getline(Exhausted, d).rest = Exhausted
  /\ peek(Exhausted) = "EOF"
<1> DEFINE t == EndLine
           b == " "
<1>1. t \in Text /\ Len(t) = 3 /\ t[1] = "." /\ t[2] = "e" /\ t[3] = "\n"
  BY EndLineIs
<1> HIDE DEF t
<1>2. Free(t, b)
  <2>1. \A k \in 1 .. 3 : k = 1 \/ k = 2 \/ k = 3
    OBVIOUS
  <2> QED  BY <1>1, <2>1 DEF Free
<1>3. getline(Good(t), b).line = t /\ getline(Good(t), b).rest = Exhausted
  <2> HIDE DEF b
  <2> QED  BY <1>1, <1>2, GetlineAll
<1>4. peek(Good(t)) = "."
  <2>1. t # <<>>
    BY <1>1
  <2>2. Head(t) = t[1]
    BY <1>1, <2>1, HeadTailProperties DEF Text
  <2>3. Good(t).text = t /\ Good(t).good = TRUE
    BY DEF Good
  <2> QED  BY <1>1, <2>1, <2>2, <2>3 DEF peek
<1>5. peek(Exhausted) = "EOF"
  BY DEF peek, Exhausted
<1> QED  BY <1>3, <1>4, <1>5, GetlineEnd DEF t

-----------------------------------------------------------------------------
(* What a line of the head changes. *)

\* The words of directives by their letters.
LEMMA WordsAre ==
  ASSUME NEW w
  PROVE  /\ \A c \in {"i", "o", "p"} : w = <<".", c>> => Len(w) = 2 /\ w[1] = "." /\ w[2] = c
         /\ w = TypeWord => Len(w) = 5 /\ w[1] = "." /\ w[2] = "t"
<1>1. \A c \in {"i", "o", "p"} : w = <<".", c>> => Len(w) = 2 /\ w[1] = "." /\ w[2] = c
  OBVIOUS
<1>2. w = TypeWord => Len(w) = 5 /\ w[1] = "." /\ w[2] = "t"
  BY DEF TypeWord
<1> QED  BY <1>1, <1>2

\* One more line.
LEMMA OneMore ==
  ASSUME NEW f, NEW n \in Nat, NEW w
  PROVE  HasWord(f, w, n + 1) <=> HasWord(f, w, n) \/ f.head[n + 1].word = w
<1>1. 1 .. n + 1 = (1 .. n) \cup {n + 1}
  OBVIOUS
<1> QED  BY <1>1 DEF HasWord

\* A line that is no type leaves the type, a type line sets it.
LEMMA TypeStep ==
  ASSUME NEW f, NEW n \in Nat, NEW t, TypeIs(f, n, t)
  PROVE  /\ f.head[n + 1].word # TypeWord => TypeIs(f, n + 1, t)
         /\ f.head[n + 1].word = TypeWord => TypeIs(f, n + 1, f.head[n + 1].rest)
<1>1. \A k \in 1 .. n + 1 : k \in 1 .. n \/ k = n + 1
  OBVIOUS
<1>2. \A k \in 1 .. n : k \in 1 .. n + 1
  OBVIOUS
<1>3. ASSUME f.head[n + 1].word # TypeWord  PROVE TypeIs(f, n + 1, t)
  BY <1>1, <1>2, <1>3 DEF TypeIs, HasWord
<1>4. ASSUME f.head[n + 1].word = TypeWord  PROVE TypeIs(f, n + 1, f.head[n + 1].rest)
  <2>1. n + 1 \in 1 .. n + 1 /\ \A k \in 1 .. n + 1 : k <= n + 1
    OBVIOUS
  <2> QED  BY <1>4, <2>1 DEF TypeIs
<1> QED  BY <1>3, <1>4

\* What a line of the head stands for.
LEMMA HeadStep ==
  ASSUME NEW f, NEW n \in Nat, NEW i, NEW o, NEW t, HeadRead(f, n, i, o, t)
  PROVE  LET w == f.head[n + 1].word IN
         /\ w = <<".", "i">> => HeadRead(f, n + 1, NVars, o, t)
         /\ w = <<".", "o">> => HeadRead(f, n + 1, i, f.n_outputs, t)
         /\ w = <<".", "p">> => HeadRead(f, n + 1, i, o, t)
         /\ w = TypeWord => HeadRead(f, n + 1, i, o, f.head[n + 1].rest)
         /\ w[1] # "." => HeadRead(f, n + 1, i, o, t)
<1> DEFINE w  == f.head[n + 1].word
           wi == <<".", "i">>
           wo == <<".", "o">>
           wp == <<".", "p">>
<1>1. /\ w = wi => w # wo /\ w # TypeWord
      /\ w = wo => w # wi /\ w # TypeWord
      /\ w = wp => w # wi /\ w # wo /\ w # TypeWord
      /\ w = TypeWord => w # wi /\ w # wo
      /\ w[1] # "." => w # wi /\ w # wo /\ w # TypeWord
  <2> DEFINE x == w
  <2>1. /\ x = wi => x[1] = "." /\ x[2] = "i"
        /\ x = wo => x[1] = "." /\ x[2] = "o"
        /\ x = wp => x[1] = "." /\ x[2] = "p"
        /\ x = TypeWord => x[1] = "." /\ x[2] = "t"
    <3> HIDE DEF x
    <3> QED  BY WordsAre
  <2>2. "i" # "o" /\ "i" # "p" /\ "i" # "t" /\ "o" # "p" /\ "o" # "t" /\ "p" # "t"
    OBVIOUS
  <2> HIDE DEF wi, wo, wp, x
  <2> QED  BY <2>1, <2>2 DEF x
<1> HIDE DEF wi, wo, wp
<1>2. /\ HasWord(f, wi, n + 1) <=> HasWord(f, wi, n) \/ w = wi
      /\ HasWord(f, wo, n + 1) <=> HasWord(f, wo, n) \/ w = wo
  BY OneMore
<1>3. /\ w # TypeWord => TypeIs(f, n + 1, t)
      /\ w = TypeWord => TypeIs(f, n + 1, f.head[n + 1].rest)
  BY TypeStep DEF HeadRead
<1>4. /\ i = IF HasWord(f, wi, n) THEN NVars ELSE 0
      /\ o = IF HasWord(f, wo, n) THEN f.n_outputs ELSE 0
  BY DEF HeadRead, wi, wo
<1>5. \A a, b, c : HeadRead(f, n + 1, a, b, c) <=>
        /\ a = IF HasWord(f, wi, n + 1) THEN NVars ELSE 0
        /\ b = IF HasWord(f, wo, n + 1) THEN f.n_outputs ELSE 0
        /\ TypeIs(f, n + 1, c)
  BY DEF HeadRead, wi, wo
<1> HIDE DEF w
<1>6. w = wi => HeadRead(f, n + 1, NVars, o, t)
  BY <1>1, <1>2, <1>3, <1>4, <1>5
<1>7. w = wo => HeadRead(f, n + 1, i, f.n_outputs, t)
  BY <1>1, <1>2, <1>3, <1>4, <1>5
<1>8. w = wp => HeadRead(f, n + 1, i, o, t)
  BY <1>1, <1>2, <1>3, <1>4, <1>5
<1>9. w = TypeWord => HeadRead(f, n + 1, i, o, f.head[n + 1].rest)
  BY <1>1, <1>2, <1>3, <1>4, <1>5
<1>10. w[1] # "." => HeadRead(f, n + 1, i, o, t)
  BY <1>1, <1>2, <1>3, <1>4, <1>5
<1> QED  BY <1>6, <1>7, <1>8, <1>9, <1>10 DEF w, wi, wo, wp

\* All of the head has been read.
LEMMA HeadComplete ==
  ASSUME NEW f \in Files, f.plain, NEW i, NEW o, NEW t, HeadRead(f, NHead(f), i, o, t)
  PROVE  i = NVars /\ o = f.n_outputs /\ kind(t) = f.kind
<1> DEFINE h == NHead(f)
<1>1. /\ h \in Nat /\ DOMAIN f.head = 1 .. h
      /\ \A c \in {"i", "o"} : \E j \in DOMAIN f.head : f.head[j].word = <<".", c>>
      /\ Types(f) = {} => f.kind = "UNDEF"
      /\ \A j \in Types(f) : (\A k \in Types(f) : k <= j) =>
           f.kind \in DOMAIN TypeNames /\ f.head[j].rest = TypeNames[f.kind]
  <2> DEFINE E == Range(f.head)
  <2>2. f.head \in Seq(E)
    BY FileIs DEF PlainFile
  <2> HIDE DEF E
  <2>3. h \in Nat /\ DOMAIN f.head = 1 .. h
    BY <2>2 DEF NHead
  <2> QED  BY <2>3, FileIs DEF PlainFile
<1>2. HasWord(f, <<".", "i">>, h) /\ HasWord(f, <<".", "o">>, h)
  BY <1>1 DEF HasWord
<1>3. i = NVars /\ o = f.n_outputs /\ TypeIs(f, h, t)
  BY <1>2 DEF HeadRead
<1>4. \A j : j \in Types(f) <=> j \in 1 .. h /\ f.head[j].word = TypeWord
  BY <1>1 DEF Types
<1>5. kind(t) = f.kind
  <2>1. CASE t = <<>> /\ ~ HasWord(f, TypeWord, h)
    <3>1. Types(f) = {}
      BY <1>4, <2>1 DEF HasWord
    <3> QED  BY <1>1, <2>1, <3>1, KindIs
  <2>2. ASSUME NEW j \in 1 .. h, f.head[j].word = TypeWord, t = f.head[j].rest,
               \A k \in 1 .. h : f.head[k].word = TypeWord => k <= j
        PROVE  kind(t) = f.kind
    <3>1. j \in Types(f) /\ \A k \in Types(f) : k <= j
      BY <1>4, <2>2
    <3>2. f.kind \in DOMAIN TypeNames /\ t = TypeNames[f.kind]
      BY <1>1, <2>2, <3>1
    <3> QED  BY <3>2, KindIs
  <2> QED  BY <1>3, <2>1, <2>2 DEF TypeIs
<1> QED  BY <1>3, <1>5

\* Nothing has been read.
LEMMA HeadNone ==
  ASSUME NEW f
  PROVE  HeadRead(f, 0, 0, 0, <<>>)
<1>1. \A w : ~ HasWord(f, w, 0)
  BY DEF HasWord
<1> QED  BY <1>1 DEF HeadRead, TypeIs

\* One more row.
LEMMA CoversStep ==
  ASSUME NEW f \in Files
  PROVE  /\ CoversOf(f, 0) = [k \in 1 .. f.n_outputs |-> <<>>]
         /\ \A r \in 0 .. NRows(f) - 1 : \A k \in 1 .. f.n_outputs :
              CoversOf(f, r + 1)[k] =
                IF k \in f.rows[r + 1].outs
                  THEN Append(CoversOf(f, r)[k], f.rows[r + 1].cube) ELSE CoversOf(f, r)[k]
<1>0. NRows(f) \in Nat
  BY FileIs
<1> DEFINE L(k) == Listed(f.rows, k)
<1>1. \A k : /\ L(k)[0] = <<>>
             /\ \A n \in 1 .. NRows(f) :
                  L(k)[n] = IF k \in f.rows[n].outs THEN Append(L(k)[n - 1], f.rows[n].cube)
                            ELSE L(k)[n - 1]
  BY ListedRec
<1> HIDE DEF L
<1>2. \A r, k : k \in 1 .. f.n_outputs => CoversOf(f, r)[k] = L(k)[r]
  BY DEF CoversOf, L
<1>3. CoversOf(f, 0) = [k \in 1 .. f.n_outputs |-> <<>>]
  BY <1>1 DEF CoversOf, L
<1>4. ASSUME NEW r \in 0 .. NRows(f) - 1, NEW k \in 1 .. f.n_outputs
      PROVE  CoversOf(f, r + 1)[k] =
               IF k \in f.rows[r + 1].outs
                 THEN Append(CoversOf(f, r)[k], f.rows[r + 1].cube) ELSE CoversOf(f, r)[k]
  <2>1. PICK m : m = r + 1
    OBVIOUS
  <2>2. m \in 1 .. NRows(f) /\ m - 1 = r
    BY <1>0, <2>1
  <2>3. L(k)[m] = IF k \in f.rows[m].outs THEN Append(L(k)[r], f.rows[m].cube) ELSE L(k)[r]
    BY <1>1, <2>2
  <2> QED  BY <1>2, <2>1, <2>3
<1> QED  BY <1>3, <1>4

-----------------------------------------------------------------------------------------
(* What write_pla writes, as a plain file. *)

\* The file that write_pla writes for a list of cubes.
Written(s) ==
  [head  |-> <<[word |-> <<".", "i">>, rest |-> Numeral(NVars)],
               [word |-> <<".", "o">>, rest |-> Numeral(1)],
               [word |-> <<".", "p">>, rest |-> Numeral(Len(s))]>>,
   rows  |-> [k \in DOMAIN s |-> [cube |-> s[k], outs |-> {1}]],
   lines |-> [k \in DOMAIN s |-> [cube |-> s[k], outs |-> {1}]],
   n_outputs |-> 1, kind |-> "UNDEF", text |-> FlattenSeq(write_pla(s))]

\* The lines of the file of a list of cubes.
LEMMA WrittenLines ==
  ASSUME NEW s \in Seq(Cubes)
  PROVE  LET es == Entries(Written(s))
             x  == write_pla(s)
         IN  /\ Len(es) = 3 + Len(s) /\ x \in Seq(Text) /\ Len(x) = 3 + Len(s) + 1
             /\ \A j \in 1 .. 3 + Len(s) : /\ es[j].word \in Text /\ es[j].rest \in Text
                                           /\ x[j] = Row(es[j].word, es[j].rest)
             /\ x[3 + Len(s) + 1] = EndLine
<1> DEFINE N  == Len(s)
           B  == [word : Text, rest : Text]
           wi == <<".", "i">>
           wo == <<".", "o">>
           wp == <<".", "p">>
           one == <<"1">>
           e1 == [word |-> wi, rest |-> Numeral(NVars)]
           e2 == [word |-> wo, rest |-> Numeral(1)]
           e3 == [word |-> wp, rest |-> Numeral(N)]
           h  == <<e1, e2, e3>>
           r  == [m \in 1 .. N |-> [word |-> str(s[m]), rest |-> one]]
           es == h \o r
           a  == <<Directive("i", NVars), Directive("o", 1), Directive("p", N)>>
           b  == [m \in 1 .. N |-> Row(str(s[m]), one)]
           z  == <<EndLine>>
           x  == (a \o b) \o z
<1>1. N \in Nat /\ DOMAIN s = 1 .. N /\ \A m \in 1 .. N : s[m] \in Cubes
  <2>1. \A m \in 1 .. Len(s) : s[m] \in Cubes
    BY ElementOfSeq
  <2> QED  BY <2>1
<1>2. Entries(Written(s)) = es
  <2> DEFINE f == Written(s)
             o(m) == [k \in 1 .. f.n_outputs |-> IF k \in f.rows[m].outs THEN "1" ELSE "0"]
             t == [m \in DOMAIN f.rows |-> [word |-> str(f.rows[m].cube), rest |-> o(m)]]
  <2>1. /\ f.head = h /\ DOMAIN f.rows = 1 .. N /\ f.n_outputs = 1
        /\ \A m \in 1 .. N : f.rows[m].cube = s[m] /\ f.rows[m].outs = {1}
    BY <1>1 DEF Written
  <2>2. Entries(f) = f.head \o t
    BY DEF Entries
  <2> HIDE DEF f
  <2>3. ASSUME NEW m \in 1 .. N  PROVE o(m) = one
    <3>1. o(m) = [k \in 1 .. 1 |-> IF k \in {1} THEN "1" ELSE "0"]
      BY <2>1
    <3>2. \A k \in 1 .. 1 : k \in {1}
      OBVIOUS
    <3>3. o(m) = [k \in 1 .. 1 |-> "1"]
      BY <3>1, <3>2
    <3>4. [k \in 1 .. 1 |-> "1"] = one
      OBVIOUS
    <3> QED  BY <3>3, <3>4
  <2> HIDE DEF o
  <2>4. t = r
    BY <2>1, <2>3
  <2> QED  BY <2>1, <2>2, <2>4 DEF f
<1>3. write_pla(s) = x
  <2>1. b = [k \in DOMAIN s |-> Row(str(s[k]), <<"1">>)]
    BY <1>1
  <2> QED  BY <2>1 DEF write_pla, EndLine
<1>4. /\ Numeral(NVars) \in Text /\ Numeral(1) \in Text /\ Numeral(N) \in Text
      /\ wi \in Text /\ wo \in Text /\ wp \in Text /\ one \in Text
  <2>1. NVars \in Nat /\ 1 \in Nat /\ N \in Nat
    BY <1>1, NVarsAssumption, WidthAssumption
  <2>2. one \in Text
    <3> DEFINE c == "1"
    <3>1. c \in Chars
      BY CharsAre
    <3> HIDE DEF c
    <3>2. <<c>> \in Text
      BY <3>1, TextJoin
    <3> QED  BY <3>2 DEF c
  <2>3. wi \in Text /\ wo \in Text /\ wp \in Text
    BY WordsAreText
  <2>4. Numeral(NVars) \in Text /\ Numeral(1) \in Text /\ Numeral(N) \in Text
    BY <2>1, NumeralIs
  <2> QED  BY <2>2, <2>3, <2>4
<1>5. /\ Directive("i", NVars) = Row(wi, Numeral(NVars))
      /\ Directive("o", 1) = Row(wo, Numeral(1))
      /\ Directive("p", N) = Row(wp, Numeral(N))
  <2>1. ASSUME NEW c \in {"i", "o", "p"}, NEW n  PROVE Directive(c, n) = Row(<<".", c>>, Numeral(n))
    <3> DEFINE d == "."
               k == " "
               u == <<d, c>>
               v == <<k>>
               w == <<d, c, k>>
               C == {d, c, k}
    <3> HIDE DEF d, k
    <3>0. /\ d \in C /\ c \in C /\ k \in C
      OBVIOUS
    <3> HIDE DEF C
    <3>2. /\ u \in Seq(C) /\ Len(u) = 2 /\ u[1] = d /\ u[2] = c
          /\ v \in Seq(C) /\ Len(v) = 1 /\ v[1] = k
          /\ w \in Seq(C) /\ Len(w) = 3 /\ w[1] = d /\ w[2] = c /\ w[3] = k
      BY <3>0
    <3> HIDE DEF u, v, w
    <3>3. u \o v \in Seq(C) /\ IsJoin(u \o v, u, v)
      BY <3>2, Joined
    <3>4. /\ Len(u \o v) = 3 /\ (u \o v)[1] = d /\ (u \o v)[2] = c /\ (u \o v)[3] = k
      <4>1. 1 \in 1 .. 2 /\ 2 \in 1 .. 2 /\ 1 \in 1 .. 1 /\ 2 + 1 = 3
        OBVIOUS
      <4> QED  BY <3>2, <3>3, <4>1 DEF IsJoin
    <3>5. \A j \in 1 .. 3 : j = 1 \/ j = 2 \/ j = 3
      OBVIOUS
    <3>6. \A j \in 1 .. 3 : w[j] = (u \o v)[j]
      BY <3>2, <3>4, <3>5
    <3>7. w = u \o v
      BY <3>2, <3>3, <3>4, <3>6, SeqEqual
    <3>1. <<".", c, " ">> = <<".", c>> \o <<" ">>
      BY <3>7 DEF u, v, w, d, k
    <3> QED  BY <3>1 DEF Directive, Row
  <2> QED  BY <2>1
<1> HIDE DEF wi, wo, wp, one
<1>6. /\ e1 \in B /\ e2 \in B /\ e3 \in B /\ e1.word = wi /\ e2.word = wo /\ e3.word = wp
      /\ e1.rest = Numeral(NVars) /\ e2.rest = Numeral(1) /\ e3.rest = Numeral(N)
  BY <1>4
<1> HIDE DEF e1, e2, e3
<1>7. h \in Seq(B) /\ Len(h) = 3 /\ h[1] = e1 /\ h[2] = e2 /\ h[3] = e3
  <2> HIDE DEF B
  <2> QED  BY <1>6
<1>8. r \in Seq(B) /\ Len(r) = N
  <2>1. \A m \in 1 .. N : str(s[m]) \in Text
    BY <1>1, StrIs
  <2>2. r \in [1 .. N -> B]
    BY <1>4, <2>1
  <2> HIDE DEF r, B
  <2> QED  BY <1>1, <2>2
<1>9. \A m \in 1 .. N : r[m].word = str(s[m]) /\ r[m].rest = one
  OBVIOUS
<1> HIDE DEF h, r
<1>10. es \in Seq(B) /\ IsJoin(es, h, r)
  <2> HIDE DEF B
  <2> QED  BY <1>7, <1>8, Joined
<1>11. \A u, v \in Text : Row(u, v) \in Text
  <2>1. <<" ">> \in Text /\ <<"\n">> \in Text
    BY CharsAre, TextJoin
  <2> DEFINE p == <<" ">>
             q == <<"\n">>
  <2>2. \A u, v : Row(u, v) = ((u \o p) \o v) \o q
    BY DEF Row, Line
  <2>3. p \in Text /\ q \in Text
    BY <2>1
  <2> HIDE DEF p, q
  <2> QED  BY <2>2, <2>3, TextJoin
<1>12. a \in Seq(Text) /\ Len(a) = 3 /\ a[1] = Directive("i", NVars)
       /\ a[2] = Directive("o", 1) /\ a[3] = Directive("p", N)
  <2> DEFINE d1 == Directive("i", NVars)
             d2 == Directive("o", 1)
             d3 == Directive("p", N)
             T == Text
  <2>1. d1 \in T /\ d2 \in T /\ d3 \in T
    BY <1>4, <1>5, <1>11
  <2> HIDE DEF d1, d2, d3, T
  <2>2. <<d1, d2, d3>> \in Seq(T) /\ Len(<<d1, d2, d3>>) = 3
    BY <2>1
  <2> QED  BY <2>2 DEF d1, d2, d3, T
<1>13. b \in Seq(Text) /\ Len(b) = N
  <2> DEFINE T == Text
  <2>1. \A m \in 1 .. N : Row(str(s[m]), one) \in T
    BY <1>1, <1>4, <1>11, StrIs
  <2> HIDE DEF T
  <2>2. b \in [1 .. N -> T]
    BY <2>1
  <2> HIDE DEF b
  <2>3. b \in Seq(T) /\ Len(b) = N
    BY <1>1, <2>2
  <2> QED  BY <2>3 DEF T
<1>14. \A m \in 1 .. N : b[m] = Row(str(s[m]), one)
  OBVIOUS
<1>15. z \in Seq(Text) /\ Len(z) = 1 /\ z[1] = EndLine
  <2> DEFINE T == Text
             e == EndLine
  <2>1. e \in T
    BY EndLineIs
  <2> HIDE DEF e, T
  <2>2. <<e>> \in Seq(T) /\ Len(<<e>>) = 1 /\ <<e>>[1] = e
    BY <2>1
  <2> QED  BY <2>2 DEF e, T
<1> HIDE DEF a, b, z
<1> DEFINE y == a \o b
<1>16. y \in Seq(Text) /\ IsJoin(y, a, b) /\ x = y \o z
  BY <1>12, <1>13, Joined
<1> HIDE DEF y, x
<1>17. x \in Seq(Text) /\ IsJoin(x, y, z)
  BY <1>15, <1>16, Joined
<1>18. Len(es) = 3 + N /\ Len(y) = 3 + N /\ Len(x) = 3 + N + 1
  BY <1>1, <1>7, <1>8, <1>10, <1>12, <1>13, <1>15, <1>16, <1>17 DEF IsJoin
<1>19. x[3 + N + 1] = EndLine
  <2>1. 1 \in 1 .. Len(z)
    BY <1>15
  <2> QED  BY <1>15, <1>17, <1>18, <2>1 DEF IsJoin
<1>20. ASSUME NEW j \in 1 .. 3 + N
       PROVE  es[j].word \in Text /\ es[j].rest \in Text /\ x[j] = Row(es[j].word, es[j].rest)
  <2>1. x[j] = y[j]
    BY <1>17, <1>18 DEF IsJoin
  <2>2. CASE j \in 1 .. 3
    <3>1. y[j] = a[j] /\ es[j] = h[j]
      BY <1>7, <1>10, <1>12, <1>16, <2>2 DEF IsJoin
    <3>2. j = 1 \/ j = 2 \/ j = 3
      BY <2>2
    <3>3. a[j] = Row(h[j].word, h[j].rest) /\ h[j].word \in Text /\ h[j].rest \in Text
      BY <1>4, <1>5, <1>6, <1>7, <1>12, <3>2
    <3> QED  BY <2>1, <3>1, <3>3
  <2>3. CASE j \notin 1 .. 3
    <3>1. PICK m : m = j - 3
      OBVIOUS
    <3>2. m \in 1 .. N /\ j = 3 + m
      BY <1>1, <2>3, <3>1
    <3>3. y[j] = b[m] /\ es[j] = r[m]
      BY <1>7, <1>8, <1>10, <1>12, <1>13, <1>16, <3>2 DEF IsJoin
    <3>4. str(s[m]) \in Text
      BY <1>1, <3>2, StrIs
    <3> QED  BY <1>4, <1>9, <1>14, <2>1, <3>2, <3>3, <3>4
  <2> QED  BY <2>2, <2>3
<1>21. Entries(Written(s)) = es /\ write_pla(s) = x
  BY <1>2, <1>3 DEF x, h, r, a, b, z, e1, e2, e3, wi, wo, wp, one, y
<1> HIDE DEF es
<1> QED  BY <1>17, <1>18, <1>19, <1>20, <1>21

\* What write_pla writes is a plain file of one output whose rows are the cubes:
\* its text is made of a head, with each of the three directives, a row per cube
\* and an end; so FileReadBack is about every file that collapse writes, as long
\* as its number of cubes fits into an std::uint32_t.
THEOREM WrittenIsPlain ==
  ASSUME NEW s \in Seq(Cubes), Len(s) <= MaxNumber
  PROVE  PlainFile(Written(s))
<1> DEFINE f  == Written(s)
           e1 == [word |-> <<".", "i">>, rest |-> Numeral(NVars)]
           e2 == [word |-> <<".", "o">>, rest |-> Numeral(1)]
           e3 == [word |-> <<".", "p">>, rest |-> Numeral(Len(s))]
           h  == <<e1, e2, e3>>
<1>1. f.head = h /\ f.n_outputs = 1 /\ f.kind = "UNDEF" /\ f.text = FlattenSeq(write_pla(s))
  BY DEF Written
<1> HIDE DEF f
<1>2. /\ e1.word = <<".", "i">> /\ e1.rest = Numeral(NVars)
      /\ e2.word = <<".", "o">> /\ e2.rest = Numeral(1)
      /\ e3.word = <<".", "p">> /\ e3.rest = Numeral(Len(s))
  OBVIOUS
<1> HIDE DEF e1, e2, e3
<1>3. Len(h) = 3 /\ DOMAIN h = {1, 2, 3} /\ h[1] = e1 /\ h[2] = e2 /\ h[3] = e3
  OBVIOUS
<1>4. h \in Seq(Range(h))
  <2>1. e1 \in Range(h) /\ e2 \in Range(h) /\ e3 \in Range(h)
    BY <1>3 DEF Range
  <2> DEFINE T == Range(h)
  <2> HIDE DEF T
  <2>2. e1 \in T /\ e2 \in T /\ e3 \in T
    BY <2>1 DEF T
  <2>3. h \in Seq(T)
    BY <2>2
  <2> QED  BY <2>3 DEF T
<1> HIDE DEF h
<1>5. \A j \in DOMAIN h : HeadLine(h[j], f)
  <2>1. Len(s) \in 0 .. MaxNumber
    <3> DEFINE n == Len(s)
    <3>1. n \in Nat /\ n <= MaxNumber /\ MaxNumber \in Nat
      BY NumbersAssumption
    <3> HIDE DEF n
    <3>2. n \in 0 .. MaxNumber
      BY <3>1
    <3> QED  BY <3>2 DEF n
  <2>2. HeadLine(e1, f) /\ HeadLine(e2, f) /\ HeadLine(e3, f)
    BY <1>1, <1>2, <2>1 DEF HeadLine
  <2> QED  BY <1>3, <2>2
<1>6. \A c \in {"i", "o"} : \E j \in DOMAIN h : h[j].word = <<".", c>>
  BY <1>2, <1>3
<1>7. Types(f) = {}
  <2>1. \A c \in {"i", "o", "p"} : <<".", c>> # TypeWord
    <3> SUFFICES ASSUME NEW c \in {"i", "o", "p"} PROVE <<".", c>> # TypeWord
      OBVIOUS
    <3> DEFINE w == <<".", c>>
    <3>1. TypeWord[2] = "t"
      BY DEF TypeWord
    <3>2. w[2] = c /\ c # "t"
      OBVIOUS
    <3> HIDE DEF w
    <3>3. w # TypeWord
      BY <3>1, <3>2
    <3> QED  BY <3>3 DEF w
  <2>2. \A j \in DOMAIN h : h[j].word # TypeWord
    BY <1>2, <1>3, <2>1
  <2> QED  BY <1>1, <2>2 DEF Types
<1>8. f.text = LastLines(Entries(f))[Len(Entries(f))]
  <2> DEFINE es == Entries(f)
             x  == write_pla(s)
             N  == 3 + Len(s)
  <2>1. /\ Len(es) = N /\ x \in Seq(Text) /\ Len(x) = N + 1
        /\ \A j \in 1 .. N : /\ es[j].word \in Text /\ es[j].rest \in Text
                             /\ x[j] = Row(es[j].word, es[j].rest)
        /\ x[N + 1] = EndLine
    BY WrittenLines DEF f
  <2>2. N \in Nat
    BY LenProperties
  <2> HIDE DEF es, x, N
  <2>3. FlattenSeq(x) = LastLines(es)[Len(es)]
    <3>1. /\ Len(es) \in Nat /\ Len(x) = Len(es) + 1
          /\ \A j \in 1 .. Len(es) : es[j].word \in Text /\ es[j].rest \in Text
          /\ \A j \in 1 .. Len(es) : x[j] = Row(es[j].word, es[j].rest)
          /\ x[Len(es) + 1] = EndLine
      BY <2>1, <2>2
    <3> QED  BY <2>1, <3>1, FlattenedLines
  <2> QED  BY <1>1, <2>3 DEF x, es
<1>9. PlainFile(f)
  BY <1>1, <1>4, <1>5, <1>6, <1>7, <1>8 DEF PlainFile
<1> QED  BY <1>9 DEF f

-----------------------------------------------------------------
(* The actions. *)

\* The sizes of the file.
LEMMA SizesAre ==
  ASSUME file \in Files, file.plain
  PROVE  /\ NHead(file) \in Nat /\ NRows(file) \in Nat
         /\ After(file, NHead(file) + NRows(file)) = EndLine
<1>1. NHead(file) \in Nat /\ NLines(file) = NHead(file) + NRows(file)
  BY EntriesAre
<1>2. NRows(file) \in Nat
  BY FileIs
<1>3. After(file, NLines(file)) = EndLine
  BY AfterIs
<1> QED  BY <1>1, <1>2, <1>3

\* A line is begun.
LEMMA HeaderLineStep ==
  ASSUME file \in Files, file.plain, InHeader, HeaderLine
  PROVE  file' = file /\ pc' = "directive" /\ InLine'
<1>1. /\ peek(buffer) \in {".", "#"} /\ pc' = "directive"
      /\ line' = getline(buffer, " ").line /\ buffer' = getline(buffer, " ").rest
      /\ file' = file /\ n_inputs' = n_inputs /\ n_outputs' = n_outputs /\ type' = type
  BY DEF HeaderLine, ReadWord
<1>2. \A n : HeadIsRead(n) => HeadIsRead(n)'
  BY <1>1 DEF HeadIsRead
<1>3. NHead(file) \in Nat /\ NRows(file) \in Nat
  BY SizesAre
<1>4. ASSUME NEW n \in 0 .. NHead(file), HeadIsRead(n), buffer = Good(After(file, n))
      PROVE  InLine'
  <2>1. CASE n # NHead(file)
    <3>1. n \in 0 .. NHead(file) - 1
      BY <1>3, <2>1
    <3>2. /\ getline(buffer, " ").line = file.head[n + 1].word
          /\ getline(buffer, " ").rest =
               Good(file.head[n + 1].rest \o (<<"\n">> \o After(file, n + 1)))
      BY <1>4, <3>1, AtLine
    <3>3. line' = file.head[n + 1].word /\ buffer' = Behind(file.head[n + 1].rest, n + 1)
      BY <1>1, <3>2 DEF Behind
    <3>4. HeadIsRead(n)' /\ n \in 0 .. NHead(file') - 1
      BY <1>1, <1>2, <1>4, <3>1
    <3>5. (Behind(file.head[n + 1].rest, n + 1))' = Behind(file.head[n + 1].rest, n + 1)
      BY <1>1 DEF Behind
    <3> QED  BY <1>1, <3>3, <3>4, <3>5 DEF InLine
  <2>2. CASE n = NHead(file)
    <3>1. NRows(file) = 0
      <4> SUFFICES ASSUME NRows(file) # 0 PROVE FALSE
        OBVIOUS
      <4>1. 0 \in 0 .. NRows(file) - 1 /\ n + 0 = n
        BY <1>3
      <4> QED  BY <1>1, <1>4, <2>2, <4>1, AtRow
    <3>2. buffer = Good(EndLine)
      <4>1. n + NRows(file) = n
        BY <1>3, <3>1
      <4> QED  BY <1>4, <2>2, <4>1, SizesAre
    <3>3. line' = EndLine /\ buffer' = Exhausted
      BY <1>1, <3>2, AtEndLine
    <3>4. HeadEnds'
      BY <1>1, <1>2, <1>4, <2>2, <3>1, <3>3 DEF HeadEnds
    <3> QED  BY <3>3, <3>4 DEF InLine
  <2> QED  BY <2>1, <2>2
<1>5. ~ HeadEnds
  BY <1>1, AtEndLine DEF HeadEnds
<1> QED  BY <1>1, <1>4, <1>5 DEF InHeader

\* A line of the head in a directive, by its letters.
LEMMA DirectiveIs ==
  ASSUME NEW f \in Files, NEW e, HeadLine(e, f), line = e.word, e.word \in Text
  PROVE  /\ \A c \in {"i", "o", "p"} : e.word = <<".", c>> => At(1) = "." /\ At(2) = c
         /\ e.word = TypeWord => At(1) = "." /\ At(2) = "t"
         /\ Comment(e) => At(1) = "#" /\ e.word[1] = "#"
<1>1. ASSUME NEW c \in {"i", "o", "p"}, line = <<".", c>>
      PROVE  At(1) = "." /\ At(2) = c
  <2>1. Len(line) = 2 /\ line[1] = "." /\ line[2] = c
    BY <1>1, WordsAre
  <2> QED  BY <2>1 DEF At
<1>2. ASSUME line = TypeWord  PROVE At(1) = "." /\ At(2) = "t"
  <2>1. Len(line) = 5 /\ line[1] = "." /\ line[2] = "t"
    BY <1>2, WordsAre
  <2> QED  BY <2>1 DEF At
<1>3. ASSUME Comment(e)  PROVE At(1) = "#" /\ e.word[1] = "#"
  <2>1. e.word # <<>> /\ e.word[1] = "#"
    BY <1>3 DEF Comment
  <2>2. Len(e.word) \in Nat /\ Len(e.word) # 0
    BY <2>1, EmptySeq DEF Text
  <2>3. 1 <= Len(line)
    BY <2>2
  <2> QED  BY <2>1, <2>3 DEF At
<1> QED  BY <1>1, <1>2, <1>3

\* The end as a line.
LEMMA EndLineAt ==
  ASSUME line = EndLine
  PROVE  At(1) = "." /\ At(2) = "e"
BY EndLineIs DEF At

\* The kinds of lines.
LEMMA LineKinds ==
  ASSUME NEW f, NEW e, HeadLine(e, f)
  PROVE  \/ e.word = <<".", "i">> /\ e.rest = Numeral(NVars)
         \/ e.word = <<".", "o">> /\ e.rest = Numeral(f.n_outputs)
         \/ e.word = <<".", "p">> /\ \E n \in 0 .. MaxNumber : e.rest = Numeral(n)
         \/ e.word = TypeWord /\ \E t \in DOMAIN TypeNames : e.rest = TypeNames[t]
         \/ Comment(e)
BY DEF HeadLine

\* A number.
LEMMA NumberStep ==
  ASSUME file \in Files, file.plain, InLine, Number
  PROVE  file' = file /\ pc' = "skip" /\ InSkip'
<1>1. /\ At(1) = "." /\ At(2) \in {"i", "o", "p"} /\ pc' = "skip"
      /\ n_inputs' = IF At(2) = "i" THEN extract(buffer, n_inputs).value ELSE n_inputs
      /\ n_outputs' = IF At(2) = "o" THEN extract(buffer, n_outputs).value ELSE n_outputs
      /\ buffer' = extract(buffer, 0).rest
      /\ file' = file /\ type' = type
  BY DEF Number, InDirective
<1>2. line # EndLine
  BY <1>1, EndLineAt
<1>3. PICK n \in 0 .. NHead(file) - 1 : /\ HeadIsRead(n) /\ line = file.head[n + 1].word
                                        /\ buffer = Behind(file.head[n + 1].rest, n + 1)
  BY <1>2 DEF InLine
<1> DEFINE e == file.head[n + 1]
           a == After(file, n + 1)
<1>4. /\ n \in Nat /\ n + 1 \in 0 .. NHead(file) /\ HeadLine(e, file) /\ e.word \in Text
      /\ a \in Text /\ line = e.word /\ buffer = Good(e.rest \o (<<"\n">> \o a))
      /\ HeadRead(file, n, n_inputs, n_outputs, type)
  <2>1. n \in Nat /\ n + 1 \in 0 .. NHead(file)
    BY SizesAre
  <2>2. HeadLine(e, file) /\ e.word \in Text /\ a \in Text
    BY AtLine
  <2>3. buffer = Good(e.rest \o (<<"\n">> \o a))
    BY <1>3 DEF Behind
  <2>4. line = e.word /\ HeadRead(file, n, n_inputs, n_outputs, type)
    BY <1>3 DEF HeadIsRead
  <2> QED  BY <2>1, <2>2, <2>3, <2>4
<1>5. /\ e.word = <<".", "i">> => HeadRead(file, n + 1, NVars, n_outputs, type)
      /\ e.word = <<".", "o">> => HeadRead(file, n + 1, n_inputs, file.n_outputs, type)
      /\ e.word = <<".", "p">> => HeadRead(file, n + 1, n_inputs, n_outputs, type)
  BY <1>4, HeadStep
<1> HIDE DEF e, a
<1>6. /\ \A c \in {"i", "o", "p"} : e.word = <<".", c>> => At(2) = c
      /\ e.word # TypeWord /\ ~ Comment(e)
  BY <1>1, <1>4, DirectiveIs
<1>7. \E d \in 0 .. MaxNumber :
        /\ e.rest = Numeral(d)
        /\ \/ e.word = <<".", "i">> /\ d = NVars
           \/ e.word = <<".", "o">> /\ d = file.n_outputs
           \/ e.word = <<".", "p">>
  <2>1. NVars \in 0 .. MaxNumber /\ file.n_outputs \in 0 .. MaxNumber
    BY FileIs
  <2>2. \/ e.word = <<".", "i">> /\ e.rest = Numeral(NVars)
        \/ e.word = <<".", "o">> /\ e.rest = Numeral(file.n_outputs)
        \/ e.word = <<".", "p">> /\ \E m \in 0 .. MaxNumber : e.rest = Numeral(m)
    BY <1>4, <1>6, LineKinds
  <2> QED  BY <2>1, <2>2
<1>8. PICK d \in 0 .. MaxNumber : /\ e.rest = Numeral(d)
                           /\ \/ e.word = <<".", "i">> /\ d = NVars
                              \/ e.word = <<".", "o">> /\ d = file.n_outputs
                              \/ e.word = <<".", "p">>
  BY <1>7
<1>9. \A x : extract(buffer, x).value = d /\ extract(buffer, x).rest = Good(<<"\n">> \o a)
  <2>1. buffer = Good(Numeral(d) \o (<<"\n">> \o a))
    BY <1>4, <1>8
  <2> QED  BY <1>4, <2>1, ExtractNumeral
<1> DEFINE u == <<>>
<1>10. buffer' = Good(u \o (<<"\n">> \o a)) /\ u \in Text /\ Free(u, "\n")
  <2>1. u \in Text /\ Free(u, "\n")
    BY TextJoin DEF Free
  <2> DEFINE w == <<"\n">> \o a
  <2>2. w \in Text
    BY <1>4, CharsAre, TextJoin
  <2>3. buffer' = Good(w)
    BY <1>1, <1>9
  <2> HIDE DEF w
  <2>4. u \o w = w
    BY <2>2, ConcatEmptySeq DEF Text
  <2> QED  BY <2>1, <2>3, <2>4 DEF w
<1> HIDE DEF u
<1>11. HeadRead(file, n + 1, n_inputs', n_outputs', type)
  <2>1. CASE e.word = <<".", "i">> /\ d = NVars
    <3>1. At(2) = "i"
      BY <1>6, <2>1, FileIs
    <3>2. n_inputs' = NVars /\ n_outputs' = n_outputs
      BY <1>1, <1>9, <2>1, <3>1
    <3> QED  BY <1>5, <2>1, <3>2
  <2>2. CASE e.word = <<".", "o">> /\ d = file.n_outputs
    <3>1. At(2) = "o"
      BY <1>6, <2>2, FileIs
    <3>2. n_inputs' = n_inputs /\ n_outputs' = file.n_outputs
      BY <1>1, <1>9, <2>2, <3>1
    <3> QED  BY <1>5, <2>2, <3>2
  <2>3. CASE e.word = <<".", "p">>
    <3>1. At(2) = "p"
      BY <1>6, <2>3
    <3>2. n_inputs' = n_inputs /\ n_outputs' = n_outputs
      BY <1>1, <3>1
    <3> QED  BY <1>5, <2>3, <3>2
  <2> QED  BY <1>8, <2>1, <2>2, <2>3
<1>12. HeadIsRead(n + 1)'
  BY <1>1, <1>11 DEF HeadIsRead
<1>13. buffer' = Behind(u, n + 1)'
  BY <1>1, <1>10 DEF Behind, a
<1>14. n + 1 \in 0 .. NHead(file')
  BY <1>1, <1>4
<1>15. InSkip'
  <2>1. PICK m : m = n + 1
    OBVIOUS
  <2>2. m \in 0 .. NHead(file') /\ HeadIsRead(m)' /\ buffer' = Behind(u, m)'
    BY <1>12, <1>13, <1>14, <2>1
  <2> QED  BY <1>10, <2>2 DEF InSkip
<1> QED  BY <1>1, <1>15

\* A type.
LEMMA TypeActionStep ==
  ASSUME file \in Files, file.plain, InLine, Type
  PROVE  file' = file /\ pc' = "header" /\ InHeader'
<1>1. /\ At(1) = "." /\ At(2) = "t" /\ pc' = "header"
      /\ type' = IF buffer.good THEN getline(buffer, "\n").line ELSE type
      /\ buffer' = getline(buffer, "\n").rest
      /\ file' = file /\ n_inputs' = n_inputs /\ n_outputs' = n_outputs
  BY DEF Type, InDirective
<1>2. line # EndLine
  BY <1>1, EndLineAt
<1>3. PICK n \in 0 .. NHead(file) - 1 : /\ HeadIsRead(n) /\ line = file.head[n + 1].word
                                        /\ buffer = Behind(file.head[n + 1].rest, n + 1)
  BY <1>2 DEF InLine
<1> DEFINE e == file.head[n + 1]
           a == After(file, n + 1)
           c == "\n"
<1>4. /\ n \in Nat /\ n + 1 \in 0 .. NHead(file) /\ HeadLine(e, file) /\ e.word \in Text
      /\ e.rest \in Text /\ Free(e.rest, c)
      /\ a \in Text /\ line = e.word /\ buffer = Good(e.rest \o (<<c>> \o a))
      /\ HeadRead(file, n, n_inputs, n_outputs, type)
  <2>1. n \in Nat /\ n + 1 \in 0 .. NHead(file)
    BY SizesAre
  <2>2. /\ HeadLine(e, file) /\ e.word \in Text /\ a \in Text
        /\ e.rest \in Text /\ Free(e.rest, c)
    BY AtLine
  <2>3. buffer = Good(e.rest \o (<<c>> \o a))
    BY <1>3 DEF Behind
  <2>4. line = e.word /\ HeadRead(file, n, n_inputs, n_outputs, type)
    BY <1>3 DEF HeadIsRead
  <2> QED  BY <2>1, <2>2, <2>3, <2>4
<1>5. e.word = TypeWord => HeadRead(file, n + 1, n_inputs, n_outputs, e.rest)
  BY <1>4, HeadStep
<1>6. c \in Chars
  BY CharsAre
<1>7. buffer' = getline(buffer, c).rest /\ (buffer.good => type' = getline(buffer, c).line)
  BY <1>1
<1> HIDE DEF e, a, c
<1>8. e.word = TypeWord
  <2>1. /\ \A x \in {"i", "o", "p"} : e.word # <<".", x>>
        /\ ~ Comment(e)
    BY <1>1, <1>4, DirectiveIs
  <2> QED  BY <1>4, <2>1, LineKinds
<1>9. getline(buffer, c).line = e.rest /\ getline(buffer, c).rest = Good(a)
  <2>1. /\ getline(Good(e.rest \o (<<c>> \o a)), c).line = e.rest
        /\ getline(Good(e.rest \o (<<c>> \o a)), c).rest = Good(a)
    BY <1>4, <1>6, GetlineCut
  <2> QED  BY <1>4, <2>1
<1>10. buffer.good
  BY <1>4 DEF Good
<1>11. HeadIsRead(n + 1)'
  BY <1>1, <1>5, <1>7, <1>8, <1>9, <1>10 DEF HeadIsRead
<1>12. buffer' = Good(After(file', n + 1)) /\ n + 1 \in 0 .. NHead(file')
  BY <1>1, <1>4, <1>7, <1>9 DEF a
<1>13. InHeader'
  <2>1. PICK m : m = n + 1
    OBVIOUS
  <2>2. m \in 0 .. NHead(file') /\ HeadIsRead(m)' /\ buffer' = Good(After(file', m))
    BY <1>11, <1>12, <2>1
  <2> QED  BY <2>2 DEF InHeader
<1> QED  BY <1>1, <1>13

\* A comment, or the end of a file without rows.
LEMMA IgnoredStep ==
  ASSUME file \in Files, file.plain, InLine, Ignored
  PROVE  file' = file /\ pc' = "skip" /\ InSkip'
<1>1. /\ ~ (At(1) = "." /\ At(2) \in {"i", "o", "p", "t"}) /\ pc' = "skip"
      /\ buffer' = buffer
      /\ file' = file /\ n_inputs' = n_inputs /\ n_outputs' = n_outputs /\ type' = type
  BY DEF Ignored, InDirective
<1>2. CASE HeadEnds /\ line = EndLine
  <2>1. HeadEnds'
    BY <1>1, <1>2 DEF HeadEnds, HeadIsRead
  <2> QED  BY <1>1, <2>1 DEF InSkip
<1>3. ASSUME NEW n \in 0 .. NHead(file) - 1, HeadIsRead(n), line = file.head[n + 1].word,
             buffer = Behind(file.head[n + 1].rest, n + 1)
      PROVE  InSkip'
  <2> DEFINE e == file.head[n + 1]
             u == e.rest
  <2>1. /\ n \in Nat /\ n + 1 \in 0 .. NHead(file) /\ HeadLine(e, file) /\ e.word \in Text
        /\ u \in Text /\ Free(u, "\n") /\ line = e.word /\ buffer = Behind(u, n + 1)
        /\ HeadRead(file, n, n_inputs, n_outputs, type)
    <3>1. n \in Nat /\ n + 1 \in 0 .. NHead(file)
      BY SizesAre
    <3>2. HeadLine(e, file) /\ e.word \in Text /\ u \in Text /\ Free(u, "\n")
      BY AtLine
    <3>3. line = e.word /\ HeadRead(file, n, n_inputs, n_outputs, type)
      BY <1>3 DEF HeadIsRead
    <3>4. buffer = Behind(u, n + 1)
      BY <1>3
    <3> QED  BY <3>1, <3>2, <3>3, <3>4
  <2>2. e.word[1] # "." => HeadRead(file, n + 1, n_inputs, n_outputs, type)
    BY <2>1, HeadStep
  <2> HIDE DEF e, u
  <2>3. e.word[1] # "."
    <3>1. /\ \A c \in {"i", "o", "p"} : e.word # <<".", c>>
          /\ e.word # TypeWord
      BY <1>1, <2>1, DirectiveIs
    <3>2. Comment(e)
      BY <2>1, <3>1, LineKinds
    <3> QED  BY <3>2 DEF Comment
  <2>4. PICK m : m = n + 1
    OBVIOUS
  <2>5. HeadIsRead(m)'
    <3>1. HeadRead(file, m, n_inputs, n_outputs, type)
      BY <2>2, <2>3, <2>4
    <3> QED  BY <1>1, <3>1 DEF HeadIsRead
  <2>6. m \in 0 .. NHead(file')
    BY <1>1, <2>1, <2>4
  <2>7. \E k \in 0 .. NHead(file'), v \in Text :
          /\ HeadIsRead(k)' /\ Free(v, "\n")
          /\ buffer' = Good(v \o (<<"\n">> \o After(file', k)))
    <3>1. buffer' = Good(u \o (<<"\n">> \o After(file', m)))
      BY <1>1, <2>1, <2>4 DEF Behind
    <3> QED  BY <2>1, <2>5, <2>6, <3>1
  <2> QED  BY <2>7 DEF InSkip, Behind
<1> QED  BY <1>1, <1>2, <1>3 DEF InLine

\* The rest of a line.
LEMMA SkipLineStep ==
  ASSUME file \in Files, file.plain, InSkip, SkipLine
  PROVE  file' = file /\ pc' = "header" /\ InHeader'
<1> DEFINE c == "\n"
<1>1. /\ pc' = "header" /\ buffer' = getline(buffer, c).rest
      /\ file' = file /\ n_inputs' = n_inputs /\ n_outputs' = n_outputs /\ type' = type
  BY DEF SkipLine
<1>2. CASE HeadEnds
  <2>1. buffer' = Exhausted
    BY <1>1, <1>2, AtEndLine DEF HeadEnds
  <2>2. HeadEnds'
    BY <1>1, <1>2, <2>1 DEF HeadEnds, HeadIsRead
  <2> QED  BY <1>1, <2>2 DEF InHeader
<1>3. ASSUME NEW n \in 0 .. NHead(file), NEW u \in Text, HeadIsRead(n), Free(u, c),
             buffer = Behind(u, n)
      PROVE  InHeader'
  <2> DEFINE a == After(file, n)
  <2>1. a \in Text
    <3>1. n \in 0 .. NLines(file)
      BY EntriesAre, SizesAre
    <3> QED  BY <3>1, AfterIs
  <2>2. buffer = Good(u \o (<<c>> \o a))
    BY <1>3 DEF Behind
  <2>3. c \in Chars
    BY CharsAre
  <2> HIDE DEF a, c
  <2>4. getline(Good(u \o (<<c>> \o a)), c).rest = Good(a)
    BY <1>3, <2>1, <2>3, GetlineCut
  <2>5. buffer' = Good(After(file', n))
    BY <1>1, <2>2, <2>4 DEF a
  <2>6. HeadIsRead(n)' /\ n \in 0 .. NHead(file')
    BY <1>1, <1>3 DEF HeadIsRead
  <2> QED  BY <2>5, <2>6 DEF InHeader
<1> QED  BY <1>1, <1>2, <1>3 DEF InSkip

\* The head has been read.
LEMMA HeaderReadStep ==
  ASSUME file \in Files, file.plain, InHeader, HeaderRead
  PROVE  file' = file /\ pc' = "rows" /\ HeadDone' /\ InRows'
<1>1. /\ peek(buffer) \notin {".", "#"} /\ pc' = "rows" /\ buffer' = buffer
      /\ _cubes' = [k \in 1 .. n_outputs |-> <<>>]
      /\ file' = file /\ n_inputs' = n_inputs /\ n_outputs' = n_outputs /\ type' = type
  BY DEF HeaderRead
<1>2. NHead(file) \in Nat /\ NRows(file) \in Nat
  BY SizesAre
<1>3. /\ HeadIsRead(NHead(file))
      /\ \/ buffer = Good(After(file, NHead(file))) /\ NRows(file) # 0
         \/ buffer = Exhausted /\ NRows(file) = 0
  <2>1. CASE HeadEnds
    BY <2>1 DEF HeadEnds
  <2>2. ASSUME NEW n \in 0 .. NHead(file), HeadIsRead(n), buffer = Good(After(file, n))
        PROVE  n = NHead(file) /\ NRows(file) # 0
    <3>1. n = NHead(file)
      <4> SUFFICES ASSUME n # NHead(file) PROVE FALSE
        OBVIOUS
      <4>1. n \in 0 .. NHead(file) - 1
        BY <1>2
      <4>2. peek(Good(After(file, n))) \in {".", "#"}
        BY <4>1, AtLine
      <4> QED  BY <1>1, <2>2, <4>2
    <3>2. NRows(file) # 0
      <4> SUFFICES ASSUME NRows(file) = 0 PROVE FALSE
        OBVIOUS
      <4>1. NHead(file) + NRows(file) = n
        BY <1>2, <3>1
      <4>2. buffer = Good(EndLine)
        BY <2>2, <4>1, SizesAre
      <4> QED  BY <1>1, <4>2, AtEndLine
    <3> QED  BY <3>1, <3>2
  <2> QED  BY <2>1, <2>2 DEF InHeader
<1>4. n_inputs = NVars /\ n_outputs = file.n_outputs /\ kind(type) = file.kind
  BY <1>3, HeadComplete DEF HeadIsRead
<1>5. HeadDone'
  BY <1>1, <1>4 DEF HeadDone
<1>6. _cubes' = CoversOf(file, 0)
  BY <1>1, <1>4, CoversStep
<1>7. InRows'
  <2>1. CASE buffer = Exhausted /\ NRows(file) = 0
    BY <1>1, <1>6, <2>1 DEF InRows, RowsEnd
  <2>2. CASE buffer = Good(After(file, NHead(file))) /\ NRows(file) # 0
    <3>1. NHead(file) + 0 = NHead(file) /\ 0 \in 0 .. NRows(file)
      BY <1>2
    <3>2. buffer' = Good(After(file', NHead(file') + 0)) /\ _cubes' = CoversOf(file', 0)
      BY <1>1, <1>6, <2>2, <3>1
    <3>3. 0 \in 0 .. NRows(file')
      BY <1>1, <3>1
    <3> QED  BY <3>2, <3>3 DEF InRows
  <2> QED  BY <1>3, <2>1, <2>2
<1> QED  BY <1>1, <1>5, <1>7

\* A row is begun, or the end met.
LEMMA ReadInputStep ==
  ASSUME file \in Files, file.plain, HeadDone, InRows, ReadInput
  PROVE  file' = file /\ pc' = "input" /\ HeadDone' /\ InRow'
<1>1. /\ pc' = "input"
      /\ line' = getline(buffer, " ").line /\ buffer' = getline(buffer, " ").rest
      /\ file' = file /\ n_inputs' = n_inputs /\ n_outputs' = n_outputs /\ type' = type
      /\ _cubes' = _cubes
  BY DEF ReadInput, ReadWord
<1>2. NHead(file) \in Nat /\ NRows(file) \in Nat
  BY SizesAre
<1>3. HeadDone'
  BY <1>1 DEF HeadDone
<1>4. CASE RowsEnd
  <2>1. line' = <<>> /\ buffer' = Exhausted
    BY <1>1, <1>4, AtEndLine DEF RowsEnd
  <2> QED  BY <1>1, <1>3, <1>4, <2>1 DEF InRow, RowsEnd
<1>5. ASSUME NEW r \in 0 .. NRows(file), buffer = Good(After(file, NHead(file) + r)),
             _cubes = CoversOf(file, r)
      PROVE  InRow'
  <2>1. CASE r = NRows(file)
    <3>1. buffer = Good(EndLine)
      BY <1>5, <2>1, SizesAre
    <3>2. line' = EndLine /\ buffer' = Exhausted
      BY <1>1, <3>1, AtEndLine
    <3> QED  BY <1>1, <1>5, <2>1, <3>2 DEF InRow, RowsEnd
  <2>2. CASE r # NRows(file)
    <3>1. r \in 0 .. NRows(file) - 1
      BY <1>2, <2>2
    <3>2. /\ getline(buffer, " ").line = str(file.rows[r + 1].cube)
          /\ getline(buffer, " ").rest =
               Good(Outs(file, r + 1) \o (<<"\n">> \o After(file, NHead(file) + (r + 1))))
      BY <1>5, <3>1, AtRow
    <3>3. /\ line' = str(file'.rows[r + 1].cube)
          /\ buffer' = Good(Outs(file', r + 1) \o (<<"\n">> \o After(file', NHead(file') + (r + 1))))
          /\ _cubes' = CoversOf(file', r) /\ r \in 0 .. NRows(file') - 1
      BY <1>1, <1>5, <3>1, <3>2
    <3> QED  BY <3>3 DEF InRow, Behind
  <2> QED  BY <2>1, <2>2
<1> QED  BY <1>1, <1>3, <1>4, <1>5 DEF InRows

\* The word of a row is understood.
LEMMA RowIsInput ==
  ASSUME NEW c \in Cubes, line = str(c), n_inputs = NVars
  PROVE  InputOK
<1>1. /\ Len(line) = NVars /\ NVars \in Nat
      /\ \A k \in 1 .. Len(line) : line[k] \in {"-", "0", "1"}
  BY StrIs
<1>2. At(1) # "."
  <2>1. 1 <= Len(line) => 1 \in 1 .. Len(line)
    BY <1>1
  <2> QED  BY <1>1, <2>1 DEF At
<1> QED  BY <1>1, <1>2 DEF InputOK, AtEnd

\* What is left of a row are its outputs.
LEMMA RowRest ==
  ASSUME file \in Files, file.plain, NEW r \in 0 .. NRows(file) - 1,
         buffer = Behind(Outs(file, r + 1), NHead(file) + (r + 1))
  PROVE  /\ getline(buffer, "\n").line = Outs(file, r + 1)
         /\ getline(buffer, "\n").rest = Good(After(file, NHead(file) + (r + 1)))
<1> DEFINE u == Outs(file, r + 1)
           a == After(file, NHead(file) + (r + 1))
           c == "\n"
<1>1. u \in Text /\ Free(u, c) /\ a \in Text /\ c \in Chars
  BY OutsAre, AtRow, CharsAre
<1>2. buffer = Good(u \o (<<c>> \o a))
  BY DEF Behind
<1> HIDE DEF u, a, c
<1>3. getline(buffer, c).line = u /\ getline(buffer, c).rest = Good(a)
  <2>1. /\ getline(Good(u \o (<<c>> \o a)), c).line = u
        /\ getline(Good(u \o (<<c>> \o a)), c).rest = Good(a)
    BY <1>1, GetlineCut
  <2> QED  BY <1>2, <2>1
<1> QED  BY <1>3 DEF u, a, c

\* A row.
LEMMA AddRowStep ==
  ASSUME file \in Files, file.plain, HeadDone, InRow, AddRow
  PROVE  file' = file /\ pc' = "rows" /\ HeadDone' /\ InRows'
<1>1. /\ pc' = "rows" /\ InputOK
      /\ _cubes' = add_cube(getline(buffer, "\n").line)
      /\ buffer' = getline(buffer, "\n").rest
      /\ file' = file /\ n_inputs' = n_inputs /\ n_outputs' = n_outputs /\ type' = type
  BY DEF AddRow
<1>2. NHead(file) \in Nat /\ NRows(file) \in Nat /\ file.n_outputs \in Nat
  BY SizesAre, FileIs
<1>3. HeadDone'
  BY <1>1 DEF HeadDone
<1>4. CASE RowsEnd /\ line \in {EndLine, <<>>}
  <2>1. line # EndLine
    BY <1>1, EndLineAt DEF InputOK, AtEnd
  <2>2. getline(buffer, "\n").line = <<>> /\ getline(buffer, "\n").rest = Exhausted
    BY <1>4, AtEndLine DEF RowsEnd
  <2>3. _cubes = CoversOf(file, NRows(file))
    BY <1>4 DEF RowsEnd
  <2> DEFINE o == <<>>
             m == file.n_outputs
  <2>4. Len(o) = 0 /\ _cubes' = add_cube(o)
    BY <1>1, <2>2
  <2> HIDE DEF o
  <2>5. _cubes = [k \in 1 .. m |-> _cubes[k]] /\ DOMAIN _cubes = 1 .. m
    BY <2>3 DEF CoversOf
  <2>6. add_cube(o) = [k \in 1 .. m |->
          IF k <= Len(o) /\ o[k] = "1" THEN Append(_cubes[k], CubeOf(line)) ELSE _cubes[k]]
    BY <2>5 DEF add_cube
  <2>7. \A k \in 1 .. m : ~ (k <= Len(o))
    BY <2>4
  <2>8. _cubes' = _cubes
    BY <2>4, <2>5, <2>6, <2>7
  <2> QED  BY <1>1, <1>3, <2>2, <2>3, <2>8 DEF InRows, RowsEnd
<1>5. ASSUME NEW r \in 0 .. NRows(file) - 1, line = str(file.rows[r + 1].cube),
             buffer = Behind(Outs(file, r + 1), NHead(file) + (r + 1)),
             _cubes = CoversOf(file, r)
      PROVE  InRows'
  <2> DEFINE o == Outs(file, r + 1)
             m == file.n_outputs
             c == file.rows[r + 1].cube
             new == CoversOf(file, r + 1)
             outs == file.rows[r + 1].outs
  <2>1. _cubes' = add_cube(o) /\ buffer' = Good(After(file, NHead(file) + (r + 1)))
    BY <1>1, <1>5, RowRest
  <2>2. CubeOf(line) = c
    <3>1. c \in Cubes
      BY AtRow
    <3> QED  BY <1>5, <3>1, CubeIsRead
  <2>3. DOMAIN _cubes = 1 .. m /\ DOMAIN new = 1 .. m /\ new = [k \in 1 .. m |-> new[k]]
    BY <1>5 DEF CoversOf
  <2>4. Len(o) = m /\ \A k \in 1 .. m : o[k] = IF k \in outs THEN "1" ELSE "0"
    BY OutsAre
  <2>5. \A k \in 1 .. m : new[k] = IF k \in outs THEN Append(_cubes[k], c) ELSE _cubes[k]
    BY <1>5, CoversStep
  <2> HIDE DEF o, m, c, new, outs
  <2>6. \A k \in 1 .. m : k <= Len(o) /\ (o[k] = "1" <=> k \in outs)
    BY <2>4
  <2>7. add_cube(o) = [k \in 1 .. m |->
          IF k <= Len(o) /\ o[k] = "1" THEN Append(_cubes[k], c) ELSE _cubes[k]]
    BY <2>2, <2>3 DEF add_cube
  <2>8. add_cube(o) = new
    BY <2>3, <2>5, <2>6, <2>7
  <2>9. PICK n : n = r + 1
    OBVIOUS
  <2>10. /\ n \in 0 .. NRows(file') /\ _cubes' = CoversOf(file', n)
         /\ buffer' = Good(After(file', NHead(file') + n))
    <3>1. n \in 0 .. NRows(file)
      BY <1>2, <2>9
    <3> QED  BY <1>1, <2>1, <2>8, <2>9, <3>1 DEF new
  <2> QED  BY <2>10 DEF InRows
<1> QED  BY <1>1, <1>3, <1>4, <1>5 DEF InRow

\* The end.
LEMMA LastRowStep ==
  ASSUME file \in Files, file.plain, HeadDone, InRow, LastRow
  PROVE  file' = file /\ pc' = "done" /\ HeadDone' /\ _cubes' = CoversOf(file', NRows(file'))
<1>1. /\ pc' = "done" /\ (InputOK => ~ OutputOK(getline(buffer, "\n").line))
      /\ file' = file /\ n_inputs' = n_inputs /\ n_outputs' = n_outputs /\ type' = type
      /\ _cubes' = _cubes
  BY DEF LastRow
<1>2. ASSUME NEW r \in 0 .. NRows(file) - 1, line = str(file.rows[r + 1].cube),
             buffer = Behind(Outs(file, r + 1), NHead(file) + (r + 1))
      PROVE  FALSE
  <2>1. file.rows[r + 1].cube \in Cubes
    BY AtRow
  <2>2. InputOK
    BY <1>2, <2>1, RowIsInput DEF HeadDone
  <2>3. getline(buffer, "\n").line = Outs(file, r + 1)
    BY <1>2, RowRest
  <2>4. OutputOK(Outs(file, r + 1))
    BY OutsAre DEF OutputOK, HeadDone
  <2> QED  BY <1>1, <2>2, <2>3, <2>4
<1>3. _cubes = CoversOf(file, NRows(file))
  BY <1>2 DEF InRow, RowsEnd
<1> QED  BY <1>1, <1>3 DEF HeadDone

-----------------------------------------------------------------------------
(* The invariant of reading. *)

\* At the beginning nothing of the file has been read.
LEMMA InitReadInv ==
  Init => ReadInv
<1> SUFFICES ASSUME Init PROVE ReadInv
  OBVIOUS
<1>1. /\ pc = "header" /\ file \in Files /\ buffer = Good(file.text)
      /\ n_inputs = 0 /\ n_outputs = 0 /\ type = <<>>
  BY DEF Init, Good
<1>2. ASSUME file.plain  PROVE InHeader
  <2>1. HeadIsRead(0)
    BY <1>1, HeadNone DEF HeadIsRead
  <2>2. buffer = Good(After(file, 0)) /\ 0 \in 0 .. NHead(file)
    <3>1. file.text = After(file, 0)
      BY <1>1, <1>2, AfterIs
    <3>2. 0 \in 0 .. NHead(file)
      BY <1>1, <1>2, SizesAre
    <3> QED  BY <1>1, <3>1, <3>2
  <2> QED  BY <2>1, <2>2 DEF InHeader
<1> QED  BY <1>1, <1>2 DEF ReadInv, PlainInv

\* Every step of reading keeps the invariant.
LEMMA NextReadInv ==
  ReadInv /\ [Next]_vars => ReadInv'
<1> SUFFICES ASSUME ReadInv, [Next]_vars PROVE ReadInv'
  OBVIOUS
<1>1. CASE UNCHANGED vars
  <2>1. /\ pc' = pc /\ file' = file /\ buffer' = buffer /\ line' = line
        /\ n_inputs' = n_inputs /\ n_outputs' = n_outputs /\ type' = type /\ _cubes' = _cubes
    BY <1>1 DEF vars
  <2>2. (InHeader' <=> InHeader) /\ (InLine' <=> InLine) /\ (InSkip' <=> InSkip)
    BY <2>1 DEF InHeader, InLine, InSkip, HeadEnds, HeadIsRead, Behind
  <2>3. (InRows' <=> InRows) /\ (InRow' <=> InRow) /\ (HeadDone' <=> HeadDone)
    BY <2>1 DEF InRows, InRow, RowsEnd, HeadDone, Behind
  <2> QED  BY <2>1, <2>2, <2>3 DEF ReadInv, PlainInv
<1>2. CASE Next
  <2>1. file' = file
    BY <1>2 DEF Next, Header, HeaderLine, Number, Type, Ignored, SkipLine, HeaderRead,
                ReadInput, AddRow, LastRow
  <2> SUFFICES ASSUME file.plain PROVE PlainInv'
    BY <2>1 DEF ReadInv
  <2>2. file \in Files /\ file.plain /\ PlainInv
    BY DEF ReadInv
  <2>3. CASE HeaderLine
    BY <2>2, <2>3, HeaderLineStep DEF PlainInv, HeaderLine
  <2>4. CASE Number
    BY <2>2, <2>4, NumberStep DEF PlainInv, Number, InDirective
  <2>5. CASE Type
    BY <2>2, <2>5, TypeActionStep DEF PlainInv, Type, InDirective
  <2>6. CASE Ignored
    BY <2>2, <2>6, IgnoredStep DEF PlainInv, Ignored
  <2>7. CASE SkipLine
    BY <2>2, <2>7, SkipLineStep DEF PlainInv, SkipLine
  <2>8. CASE HeaderRead
    BY <2>2, <2>8, HeaderReadStep DEF PlainInv, HeaderRead
  <2>9. CASE ReadInput
    BY <2>2, <2>9, ReadInputStep DEF PlainInv, ReadInput
  <2>10. CASE AddRow
    BY <2>2, <2>10, AddRowStep DEF PlainInv, AddRow
  <2>11. CASE LastRow
    BY <2>2, <2>11, LastRowStep DEF PlainInv, LastRow
  <2> QED  BY <1>2, <2>3, <2>4, <2>5, <2>6, <2>7, <2>8, <2>9, <2>10, <2>11 DEF Next, Header
<1> QED  BY <1>1, <1>2

\* A plain file that has been read has been read back.
LEMMA ReadInvReadsBack ==
  ReadInv => ReadsBack
<1> SUFFICES ASSUME ReadInv, pc = "done", file.plain
             PROVE  /\ n_inputs = NVars /\ kind(type) = file.kind
                    /\ _cubes = Covers32(file.rows, file.n_outputs)
  BY DEF ReadsBack
<1>1. HeadDone /\ _cubes = CoversOf(file, NRows(file))
  BY DEF ReadInv, PlainInv
<1>2. CoversOf(file, NRows(file)) = Covers32(file.rows, file.n_outputs)
  BY DEF CoversOf, Covers32, NRows
<1> QED  BY <1>1, <1>2 DEF HeadDone

-----------------------------------------------------------------------------
(* The function of the rows of an output. *)

\* One more cube at the end of a list.
LEMMA FunctionOfAppend ==
  ASSUME NEW s \in Seq(Cubes), NEW c \in Cubes
  PROVE  FunctionOf(Append(s, c)) = SymDiff(FunctionOf(s), OnSet(c))
<1> DEFINE t == Append(s, c)
           n == Len(s)
<1>1. /\ n \in Nat /\ DOMAIN s = 1 .. n /\ DOMAIN t = 1 .. n + 1
      /\ t[n + 1] = c /\ \A i \in 1 .. n : t[i] = s[i]
  BY AppendProperties
<1> HIDE DEF t
<1>2. EsopOfSeq(t, 1 .. n) = EsopOfSeq(s, 1 .. n)
  <2>1. ASSUME NEW x \in Points
        PROVE  {i \in 1 .. n : Covers(t[i], x)} = {i \in 1 .. n : Covers(s[i], x)}
    BY <1>1
  <2> QED  BY <2>1 DEF EsopOfSeq
<1>3. IsFiniteSet(1 .. n) /\ n + 1 \notin 1 .. n /\ (1 .. n) \cup {n + 1} = 1 .. n + 1
  <2>1. IsFiniteSet(1 .. n)
    BY <1>1, FS_Interval
  <2>2. n + 1 \notin 1 .. n /\ (1 .. n) \cup {n + 1} = 1 .. n + 1
    BY <1>1
  <2> QED  BY <2>1, <2>2
<1>4. EsopOfSeq(t, (1 .. n) \cup {n + 1}) = SymDiff(EsopOfSeq(t, 1 .. n), OnSet(t[n + 1]))
  BY <1>3, EsopOfSeqAdd
<1> QED  BY <1>1, <1>2, <1>3, <1>4 DEF FunctionOf, t

\* The cubes listed for an output have the function of its rows.
LEMMA FunctionOfRows ==
  ASSUME NEW f \in Files, NEW k
  PROVE  FunctionOf(Listed(f.rows, k)[NRows(f)]) =
           {x \in Points : Odd({m \in {n \in DOMAIN f.rows : k \in f.rows[n].outs} :
                                  Covers(f.rows[m].cube, x)})}
<1> DEFINE R    == NRows(f)
           q    == [m \in 1 .. R |-> f.rows[m].cube]
           own  == Listed(f.rows, k)
           I(r) == {m \in 1 .. r : k \in f.rows[m].outs}
           S    == {r \in Nat : r \in 0 .. R =>
                      own[r] \in Seq(Cubes) /\ FunctionOf(own[r]) = EsopOfSeq(q, I(r))}
<1>1. R \in Nat /\ DOMAIN f.rows = 1 .. R /\ \A m \in 1 .. R : f.rows[m].cube \in Cubes
  BY FileIs DEF NRows
<1>2. /\ own[0] = <<>> /\ \A r \in 0 .. R : own[r] \in Seq(Cubes)
      /\ \A n \in 1 .. R : own[n] = IF k \in f.rows[n].outs
                                      THEN Append(own[n - 1], f.rows[n].cube) ELSE own[n - 1]
  BY ListedRec
<1>3. \A m \in 1 .. R : q[m] = f.rows[m].cube
  OBVIOUS
<1> HIDE DEF R, q, own
<1>4. 0 \in S
  <2>1. I(0) = {}
    OBVIOUS
  <2>2. FunctionOf(own[0]) = EsopOfSeq(q, I(0))
    BY <1>2, <2>1, FunctionOfNone, EsopOfSeqEmpty
  <2> HIDE DEF I
  <2>3. 0 \in 0 .. R
    BY <1>1
  <2> QED  BY <1>2, <2>2, <2>3
<1>5. ASSUME NEW r \in Nat, r \in S  PROVE r + 1 \in S
  <2> SUFFICES ASSUME r + 1 \in 0 .. R
               PROVE  /\ own[r + 1] \in Seq(Cubes)
                      /\ FunctionOf(own[r + 1]) = EsopOfSeq(q, I(r + 1))
    OBVIOUS
  <2>1. PICK n : n = r + 1
    OBVIOUS
  <2>2. r \in 0 .. R /\ n \in 1 .. R /\ n \in 0 .. R /\ n - 1 = r
    BY <1>1, <2>1
  <2>3. own[r] \in Seq(Cubes) /\ FunctionOf(own[r]) = EsopOfSeq(q, I(r))
    BY <1>5, <2>2
  <2>4. own[n] \in Seq(Cubes)
    BY <1>2, <2>2
  <2>5. f.rows[n].cube \in Cubes /\ q[n] = f.rows[n].cube
    BY <1>1, <1>3, <2>2
  <2>6. 1 .. n = (1 .. r) \cup {n} /\ n \notin 1 .. r
    BY <2>1
  <2>7. IsFiniteSet(I(r)) /\ n \notin I(r)
    BY <2>6, FS_Interval, FS_Subset
  <2>8. CASE k \in f.rows[n].outs
    <3>1. I(n) = I(r) \cup {n}
      BY <2>6, <2>8
    <3>2. own[n] = Append(own[r], f.rows[n].cube)
      BY <1>2, <2>2, <2>8
    <3> HIDE DEF I
    <3>3. FunctionOf(own[n]) = SymDiff(FunctionOf(own[r]), OnSet(f.rows[n].cube))
      BY <2>3, <2>5, <3>2, FunctionOfAppend
    <3>4. EsopOfSeq(q, I(r) \cup {n}) = SymDiff(EsopOfSeq(q, I(r)), OnSet(q[n]))
      BY <2>7, EsopOfSeqAdd
    <3> QED  BY <2>1, <2>3, <2>4, <2>5, <3>1, <3>3, <3>4
  <2>9. CASE k \notin f.rows[n].outs
    <3>1. I(n) = I(r)
      BY <2>6, <2>9
    <3>2. own[n] = own[r]
      BY <1>2, <2>2, <2>9
    <3> QED  BY <2>1, <2>3, <2>4, <3>1, <3>2
  <2> QED  BY <2>8, <2>9
<1> HIDE DEF S
<1>6. \A r \in Nat : r \in S
  BY <1>4, <1>5, AllNumbers
<1>7. FunctionOf(own[R]) = EsopOfSeq(q, I(R))
  <2>1. R \in 0 .. R
    BY <1>1
  <2> QED  BY <1>1, <1>6, <2>1 DEF S
<1>8. I(R) = {n \in DOMAIN f.rows : k \in f.rows[n].outs}
  BY <1>1
<1>9. ASSUME NEW x \in Points
      PROVE  {m \in I(R) : Covers(q[m], x)} = {m \in I(R) : Covers(f.rows[m].cube, x)}
  BY <1>3
<1>10. EsopOfSeq(q, I(R)) = {x \in Points : Odd({m \in I(R) : Covers(f.rows[m].cube, x)})}
  BY <1>9 DEF EsopOfSeq
<1> QED  BY <1>7, <1>8, <1>10 DEF own, R

-----------------------------------------------------------------------------
(* The program. *)

\* Each cover minimised so far has the function of the cover that was read.
CoversKept ==
  /\ Len(_cubes) = file.n_outputs /\ Len(result) <= Len(_cubes)
  /\ result \in Seq(SUBSET Cubes)
  /\ \A k \in 1 .. Len(result) : EsopOf(result[k]) = FunctionOf(_cubes[k])

\* Minimising begins when the file has been read, or without one, with no cover.
WithFile == given.opens /\ pc = "done" /\ (file.plain => CoversKept)

ToolInv ==
  /\ ReadInv
  /\ stage \in {"options", "read", "exorcise", "exited"}
  /\ stage = "options" => _cubes = <<>> /\ result = <<>>
  /\ stage = "read" => given.opens /\ result = <<>>
  /\ stage = "exorcise" => WithFile \/ (_cubes = <<>> /\ result = <<>>)
  /\ stage = "exited" =>
       \/ result = <<>>
       \/ WithFile /\ (file.plain => Len(result) = Len(_cubes))

\* The program begins with options, no covers and no results.
LEMMA InitToolInv ==
  ToolInit => ToolInv
<1> SUFFICES ASSUME ToolInit PROVE ToolInv
  OBVIOUS
<1>1. ReadInv
  BY InitReadInv DEF ToolInit
<1> QED  BY <1>1 DEF ToolInit, Init, ToolInv

\* Nothing but reading touches what has been read.
LEMMA KeepsReading ==
  ASSUME ReadInv, UNCHANGED vars
  PROVE  ReadInv'
BY NextReadInv

\* Every step of the program keeps the invariant.
LEMMA NextToolInv ==
  ToolInv /\ [ToolNext]_<<mainVars, vars>> => ToolInv'
<1> SUFFICES ASSUME ToolInv, [ToolNext]_<<mainVars, vars>> PROVE ToolInv'
  OBVIOUS
<1>0. ReadInv
  BY DEF ToolInv
<1>1. ASSUME UNCHANGED vars
      PROVE  ReadInv' /\ pc' = pc /\ file' = file /\ _cubes' = _cubes
  BY <1>0, <1>1, KeepsReading DEF vars
<1>2. CASE UNCHANGED <<mainVars, vars>>
  BY <1>1, <1>2 DEF ToolInv, WithFile, CoversKept, mainVars
<1>3. CASE Usage
  BY <1>1, <1>3 DEF ToolInv, Usage, Exit
<1>4. CASE Refuse
  BY <1>1, <1>4 DEF ToolInv, Refuse, Parsed, Exit
<1>5. CASE Open
  BY <1>1, <1>5 DEF ToolInv, Open, Parsed
<1>6. CASE ReadStep
  <2>1. ReadInv' /\ stage' = "read" /\ given' = given /\ result' = result
    BY <1>0, <1>6, NextReadInv DEF ReadStep, mainVars
  <2> QED  BY <1>6, <2>1 DEF ToolInv, ReadStep
<1>7. CASE ReadDone
  <2>1. /\ ReadInv' /\ pc' = pc /\ file' = file /\ _cubes' = _cubes
        /\ pc = "done" /\ stage = "read" /\ stage' = "exorcise"
        /\ given' = given /\ result' = result
    BY <1>1, <1>7 DEF ReadDone
  <2>2. given.opens /\ result = <<>>
    BY <2>1 DEF ToolInv
  <2>3. file.plain => CoversKept
    <3> SUFFICES ASSUME file.plain PROVE CoversKept
      OBVIOUS
    <3>1. _cubes = CoversOf(file, NRows(file))
      BY <1>0, <2>1 DEF ReadInv, PlainInv
    <3>2. file.n_outputs \in Nat
      BY <1>0, FileIs DEF ReadInv
    <3>3. Len(_cubes) = file.n_outputs
      BY <3>1, <3>2 DEF CoversOf
    <3> DEFINE z == <<>>
               T == SUBSET Cubes
    <3>4. Len(z) = 0 /\ z \in Seq(T) /\ result = z
      BY <2>2
    <3> HIDE DEF z, T
    <3> QED  BY <3>2, <3>3, <3>4 DEF CoversKept, T
  <2> QED  BY <2>1, <2>2, <2>3 DEF ToolInv, WithFile, CoversKept
<1>8. CASE Exorcise
  <2>1. /\ ReadInv' /\ pc' = pc /\ file' = file /\ _cubes' = _cubes
        /\ stage = "exorcise" /\ stage' = "exorcise" /\ given' = given
        /\ Len(result) < Len(_cubes)
    BY <1>1, <1>8 DEF Exorcise
  <2>2. PICK t \in Minimised(_cubes[Len(result) + 1]) : result' = Append(result, t)
    BY <1>8 DEF Exorcise
  <2>3. WithFile
    <3>1. _cubes = <<>> /\ result = <<>> => ~ (Len(result) < Len(_cubes))
      OBVIOUS
    <3> QED  BY <2>1, <3>1 DEF ToolInv
  <2>4. file.plain => CoversKept'
    <3> SUFFICES ASSUME file.plain PROVE CoversKept'
      OBVIOUS
    <3> DEFINE T == SUBSET Cubes
               n == Len(result)
               r == Append(result, t)
    <3>1. CoversKept /\ file.n_outputs \in Nat
      BY <1>0, <2>3, FileIs DEF WithFile, ReadInv
    <3>2. t \in T /\ EsopOf(t) = FunctionOf(_cubes[n + 1])
      BY DEF Minimised, FunctionOf
    <3>3. result \in Seq(T) /\ n \in Nat
      BY <3>1 DEF CoversKept
    <3> HIDE DEF T
    <3>4. /\ r \in Seq(T) /\ Len(r) = n + 1 /\ r[n + 1] = t
          /\ \A k \in 1 .. n : r[k] = result[k]
      BY <3>2, <3>3, AppendProperties
    <3>5. result' = r /\ \A k \in 1 .. n + 1 : k \in 1 .. n \/ k = n + 1
      BY <2>2, <3>3
    <3> HIDE DEF r
    <3>6. \A k \in 1 .. Len(r) : EsopOf(r[k]) = FunctionOf(_cubes[k])
      BY <3>1, <3>2, <3>4, <3>5 DEF CoversKept
    <3>7. Len(r) <= Len(_cubes)
      BY <2>1, <3>1, <3>3, <3>4 DEF CoversKept
    <3> QED  BY <2>1, <3>1, <3>4, <3>5, <3>6, <3>7 DEF CoversKept, T
  <2>5. WithFile'
    BY <2>1, <2>3, <2>4 DEF WithFile
  <2> QED  BY <2>1, <2>5 DEF ToolInv
<1>9. CASE Return
  BY <1>1, <1>9 DEF ToolInv, Return, Exit, WithFile, CoversKept
<1>10. CASE Terminated
  BY <1>1, <1>10 DEF ToolInv, Terminated, WithFile, CoversKept, mainVars
<1> QED  BY <1>2, <1>3, <1>4, <1>5, <1>6, <1>7, <1>8, <1>9, <1>10 DEF ToolNext

\* A plain file is read back as it was written: the number of its inputs, its
\* kind, and the cubes of its rows in their order, per output; whatever lines its
\* head has in whatever order, and for rows of no inputs or no outputs too.
THEOREM FileReadBack == Spec => []ReadsBack
<1>1. ToolInit => ToolInv
  BY InitToolInv
<1>2. ToolInv /\ [ToolNext]_<<mainVars, vars>> => ToolInv'
  BY NextToolInv
<1>3. ToolInv => ReadsBack
  BY ReadInvReadsBack DEF ToolInv
<1> QED  BY <1>1, <1>2, <1>3, PTL DEF Spec

\* The invariant says it of the program's end.
LEMMA ToolInvMinimises ==
  ToolInv => MinimisesFile
<1> SUFFICES ASSUME ToolInv, stage = "exited", result # <<>>, file.plain
             PROVE  /\ given.opens /\ Len(result) = file.n_outputs
                    /\ \A k \in DOMAIN result :
                         LET own == {m \in DOMAIN file.rows : k \in file.rows[m].outs} IN
                           EsopOf(result[k]) =
                             {x \in Points : Odd({m \in own : Covers(file.rows[m].cube, x)})}
  BY DEF MinimisesFile
<1>1. given.opens /\ pc = "done" /\ CoversKept /\ Len(result) = Len(_cubes)
  BY DEF ToolInv, WithFile
<1>2. Len(result) = file.n_outputs /\ DOMAIN result = 1 .. Len(result)
  BY <1>1 DEF CoversKept
<1>3. file \in Files /\ _cubes = CoversOf(file, NRows(file))
  BY <1>1 DEF ToolInv, ReadInv, PlainInv
<1>4. ASSUME NEW k \in DOMAIN result
      PROVE  EsopOf(result[k]) =
               {x \in Points : Odd({m \in {n \in DOMAIN file.rows : k \in file.rows[n].outs} :
                                      Covers(file.rows[m].cube, x)})}
  <2>1. EsopOf(result[k]) = FunctionOf(_cubes[k])
    BY <1>1, <1>2 DEF CoversKept
  <2>2. _cubes[k] = Listed(file.rows, k)[NRows(file)]
    BY <1>2, <1>3 DEF CoversOf
  <2> QED  BY <1>3, <2>1, <2>2, FunctionOfRows
<1> QED  BY <1>1, <1>2, <1>4

\* For a plain file of any number of outputs the program minimises a cover per
\* output, and each has the function that the rows listed for the output have as
\* an exclusive sum, whatever the minimiser returns that keeps functions; without
\* a file there is no cover.
THEOREM FileMinimised == Spec => []MinimisesFile
<1>1. ToolInit => ToolInv
  BY InitToolInv
<1>2. ToolInv /\ [ToolNext]_<<mainVars, vars>> => ToolInv'
  BY NextToolInv
<1>3. ToolInv => MinimisesFile
  BY ToolInvMinimises
<1> QED  BY <1>1, <1>2, <1>3, PTL DEF Spec

=============================================================================
